# kmip-gateway in TLA+

Specifications of the Privasys kmip-gateway: the life of its configuration, the
schedule on which it refreshes its attestation token, the requests it serves, the
way it finds keys on a constellation of vaults, and the proxy through which clients
reach it. TLC model-checks them on small instances; TLAPS proves properties of the
configuration, the schedule, the request surfaces, the session, the stripping of responses, the proxy
and the composition of proxy and gateway for every value of their constants.

## The system

| part | code | state | operations |
|---|---|---|---|
| start and persistence | `main.go` | `/data/config.json` (sealed volume) | re-apply at start, lift the freeze gate, persist on `/configure` |
| `configManager` | `main.go` | `cfg` under `mu`, `reload` (channel of one place) | `set`, `get`, `run` |
| control HTTP surface | `internal/control` | `sess` and `kmip` under `mu` | `/configure`, `/kmip`, `/keys`, `/sign`, `/public`, read-only pages |
| KMIP front-end | `internal/kmip` | none | seven operations, type mappings, `stripCorrelation` |
| vault session | `internal/vault` | its `Config`, fixed at `New` | `Create`, `Destroy`, and through `withHolder` `Wrap`, `Unwrap`, `Sign`, `GetKeyInfo` |
| control-plane client | `internal/platform` | none | `Discover`, `MintKeyGrant` (`RotateKeyGrant` has no caller) |
| identity minter | `internal/identity` | the library's cached identity | forwards to the RA-TLS library |
| kmip-proxy | `cmd/kmip-proxy` | one verified connection per client | relays KMIP messages |

Outside the process: the in-TD manager (mints identities, keeps every path but
`/configure` at 503 until the gate is lifted), the control plane (who owns which
vault, the catalogue of keys, the active constellation and its token) and the vaults.

How they interact. `main` starts three kinds of goroutines: itself (boot, then
the HTTP server), `run`, and one per HTTP request. A `/configure` handler writes the
file, replaces `cfg` and puts a token in `reload`; `run` reads `cfg`, discovers
the constellation over the network and installs a new session with `SetSession`;
every request takes the session that is installed as it begins and keeps it. Keys live
whole on one vault. `Create` stores on the first endpoint of the *grant*; everything else
walks the endpoint list of the *session*, from its last discovery.

What is hard: wake-ups coalesced in the channel while a discovery is slow; stale
sessions installed late; file and memory updated in two steps; crashes between any two
steps; a walk over several vaults that is not atomic; lost answers; two endpoint lists
that drift apart; a refresh margin that has to cover a timeout, a pause and a second try;
nested lengths edited in place; relayed messages whose answers are lost. `PROJECT.json` lists each hazard at its line with the
properties that cover it.

What makes each part correct:

* configuration: no submission is forgotten, file and memory agree, a restart goes on with
  the latest config, the gate opens when there is a config and not before;
* refresh: the token does not lapse, and a lapse is not for ever;
* session: a destroyed key is gone, a key that is there is found, no key is stored that
  the catalogue does not know;
* front-end: an answer stands for what happened on the vault it was served from;
* proxy: answers pair with messages, a message is sent once and only to an enclave, nobody is left
  behind but in a call without a deadline, and a served client stays served;
* stripping: the message is the same message, and its framing is right.

## Modules

| module | models | runs |
|---|---|---|
| `ConfigManager` | boot, `/configure`, `run`, crash and restart, freeze gate, sealed file | `config_*` |
| `ConfigManagerProofs` | theorems about it | TLAPS |
| `RefreshSchedule` | `run` with its durations and the token's life | `refresh_*` |
| `RefreshScheduleProofs` | theorems about it | TLAPS |
| `VaultSession` | concurrent requests on several vaults | `session_*` |
| `VaultSessionProofs` | theorems about it | TLAPS |
| `Frontend` | requests of both surfaces against a session | `frontend_*` |
| `FrontendProofs` | theorems about it | TLAPS |
| `KeyStore` | abstract: what the gateway promises of keys | `session_anchored`, `frontend_requests` (as `AtomicStore`) |
| `Ttlv` | `stripCorrelation`, against a reference on trees | `ttlv` |
| `TtlvProofs` | theorems about it | TLAPS |
| `KmipProxy` | kmip-proxy between a client and the gateway's `/kmip` | `proxy` |
| `KmipProxyProofs` | theorems about it | TLAPS |
| `Gateway` | `ConfigManager` and `KmipProxy` composed | `gateway` |
| `GatewayProofs` | theorems about the composition | TLAPS |

Each `MC*` module gives the constants of its specification values for TLC. Operators whose
comment begins "A mutated ..." are not part of a specification: each is a definition with
a plausible bug in it, and `PROJECT.json` (`mutants`) says which property notices.

### ConfigManager

`boot` is where `main` is: reading the file, lifting the gate, about to serve, serving.
`hpc[h]`, `hcfg[h]` are a `/configure` goroutine and its local `cfg`. Its steps are the places where
others can interleave: open with truncation, write, `cm.set` under the lock, the send, the
answer. `lpc`, `lcfg` are `run` and its local `cfg`. `sess` is the config of the installed
session. The file is a config, nothing, or `Torn` (does not parse), and `flen` its length,
because two writers that share a file may leave the end of the longer text behind the
shorter one. `Crash` keeps the file only and arms the gate. `acked` and `newer` are history.
A handler cut off by a crash is gone: its request was never answered.

Time is abstracted here: a sleep may end at any moment, a discovery may take any time.

### RefreshSchedule

The same loop without configs, in units of time. `timer` is what is left of the sleep, `spent` what
a discovery has taken, `left` what the installed token has left. A token is *sound* when its
expiry was told and leaves room for the shortest sleep and the margin. The other tokens get a
sleep that does not depend on their life, and the module says nothing of them beyond `LapseHeals`.

The deadline of a discovery is that of its context, 45 s, and `Tick` assumes it: nothing shows that the code keeps it.
`HeaderIdentity` ignores the context (`internal/identity/manager.go:67`), so the mint, a local call, is taken to return in time.

`fails` and `listed` are history. The claim about sound tokens is for `Mild` failures: at most one discovery has failed and none has
answered without the vault since the installation. One such answer is no failed discovery and gets the longest sleep,
30 minutes (`NotOwned`), which outlasts the margin: a token that has less left then lapses, even if the vault is listed again at once.

### VaultSession

`req[r]` is a request with its locals: the endpoint list it uses, the index, `deleted` and which endpoints have failed (`errs`; `lastErr` is not
nil once there is one). Each vault contacted is one step, so that requests interleave between vaults. A call may fail and leave the vault as it
was, be answered, or be given up without an answer (`PutLost`, `DeleteLost`); what was given up is `late`, and the vault may carry it
out at once or any time later (`Settle`), when its request has been answered and other requests have come and gone. Wrap, Unwrap, Sign and GetKeyInfo are one kind of request
("use"), for they differ only in what they ask of the vault they find. External, as the code uses it: a vault says
"not found" when it holds nothing of that name, `CreateKey` may replace material of the same name
or fail, the platform catalogues a key before it answers. `Create` stores under the handle of the grant and the others ask for
`s.Handle(name)`; the model takes the two for the same, which the code does not check.

### Frontend

A request arrives in one step (decoded, checked, and refused or about to call the session it took). The call then acts, and returns, in steps
of their own, next to those of other requests and to re-points by `SetSession`. It may fail before it has acted or after
(`CallFails`), and a Create or Destroy that has failed may act later still (`CallGivenUp`, `Settle`): the outcomes that `KeyStore`
has, and `VaultSession` implements. Each handler maps every error to one answer, and so does `Failed`.

`KeyTypeFor` and `KmipTypeFor` are the two tables of `attrs.go`, all rows. A vault may hold keys that others have made, of types the gateway
does not create: an HmacSha256Key, or one that `kmipTypeFor` does not know. `NameIn` and `NameValue` are the lookup of a name
among the attributes of a request: the first attribute called Name decides, and one that cannot be read counts as none.

### KeyStore, and what implements it

An abstract store holds at most one key under a name. A request is asked, acts at one moment
(`Change` for a create or destroy, `Use`) or gives up without having acted, and is answered. An answer other than "failed" tells the truth of
that moment. "failed" says nothing: the request may have acted, and one that has not may act later (`GiveUpInFlight`, `Settle`).
Two modules implement it, each checked as a `PROPERTY` (`AtomicStore`) and proved:

* `VaultSession` while the layout keeps its first vault; the others may come and go. The material on the *first* vault of the layout is the key: `Create`
  puts it there (`session.go`: "single-enclave: the first (deterministic) vault holds it"). So a walk acts
  when it contacts the first vault, and the rest of it decides only what can be told. `Job` and `Told` are the mapping.
  When the first vault changes this is false, as `session_moved_key` shows.
* `Frontend`. A key is filed under a vault and a name; a refused request never asks.
  The mapping ties a request to the vault of the session that it took, so a re-point in between must not show.

### KmipProxy

`conn[c]` is a local connection: `pc` is where the goroutine `serve` is, `peer` and `open` the connection to the gateway, `sent`
and `eof` what the client has written and that it stops, `post` the POST under way. A client writes ahead or leaves at
any moment. A POST whose connection breaks may be lost or run all the same, also after `serve` has closed.
`done` and `out` are history: what the gateway has run, and on what, and which messages the answers are for.
Lengths are in bytes: the proxy reads values of up to `RelayLimit` (16 MiB), the gateway bodies of up to `BodyLimit` (1 MiB), which
include the 8 bytes of the header, and what is cut short does not decode (`Result`). Without `--insecure` a quote is verified remotely, with it locally; either way `Verify` stands for
`VerifyCertificate`. A 2xx of the gateway is relayed, any other status closes the connection.

The gateway is reduced to `serving`: frozen, without a session, or the vault of its session. The module
assumes that it advances (`ServingAdvances`) until it is restarted.

### Gateway

`ConfigManager` and `KmipProxy`, with `Serving` for `serving`: the gate comes first, then the installed session. `Crash` takes the requests under
way with it; all other steps belong to one side. `ImplementsProxy` discharges the assumption of `KmipProxy`, so that its properties are
properties of the whole. `vetted` is history: the configs that a discovery of this process has found listed.

### Ttlv

Buffers are sequences of 8-byte words with a tail of up to 7 bytes. This is exact: the code reads
headers at multiples of 8 only. `Walk` is the loop that both functions contain: where it stands after each round, as a function
of the number of rounds. A structure's parts may be structures in turn, of any depth, as the ProtocolVersion of every header is. The reference (`Encode`, `Uncorrelated`) works on message trees and never looks at a byte. `Tags` are the tags
an element may have; all but four of them are alike to the code.

## Runs

Passing:

| run | instance | shows |
|---|---|---|
| `config_concurrent` | two configs of different length, two handlers, failing volume, fairness | `TypeOK`, `NoLostReload`, `GateOpenOnlyConfigured`, `Converges` |
| `refresh_schedule` | durations of `main.go` in units of 15 s, eight lifetimes around every threshold, all failures, fairness | `TypeOK` (no sleep beyond maxRefresh), `SoundTokenAlive`, its inductive form `SoundTokenReserve`, `LapseHeals` |
| `session_anchored` | three vaults, two requests, one name, two materials, one late call, layouts `<<e1,e2>>` and `<<e1,e3>>` | `DestroyedIsGone`, `AbsentIsAbsent`, `AtomicStore` |
| `session_moving` | the same, layouts `<<e1,e2>>`, `<<e2>>`, `<<>>` | `TypeOK`, `MaterialCatalogued`, `ScanIsComplete` |
| `frontend_requests` | two vaults, two requests, one name, one key of somebody else (HMAC or unknown type) and one of the gateway's, one late call | `TypeOK`, `CreatedIsThere`, `AttributesTruthful`, `AtomicStore` |
| `ttlv` | 10 021 messages, 193 262 raw buffers | `StripsExactly`, `Idempotent`, `FramingKept` |
| `proxy` | one connection at a time, three messages, each one that fits, one the gateway cuts short or one the proxy refuses, fairness | `TypeOK`, `AnswersPaired`, `OneInDoubt`, `NoGap`, `AnsweredOrClosed` |
| `gateway` | two configs, one handler, volume works, one connection with one message | `SettledOnDisk`, `ReappliedIsLatest`, `RunsOnVetted`, `ImplementsProxy` |

Violations, each a disagreement between the code and what it says of itself (`findings` in `PROJECT.json`
quotes the lines):

| run | what happens |
|---|---|
| `config_disk_race` | two overlapping submissions end with one config in the file and the other in use |
| `config_gate` | one failed `config-complete` call after a restart leaves a configured gateway frozen |
| `refresh_near_expiry` | a token with half a minute left is refreshed after a minute |
| `session_moved_key` | `Destroy` on an old endpoint list succeeds and the key stays where the grant put it |

Seen in the models and not given a run of their own:

* A Create whose object type contradicts its algorithm (a SymmetricKey for HMAC, a PrivateKey for AES) succeeds with a key for another
  algorithm (`KeyTypeFor`), although `handleCreate` says that the algorithm or the type selects. For the same reason the two tables of
  `attrs.go` disagree on HmacSha256Key: GetAttributes reports SymmetricKey and HMAC, and a Create that asks for just that makes
  an AES key. `AttributesTruthful` claims the round trip of the types the gateway makes only.
* A crash between truncation and write loses the config before as well as the one submitted (`HandlerOpen`, the last case of `ReappliedIsLatest`).
  With a volume that may fail, a restart goes back to the config before the last one.
* A vault that is no longer listed keeps its session (`LoopNotOwned`); the loop looks again after 30 minutes, token or not (`NotOwned`).
* An unreachable vault next to a deletion makes `Destroy` succeed (`DestroyEnd`); what that vault holds is left (`ScanIsComplete`).
* `Destroy` of a name that never existed succeeds (`DestroyActs`), although `handleLocate` says that an unknown identifier fails later.
* A message damaged behind its ResponseHeader is stripped all the same, although `stripCorrelation` says that it returns malformed
  input unchanged.

### Bounds

* Two configs and two handlers: a race needs two submissions, and the third party is the loop. The theorems
  cover any number.
* Lifetimes 0, 2, 11, 12, 13, 60, 128, 140 units: expired, below the shortest sleep, one to each side of
  shortest sleep plus margin (12), ordinary, exactly and beyond longest sleep plus margin (128).
  A life of 0 is installed like any other and does not count as healed (`LapseHeals`). `fails` counts to 2, which means "two or more".
* `MaxKeys` bounds the materials and keys created, to two: a key is created, destroyed or replaced and created again; requests repeat
  without bound. `MaxLate` bounds the calls under way that nobody waits for, to one: its effect may come between any two steps of the others.
* Two of three vaults in each layout of `session_anchored`: the first and another one, which changes. In `session_moving` the list loses its first vault, or all.
* `frontend_requests` takes names from the client only (`Generated` is empty). What differs for generated ones is that nobody else asks for them.
  Requests have up to two attributes, so that a second Name, or one that cannot be read, may hide the first.
  Object types and algorithms are one that selects by type, one that selects by algorithm and one the gateway refuses.
* `proxy`: three messages are one answered, one in doubt and one written ahead. Connections share nothing but the gateway's
  session, so one at a time is enough for TLC; the theorems cover any number.
* `gateway`: one message is enough for `ImplementsProxy`, for the composition constrains the session and never the
  connection. The two configs are interchangeable there (symmetry).
* The messages of `proxy` are one of exactly 1 MiB with its header, one of 8 bytes more and one beyond 16 MiB.
* Raw buffers have up to five words, of kinds chosen so that lengths end before, at, inside and after a word
  and the buffer; messages have up to three elements, headers up to three children, one of them
  a ProtocolVersion whose own parts bear the tags of correlation values.
* Symmetry (interchangeable requests, clients and vaults) is used in safety runs only.

### Fairness

`ConfigManager`: weak fairness of `main`'s, the loop's and each handler's steps, because runnable goroutines run,
timers fire and every network call has a deadline. Strong fairness of `LoopDiscoverOk`: a discovery that
is repeated for ever on an owned vault succeeds at some time. Nothing makes anybody submit a config,
crash or change ownership. `RefreshSchedule`: time passes, timers fire, a discovery ends by its deadline, and of infinitely many
one installs a token with some life left. In both the identity mint inside a discovery is taken to return, though it has no deadline of its own.

`KmipProxy`: `serve` takes the steps that depend on nobody else (`OwnStep`): it reads what has arrived, posts what it has read, relays what was
answered, and its dial has 60 s. Nothing is assumed of the gateway's handler, which may never answer (`vsdk.Dial` and the vault calls get the request's
context, and that has no deadline), nor that a broken connection is noticed, a quote verified or an answer taken by the client. `AnsweredOrClosed`
names the three calls in which `serve` may therefore stay for ever (`Waiting`: `VerifyCertificate`, `HTTPDo`, `c.Write`), and says that the client is
left behind nowhere else. `Gateway` is checked without fairness.

## Proofs

All theorems hold for every value of the constants under the named assumptions (`ConfigAssumption`,
`ScheduleAssumption`, `SessionAssumption`, `FrontendAssumption`, `TtlvAssumption`, `ProxyAssumption`, `GatewayAssumption`), which TLC evaluates on each run.
What a theorem assumes beyond them is in its statement.

`ConfigManagerProofs`
* `TypeCorrect`. In particular `run` never dereferences a nil config.
* `ReloadNeverLost`. `NoLostReload` is inductive with the types. A handler that makes the loop's config
  stale stands at the send until the token is in the channel, and only the loop takes it out, on
  its way to reading `cfg`. The case that matters is a send that finds the channel full: the token that
  is there does as well.
* `GateSafe`. `GateOpenOnlyConfigured` alone is not inductive; `ConfigBeforeLift` adds that whoever is
  about to open the gate (`main` at "lift", a handler past `cm.set`) has published a config.
* `SettledConfigOnDisk`, `RestartIsLatest`, under `Serial`: requests to `/configure` do not overlap and the volume
  does not fail. `SerialInv` says, for each step of the handler, how far its config has got into the
  file and into memory, that what the file holds is the last acknowledged config or a newer one, and that it is torn only by a submission
  not yet acknowledged. Without
  `Serial` both are false: `config_disk_race`.

`RefreshScheduleProofs`
* `TypeCorrect`, with no sleep beyond maxRefresh. `DeadlineHolds` restates the assumption on discoveries in `Tick`, for use below.
* `ReserveKept`: `Reserve` is the time each stage of the loop still needs until the next
  installation, counting one failed discovery and no answer without the vault (`Mild`). An installation starts with the margin, each unit of time
  takes one from the token and one from the reserve, and a failure at any moment of the discovery leaves
  what the pause and the second one need. The assumption on the durations is the inequality
  45 + 30 + 45 <= 120, which `main.go` meets with nothing to spare.
* `SoundTokenSurvives` follows.

`VaultSessionProofs`
* `TypeCorrect`, `StoredIsCatalogued`, `ScanComplete`, for any endpoint lists. The invariant: a scan has left
  nothing of what it saw at its beginning on those endpoints it has passed that answered (`Walked`), errors elsewhere or not. What keeps this true while others create, and while
  calls act late, is `Fresh` and `LateSound`: material that is still to be stored is new to every vault, every request's memory, every other create and
  every other late call. That is the code's key generation, which `BeginCreate` models by a number not used before.
* `DestroyedGone`, `AbsentAbsent` under `Anchored`: the constellation may change at any time, sessions may lag, as long as
  every list begins with the same vault. `OnFirst` and `LateOnFirst` say that only this vault ever holds material or will, so that a walk knows after its first
  answer all there is to know (`Settled`): a vault it cannot reach afterwards, which `Destroy` does not report once it has deleted
  something, has nothing. `Anchored` cannot be dropped: `session_moved_key`.
* `SessionIsAtomicStore` under `Placed`: moreover no list names its first vault twice. A walk that met it again would act again, on
  material of another create. The refinement has one lemma per action; each says which step of `KeyStore` it is, or none. A call given up at the first
  vault is `GiveUpInFlight` there.

`FrontendProofs`
* `TypeCorrect`, `CreatedThere`, `AttributesTrue`. `Stands` says what an answer is the truth of: the key with that number is still under that name on that
  vault, or has gone. Every change of a vault, late ones included, is a replacement or a removal of one key, which puts the old one among those gone, so
  that no other request's answer becomes false. `Agree` says that a number has one type wherever it is known, in vaults, late calls and requests.
  `TypesInverse` is the fact about the two tables of `attrs.go`.
* `FrontendIsAtomicStore`. A re-point changes nothing in `KeyStore`, for the mapping files keys under the vault that a request took as it began. `CallsApart`
  says that two late calls are never the same one to `KeyStore` (creates carry numbers of their own).

`KmipProxyProofs`
* `TypeCorrect`, `AnswersStayPaired`, `OnlyOneInDoubt` from one invariant of a connection. `Account` says, for each place where `serve` can be, how many
  messages it has read, how many the gateway has run and how many are answered. Before a POST the three numbers agree but for the message
  in hand; while one is under way its message has not run; a connection that was closed over a POST leaves exactly that message open.
  `AnswersPaired` and `OneInDoubt` are not inductive without these numbers. Clients that leave or write ahead do not enter into them, and a restart
  only into those of the message that was taken.
* `ServiceWithoutGap`. `Unbroken` adds what `NoGap` does not say: whoever has an answer, or is about to get one, faces a gateway with a
  session, as long as no restart has touched the connection. It needs `ServingAdvances`.

`GatewayProofs`
* `GatewayImplementsProxy`, the refinement. `ServingKept` goes through every step of `main`, the handlers and the loop: the gate is lifted, a session is
  installed (and the loop's config is one, by the types of `ConfigManager`), or nothing shows. Any number of handlers, failing volumes included.
* `OnlyVettedRun`. `Vetted` adds to `RunsOnVetted` that the installed session and the config about to be installed were listed by a discovery of this process.
* `NoGapInService`: `NoGap` of the whole system, from the refinement and `ServiceWithoutGap`.

`TtlvProofs`, for messages and buffers of any length and content
* `Invariant`: what `HandleMessage` is given is a buffer, the encoding of a message or not, and what it sends is that buffer stripped.
  The rest is about the function.
* `FramingIsKept`. A buffer comes out as it was or with one element, its first ResponseHeader, replaced by a shorter one (`StripForm`),
  and the length of the message is corrected by the difference.
* `StrippingIsIdempotent`, also where the message is damaged behind its header. The loop finds the header again where
  it was (`SameHeader`: two values with the same first words are walked over alike), and there is nothing left in it to remove, for
  what was kept is elements, end to end, none of them a correlation value (`Tiled`, `HeaderStays`).
* `ResponseStripped`, for messages of any number of elements, with parts of any size and, where they are structures, of any depth and content. Over the encoding of a message the loop stands between elements only, so that a value that looks like a header is
  never taken for one (`FullWalk`, `HeadersExact`); what it keeps of a header is the encoding of the other children (`KeptExact`), and to
  replace one element is to replace one part of what was flattened (`FlatReplace`).
* These are inductions over the rounds of a loop and the length of a sequence. Each is carried out on the *set* of numbers up to n for
  which the claim holds (`Induction`, from the least element of a set of numbers that is not empty). That the recursive functions
  inside `Walk` and `FlattenSeq` exist is proved the same way (`WalkExists`, `FlatExists`).

With TLC only: the liveness properties `Converges`, `LapseHeals` and `AnsweredOrClosed`, since fairness is out of the proof
system's reach. Every invariant and every refinement that a passing run checks is also proved, `SettledOnDisk`,
`ReappliedIsLatest`, `DestroyedIsGone`, `AbsentIsAbsent` and the session's `AtomicStore` under the assumptions named above.

## Not modelled

Health and version pages; headers, encodings and certificates; the RA-TLS handshake and quote verification;
batching and decoding in kmip-go; the filter on attribute names; environment variables; `RotateKeyGrant`. What the
platform does with an empty key name is not in this repository.

Also left out: kmip-proxy's flags, its local certificate and the parsing of the gateway's name; `Accept` errors, which it answers by
trying again at once; the identity minter, a few lines around the RA-TLS library whose failures are those of the calls that use it.

## What could come next

1. Action properties: a submission that has been acknowledged is never replaced in the file by an older one; an answer of the
   proxy, once given, is never taken back. The invariants above carry them.
2. `Frontend` on top of `VaultSession` instead of a call with the outcomes of `KeyStore`, which both implement.
