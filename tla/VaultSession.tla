---------------------------- MODULE VaultSession ----------------------------
(***************************************************************************)
(* The translation layer, internal/vault.Session: concurrent requests that *)
(* create, use and destroy keys on a constellation of vaults.  A key lives *)
(* whole on one vault.  Create asks the platform for a grant and puts the  *)
(* material on the first endpoint of the constellation the grant names;    *)
(* Wrap, Unwrap, Sign and GetKeyInfo (one kind of request here, "use")     *)
(* walk the session's own endpoint list until a vault answers; Destroy     *)
(* walks all of it.                                                        *)
(*                                                                         *)
(* External, modelled from how the session uses them: the vaults (what     *)
(* each holds, a dial or an operation that fails, one that is given up and *)
(* carried out later), and the platform (the catalogue, the constellation  *)
(* it hands out).  A Create stores the material under the handle of the    *)
(* grant (g.Handle) and every other request asks for s.Handle(name): they  *)
(* are taken to be the same.  The code does not check it, and a grant      *)
(* without a handle would file the key where no request finds it.          *)
(***************************************************************************)
EXTENDS Naturals, Sequences, FiniteSets

CONSTANTS
  Endpoints,  \* host:port of the vaults
  Names,      \* key names
  Requests,   \* goroutines serving KMIP and management requests
  Layouts,    \* endpoint lists the platform may hand out
  MaxKeys,    \* bound: key materials generated
  MaxLate     \* bound: calls given up that may still be carried out

ASSUME SessionAssumption ==
  /\ Layouts \subseteq Seq(Endpoints) /\ Layouts # {} /\ Names # {}
  /\ MaxKeys \in Nat

VARIABLES
  layout,     \* the platform's active constellation, in order
  eps,        \* Config.Endpoints of the installed session
  held,       \* held[e]: the materials on vault e
  catalogue,  \* names the platform has catalogued
  keys,       \* materials generated so far; the n-th is numbered n
  late,       \* calls the session gave up and a vault may still carry out
  req         \* the state of each request

vars == <<layout, eps, held, catalogue, keys, late, req>>

Materials == [name : Names, id : 1..MaxKeys]
HeldAnywhere == UNION {held[e] : e \in Endpoints}
Named(S, n) == {m \in S : m.name = n}

\* What a vault carries out: to, the new material or nothing, takes the place
\* of what vault "at" holds under the name.
Calls == [at : Endpoints, name : Names, to : SUBSET Materials]
Does(x) == held' = [held EXCEPT ![x.at] = (@ \ Named(@, x.name)) \cup x.to]

(***************************************************************************)
(* A request: what it does to which name, where it stands, the endpoint    *)
(* list of its session (or of its grant), the index of the endpoint it is  *)
(* at, whether deleted > 0, the endpoints that failed (as indices: lastErr *)
(* is not nil once there is one), and its outcome: "ok", "failed", or      *)
(* "absent" for the error of withHolder with a nil lastErr.                *)
(* id is the material a create generated; seen, history, the materials of  *)
(* that name on any vault when the request began.                          *)
(***************************************************************************)
Idle == [op |-> "none", name |-> CHOOSE n \in Names : TRUE, pc |-> "idle",
         list |-> <<>>, i |-> 1, deleted |-> FALSE, errs |-> {},
         res |-> "none", id |-> 0, seen |-> {}]

Init ==
  /\ layout \in Layouts /\ eps = layout
  /\ held = [e \in Endpoints |-> {}]
  /\ catalogue = {} /\ keys = 0 /\ late = {}
  /\ req = [r \in Requests |-> Idle]

At(r, op, pc) == req[r].op = op /\ req[r].pc = pc
Here(r) == req[r].list[req[r].i]
Scanning(r, op) == At(r, op, "scan") /\ req[r].i <= Len(req[r].list)
Holds(r) == Named(held[Here(r)], req[r].name) # {}

DeleteCall(r) == [at |-> Here(r), name |-> req[r].name, to |-> {}]
CreateCall(r) == [DeleteCall(r) EXCEPT
                    !.to = {[name |-> req[r].name, id |-> req[r].id]}]

Finish(r, res) == req' = [req EXCEPT ![r].pc = "done", ![r].res = res]

-----------------------------------------------------------------------------
(***************************************************************************)
(* Every request takes the installed session as it begins and keeps it.    *)
(***************************************************************************)
Begin(op, n) ==
  [Idle EXCEPT !.op = op, !.name = n, !.list = eps,
               !.seen = Named(HeldAnywhere, n)]

\* Use and Destroy: dialOpts, then the endpoint list from its start.
BeginScan(r) ==
  /\ req[r].pc \in {"idle", "done"}
  /\ \E n \in Names, op \in {"use", "destroy"} :
       req' = [req EXCEPT ![r] = [Begin(op, n) EXCEPT !.pc = "scan"]]
  /\ UNCHANGED <<layout, eps, held, catalogue, keys, late>>

\* Create: material and client certificate are generated.
BeginCreate(r) ==
  /\ req[r].pc \in {"idle", "done"} /\ keys < MaxKeys
  /\ keys' = keys + 1
  /\ \E n \in Names :
       req' = [req EXCEPT ![r] = [Begin("create", n) EXCEPT
                                    !.pc = "mint", !.id = keys']]
  /\ UNCHANGED <<layout, eps, held, catalogue, late>>

\* An unsupported key type, or an MRENCLAVE pin that is not 32 bytes of hex:
\* the request fails before it reaches anybody.
BeginFails(r) ==
  /\ req[r].pc \in {"idle", "done"}
  /\ \E n \in Names, op \in {"use", "destroy", "create"} :
       req' = [req EXCEPT ![r] = [Begin(op, n) EXCEPT
                                    !.pc = "done", !.res = "failed"]]
  /\ UNCHANGED <<layout, eps, held, catalogue, keys, late>>

-----------------------------------------------------------------------------
(***************************************************************************)
(* Create                                                                  *)
(***************************************************************************)

\* A mutated MintRefused: the error of MintKeyGrant is dropped and Create goes
\* on to the vault.
MintRefusedIgnored(r) ==
  /\ At(r, "create", "mint") /\ Len(eps) > 0
  /\ req' = [req EXCEPT ![r].pc = "put"]
  /\ UNCHANGED <<layout, eps, held, catalogue, keys, late>>

\* The platform refuses or cannot be reached.
MintRefused(r) ==
  /\ At(r, "create", "mint")
  /\ Finish(r, "failed")
  /\ UNCHANGED <<layout, eps, held, catalogue, keys, late>>

\* The platform catalogues the key, and its answer is lost or useless: no
\* endpoints, or a pin that does not parse.
MintWasted(r) ==
  /\ At(r, "create", "mint")
  /\ catalogue' = catalogue \cup {req[r].name}
  /\ Finish(r, "failed")
  /\ UNCHANGED <<layout, eps, held, keys, late>>

\* A mutated Mint: an empty endpoint list is not refused.
MintUnchecked(r) ==
  /\ At(r, "create", "mint")
  /\ catalogue' = catalogue \cup {req[r].name}
  /\ req' = [req EXCEPT ![r].pc = "put", ![r].list = layout]
  /\ UNCHANGED <<layout, eps, held, keys, late>>

\* The platform catalogues the key and grants it on the active constellation.
Mint(r) ==
  /\ At(r, "create", "mint") /\ Len(layout) > 0
  /\ catalogue' = catalogue \cup {req[r].name}
  /\ req' = [req EXCEPT ![r].pc = "put", ![r].list = layout]
  /\ UNCHANGED <<layout, eps, held, keys, late>>

\* The dial or CreateKey fails, and the vault does not store anything.
PutFails(r) ==
  /\ At(r, "create", "put")
  /\ Finish(r, "failed")
  /\ UNCHANGED <<layout, eps, held, catalogue, keys, late>>

\* CreateKey gives up without the vault's answer.
PutLost(r) ==
  /\ At(r, "create", "put") /\ Cardinality(late) < MaxLate
  /\ late' = late \cup {CreateCall(r)}
  /\ Finish(r, "failed")
  /\ UNCHANGED <<layout, eps, held, catalogue, keys>>

\* The first endpoint of the grant stores the material, in place of one it may
\* hold under that name.
Put(r) ==
  /\ At(r, "create", "put")
  /\ Does(CreateCall(r))
  /\ Finish(r, "ok")
  /\ UNCHANGED <<layout, eps, catalogue, keys, late>>

-----------------------------------------------------------------------------
(***************************************************************************)
(* withHolder (use) and the loop of Destroy                                *)
(***************************************************************************)
NextEndpoint(r, err) ==
  req' = [req EXCEPT ![r].i = @ + 1,
                     ![r].errs = @ \cup (IF err THEN {req[r].i} ELSE {})]

\* A mutated EndpointFails: an endpoint that fails is passed like one that does
\* not hold the key.
EndpointFailsSilently(r) ==
  /\ \E op \in {"use", "destroy"} : Scanning(r, op)
  /\ NextEndpoint(r, FALSE)
  /\ UNCHANGED <<layout, eps, held, catalogue, keys, late>>

\* The dial fails, or the operation does, with an error that does not say
\* "not found": remembered, next endpoint.
EndpointFails(r) ==
  /\ \E op \in {"use", "destroy"} : Scanning(r, op)
  /\ NextEndpoint(r, TRUE)
  /\ UNCHANGED <<layout, eps, held, catalogue, keys, late>>

\* "not found": next endpoint, not counted as an error.
EndpointNotFound(r) ==
  /\ \E op \in {"use", "destroy"} : Scanning(r, op)
  /\ ~Holds(r)
  /\ NextEndpoint(r, FALSE)
  /\ UNCHANGED <<layout, eps, held, catalogue, keys, late>>

\* The holder answers a use.
HolderAnswers(r) ==
  /\ Scanning(r, "use") /\ Holds(r)
  /\ Finish(r, "ok")
  /\ UNCHANGED <<layout, eps, held, catalogue, keys, late>>

\* A mutated UseExhausted: an error on the way is forgotten.
UseExhaustedForgets(r) ==
  /\ At(r, "use", "scan") /\ req[r].i > Len(req[r].list)
  /\ Finish(r, "absent")
  /\ UNCHANGED <<layout, eps, held, catalogue, keys, late>>

\* The end of the list: "no vault answered for the key", with the last error.
UseExhausted(r) ==
  /\ At(r, "use", "scan") /\ req[r].i > Len(req[r].list)
  /\ Finish(r, IF req[r].errs # {} THEN "failed" ELSE "absent")
  /\ UNCHANGED <<layout, eps, held, catalogue, keys, late>>

\* The vault deletes the material.
VaultDeletes(r) ==
  /\ Scanning(r, "destroy") /\ Holds(r)
  /\ Does(DeleteCall(r))
  /\ req' = [req EXCEPT ![r].i = @ + 1, ![r].deleted = TRUE]
  /\ UNCHANGED <<layout, eps, catalogue, keys, late>>

\* DeleteKey gives up without the vault's answer: an error, next endpoint.
DeleteLost(r) ==
  /\ Scanning(r, "destroy") /\ Cardinality(late) < MaxLate
  /\ late' = late \cup {DeleteCall(r)}
  /\ NextEndpoint(r, TRUE)
  /\ UNCHANGED <<layout, eps, held, catalogue, keys>>

\* A mutated DestroyEnd: an unreachable vault does not fail the request.
DestroyEndLenient(r) ==
  /\ At(r, "destroy", "scan") /\ req[r].i > Len(req[r].list)
  /\ Finish(r, "ok")
  /\ UNCHANGED <<layout, eps, held, catalogue, keys, late>>

\* Destroy fails only if it deleted nothing and met an error.
DestroyEnd(r) ==
  /\ At(r, "destroy", "scan") /\ req[r].i > Len(req[r].list)
  /\ Finish(r, IF ~req[r].deleted /\ req[r].errs # {} THEN "failed" ELSE "ok")
  /\ UNCHANGED <<layout, eps, held, catalogue, keys, late>>

-----------------------------------------------------------------------------
\* A vault carries out a call that the session gave up, at once or any time
\* later.  CreateKey is sent once; of equal deletions more may follow.
Settle(x) ==
  /\ x \in late
  /\ Does(x)
  /\ late' = late \ {x} \/ (x.to = {} /\ late' = late)
  /\ UNCHANGED <<layout, eps, catalogue, keys, req>>

\* The self-config loop installs a session with a fresh discovery.
Refresh ==
  /\ eps # layout
  /\ eps' = layout
  /\ UNCHANGED <<layout, held, catalogue, keys, late, req>>

\* The platform's active constellation changes.
LayoutChange ==
  /\ layout' \in Layouts \ {layout}
  /\ UNCHANGED <<eps, held, catalogue, keys, late, req>>

RequestStep(r) ==
  \/ MintRefused(r) \/ MintWasted(r) \/ Mint(r)
  \/ PutFails(r) \/ PutLost(r) \/ Put(r)
  \/ EndpointFails(r) \/ EndpointNotFound(r)
  \/ HolderAnswers(r) \/ UseExhausted(r)
  \/ VaultDeletes(r) \/ DeleteLost(r) \/ DestroyEnd(r)

Next ==
  \/ \E r \in Requests :
       BeginScan(r) \/ BeginCreate(r) \/ BeginFails(r) \/ RequestStep(r)
  \/ \E x \in late : Settle(x)
  \/ Refresh \/ LayoutChange

Spec == Init /\ [][Next]_vars

-----------------------------------------------------------------------------
(***************************************************************************)
(* Properties                                                              *)
(***************************************************************************)
Steps == {"idle", "mint", "put", "scan", "done"}

\* What is kept of a request.
Records ==
  [op : {"none", "use", "destroy", "create"}, name : Names, pc : Steps,
   list : Layouts \cup {<<>>}, i : Nat \ {0}, deleted : BOOLEAN,
   errs : SUBSET Nat, res : {"none", "ok", "failed", "absent"}, id : 0..keys,
   seen : SUBSET Materials]

\* Types.  A create that is about to store material has an endpoint to store
\* it on: g.Endpoints[0] is never taken of an empty list (session.go, Create).
TypeOK ==
  /\ layout \in Layouts /\ eps \in Layouts
  /\ held \in [Endpoints -> SUBSET Materials]
  /\ catalogue \subseteq Names
  /\ keys \in 0..MaxKeys
  /\ late \subseteq Calls
  /\ req \in [Requests -> Records]
  /\ \A r \in Requests :
       /\ req[r].i <= Len(req[r].list) + 1
       /\ req[r].pc = "put" => (Len(req[r].list) > 0 /\ req[r].id > 0)

\* No vault holds material under a name the platform has not catalogued,
\* whatever fails or is lost on the way of a Create (session.go: the platform
\* catalogues, then the vault stores).
MaterialCatalogued ==
  \A e \in Endpoints : \A m \in held[e] : m.name \in catalogue

\* The materials a request saw as it began and that have been there since
\* (materials are never stored twice), on the endpoints in S.
StillHeld(r, S) == req[r].seen \cap UNION {held[e] : e \in S}
Answering(r) == {req[r].list[i] : i \in (1..Len(req[r].list)) \ req[r].errs}

\* What a scan of the endpoint list does establish, with creations,
\* destructions, refreshes and calls that act late interleaved (session.go,
\* withHolder and Destroy).  A successful Destroy leaves of what was there when
\* it began nothing on the endpoints of its list that answered, and if one did
\* not, it has deleted something.  A use answered "no vault answered" with no
\* error heard from every endpoint, and nothing of it is left there either.
ScanIsComplete ==
  \A r \in Requests :
    /\ (At(r, "destroy", "done") /\ req[r].res = "ok") =>
         /\ StillHeld(r, Answering(r)) = {}
         /\ req[r].errs # {} => req[r].deleted
    /\ (At(r, "use", "done") /\ req[r].res = "absent") =>
         /\ StillHeld(r, Answering(r)) = {}
         /\ req[r].errs = {}

\* A successful Destroy deletes the key's material from the constellation
\* (session.go, Destroy; server_test.go, "Encrypt after Destroy fails"): no
\* vault still holds what was there when it began.
DestroyedIsGone ==
  \A r \in Requests :
     (At(r, "destroy", "done") /\ req[r].res = "ok") =>
        StillHeld(r, Endpoints) = {}

\* A use that ends with "no vault answered for the key" and no error means
\* that the key was gone at some moment since it began (session.go,
\* withHolder): a key that is there throughout is not reported missing.
AbsentIsAbsent ==
  \A r \in Requests :
     (At(r, "use", "done") /\ req[r].res = "absent") =>
        StillHeld(r, Endpoints) = {}

-----------------------------------------------------------------------------
(***************************************************************************)
(* While the constellation keeps its first vault every key is on it, and a *)
(* request acts at the moment that vault does.  The rest of a walk decides *)
(* only whether what it found there can still be told.                     *)
(***************************************************************************)
Acted(x) == x.pc = "scan" /\ x.i > 1

Told(x) ==
  IF x.op = "use" THEN IF x.errs # {} THEN "failed" ELSE "absent"
  ELSE IF ~x.deleted /\ x.errs # {} THEN "failed" ELSE "ok"

\* What the client of request x has asked of the store.
Job(x) ==
  [op  |-> x.op, key |-> x.name,
   pc  |-> IF Acted(x) THEN "acted"
           ELSE IF x.pc \in {"mint", "put", "scan"} THEN "asked" ELSE x.pc,
   res |-> IF Acted(x) THEN Told(x) ELSE x.res]

Store == INSTANCE KeyStore WITH
  Keys <- Names, Clients <- Requests, Ids <- 1..MaxKeys,
  store <- [n \in Names |-> {m.id : m \in Named(held[Head(layout)], n)}],
  job <- [r \in Requests |-> Job(req[r])],
  late <- {[key |-> x.name, to |-> {m.id : m \in x.to}] :
             x \in {y \in late : y.at = Head(layout)}}

\* The session is an atomic key store (session.go, "single-enclave: the first
\* (deterministic) vault holds it"): although a Create spans the platform and a
\* vault, and a walk meets vaults one at a time, next to other requests, every
\* request acts at one moment and an answer other than an error tells the truth
\* about it.
AtomicStore == Store!Spec
=============================================================================
