---------------------------- MODULE ConfigManager ----------------------------
(***************************************************************************)
(* The life of one gateway process and of the configuration it runs on:    *)
(* main() re-applying the sealed config at start, POST /configure handlers *)
(* (one goroutine per request) persisting and publishing a new config, and *)
(* configManager.run, the loop that discovers the constellation for the    *)
(* current config and installs a vault session for it.                     *)
(*                                                                         *)
(* Three things outside the process are part of the state: the sealed file *)
(* /data/config.json, the manager's freeze gate in front of the HTTP       *)
(* surface, and the control plane's record of who owns which vault.        *)
(*                                                                         *)
(* Time is abstracted: the sleep between two discoveries may end at any    *)
(* moment.  RefreshSchedule models the same loop with its durations.       *)
(***************************************************************************)
EXTENDS Naturals

CONSTANTS
  Configs,       \* the (mgmt_url, vault_id) pairs an owner may submit
  Size,          \* Size[c]: bytes of the JSON encoding of c
  Handlers,      \* goroutines that serve POST /configure
  NoConfig,      \* the nil *gwConfig; as file content: no file
  Torn,          \* file content that does not parse
  Managed,       \* PRIVASYS_CONTAINER_NAME is set: a manager gates the app
  VolumeMayFail  \* the sealed volume may fail a read, an open or a write

ASSUME ConfigAssumption ==
  /\ Size \in [Configs -> Nat \ {0}]
  /\ NoConfig \notin Configs
  /\ Torn \notin Configs
  /\ NoConfig # Torn
  /\ Managed \in BOOLEAN
  /\ VolumeMayFail \in BOOLEAN

VARIABLES
  boot,    \* where main() is
  cfg,     \* configManager.cfg
  reload,  \* configManager.reload, a channel of capacity one, holds a token
  lpc,     \* where configManager.run is
  lcfg,    \* the cfg that iteration of run works on
  sess,    \* the config the installed session was built from
  hpc,     \* where each /configure handler is
  hcfg,    \* the config each handler carries
  file,    \* what /data/config.json holds
  flen,    \* its length in bytes
  frozen,  \* the manager answers 503 for every path but /configure
  owned,   \* configs whose vault the control plane lists for this app's owner
  acked,   \* history: the config of the latest 200 answer to /configure
  newer    \* history: configs submitted and not answered since then

processVars == <<boot, cfg, reload, lpc, lcfg, sess, hpc, hcfg>>
historyVars == <<acked, newer>>
vars == <<boot, cfg, reload, lpc, lcfg, sess, hpc, hcfg,
          file, flen, frozen, owned, acked, newer>>

HandlerSteps == {"idle", "open", "write", "set", "signal", "reply"}
LoopSteps    == {"off", "get", "wait", "discover", "install", "select"}

(***************************************************************************)
(* A freshly loaded container: nothing in memory, and the manager has      *)
(* armed the freeze gate.                                                  *)
(***************************************************************************)
Init ==
  /\ boot = "read" /\ cfg = NoConfig /\ reload = FALSE
  /\ lpc = "off" /\ lcfg = NoConfig /\ sess = NoConfig
  /\ hpc = [h \in Handlers |-> "idle"]
  /\ hcfg = [h \in Handlers |-> NoConfig]
  /\ file = NoConfig /\ flen = 0
  /\ frozen = Managed
  /\ owned \in SUBSET Configs
  /\ acked = NoConfig /\ newer = {}

-----------------------------------------------------------------------------
(***************************************************************************)
(* main(): read the sealed config and re-apply it, ask the manager to lift *)
(* the gate, then start the loop and the HTTP surface.                     *)
(***************************************************************************)

\* readConfig found a usable config; cm.set publishes it (nobody else runs yet).
BootApply ==
  /\ boot = "read" /\ file \in Configs
  /\ cfg' = file /\ reload' = TRUE
  /\ boot' = "lift"
  /\ UNCHANGED <<lpc, lcfg, sess, hpc, hcfg, file, flen, frozen, owned, historyVars>>

\* A mutated BootSkip: the gate is lifted whatever readConfig returned.
BootSkipLifts ==
  /\ boot = "read" /\ (file \notin Configs \/ VolumeMayFail)
  /\ boot' = "start"
  /\ frozen' = FALSE
  /\ UNCHANGED <<cfg, reload, lpc, lcfg, sess, hpc, hcfg, file, flen,
                 owned, historyVars>>

\* No file, one that does not parse or one that cannot be read: at most logged,
\* and main goes on unconfigured.
BootSkip ==
  /\ boot = "read" /\ (file \notin Configs \/ VolumeMayFail)
  /\ boot' = "start"
  /\ UNCHANGED <<cfg, reload, lpc, lcfg, sess, hpc, hcfg, file, flen, frozen,
                 owned, historyVars>>

\* config-complete answered 2xx, or there is no manager and nothing to lift.
BootLiftOk ==
  /\ boot = "lift"
  /\ frozen' = FALSE
  /\ boot' = "start"
  /\ UNCHANGED <<cfg, reload, lpc, lcfg, sess, hpc, hcfg, file, flen, owned, historyVars>>

\* The call failed, timed out or was refused: logged, never tried again.
BootLiftFail ==
  /\ boot = "lift" /\ Managed
  /\ boot' = "start"
  /\ UNCHANGED <<cfg, reload, lpc, lcfg, sess, hpc, hcfg, file, flen, frozen,
                 owned, historyVars>>

\* OnConfigure, go cm.run(), ListenAndServe.
BootServe ==
  /\ boot = "start"
  /\ boot' = "up" /\ lpc' = "get"
  /\ UNCHANGED <<cfg, reload, lcfg, sess, hpc, hcfg, file, flen, frozen, owned,
                 historyVars>>

\* The process dies (or ListenAndServe fails) and the container is loaded
\* again.  Only the sealed file survives; the gate is armed again.
Crash ==
  /\ boot' = "read" /\ cfg' = NoConfig /\ reload' = FALSE
  /\ lpc' = "off" /\ lcfg' = NoConfig /\ sess' = NoConfig
  /\ hpc' = [h \in Handlers |-> "idle"]
  /\ hcfg' = [h \in Handlers |-> NoConfig]
  /\ frozen' = Managed
  /\ UNCHANGED <<file, flen, owned, historyVars>>

-----------------------------------------------------------------------------
(***************************************************************************)
(* POST /configure.  A body that is not JSON or lacks a field is answered  *)
(* 400 and changes nothing; the callback main registers never fails, so    *)
(* every other request ends in 200.                                        *)
(***************************************************************************)
handlerOther == <<boot, lpc, lcfg, sess, owned>>

\* A mutated HandlerStart: the config is persisted only the first time.
HandlerStartPersistOnce(h) ==
  /\ boot = "up" /\ hpc[h] = "idle"
  /\ \E c \in Configs :
       /\ hcfg' = [hcfg EXCEPT ![h] = c]
       /\ newer' = newer \cup {c}
  /\ hpc' = [hpc EXCEPT ![h] = IF file \in Configs THEN "set" ELSE "open"]
  /\ UNCHANGED <<handlerOther, cfg, reload, file, flen, frozen, acked>>

HandlerStart(h) ==
  /\ boot = "up" /\ hpc[h] = "idle"
  /\ \E c \in Configs :
       /\ hcfg' = [hcfg EXCEPT ![h] = c]
       /\ newer' = newer \cup {c}
  /\ hpc' = [hpc EXCEPT ![h] = "open"]
  /\ UNCHANGED <<handlerOther, cfg, reload, file, flen, frozen, acked>>

\* writeConfig: os.WriteFile opens with O_TRUNC ...
HandlerOpen(h) ==
  /\ hpc[h] = "open"
  /\ file' = Torn /\ flen' = 0
  /\ hpc' = [hpc EXCEPT ![h] = "write"]
  /\ UNCHANGED <<handlerOther, cfg, reload, hcfg, frozen, historyVars>>

\* ... or MkdirAll or the open fails and the old file stays as it is ...
HandlerOpenFail(h) ==
  /\ VolumeMayFail /\ hpc[h] = "open"
  /\ hpc' = [hpc EXCEPT ![h] = "set"]
  /\ UNCHANGED <<handlerOther, cfg, reload, hcfg, file, flen, frozen, historyVars>>

\* A mutated HandlerWrite: the text is left in a buffer that nobody flushes.
HandlerWriteUnflushed(h) ==
  /\ hpc[h] = "write"
  /\ hpc' = [hpc EXCEPT ![h] = "set"]
  /\ UNCHANGED <<handlerOther, cfg, reload, hcfg, file, flen, frozen, historyVars>>

\* ... then writes at offset 0.  Bytes another handler put in the file since
\* the truncation stay behind a shorter text and make the whole unparsable.
HandlerWrite(h) ==
  /\ hpc[h] = "write"
  /\ LET n == Size[hcfg[h]] IN
       /\ file' = IF flen <= n THEN hcfg[h] ELSE Torn
       /\ flen' = IF flen <= n THEN n ELSE flen
  /\ hpc' = [hpc EXCEPT ![h] = "set"]
  /\ UNCHANGED <<handlerOther, cfg, reload, hcfg, frozen, historyVars>>

\* The write stops short after n bytes.
HandlerWriteFail(h) ==
  /\ VolumeMayFail /\ hpc[h] = "write"
  /\ \E n \in 0..(Size[hcfg[h]] - 1) :
       /\ file' = IF n = 0 THEN file ELSE Torn
       /\ flen' = IF flen <= n THEN n ELSE flen
  /\ hpc' = [hpc EXCEPT ![h] = "set"]
  /\ UNCHANGED <<handlerOther, cfg, reload, hcfg, frozen, historyVars>>

\* cm.set, first half: the config is replaced under cm.mu.
HandlerSet(h) ==
  /\ hpc[h] = "set"
  /\ cfg' = hcfg[h]
  /\ hpc' = [hpc EXCEPT ![h] = "signal"]
  /\ UNCHANGED <<handlerOther, reload, hcfg, file, flen, frozen, historyVars>>

\* A mutated HandlerSignal: the channel has no buffer, so the send gives up
\* unless the loop is receiving at that moment.
HandlerSignalUnbuffered(h) ==
  /\ hpc[h] = "signal"
  /\ reload' = (reload \/ lpc \in {"wait", "select"})
  /\ hpc' = [hpc EXCEPT ![h] = "reply"]
  /\ UNCHANGED <<handlerOther, cfg, hcfg, file, flen, frozen, historyVars>>

\* cm.set, second half: a send that gives up when the channel is full.
HandlerSignal(h) ==
  /\ hpc[h] = "signal"
  /\ reload' = TRUE
  /\ hpc' = [hpc EXCEPT ![h] = "reply"]
  /\ UNCHANGED <<handlerOther, cfg, hcfg, file, flen, frozen, historyVars>>

\* 200 "configured"; the manager lifts the gate when it sees it.
HandlerReply(h) ==
  /\ hpc[h] = "reply"
  /\ frozen' = FALSE
  /\ acked' = hcfg[h]
  /\ newer' = {hcfg[g] : g \in {g \in Handlers \ {h} : hpc[g] # "idle"}}
  /\ hpc' = [hpc EXCEPT ![h] = "idle"]
  /\ hcfg' = [hcfg EXCEPT ![h] = NoConfig]
  /\ UNCHANGED <<handlerOther, cfg, reload, file, flen>>

HandlerStep(h) ==
  \/ HandlerOpen(h) \/ HandlerOpenFail(h)
  \/ HandlerWrite(h) \/ HandlerWriteFail(h)
  \/ HandlerSet(h) \/ HandlerSignal(h) \/ HandlerReply(h)

-----------------------------------------------------------------------------
(***************************************************************************)
(* configManager.run                                                       *)
(***************************************************************************)
loopOther == <<boot, cfg, hpc, hcfg, file, flen, frozen, owned, historyVars>>

\* A mutated LoopGet: no test for a nil config.
LoopGetNoNilCheck ==
  /\ lpc = "get"
  /\ lcfg' = cfg
  /\ lpc' = "discover"
  /\ UNCHANGED <<loopOther, reload, sess>>

\* cfg := cm.get(); with none it blocks on the channel.
LoopGet ==
  /\ lpc = "get"
  /\ lcfg' = cfg
  /\ lpc' = IF cfg = NoConfig THEN "wait" ELSE "discover"
  /\ UNCHANGED <<loopOther, reload, sess>>

\* A mutated LoopReload: the loop goes on with the config it already has.
LoopReloadKeepsConfig ==
  /\ lpc \in {"wait", "select"} /\ reload
  /\ reload' = FALSE
  /\ lpc' = IF lpc = "wait" THEN "get" ELSE "discover"
  /\ UNCHANGED <<loopOther, lcfg, sess>>

\* <-cm.reload, in the unconfigured wait or in the select that ends an
\* iteration; either way the loop starts over at cm.get().
LoopReload ==
  /\ lpc \in {"wait", "select"} /\ reload
  /\ reload' = FALSE /\ lpc' = "get"
  /\ UNCHANGED <<loopOther, lcfg, sess>>

\* Discover answered and lists the configured vault.
LoopDiscoverOk ==
  /\ lpc = "discover" /\ lcfg \in owned
  /\ lpc' = "install"
  /\ UNCHANGED <<loopOther, reload, lcfg, sess>>

\* A mutated LoopNotOwned: the session is installed all the same.
LoopNotOwnedInstalls ==
  /\ lpc = "discover" /\ lcfg \notin owned
  /\ lpc' = "install"
  /\ UNCHANGED <<loopOther, reload, lcfg, sess>>

\* Discover answered and does not: "reconfigure", whatever session is there stays.
LoopNotOwned ==
  /\ lpc = "discover" /\ lcfg \notin owned
  /\ lpc' = "select"
  /\ UNCHANGED <<loopOther, reload, lcfg, sess>>

\* A mutated LoopDiscoverFail: the session is dropped until a discovery succeeds.
LoopDiscoverFailDrops ==
  /\ lpc = "discover"
  /\ lpc' = "select" /\ sess' = NoConfig
  /\ UNCHANGED <<loopOther, reload, lcfg>>

\* Discover failed, or the iteration panicked and was recovered.
LoopDiscoverFail ==
  /\ lpc = "discover"
  /\ lpc' = "select"
  /\ UNCHANGED <<loopOther, reload, lcfg, sess>>

\* cm.install: vault.New for this iteration's config, SetSession under s.mu.
LoopInstall ==
  /\ lpc = "install"
  /\ sess' = lcfg
  /\ lpc' = "select"
  /\ UNCHANGED <<loopOther, reload, lcfg>>

\* <-time.After(sleep)
LoopTimer ==
  /\ lpc = "select"
  /\ lpc' = "get"
  /\ UNCHANGED <<loopOther, reload, lcfg, sess>>

LoopStep ==
  \/ LoopGet \/ LoopReload \/ LoopDiscoverOk \/ LoopNotOwned
  \/ LoopDiscoverFail \/ LoopInstall \/ LoopTimer

\* The control plane's view of ownership changes (a vault is created, deleted
\* or handed to somebody else).
OwnershipChange ==
  /\ owned' \in SUBSET Configs \ {owned}
  /\ UNCHANGED <<processVars, file, flen, frozen, historyVars>>

BootStep == BootApply \/ BootSkip \/ BootLiftOk \/ BootLiftFail \/ BootServe

Next ==
  \/ BootStep
  \/ \E h \in Handlers : HandlerStart(h) \/ HandlerStep(h)
  \/ LoopStep
  \/ OwnershipChange
  \/ Crash

Spec == Init /\ [][Next]_vars

\* Goroutines that can run do run; a discovery that is tried for ever on an
\* owned vault succeeds at some time.  Nobody has to configure, crash or
\* change ownership.
FairSpec ==
  /\ Spec
  /\ WF_vars(BootStep) /\ WF_vars(LoopStep)
  /\ \A h \in Handlers : WF_vars(HandlerStep(h))
  /\ SF_vars(LoopDiscoverOk)

-----------------------------------------------------------------------------
(***************************************************************************)
(* Properties                                                              *)
(***************************************************************************)

\* Types.  In particular an iteration of run that reaches Discover or the
\* installation has a config to work on: cfg.MgmtURL is never read through a
\* nil pointer (main.go, run).
TypeOK ==
  /\ boot \in {"read", "lift", "start", "up"}
  /\ cfg \in Configs \cup {NoConfig}
  /\ reload \in BOOLEAN
  /\ lpc \in LoopSteps
  /\ lcfg \in Configs \cup {NoConfig}
  /\ lpc \in {"discover", "install"} => lcfg \in Configs
  /\ sess \in Configs \cup {NoConfig}
  /\ hpc \in [Handlers -> HandlerSteps]
  /\ hcfg \in [Handlers -> Configs \cup {NoConfig}]
  /\ \A h \in Handlers : hpc[h] # "idle" => hcfg[h] \in Configs
  /\ file \in Configs \cup {NoConfig, Torn}
  /\ flen \in Nat
  /\ frozen \in BOOLEAN
  /\ owned \in SUBSET Configs
  /\ acked \in Configs \cup {NoConfig}
  /\ newer \in SUBSET Configs

\* No wake-up is lost (cm.set against run): whenever the loop works or sleeps
\* on a config that is no longer the current one, a token waits in the channel
\* or the handler that replaced the config is about to put one there.  However
\* many submissions the one-place channel coalesces, the last one is seen.
NoLostReload ==
  (lpc \notin {"off", "get"} /\ lcfg # cfg) =>
     (reload \/ \E h \in Handlers : hpc[h] = "signal")

\* The freeze gate is never open over a process that has no config (main.go:
\* liftFreeze on restart, the 200 of /configure): a restart that finds no
\* usable file must stay frozen until the owner submits one.
GateOpenOnlyConfigured ==
  (Managed /\ ~frozen) => cfg # NoConfig

\* When no /configure is being served, the sealed file holds the config the
\* gateway runs on, so that a restart continues with it (main.go, "re-applies
\* it on restart").
SettledOnDisk ==
  (boot = "up" /\ cfg # NoConfig /\ \A h \in Handlers : hpc[h] = "idle")
     => file = cfg

\* A restart continues with the config last acknowledged to the owner or one
\* submitted after it, never with an older one (main.go, readConfig at start).
\* It comes back with none only if there was none, or if the process died in
\* writeConfig between the truncation and the write of a later submission: that
\* window, and nothing else, costs the owner the config.
ReappliedIsLatest ==
  boot \in {"lift", "start"} =>
    \/ cfg = acked \/ cfg \in newer
    \/ cfg = NoConfig /\ file = Torn /\ newer # {}

\* If the config stays c and the control plane keeps listing c's vault, the
\* gateway ends up fronting c for good: no interleaving of submissions, slow
\* discoveries and stale installations leaves an older session in place
\* (main.go, run).  The timer alone makes the loop read cfg again, so a lost
\* wake-up would delay this and not break it: NoLostReload is what excludes one.
\* A step of the loop is taken to end; the identity mint in a discovery has no
\* deadline of its own.
Converges ==
  \A c \in Configs :
     <>[](cfg = c /\ c \in owned) => <>[](sess = c)

\* A restart that re-applied a config ends with the gate open (main.go: the
\* gateway re-lifts the gate itself).
GateReopens ==
  (boot = "up" /\ cfg # NoConfig) ~> (~frozen \/ boot # "up")
=============================================================================
