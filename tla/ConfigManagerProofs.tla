------------------------- MODULE ConfigManagerProofs -------------------------
(***************************************************************************)
(* Machine-checked properties of ConfigManager, for every set of configs   *)
(* and of concurrent /configure handlers, with a volume that may fail and  *)
(* a process that may crash between any two steps.                         *)
(***************************************************************************)
EXTENDS ConfigManager, TLAPS

(***************************************************************************)
(* Types.                                                                  *)
(***************************************************************************)

\* main()'s steps, and a crash, keep the types.
LEMMA BootTypes ==
  ASSUME TypeOK, BootStep \/ Crash
  PROVE  TypeOK'
<1> USE ConfigAssumption DEF TypeOK, HandlerSteps, LoopSteps, historyVars
<1>1. CASE BootApply      BY <1>1 DEF BootApply
<1>2. CASE BootSkip       BY <1>2 DEF BootSkip
<1>3. CASE BootLiftOk     BY <1>3 DEF BootLiftOk
<1>4. CASE BootLiftFail   BY <1>4 DEF BootLiftFail
<1>5. CASE BootServe      BY <1>5 DEF BootServe
<1>6. CASE Crash          BY <1>6 DEF Crash
<1> QED BY <1>1, <1>2, <1>3, <1>4, <1>5, <1>6 DEF BootStep

\* The steps of a /configure handler keep the types.
LEMMA HandlerTypes ==
  ASSUME TypeOK, NEW h \in Handlers, HandlerStart(h) \/ HandlerStep(h)
  PROVE  TypeOK'
<1> USE ConfigAssumption
    DEF TypeOK, HandlerSteps, LoopSteps, historyVars, handlerOther
<1>0. hpc[h] # "idle" => Size[hcfg[h]] \in Nat \ {0}
  BY DEF TypeOK
<1>1. CASE HandlerStart(h)      BY <1>1 DEF HandlerStart
<1>2. CASE HandlerOpen(h)       BY <1>2 DEF HandlerOpen
<1>3. CASE HandlerOpenFail(h)   BY <1>3 DEF HandlerOpenFail
<1>4. CASE HandlerWrite(h)
  <2>1. file' \in Configs \cup {NoConfig, Torn} /\ flen' \in Nat
    BY <1>0, <1>4 DEF HandlerWrite
  <2> QED BY <2>1, <1>4 DEF HandlerWrite
<1>5. CASE HandlerWriteFail(h)
  <2>1. PICK n \in 0..(Size[hcfg[h]] - 1) :
          /\ file' = IF n = 0 THEN file ELSE Torn
          /\ flen' = IF flen <= n THEN n ELSE flen
    BY <1>5 DEF HandlerWriteFail
  <2>2. file' \in Configs \cup {NoConfig, Torn} /\ flen' \in Nat
    BY <2>1
  <2> QED BY <2>2, <1>5 DEF HandlerWriteFail
<1>6. CASE HandlerSet(h)        BY <1>6 DEF HandlerSet
<1>7. CASE HandlerSignal(h)     BY <1>7 DEF HandlerSignal
<1>8. CASE HandlerReply(h)
  <2>1. newer' \in SUBSET Configs
    BY <1>8 DEF HandlerReply
  <2> QED BY <2>1, <1>8 DEF HandlerReply
<1> QED BY <1>1, <1>2, <1>3, <1>4, <1>5, <1>6, <1>7, <1>8 DEF HandlerStep

\* The steps of configManager.run, and a change of ownership, keep the types.
LEMMA LoopTypes ==
  ASSUME TypeOK, LoopStep \/ OwnershipChange
  PROVE  TypeOK'
<1> USE ConfigAssumption
    DEF TypeOK, HandlerSteps, LoopSteps, historyVars, loopOther, processVars
<1>1. CASE LoopGet            BY <1>1 DEF LoopGet
<1>2. CASE LoopReload         BY <1>2 DEF LoopReload
<1>3. CASE LoopDiscoverOk     BY <1>3 DEF LoopDiscoverOk
<1>4. CASE LoopNotOwned       BY <1>4 DEF LoopNotOwned
<1>5. CASE LoopDiscoverFail   BY <1>5 DEF LoopDiscoverFail
<1>6. CASE LoopInstall        BY <1>6 DEF LoopInstall
<1>7. CASE LoopTimer          BY <1>7 DEF LoopTimer
<1>8. CASE OwnershipChange    BY <1>8 DEF OwnershipChange
<1> QED BY <1>1, <1>2, <1>3, <1>4, <1>5, <1>6, <1>7, <1>8 DEF LoopStep

\* Every step of the gateway keeps the types.
LEMMA NextTypes ==
  ASSUME TypeOK, [Next]_vars
  PROVE  TypeOK'
<1>1. CASE BootStep \/ Crash
  BY <1>1, BootTypes
<1>2. CASE \E h \in Handlers : HandlerStart(h) \/ HandlerStep(h)
  BY <1>2, HandlerTypes
<1>3. CASE LoopStep \/ OwnershipChange
  BY <1>3, LoopTypes
<1>4. CASE UNCHANGED vars
  BY <1>4 DEF TypeOK, vars
<1> QED BY <1>1, <1>2, <1>3, <1>4 DEF Next

\* Types hold throughout; in particular run never reaches Discover or the
\* installation of a session without a config (main.go, run).
THEOREM TypeCorrect == Spec => []TypeOK
<1>1. Init => TypeOK
  <2> SUFFICES ASSUME Init PROVE TypeOK
    OBVIOUS
  <2>1. frozen \in BOOLEAN
    BY ConfigAssumption DEF Init
  <2> QED BY <2>1 DEF Init, TypeOK, HandlerSteps, LoopSteps
<1>2. TypeOK /\ [Next]_vars => TypeOK'
  BY NextTypes
<1> QED BY <1>1, <1>2, PTL DEF Spec

-----------------------------------------------------------------------------
(***************************************************************************)
(* No lost wake-up.  NoLostReload is inductive: a handler that makes lcfg  *)
(* stale stands at "signal" until its token is in the channel, and only    *)
(* the loop takes it out, on its way to reading cfg anew.                  *)
(***************************************************************************)

\* The steps of main() and a crash: the loop is not running after them, or
\* starts at cm.get().
LEMMA BootKeepsReload ==
  ASSUME TypeOK, NoLostReload, BootStep \/ Crash
  PROVE  NoLostReload'
<1> USE DEF NoLostReload
<1>1. CASE BootApply      BY <1>1 DEF BootApply
<1>2. CASE BootSkip       BY <1>2 DEF BootSkip
<1>3. CASE BootLiftOk     BY <1>3 DEF BootLiftOk
<1>4. CASE BootLiftFail   BY <1>4 DEF BootLiftFail
<1>5. CASE BootServe      BY <1>5 DEF BootServe
<1>6. CASE Crash          BY <1>6 DEF Crash
<1> QED BY <1>1, <1>2, <1>3, <1>4, <1>5, <1>6 DEF BootStep

\* The steps of a /configure handler.
LEMMA HandlerKeepsReload ==
  ASSUME TypeOK, NoLostReload,
         NEW h \in Handlers, HandlerStart(h) \/ HandlerStep(h)
  PROVE  NoLostReload'
<1> USE DEF NoLostReload, handlerOther
\* A step of h that does not leave "signal" and keeps cfg and the channel.
<1>a. ASSUME UNCHANGED <<lpc, lcfg, cfg, reload>>, hpc[h] # "signal",
             NEW s, hpc' = [hpc EXCEPT ![h] = s]
      PROVE  NoLostReload'
  <2>1. \A g \in Handlers : hpc[g] = "signal" => hpc'[g] = "signal"
    BY <1>a DEF TypeOK
  <2> QED BY <2>1, <1>a
<1>1. CASE HandlerStart(h)      BY <1>1, <1>a DEF HandlerStart
<1>2. CASE HandlerOpen(h)       BY <1>2, <1>a DEF HandlerOpen
<1>3. CASE HandlerOpenFail(h)   BY <1>3, <1>a DEF HandlerOpenFail
<1>4. CASE HandlerWrite(h)      BY <1>4, <1>a DEF HandlerWrite
<1>5. CASE HandlerWriteFail(h)  BY <1>5, <1>a DEF HandlerWriteFail
<1>6. CASE HandlerSet(h)
  <2>1. hpc'[h] = "signal"
    BY <1>6 DEF HandlerSet, TypeOK
  <2> QED BY <2>1
<1>7. CASE HandlerSignal(h)     BY <1>7 DEF HandlerSignal
<1>8. CASE HandlerReply(h)      BY <1>8, <1>a DEF HandlerReply
<1> QED BY <1>1, <1>2, <1>3, <1>4, <1>5, <1>6, <1>7, <1>8 DEF HandlerStep

\* The steps of configManager.run, and a change of ownership.
LEMMA LoopKeepsReload ==
  ASSUME TypeOK, NoLostReload, LoopStep \/ OwnershipChange
  PROVE  NoLostReload'
<1> USE DEF NoLostReload, loopOther, processVars
<1>1. CASE LoopGet            BY <1>1 DEF LoopGet
<1>2. CASE LoopReload         BY <1>2 DEF LoopReload
<1>3. CASE LoopDiscoverOk     BY <1>3 DEF LoopDiscoverOk
<1>4. CASE LoopNotOwned       BY <1>4 DEF LoopNotOwned
<1>5. CASE LoopDiscoverFail   BY <1>5 DEF LoopDiscoverFail
<1>6. CASE LoopInstall        BY <1>6 DEF LoopInstall
<1>7. CASE LoopTimer          BY <1>7 DEF LoopTimer
<1>8. CASE OwnershipChange    BY <1>8 DEF OwnershipChange
<1> QED BY <1>1, <1>2, <1>3, <1>4, <1>5, <1>6, <1>7, <1>8 DEF LoopStep

\* However many submissions the one-place reload channel coalesces, the loop
\* never settles on a config that has been replaced (main.go, set and run).
THEOREM ReloadNeverLost == Spec => []NoLostReload
<1>1. Init => NoLostReload
  BY DEF Init, NoLostReload
<1>2. TypeOK /\ NoLostReload /\ [Next]_vars => NoLostReload'
  <2> SUFFICES ASSUME TypeOK, NoLostReload, [Next]_vars PROVE NoLostReload'
    OBVIOUS
  <2>1. CASE BootStep \/ Crash
    BY <2>1, BootKeepsReload
  <2>2. CASE \E h \in Handlers : HandlerStart(h) \/ HandlerStep(h)
    BY <2>2, HandlerKeepsReload
  <2>3. CASE LoopStep \/ OwnershipChange
    BY <2>3, LoopKeepsReload
  <2>4. CASE UNCHANGED vars
    BY <2>4 DEF NoLostReload, vars
  <2> QED BY <2>1, <2>2, <2>3, <2>4 DEF Next
<1> QED BY <1>1, <1>2, TypeCorrect, PTL DEF Spec

-----------------------------------------------------------------------------
(***************************************************************************)
(* The freeze gate.  What opens it is main() past a re-applied config or a *)
(* handler that answers 200; both have published a config by then, and no  *)
(* step but a crash, which arms the gate again, takes a config away.       *)
(***************************************************************************)

\* The strengthening that makes GateOpenOnlyConfigured inductive.
ConfigBeforeLift ==
  /\ boot = "lift" => cfg # NoConfig
  /\ \A h \in Handlers : hpc[h] \in {"signal", "reply"} => cfg # NoConfig

GateInv == GateOpenOnlyConfigured /\ ConfigBeforeLift

\* The steps of main() and a crash.
LEMMA BootKeepsGate ==
  ASSUME TypeOK, GateInv, BootStep \/ Crash
  PROVE  GateInv'
<1> USE ConfigAssumption DEF GateInv, GateOpenOnlyConfigured, ConfigBeforeLift
<1>1. CASE BootApply      BY <1>1 DEF BootApply
<1>2. CASE BootSkip       BY <1>2 DEF BootSkip
<1>3. CASE BootLiftOk     BY <1>3 DEF BootLiftOk
<1>4. CASE BootLiftFail   BY <1>4 DEF BootLiftFail
<1>5. CASE BootServe      BY <1>5 DEF BootServe
<1>6. CASE Crash          BY <1>6 DEF Crash
<1> QED BY <1>1, <1>2, <1>3, <1>4, <1>5, <1>6 DEF BootStep

\* The steps of a /configure handler.
LEMMA HandlerKeepsGate ==
  ASSUME TypeOK, GateInv, NEW h \in Handlers, HandlerStart(h) \/ HandlerStep(h)
  PROVE  GateInv'
<1> USE DEF GateInv, GateOpenOnlyConfigured, ConfigBeforeLift, handlerOther
\* A step of h that touches neither cfg nor the gate and stays before the send.
<1>a. ASSUME UNCHANGED <<boot, cfg, frozen>>,
             NEW s \in {"idle", "open", "write", "set"},
             hpc' = [hpc EXCEPT ![h] = s]
      PROVE  GateInv'
  BY <1>a DEF TypeOK
<1>1. CASE HandlerStart(h)      BY <1>1, <1>a DEF HandlerStart
<1>2. CASE HandlerOpen(h)       BY <1>2, <1>a DEF HandlerOpen
<1>3. CASE HandlerOpenFail(h)   BY <1>3, <1>a DEF HandlerOpenFail
<1>4. CASE HandlerWrite(h)      BY <1>4, <1>a DEF HandlerWrite
<1>5. CASE HandlerWriteFail(h)  BY <1>5, <1>a DEF HandlerWriteFail
<1>6. CASE HandlerSet(h)
  <2>1. cfg' # NoConfig
    BY <1>6, ConfigAssumption DEF HandlerSet, TypeOK
  <2> QED BY <2>1
<1>7. CASE HandlerSignal(h)     BY <1>7 DEF HandlerSignal, TypeOK
<1>8. CASE HandlerReply(h)      BY <1>8 DEF HandlerReply, TypeOK
<1> QED BY <1>1, <1>2, <1>3, <1>4, <1>5, <1>6, <1>7, <1>8 DEF HandlerStep

\* The loop and the control plane touch neither the config nor the gate.
LEMMA LoopKeepsGate ==
  ASSUME GateInv, LoopStep \/ OwnershipChange
  PROVE  GateInv'
<1>1. UNCHANGED <<boot, cfg, hpc, frozen>>
  BY DEF LoopStep, LoopGet, LoopReload, LoopDiscoverOk, LoopNotOwned,
         LoopDiscoverFail, LoopInstall, LoopTimer, OwnershipChange,
         loopOther, processVars
<1> QED BY <1>1 DEF GateInv, GateOpenOnlyConfigured, ConfigBeforeLift

\* The gateway is never exposed without a config: the gate is open only over a
\* process that has one, through every restart (main.go, liftFreeze).
THEOREM GateSafe == Spec => []GateOpenOnlyConfigured
<1>1. Init => GateInv
  BY DEF Init, GateInv, GateOpenOnlyConfigured, ConfigBeforeLift
<1>2. TypeOK /\ GateInv /\ [Next]_vars => GateInv'
  <2> SUFFICES ASSUME TypeOK, GateInv, [Next]_vars PROVE GateInv'
    OBVIOUS
  <2>1. CASE BootStep \/ Crash
    BY <2>1, BootKeepsGate
  <2>2. CASE \E h \in Handlers : HandlerStart(h) \/ HandlerStep(h)
    BY <2>2, HandlerKeepsGate
  <2>3. CASE LoopStep \/ OwnershipChange
    BY <2>3, LoopKeepsGate
  <2>4. CASE UNCHANGED vars
    BY <2>4 DEF GateInv, GateOpenOnlyConfigured, ConfigBeforeLift, vars
  <2> QED BY <2>1, <2>2, <2>3, <2>4 DEF Next
<1>3. GateInv => GateOpenOnlyConfigured
  BY DEF GateInv
<1> QED BY <1>1, <1>2, <1>3, TypeCorrect, PTL DEF Spec
-----------------------------------------------------------------------------
(***************************************************************************)
(* The sealed file, when requests to /configure do not overlap and the     *)
(* volume does not fail.  (With either, TLC refutes both properties.)  The *)
(* process may still crash between any two steps.                          *)
(***************************************************************************)
Serial == (\A g, h \in Handlers : g = h) /\ ~VolumeMayFail

\* Where the config a handler carries has got to, at each of its steps.
HandlerProgress(h) ==
  /\ hpc[h] # "idle" => (boot = "up" /\ hcfg[h] \in newer)
  /\ hpc[h] = "write" => flen = 0
  /\ hpc[h] \in {"set", "signal", "reply"} => file = hcfg[h]
  /\ hpc[h] \in {"signal", "reply"} => cfg = hcfg[h]

\* While none is between opening the file and publishing, the file holds cfg.
FileFollows ==
  (cfg # NoConfig /\ \A h \in Handlers : hpc[h] \notin {"write", "set"})
     => file = cfg

SerialInv ==
  /\ boot = "read" => cfg = NoConfig
  /\ boot = "lift" => cfg # NoConfig
  /\ boot = "start" /\ cfg = NoConfig => file \notin Configs
  /\ file \in Configs => (file = acked \/ file \in newer)
  /\ file = NoConfig => acked = NoConfig
  /\ file = Torn => newer # {}
  /\ FileFollows
  /\ \A h \in Handlers : HandlerProgress(h)

\* The steps of main() and a crash.
LEMMA BootKeepsSerial ==
  ASSUME Serial, TypeOK, SerialInv, BootStep \/ Crash
  PROVE  SerialInv'
<1> USE ConfigAssumption
    DEF Serial, SerialInv, HandlerProgress, FileFollows, historyVars, TypeOK
<1>1. CASE BootApply      BY <1>1 DEF BootApply
<1>2. CASE BootSkip       BY <1>2 DEF BootSkip
<1>3. CASE BootLiftOk     BY <1>3 DEF BootLiftOk
<1>4. CASE BootLiftFail   BY <1>4 DEF BootLiftFail
<1>5. CASE BootServe      BY <1>5 DEF BootServe
<1>6. CASE Crash          BY <1>6 DEF Crash
<1> QED BY <1>1, <1>2, <1>3, <1>4, <1>5, <1>6 DEF BootStep

\* The steps of the only /configure handler.
LEMMA HandlerKeepsSerial ==
  ASSUME Serial, TypeOK, SerialInv,
         NEW h \in Handlers, HandlerStart(h) \/ HandlerStep(h)
  PROVE  SerialInv'
<1> USE ConfigAssumption
    DEF SerialInv, HandlerProgress, FileFollows, historyVars, handlerOther
<1>0. ~VolumeMayFail /\ \A g \in Handlers : g = h
  BY DEF Serial
<1>1. CASE HandlerStart(h)      BY <1>0, <1>1 DEF HandlerStart, TypeOK
<1>2. CASE HandlerOpen(h)       BY <1>0, <1>2 DEF HandlerOpen, TypeOK
<1>3. CASE HandlerOpenFail(h)   BY <1>0, <1>3 DEF HandlerOpenFail
<1>4. CASE HandlerWrite(h)
  <2>1. file' = hcfg[h]
    BY <1>4 DEF HandlerWrite, TypeOK
  <2> QED BY <1>0, <1>4, <2>1 DEF HandlerWrite, TypeOK
<1>5. CASE HandlerWriteFail(h)  BY <1>0, <1>5 DEF HandlerWriteFail
<1>6. CASE HandlerSet(h)        BY <1>0, <1>6 DEF HandlerSet, TypeOK
<1>7. CASE HandlerSignal(h)     BY <1>0, <1>7 DEF HandlerSignal, TypeOK
<1>8. CASE HandlerReply(h)      BY <1>0, <1>8 DEF HandlerReply, TypeOK
<1> QED BY <1>1, <1>2, <1>3, <1>4, <1>5, <1>6, <1>7, <1>8 DEF HandlerStep

\* The loop and the control plane touch neither the config nor the file.
LEMMA LoopKeepsSerial ==
  ASSUME SerialInv, LoopStep \/ OwnershipChange
  PROVE  SerialInv'
<1>1. UNCHANGED <<boot, cfg, hpc, hcfg, file, flen, acked, newer>>
  BY DEF LoopStep, LoopGet, LoopReload, LoopDiscoverOk, LoopNotOwned,
         LoopDiscoverFail, LoopInstall, LoopTimer, OwnershipChange,
         loopOther, processVars, historyVars
<1> QED BY <1>1 DEF SerialInv, HandlerProgress, FileFollows

\* SerialInv is an invariant of the serial gateway.
LEMMA SerialInvariant ==
  ASSUME Serial PROVE Spec => []SerialInv
<1>1. Init => SerialInv
  BY ConfigAssumption DEF Init, SerialInv, HandlerProgress, FileFollows
<1>2. TypeOK /\ SerialInv /\ [Next]_vars => SerialInv'
  <2> SUFFICES ASSUME TypeOK, SerialInv, [Next]_vars PROVE SerialInv'
    OBVIOUS
  <2>1. CASE BootStep \/ Crash
    BY <2>1, BootKeepsSerial
  <2>2. CASE \E h \in Handlers : HandlerStart(h) \/ HandlerStep(h)
    BY <2>2, HandlerKeepsSerial
  <2>3. CASE LoopStep \/ OwnershipChange
    BY <2>3, LoopKeepsSerial
  <2>4. CASE UNCHANGED vars
    BY <2>4 DEF SerialInv, HandlerProgress, FileFollows, vars
  <2> QED BY <2>1, <2>2, <2>3, <2>4 DEF Next
<1> QED BY <1>1, <1>2, TypeCorrect, PTL DEF Spec

\* With no /configure in progress the sealed file holds the config the gateway
\* runs on (main.go, writeConfig before cm.set).
THEOREM SettledConfigOnDisk ==
  ASSUME Serial PROVE Spec => []SettledOnDisk
<1>1. SerialInv => SettledOnDisk
  BY DEF SerialInv, FileFollows, SettledOnDisk
<1> QED BY <1>1, SerialInvariant, PTL

\* What a restart continues with is never older than the last config acknowledged
\* to the owner, wherever in a /configure the process died, and it is nothing only
\* if there was nothing or a later submission was cut (main.go, readConfig at
\* start).
THEOREM RestartIsLatest ==
  ASSUME Serial PROVE Spec => []ReappliedIsLatest
<1>1. TypeOK /\ SerialInv => ReappliedIsLatest
  <2> SUFFICES ASSUME TypeOK, SerialInv, boot \in {"lift", "start"}
               PROVE  \/ cfg = acked \/ cfg \in newer
                      \/ cfg = NoConfig /\ file = Torn /\ newer # {}
    BY DEF ReappliedIsLatest
  <2>1. \A h \in Handlers : hpc[h] = "idle"
    BY DEF SerialInv, HandlerProgress
  <2>2. CASE cfg # NoConfig
    <3>1. file = cfg /\ cfg \in Configs
      BY <2>1, <2>2 DEF SerialInv, FileFollows, TypeOK
    <3> QED BY <3>1 DEF SerialInv
  <2>3. CASE cfg = NoConfig
    <3>1. file \in {NoConfig, Torn}
      BY <2>3 DEF SerialInv, TypeOK
    <3> QED BY <2>3, <3>1 DEF SerialInv
  <2> QED BY <2>2, <2>3
<1> QED BY <1>1, SerialInvariant, TypeCorrect, PTL
=============================================================================
