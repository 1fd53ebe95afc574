---------------------------- MODULE GatewayProofs -----------------------------
(***************************************************************************)
(* The gateway is what KmipProxy assumes of it, and messages run on vetted *)
(* vaults only, for any number of /configure handlers and connections and  *)
(* whatever the volume does.                                               *)
(***************************************************************************)
EXTENDS Gateway, ConfigManagerProofs

\* The configuration side of the composition is ConfigManager, unrestricted.
LEMMA ProcessBehaves == GSpec => Spec
<1>1. GInit => Init
  BY DEF GInit
<1>2. [GNext]_gvars => [Next]_vars
  <2>1. ProcessStep => Next
    BY DEF ProcessStep, Next
  <2>2. Restart => Next
    BY DEF Restart, Next
  <2>3. RelayStep => UNCHANGED vars
    BY DEF RelayStep
  <2>4. UNCHANGED gvars => UNCHANGED vars
    BY DEF gvars
  <2> QED BY <2>1, <2>2, <2>3, <2>4 DEF GNext
<1> QED BY <1>1, <1>2, PTL DEF GSpec, Spec

\* The types of ConfigManager hold in the composition.
LEMMA ProcessTyped == GSpec => []TypeOK
BY ProcessBehaves, TypeCorrect, PTL

\* A step of the process lifts the gate, installs a session or changes nothing
\* that a client could see.
LEMMA ServingKept ==
  ASSUME TypeOK, ProcessStep
  PROVE  \/ UNCHANGED Serving
         \/ Serving' \in Configs \cup (IF Serving = "frozen" THEN {"awaiting"} ELSE {})
<1>1. UNCHANGED <<frozen, sess>> \/ (frozen' = FALSE /\ UNCHANGED sess)
        \/ (UNCHANGED frozen /\ sess' \in Configs)
  <2>1. CASE BootStep
    BY <2>1 DEF BootStep, BootApply, BootSkip, BootLiftOk, BootLiftFail, BootServe
  <2>2. CASE \E h \in Handlers : HandlerStart(h) \/ HandlerStep(h)
    BY <2>2 DEF HandlerStart, HandlerStep, HandlerOpen, HandlerOpenFail, HandlerWrite,
                HandlerWriteFail, HandlerSet, HandlerSignal, HandlerReply, handlerOther
  <2>3. CASE LoopStep
    BY <2>3 DEF LoopStep, LoopGet, LoopReload, LoopDiscoverOk, LoopNotOwned,
                LoopDiscoverFail, LoopInstall, LoopTimer, loopOther, TypeOK
  <2>4. CASE OwnershipChange
    BY <2>4 DEF OwnershipChange, processVars
  <2> QED BY <2>1, <2>2, <2>3, <2>4 DEF ProcessStep
<1>2. sess \in Configs \cup {NoConfig} /\ frozen \in BOOLEAN /\ NoConfig \notin Configs
  BY ConfigAssumption DEF TypeOK
<1>3. CASE UNCHANGED <<frozen, sess>>
  BY <1>3 DEF Serving
<1>4. CASE frozen' = FALSE /\ UNCHANGED sess
  <2>1. Serving' = IF sess = NoConfig THEN "awaiting" ELSE sess
    BY <1>4 DEF Serving
  <2>2. Serving = IF frozen THEN "frozen" ELSE Serving'
    BY <1>2, <2>1 DEF Serving
  <2> QED BY <1>2, <2>1, <2>2
<1>5. CASE UNCHANGED frozen /\ sess' \in Configs
  <2>1. Serving' = IF frozen THEN "frozen" ELSE sess'
    BY <1>2, <1>5 DEF Serving
  <2>2. frozen => Serving = "frozen"
    BY DEF Serving
  <2> QED BY <1>2, <1>5, <2>1, <2>2
<1> QED BY <1>1, <1>3, <1>4, <1>5

\* Every step of the composition is one of KmipProxy, or none.
LEMMA StepRefines ==
  ASSUME TypeOK, TypeOK', [GNext]_gvars
  PROVE  [Proxy!Next]_(Proxy!vars)
<1>1. CASE ProcessStep
  BY <1>1, ServingKept DEF ProcessStep, Proxy!Next, Proxy!ServingAdvances, Proxy!vars
<1>2. CASE Restart
  BY <1>2 DEF Restart, Proxy!Next
<1>3. CASE RelayStep
  BY <1>3 DEF RelayStep, Proxy!Next
<1>4. CASE UNCHANGED gvars
  BY <1>4 DEF gvars, vars, Serving, Proxy!vars
<1> QED BY <1>1, <1>2, <1>3, <1>4 DEF GNext

\* To kmip-proxy and its clients the gateway never takes its session back, with
\* any number of overlapping submissions, failed discoveries and restarts
\* (main.go, run; control/server.go, SetSession).
THEOREM GatewayImplementsProxy == GSpec => ImplementsProxy
<1>1. GInit => Proxy!Init
  BY DEF GInit, Init, Proxy!Init, Serving
<1>2. TypeOK /\ TypeOK' /\ [GNext]_gvars => [Proxy!Next]_(Proxy!vars)
  BY StepRefines
<1> QED BY <1>1, <1>2, ProcessTyped, PTL DEF GSpec, ImplementsProxy, Proxy!Spec
-----------------------------------------------------------------------------
(***************************************************************************)
(* Vetted vaults.  RunsOnVetted alone is not inductive: Vetted adds that   *)
(* the session and the config about to be installed have been looked up by *)
(* this process.                                                           *)
(***************************************************************************)
Vetted ==
  /\ sess # NoConfig => sess \in vetted
  /\ lpc = "install" => lcfg \in vetted
  /\ RunsOnVetted

\* Only a discovery that lists the config leads to its installation.
LEMMA ProcessKeepsVetted ==
  ASSUME TypeOK, Vetted, ProcessStep
  PROVE  Vetted'
<1>1. vetted \subseteq vetted' /\ UNCHANGED conn
  BY DEF ProcessStep
<1>2. RunsOnVetted'
  BY <1>1 DEF Vetted, RunsOnVetted
<1>3. (sess # NoConfig => sess \in vetted)' /\ (lpc = "install" => lcfg \in vetted)'
  <2>1. CASE BootStep
    BY <1>1, <2>1 DEF Vetted, BootStep, BootApply, BootSkip, BootLiftOk, BootLiftFail, BootServe
  <2>2. CASE \E h \in Handlers : HandlerStart(h) \/ HandlerStep(h)
    BY <1>1, <2>2 DEF Vetted, HandlerStart, HandlerStep, HandlerOpen, HandlerOpenFail,
                HandlerWrite, HandlerWriteFail, HandlerSet, HandlerSignal, HandlerReply,
                handlerOther
  <2>3. CASE LoopStep
    BY <1>1, <2>3 DEF Vetted, ProcessStep, LoopStep, LoopGet, LoopReload, LoopDiscoverOk,
                LoopNotOwned, LoopDiscoverFail, LoopInstall, LoopTimer, loopOther
  <2>4. CASE OwnershipChange
    BY <1>1, <2>4 DEF Vetted, OwnershipChange, processVars
  <2> QED BY <2>1, <2>2, <2>3, <2>4 DEF ProcessStep
<1> QED BY <1>2, <1>3 DEF Vetted
\* Only GatewayTakes starts a message on a vault: that of the session.
LEMMA RelayKeepsVetted ==
  ASSUME TypeOK, Vetted, RelayStep, NEW c \in Conns, Proxy!TypeOK, Proxy!ConnStep(c)
  PROVE  Vetted'
<1> DEFINE Kept == /\ \A d \in Conns \ {c} : conn'[d] = conn[d]
                   /\ conn'[c].post = "taken" =>
                        \/ conn[c].post = "taken" /\ conn'[c].on = conn[c].on
                        \/ Serving \in Configs /\ conn'[c].on = Serving
<1>1. conn \in [Conns -> Proxy!Connections]
  BY DEF Proxy!TypeOK
<1>2. ASSUME Proxy!Accept(c) PROVE Kept
  BY <1>1, <1>2 DEF Proxy!Accept, Proxy!Fresh, Proxy!Connections
<1>3. ASSUME Proxy!ClientSends(c) PROVE Kept
  BY <1>1, <1>3 DEF Proxy!ClientSends, Proxy!Connections
<1>4. ASSUME Proxy!ClientLeaves(c) PROVE Kept
  BY <1>1, <1>4 DEF Proxy!ClientLeaves, Proxy!Connections
<1>5. ASSUME Proxy!Dial(c) PROVE Kept
  BY <1>1, <1>5 DEF Proxy!Dial, Proxy!Connections
<1>6. ASSUME Proxy!DialFails(c) PROVE Kept
  BY <1>1, <1>6 DEF Proxy!DialFails, Proxy!Close, Proxy!Connections
<1>7. ASSUME Proxy!Verify(c) PROVE Kept
  BY <1>1, <1>7 DEF Proxy!Verify, Proxy!Connections
<1>8. ASSUME Proxy!VerifyFails(c) PROVE Kept
  BY <1>1, <1>8 DEF Proxy!VerifyFails, Proxy!Close, Proxy!Connections
<1>9. ASSUME Proxy!Read(c) PROVE Kept
  BY <1>1, <1>9 DEF Proxy!Read, Proxy!Connections
<1>10. ASSUME Proxy!ReadFails(c) PROVE Kept
  BY <1>1, <1>10 DEF Proxy!ReadFails, Proxy!Close, Proxy!Connections
<1>11. ASSUME Proxy!Post(c) PROVE Kept
  BY <1>1, <1>11 DEF Proxy!Post, Proxy!Connections
<1>12. ASSUME Proxy!Relayed(c) PROVE Kept
  BY <1>1, <1>12 DEF Proxy!Relayed, Proxy!Connections
<1>13. ASSUME Proxy!RelayRefused(c) PROVE Kept
  BY <1>1, <1>13 DEF Proxy!RelayRefused, Proxy!Connections
<1>14. ASSUME Proxy!RelayFails(c) PROVE Kept
  BY <1>1, <1>14 DEF Proxy!RelayFails, Proxy!Close, Proxy!Connections
<1>15. ASSUME Proxy!Write(c) PROVE Kept
  BY <1>1, <1>15 DEF Proxy!Write, Proxy!Connections
<1>16. ASSUME Proxy!WriteFails(c) PROVE Kept
  BY <1>1, <1>16 DEF Proxy!WriteFails, Proxy!Close, Proxy!Connections
<1>17. ASSUME Proxy!GatewayRefuses(c) PROVE Kept
  BY <1>1, <1>17 DEF Proxy!GatewayRefuses, Proxy!Connections
<1>18. ASSUME Proxy!GatewayTakes(c) PROVE Kept
  BY <1>1, <1>18 DEF Proxy!GatewayTakes, Proxy!Connections
<1>19. ASSUME Proxy!GatewayRuns(c) PROVE Kept
  BY <1>1, <1>19 DEF Proxy!GatewayRuns, Proxy!Connections
<1>20. ASSUME Proxy!GatewayAborts(c) PROVE Kept
  BY <1>1, <1>20 DEF Proxy!GatewayAborts, Proxy!Connections
<1>21. ASSUME Proxy!ConnectionBreaks(c) PROVE Kept
  BY <1>1, <1>21 DEF Proxy!ConnectionBreaks, Proxy!Connections
<1>22. ASSUME Proxy!PostLost(c) PROVE Kept
  BY <1>1, <1>22 DEF Proxy!PostLost, Proxy!Connections
<1>23. Kept
  BY <1>2, <1>3, <1>4, <1>5, <1>6, <1>7, <1>8, <1>9, <1>10, <1>11, <1>12, <1>13, <1>14, <1>15, <1>16, <1>17, <1>18, <1>19, <1>20, <1>21, <1>22 DEF Proxy!ConnStep, Proxy!ServeStep, Proxy!HandlerStep
<1>24. Serving \in Configs => Serving \in vetted
  BY GatewayAssumption DEF Serving, Vetted
<1>25. UNCHANGED <<sess, lpc, lcfg, vetted>>
  BY DEF RelayStep, vars
<1> QED BY <1>23, <1>24, <1>25 DEF Vetted, RunsOnVetted
-----------------------------------------------------------------------------
(***************************************************************************)
(* What KmipProxyProofs knows of kmip-proxy holds of the composition.      *)
(***************************************************************************)
Known == INSTANCE KmipProxyProofs WITH Vaults <- Configs, serving <- Serving

\* The two instances of KmipProxy are one.
LEMMA SameProxy == Proxy!Spec => Known!Spec
<1>1. Proxy!Init => Known!Init
  BY DEF Proxy!Init, Known!Init, Proxy!Fresh, Known!Fresh
<1>2. Proxy!Next = Known!Next
  BY DEF Proxy!At, Proxy!Live, Proxy!Unread, Proxy!Header, Proxy!Result,
         Proxy!Close,
         Proxy!Fresh, Proxy!Accept, Proxy!ClientSends, Proxy!ClientLeaves,
         Proxy!Dial, Proxy!DialFails, Proxy!Verify, Proxy!VerifyFails,
         Proxy!Read, Proxy!ReadFails, Proxy!Post, Proxy!Relayed,
         Proxy!RelayRefused, Proxy!RelayFails, Proxy!Write, Proxy!WriteFails,
         Proxy!ServeStep, Proxy!GatewayRefuses, Proxy!GatewayTakes,
         Proxy!GatewayRuns, Proxy!GatewayAborts, Proxy!ConnectionBreaks,
         Proxy!PostLost, Proxy!HandlerStep, Proxy!ServingAdvances,
         Proxy!GatewayRestarts, Proxy!ConnStep, Proxy!Next, Known!At,
         Known!Live, Known!Unread, Known!Header, Known!Result, Known!Close, Known!Fresh,
         Known!Accept, Known!ClientSends, Known!ClientLeaves, Known!Dial,
         Known!DialFails, Known!Verify, Known!VerifyFails, Known!Read,
         Known!ReadFails, Known!Post, Known!Relayed, Known!RelayRefused,
         Known!RelayFails, Known!Write, Known!WriteFails, Known!ServeStep,
         Known!GatewayRefuses, Known!GatewayTakes, Known!GatewayRuns,
         Known!GatewayAborts, Known!ConnectionBreaks, Known!PostLost,
         Known!HandlerStep, Known!ServingAdvances, Known!GatewayRestarts,
         Known!ConnStep, Known!Next
<1>3. [Proxy!Next]_(Proxy!vars) => [Known!Next]_(Known!vars)
  BY <1>2 DEF Proxy!vars, Known!vars
<1> QED BY <1>1, <1>3, PTL DEF Proxy!Spec, Known!Spec

\* The types of KmipProxy hold in the composition.
LEMMA ProxyTyped == GSpec => []Proxy!TypeOK
<1>1. GSpec => Proxy!Spec
  BY GatewayImplementsProxy DEF ImplementsProxy
<1>2. Known!Spec => []Known!TypeOK
  BY GatewayAssumption, Known!TypeCorrect DEF Known!ProxyAssumption
<1>3. Known!TypeOK => Proxy!TypeOK
  BY DEF Known!TypeOK, Proxy!TypeOK, Known!Connections, Proxy!Connections
<1> QED BY <1>1, <1>2, <1>3, SameProxy, PTL

\* A message runs on a vault that this process has found among the owner's
\* (main.go, run).
THEOREM OnlyVettedRun == GSpec => []RunsOnVetted
<1>1. GInit => Vetted
  BY DEF GInit, Init, Vetted, RunsOnVetted, Proxy!Fresh
<1>2. TypeOK /\ Proxy!TypeOK /\ Vetted /\ [GNext]_gvars => Vetted'
  <2> SUFFICES ASSUME TypeOK, Proxy!TypeOK, Vetted, [GNext]_gvars PROVE Vetted'
    OBVIOUS
  <2>1. CASE ProcessStep
    BY <2>1, ProcessKeepsVetted
  <2>2. CASE Restart
    <3>1. PICK broken \in SUBSET Conns, ran \in SUBSET Conns :
            conn' = [c \in Conns |->
              [conn[c] EXCEPT !.open = @ /\ c \notin broken,
                              !.post = IF @ \in {"sent", "taken"} THEN "refused" ELSE @,
                              !.done = IF c \in ran THEN Append(@, Proxy!Result(c)) ELSE @,
                              !.restarted = TRUE]]
      BY <2>2 DEF Restart, Proxy!GatewayRestarts
    <3>2. ASSUME NEW c \in Conns PROVE conn'[c].post # "taken"
      <4>1. conn[c] \in Proxy!Connections
        BY DEF Proxy!TypeOK
      <4> QED BY <3>1, <4>1 DEF Proxy!Connections
    <3> QED BY <2>2, <3>2 DEF Restart, Crash, Vetted, RunsOnVetted
  <2>3. CASE RelayStep
    BY <2>3, RelayKeepsVetted DEF RelayStep
  <2>4. CASE UNCHANGED gvars
    BY <2>4 DEF gvars, vars, Vetted, RunsOnVetted
  <2> QED BY <2>1, <2>2, <2>3, <2>4 DEF GNext
<1>3. Vetted => RunsOnVetted
  BY DEF Vetted
<1> QED BY <1>1, <1>2, <1>3, ProcessTyped, ProxyTyped, PTL DEF GSpec

\* End to end: a client of kmip-proxy that has had an answer is not turned away
\* on that connection unless the gateway was restarted (main.go, run and
\* main; cmd/kmip-proxy/main.go, serve).
THEOREM NoGapInService == GSpec => []Proxy!NoGap
<1>1. GSpec => Proxy!Spec
  BY GatewayImplementsProxy DEF ImplementsProxy
<1>2. Known!Spec => []Known!NoGap
  BY GatewayAssumption, Known!ServiceWithoutGap DEF Known!ProxyAssumption
<1>3. Known!NoGap => Proxy!NoGap
  BY DEF Known!NoGap, Proxy!NoGap
<1> QED BY <1>1, <1>2, <1>3, SameProxy, PTL
=============================================================================
