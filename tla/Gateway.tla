------------------------------- MODULE Gateway --------------------------------
(***************************************************************************)
(* The gateway's own life (ConfigManager) together with the clients whose  *)
(* messages kmip-proxy relays to it (KmipProxy).  The two meet in          *)
(*   - Serving: what a POST /kmip meets is the manager's gate first, then  *)
(*     the session that the loop installed, if any;                        *)
(*   - Crash: the requests under way go down with the process.             *)
(* Every other step belongs to one side and leaves the other alone.        *)
(*                                                                         *)
(* KmipProxy assumes of the gateway that it never takes back a session     *)
(* while it runs (ServingAdvances).  ImplementsProxy says that it keeps to *)
(* that.                                                                   *)
(***************************************************************************)
EXTENDS ConfigManager, Sequences

CONSTANTS Conns, Sizes, RelayLimit, BodyLimit, MaxSent

ASSUME GatewayAssumption ==
  /\ Sizes \subseteq Nat /\ RelayLimit \in Nat /\ BodyLimit \in Nat
  /\ MaxSent \in Nat
  /\ Configs \cap {"frozen", "awaiting", "invalid"} = {}

VARIABLES
  conn,   \* as in KmipProxy
  vetted  \* history: configs that a discovery of this process found listed

Serving ==
  IF frozen THEN "frozen" ELSE IF sess = NoConfig THEN "awaiting" ELSE sess

Proxy == INSTANCE KmipProxy WITH Vaults <- Configs, serving <- Serving

gvars == <<vars, conn, vetted>>

GInit == Init /\ conn = [c \in Conns |-> Proxy!Fresh] /\ vetted = {}

\* A step of main, of a /configure handler, of the loop or of the control plane.
\* What vets a config is the very discovery that lists it.
ProcessStep ==
  /\ \/ BootStep
     \/ \E h \in Handlers : HandlerStart(h) \/ HandlerStep(h)
     \/ LoopStep
     \/ OwnershipChange
  /\ vetted' = IF LoopDiscoverOk THEN vetted \cup {lcfg} ELSE vetted
  /\ UNCHANGED conn

\* The process dies and is loaded again.
Restart == Crash /\ Proxy!GatewayRestarts /\ vetted' = {}

\* A step of a client, of kmip-proxy or of the handler of a POST /kmip.
RelayStep == UNCHANGED <<vars, vetted>> /\ \E c \in Conns : Proxy!ConnStep(c)

GNext == ProcessStep \/ Restart \/ RelayStep

GSpec == GInit /\ [][GNext]_gvars

-----------------------------------------------------------------------------
(***************************************************************************)
(* Properties                                                              *)
(***************************************************************************)

\* What a client's message runs on is a vault that this very process has found
\* among the owner's: not one it was told of and has not looked up, and not one
\* that only an earlier run of it had looked up (main.go, run; a config re-applied
\* at start is discovered like a new one).
RunsOnVetted ==
  \A c \in Conns : conn[c].post = "taken" => conn[c].on \in vetted

\* To its clients the gateway is the one KmipProxy assumes: refusals stop when
\* the gate is open and a session installed, and come back with a restart only.
\* No re-pointing, failed discovery or lost ownership makes a gap.
ImplementsProxy == Proxy!Spec
=============================================================================
