--------------------------- MODULE KmipProxyProofs ----------------------------
(***************************************************************************)
(* Theorems about KmipProxy: types, the two invariants a client relies on  *)
(* when an exchange ends early, and that nobody is cut off in between.     *)
(***************************************************************************)
EXTENDS KmipProxy, TLAPS

-----------------------------------------------------------------------------
(***************************************************************************)
(* The inductive invariant, of one connection x.  Account says, for each   *)
(* place where serve can be, how many messages it has taken, how many the  *)
(* gateway has run and how many are answered: before the POST all three    *)
(* agree but for the message in hand, and a message whose POST is under    *)
(* way has not been run.                                                   *)
(***************************************************************************)
Typed(x) ==
  /\ x \in Connections
  /\ x.taken <= Len(x.sent)
  /\ x.post = "taken" => x.on \in Vaults
  /\ x.pc \in {"read", "post", "wait", "write"} => x.peer = "enclave"
  /\ x.asks > 0 => x.peer = "enclave"

InOrder(x) ==
  /\ \A k \in 1..Len(x.out) : x.out[k] = k
  /\ \A k \in 1..Len(x.done) : x.done[k].msg = k

\* How far the message in hand has come, once it has been posted.
Posted(x) ==
  /\ x.asks = Len(x.out) + 1 /\ x.taken = x.asks
  /\ x.post \in {"sent", "taken"} => Len(x.done) = Len(x.out)
  /\ x.post = "answered" => Len(x.done) = Len(x.out) + 1
  /\ x.post = "none" => ~x.open

Account(x) ==
  /\ Len(x.done) - Len(x.out) \in {0, 1}
  /\ x.asks <= x.taken
  /\ x.pc \in {"free", "dial", "verify"} =>
       x.taken = 0 /\ x.post = "none" /\ x.out = <<>> /\ x.done = <<>>
  /\ x.pc = "read" =>
       /\ x.post = "none" /\ x.taken = Len(x.out)
       /\ Len(x.done) = Len(x.out)
  /\ x.pc = "post" =>
       /\ x.post = "none" /\ x.taken = Len(x.out) + 1
       /\ Len(x.done) = Len(x.out)
  /\ x.pc = "wait" => Posted(x)
  /\ x.pc = "write" =>
       /\ x.post = "none" /\ x.asks = Len(x.out) + 1 /\ x.taken = x.asks
       /\ Len(x.done) = Len(x.out) + 1
  /\ (x.pc = "closed" /\ x.post \in {"sent", "taken"}) =>
       x.asks = Len(x.out) + 1 /\ Len(x.done) = Len(x.out)

ConnInv(x) == Typed(x) /\ InOrder(x) /\ Account(x)

Inv ==
  /\ serving \in {"frozen", "awaiting"} \cup Vaults
  /\ conn \in [Conns -> Connections]
  /\ \A c \in Conns : ConnInv(conn[c])

\* A step that replaces one connection by one that satisfies the invariant
\* keeps it for all.
LEMMA OneConnection ==
  ASSUME Inv, NEW c \in Conns, NEW y, ConnInv(y),
         conn' = [conn EXCEPT ![c] = y], UNCHANGED serving
  PROVE  Inv'
<1>1. y \in Connections
  BY DEF ConnInv, Typed
<1>2. conn' \in [Conns -> Connections]
  BY <1>1 DEF Inv
<1>3. ASSUME NEW d \in Conns PROVE ConnInv(conn'[d])
  <2>1. CASE d = c  BY <2>1 DEF Inv
  <2>2. CASE d # c  BY <2>2 DEF Inv
  <2> QED BY <2>1, <2>2
<1> QED BY <1>2, <1>3 DEF Inv

\* The empty state of a connection.
LEMMA FreshInv == ConnInv(Fresh)
BY DEF Fresh, ConnInv, Typed, InOrder, Account, Connections

\* Accept, the client and serve.
LEMMA AcceptInv ==
  ASSUME Inv, NEW c \in Conns, Accept(c)
  PROVE  Inv'
<1> DEFINE y == [Fresh EXCEPT !.pc = "dial"]
<1>1. conn' = [conn EXCEPT ![c] = y] /\ UNCHANGED serving
  BY DEF Accept
<1>2. y.pc = "dial" /\ y \in Connections
  BY FreshInv DEF ConnInv, Typed, Connections, Fresh
<1>3. /\ y.sent = <<>> /\ y.taken = 0 /\ y.post = "none" /\ y.asks = 0
      /\ y.done = <<>> /\ y.out = <<>>
  BY DEF Fresh
<1>4. ConnInv(y)
  BY <1>2, <1>3 DEF ConnInv, Typed, InOrder, Account
<1> HIDE DEF y
<1> QED BY <1>1, <1>4, OneConnection

\* What the client writes or that it leaves changes no account.
LEMMA ClientInv ==
  ASSUME Inv, NEW c \in Conns, ClientSends(c) \/ ClientLeaves(c)
  PROVE  Inv'
<1> DEFINE x == conn[c]
<1>1. ConnInv(x)
  BY DEF Inv
<1>2. CASE ClientSends(c)
  <2>1. PICK n \in Sizes : conn' = [conn EXCEPT ![c].sent = Append(@, n)]
    BY <1>2 DEF ClientSends
  <2> DEFINE y == [x EXCEPT !.sent = Append(@, n)]
  <2>2. conn' = [conn EXCEPT ![c] = y] /\ UNCHANGED serving
    BY <1>2, <2>1 DEF ClientSends
  <2>3. Append(x.sent, n) \in Seq(Sizes) /\ Len(Append(x.sent, n)) = Len(x.sent) + 1
    BY <1>1 DEF ConnInv, Typed, Connections
  <2>4. ASSUME NEW z \in Seq(Sizes) PROVE [x EXCEPT !.sent = z] \in Connections
    BY <1>1 DEF ConnInv, Typed, Connections
  <2>5. y \in Connections
    BY <2>3, <2>4
  <2>6. Typed(y)
    BY <1>1, <2>3, <2>5 DEF ConnInv, Typed, Connections
  <2>7. InOrder(y) /\ Account(y)
    BY <1>1 DEF ConnInv, Typed, InOrder, Account, Posted, Connections
  <2>8. ConnInv(y)
    BY <2>6, <2>7 DEF ConnInv
  <2> HIDE DEF y
  <2> QED BY <2>2, <2>8, OneConnection
<1>3. CASE ClientLeaves(c)
  <2> DEFINE y == [x EXCEPT !.eof = TRUE]
  <2>1. conn' = [conn EXCEPT ![c] = y] /\ UNCHANGED serving
    BY <1>3 DEF ClientLeaves
  <2>2. ConnInv(y)
    BY <1>1 DEF ConnInv, Typed, InOrder, Account, Posted, Connections
  <2> HIDE DEF y
  <2> QED BY <2>1, <2>2, OneConnection
<1> QED BY <1>2, <1>3

\* Both connections closed, wherever serve was.
LEMMA CloseInv ==
  ASSUME Inv, NEW c \in Conns, conn[c].pc \notin {"free", "closed"}, Close(c)
  PROVE  Inv'
<1> DEFINE x == conn[c]
           y == [x EXCEPT !.pc = "closed", !.open = FALSE]
<1>1. ConnInv(x)
  BY DEF Inv
<1>2. conn' = [conn EXCEPT ![c] = y] /\ UNCHANGED serving
  BY DEF Close
<1>3. ConnInv(y)
  BY <1>1 DEF ConnInv, Typed, InOrder, Account, Posted, Connections
<1> HIDE DEF y
<1> QED BY <1>2, <1>3, OneConnection

\* The steps of serve that do not write to the client.
LEMMA RelayInv ==
  ASSUME Inv, NEW c \in Conns,
         Verify(c) \/ Read(c) \/ Post(c) \/ Relayed(c) \/ RelayRefused(c)
  PROVE  Inv'
<1> DEFINE x == conn[c]
<1>1. ConnInv(x)
  BY DEF Inv
<1>2. CASE Verify(c)
  <2> DEFINE y == [x EXCEPT !.pc = "read"]
  <2>1. conn' = [conn EXCEPT ![c] = y] /\ UNCHANGED serving
    BY <1>2 DEF Verify
  <2>2. ConnInv(y)
    BY <1>1, <1>2 DEF Verify, At, Unread, ConnInv, Typed, InOrder, Account, Posted, Connections
  <2> HIDE DEF y
  <2> QED BY <2>1, <2>2, OneConnection
<1>3. CASE Read(c)
  <2> DEFINE y == [x EXCEPT !.pc = "post", !.taken = @ + 1]
  <2>1. conn' = [conn EXCEPT ![c] = y] /\ UNCHANGED serving
    BY <1>3 DEF Read
  <2>2. /\ x \in Connections /\ x.taken \in Nat /\ Len(x.sent) \in Nat
        /\ x.taken < Len(x.sent)
    BY <1>1, <1>3 DEF Read, Unread, ConnInv, Typed, Connections
  <2>3. y \in Connections
    <3>1. ASSUME NEW t \in Nat PROVE [x EXCEPT !.pc = "post", !.taken = t] \in Connections
      BY <2>2 DEF Connections
    <3>2. x.taken + 1 \in Nat
      BY <2>2
    <3> QED BY <3>1, <3>2
  <2>4. Typed(y) /\ InOrder(y)
    BY <1>1, <1>3, <2>2, <2>3 DEF Read, At, ConnInv, Typed, InOrder, Account
  <2>5. Account(y)
    BY <1>1, <1>3 DEF Read, At, ConnInv, Typed, Account, Connections
  <2>6. ConnInv(y)
    BY <2>4, <2>5 DEF ConnInv
  <2> HIDE DEF y
  <2> QED BY <2>1, <2>6, OneConnection
<1>4. CASE Post(c)
  <2>0. PICK post \in {"sent", "none"} : post = IF x.open THEN "sent" ELSE "none"
    OBVIOUS
  <2> DEFINE y == [x EXCEPT !.pc = "wait", !.asks = x.taken, !.post = post]
  <2>1. conn' = [conn EXCEPT ![c] = y] /\ UNCHANGED serving
    BY <1>4, <2>0 DEF Post
  <2>2. y \in Connections
    BY <1>1 DEF ConnInv, Typed, Connections
  <2>3. Typed(y) /\ InOrder(y)
    BY <1>1, <1>4, <2>2 DEF Post, At, ConnInv, Typed, InOrder, Account, Posted
  <2>4. Account(y)
    BY <1>1, <1>4, <2>0, <2>2 DEF Post, At, ConnInv, Typed, Account, Posted, Connections
  <2>5. ConnInv(y)
    BY <2>3, <2>4 DEF ConnInv
  <2> HIDE DEF y
  <2> QED BY <2>1, <2>5, OneConnection
<1>5. CASE Relayed(c)
  <2> DEFINE y == [x EXCEPT !.pc = "write", !.post = "none"]
  <2>1. conn' = [conn EXCEPT ![c] = y] /\ UNCHANGED serving
    BY <1>5 DEF Relayed
  <2>2. y \in Connections
    BY <1>1 DEF ConnInv, Typed, Connections
  <2>3. Typed(y) /\ InOrder(y)
    BY <1>1, <1>5, <2>2 DEF Relayed, At, ConnInv, Typed, InOrder, Account, Posted
  <2>4. Account(y)
    BY <1>1, <1>5, <2>2 DEF Relayed, At, ConnInv, Typed, Account, Posted
  <2>5. ConnInv(y)
    BY <2>3, <2>4 DEF ConnInv
  <2> HIDE DEF y
  <2> QED BY <2>1, <2>5, OneConnection
<1>6. CASE RelayRefused(c)
  <2> DEFINE y == [x EXCEPT !.pc = "closed", !.open = FALSE, !.post = "none", !.refused = TRUE]
  <2>1. conn' = [conn EXCEPT ![c] = y] /\ UNCHANGED serving
    BY <1>6 DEF RelayRefused
  <2>2. ConnInv(y)
    BY <1>1, <1>6 DEF RelayRefused, At, Unread, ConnInv, Typed, InOrder, Account, Posted, Connections
  <2> HIDE DEF y
  <2> QED BY <2>1, <2>2, OneConnection
<1> QED BY <1>2, <1>3, <1>4, <1>5, <1>6
\* The dial: nothing has been read yet, so nothing has been asked of the peer.
LEMMA DialInv ==
  ASSUME Inv, NEW c \in Conns, Dial(c)
  PROVE  Inv'
<1> DEFINE x == conn[c]
<1>1. ConnInv(x)
  BY DEF Inv
<1>2. PICK peer \in {"enclave", "other"} :
        conn' = [conn EXCEPT ![c].pc = "verify", ![c].peer = peer, ![c].open = TRUE]
  BY DEF Dial
<1> DEFINE y == [x EXCEPT !.pc = "verify", !.peer = peer, !.open = TRUE]
<1>3. conn' = [conn EXCEPT ![c] = y] /\ UNCHANGED serving
  BY <1>2 DEF Dial
<1>4. x.asks = 0
  BY <1>1 DEF Dial, At, ConnInv, Typed, Account, Connections
<1>5. y \in Connections
  BY <1>1 DEF ConnInv, Typed, Connections
<1>6. Typed(y) /\ InOrder(y)
  BY <1>1, <1>4, <1>5 DEF ConnInv, Dial, At, Typed, InOrder, Account
<1>7. Account(y)
  BY <1>1, <1>4 DEF Dial, At, ConnInv, Account
<1>8. ConnInv(y)
  BY <1>6, <1>7 DEF ConnInv
<1> HIDE DEF y
<1> QED BY <1>3, <1>8, OneConnection

\* The answer written is the one to the message in hand, whose number is one
\* more than that of the answer before.
LEMMA WriteInv ==
  ASSUME Inv, NEW c \in Conns, Write(c)
  PROVE  Inv'
<1> DEFINE x == conn[c]
           more == Append(x.out, x.asks)
           y == [x EXCEPT !.pc = "read", !.out = more]
<1>1. ConnInv(x)
  BY DEF Inv
<1>2. conn' = [conn EXCEPT ![c] = y] /\ UNCHANGED serving
  BY DEF Write
<1>3. /\ x \in Connections /\ x.out \in Seq(Nat) /\ x.asks \in Nat
      /\ x.asks = Len(x.out) + 1
  BY <1>1 DEF Write, At, ConnInv, Typed, Account, Connections
<1>4. more \in Seq(Nat) /\ Len(more) = Len(x.out) + 1
  BY <1>3
<1>5. \A k \in 1..Len(more) : more[k] = k
  BY <1>1, <1>3 DEF ConnInv, InOrder
<1> HIDE DEF more
<1>6. y \in Connections
  BY <1>3, <1>4 DEF Connections
<1>7. Typed(y) /\ InOrder(y)
  BY <1>1, <1>5, <1>6 DEF Write, At, ConnInv, Typed, InOrder, Connections
<1>8. Account(y)
  BY <1>1, <1>4 DEF Write, At, ConnInv, Typed, Account, Connections
<1>9. ConnInv(y)
  BY <1>7, <1>8 DEF ConnInv
<1> HIDE DEF y
<1> QED BY <1>2, <1>9, OneConnection

\* All steps of serve.
LEMMA ServeInv ==
  ASSUME Inv, NEW c \in Conns, ServeStep(c)
  PROVE  Inv'
<1>1. CASE DialFails(c) \/ VerifyFails(c) \/ ReadFails(c) \/ RelayFails(c) \/ WriteFails(c)
  BY <1>1, CloseInv DEF DialFails, VerifyFails, ReadFails, RelayFails, WriteFails, At
<1> QED BY <1>1, DialInv, RelayInv, WriteInv DEF ServeStep

-----------------------------------------------------------------------------
\* The gateway runs the message in hand, whose number is one more than that of
\* the one it ran before.
LEMMA ResultInOrder ==
  ASSUME Inv, NEW c \in Conns, conn[c].post = "taken"
  PROVE  LET x == conn[c]
             more == Append(x.done, Result(c))
         IN  /\ more \in Seq([msg : Nat, on : {"invalid"} \cup Vaults])
             /\ Len(x.done) = Len(x.out) /\ Len(more) = Len(x.done) + 1
             /\ x.pc \in {"wait", "closed"}
             /\ \A k \in 1..Len(more) : more[k].msg = k
<1> DEFINE x == conn[c]
           more == Append(x.done, Result(c))
<1>1. ConnInv(x)
  BY DEF Inv
<1>2. x \in Connections /\ x.on \in Vaults /\ x.asks \in Nat
  BY <1>1 DEF ConnInv, Typed, Connections
<1>3. x.pc \in {"wait", "closed"} /\ x.asks = Len(x.out) + 1 /\ Len(x.done) = Len(x.out)
  BY <1>1 DEF ConnInv, Typed, Account, Posted, Connections
<1>4. Result(c) \in [msg : Nat, on : {"invalid"} \cup Vaults] /\ Result(c).msg = x.asks
  BY <1>2 DEF Result
<1>5. x.done \in Seq([msg : Nat, on : {"invalid"} \cup Vaults])
  BY <1>2 DEF Connections
<1>6. /\ more \in Seq([msg : Nat, on : {"invalid"} \cup Vaults])
      /\ Len(more) = Len(x.done) + 1
  BY <1>4, <1>5
<1>7. more[Len(x.done) + 1] = Result(c) /\ \A k \in 1..Len(x.done) : more[k] = x.done[k]
  BY <1>4, <1>5
<1>8. Len(x.done) \in Nat /\ \A k \in 1..Len(x.done) : x.done[k].msg = k
  BY <1>1, <1>5 DEF ConnInv, InOrder
<1> HIDE DEF more
<1>9. ASSUME NEW k \in 1..Len(more) PROVE more[k].msg = k
  <2>1. k \in 1..Len(x.done) \/ k = Len(x.done) + 1
    BY <1>6, <1>8
  <2>2. CASE k \in 1..Len(x.done)
    BY <2>2, <1>7, <1>8
  <2>3. CASE k = Len(x.done) + 1
    BY <2>3, <1>3, <1>4, <1>7
  <2> QED BY <2>1, <2>2, <2>3
<1> QED BY <1>3, <1>6, <1>9 DEF more
\* The gateway's end of a POST, but for what runs a message.
LEMMA TransportInv ==
  ASSUME Inv, NEW c \in Conns,
         \/ GatewayRefuses(c) \/ GatewayTakes(c)
         \/ ConnectionBreaks(c) \/ PostLost(c)
  PROVE  Inv'
<1> DEFINE x == conn[c]
<1>1. ConnInv(x)
  BY DEF Inv
<1>2. CASE GatewayRefuses(c)
  <2> DEFINE y == [x EXCEPT !.post = "refused"]
  <2>1. conn' = [conn EXCEPT ![c] = y] /\ UNCHANGED serving
    BY <1>2 DEF GatewayRefuses
  <2>2. y \in Connections
    BY <1>1, <1>2 DEF GatewayRefuses, ConnInv, Typed, Connections
  <2>3. Typed(y) /\ InOrder(y)
    BY <1>1, <1>2, <2>2 DEF GatewayRefuses, ConnInv, Typed, InOrder
  <2>4. Account(y)
    BY <1>1, <1>2 DEF GatewayRefuses, ConnInv, Account, Posted
  <2>5. ConnInv(y)
    BY <2>3, <2>4 DEF ConnInv
  <2> HIDE DEF y
  <2> QED BY <2>1, <2>5, OneConnection
<1>3. CASE GatewayTakes(c)
  <2> DEFINE y == [x EXCEPT !.post = "taken", !.on = serving]
  <2>1. conn' = [conn EXCEPT ![c] = y] /\ UNCHANGED serving
    BY <1>3 DEF GatewayTakes
  <2>2. y \in Connections
    BY <1>1, <1>3 DEF GatewayTakes, ConnInv, Typed, Connections
  <2>3. Typed(y) /\ InOrder(y)
    BY <1>1, <1>3, <2>2 DEF GatewayTakes, ConnInv, Typed, InOrder
  <2>4. Account(y)
    BY <1>1, <1>3 DEF GatewayTakes, ConnInv, Account, Posted
  <2>5. ConnInv(y)
    BY <2>3, <2>4 DEF ConnInv
  <2> HIDE DEF y
  <2> QED BY <2>1, <2>5, OneConnection
<1>4. CASE ConnectionBreaks(c)
  <2> DEFINE y == [x EXCEPT !.open = FALSE]
  <2>1. conn' = [conn EXCEPT ![c] = y] /\ UNCHANGED serving
    BY <1>4 DEF ConnectionBreaks
  <2>2. y \in Connections
    BY <1>1, <1>4 DEF ConnectionBreaks, ConnInv, Typed, Connections
  <2>3. Typed(y) /\ InOrder(y)
    BY <1>1, <1>4, <2>2 DEF ConnectionBreaks, ConnInv, Typed, InOrder
  <2>4. Account(y)
    BY <1>1, <1>4 DEF ConnectionBreaks, ConnInv, Account, Posted
  <2>5. ConnInv(y)
    BY <2>3, <2>4 DEF ConnInv
  <2> HIDE DEF y
  <2> QED BY <2>1, <2>5, OneConnection
<1>5. CASE PostLost(c)
  <2> DEFINE y == [x EXCEPT !.post = "none"]
  <2>1. conn' = [conn EXCEPT ![c] = y] /\ UNCHANGED serving
    BY <1>5 DEF PostLost
  <2>2. y \in Connections
    BY <1>1, <1>5 DEF PostLost, ConnInv, Typed, Connections
  <2>3. Typed(y) /\ InOrder(y)
    BY <1>1, <1>5, <2>2 DEF PostLost, ConnInv, Typed, InOrder
  <2>4. Account(y)
    BY <1>1, <1>5 DEF PostLost, ConnInv, Account, Posted
  <2>5. ConnInv(y)
    BY <2>3, <2>4 DEF ConnInv
  <2> HIDE DEF y
  <2> QED BY <2>1, <2>5, OneConnection
<1> QED BY <1>2, <1>3, <1>4, <1>5

\* What running the message in hand makes of a connection, whether or not the
\* connection then breaks.
LEMMA RunInv ==
  ASSUME Inv, NEW c \in Conns, conn[c].post = "taken", NEW ran \in BOOLEAN,
         NEW open \in BOOLEAN, NEW post \in {"none", "refused", "answered"},
         NEW restarted \in BOOLEAN,
         post = "answered" => ran, post = "none" => ~open
  PROVE  ConnInv([conn[c] EXCEPT
                    !.post = post, !.open = open, !.restarted = restarted,
                    !.done = IF ran THEN Append(@, Result(c)) ELSE @])
<1> DEFINE x == conn[c]
           more == IF ran THEN Append(x.done, Result(c)) ELSE x.done
           y == [x EXCEPT !.post = post, !.open = open, !.restarted = restarted,
                          !.done = more]
<1>1. ConnInv(x) /\ x \in Connections
  BY DEF Inv, ConnInv, Typed
<1>2. /\ more \in Seq([msg : Nat, on : {"invalid"} \cup Vaults])
      /\ Len(x.done) = Len(x.out) /\ x.pc \in {"wait", "closed"}
      /\ Len(more) = IF ran THEN Len(x.out) + 1 ELSE Len(x.out)
      /\ \A k \in 1..Len(more) : more[k].msg = k
  <2>1. CASE ran
    BY <2>1, ResultInOrder
  <2>2. CASE ~ran
    BY <2>2, <1>1, ResultInOrder DEF ConnInv, InOrder, Connections
  <2> QED BY <2>1, <2>2
<1> HIDE DEF more
<1>3. y \in Connections
  BY <1>1, <1>2 DEF Connections
<1>4. Typed(y) /\ InOrder(y)
  BY <1>1, <1>2, <1>3 DEF ConnInv, Typed, InOrder
<1>5. x.out \in Seq(Nat) /\ Len(x.out) \in Nat
  BY <1>1 DEF Connections
<1>6. Account(y)
  BY <1>1, <1>2, <1>5 DEF ConnInv, Account, Posted
<1>7. ConnInv(y)
  BY <1>4, <1>6 DEF ConnInv
<1> QED BY <1>7 DEF more
\* The gateway runs a message and answers, or breaks off before or after.
LEMMA HandlerInv ==
  ASSUME Inv, NEW c \in Conns, GatewayRuns(c) \/ GatewayAborts(c)
  PROVE  Inv'
<1> DEFINE x == conn[c]
<1>1. x.post = "taken" /\ x.open \in BOOLEAN /\ x.restarted \in BOOLEAN /\ x \in Connections
  BY DEF GatewayRuns, GatewayAborts, Inv, Connections
<1>2. CASE GatewayRuns(c)
  <2> DEFINE y == [x EXCEPT !.post = "answered", !.done = Append(@, Result(c))]
  <2>1. conn' = [conn EXCEPT ![c] = y] /\ UNCHANGED serving
    BY <1>2 DEF GatewayRuns
  <2>2. ConnInv([x EXCEPT !.post = "answered", !.open = x.open, !.restarted = x.restarted,
                          !.done = IF TRUE THEN Append(@, Result(c)) ELSE @])
    BY <1>1, RunInv
  <2>3. y = [x EXCEPT !.post = "answered", !.open = x.open, !.restarted = x.restarted,
                      !.done = IF TRUE THEN Append(@, Result(c)) ELSE @]
    BY <1>1 DEF Connections
  <2>4. ConnInv(y)
    BY <2>2, <2>3
  <2> HIDE DEF y
  <2> QED BY <2>1, <2>4, OneConnection
<1>3. CASE GatewayAborts(c)
  <2>1. PICK ran \in BOOLEAN :
          conn' = [conn EXCEPT ![c].post = "none", ![c].open = FALSE,
                               ![c].done = IF ran THEN Append(@, Result(c)) ELSE @]
    BY <1>3 DEF GatewayAborts
  <2> DEFINE y == [x EXCEPT !.post = "none", !.open = FALSE,
                            !.done = IF ran THEN Append(@, Result(c)) ELSE @]
  <2>2. conn' = [conn EXCEPT ![c] = y] /\ UNCHANGED serving
    BY <1>3, <2>1 DEF GatewayAborts
  <2>3. ConnInv([x EXCEPT !.post = "none", !.open = FALSE, !.restarted = x.restarted,
                          !.done = IF ran THEN Append(@, Result(c)) ELSE @])
    BY <1>1, RunInv
  <2>4. y = [x EXCEPT !.post = "none", !.open = FALSE, !.restarted = x.restarted,
                      !.done = IF ran THEN Append(@, Result(c)) ELSE @]
    BY <1>1 DEF Connections
  <2>5. ConnInv(y)
    BY <2>3, <2>4
  <2> HIDE DEF y
  <2> QED BY <2>2, <2>5, OneConnection
<1> QED BY <1>2, <1>3

\* A restart changes every connection, each as RunInv allows if its message was
\* taken, else in what the accounts do not depend on.
LEMMA RestartInv ==
  ASSUME Inv, GatewayRestarts
  PROVE  Inv'
<1>1. PICK broken \in SUBSET Conns, ran \in SUBSET Conns :
        /\ \A c \in ran : conn[c].post = "taken"
        /\ conn' = [c \in Conns |->
            [conn[c] EXCEPT !.open = @ /\ c \notin broken,
                            !.post = IF @ \in {"sent", "taken"} THEN "refused" ELSE @,
                            !.done = IF c \in ran THEN Append(@, Result(c)) ELSE @,
                            !.restarted = TRUE]]
  BY DEF GatewayRestarts
<1>2. ASSUME NEW c \in Conns PROVE ConnInv(conn'[c])
  <2> DEFINE x == conn[c]
             open == x.open /\ c \notin broken
  <2>1. ConnInv(x) /\ x \in Connections /\ open \in BOOLEAN
    BY DEF Inv, Connections
  <2>2. CASE x.post = "taken"
    <3>1. conn'[c] = [x EXCEPT !.post = "refused", !.open = open, !.restarted = TRUE,
                               !.done = IF c \in ran THEN Append(@, Result(c)) ELSE @]
      BY <1>1, <2>1, <2>2 DEF Connections
    <3> HIDE DEF open
    <3>2. ConnInv([x EXCEPT !.post = "refused", !.open = open, !.restarted = TRUE,
                            !.done = IF c \in ran THEN Append(@, Result(c)) ELSE @])
      BY <2>1, <2>2, RunInv
    <3> QED BY <3>1, <3>2
  <2>3. CASE x.post # "taken"
    <3> DEFINE post == IF x.post = "sent" THEN "refused" ELSE x.post
               y == [x EXCEPT !.post = post, !.open = open, !.restarted = TRUE]
    <3>1. conn'[c] = y
      BY <1>1, <2>1, <2>3 DEF Connections
    <3>2. post \in {"none", "sent", "taken", "refused", "answered"}
      BY <2>1 DEF Connections
    <3>3. y \in Connections
      <4> HIDE DEF post, open
      <4> QED BY <2>1, <3>2 DEF Connections
    <3>4. Typed(y) /\ InOrder(y)
      BY <2>1, <2>3, <3>3 DEF ConnInv, Typed, InOrder
    <3>5. Account(y)
      <4> /\ y.pc = x.pc /\ y.taken = x.taken /\ y.asks = x.asks /\ y.out = x.out
          /\ y.done = x.done /\ y.post = post /\ (y.open => x.open)
        BY <2>1 DEF Connections
      <4> HIDE DEF y, open
      <4>1. CASE x.post = "sent"
        BY <2>1, <4>1 DEF ConnInv, Account, Posted
      <4>2. CASE x.post # "sent"
        BY <2>1, <2>3, <4>2 DEF ConnInv, Account, Posted
      <4> QED BY <4>1, <4>2
    <3> QED BY <3>1, <3>4, <3>5 DEF ConnInv
  <2> QED BY <2>2, <2>3
<1>3. serving' \in {"frozen", "awaiting"} \cup Vaults
  BY DEF GatewayRestarts
<1>4. conn' \in [Conns -> Connections]
  <2>1. \A c \in Conns : conn'[c] \in Connections
    BY <1>2 DEF ConnInv, Typed
  <2>2. DOMAIN conn' = Conns /\ conn' = [c \in Conns |-> conn'[c]]
    BY <1>1
  <2> QED BY <2>1, <2>2
<1> QED BY <1>2, <1>3, <1>4 DEF Inv

\* Every step keeps the invariant.
LEMMA NextInv ==
  ASSUME Inv, [Next]_vars
  PROVE  Inv'
<1>1. CASE ServingAdvances
  BY <1>1 DEF ServingAdvances, Inv
<1>2. ASSUME NEW c \in Conns, ConnStep(c) PROVE Inv'
  BY <1>2, AcceptInv, ClientInv, ServeInv, TransportInv, HandlerInv DEF ConnStep, HandlerStep
<1>3. CASE UNCHANGED vars
  BY <1>3 DEF vars, Inv
<1> QED BY <1>1, <1>2, <1>3, RestartInv DEF Next

-----------------------------------------------------------------------------
\* The invariant holds throughout.
LEMMA AlwaysInv == Spec => []Inv
<1>1. Init => Inv
  BY FreshInv DEF Init, Inv, ConnInv, Typed
<1>2. Inv /\ [Next]_vars => Inv'
  BY NextInv
<1> QED BY <1>1, <1>2, PTL DEF Spec

\* Types hold throughout, for any number of connections and messages of any
\* length; in particular nothing is posted to a peer that has not shown an
\* enclave's quote (main.go, connect).
THEOREM TypeCorrect == Spec => []TypeOK
<1>1. Inv => TypeOK
  BY DEF Inv, ConnInv, Typed, Account, TypeOK
<1> QED BY <1>1, AlwaysInv, PTL

\* The k-th answer on a connection is that to the k-th message (main.go, serve).
THEOREM AnswersStayPaired == Spec => []AnswersPaired
<1>1. Inv => AnswersPaired
  BY DEF Inv, ConnInv, InOrder, AnswersPaired
<1> QED BY <1>1, AlwaysInv, PTL

\* Messages run in order and once, and at most the last one taken has run
\* without being answered (main.go, serve).
THEOREM OnlyOneInDoubt == Spec => []OneInDoubt
<1>1. Inv => OneInDoubt
  BY DEF Inv, ConnInv, InOrder, Account, OneInDoubt
<1> QED BY <1>1, AlwaysInv, PTL
-----------------------------------------------------------------------------
(***************************************************************************)
(* Service without a gap.  A connection that no restart has touched is     *)
(* served from its first answer on, because the gateway then has a session *)
(* and keeps one.                                                          *)
(***************************************************************************)
Unbroken(x, s) ==
  /\ x.post \in {"taken", "answered"} \/ x.pc = "write" \/ x.out # <<>> => s \in Vaults
  /\ x.post = "refused" \/ x.refused => x.out = <<>>
  /\ x.refused => x.pc = "closed"

GapInv == \A c \in Conns : conn[c].restarted \/ Unbroken(conn[c], serving)

\* No step of a connection leaves it refused after an answer.
LEMMA ConnGap ==
  ASSUME Inv, GapInv, NEW c \in Conns, ConnStep(c)
  PROVE  GapInv'
<1> DEFINE x == conn[c]
           Kept == /\ serving' = serving
                   /\ \A d \in Conns \ {c} : conn'[d] = conn[d]
                   /\ conn'[c].restarted \/ Unbroken(conn'[c], serving)
<1>1. Inv'
  BY NextInv DEF Next
<1>2. x.restarted \/ Unbroken(x, serving)
  BY DEF GapInv
<1>3. /\ x \in Connections /\ ConnInv(x) /\ conn \in [Conns -> Connections]
  BY DEF Inv, ConnInv, Typed
<1>4. ASSUME Accept(c) PROVE Kept
  BY <1>2, <1>3, <1>4 DEF Accept, Fresh, At, Unbroken, Connections, ConnInv, Account, Posted
<1>5. ASSUME ClientSends(c) PROVE Kept
  BY <1>2, <1>3, <1>5 DEF ClientSends, At, Unbroken, Connections, ConnInv, Account, Posted
<1>6. ASSUME ClientLeaves(c) PROVE Kept
  BY <1>2, <1>3, <1>6 DEF ClientLeaves, At, Unbroken, Connections, ConnInv, Account, Posted
<1>7. ASSUME Dial(c) PROVE Kept
  BY <1>2, <1>3, <1>7 DEF Dial, At, Unbroken, Connections, ConnInv, Account, Posted
<1>8. ASSUME DialFails(c) PROVE Kept
  BY <1>2, <1>3, <1>8 DEF DialFails, Close, At, Unbroken, Connections, ConnInv, Account, Posted
<1>9. ASSUME Verify(c) PROVE Kept
  BY <1>2, <1>3, <1>9 DEF Verify, At, Unbroken, Connections, ConnInv, Account, Posted
<1>10. ASSUME VerifyFails(c) PROVE Kept
  BY <1>2, <1>3, <1>10 DEF VerifyFails, Close, At, Unbroken, Connections, ConnInv, Account, Posted
<1>11. ASSUME Read(c) PROVE Kept
  BY <1>2, <1>3, <1>11 DEF Read, At, Unbroken, Connections, ConnInv, Account, Posted
<1>12. ASSUME ReadFails(c) PROVE Kept
  BY <1>2, <1>3, <1>12 DEF ReadFails, Close, At, Unbroken, Connections, ConnInv, Account, Posted
<1>13. ASSUME Post(c) PROVE Kept
  BY <1>2, <1>3, <1>13 DEF Post, At, Unbroken, Connections, ConnInv, Account, Posted
<1>14. ASSUME Relayed(c) PROVE Kept
  BY <1>2, <1>3, <1>14 DEF Relayed, At, Unbroken, Connections, ConnInv, Account, Posted
<1>15. ASSUME RelayRefused(c) PROVE Kept
  BY <1>2, <1>3, <1>15 DEF RelayRefused, At, Unbroken, Connections, ConnInv, Account, Posted
<1>16. ASSUME RelayFails(c) PROVE Kept
  BY <1>2, <1>3, <1>16 DEF RelayFails, Close, At, Unbroken, Connections, ConnInv, Account, Posted
<1>17. ASSUME Write(c) PROVE Kept
  BY <1>2, <1>3, <1>17 DEF Write, At, Unbroken, Connections, ConnInv, Account, Posted
<1>18. ASSUME WriteFails(c) PROVE Kept
  BY <1>2, <1>3, <1>18 DEF WriteFails, Close, At, Unbroken, Connections, ConnInv, Account, Posted
<1>19. ASSUME GatewayRefuses(c) PROVE Kept
  BY <1>2, <1>3, <1>19, ProxyAssumption DEF GatewayRefuses, At, Unbroken, Connections, ConnInv, Account, Posted
<1>20. ASSUME GatewayTakes(c) PROVE Kept
  BY <1>2, <1>3, <1>20 DEF GatewayTakes, At, Unbroken, Connections, ConnInv, Account, Posted
<1>21. ASSUME GatewayRuns(c) PROVE Kept
  BY <1>2, <1>3, <1>21 DEF GatewayRuns, At, Unbroken, Connections, ConnInv, Account, Posted
<1>22. ASSUME GatewayAborts(c) PROVE Kept
  BY <1>2, <1>3, <1>22 DEF GatewayAborts, At, Unbroken, Connections, ConnInv, Account, Posted
<1>23. ASSUME ConnectionBreaks(c) PROVE Kept
  BY <1>2, <1>3, <1>23 DEF ConnectionBreaks, At, Unbroken, Connections, ConnInv, Account, Posted
<1>24. ASSUME PostLost(c) PROVE Kept
  BY <1>2, <1>3, <1>24 DEF PostLost, At, Unbroken, Connections, ConnInv, Account, Posted
<1>25. Kept
  BY <1>4, <1>5, <1>6, <1>7, <1>8, <1>9, <1>10, <1>11, <1>12, <1>13, <1>14, <1>15, <1>16, <1>17, <1>18, <1>19, <1>20, <1>21, <1>22, <1>23, <1>24 DEF ConnStep, ServeStep, HandlerStep
<1>26. ASSUME NEW d \in Conns PROVE conn'[d].restarted \/ Unbroken(conn'[d], serving')
  <2>1. CASE d = c
    BY <2>1, <1>25
  <2>2. CASE d # c
    BY <2>2, <1>25 DEF GapInv
  <2> QED BY <2>1, <2>2
<1> QED BY <1>26 DEF GapInv

\* Nor does the gateway: it advances or restarts.
LEMMA NextGap ==
  ASSUME Inv, GapInv, [Next]_vars
  PROVE  GapInv'
<1>1. CASE ServingAdvances
  <2>1. serving \in Vaults => serving' \in Vaults
    BY <1>1, ProxyAssumption DEF ServingAdvances
  <2> QED BY <1>1, <2>1 DEF ServingAdvances, GapInv, Unbroken
<1>2. CASE GatewayRestarts
  <2>1. PICK broken \in SUBSET Conns, ran \in SUBSET Conns :
          conn' = [c \in Conns |->
            [conn[c] EXCEPT !.open = @ /\ c \notin broken,
                            !.post = IF @ \in {"sent", "taken"} THEN "refused" ELSE @,
                            !.done = IF c \in ran THEN Append(@, Result(c)) ELSE @,
                            !.restarted = TRUE]]
    BY <1>2 DEF GatewayRestarts
  <2>2. ASSUME NEW c \in Conns PROVE conn'[c].restarted
    <3>1. conn[c] \in Connections
      BY DEF Inv
    <3> QED BY <2>1, <3>1 DEF Connections
  <2> QED BY <2>2 DEF GapInv
<1>3. CASE \E c \in Conns : ConnStep(c)
  BY <1>3, ConnGap
<1>4. CASE UNCHANGED vars
  BY <1>4 DEF vars, GapInv
<1> QED BY <1>1, <1>2, <1>3, <1>4 DEF Next

\* Whoever has had an answer is served until he leaves or the gateway is
\* restarted: re-pointing and refreshing make no gap (control/server.go,
\* SetSession).
THEOREM ServiceWithoutGap == Spec => []NoGap
<1>1. Init => GapInv
  <2>1. Unbroken(Fresh, serving)
    BY DEF Fresh, Unbroken
  <2> QED BY <2>1 DEF Init, GapInv
<1>2. Inv /\ GapInv /\ [Next]_vars => GapInv'
  BY NextGap
<1>3. Inv /\ GapInv => NoGap
  <2> SUFFICES ASSUME Inv, GapInv, NEW c \in Conns,
                      conn[c].refused, Len(conn[c].out) > 0, ~conn[c].restarted
               PROVE  FALSE
    BY DEF NoGap
  <2>1. conn[c].out = <<>>
    BY DEF GapInv, Unbroken
  <2> QED BY <2>1
<1> QED BY <1>1, <1>2, <1>3, AlwaysInv, PTL DEF Spec
=============================================================================
