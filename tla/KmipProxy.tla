------------------------------ MODULE KmipProxy ------------------------------
(***************************************************************************)
(* cmd/kmip-proxy: the shim in front of clients that cannot verify an      *)
(* enclave.  Each local connection has a goroutine, serve, that opens and  *)
(* verifies a connection of its own to the gateway and then relays one     *)
(* message at a time: read it whole, POST it, wait for the response, write *)
(* the response back.  Anything that goes wrong ends both connections.     *)
(*                                                                         *)
(* Clients may write ahead of the answers, stop in the middle of a message *)
(* or leave.  The connection to the gateway may break at any moment, the   *)
(* gateway may be frozen, unconfigured or restarted, and a POST that has   *)
(* been sent may run although nobody waits for it any more.  Gateway       *)
(* composes this module with the gateway's own life.                       *)
(***************************************************************************)
EXTENDS Naturals, Sequences

CONSTANTS
  Conns,      \* local connections, one at a time under each of these names
  Vaults,     \* what the gateway may have a session for
  Sizes,      \* lengths in bytes that clients' messages declare for their values
  RelayLimit, \* readTTLV: the longest value the proxy reads, 16 MiB
  BodyLimit,  \* handleKMIP: the longest body the gateway reads, 1 MiB
  MaxSent     \* bound: messages on one connection

ASSUME ProxyAssumption ==
  /\ Sizes \subseteq Nat /\ RelayLimit \in Nat /\ BodyLimit \in Nat
  /\ MaxSent \in Nat
  /\ Vaults \cap {"frozen", "awaiting", "invalid"} = {}

VARIABLES
  serving,  \* the gateway: "frozen", "awaiting" a session, or the vault of its session
  conn      \* the state of each connection

vars == <<serving, conn>>

(***************************************************************************)
(* A connection.  pc is where serve is; peer, who answered the dial (the   *)
(* enclave or somebody without its quote); open, whether the connection to *)
(* the gateway still carries data.  sent is what the client has written,   *)
(* taken how many of these serve has read, eof that the client writes no   *)
(* more, maybe in the middle of a message.  post is the POST under way,    *)
(* asks the number of the message in it and on the vault whose session the *)
(* gateway took for it.  done is what the gateway has done for the         *)
(* connection: which message, and on which vault or that it was "invalid". *)
(* out is what serve has written to the client: the numbers of the         *)
(* messages its answers are for.  restarted and refused are history: the   *)
(* gateway was restarted since the connection was accepted, it refused a   *)
(* message.                                                                *)
(***************************************************************************)
Fresh == [pc |-> "free", peer |-> "none", open |-> FALSE,
          sent |-> <<>>, taken |-> 0, eof |-> FALSE,
          post |-> "none", asks |-> 0, on |-> "none", done |-> <<>>, out |-> <<>>,
          restarted |-> FALSE, refused |-> FALSE]

Init ==
  /\ serving \in {"frozen", "awaiting"} \cup Vaults
  /\ conn = [c \in Conns |-> Fresh]

At(c, pc) == conn[c].pc = pc
Live(c) == conn[c].pc \notin {"free", "closed"}

-----------------------------------------------------------------------------
(***************************************************************************)
(* The client                                                              *)
(***************************************************************************)

\* ln.Accept returns a connection; serve starts with the dial.
Accept(c) ==
  /\ conn[c].pc \in {"free", "closed"}
  /\ conn[c].post \notin {"sent", "taken"}
  /\ conn' = [conn EXCEPT ![c] = [Fresh EXCEPT !.pc = "dial"]]
  /\ UNCHANGED serving

\* A whole message reaches the proxy's socket, wherever serve is.
ClientSends(c) ==
  /\ Live(c) /\ ~conn[c].eof /\ Len(conn[c].sent) < MaxSent
  /\ \E n \in Sizes : conn' = [conn EXCEPT ![c].sent = Append(@, n)]
  /\ UNCHANGED serving

\* The client hangs up, between messages or within one.
ClientLeaves(c) ==
  /\ Live(c) /\ ~conn[c].eof
  /\ conn' = [conn EXCEPT ![c].eof = TRUE]
  /\ UNCHANGED serving

-----------------------------------------------------------------------------
(***************************************************************************)
(* serve                                                                   *)
(***************************************************************************)
\* Both connections are closed: the deferred calls.
Close(c) ==
  /\ conn' = [conn EXCEPT ![c].pc = "closed", ![c].open = FALSE]
  /\ UNCHANGED serving

\* connect, the dial.
Dial(c) ==
  /\ At(c, "dial")
  /\ \E peer \in {"enclave", "other"} :
       conn' = [conn EXCEPT ![c].pc = "verify", ![c].peer = peer, ![c].open = TRUE]
  /\ UNCHANGED serving

DialFails(c) == At(c, "dial") /\ Close(c)

\* A mutated Verify: the result of VerifyCertificate is dropped.
VerifyDropped(c) ==
  /\ At(c, "verify")
  /\ conn' = [conn EXCEPT ![c].pc = "read"]
  /\ UNCHANGED serving

\* connect, the quote: only an enclave's passes, and not always (the
\* attestation server may not answer).
Verify(c) ==
  /\ At(c, "verify") /\ conn[c].peer = "enclave"
  /\ conn' = [conn EXCEPT ![c].pc = "read"]
  /\ UNCHANGED serving

\* A mutated VerifyFails: serve connects again.
VerifyFailsRetries(c) ==
  /\ At(c, "verify")
  /\ conn' = [conn EXCEPT ![c].pc = "dial", ![c].open = FALSE]
  /\ UNCHANGED serving

VerifyFails(c) == At(c, "verify") /\ Close(c)

Unread(c) == conn[c].taken < Len(conn[c].sent)

\* readTTLV returns a message.
Read(c) ==
  /\ At(c, "read") /\ Unread(c)
  /\ conn[c].sent[conn[c].taken + 1] <= RelayLimit
  /\ conn' = [conn EXCEPT ![c].pc = "post", ![c].taken = @ + 1]
  /\ UNCHANGED serving

\* readTTLV fails: a length beyond the limit, the end of the stream, or one in
\* the middle of a message.
ReadFails(c) ==
  /\ At(c, "read")
  /\ IF Unread(c) THEN conn[c].sent[conn[c].taken + 1] > RelayLimit ELSE conn[c].eof
  /\ Close(c)

\* HTTPDo writes the request; that the connection is broken it may not notice.
Post(c) ==
  /\ At(c, "post")
  /\ conn' = [conn EXCEPT ![c].pc = "wait", ![c].asks = conn[c].taken,
                          ![c].post = IF conn[c].open THEN "sent" ELSE "none"]
  /\ UNCHANGED serving

\* A 2xx response has been read to its end.
Relayed(c) ==
  /\ At(c, "wait") /\ conn[c].open /\ conn[c].post = "answered"
  /\ conn' = [conn EXCEPT ![c].pc = "write", ![c].post = "none"]
  /\ UNCHANGED serving

\* Any other status: the gateway's 503 or 400, or the manager's.
RelayRefused(c) ==
  /\ At(c, "wait") /\ conn[c].open /\ conn[c].post = "refused"
  /\ conn' = [conn EXCEPT ![c].pc = "closed", ![c].open = FALSE,
                          ![c].post = "none", ![c].refused = TRUE]
  /\ UNCHANGED serving

\* A mutated RelayFails: the message is sent once more on a new connection.
RelayFailsRetries(c) ==
  /\ conn[c].pc \in {"post", "wait"} /\ ~conn[c].open
  /\ conn' = [conn EXCEPT ![c].pc = "post", ![c].open = TRUE, ![c].post = "none"]
  /\ UNCHANGED serving

\* The request cannot be written or no (whole) response comes.
RelayFails(c) ==
  /\ conn[c].pc \in {"post", "wait"} /\ ~conn[c].open
  /\ Close(c)

\* A mutated Write: an answer that went out in part is written again.
WriteAgain(c) ==
  /\ At(c, "write")
  /\ \E pc \in {"read", "write"} :
       conn' = [conn EXCEPT ![c].pc = pc, ![c].out = Append(@, conn[c].asks)]
  /\ UNCHANGED serving

\* c.Write, and on to the next message.
Write(c) ==
  /\ At(c, "write")
  /\ conn' = [conn EXCEPT ![c].pc = "read", ![c].out = Append(@, conn[c].asks)]
  /\ UNCHANGED serving

\* The client is gone.
WriteFails(c) == At(c, "write") /\ conn[c].eof /\ Close(c)

ServeStep(c) ==
  \/ Dial(c) \/ DialFails(c) \/ Verify(c) \/ VerifyFails(c)
  \/ Read(c) \/ ReadFails(c) \/ Post(c)
  \/ Relayed(c) \/ RelayRefused(c) \/ RelayFails(c)
  \/ Write(c) \/ WriteFails(c)

-----------------------------------------------------------------------------
(***************************************************************************)
(* The gateway's end of the POST                                           *)
(***************************************************************************)

\* 503 of the manager, or of handleKMIP without a session.
GatewayRefuses(c) ==
  /\ conn[c].post = "sent" /\ serving \in {"frozen", "awaiting"}
  /\ conn' = [conn EXCEPT ![c].post = "refused"]
  /\ UNCHANGED serving

\* handleKMIP takes the installed session and keeps it.
GatewayTakes(c) ==
  /\ conn[c].post = "sent" /\ serving \in Vaults
  /\ conn' = [conn EXCEPT ![c].post = "taken", ![c].on = serving]
  /\ UNCHANGED serving

\* What it does: a body, of header and value, that it has cut short does not decode.
Header == 8
Result(c) ==
  [msg |-> conn[c].asks,
   on  |-> IF Header + conn[c].sent[conn[c].asks] > BodyLimit THEN "invalid" ELSE conn[c].on]

\* HandleMessage, and the response is on its way.
GatewayRuns(c) ==
  /\ conn[c].post = "taken"
  /\ conn' = [conn EXCEPT ![c].post = "answered", ![c].done = Append(@, Result(c))]
  /\ UNCHANGED serving

\* The handler panics or is cut off, before or after it has had its effect; the
\* connection goes with it.
GatewayAborts(c) ==
  /\ conn[c].post = "taken"
  /\ \E ran \in BOOLEAN :
       conn' = [conn EXCEPT ![c].post = "none", ![c].open = FALSE,
                            ![c].done = IF ran THEN Append(@, Result(c)) ELSE @]
  /\ UNCHANGED serving

\* The connection breaks, or an idle one is closed from the other side.
ConnectionBreaks(c) ==
  /\ conn[c].open
  /\ conn' = [conn EXCEPT ![c].open = FALSE]
  /\ UNCHANGED serving

\* A POST was still on its way when the connection broke.
PostLost(c) ==
  /\ conn[c].post = "sent" /\ ~conn[c].open
  /\ conn' = [conn EXCEPT ![c].post = "none"]
  /\ UNCHANGED serving

HandlerStep(c) == GatewayRefuses(c) \/ GatewayTakes(c) \/ GatewayRuns(c)

\* A mutated ServingAdvances: re-pointing drops the old session first.
ServingAdvancesWithGap ==
  /\ serving' \in Vaults \cup {"awaiting"}
  /\ serving' # serving
  /\ UNCHANGED conn

\* The gate is lifted or a session installed; neither is taken back.
ServingAdvances ==
  /\ serving' \in Vaults \cup (IF serving = "frozen" THEN {"awaiting"} ELSE {})
  /\ serving' # serving
  /\ UNCHANGED conn

\* The gateway is restarted behind the manager: requests under way may have had
\* their effect, their answer is the manager's, and connections may break.
GatewayRestarts ==
  /\ serving' \in {"frozen", "awaiting"}
  /\ \E broken, ran \in SUBSET Conns :
       /\ \A c \in ran : conn[c].post = "taken"
       /\ conn' = [c \in Conns |->
            [conn[c] EXCEPT !.open = @ /\ c \notin broken,
                            !.post = IF @ \in {"sent", "taken"} THEN "refused" ELSE @,
                            !.done = IF c \in ran THEN Append(@, Result(c)) ELSE @,
                            !.restarted = TRUE]]

ConnStep(c) ==
  \/ Accept(c) \/ ClientSends(c) \/ ClientLeaves(c) \/ ServeStep(c)
  \/ HandlerStep(c) \/ GatewayAborts(c) \/ ConnectionBreaks(c) \/ PostLost(c)

Next == ServingAdvances \/ GatewayRestarts \/ \E c \in Conns : ConnStep(c)

Spec == Init /\ [][Next]_vars

(***************************************************************************)
(* Fairness: serve runs.  Its dial has 60 s (connect), what has arrived it *)
(* reads, and a request it has it posts.  Nothing else is sure to end: the *)
(* quote is verified by another server, the gateway may never answer, a    *)
(* broken connection may go unnoticed and the client need not read.        *)
(***************************************************************************)
OwnStep(c) ==
  \/ Dial(c) \/ DialFails(c) \/ Read(c) \/ ReadFails(c) \/ Post(c)
  \/ Relayed(c) \/ RelayRefused(c)

FairSpec == Spec /\ \A c \in Conns : WF_vars(OwnStep(c))

-----------------------------------------------------------------------------
(***************************************************************************)
(* Properties                                                              *)
(***************************************************************************)

Connections ==
  [pc : {"free", "dial", "verify", "read", "post", "wait", "write", "closed"},
   peer : {"none", "enclave", "other"}, open : BOOLEAN,
   sent : Seq(Sizes), taken : Nat, eof : BOOLEAN,
   post : {"none", "sent", "taken", "refused", "answered"}, asks : Nat,
   on : {"none"} \cup Vaults, done : Seq([msg : Nat, on : {"invalid"} \cup Vaults]),
   out : Seq(Nat), restarted : BOOLEAN, refused : BOOLEAN]

\* Types.  In particular nothing is posted that has not been read, nor on a
\* connection whose other end has not shown an enclave's quote (main.go,
\* connect: "refusing to relay KMIP").
TypeOK ==
  /\ serving \in {"frozen", "awaiting"} \cup Vaults
  /\ conn \in [Conns -> Connections]
  /\ \A c \in Conns :
       /\ conn[c].asks <= conn[c].taken /\ conn[c].taken <= Len(conn[c].sent)
       /\ conn[c].asks > 0 => conn[c].peer = "enclave"

\* A client that writes ahead takes the k-th answer for that of its k-th
\* message, and KMIP has nothing else to go by: it is, whatever was refused,
\* lost or broken before (main.go, serve).  That the body of a 2xx response is
\* one TTLV message, neither less nor more, is the gateway's part: serve writes
\* it to the client as it comes.
AnswersPaired ==
  \A c \in Conns : \A k \in 1..Len(conn[c].out) : conn[c].out[k] = k

\* The gateway has run the messages of a connection in order, each at most
\* once, every one that was answered and no more than one besides: a client
\* whose connection is closed is in doubt about one message only (main.go,
\* serve, which never sends a message a second time).
OneInDoubt ==
  \A c \in Conns :
    /\ \A k \in 1..Len(conn[c].done) : conn[c].done[k].msg = k
    /\ Len(conn[c].done) - Len(conn[c].out) \in {0, 1}

\* A client that has had an answer is not turned away on the same connection
\* unless the gateway was restarted: sessions are re-pointed and refreshed
\* without a gap (control/server.go, SetSession).
NoGap ==
  \A c \in Conns :
    (conn[c].refused /\ Len(conn[c].out) > 0) => conn[c].restarted

\* serve is in a call that has no deadline: VerifyCertificate, HTTPDo, c.Write.
Waiting(c) ==
  \/ At(c, "verify") \/ At(c, "write")
  \/ At(c, "wait") /\ (conn[c].post \in {"sent", "taken"} \/ ~conn[c].open)

\* Every message is answered, or the connection closed, in the end, unless one of
\* these calls never returns: no order of refusals, breaks, restarts and messages
\* written ahead leaves a client behind of itself (main.go, serve).
AnsweredOrClosed ==
  \A c \in Conns :
    \/ <>[]Waiting(c)
    \/ \A k \in 1..MaxSent :
         (Live(c) /\ Len(conn[c].sent) >= k) ~> (Len(conn[c].out) >= k \/ ~Live(c))
=============================================================================
