-------------------------------- MODULE Ttlv --------------------------------
(***************************************************************************)
(* HandleMessage's last step: stripCorrelation takes the correlation values *)
(* out of the header of a KMIP response, by surgery on its TTLV bytes.     *)
(*                                                                         *)
(* A buffer is a sequence of 8-byte words and a tail of up to 7 bytes.     *)
(* This loses nothing: the code only ever reads an element header at an    *)
(* offset that is a multiple of 8, and a word is what it reads there, the  *)
(* tag, the type and the length of a value in bytes.  The words of a value *)
(* are words like any other and may look like headers.                     *)
(*                                                                         *)
(* The module also states what the step is for: messages as trees, their   *)
(* encoding, and the tree without correlation values.                      *)
(***************************************************************************)
EXTENDS Integers, Sequences, SequencesExt

CONSTANTS
  Tags,      \* the tags of elements
  Messages,  \* response messages, as trees, that the KMIP library encodes
  Raw,       \* buffers that need not encode any message
  NoMessage  \* the message of a raw buffer

Words   == [tag : Tags, struct : BOOLEAN, len : Nat]
Buffers == [words : Seq(Words), tail : 0..7]

\* "message" is ResponseMessage, "header" ResponseHeader, "client" and "server"
\* are the two correlation values; any other tag the code does not look at.
CorrelationTags == {"client", "server"}

Bytes(b) == 8 * Len(b.words) + b.tail

-----------------------------------------------------------------------------
(***************************************************************************)
(* The code                                                                *)
(***************************************************************************)

\* A mutated elemFullLen: the value is not padded to a word.
ElemWordsUnpadded(w) == 1 + (w.len \div 8)

\* elemFullLen, in words: the header and the value, padded.
ElemWords(w) == 1 + ((w.len + 7) \div 8)

(***************************************************************************)
(* The loop both functions contain, over a value that begins at the first  *)
(* of ws and is n bytes long.  Offsets are in words.  Walk(ws, n)[k] is    *)
(* where the loop stands after k rounds; it moves on while there is an     *)
(* element that fits into the value, and an element takes a word at least. *)
(***************************************************************************)
Fits(ws, n, o) == 8 * (o + 1) <= n /\ 8 * (o + ElemWords(ws[o + 1])) <= n

After(ws, n, o) == IF Fits(ws, n, o) THEN o + ElemWords(ws[o + 1]) ELSE o

Walk(ws, n) ==
  LET off[k \in 0..(n \div 8)] == IF k = 0 THEN 0 ELSE After(ws, n, off[k - 1])
  IN  off

\* The loop ends before the end of the value.
Damaged(ws, n) == 8 * Walk(ws, n)[n \div 8] # n

\* The elements the loop meets, and the words of one.
Elements(ws, n) == {o \in {Walk(ws, n)[k] : k \in 0..(n \div 8)} : Fits(ws, n, o)}
Element(ws, o)  == SubSeq(ws, o + 1, o + ElemWords(ws[o + 1]))

\* What the loop of stripHeaderCorrelation has appended to newVal at its end.
Kept(ws, n, Dropped) ==
  LET off == Walk(ws, n)
  IN  FlattenSeq([k \in 1..(n \div 8) |->
        LET o == off[k - 1]
        IN  IF Fits(ws, n, o) /\ o \notin Dropped THEN Element(ws, o) ELSE <<>>])

Correlations(ws, n) == {o \in Elements(ws, n) : ws[o + 1].tag \in CorrelationTags}

\* A mutated StripHeader: only the first correlation value is removed.
StripHeaderFirst(rh) ==
  LET val    == Tail(rh)
      n      == rh[1].len
      all    == Correlations(val, n)
      newVal == Kept(val, n, IF all = {} THEN {} ELSE {Min(all)})
  IN  IF Damaged(val, n) \/ 8 * Len(newVal) = n THEN rh
      ELSE <<[rh[1] EXCEPT !.len = 8 * Len(newVal)]>> \o newVal

\* stripHeaderCorrelation, on the words of a ResponseHeader element: the element
\* itself if its value is damaged or nothing was removed.
StripHeader(rh) ==
  LET val    == Tail(rh)
      n      == rh[1].len
      newVal == Kept(val, n, Correlations(val, n))
  IN  IF Damaged(val, n) \/ 8 * Len(newVal) = n THEN rh
      ELSE <<[rh[1] EXCEPT !.len = 8 * Len(newVal)]>> \o newVal

\* The ResponseHeader the code takes.
IsHeader(w) == w.tag = "header" /\ w.struct

\* What stripCorrelation does not look into.
Unreadable(b) == Bytes(b) < 8 \/ ~b.words[1].struct \/ 8 + b.words[1].len > Bytes(b)

Headers(ws, n) == {o \in Elements(ws, n) : IsHeader(ws[o + 1])}

\* The words ws with the element at offset o replaced.
Replaced(ws, o, new) ==
  SubSeq(ws, 1, o) \o new \o SubSeq(ws, o + ElemWords(ws[o + 1]) + 1, Len(ws))

\* An element's first word when so many bytes of the value are gone.
Shrunk(w, removed) == [w EXCEPT !.len = @ - removed]

\* A mutated StripCorrelation: the length of the message is left as it was.
StripCorrelationKeepsLength(b) ==
  IF Unreadable(b) THEN b
  ELSE LET val   == Tail(b.words)
           heads == Headers(val, b.words[1].len)
           newRh == StripHeader(Element(val, Min(heads)))
       IN  IF heads = {} THEN b
           ELSE [b EXCEPT !.words = <<b.words[1]>> \o Replaced(val, Min(heads), newRh)]

\* stripCorrelation: the loop over the message stops at the first
\* ResponseHeader, and the two lengths are corrected by what was removed.
StripCorrelation(b) ==
  IF Unreadable(b) THEN b
  ELSE LET val   == Tail(b.words)
           heads == Headers(val, b.words[1].len)
           rh    == Element(val, Min(heads))
           newRh == StripHeader(rh)
       IN  IF heads = {} THEN b
           ELSE [b EXCEPT !.words =
                  <<Shrunk(b.words[1], 8 * (Len(rh) - Len(newRh)))>>
                  \o Replaced(val, Min(heads), newRh)]

-----------------------------------------------------------------------------
(***************************************************************************)
(* What it is for.  A message is a sequence of elements: a leaf, or a      *)
(* structure given by its parts.  A part of a structure may be a structure *)
(* in turn, as the ProtocolVersion of every ResponseHeader is, of any      *)
(* depth; it is given by the words of its value and how many bytes of them *)
(* count, whatever they encode.                                            *)
(***************************************************************************)
Leaf(tag, len, data) ==
  [tag |-> tag, struct |-> FALSE, len |-> len, data |-> data, kids |-> <<>>]
Node(tag, kids) ==
  [tag |-> tag, struct |-> TRUE, len |-> 0, data |-> <<>>, kids |-> kids]

Parts  == {t \in [tag : Tags, struct : BOOLEAN, len : Nat, data : Seq(Words), kids : {<<>>}] :
             Len(t.data) = (t.len + 7) \div 8}
Leaves == {t \in Parts : ~t.struct}
Nodes  == [tag : Tags, struct : {TRUE}, len : {0}, data : {<<>>}, kids : Seq(Parts)]

ASSUME TtlvAssumption ==
  /\ {"message", "header"} \cup CorrelationTags \subseteq Tags
  /\ \A m \in Messages : m \in Seq(Leaves \cup Nodes)
  /\ \A b \in Raw : b \in Buffers

EncodePart(t) == <<[tag |-> t.tag, struct |-> t.struct, len |-> t.len]>> \o t.data

\* A structure around words that are already encoded.
Enclose(tag, ws) ==
  <<[tag |-> tag, struct |-> TRUE, len |-> 8 * Len(ws)]>> \o ws

EncodeElem(t) ==
  IF t.struct
    THEN Enclose(t.tag, FlattenSeq([i \in 1..Len(t.kids) |-> EncodePart(t.kids[i])]))
    ELSE EncodePart(t)

Encode(m) ==
  [words |-> Enclose("message",
               FlattenSeq([i \in 1..Len(m) |-> EncodeElem(m[i])])),
   tail  |-> 0]

\* Children without the correlation values.
Others(kids) ==
  FlattenSeq([i \in 1..Len(kids) |->
    IF kids[i].tag \in CorrelationTags THEN <<>> ELSE <<kids[i]>>])

\* The message without the correlation values of its first ResponseHeader.
Uncorrelated(m) ==
  LET h == SelectInSeq(m, IsHeader)
  IN  IF h = 0 THEN m ELSE [m EXCEPT ![h].kids = Others(@)]

-----------------------------------------------------------------------------
VARIABLES
  msg,  \* the message in buf, or NoMessage
  buf,  \* what ServeKMIP wrote
  out,  \* what HandleMessage returns
  pc

vars == <<msg, buf, out, pc>>

Init ==
  /\ \/ \E m \in Messages : msg = m /\ buf = Encode(m)
     \/ \E b \in Raw : msg = NoMessage /\ buf = b
  /\ out = buf /\ pc = "served"

\* HandleMessage returns the stripped buffer.
HandleMessage ==
  /\ pc = "served"
  /\ out' = StripCorrelation(buf)
  /\ pc' = "sent"
  /\ UNCHANGED <<msg, buf>>

Spec == Init /\ [][HandleMessage]_vars

-----------------------------------------------------------------------------
\* A response is sent as the message it encodes without the correlation values:
\* every length is right, every other element is where it was, and a value that
\* looks like a header is not taken for one (server.go, stripCorrelation;
\* correlation_test.go).
StripsExactly ==
  (pc = "sent" /\ msg # NoMessage) => out = Encode(Uncorrelated(msg))

\* Whatever the buffer, stripping is done in one pass: a second one finds
\* nothing (server.go, stripCorrelation; correlation_test.go, "idempotent").
Idempotent == pc = "sent" => StripCorrelation(out) = out

\* Whatever the buffer, a reader that takes 8 + length bytes for the message
\* stays in step: as many bytes follow the declared message as before
\* (server.go, stripCorrelation; kmip-proxy, readTTLV).
Surplus(b) == Bytes(b) - (8 + b.words[1].len)
FramingKept ==
  (pc = "sent" /\ Bytes(buf) >= 8) => Surplus(out) = Surplus(buf)
=============================================================================
