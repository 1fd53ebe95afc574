------------------------------- MODULE MCTtlv -------------------------------
(* Ttlv for TLC.  Trees: up to three elements, a ResponseHeader of up to      *)
(* three children among them.  Raw buffers: up to five words of any sense.    *)
EXTENDS Ttlv

MCTags == {"message", "header", "client", "server", "item", "other"}

SeqsUpTo(S, n) == UNION {[1..k -> S] : k \in 0..n}

\* A value word that looks like a correlation value, and one that does not.
Lookalike == [tag |-> "client", struct |-> FALSE, len |-> 0]
Plain     == [tag |-> "other", struct |-> FALSE, len |-> 0]

\* A part that is itself a structure of the given elements.
Structure(tag, elems) ==
  LET ws == FlattenSeq([i \in 1..Len(elems) |-> EncodeElem(elems[i])])
  IN  [tag |-> tag, struct |-> TRUE, len |-> 8 * Len(ws), data |-> ws, kids |-> <<>>]

\* A ProtocolVersion, with parts that bear the tags of correlation values.
Version == Structure("other", <<Leaf("client", 4, <<Plain>>), Leaf("server", 0, <<>>)>>)

MCParts ==
  {Leaf("client", 0, <<>>), Leaf("client", 5, <<Plain>>),
   Leaf("server", 8, <<Lookalike>>), Leaf("server", 12, <<Plain, Plain>>),
   Leaf("other", 4, <<Lookalike>>), Leaf("other", 16, <<Plain, Lookalike>>),
   Version}
MCHeaders == {Node("header", kids) : kids \in SeqsUpTo(MCParts, 3)}
MCOthers ==
  {Leaf("client", 5, <<Plain>>), Leaf("header", 8, <<Lookalike>>),
   Node("item", <<Leaf("other", 8, <<Lookalike>>),
                  Structure("header", <<Leaf("client", 0, <<>>)>>)>>),
   Node("header", <<Leaf("server", 4, <<Plain>>)>>)}
MCMessages ==
  {before \o <<h>> \o after :
     before \in SeqsUpTo(MCOthers, 1), h \in MCHeaders,
     after \in SeqsUpTo(MCOthers, 1)} \cup SeqsUpTo(MCOthers, 2)

W(tag, struct, len) == [tag |-> tag, struct |-> struct, len |-> len]
MCFirst == {W("other", FALSE, 8)} \cup {W("other", TRUE, n) : n \in {0, 20, 24, 32, 40}}
MCWords ==
  {W("header", TRUE, n) : n \in {0, 8, 12, 16, 24}} \cup
  {W("client", FALSE, 0), W("client", FALSE, 8), W("server", FALSE, 3),
   W("header", FALSE, 8), W("other", FALSE, 0), W("other", TRUE, 16)}
MCRaw ==
  {[words |-> <<>>, tail |-> t] : t \in {0, 7}} \cup
  {[words |-> <<f>> \o rest, tail |-> t] :
     f \in MCFirst, rest \in SeqsUpTo(MCWords, 4), t \in {0, 4}}

=============================================================================
