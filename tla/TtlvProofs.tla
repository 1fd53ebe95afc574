----------------------------- MODULE TtlvProofs ------------------------------
(***************************************************************************)
(* Theorems about Ttlv, for messages and buffers of any length.            *)
(***************************************************************************)
EXTENDS Ttlv, WellFoundedInduction, TLAPS

-----------------------------------------------------------------------------
(***************************************************************************)
(* Induction, in the form of a least element of a set.                     *)
(***************************************************************************)
LEMMA LeastNatural ==
  ASSUME NEW T \in SUBSET Nat, T # {} PROVE \E x \in T : \A y \in T : x <= y
<1>1. IsWellFoundedOn(OpToRel(<, Nat), Nat)
  BY NatLessThanWellFounded, Zenon
<1>2. PICK R : R = OpToRel(<, Nat)
  OBVIOUS
<1>3. PICK x \in T : \A y \in T : ~ (<<y, x>> \in R)
  BY <1>1, <1>2, WFMin, Zenon
<1>4. \A a, b \in Nat : a < b => <<a, b>> \in R
  BY <1>2, Zenon DEF OpToRel
<1>5. \A y \in T : ~ (y < x)
  BY <1>3, <1>4
<1>6. \A y \in T : x <= y
  BY <1>3, <1>5
<1> QED BY <1>3, <1>6

\* What holds at 0, and at the next number wherever it holds, holds up to n.
LEMMA Induction ==
  ASSUME NEW n \in Nat, NEW S, 0 \in S, \A k \in 0..(n - 1) : k \in S => k + 1 \in S
  PROVE  \A k \in 0..n : k \in S
<1> SUFFICES ASSUME NEW j \in 0..n, j \notin S PROVE FALSE
  OBVIOUS
<1>1. PICK x \in (0..n) \ S : \A y \in (0..n) \ S : x <= y
  <2>1. PICK T : T = (0..n) \ S
    OBVIOUS
  <2>2. T \in SUBSET Nat /\ T # {}
    BY <2>1
  <2> QED BY <2>1, <2>2, LeastNatural
<1>2. x # 0
  OBVIOUS
<1>3. x - 1 \in 0..(n - 1) /\ x - 1 \in S
  BY <1>1, <1>2
<1> QED BY <1>1, <1>3

-----------------------------------------------------------------------------
(***************************************************************************)
(* The loop.  A value is ws with its length n in bytes.                    *)
(***************************************************************************)
Value(ws, n) == ws \in Seq(Words) /\ n \in Nat /\ n \div 8 <= Len(ws)

\* A round of the loop stays within the value and moves on if it can.
LEMMA RoundTyped ==
  ASSUME NEW ws, NEW n, Value(ws, n), NEW o \in 0..(n \div 8)
  PROVE  /\ Fits(ws, n, o) => /\ o + 1 \in 1..Len(ws) /\ ws[o + 1] \in Words
                              /\ ElemWords(ws[o + 1]) \in Nat \ {0}
                              /\ o + ElemWords(ws[o + 1]) <= n \div 8
         /\ After(ws, n, o) \in o..(n \div 8)
         /\ Fits(ws, n, o) => After(ws, n, o) > o
<1>1. CASE Fits(ws, n, o)
  <2>1. n \in Nat /\ 8 * (o + 1) <= n /\ n \div 8 \in Nat /\ Len(ws) \in Nat
    BY <1>1 DEF Fits, Value
  <2>2. o + 1 <= n \div 8
    BY <2>1
  <2>3. o + 1 \in 1..Len(ws) /\ ws[o + 1] \in Words
    BY <2>1, <2>2 DEF Value
  <2>4. ws[o + 1].len \in Nat
    BY <2>3 DEF Words
  <2>5. ElemWords(ws[o + 1]) \in Nat \ {0}
    BY <2>4 DEF ElemWords
  <2>6. o + ElemWords(ws[o + 1]) <= n \div 8
    BY <1>1, <2>1, <2>5 DEF Fits
  <2> QED BY <1>1, <2>1, <2>3, <2>5, <2>6 DEF After
<1>2. CASE ~Fits(ws, n, o)
  BY <1>2 DEF After, Value
<1> QED BY <1>1, <1>2

\* The function that Walk defines exists.
WalkUpTo(f, ws, n, m) ==
  f = [k \in 0..m |-> IF k = 0 THEN 0 ELSE After(ws, n, f[k - 1])]

\* The function that Walk defines by recursion exists.
LEMMA WalkExists ==
  ASSUME NEW ws, NEW n, NEW N \in Nat PROVE \E f : WalkUpTo(f, ws, n, N)
<1> DEFINE S == {m \in 0..N : \E f : WalkUpTo(f, ws, n, m)}
<1>1. 0 \in S
  <2>1. PICK f : f = [k \in 0..0 |-> 0]
    OBVIOUS
  <2>2. WalkUpTo(f, ws, n, 0)
    BY <2>1 DEF WalkUpTo
  <2> QED BY <2>2
<1>2. ASSUME NEW m \in 0..(N - 1), m \in S PROVE m + 1 \in S
  <2>1. PICK f : WalkUpTo(f, ws, n, m)
    BY <1>2
  <2>2. PICK g : g = [k \in 0..(m + 1) |-> IF k = m + 1 THEN After(ws, n, f[m]) ELSE f[k]]
    OBVIOUS
  <2>3. \A k \in 0..(m + 1) : g[k] = IF k = 0 THEN 0 ELSE After(ws, n, g[k - 1])
    BY <2>1, <2>2 DEF WalkUpTo
  <2>4. WalkUpTo(g, ws, n, m + 1)
    BY <2>2, <2>3 DEF WalkUpTo
  <2> QED BY <2>4
<1> HIDE DEF S
<1>3. N \in S
  BY <1>1, <1>2, Induction
<1> QED BY <1>3 DEF S

\* Where the loop stands.
LEMMA WalkForm ==
  ASSUME NEW ws, NEW n, Value(ws, n)
  PROVE  LET off == Walk(ws, n)
             N   == n \div 8
         IN  /\ off \in [0..N -> 0..N] /\ off[0] = 0
             /\ \A k \in 0..(N - 1) : off[k + 1] = After(ws, n, off[k])
<1> DEFINE off == Walk(ws, n)
           N   == n \div 8
<1>1. N \in Nat
  BY DEF Value
<1>2. off = CHOOSE f : WalkUpTo(f, ws, n, N)
  BY DEF Walk, WalkUpTo
<1>3. WalkUpTo(off, ws, n, N)
  BY <1>1, <1>2, WalkExists
<1> HIDE DEF off, N
<1>4. off[0] = 0 /\ \A k \in 0..(N - 1) : off[k + 1] = After(ws, n, off[k])
  BY <1>1, <1>3 DEF WalkUpTo
<1>5. \A k \in 0..N : off[k] \in 0..N
  <2> DEFINE S == {k \in 0..N : off[k] \in 0..N}
  <2>1. 0 \in S
    BY <1>1, <1>4
  <2>2. \A k \in 0..(N - 1) : k \in S => k + 1 \in S
    BY <1>1, <1>4, RoundTyped, SMTT(30) DEF N
  <2> HIDE DEF S
  <2>3. \A k \in 0..N : k \in S
    BY <1>1, <2>1, <2>2, Induction
  <2> QED BY <2>3 DEF S
<1>6. off \in [0..N -> 0..N]
  BY <1>3, <1>5 DEF WalkUpTo
<1> QED BY <1>4, <1>6 DEF off, N

\* The loop never goes back.
LEMMA WalkRises ==
  ASSUME NEW ws, NEW n, Value(ws, n), NEW j \in 0..(n \div 8), NEW k \in j..(n \div 8)
  PROVE  Walk(ws, n)[j] <= Walk(ws, n)[k]
<1> DEFINE off == Walk(ws, n)
           N   == n \div 8
           S   == {i \in 0..(N - j) : off[j] <= off[j + i]}
<1>1. N \in Nat /\ N - j \in Nat
  BY DEF Value
<1>2. off \in [0..N -> 0..N] /\ \A i \in 0..(N - 1) : off[i + 1] = After(ws, n, off[i])
  BY WalkForm
<1>3. \A i \in 0..(N - 1) : off[i] <= off[i + 1]
  <2> SUFFICES ASSUME NEW i \in 0..(N - 1) PROVE off[i] <= off[i + 1]
    OBVIOUS
  <2>1. off[i] \in 0..N /\ off[i + 1] = After(ws, n, off[i])
    BY <1>1, <1>2
  <2>2. After(ws, n, off[i]) \in off[i]..N
    BY <2>1, RoundTyped
  <2> QED BY <1>1, <2>1, <2>2
<1> HIDE DEF off, N
<1>4. 0 \in S
  BY <1>1, <1>2
<1>5. ASSUME NEW i \in 0..(N - j - 1), i \in S PROVE i + 1 \in S
  <2>1. j + i \in 0..(N - 1) /\ j + (i + 1) = (j + i) + 1
    BY <1>1, <1>5 DEF N
  <2>2. off[j + i] <= off[j + (i + 1)] /\ off[j] <= off[j + i]
    BY <1>3, <1>5, <2>1
  <2>3. off[j] \in Nat /\ off[j + i] \in Nat /\ off[j + (i + 1)] \in Nat
    <3>1. j \in 0..N /\ j + i \in 0..N /\ j + (i + 1) \in 0..N
      BY <1>1, <2>1 DEF N
    <3> QED BY <1>1, <1>2, <3>1
  <2> QED BY <1>1, <1>5, <2>2, <2>3
<1> HIDE DEF S
<1>6. k - j \in 0..(N - j) /\ \A i \in 0..(N - j) : i \in S
  BY <1>1, <1>4, <1>5, Induction DEF N
<1>7. k - j \in S
  BY <1>6
<1>8. j + (k - j) = k
  BY <1>1 DEF N
<1> QED BY <1>7, <1>8 DEF S, off

\* Where the loop still moves it has always moved: an offset that it has left
\* behind fits.
LEMMA WalkMoves ==
  ASSUME NEW ws, NEW n, Value(ws, n), NEW k \in 0..(n \div 8), NEW j \in 0..k,
         Fits(ws, n, Walk(ws, n)[k])
  PROVE  Fits(ws, n, Walk(ws, n)[j])
<1> DEFINE off == Walk(ws, n)
           N   == n \div 8
           S   == {i \in 0..(k - j) : off[j + i] = off[j]}
<1>1. N \in Nat /\ k - j \in Nat
  BY DEF Value
<1>2. off \in [0..N -> 0..N] /\ \A i \in 0..(N - 1) : off[i + 1] = After(ws, n, off[i])
  BY WalkForm
<1> SUFFICES ASSUME ~Fits(ws, n, off[j]) PROVE FALSE
  OBVIOUS
<1>3. After(ws, n, off[j]) = off[j]
  BY DEF After
<1> HIDE DEF off, N
<1>4. 0 \in S
  BY <1>1
<1>5. ASSUME NEW i \in 0..(k - j - 1), i \in S PROVE i + 1 \in S
  <2>1. j + i \in 0..(N - 1) /\ j + (i + 1) = (j + i) + 1
    BY <1>1, <1>5 DEF N
  <2> QED BY <1>1, <1>2, <1>3, <1>5, <2>1
<1> HIDE DEF S
<1>6. k - j \in S
  BY <1>1, <1>4, <1>5, Induction
<1>7. j + (k - j) = k
  BY <1>1
<1> QED BY <1>6, <1>7 DEF S, off

-----------------------------------------------------------------------------
(***************************************************************************)
(* Concatenation.  p builds FlattenSeq(es): p[i] is what the first i       *)
(* sequences of es make.                                                   *)
(***************************************************************************)
Builds(p, es, S) ==
  /\ p \in [0..Len(es) -> Seq(S)] /\ p[0] = <<>>
  /\ \A i \in 1..Len(es) : p[i] = p[i - 1] \o es[i]

\* What is built from sequences over S is one.
LEMMA BuiltTyped ==
  ASSUME NEW S, NEW es \in Seq(Seq(S)), NEW p, Builds(p, es, S), NEW i \in 0..Len(es)
  PROVE  p[i] \in Seq(S) /\ Len(p[i]) \in Nat
<1>1. p \in [0..Len(es) -> Seq(S)]
  BY DEF Builds
<1>2. p[i] \in Seq(S)
  BY <1>1
<1> QED BY <1>2

FlatUpTo(f, es, m) ==
  f = [i \in 1..m |-> IF i = 1 THEN es[i] ELSE f[i - 1] \o es[i]]

\* There is a way to build it.
LEMMA FlatExists ==
  ASSUME NEW es, NEW N \in Nat PROVE \E f : FlatUpTo(f, es, N)
<1> DEFINE S == {m \in 0..N : \E f : FlatUpTo(f, es, m)}
<1>1. 0 \in S
  <2>1. PICK f : f = [k \in 1..0 |-> 0]
    OBVIOUS
  <2>2. FlatUpTo(f, es, 0)
    BY <2>1 DEF FlatUpTo
  <2> QED BY <2>2
<1>2. ASSUME NEW m \in 0..(N - 1), m \in S PROVE m + 1 \in S
  <2>1. PICK f : FlatUpTo(f, es, m)
    BY <1>2
  <2>2. PICK g : g = [k \in 1..(m + 1) |->
                        IF k = m + 1 THEN IF k = 1 THEN es[k] ELSE f[m] \o es[k] ELSE f[k]]
    OBVIOUS
  <2>3. \A k \in 1..(m + 1) : g[k] = IF k = 1 THEN es[k] ELSE g[k - 1] \o es[k]
    <3> SUFFICES ASSUME NEW k \in 1..(m + 1)
                 PROVE  g[k] = IF k = 1 THEN es[k] ELSE g[k - 1] \o es[k]
      OBVIOUS
    <3>1. CASE k = m + 1
      <4>1. k # 1 => m \in 1..(m + 1) /\ m # m + 1 /\ k - 1 = m
        BY <3>1
      <4>2. k # 1 => g[k - 1] = f[m]
        BY <2>2, <4>1
      <4> QED BY <2>2, <3>1, <4>2
    <3>2. CASE k # m + 1
      <4>1. k \in 1..m /\ (k # 1 => k - 1 \in 1..m)
        BY <3>2
      <4>2. f[k] = IF k = 1 THEN es[k] ELSE f[k - 1] \o es[k]
        BY <2>1, <4>1 DEF FlatUpTo
      <4>3. g[k] = f[k] /\ (k # 1 => g[k - 1] = f[k - 1])
        BY <2>2, <4>1
      <4> QED BY <4>2, <4>3
    <3> QED BY <3>1, <3>2
  <2>4. FlatUpTo(g, es, m + 1)
    BY <2>2, <2>3 DEF FlatUpTo
  <2> QED BY <2>4
<1> HIDE DEF S
<1>3. N \in S
  BY <1>1, <1>2, Induction
<1> QED BY <1>3 DEF S

\* FlattenSeq is the last of what is built.
LEMMA FlatForm ==
  ASSUME NEW S, NEW es \in Seq(Seq(S))
  PROVE  \E p : Builds(p, es, S) /\ FlattenSeq(es) = p[Len(es)]
<1> DEFINE N == Len(es)
<1>1. CASE N = 0
  <2>1. PICK p : p = [i \in 0..0 |-> <<>>]
    OBVIOUS
  <2>2. Builds(p, es, S) /\ p[N] = <<>>
    BY <1>1, <2>1 DEF Builds
  <2>3. FlattenSeq(es) = <<>>
    BY <1>1 DEF FlattenSeq
  <2> QED BY <2>2, <2>3
<1>2. CASE N # 0
  <2>1. N \in Nat \ {0}
    BY <1>2
  <2>2. PICK f : FlatUpTo(f, es, N) /\ FlattenSeq(es) = f[N]
    <3>1. FlattenSeq(es) = (CHOOSE f : FlatUpTo(f, es, N))[N]
      BY <1>2 DEF FlattenSeq, FlatUpTo
    <3>2. \E f : FlatUpTo(f, es, N)
      BY <2>1, FlatExists
    <3> QED BY <3>1, <3>2
  <2>3. PICK p : p = [i \in 0..N |-> IF i = 0 THEN <<>> ELSE f[i]]
    OBVIOUS
  <2>4. \A i \in 1..N : es[i] \in Seq(S)
    OBVIOUS
  <2>5. p[0] = <<>> /\ p[N] = FlattenSeq(es)
    BY <2>1, <2>2, <2>3
  <2> HIDE DEF N
  <2>6. \A i \in 1..N : p[i] = p[i - 1] \o es[i]
    <3>1. f[1] = es[1] /\ <<>> \o es[1] = es[1]
      BY <2>1, <2>2, <2>4 DEF FlatUpTo
    <3> SUFFICES ASSUME NEW i \in 1..N PROVE p[i] = p[i - 1] \o es[i]
      OBVIOUS
    <3>2. f[i] = IF i = 1 THEN es[i] ELSE f[i - 1] \o es[i]
      BY <2>2 DEF FlatUpTo
    <3>3. CASE i = 1
      <4>1. p[i] = f[1] /\ p[i - 1] = <<>>
        BY <2>1, <2>3, <3>3
      <4> QED BY <3>1, <3>3, <4>1
    <3>4. CASE i # 1
      <4>1. i - 1 \in 1..N
        BY <2>1, <3>4
      <4>2. p[i] = f[i] /\ p[i - 1] = f[i - 1]
        BY <2>1, <2>3, <4>1
      <4> QED BY <3>2, <3>4, <4>2
    <3> QED BY <3>3, <3>4
  <2>7. \A i \in 0..N : p[i] \in Seq(S)
    <3> DEFINE T == {i \in 0..N : p[i] \in Seq(S)}
    <3>1. 0 \in T
      <4>1. <<>> \in Seq(S)
        OBVIOUS
      <4>2. 0 \in 0..N /\ p[0] \in Seq(S)
        BY <2>1, <2>5, <4>1
      <4> QED BY <4>2, Zenon
    <3>2. ASSUME NEW i \in 0..(N - 1), i \in T PROVE i + 1 \in T
      <4>1. i + 1 \in 1..N /\ (i + 1) - 1 = i
        BY <2>1
      <4>2. p[i + 1] = p[i] \o es[i + 1] /\ es[i + 1] \in Seq(S)
        BY <2>4, <2>6, <4>1
      <4>3. p[i] \o es[i + 1] \in Seq(S)
        BY <3>2, <4>2
      <4>4. i + 1 \in 0..N /\ p[i + 1] \in Seq(S)
        BY <2>1, <4>1, <4>2, <4>3
      <4> QED BY <4>4, Zenon
    <3> HIDE DEF T
    <3>3. \A i \in 0..N : i \in T
      BY <2>1, <3>1, <3>2, Induction
    <3> QED BY <3>3 DEF T
  <2>8. Builds(p, es, S)
    BY <2>3, <2>5, <2>6, <2>7 DEF Builds, N
  <2> QED BY <2>5, <2>8 DEF N
<1> QED BY <1>1, <1>2

\* There is one way to build it.
LEMMA FlatUnique ==
  ASSUME NEW S, NEW es \in Seq(Seq(S)), NEW p, Builds(p, es, S)
  PROVE  FlattenSeq(es) = p[Len(es)]
<1>1. PICK q : Builds(q, es, S) /\ FlattenSeq(es) = q[Len(es)]
  BY FlatForm
<1> DEFINE N == Len(es)
           T == {i \in 0..N : p[i] = q[i]}
<1>2. N \in Nat
  OBVIOUS
<1>3. 0 \in T
  BY <1>1 DEF Builds
<1>4. ASSUME NEW i \in 0..(N - 1), i \in T PROVE i + 1 \in T
  <2>1. i + 1 \in 1..N /\ (i + 1) - 1 = i
    BY <1>2
  <2>2. p[i + 1] = p[i] \o es[i + 1] /\ q[i + 1] = q[i] \o es[i + 1]
    BY <1>1, <2>1 DEF Builds
  <2>3. i + 1 \in 0..N /\ p[i] = q[i]
    BY <1>2, <1>4
  <2> QED BY <2>2, <2>3
<1> HIDE DEF T, N
<1>5. (\A i \in 0..N : i \in T) /\ N \in 0..N
  BY <1>2, <1>3, <1>4, Induction
<1>6. p[N] = q[N]
  BY <1>5 DEF T
<1> QED BY <1>1, <1>6 DEF N

-----------------------------------------------------------------------------
(***************************************************************************)
(* Elements, the header, and what is kept of it.                           *)
(***************************************************************************)
\* A word and the words of its value, padded.
IsElement(e) == e \in Seq(Words) /\ e # <<>> /\ Len(e) = ElemWords(e[1])

\* Min of a set of numbers is its least one.
LEMMA MinIsLeast ==
  ASSUME NEW T \in SUBSET Nat, T # {} PROVE Min(T) \in T /\ \A y \in T : Min(T) <= y
BY LeastNatural DEF Min

\* An element the loop has found.
LEMMA ElementFound ==
  ASSUME NEW ws, NEW n, Value(ws, n), NEW o \in 0..(n \div 8), Fits(ws, n, o)
  PROVE  /\ o + 1 \in 1..Len(ws)
         /\ IsElement(Element(ws, o)) /\ Element(ws, o)[1] = ws[o + 1]
         /\ Len(Element(ws, o)) = ElemWords(ws[o + 1])
         /\ o + Len(Element(ws, o)) <= n \div 8
<1>1. /\ o + 1 \in 1..Len(ws) /\ ws[o + 1] \in Words /\ ElemWords(ws[o + 1]) \in Nat \ {0}
      /\ o + ElemWords(ws[o + 1]) <= n \div 8
  BY RoundTyped
<1> DEFINE e == ElemWords(ws[o + 1])
<1>2. n \div 8 \in Nat /\ n \div 8 <= Len(ws) /\ ws \in Seq(Words) /\ Len(ws) \in Nat
  BY DEF Value
<1>3. PICK s : s = SubSeq(ws, o + 1, o + e)
  OBVIOUS
<1> HIDE DEF e
<1>4. e \in Nat \ {0} /\ o + e <= Len(ws)
  BY <1>1, <1>2 DEF e
<1>5. s \in Seq(Words) /\ Len(s) = e /\ s[1] = ws[o + 1]
  BY <1>1, <1>2, <1>3, <1>4
<1>6. Element(ws, o) = s
  BY <1>3 DEF Element, e
<1>7. IsElement(s)
  BY <1>4, <1>5 DEF IsElement, e
<1> QED BY <1>1, <1>4, <1>5, <1>6, <1>7 DEF e

\* The value of an element is a value.
LEMMA ElementValue ==
  ASSUME NEW e, IsElement(e)
  PROVE  /\ e[1] \in Words /\ e = <<e[1]>> \o Tail(e)
         /\ Value(Tail(e), e[1].len) /\ Len(Tail(e)) = Len(e) - 1
<1>1. e \in Seq(Words) /\ Len(e) \in Nat \ {0}
  BY DEF IsElement
<1>2. e[1] \in Words /\ e[1].len \in Nat
  <2>1. e[1] \in Words
    BY <1>1
  <2> QED BY <2>1 DEF Words
<1>3. Tail(e) \in Seq(Words) /\ Len(Tail(e)) = Len(e) - 1 /\ e = <<e[1]>> \o Tail(e)
  BY <1>1
<1>4. Len(e) - 1 = (e[1].len + 7) \div 8
  BY <1>2 DEF IsElement, ElemWords
<1>5. e[1].len \div 8 <= Len(e) - 1
  BY <1>2, <1>4
<1> QED BY <1>2, <1>3, <1>5 DEF Value

\* The rounds of the loop of stripHeaderCorrelation, each with what it appends.
Rounds(ws, n, Dropped) ==
  [k \in 1..(n \div 8) |->
    LET o == Walk(ws, n)[k - 1]
    IN  IF Fits(ws, n, o) /\ o \notin Dropped THEN Element(ws, o) ELSE <<>>]

\* What a round of the loop appends is a sequence of words.
LEMMA RoundsTyped ==
  ASSUME NEW ws, NEW n, Value(ws, n), NEW Dropped
  PROVE  /\ Rounds(ws, n, Dropped) \in Seq(Seq(Words))
         /\ Len(Rounds(ws, n, Dropped)) = n \div 8
         /\ Kept(ws, n, Dropped) = FlattenSeq(Rounds(ws, n, Dropped))
<1> DEFINE N == n \div 8
<1>1. N \in Nat
  BY DEF Value
<1>2. ASSUME NEW k \in 1..N
      PROVE  LET o == Walk(ws, n)[k - 1]
             IN  (IF Fits(ws, n, o) /\ o \notin Dropped THEN Element(ws, o) ELSE <<>>)
                   \in Seq(Words)
  <2>1. k - 1 \in 0..N
    BY <1>1
  <2>2. PICK o \in 0..N : o = Walk(ws, n)[k - 1]
    BY <2>1, WalkForm
  <2>3. Fits(ws, n, o) => Element(ws, o) \in Seq(Words)
    BY ElementFound DEF IsElement
  <2> QED BY <2>2, <2>3
<1>3. Kept(ws, n, Dropped) = FlattenSeq(Rounds(ws, n, Dropped))
  BY DEF Kept, Rounds
<1>4. PICK rs : rs = Rounds(ws, n, Dropped)
  OBVIOUS
<1>5. rs \in [1..N -> Seq(Words)]
  BY <1>2, <1>4 DEF Rounds
<1> HIDE DEF N
<1>6. rs \in Seq(Seq(Words)) /\ Len(rs) = N
  BY <1>1, <1>5
<1> QED BY <1>3, <1>4, <1>6 DEF N

\* What stripHeaderCorrelation keeps is a sequence of words.
LEMMA KeptTyped ==
  ASSUME NEW ws, NEW n, Value(ws, n), NEW Dropped
  PROVE  Kept(ws, n, Dropped) \in Seq(Words)
<1>1. PICK es \in Seq(Seq(Words)) : es = Rounds(ws, n, Dropped)
  BY RoundsTyped
<1>2. PICK p : Builds(p, es, Words) /\ FlattenSeq(es) = p[Len(es)]
  BY FlatForm
<1>3. p[Len(es)] \in Seq(Words)
  BY <1>2 DEF Builds
<1> QED BY <1>1, <1>2, <1>3, RoundsTyped

\* A stripped header is an element that differs in the length and the value.
LEMMA StripHeaderForm ==
  ASSUME NEW rh, IsElement(rh)
  PROVE  LET val    == Tail(rh)
             newVal == Kept(val, rh[1].len, Correlations(val, rh[1].len))
             new    == StripHeader(rh)
         IN  /\ IsElement(new) /\ new[1].tag = rh[1].tag /\ new[1].struct = rh[1].struct
             /\ \/ new = rh
                \/ /\ new = <<[rh[1] EXCEPT !.len = 8 * Len(newVal)]>> \o newVal
                   /\ newVal \in Seq(Words)
<1> DEFINE val    == Tail(rh)
           newVal == Kept(val, rh[1].len, Correlations(val, rh[1].len))
<1>1. CASE StripHeader(rh) = rh
  BY <1>1
<1>2. CASE StripHeader(rh) # rh
  <2>1. StripHeader(rh) = <<[rh[1] EXCEPT !.len = 8 * Len(newVal)]>> \o newVal
    BY <1>2 DEF StripHeader
  <2>2. Value(val, rh[1].len) /\ rh[1] \in Words
    BY ElementValue
  <2>3. newVal \in Seq(Words)
    BY <2>2, KeptTyped
  <2> HIDE DEF newVal, val
  <2>4. PICK w : w = [rh[1] EXCEPT !.len = 8 * Len(newVal)]
    OBVIOUS
  <2>5. Len(newVal) \in Nat
    BY <2>3
  <2>6. w \in Words /\ w.tag = rh[1].tag /\ w.struct = rh[1].struct /\ w.len = 8 * Len(newVal)
    BY <2>2, <2>4, <2>5 DEF Words
  <2>7. PICK new : new = <<w>> \o newVal
    OBVIOUS
  <2>8. new \in Seq(Words) /\ new # <<>> /\ new[1] = w /\ Len(new) = 1 + Len(newVal)
    BY <2>3, <2>6, <2>7
  <2>9. IsElement(new)
    BY <2>5, <2>6, <2>8 DEF IsElement, ElemWords
  <2>10. StripHeader(rh) = new
    BY <2>1, <2>4, <2>7
  <2> QED BY <2>3, <2>4, <2>6, <2>7, <2>8, <2>9, <2>10 DEF newVal, val
<1> QED BY <1>1, <1>2

-----------------------------------------------------------------------------
(***************************************************************************)
(* The message.                                                            *)
(***************************************************************************)
\* Where a word is in a concatenation.
LEMMA Joined ==
  ASSUME NEW S, NEW a \in Seq(S), NEW z \in Seq(S)
  PROVE  /\ a \o z \in Seq(S) /\ Len(a \o z) = Len(a) + Len(z)
         /\ \A i \in 1..Len(a) : (a \o z)[i] = a[i]
         /\ \A i \in 1..Len(z) : (a \o z)[Len(a) + i] = z[i]
OBVIOUS

\* An element replaced: what is before it, the new one, what is behind it.
LEMMA ReplacedForm ==
  ASSUME NEW ws \in Seq(Words), NEW o \in Nat, NEW new \in Seq(Words),
         ElemWords(ws[o + 1]) \in Nat, o + ElemWords(ws[o + 1]) <= Len(ws)
  PROVE  LET e == ElemWords(ws[o + 1])
             r == Replaced(ws, o, new)
         IN  /\ r \in Seq(Words) /\ Len(r) = Len(ws) - e + Len(new)
             /\ \A i \in 1..o : r[i] = ws[i]
             /\ \A i \in 1..Len(new) : r[o + i] = new[i]
             /\ \A i \in 1..(Len(ws) - o - e) : r[o + Len(new) + i] = ws[o + e + i]
<1> DEFINE e == ElemWords(ws[o + 1])
<1>1. PICK a : a = SubSeq(ws, 1, o)
  OBVIOUS
<1>2. PICK z : z = SubSeq(ws, o + e + 1, Len(ws))
  OBVIOUS
<1>3. PICK r : r = a \o new \o z
  OBVIOUS
<1>4. Replaced(ws, o, new) = r
  BY <1>1, <1>2, <1>3 DEF Replaced
<1> HIDE DEF e
<1>5. e \in Nat /\ o + e <= Len(ws) /\ Len(ws) \in Nat /\ Len(new) \in Nat
  BY DEF e
<1>6. a \in Seq(Words) /\ Len(a) = o /\ \A i \in 1..o : a[i] = ws[i]
  BY <1>1, <1>5
<1>7. z \in Seq(Words) /\ Len(z) = Len(ws) - o - e
      /\ \A i \in 1..(Len(ws) - o - e) : z[i] = ws[o + e + i]
  BY <1>2, <1>5
<1>8. PICK c : c = a \o new
  OBVIOUS
<1>9. c \in Seq(Words) /\ Len(c) = o + Len(new) /\ (\A i \in 1..o : c[i] = a[i])
      /\ (\A i \in 1..Len(new) : c[o + i] = new[i])
  BY <1>5, <1>6, <1>8
<1>10. r = c \o z
  BY <1>3, <1>8
<1>11. r \in Seq(Words) /\ Len(r) = Len(ws) - e + Len(new)
       /\ (\A i \in 1..(o + Len(new)) : r[i] = c[i])
       /\ (\A i \in 1..(Len(ws) - o - e) : r[o + Len(new) + i] = z[i])
  <2>1. /\ r \in Seq(Words) /\ Len(r) = Len(c) + Len(z)
        /\ \A i \in 1..Len(c) : r[i] = c[i]
        /\ \A i \in 1..Len(z) : r[Len(c) + i] = z[i]
    <3>1. c \in Seq(Words) /\ z \in Seq(Words)
      BY <1>7, <1>9
    <3> QED BY ONLY <1>10, <3>1, Joined
  <2>2. Len(c) + Len(z) = Len(ws) - e + Len(new)
    BY <1>5, <1>7, <1>9
  <2> QED BY <1>7, <1>9, <2>1, <2>2
<1>12. \A i \in 1..o : r[i] = ws[i]
  BY <1>5, <1>6, <1>9, <1>11
<1>13. \A i \in 1..Len(new) : r[o + i] = new[i]
  BY <1>5, <1>9, <1>11
<1> QED BY <1>4, <1>7, <1>11, <1>12, <1>13 DEF e

\* An element replaced by itself.
LEMMA ReplacedBySame ==
  ASSUME NEW ws \in Seq(Words), NEW o \in Nat, ElemWords(ws[o + 1]) \in Nat,
         o + ElemWords(ws[o + 1]) <= Len(ws)
  PROVE  Replaced(ws, o, Element(ws, o)) = ws
<1> DEFINE e == ElemWords(ws[o + 1])
<1>1. PICK new : new = Element(ws, o)
  OBVIOUS
<1>2. new \in Seq(Words) /\ Len(new) = e /\ \A i \in 1..e : new[i] = ws[o + i]
  <2>1. new = SubSeq(ws, o + 1, o + e)
    BY <1>1 DEF Element
  <2> HIDE DEF e
  <2>2. e \in Nat /\ o + e <= Len(ws)
    BY DEF e
  <2> QED BY <2>1, <2>2
<1>3. PICK r : r = Replaced(ws, o, new)
  OBVIOUS
<1>4. /\ r \in Seq(Words) /\ Len(r) = Len(ws)
      /\ \A i \in 1..o : r[i] = ws[i]
      /\ \A i \in 1..e : r[o + i] = new[i]
      /\ \A i \in 1..(Len(ws) - o - e) : r[o + e + i] = ws[o + e + i]
  <2>1. /\ r \in Seq(Words) /\ Len(r) = Len(ws) - e + Len(new)
        /\ \A i \in 1..o : r[i] = ws[i]
        /\ \A i \in 1..Len(new) : r[o + i] = new[i]
        /\ \A i \in 1..(Len(ws) - o - e) : r[o + Len(new) + i] = ws[o + e + i]
    <3>1. new \in Seq(Words)
      BY <1>2
    <3>2. LET f == ElemWords(ws[o + 1])
              q == Replaced(ws, o, new)
          IN  /\ q \in Seq(Words) /\ Len(q) = Len(ws) - f + Len(new)
              /\ \A i \in 1..o : q[i] = ws[i]
              /\ \A i \in 1..Len(new) : q[o + i] = new[i]
              /\ \A i \in 1..(Len(ws) - o - f) : q[o + Len(new) + i] = ws[o + f + i]
      BY <3>1, ReplacedForm, Zenon
    <3> QED BY ONLY <1>3, <3>2
  <2>2. Len(ws) - e + e = Len(ws)
    BY DEF e
  <2> HIDE DEF e
  <2> QED BY <1>2, <2>1, <2>2
<1> HIDE DEF e
<1>5. \A i \in 1..Len(ws) : r[i] = ws[i]
  <2> SUFFICES ASSUME NEW i \in 1..Len(ws) PROVE r[i] = ws[i]
    OBVIOUS
  <2>1. e \in Nat
    BY DEF e
  <2>2. CASE i <= o
    BY <1>4, <2>2
  <2>3. CASE i > o /\ i <= o + e
    <3>1. i - o \in 1..e /\ o + (i - o) = i
      BY <2>1, <2>3
    <3> QED BY <1>2, <1>4, <3>1
  <2>4. CASE i > o + e
    <3>1. i - o - e \in 1..(Len(ws) - o - e) /\ o + e + (i - o - e) = i
      BY <2>1, <2>4
    <3> QED BY <1>4, <3>1
  <2> QED BY <2>1, <2>2, <2>3, <2>4
<1>6. r = ws
  BY <1>4, <1>5
<1> QED BY <1>1, <1>3, <1>6

\* The value of a message that can be read is a value.
LEMMA MessageValue ==
  ASSUME NEW b \in Buffers, ~Unreadable(b)
  PROVE  /\ b.words \in Seq(Words) /\ b.words # <<>> /\ b.words[1] \in Words
         /\ Value(Tail(b.words), b.words[1].len)
         /\ Len(Tail(b.words)) = Len(b.words) - 1 /\ b.tail \in 0..7
<1>1. b.words \in Seq(Words) /\ b.tail \in 0..7
  BY DEF Buffers
<1>2. Len(b.words) \in Nat /\ 8 * Len(b.words) + b.tail >= 8
  BY <1>1 DEF Unreadable, Bytes
<1>3. Len(b.words) >= 1
  BY <1>1, <1>2
<1>4. b.words[1] \in Words
  BY <1>1, <1>3
<1>5. b.words[1].len \in Nat /\ 8 + b.words[1].len <= 8 * Len(b.words) + b.tail
  <2>1. b.words[1].len \in Nat
    BY <1>4 DEF Words
  <2>2. PICK l \in Nat : l = b.words[1].len
    BY <2>1
  <2>3. 8 + l <= 8 * Len(b.words) + b.tail
    BY <1>1, <1>2, <2>2, SMTT(30) DEF Unreadable, Bytes
  <2> QED BY <2>2, <2>3
<1>6. b.words[1].len \div 8 <= Len(b.words) - 1
  BY <1>1, <1>2, <1>5, SMTT(30)
<1>7. Tail(b.words) \in Seq(Words) /\ Len(Tail(b.words)) = Len(b.words) - 1
  BY <1>1, <1>3
<1>8. b.words # <<>>
  BY <1>3
<1> QED BY <1>1, <1>4, <1>5, <1>6, <1>7, <1>8 DEF Value

\* A message comes out as it was, or with its first ResponseHeader replaced.
LEMMA StripForm ==
  ASSUME NEW b \in Buffers, StripCorrelation(b) # b
  PROVE  /\ ~Unreadable(b)
         /\ StripCorrelation(b) = [b EXCEPT !.words = StripCorrelation(b).words]
         /\ LET val == Tail(b.words)
                n   == b.words[1].len
            IN  \E at \in Headers(val, n) :
                  LET rh  == Element(val, at)
                      new == StripHeader(rh)
                  IN  /\ \A y \in Headers(val, n) : at <= y
                      /\ new # rh
                      /\ StripCorrelation(b).tail = b.tail
                      /\ StripCorrelation(b).words =
                           <<Shrunk(b.words[1], 8 * (Len(rh) - Len(new)))>>
                           \o Replaced(val, at, new)
<1> DEFINE val == Tail(b.words)
           n   == b.words[1].len
<1>1. ~Unreadable(b) /\ Headers(val, n) # {}
  BY DEF StripCorrelation
<1>2. /\ b.words \in Seq(Words) /\ b.words # <<>> /\ b.words[1] \in Words
      /\ Value(val, n) /\ b.tail \in 0..7
  BY <1>1, MessageValue
<1>3. \A o \in Headers(val, n) : o \in 0..(n \div 8) /\ Fits(val, n, o)
  <2> SUFFICES ASSUME NEW o \in Headers(val, n) PROVE o \in 0..(n \div 8) /\ Fits(val, n, o)
    OBVIOUS
  <2>1. PICK k \in 0..(n \div 8) : o = Walk(val, n)[k] /\ Fits(val, n, o)
    BY DEF Headers, Elements
  <2>2. Walk(val, n) \in [0..(n \div 8) -> 0..(n \div 8)]
    BY <1>2, WalkForm
  <2> QED BY <2>1, <2>2
<1>4. PICK at \in Headers(val, n) : at = Min(Headers(val, n)) /\ \A y \in Headers(val, n) : at <= y
  <2>1. PICK T : T = Headers(val, n)
    OBVIOUS
  <2>2. T \in SUBSET Nat /\ T # {}
    BY <1>1, <1>2, <1>3, <2>1 DEF Value
  <2>3. Min(T) \in T /\ \A y \in T : Min(T) <= y
    BY <2>2, MinIsLeast
  <2> QED BY <2>1, <2>3
<1> DEFINE rh  == Element(val, at)
           new == StripHeader(rh)
           w   == Shrunk(b.words[1], 8 * (Len(rh) - Len(new)))
<1>5. StripCorrelation(b) = [b EXCEPT !.words = <<w>> \o Replaced(val, at, new)]
  <2>1. StripCorrelation(b) =
          LET heads == Headers(val, n)
              r     == Element(val, Min(heads))
              s     == StripHeader(r)
          IN  IF heads = {} THEN b
              ELSE [b EXCEPT !.words =
                      <<Shrunk(b.words[1], 8 * (Len(r) - Len(s)))>>
                      \o Replaced(val, Min(heads), s)]
    BY <1>1 DEF StripCorrelation
  <2> QED BY <1>1, <1>4, <2>1
<1>6. b \in [words : Seq(Words), tail : 0..7]
  BY DEF Buffers
<1>7. new # rh
  <2> SUFFICES ASSUME new = rh PROVE FALSE
    OBVIOUS
  <2>1. Value(val, n) /\ at \in 0..(n \div 8) /\ Fits(val, n, at)
    BY <1>2, <1>3
  <2>2. rh \in Seq(Words) /\ Len(rh) - Len(rh) = 0
    BY <2>1, ElementFound DEF IsElement
  <2>3. w = b.words[1]
    <3>1. b.words[1] \in Words /\ n \in Nat
      BY <1>2 DEF Value
    <3>2. PICK d : d = Len(rh) - Len(new)
      OBVIOUS
    <3>3. d = 0
      BY <2>2, <3>2
    <3>4. w = [b.words[1] EXCEPT !.len = n - 8 * d]
      BY <3>2 DEF Shrunk
    <3>5. n - 8 * d = n
      BY <3>1, <3>3
    <3>6. w = [b.words[1] EXCEPT !.len = n]
      BY <3>4, <3>5
    <3> HIDE DEF w
    <3>7. w = b.words[1]
      BY <3>1, <3>6 DEF Words
    <3> QED BY <3>7 DEF w
  <2>4. Replaced(val, at, new) = val
    <3>1. /\ ElemWords(val[at + 1]) \in Nat \ {0}
          /\ at + ElemWords(val[at + 1]) <= n \div 8
      BY <2>1, RoundTyped
    <3>2. val \in Seq(Words) /\ at \in Nat /\ at + ElemWords(val[at + 1]) <= Len(val)
      <4> HIDE DEF val, n
      <4>1. PICK v : v = val
        OBVIOUS
      <4>2. PICK m : m = n
        OBVIOUS
      <4>3. v \in Seq(Words) /\ m \in Nat /\ m \div 8 <= Len(v) /\ m \div 8 \in Nat /\ Len(v) \in Nat
        BY <2>1, <4>1, <4>2 DEF Value
      <4>4. PICK e \in Nat : e = ElemWords(val[at + 1])
        BY <3>1
      <4>5. at + e <= m \div 8 /\ at \in Nat
        BY <2>1, <3>1, <4>2, <4>4
      <4>6. at + e <= Len(v)
        BY <4>3, <4>5
      <4> QED BY <4>1, <4>3, <4>4, <4>5, <4>6
    <3>3. Replaced(val, at, rh) = val
      BY <3>1, <3>2, ReplacedBySame
    <3> QED BY <3>3
  <2>5. <<b.words[1]>> \o val = b.words
    BY <1>2
  <2>6. PICK x : x = <<w>> \o Replaced(val, at, new)
    OBVIOUS
  <2>7. x = b.words
    BY <2>3, <2>4, <2>5, <2>6
  <2>8. StripCorrelation(b) = [b EXCEPT !.words = b.words]
    BY <1>5, <2>6, <2>7
  <2>9. [b EXCEPT !.words = b.words] = b
    BY <1>6
  <2> QED BY <2>8, <2>9
<1>8. /\ StripCorrelation(b).tail = b.tail
      /\ StripCorrelation(b).words = <<w>> \o Replaced(val, at, new)
      /\ StripCorrelation(b) = [b EXCEPT !.words = StripCorrelation(b).words]
  <2>1. PICK x : x = <<w>> \o Replaced(val, at, new)
    OBVIOUS
  <2>2. StripCorrelation(b) = [b EXCEPT !.words = x]
    BY <1>5, <2>1
  <2> QED BY <1>6, <2>1, <2>2
<1> QED BY <1>1, <1>4, <1>7, <1>8

\* The message that comes out, part by part.
Stripped(b, c, at, rh, new) ==
  LET val == Tail(b.words)
      n   == b.words[1].len
      w   == c.words[1]
  IN  /\ at \in Headers(val, n) /\ \A y \in Headers(val, n) : at <= y
      /\ at \in Nat /\ Fits(val, n, at) /\ rh = Element(val, at) /\ IsElement(rh)
      /\ rh[1] = val[at + 1] /\ new = StripHeader(rh) /\ new # rh
      /\ 8 * (at + Len(rh)) <= n
      /\ w = [b.words[1] EXCEPT !.len = n - 8 * (Len(rh) - Len(new))] /\ w \in Words
      /\ w.len = n - 8 * (Len(rh) - Len(new))
      /\ Tail(c.words) = Replaced(val, at, new) /\ Tail(c.words) \in Seq(Words)
      /\ Len(Tail(c.words)) = Len(val) - Len(rh) + Len(new)
      /\ c.words \in Seq(Words) /\ Len(c.words) = Len(b.words) - Len(rh) + Len(new)
      /\ c.tail = b.tail

\* A buffer that is stripped, in terms of lengths and positions.
LEMMA StrippedForm ==
  ASSUME NEW b \in Buffers, StripCorrelation(b) # b
  PROVE  \E at, rh, new : Stripped(b, StripCorrelation(b), at, rh, new)
<1> DEFINE val == Tail(b.words)
           n   == b.words[1].len
<1>1. ~Unreadable(b)
  BY StripForm
<1>2. /\ b.words \in Seq(Words) /\ b.words # <<>> /\ b.words[1] \in Words
      /\ Value(val, n) /\ Len(val) = Len(b.words) - 1 /\ b.tail \in 0..7
  BY <1>1, MessageValue
<1>3. PICK at \in Headers(val, n) :
         /\ \A y \in Headers(val, n) : at <= y
         /\ StripHeader(Element(val, at)) # Element(val, at)
         /\ StripCorrelation(b).tail = b.tail
         /\ StripCorrelation(b).words =
              <<Shrunk(b.words[1],
                  8 * (Len(Element(val, at)) - Len(StripHeader(Element(val, at)))))>>
              \o Replaced(val, at, StripHeader(Element(val, at)))
  BY StripForm
<1>4. PICK rh : rh = Element(val, at)
  OBVIOUS
<1>5. PICK new : new = StripHeader(rh)
  OBVIOUS
<1>6. PICK c : c = StripCorrelation(b)
  OBVIOUS
<1>7. at \in 0..(n \div 8) /\ Fits(val, n, at)
  <2>1. PICK k \in 0..(n \div 8) : at = Walk(val, n)[k] /\ Fits(val, n, at)
    BY DEF Headers, Elements
  <2>2. Walk(val, n) \in [0..(n \div 8) -> 0..(n \div 8)]
    BY <1>2, WalkForm
  <2> QED BY <2>1, <2>2
<1>8. /\ IsElement(rh) /\ rh[1] = val[at + 1] /\ Len(rh) = ElemWords(val[at + 1])
      /\ at + Len(rh) <= n \div 8
  BY <1>2, <1>4, <1>7, ElementFound
<1>9. IsElement(new)
  BY <1>5, <1>8, StripHeaderForm
<1>10. PICK w : w = Shrunk(b.words[1], 8 * (Len(rh) - Len(new)))
  OBVIOUS
<1>11. PICK r : r = Replaced(val, at, new)
  OBVIOUS
<1>12. c.words = <<w>> \o r /\ c.tail = b.tail
  BY <1>3, <1>4, <1>5, <1>6, <1>10, <1>11
<1> HIDE DEF val, n
<1>13. /\ val \in Seq(Words) /\ n \in Nat /\ n \div 8 \in Nat /\ n \div 8 <= Len(val)
       /\ Len(val) \in Nat /\ 8 * (n \div 8) <= n
  BY <1>2 DEF Value
<1>14. /\ new \in Seq(Words) /\ Len(new) \in Nat \ {0}
       /\ rh \in Seq(Words) /\ Len(rh) \in Nat \ {0}
  BY <1>8, <1>9 DEF IsElement
<1>15. at \in Nat /\ 8 * (at + Len(rh)) <= n /\ at + Len(rh) <= Len(val)
  BY <1>7, <1>8, <1>13, <1>14
<1>16. r \in Seq(Words) /\ Len(r) = Len(val) - Len(rh) + Len(new)
  BY <1>8, <1>11, <1>13, <1>14, <1>15, ReplacedForm
<1>17. n - 8 * (Len(rh) - Len(new)) \in Nat
  BY <1>13, <1>14, <1>15
<1>18. w = [b.words[1] EXCEPT !.len = n - 8 * (Len(rh) - Len(new))]
  BY <1>10 DEF Shrunk, n
<1>19. w \in Words /\ w.len = n - 8 * (Len(rh) - Len(new))
  <2>1. PICK l \in Nat : l = n - 8 * (Len(rh) - Len(new))
    BY <1>17
  <2>2. w = [b.words[1] EXCEPT !.len = l] /\ b.words[1] \in Words
    BY <1>2, <1>18, <2>1
  <2> QED BY <2>1, <2>2 DEF Words
<1>20. /\ c.words \in Seq(Words) /\ c.words[1] = w /\ Tail(c.words) = r
       /\ Len(c.words) = 1 + Len(r)
  BY <1>12, <1>16, <1>19
<1>21. Len(c.words) = Len(b.words) - Len(rh) + Len(new)
  BY <1>2, <1>13, <1>14, <1>16, <1>20
<1>22. Stripped(b, c, at, rh, new)
  BY <1>3, <1>4, <1>5, <1>7, <1>8, <1>11, <1>12, <1>15, <1>16, <1>18, <1>19, <1>20, <1>21
     DEF Stripped, val, n
<1> QED BY <1>6, <1>22

\* Another reader stays in step.
LEMMA StripFrames ==
  ASSUME NEW b \in Buffers, Bytes(b) >= 8
  PROVE  Surplus(StripCorrelation(b)) = Surplus(b)
<1> SUFFICES ASSUME StripCorrelation(b) # b PROVE Surplus(StripCorrelation(b)) = Surplus(b)
  OBVIOUS
<1>1. PICK c : c = StripCorrelation(b)
  OBVIOUS
<1>2. PICK at, rh, new : Stripped(b, c, at, rh, new)
  BY <1>1, StrippedForm
<1>3. /\ b.words \in Seq(Words) /\ b.words[1].len \in Nat /\ b.tail \in 0..7
  <2>1. ~Unreadable(b)
    BY StripForm
  <2> QED BY <2>1, MessageValue DEF Words
<1>4. IsElement(new)
  BY <1>2, StripHeaderForm DEF Stripped
<1>5. Len(rh) \in Nat /\ Len(new) \in Nat /\ Len(b.words) \in Nat
  BY <1>2, <1>3, <1>4 DEF Stripped, IsElement
<1>6. /\ c.words[1].len = b.words[1].len - 8 * (Len(rh) - Len(new))
      /\ Len(c.words) = Len(b.words) - Len(rh) + Len(new) /\ c.tail = b.tail
  BY <1>2 DEF Stripped
<1>7. PICK d \in Int : d = Len(rh) - Len(new)
  BY <1>5
<1>8. PICK l \in Nat, L \in Nat, z \in 0..7 : l = b.words[1].len /\ L = Len(b.words) /\ z = b.tail
  BY <1>3, <1>5
<1>9. c.words[1].len = l - 8 * d /\ Len(c.words) = L - d /\ c.tail = z
  <2>1. Len(b.words) - Len(rh) + Len(new) = Len(b.words) - d
    BY <1>5, <1>7
  <2> QED BY <1>6, <1>7, <1>8, <2>1
<1>10. Surplus(b) = (8 * L + z) - (8 + l)
  BY <1>8 DEF Surplus, Bytes
<1>11. Surplus(c) = (8 * (L - d) + z) - (8 + (l - 8 * d))
  BY <1>9 DEF Surplus, Bytes
<1>12. (8 * (L - d) + z) - (8 + (l - 8 * d)) = (8 * L + z) - (8 + l)
  <2>1. ASSUME NEW x \in Int, NEW y \in Int, NEW u \in Int, NEW v \in Int
        PROVE  (8 * (x - y) + u) - (8 + (v - 8 * y)) = (8 * x + u) - (8 + v)
    OBVIOUS
  <2>2. L \in Int /\ d \in Int /\ z \in Int /\ l \in Int
    BY <1>7, <1>8
  <2> QED BY ONLY <2>1, <2>2
<1> QED BY <1>1, <1>10, <1>11, <1>12

-----------------------------------------------------------------------------
(***************************************************************************)
(* Encodings are buffers.                                                  *)
(***************************************************************************)
\* Flattening gives a sequence over the same set.
LEMMA FlatTyped ==
  ASSUME NEW es \in Seq(Seq(Words)) PROVE FlattenSeq(es) \in Seq(Words)
<1>1. PICK p : Builds(p, es, Words) /\ FlattenSeq(es) = p[Len(es)]
  BY FlatForm
<1> QED BY <1>1 DEF Builds

\* The encoding of a part is an element.
LEMMA EncodePartForm ==
  ASSUME NEW t \in Parts
  PROVE  /\ IsElement(EncodePart(t)) /\ EncodePart(t)[1].tag = t.tag
         /\ EncodePart(t)[1].struct = t.struct
<1>1. PICK w : w = [tag |-> t.tag, struct |-> t.struct, len |-> t.len]
  OBVIOUS
<1>2. /\ t.tag \in Tags /\ t.len \in Nat /\ t.struct \in BOOLEAN /\ t.data \in Seq(Words)
      /\ Len(t.data) = (t.len + 7) \div 8
  BY DEF Parts
<1>3. w \in Words /\ w.len = t.len /\ w.tag = t.tag /\ w.struct = t.struct
  BY <1>1, <1>2 DEF Words
<1>4. PICK e : e = <<w>> \o t.data
  OBVIOUS
<1>5. e \in Seq(Words) /\ e # <<>> /\ e[1] = w /\ Len(e) = 1 + Len(t.data)
  BY <1>2, <1>3, <1>4
<1>6. IsElement(e)
  BY <1>2, <1>3, <1>5 DEF IsElement, ElemWords
<1>7. EncodePart(t) = e
  BY <1>1, <1>4 DEF EncodePart
<1> QED BY <1>3, <1>5, <1>6, <1>7

\* A structure around words is an element.
LEMMA EncloseForm ==
  ASSUME NEW tag \in Tags, NEW ws \in Seq(Words)
  PROVE  /\ IsElement(Enclose(tag, ws)) /\ Tail(Enclose(tag, ws)) = ws
         /\ Enclose(tag, ws)[1] = [tag |-> tag, struct |-> TRUE, len |-> 8 * Len(ws)]
         /\ Len(Enclose(tag, ws)) = 1 + Len(ws)
<1>1. PICK w : w = [tag |-> tag, struct |-> TRUE, len |-> 8 * Len(ws)]
  OBVIOUS
<1>2. Len(ws) \in Nat
  OBVIOUS
<1>3. w \in Words /\ w.len = 8 * Len(ws)
  BY <1>1, <1>2 DEF Words
<1>4. PICK e : e = <<w>> \o ws
  OBVIOUS
<1>5. e \in Seq(Words) /\ e # <<>> /\ e[1] = w /\ Len(e) = 1 + Len(ws) /\ Tail(e) = ws
  BY <1>3, <1>4
<1>6. IsElement(e)
  <2>1. ElemWords(w) = 1 + Len(ws)
    BY <1>2, <1>3 DEF ElemWords
  <2> QED BY <1>5, <2>1 DEF IsElement
<1>7. Enclose(tag, ws) = e
  BY <1>1, <1>4 DEF Enclose
<1> QED BY <1>1, <1>5, <1>6, <1>7

\* The encodings of parts one after the other.
PartCodes(ts) == [i \in 1..Len(ts) |-> EncodePart(ts[i])]

\* The encodings of parts are sequences of words.
LEMMA PartCodesTyped ==
  ASSUME NEW ts \in Seq(Parts)
  PROVE  PartCodes(ts) \in Seq(Seq(Words)) /\ Len(PartCodes(ts)) = Len(ts)
<1>1. \A i \in 1..Len(ts) : EncodePart(ts[i]) \in Seq(Words)
  <2> SUFFICES ASSUME NEW i \in 1..Len(ts) PROVE EncodePart(ts[i]) \in Seq(Words)
    OBVIOUS
  <2>1. ts[i] \in Parts
    OBVIOUS
  <2> QED BY <2>1, EncodePartForm DEF IsElement
<1>2. PICK c : c = PartCodes(ts)
  OBVIOUS
<1>3. c \in [1..Len(ts) -> Seq(Words)]
  BY <1>1, <1>2 DEF PartCodes
<1>4. c \in Seq(Seq(Words)) /\ Len(c) = Len(ts)
  BY <1>3
<1> QED BY <1>2, <1>4

\* The encoding of a structure is an element.
LEMMA EncodeNodeForm ==
  ASSUME NEW t \in Nodes
  PROVE  /\ EncodeElem(t) = Enclose(t.tag, FlattenSeq(PartCodes(t.kids)))
         /\ t.kids \in Seq(Parts) /\ t.tag \in Tags /\ t.struct = TRUE
         /\ FlattenSeq(PartCodes(t.kids)) \in Seq(Words)
<1>1. t.kids \in Seq(Parts) /\ t.struct = TRUE /\ t.tag \in Tags
  BY DEF Nodes
<1>2. PartCodes(t.kids) \in Seq(Seq(Words))
  BY <1>1, PartCodesTyped
<1> QED BY <1>1, <1>2, FlatTyped DEF EncodeElem, PartCodes

\* The encoding of an element of a message is an element.
LEMMA EncodeElemForm ==
  ASSUME NEW t \in Leaves \cup Nodes
  PROVE  /\ IsElement(EncodeElem(t)) /\ EncodeElem(t)[1].tag = t.tag
         /\ EncodeElem(t)[1].struct = t.struct
<1>1. CASE t \in Leaves
  <2>1. t \in Parts /\ ~t.struct
    BY <1>1 DEF Leaves
  <2> QED BY <1>1, <2>1, EncodePartForm DEF EncodeElem
<1>2. CASE t \in Nodes
  <2>1. PICK ws : ws = FlattenSeq(PartCodes(t.kids))
    OBVIOUS
  <2>2. EncodeElem(t) = Enclose(t.tag, ws) /\ ws \in Seq(Words) /\ t.tag \in Tags /\ t.struct = TRUE
    BY <1>2, <2>1, EncodeNodeForm
  <2>3. IsElement(Enclose(t.tag, ws)) /\
        Enclose(t.tag, ws)[1] = [tag |-> t.tag, struct |-> TRUE, len |-> 8 * Len(ws)]
    BY <2>2, EncloseForm
  <2>4. PICK w : w = [tag |-> t.tag, struct |-> TRUE, len |-> 8 * Len(ws)]
    OBVIOUS
  <2>5. w.tag = t.tag /\ w.struct = TRUE
    BY <2>4
  <2>6. EncodeElem(t)[1] = w
    BY <2>2, <2>3, <2>4
  <2> QED BY <2>2, <2>3, <2>5, <2>6
<1> QED BY <1>1, <1>2

\* The encodings of a message's elements.
Codes(m) == [i \in 1..Len(m) |-> EncodeElem(m[i])]

\* The encodings of a message's elements are sequences of words.
LEMMA CodesTyped ==
  ASSUME NEW m \in Seq(Leaves \cup Nodes)
  PROVE  /\ Codes(m) \in Seq(Seq(Words)) /\ Len(Codes(m)) = Len(m)
         /\ \A i \in 1..Len(m) : Codes(m)[i] = EncodeElem(m[i])
<1>1. \A i \in 1..Len(m) : EncodeElem(m[i]) \in Seq(Words)
  <2> SUFFICES ASSUME NEW i \in 1..Len(m) PROVE EncodeElem(m[i]) \in Seq(Words)
    OBVIOUS
  <2>1. m[i] \in Leaves \cup Nodes
    OBVIOUS
  <2> QED BY <2>1, EncodeElemForm DEF IsElement
<1>2. PICK c : c = Codes(m)
  OBVIOUS
<1>3. c \in [1..Len(m) -> Seq(Words)] /\ \A i \in 1..Len(m) : c[i] = EncodeElem(m[i])
  BY <1>1, <1>2 DEF Codes
<1>4. c \in Seq(Seq(Words)) /\ Len(c) = Len(m)
  BY <1>3
<1> QED BY <1>2, <1>3, <1>4

\* The encoding of a message is a buffer.
LEMMA EncodeForm ==
  ASSUME NEW m \in Seq(Leaves \cup Nodes)
  PROVE  /\ Encode(m) \in Buffers
         /\ Encode(m) = [words |-> Enclose("message", FlattenSeq(Codes(m))), tail |-> 0]
         /\ FlattenSeq(Codes(m)) \in Seq(Words)
<1>1. FlattenSeq(Codes(m)) \in Seq(Words)
  BY CodesTyped, FlatTyped
<1>2. PICK ws : ws = FlattenSeq(Codes(m))
  OBVIOUS
<1>3. Enclose("message", ws) \in Seq(Words)
  <2>1. "message" \in Tags /\ ws \in Seq(Words)
    BY <1>1, <1>2, TtlvAssumption
  <2>2. IsElement(Enclose("message", ws))
    BY <2>1, EncloseForm
  <2> QED BY <2>2 DEF IsElement
<1>4. Encode(m) = [words |-> Enclose("message", ws), tail |-> 0]
  BY <1>2 DEF Encode, Codes
<1>5. Encode(m) \in Buffers
  BY <1>3, <1>4 DEF Buffers
<1> QED BY <1>1, <1>2, <1>4, <1>5

-----------------------------------------------------------------------------
(***************************************************************************)
(* Walking over elements one after the other, some of them missing.        *)
(***************************************************************************)
Tiling(es) == es \in Seq(Seq(Words)) /\ \A k \in 1..Len(es) : es[k] = <<>> \/ IsElement(es[k])

\* What has been built stays.
LEMMA BuiltStays ==
  ASSUME NEW S, NEW es \in Seq(Seq(S)), NEW p, Builds(p, es, S),
         NEW i \in 0..Len(es), NEW j \in i..Len(es)
  PROVE  /\ Len(p[i]) <= Len(p[j])
         /\ \A x \in 1..Len(p[i]) : p[j][x] = p[i][x]
<1> DEFINE M == Len(es)
           Stays(k) == Len(p[i]) <= Len(p[k]) /\ \A x \in 1..Len(p[i]) : p[k][x] = p[i][x]
           T == {d \in 0..(M - i) : Stays(i + d)}
<1>1. M \in Nat /\ M - i \in Nat /\ i \in Nat
  OBVIOUS
<1>2. \A k \in 0..M : p[k] \in Seq(S)
  BY DEF Builds
<1>3. (\A k \in 1..M : p[k] = p[k - 1] \o es[k]) /\ \A k \in 1..M : es[k] \in Seq(S)
  <2>1. \A k \in 1..M : p[k] = p[k - 1] \o es[k]
    BY DEF Builds
  <2>2. \A k \in 1..M : es[k] \in Seq(S)
    OBVIOUS
  <2> QED BY <2>1, <2>2
<1> HIDE DEF M
<1>4. 0 \in T
  <2>1. p[i] \in Seq(S)
    BY <1>2 DEF M
  <2>2. Stays(i) /\ i + 0 = i
    BY <1>1, <2>1
  <2> QED BY <1>1, <2>2
<1>5. ASSUME NEW d \in 0..((M - i) - 1), d \in T PROVE d + 1 \in T
  <2>1. PICK k \in 1..M : k = i + (d + 1) /\ k - 1 = i + d /\ k - 1 \in 0..M
    BY <1>1
  <2>2. Stays(k - 1)
    BY <1>5, <2>1
  <2>3. p[k - 1] \in Seq(S) /\ es[k] \in Seq(S) /\ p[k] = p[k - 1] \o es[k] /\ p[i] \in Seq(S)
    BY <1>2, <1>3, <2>1 DEF M
  <2>4. PICK a \in Seq(S), e \in Seq(S), c \in Seq(S) : a = p[k - 1] /\ e = es[k] /\ c = p[i]
    BY <2>3
  <2>5. Len(a \o e) = Len(a) + Len(e) /\ \A x \in 1..Len(a) : (a \o e)[x] = a[x]
    BY Joined
  <2>6. Stays(k)
    <3>1. p[k] = a \o e /\ Len(c) <= Len(a) /\ \A x \in 1..Len(c) : a[x] = c[x]
      BY <2>2, <2>3, <2>4
    <3>2. Len(a) \in Nat /\ Len(c) \in Nat /\ Len(e) \in Nat
      OBVIOUS
    <3>3. PICK b : b = a \o e
      OBVIOUS
    <3>4. Len(c) <= Len(b) /\ \A x \in 1..Len(c) : b[x] = c[x]
      BY <2>5, <3>1, <3>2, <3>3
    <3> QED BY <2>4, <3>1, <3>3, <3>4
  <2>7. d + 1 \in 0..(M - i)
    BY <1>1
  <2> HIDE DEF Stays
  <2> QED BY <2>1, <2>6, <2>7
<1> HIDE DEF T, Stays
<1>6. j - i \in T
  <2>1. j - i \in 0..(M - i)
    BY <1>1 DEF M
  <2>2. PICK n \in Nat : n = M - i
    BY <1>1
  <2>3. \A d \in 0..n : d \in T
    BY <1>4, <1>5, <2>2, Induction
  <2> QED BY <2>1, <2>2, <2>3
<1>7. i + (j - i) = j
  BY <1>1 DEF M
<1> QED BY <1>6, <1>7 DEF T, Stays

\* The words ws are the elements es one after the other.
Tiled(es, p, ws) == Tiling(es) /\ Builds(p, es, Words) /\ ws = p[Len(es)]

\* Elements one after the other are a value.
LEMMA TiledTyped ==
  ASSUME NEW es, NEW p, NEW ws, Tiled(es, p, ws)
  PROVE  /\ es \in Seq(Seq(Words)) /\ Len(es) \in Nat /\ ws \in Seq(Words)
         /\ \A i \in 0..Len(es) : p[i] \in Seq(Words) /\ Len(p[i]) \in Nat /\ Len(p[i]) <= Len(ws)
         /\ Value(ws, 8 * Len(ws)) /\ (8 * Len(ws)) \div 8 = Len(ws)
<1>1. es \in Seq(Seq(Words)) /\ Len(es) \in Nat /\ Builds(p, es, Words) /\ ws = p[Len(es)]
  BY DEF Tiled, Tiling
<1>2. \A i \in 0..Len(es) : p[i] \in Seq(Words) /\ Len(p[i]) \in Nat
  BY <1>1, BuiltTyped
<1>3. Len(es) \in 0..Len(es)
  BY <1>1
<1>4. ws \in Seq(Words)
  BY <1>1, <1>2, <1>3
<1>5. PICK L \in Nat : L = Len(ws)
  BY <1>4
<1>6. Value(ws, 8 * L) /\ (8 * L) \div 8 = L
  BY <1>4, <1>5 DEF Value
<1>7. \A i \in 0..Len(es) : Len(p[i]) <= Len(ws)
  <2> SUFFICES ASSUME NEW i \in 0..Len(es) PROVE Len(p[i]) <= Len(ws)
    OBVIOUS
  <2>1. Len(es) \in i..Len(es)
    BY <1>1
  <2>2. Len(p[i]) <= Len(p[Len(es)])
    BY <1>1, <2>1, BuiltStays
  <2> QED BY <1>1, <2>2
<1> QED BY <1>1, <1>2, <1>4, <1>5, <1>6, <1>7

\* The loop finds an element where it was put.
LEMMA TileAt ==
  ASSUME NEW es, NEW p, NEW ws, Tiled(es, p, ws), NEW k \in 1..Len(es), es[k] # <<>>
  PROVE  LET o == Len(p[k - 1])
         IN  /\ o \in Nat /\ o + 1 \in 1..Len(ws) /\ ws[o + 1] = es[k][1]
             /\ Fits(ws, 8 * Len(ws), o) /\ Element(ws, o) = es[k]
             /\ o + ElemWords(ws[o + 1]) = Len(p[k]) /\ Len(p[k]) <= Len(ws)
             /\ o < Len(p[k])
<1>1. es \in Seq(Seq(Words)) /\ IsElement(es[k]) /\ Builds(p, es, Words) /\ ws = p[Len(es)]
  BY DEF Tiled, Tiling
<1>2. PICK e : e = es[k]
  OBVIOUS
<1>3. e \in Seq(Words) /\ Len(e) \in Nat \ {0} /\ Len(e) = ElemWords(e[1])
  BY <1>1, <1>2 DEF IsElement
<1>4. PICK q : q = p[k - 1]
  OBVIOUS
<1>5. PICK r : r = p[k]
  OBVIOUS
<1>6. k \in 0..Len(es) /\ k - 1 \in 0..Len(es) /\ Len(es) \in Nat /\ Len(es) \in k..Len(es)
  <2>1. Len(es) \in Nat
    BY <1>1
  <2> QED BY <2>1
<1>7. q \in Seq(Words) /\ ws \in Seq(Words) /\ r \in Seq(Words) /\ r = q \o e
  <2>1. p[k] = p[k - 1] \o es[k]
    BY <1>1 DEF Builds
  <2> QED BY <1>2, <1>4, <1>5, <1>6, <2>1, TiledTyped
<1>8. Len(r) = Len(q) + Len(e) /\ \A i \in 1..Len(e) : r[Len(q) + i] = e[i]
  <2>1. PICK a \in Seq(Words), z \in Seq(Words) : a = q /\ z = e
    BY <1>3, <1>7
  <2>2. Len(a \o z) = Len(a) + Len(z) /\ \A i \in 1..Len(z) : (a \o z)[Len(a) + i] = z[i]
    BY Joined
  <2> QED BY <1>7, <2>1, <2>2
<1>9. Len(r) <= Len(ws) /\ \A x \in 1..Len(r) : ws[x] = r[x]
  BY <1>1, <1>5, <1>6, BuiltStays
<1>10. PICK o \in Nat : o = Len(q)
  BY <1>7
<1>11. PICK l \in Nat \ {0} : l = Len(e)
  BY <1>3
<1>12. Len(r) = o + l /\ Len(ws) \in Nat /\ o + l <= Len(ws)
  BY <1>7, <1>8, <1>9, <1>10, <1>11
<1>13. \A i \in 1..l : ws[o + i] = e[i]
  BY <1>8, <1>9, <1>10, <1>11, <1>12
<1>14. ws[o + 1] = e[1] /\ ElemWords(ws[o + 1]) = l
  BY <1>3, <1>11, <1>13
<1>15. Element(ws, o) = e
  <2>1. PICK s : s = SubSeq(ws, o + 1, o + l)
    OBVIOUS
  <2>2. s \in Seq(Words) /\ Len(s) = l /\ \A i \in 1..l : s[i] = ws[o + i]
    BY <1>7, <1>12, <2>1
  <2>3. s = e
    BY <1>3, <1>11, <1>13, <2>2
  <2> QED BY <1>14, <2>1, <2>3 DEF Element
<1>16. Fits(ws, 8 * Len(ws), o)
  BY <1>12, <1>14 DEF Fits
<1> QED BY <1>2, <1>4, <1>5, <1>10, <1>12, <1>14, <1>15, <1>16

\* From a boundary between elements the loop gets to the next one.
LEMMA TileStep ==
  ASSUME NEW es, Tiling(es), NEW p, Builds(p, es, Words), NEW i \in 0..Len(es),
         Len(p[i]) < Len(p[Len(es)])
  PROVE  \E k \in 1..Len(es) : es[k] # <<>> /\ Len(p[k - 1]) = Len(p[i]) /\ i < k
<1> DEFINE M == Len(es)
           T == {k \in 0..M : Len(p[i]) < Len(p[k])}
<1>1. M \in Nat /\ es \in Seq(Seq(Words))
  BY DEF Tiling
<1>2. \A k \in 0..M : p[k] \in Seq(Words) /\ Len(p[k]) \in Nat
  BY <1>1 DEF Builds
<1>3. PICK k \in T : \A y \in T : k <= y
  <2>1. M \in T
    BY <1>1
  <2>2. PICK U : U = T
    OBVIOUS
  <2>3. U \in SUBSET Nat /\ U # {}
    BY <1>1, <2>1, <2>2
  <2> QED BY <2>2, <2>3, LeastNatural
<1> HIDE DEF M
<1>4. k \in 0..M /\ Len(p[i]) < Len(p[k]) /\ i \in 0..M
  BY DEF M
<1>5. \A j \in 0..i : Len(p[j]) <= Len(p[i])
  <2> SUFFICES ASSUME NEW j \in 0..i PROVE Len(p[j]) <= Len(p[i])
    OBVIOUS
  <2>1. j \in 0..Len(es) /\ i \in j..Len(es)
    BY <1>1, <1>4 DEF M
  <2> QED BY <1>1, <2>1, BuiltStays
<1>6. i < k
  <2> SUFFICES ASSUME k <= i PROVE FALSE
    BY <1>1, <1>4
  <2>1. k \in 0..i
    BY <1>1, <1>4
  <2>2. Len(p[k]) <= Len(p[i]) /\ Len(p[k]) \in Nat /\ Len(p[i]) \in Nat
    BY <1>2, <1>4, <1>5, <2>1
  <2> QED BY <1>4, <2>2
<1>7. k \in 1..M /\ k - 1 \in 0..M /\ k - 1 \in i..M
  BY <1>1, <1>4, <1>6
<1>8. Len(p[k - 1]) <= Len(p[i])
  <2> SUFFICES ASSUME Len(p[i]) < Len(p[k - 1]) PROVE FALSE
    BY <1>2, <1>4, <1>7
  <2>1. k - 1 \in T
    BY <1>7
  <2>2. k <= k - 1
    BY <1>3, <2>1
  <2> QED BY <1>7, <2>2
<1>9. Len(p[i]) <= Len(p[k - 1])
  BY <1>1, <1>4, <1>7, BuiltStays DEF M
<1>10. es[k] # <<>>
  <2> SUFFICES ASSUME es[k] = <<>> PROVE FALSE
    OBVIOUS
  <2>1. p[k] = p[k - 1] \o <<>> /\ p[k - 1] \in Seq(Words)
    BY <1>2, <1>7 DEF Builds, M
  <2>2. Len(p[k]) = Len(p[k - 1])
    BY <2>1
  <2> QED BY <1>2, <1>4, <1>7, <1>8, <2>2
<1>11. Len(p[k - 1]) = Len(p[i])
  BY <1>2, <1>4, <1>7, <1>8, <1>9
<1> QED BY <1>6, <1>7, <1>10, <1>11 DEF M

\* The loop only ever stands between elements.
LEMMA TiledWalk ==
  ASSUME NEW es, NEW p, NEW ws, Tiled(es, p, ws), NEW j \in 0..Len(ws)
  PROVE  \E i \in 0..Len(es) : Walk(ws, 8 * Len(ws))[j] = Len(p[i])
<1>1. /\ Tiling(es) /\ Builds(p, es, Words) /\ ws = p[Len(es)]
      /\ ws \in Seq(Words) /\ Len(es) \in Nat
  BY TiledTyped DEF Tiled
<1>2. PICK M \in Nat : M = Len(es)
  BY <1>1
<1>3. PICK L \in Nat : L = Len(ws)
  BY <1>1
<1>4. Value(ws, 8 * L) /\ (8 * L) \div 8 = L
  BY <1>3, TiledTyped
<1>5. PICK off : off = Walk(ws, 8 * L)
  OBVIOUS
<1>6. off \in [0..L -> 0..L] /\ off[0] = 0 /\ \A k \in 0..(L - 1) : off[k + 1] = After(ws, 8 * L, off[k])
  BY <1>4, <1>5, WalkForm, SMTT(30)
<1> DEFINE T == {k \in 0..L : \E i \in 0..M : off[k] = Len(p[i])}
<1>7. 0 \in T
  <2>1. p[0] = <<>>
    BY <1>1 DEF Builds
  <2>2. 0 \in 0..L /\ 0 \in 0..M /\ off[0] = Len(p[0])
    BY <1>6, <2>1
  <2> QED BY <2>2
<1>8. ASSUME NEW k \in 0..(L - 1), k \in T PROVE k + 1 \in T
  <2>1. PICK i \in 0..M : off[k] = Len(p[i])
    BY <1>8
  <2>2. off[k + 1] = After(ws, 8 * L, off[k]) /\ k + 1 \in 0..L /\ off[k] \in 0..L
    BY <1>6
  <2>3. CASE ~Fits(ws, 8 * L, off[k])
    BY <2>1, <2>2, <2>3 DEF After
  <2>4. CASE Fits(ws, 8 * L, off[k])
    <3>1. off[k] < L
      BY <2>2, <2>4 DEF Fits
    <3>2. PICK h \in 1..M : es[h] # <<>> /\ Len(p[h - 1]) = Len(p[i])
      BY <1>1, <1>2, <1>3, <2>1, <3>1, TileStep
    <3>3. LET o == Len(p[h - 1]) IN o + ElemWords(ws[o + 1]) = Len(p[h])
      BY <1>2, <3>2, TileAt, SMTT(30)
    <3>4. off[k] + ElemWords(ws[off[k] + 1]) = Len(p[h])
      BY <2>1, <3>2, <3>3
    <3>5. off[k + 1] = Len(p[h]) /\ h \in 0..M
      BY <2>2, <2>4, <3>4 DEF After
    <3> QED BY <2>2, <3>5
  <2> QED BY <2>3, <2>4
<1> HIDE DEF T
<1>9. \A k \in 0..L : k \in T
  BY <1>7, <1>8, Induction
<1>10. j \in T
  BY <1>3, <1>9
<1> QED BY <1>2, <1>3, <1>5, <1>10 DEF T

-----------------------------------------------------------------------------
(***************************************************************************)
(* A second pass finds nothing.                                            *)
(***************************************************************************)
\* With nothing dropped the loop keeps what it has passed.
LEMMA KeptAll ==
  ASSUME NEW ws, NEW n, Value(ws, n)
  PROVE  Len(Kept(ws, n, {})) = Walk(ws, n)[n \div 8]
<1>1. PICK N \in Nat : N = n \div 8
  BY DEF Value
<1>2. PICK es \in Seq(Seq(Words)) : es = Rounds(ws, n, {}) /\ Len(es) = N
  BY <1>1, RoundsTyped
<1>3. PICK p : Builds(p, es, Words) /\ FlattenSeq(es) = p[N]
  BY <1>2, FlatForm
<1>4. PICK off : off = Walk(ws, n)
  OBVIOUS
<1>5. off \in [0..N -> 0..N] /\ off[0] = 0 /\ \A k \in 0..(N - 1) : off[k + 1] = After(ws, n, off[k])
  BY <1>1, <1>4, WalkForm
<1> DEFINE T == {k \in 0..N : Len(p[k]) = off[k]}
<1>6. 0 \in T
  <2>1. p[0] = <<>>
    BY <1>3 DEF Builds
  <2> QED BY <1>5, <2>1
<1>7. ASSUME NEW k \in 0..(N - 1), k \in T PROVE k + 1 \in T
  <2>1. k + 1 \in 1..N /\ (k + 1) - 1 = k /\ k \in 0..N /\ k + 1 \in 0..N
    BY <1>1
  <2>2. PICK o \in 0..N : o = off[k]
    BY <1>5, <2>1
  <2>3. PICK e : e = es[k + 1]
    OBVIOUS
  <2>4. e = IF Fits(ws, n, o) THEN Element(ws, o) ELSE <<>>
    BY <1>1, <1>2, <1>4, <2>1, <2>2, <2>3 DEF Rounds
  <2>5. e \in Seq(Words) /\ p[k] \in Seq(Words) /\ p[k + 1] = p[k] \o e
    <3>1. e \in Seq(Words)
      BY <1>2, <2>1, <2>3
    <3>2. p[k] \in Seq(Words)
      BY <1>2, <1>3, <2>1 DEF Builds
    <3>3. p[k + 1] = p[k] \o e
      BY <1>2, <1>3, <2>1, <2>3 DEF Builds
    <3> QED BY <3>1, <3>2, <3>3
  <2>6. Len(p[k + 1]) = Len(p[k]) + Len(e)
    BY <2>5
  <2>7. Len(p[k]) = o /\ off[k + 1] = After(ws, n, o)
    BY <1>5, <1>7, <2>2
  <2>8. CASE Fits(ws, n, o)
    <3>1. Len(e) = ElemWords(ws[o + 1])
      BY <1>1, <2>4, <2>8, ElementFound
    <3> QED BY <2>1, <2>6, <2>7, <2>8, <3>1 DEF After
  <2>9. CASE ~Fits(ws, n, o)
    <3>1. Len(e) = 0
      BY <2>4, <2>9
    <3> QED BY <2>1, <2>6, <2>7, <2>9, <3>1 DEF After
  <2> QED BY <2>8, <2>9
<1> HIDE DEF T
<1>8. \A k \in 0..N : k \in T
  BY <1>1, <1>6, <1>7, Induction
<1>9. Len(p[N]) = off[N]
  <2>1. N \in T
    BY <1>1, <1>8
  <2> QED BY <2>1 DEF T
<1> QED BY <1>1, <1>2, <1>3, <1>4, <1>9, RoundsTyped

\* What is kept is elements, none of them dropped.
LEMMA RoundsTiling ==
  ASSUME NEW ws, NEW n, Value(ws, n), NEW Dropped
  PROVE  LET es == Rounds(ws, n, Dropped)
         IN  /\ Tiling(es)
             /\ \A k \in 1..Len(es) : es[k] # <<>> =>
                  \E o \in Elements(ws, n) \ Dropped : es[k] = Element(ws, o) /\ es[k][1] = ws[o + 1]
<1>1. PICK N \in Nat : N = n \div 8
  BY DEF Value
<1>2. PICK es \in Seq(Seq(Words)) : es = Rounds(ws, n, Dropped) /\ Len(es) = N
  BY <1>1, RoundsTyped
<1>3. ASSUME NEW k \in 1..N, es[k] # <<>>
      PROVE  /\ IsElement(es[k])
             /\ \E o \in Elements(ws, n) \ Dropped : es[k] = Element(ws, o) /\ es[k][1] = ws[o + 1]
  <2>1. k - 1 \in 0..N
    BY <1>1
  <2>2. PICK o \in 0..N : o = Walk(ws, n)[k - 1]
    BY <1>1, <2>1, WalkForm
  <2>3. es[k] = IF Fits(ws, n, o) /\ o \notin Dropped THEN Element(ws, o) ELSE <<>>
    BY <1>1, <1>2, <2>2 DEF Rounds
  <2>4. Fits(ws, n, o) /\ o \notin Dropped /\ es[k] = Element(ws, o)
    BY <1>3, <2>3
  <2>5. o \in Elements(ws, n)
    BY <1>1, <2>1, <2>2, <2>4 DEF Elements
  <2>6. IsElement(Element(ws, o)) /\ Element(ws, o)[1] = ws[o + 1]
    BY <1>1, <2>4, ElementFound
  <2> QED BY <2>4, <2>5, <2>6
<1>4. Tiling(es)
  BY <1>2, <1>3 DEF Tiling
<1> QED BY <1>2, <1>3, <1>4

\* A header that has been stripped stays as it is.
LEMMA HeaderStays ==
  ASSUME NEW rh, IsElement(rh), StripHeader(rh) # rh
  PROVE  StripHeader(StripHeader(rh)) = StripHeader(rh)
<1>1. PICK val : val = Tail(rh)
  OBVIOUS
<1>2. PICK n : n = rh[1].len
  OBVIOUS
<1>3. Value(val, n)
  BY <1>1, <1>2, ElementValue
<1>4. PICK D : D = Correlations(val, n)
  OBVIOUS
<1>5. PICK ws : ws = Kept(val, n, D)
  OBVIOUS
<1>6. PICK new : new = StripHeader(rh)
  OBVIOUS
<1>7. new = <<[rh[1] EXCEPT !.len = 8 * Len(ws)]>> \o ws /\ ws \in Seq(Words)
  BY <1>1, <1>2, <1>4, <1>5, <1>6, StripHeaderForm
<1>8. PICK es \in Seq(Seq(Words)) : es = Rounds(val, n, D) /\ FlattenSeq(es) = ws
  BY <1>3, <1>5, RoundsTyped
<1>9. PICK p : Builds(p, es, Words) /\ ws = p[Len(es)]
  BY <1>8, FlatForm
<1>10. Tiling(es) /\ \A k \in 1..Len(es) : es[k] # <<>> => es[k][1].tag \notin CorrelationTags
  <2>1. Tiling(es)
    BY <1>3, <1>8, RoundsTiling
  <2>2. ASSUME NEW k \in 1..Len(es), es[k] # <<>> PROVE es[k][1].tag \notin CorrelationTags
    <3>1. PICK o \in Elements(val, n) \ D : es[k][1] = val[o + 1]
      BY <1>3, <1>8, <2>2, RoundsTiling
    <3>2. val[o + 1].tag \notin CorrelationTags
      BY <1>4, <3>1 DEF Correlations
    <3> QED BY <3>1, <3>2
  <2> QED BY <2>1, <2>2
<1>11. PICK L \in Nat : L = Len(ws)
  BY <1>7
<1>12. Tiled(es, p, ws)
  BY <1>9, <1>10 DEF Tiled
<1>13. /\ Value(ws, 8 * L) /\ (8 * L) \div 8 = L
       /\ \A j \in 0..L : \E i \in 0..Len(es) : Walk(ws, 8 * L)[j] = Len(p[i])
  <2>1. \A j \in 0..Len(ws) : \E i \in 0..Len(es) : Walk(ws, 8 * Len(ws))[j] = Len(p[i])
    BY <1>12, TiledWalk
  <2>2. Value(ws, 8 * Len(ws)) /\ (8 * Len(ws)) \div 8 = Len(ws)
    BY <1>12, TiledTyped
  <2> QED BY <1>11, <2>1, <2>2
<1>14. Correlations(ws, 8 * L) = {}
  <2> SUFFICES ASSUME NEW o \in Correlations(ws, 8 * L) PROVE FALSE
    OBVIOUS
  <2>1. o \in Elements(ws, 8 * L) /\ ws[o + 1].tag \in CorrelationTags
    BY DEF Correlations
  <2>2. PICK j \in 0..L : o = Walk(ws, 8 * L)[j] /\ Fits(ws, 8 * L, o)
    BY <1>13, <2>1 DEF Elements
  <2>3. PICK i \in 0..Len(es) : o = Len(p[i])
    BY <1>13, <2>2
  <2>4. o \in 0..L
    BY <1>13, <2>2, WalkForm
  <2>5. o < L
    BY <1>11, <2>2, <2>4 DEF Fits
  <2>6. PICK k \in 1..Len(es) : es[k] # <<>> /\ Len(p[k - 1]) = Len(p[i])
    BY <1>9, <1>10, <1>11, <2>3, <2>5, TileStep, SMTT(30)
  <2>7. Tiled(es, p, ws) /\ es[k] # <<>> /\ k \in 1..Len(es)
    BY <1>12, <2>6
  <2>8. LET q == Len(p[k - 1]) IN ws[q + 1] = es[k][1]
    BY ONLY <2>7, TileAt
  <2>9. ws[o + 1] = es[k][1]
    BY <2>3, <2>6, <2>8
  <2> QED BY <1>10, <2>1, <2>6, <2>9
<1>15. Tail(new) = ws /\ new[1].len = 8 * L
  <2>1. PICK w : w = [rh[1] EXCEPT !.len = 8 * L]
    OBVIOUS
  <2>2. rh[1] \in Words
    BY ElementValue
  <2>3. w \in Words /\ w.len = 8 * L
    BY <1>11, <2>1, <2>2 DEF Words
  <2>4. new = <<w>> \o ws
    BY <1>7, <1>11, <2>1
  <2>5. new[1] = w /\ Tail(new) = ws
    BY <1>7, <2>3, <2>4
  <2> QED BY <2>3, <2>5
<1>16. CASE Damaged(ws, 8 * L)
  <2>1. StripHeader(new) = new
    BY <1>15, <1>16 DEF StripHeader
  <2> QED BY <1>6, <2>1
<1>17. CASE ~Damaged(ws, 8 * L)
  <2>1. 8 * Walk(ws, 8 * L)[L] = 8 * L
    BY <1>13, <1>17 DEF Damaged
  <2>2. Len(Kept(ws, 8 * L, {})) = Walk(ws, 8 * L)[L]
    BY <1>13, KeptAll
  <2>3. 8 * Len(Kept(ws, 8 * L, Correlations(ws, 8 * L))) = 8 * L
    BY <1>14, <2>1, <2>2
  <2>4. StripHeader(new) = new
    BY <1>15, <2>3 DEF StripHeader
  <2> QED BY <1>6, <2>4
<1> QED BY <1>16, <1>17

\* After k rounds that all moved the loop stands at k or later.
LEMMA WalkAdvances ==
  ASSUME NEW ws, NEW n, Value(ws, n), NEW K \in 0..(n \div 8), Fits(ws, n, Walk(ws, n)[K])
  PROVE  K <= Walk(ws, n)[K]
<1>1. PICK N \in Nat : N = n \div 8
  BY DEF Value
<1>2. PICK off : off = Walk(ws, n)
  OBVIOUS
<1>3. off \in [0..N -> 0..N] /\ off[0] = 0 /\ \A k \in 0..(N - 1) : off[k + 1] = After(ws, n, off[k])
  BY <1>1, <1>2, WalkForm
<1> DEFINE T == {k \in 0..K : k <= off[k]}
<1>4. 0 \in T
  BY <1>1, <1>3
<1>5. ASSUME NEW k \in 0..(K - 1), k \in T PROVE k + 1 \in T
  <2>1. k \in 0..N /\ k \in 0..K /\ k \in 0..(N - 1) /\ k + 1 \in 0..K /\ k + 1 \in 0..N
    BY <1>1
  <2>2. Fits(ws, n, off[k])
    BY <1>1, <1>2, <2>1, WalkMoves
  <2>3. off[k] \in 0..N /\ off[k + 1] = After(ws, n, off[k]) /\ off[k + 1] \in 0..N
    BY <1>1, <1>3, <2>1
  <2>4. After(ws, n, off[k]) > off[k]
    BY <1>1, <2>2, <2>3, RoundTyped
  <2> QED BY <1>5, <2>1, <2>3, <2>4
<1> HIDE DEF T
<1>6. K \in Nat /\ K \in 0..K
  BY <1>1
<1>7. \A k \in 0..K : k \in T
  BY <1>4, <1>5, <1>6, Induction
<1>8. K \in T
  BY <1>6, <1>7
<1> QED BY <1>2, <1>8 DEF T

\* Two values with the same first words are walked over alike for as long.
LEMMA WalkAgrees ==
  ASSUME NEW ws, NEW n, Value(ws, n), NEW us, NEW m, Value(us, m),
         NEW K \in 0..(n \div 8), Fits(ws, n, Walk(ws, n)[K]),
         8 * Walk(ws, n)[K] <= m,
         \A i \in 1..Walk(ws, n)[K] : us[i] = ws[i]
  PROVE  /\ K \in 0..(m \div 8)
         /\ \A j \in 0..K : Walk(us, m)[j] = Walk(ws, n)[j]
<1>1. PICK N \in Nat : N = n \div 8
  BY DEF Value
<1>2. PICK M \in Nat : M = m \div 8 /\ m \in Nat
  BY DEF Value
<1>3. PICK off : off = Walk(ws, n)
  OBVIOUS
<1>4. PICK at : at = off[K]
  OBVIOUS
<1>5. off \in [0..N -> 0..N] /\ off[0] = 0 /\ \A k \in 0..(N - 1) : off[k + 1] = After(ws, n, off[k])
  BY <1>1, <1>3, WalkForm
<1>6. at \in 0..N /\ 8 * at <= m /\ \A i \in 1..at : us[i] = ws[i]
  BY <1>1, <1>3, <1>4, <1>5
<1>7. K <= at
  BY <1>3, <1>4, WalkAdvances
<1>8. at <= M /\ K \in 0..M
  BY <1>1, <1>2, <1>6, <1>7
<1>9. PICK fo : fo = Walk(us, m)
  OBVIOUS
<1>10. fo \in [0..M -> 0..M] /\ fo[0] = 0 /\ \A k \in 0..(M - 1) : fo[k + 1] = After(us, m, fo[k])
  <2>1. Value(us, m)
    OBVIOUS
  <2>2. M = m \div 8
    BY <1>2
  <2> QED BY ONLY <1>9, <2>1, <2>2, WalkForm
<1> DEFINE T == {k \in 0..K : fo[k] = off[k]}
<1>11. 0 \in T
  BY <1>5, <1>8, <1>10
<1>12. ASSUME NEW k \in 0..(K - 1), k \in T PROVE k + 1 \in T
  <2>1. /\ k \in 0..N /\ k \in 0..K /\ k \in 0..(N - 1) /\ k \in 0..(M - 1) /\ k + 1 \in 0..K
        /\ k + 1 \in 0..N /\ K \in (k + 1)..N
    BY <1>1, <1>8
  <2>2. Fits(ws, n, off[k])
    BY <1>1, <1>3, <2>1, WalkMoves
  <2>3. PICK o \in 0..N : o = off[k]
    BY <1>5, <2>1
  <2>4. /\ o + 1 \in 1..Len(ws) /\ ElemWords(ws[o + 1]) \in Nat \ {0}
    BY <1>1, <2>2, <2>3, RoundTyped
  <2>5. off[k + 1] = o + ElemWords(ws[o + 1])
    BY <1>5, <2>1, <2>2, <2>3 DEF After
  <2>6. off[k + 1] <= at
    BY <1>1, <1>3, <1>4, <2>1, WalkRises
  <2>7. PICK e \in Nat \ {0} : e = ElemWords(ws[o + 1])
    BY <2>4
  <2>8. o + e <= at
    BY <2>5, <2>6, <2>7
  <2>9. o + 1 \in 1..at
    BY <1>6, <2>7, <2>8
  <2>10. ElemWords(us[o + 1]) = e
    BY <1>6, <2>7, <2>9
  <2>11. Fits(us, m, o)
    BY <1>2, <1>6, <2>8, <2>9, <2>10 DEF Fits
  <2>12. After(us, m, o) = o + e
    BY <2>10, <2>11 DEF After
  <2>13. fo[k] = o /\ fo[k + 1] = After(us, m, fo[k])
    BY <1>10, <1>12, <2>1, <2>3
  <2> QED BY <2>1, <2>5, <2>7, <2>12, <2>13
<1> HIDE DEF T
<1>13. K \in Nat /\ \A k \in 0..K : k \in T
  <2>1. K \in Nat
    BY <1>8
  <2> QED BY <2>1, <1>11, <1>12, Induction
<1>14. \A k \in 0..K : fo[k] = off[k]
  BY <1>13 DEF T
<1> QED BY <1>2, <1>3, <1>8, <1>9, <1>14

\* After the surgery the message has the same first ResponseHeader, at the same
\* place.
LEMMA SameHeader ==
  ASSUME NEW val, NEW n, Value(val, n), NEW at \in Headers(val, n),
         \A y \in Headers(val, n) : at <= y,
         NEW us, NEW m, Value(us, m), NEW new, IsElement(new), IsHeader(new[1]),
         8 * (at + Len(new)) <= m,
         \A i \in 1..at : us[i] = val[i],
         \A i \in 1..Len(new) : us[at + i] = new[i]
  PROVE  /\ at \in Headers(us, m) /\ \A y \in Headers(us, m) : at <= y
         /\ Element(us, at) = new
<1>1. PICK N \in Nat : N = n \div 8
  BY DEF Value
<1>2. PICK M \in Nat : M = m \div 8 /\ m \in Nat /\ us \in Seq(Words) /\ M <= Len(us) /\ Len(us) \in Nat
  BY DEF Value
<1>3. PICK K \in 0..N : at = Walk(val, n)[K] /\ Fits(val, n, at)
  BY <1>1 DEF Headers, Elements
<1>4. at \in 0..N
  BY <1>1, <1>3, WalkForm
<1>5. PICK l \in Nat \ {0} : l = Len(new) /\ new \in Seq(Words) /\ ElemWords(new[1]) = l
  BY DEF IsElement
<1>6. us[at + 1] = new[1] /\ ElemWords(us[at + 1]) = l
  BY <1>5
<1>7. 8 * (at + l) <= m
  BY <1>5
<1>8. Fits(us, m, at)
  BY <1>2, <1>4, <1>5, <1>6, <1>7 DEF Fits
<1>9. 8 * at <= m
  BY <1>2, <1>4, <1>7
<1>10. K \in 0..M /\ \A j \in 0..K : Walk(us, m)[j] = Walk(val, n)[j]
  <2>1. 8 * Walk(val, n)[K] <= m
    BY <1>3, <1>9
  <2>2. \A i \in 1..Walk(val, n)[K] : us[i] = val[i]
    BY <1>3
  <2> QED BY <1>1, <1>2, <1>3, <2>1, <2>2, WalkAgrees
<1>11. Walk(us, m)[K] = at
  <2>1. K \in 0..K
    BY <1>1
  <2> QED BY <1>3, <1>10, <2>1
<1>12. at \in Elements(us, m)
  BY <1>2, <1>8, <1>10, <1>11 DEF Elements
<1>13. at \in Headers(us, m)
  BY <1>6, <1>12 DEF Headers
<1>14. ASSUME NEW y \in Headers(us, m) PROVE at <= y
  <2>1. PICK k \in 0..M : y = Walk(us, m)[k] /\ Fits(us, m, y) /\ IsHeader(us[y + 1])
    BY <1>2 DEF Headers, Elements
  <2>2. y \in 0..M
    <3>1. k \in 0..(m \div 8) /\ Value(us, m)
      BY <1>2
    <3>2. Walk(us, m)[k] \in 0..(m \div 8)
      BY ONLY <3>1, WalkForm
    <3> QED BY <1>2, <2>1, <3>2
  <2> SUFFICES ASSUME y < at PROVE FALSE
    BY <1>4, <2>2
  <2>3. k < K
    <3> SUFFICES ASSUME K <= k PROVE FALSE
      BY <1>2, <2>1, <1>10
    <3>1. k \in K..M
      BY <1>2, <1>10
    <3>2. Walk(us, m)[K] <= Walk(us, m)[k]
      BY <1>2, <1>10, <3>1, WalkRises
    <3> QED BY <1>4, <1>11, <2>1, <2>2, <3>2
  <2>4. k \in 0..K /\ k \in 0..N
    BY <1>1, <1>10, <2>3
  <2>5. y = Walk(val, n)[k]
    BY <1>10, <2>1, <2>4
  <2>6. Fits(val, n, y)
    <3>1. Fits(val, n, Walk(val, n)[k])
      BY <1>1, <1>3, <2>4, WalkMoves
    <3> QED BY <2>5, <3>1
  <2>7. y + 1 \in 1..at
    BY <1>4, <2>2
  <2>8. IsHeader(val[y + 1])
    BY <2>1, <2>7
  <2>9. y \in Headers(val, n)
    BY <1>1, <2>4, <2>5, <2>6, <2>8 DEF Headers, Elements
  <2>10. at <= y
    BY <2>9
  <2> QED BY <1>4, <2>2, <2>10
<1>15. Element(us, at) = new
  <2>1. PICK s : s = SubSeq(us, at + 1, at + l)
    OBVIOUS
  <2>2. at + l <= Len(us)
    BY <1>2, <1>4, <1>7
  <2>3. s \in Seq(Words) /\ Len(s) = l /\ \A i \in 1..l : s[i] = us[at + i]
    BY <1>2, <1>4, <2>1, <2>2
  <2>4. \A i \in 1..l : s[i] = new[i]
    BY <1>5, <2>3
  <2>5. s = new
    BY <1>5, <2>3, <2>4
  <2> QED BY <1>6, <2>1, <2>5 DEF Element
<1> QED BY <1>13, <1>14, <1>15

\* What is sent is a buffer.
LEMMA StripTyped ==
  ASSUME NEW b \in Buffers PROVE StripCorrelation(b) \in Buffers
<1> SUFFICES ASSUME StripCorrelation(b) # b PROVE StripCorrelation(b) \in Buffers
  OBVIOUS
<1>1. PICK c : c = StripCorrelation(b)
  OBVIOUS
<1>2. PICK at, rh, new : Stripped(b, c, at, rh, new)
  BY <1>1, StrippedForm
<1>3. PICK ws \in Seq(Words) : ws = c.words
  BY <1>2 DEF Stripped
<1>4. c = [b EXCEPT !.words = ws]
  BY <1>1, <1>3, StripForm
<1> QED BY <1>1, <1>3, <1>4 DEF Buffers

\* A second pass finds nothing.
LEMMA StripTwice ==
  ASSUME NEW b \in Buffers
  PROVE  StripCorrelation(StripCorrelation(b)) = StripCorrelation(b)
<1> SUFFICES ASSUME StripCorrelation(b) # b,
                    StripCorrelation(StripCorrelation(b)) # StripCorrelation(b)
             PROVE  FALSE
  OBVIOUS
<1>1. PICK c \in Buffers : c = StripCorrelation(b)
  BY StripTyped
<1>2. PICK at, rh, new : Stripped(b, c, at, rh, new)
  BY <1>1, StrippedForm
<1>3. PICK d : d = StripCorrelation(c)
  OBVIOUS
<1>4. StripCorrelation(c) # c
  BY <1>1
<1>5. PICK at2, rh2, new2 : Stripped(c, d, at2, rh2, new2)
  BY <1>3, <1>4, StrippedForm
<1>6. PICK val, n, us, m : val = Tail(b.words) /\ n = b.words[1].len /\ us = Tail(c.words) /\ m = c.words[1].len
  OBVIOUS
<1>7. Value(val, n) /\ Value(us, m)
  <2>1. ~Unreadable(b) /\ ~Unreadable(c)
    BY <1>4, StripForm
  <2> QED BY <1>6, <2>1, MessageValue
<1>8. /\ at \in Headers(val, n) /\ \A y \in Headers(val, n) : at <= y
      /\ at \in Nat /\ Fits(val, n, at) /\ rh = Element(val, at) /\ IsElement(rh)
      /\ rh[1] = val[at + 1] /\ new = StripHeader(rh) /\ new # rh /\ 8 * (at + Len(rh)) <= n
      /\ m = n - 8 * (Len(rh) - Len(new)) /\ us = Replaced(val, at, new)
  BY <1>2, <1>6 DEF Stripped
<1>9. IsElement(new) /\ new[1].tag = rh[1].tag /\ new[1].struct = rh[1].struct
  BY <1>8, StripHeaderForm
<1>10. IsHeader(new[1])
  <2>1. IsHeader(rh[1])
    BY <1>8 DEF Headers
  <2> QED BY <1>9, <2>1 DEF IsHeader
<1>11. PICK l \in Nat, k \in Nat : l = Len(rh) /\ k = Len(new)
  BY <1>8, <1>9 DEF IsElement
<1>12. 8 * (at + Len(new)) <= m
  <2>1. n \in Nat
    BY <1>7 DEF Value
  <2>2. 8 * (at + l) <= n /\ m = n - 8 * (l - k)
    BY <1>8, <1>11
  <2>3. 8 * (at + k) <= m
    BY <1>8, <2>1, <2>2
  <2> QED BY <1>11, <2>3
<1>13. (\A i \in 1..at : us[i] = val[i]) /\ \A i \in 1..Len(new) : us[at + i] = new[i]
  <2>1. Len(rh) = ElemWords(val[at + 1]) /\ at + l <= Len(val) /\ val \in Seq(Words)
    <3>1. n \in Nat /\ n \div 8 <= Len(val) /\ val \in Seq(Words) /\ Len(val) \in Nat
      BY <1>7 DEF Value
    <3>2. 8 * (at + l) <= n
      BY <1>8, <1>11
    <3>3. at + l <= Len(val)
      BY <1>8, <3>1, <3>2
    <3>4. Len(rh) = ElemWords(rh[1])
      BY <1>8 DEF IsElement
    <3> QED BY <1>8, <3>1, <3>3, <3>4
  <2>2. ElemWords(val[at + 1]) \in Nat /\ at + ElemWords(val[at + 1]) <= Len(val)
    BY <1>11, <2>1
  <2>3. new \in Seq(Words)
    BY <1>9 DEF IsElement
  <2>4. at \in Nat /\ val \in Seq(Words)
    BY <1>8, <2>1
  <2>5. PICK x : x = Replaced(val, at, new)
    OBVIOUS
  <2>6. /\ \A i \in 1..at : x[i] = val[i]
        /\ \A i \in 1..Len(new) : x[at + i] = new[i]
    <3>1. PICK ws \in Seq(Words), o \in Nat, u \in Seq(Words) : ws = val /\ o = at /\ u = new
      BY <2>3, <2>4
    <3>2. ElemWords(ws[o + 1]) \in Nat /\ o + ElemWords(ws[o + 1]) <= Len(ws)
      BY <2>2, <3>1
    <3>3. /\ \A i \in 1..o : Replaced(ws, o, u)[i] = ws[i]
          /\ \A i \in 1..Len(u) : Replaced(ws, o, u)[o + i] = u[i]
      BY <3>2, ReplacedForm
    <3> QED BY <2>5, <3>1, <3>3
  <2>7. us = x
    BY <1>8, <2>5
  <2> QED BY <2>6, <2>7
<1>14. /\ at \in Headers(us, m) /\ \A y \in Headers(us, m) : at <= y
       /\ Element(us, at) = new
  BY <1>7, <1>8, <1>9, <1>10, <1>12, <1>13, SameHeader
<1>15. /\ at2 \in Headers(us, m) /\ \A y \in Headers(us, m) : at2 <= y
       /\ at2 \in Nat /\ rh2 = Element(us, at2) /\ new2 = StripHeader(rh2) /\ new2 # rh2
  BY <1>5, <1>6 DEF Stripped
<1>16. at2 = at
  BY <1>8, <1>14, <1>15
<1>17. StripHeader(new) # new
  BY <1>14, <1>15, <1>16
<1>18. StripHeader(new) = new
  BY <1>8, HeaderStays
<1> QED BY <1>17, <1>18

-----------------------------------------------------------------------------
(***************************************************************************)
(* Encodings taken apart and put together again.                           *)
(***************************************************************************)
\* Flattening goes on where it was.
LEMMA FlatAppend ==
  ASSUME NEW S, NEW es \in Seq(Seq(S)), NEW e \in Seq(S)
  PROVE  FlattenSeq(es \o <<e>>) = FlattenSeq(es) \o e
<1>1. PICK fs : fs = es \o <<e>>
  OBVIOUS
<1>2. PICK M \in Nat : M = Len(es)
  OBVIOUS
<1>3. /\ fs \in Seq(Seq(S)) /\ Len(fs) = M + 1 /\ fs[M + 1] = e
      /\ \A i \in 1..M : fs[i] = es[i]
  BY <1>1, <1>2
<1>4. PICK q : Builds(q, fs, S) /\ FlattenSeq(fs) = q[M + 1]
  BY <1>3, FlatForm
<1>5. PICK p : p = [i \in 0..M |-> q[i]]
  OBVIOUS
<1>6. q \in [0..(M + 1) -> Seq(S)] /\ q[0] = <<>>
  BY <1>3, <1>4 DEF Builds
<1>7. \A i \in 1..(M + 1) : q[i] = q[i - 1] \o fs[i]
  BY <1>3, <1>4 DEF Builds
<1>8. Builds(p, es, S)
  <2>1. p \in [0..M -> Seq(S)] /\ p[0] = <<>>
    BY <1>5, <1>6
  <2>2. ASSUME NEW i \in 1..M PROVE p[i] = p[i - 1] \o es[i]
    <3>1. i \in 0..M /\ i - 1 \in 0..M /\ i \in 1..(M + 1)
      OBVIOUS
    <3>2. p[i] = q[i] /\ p[i - 1] = q[i - 1]
      BY <1>5, <3>1
    <3>3. q[i] = q[i - 1] \o fs[i] /\ fs[i] = es[i]
      BY <1>3, <1>7, <3>1
    <3> QED BY <3>2, <3>3
  <2> QED BY <1>2, <2>1, <2>2 DEF Builds
<1>9. FlattenSeq(es) = p[M]
  BY <1>2, <1>8, FlatUnique
<1>10. p[M] = q[M]
  BY <1>5
<1>11. q[M + 1] = q[M] \o e
  <2>1. M + 1 \in 1..(M + 1) /\ (M + 1) - 1 = M
    OBVIOUS
  <2> QED BY <1>3, <1>7, <2>1
<1> QED BY <1>1, <1>4, <1>9, <1>10, <1>11

\* One more part, one more encoding.
LEMMA PartCodesAppend ==
  ASSUME NEW ts \in Seq(Parts), NEW t \in Parts
  PROVE  FlattenSeq(PartCodes(ts \o <<t>>)) = FlattenSeq(PartCodes(ts)) \o EncodePart(t)
<1>1. PICK us : us = ts \o <<t>>
  OBVIOUS
<1>2. PICK M \in Nat : M = Len(ts)
  OBVIOUS
<1>3. /\ us \in Seq(Parts) /\ Len(us) = M + 1 /\ us[M + 1] = t
      /\ \A i \in 1..M : us[i] = ts[i]
  BY <1>1, <1>2
<1>4. PICK es \in Seq(Seq(Words)) : es = PartCodes(ts) /\ Len(es) = M
  BY <1>2, PartCodesTyped
<1>5. PICK e \in Seq(Words) : e = EncodePart(t)
  BY EncodePartForm DEF IsElement
<1>6. PICK fs \in Seq(Seq(Words)) : fs = PartCodes(us) /\ Len(fs) = M + 1
  BY <1>3, PartCodesTyped
<1>7. /\ \A i \in 1..M : es[i] = EncodePart(ts[i])
      /\ \A i \in 1..(M + 1) : fs[i] = EncodePart(us[i])
  BY <1>2, <1>3, <1>4, <1>6 DEF PartCodes
<1>8. PICK gs : gs = es \o <<e>>
  OBVIOUS
<1>9. /\ gs \in Seq(Seq(Words)) /\ Len(gs) = M + 1 /\ gs[M + 1] = e
      /\ \A i \in 1..M : gs[i] = es[i]
  BY <1>4, <1>8
<1>10. fs = gs
  <2>1. ASSUME NEW i \in 1..(M + 1) PROVE fs[i] = gs[i]
    <3>1. CASE i = M + 1
      BY <1>3, <1>5, <1>7, <1>9, <3>1
    <3>2. CASE i # M + 1
      <4>1. i \in 1..M
        BY <3>2
      <4> QED BY <1>3, <1>7, <1>9, <4>1
    <3> QED BY <3>1, <3>2
  <2> QED BY <1>6, <1>9, <2>1
<1>11. FlattenSeq(gs) = FlattenSeq(es) \o e
  BY <1>8, FlatAppend
<1> QED BY <1>1, <1>4, <1>5, <1>6, <1>10, <1>11

\* One of the sequences replaced.
Differ(es, fs, h, S) ==
  /\ es \in Seq(Seq(S)) /\ fs \in Seq(Seq(S)) /\ Len(fs) = Len(es) /\ h \in 1..Len(es)
  /\ \A i \in 1..Len(es) : i # h => fs[i] = es[i]

\* w is a, e and a rest, and v is a, x and the same rest.
SameRest(w, v, a, e, x, S) == \E z \in Seq(S) : w = (a \o e) \o z /\ v = (a \o x) \o z

\* One of the sequences replaced: what is around it stays.
LEMMA FlatReplace ==
  ASSUME NEW S, NEW es, NEW fs, NEW h, Differ(es, fs, h, S), NEW p, Builds(p, es, S)
  PROVE  SameRest(p[Len(es)], FlattenSeq(fs), p[h - 1], es[h], fs[h], S)
<1>1. es \in Seq(Seq(S)) /\ h \in 1..Len(es)
  BY DEF Differ
<1>2. PICK M \in Nat : M = Len(es)
  BY <1>1
<1>3. fs \in Seq(Seq(S)) /\ fs[h] \in Seq(S)
  BY DEF Differ
<1>4. PICK x \in Seq(S) : x = fs[h]
  BY <1>3
<1>5. /\ fs \in Seq(Seq(S)) /\ Len(fs) = M /\ fs[h] = x
      /\ \A i \in 1..M : i # h => fs[i] = es[i]
  BY <1>2, <1>4 DEF Differ
<1>6. PICK q : Builds(q, fs, S) /\ FlattenSeq(fs) = q[M]
  BY <1>5, FlatForm
<1>7. /\ p[0] = <<>> /\ \A i \in 1..M : p[i] = p[i - 1] \o es[i]
      /\ q[0] = <<>> /\ \A i \in 1..M : q[i] = q[i - 1] \o fs[i]
  BY <1>2, <1>5, <1>6 DEF Builds
<1>8. \A i \in 0..M : p[i] \in Seq(S) /\ q[i] \in Seq(S)
  BY <1>1, <1>2, <1>5, <1>6, BuiltTyped
<1>9. h \in 1..M /\ h - 1 \in Nat /\ h - 1 \in 0..M /\ M - h \in Nat
  BY <1>1, <1>2
<1>10. p[h - 1] = q[h - 1]
  <2> DEFINE T == {i \in 0..(h - 1) : p[i] = q[i]}
  <2>1. 0 \in T
    BY <1>7, <1>9
  <2>2. ASSUME NEW i \in 0..((h - 1) - 1), i \in T PROVE i + 1 \in T
    <3>1. i + 1 \in 1..M /\ (i + 1) - 1 = i /\ i + 1 # h /\ i + 1 \in 0..(h - 1)
      BY <1>9
    <3>2. p[i + 1] = p[i] \o es[i + 1] /\ q[i + 1] = q[i] \o es[i + 1]
      BY <1>5, <1>7, <3>1
    <3> QED BY <2>2, <3>1, <3>2
  <2> HIDE DEF T
  <2>3. PICK n \in Nat : n = h - 1
    BY <1>9
  <2>4. \A i \in 0..n : i \in T
    BY <2>1, <2>2, <2>3, Induction
  <2>5. h - 1 \in T
    BY <2>3, <2>4
  <2> QED BY <2>5 DEF T
<1>11. PICK a \in Seq(S), e \in Seq(S) : a = p[h - 1] /\ e = es[h]
  <2>1. es[h] \in Seq(S)
    BY <1>1
  <2> QED BY <1>8, <1>9, <2>1
<1>12. p[h] = a \o e /\ q[h] = a \o x
  BY <1>5, <1>7, <1>9, <1>10, <1>11
<1> DEFINE Both(k) == \E z \in Seq(S) : p[k] = (a \o e) \o z /\ q[k] = (a \o x) \o z
           T == {d \in 0..(M - h) : Both(h + d)}
<1>13. 0 \in T
  <2>1. <<>> \in Seq(S) /\ (a \o e) \o <<>> = a \o e /\ (a \o x) \o <<>> = a \o x
    OBVIOUS
  <2>2. Both(h)
    BY <1>12, <2>1
  <2>3. h + 0 = h /\ 0 \in 0..(M - h)
    BY <1>9
  <2> HIDE DEF Both
  <2> QED BY <2>2, <2>3
<1>14. ASSUME NEW d \in 0..((M - h) - 1), d \in T PROVE d + 1 \in T
  <2>1. PICK k \in 1..M : k = h + (d + 1) /\ k - 1 = h + d /\ k # h
    BY <1>9
  <2>2. PICK z \in Seq(S) : p[k - 1] = (a \o e) \o z /\ q[k - 1] = (a \o x) \o z
    BY <1>14, <2>1
  <2>3. PICK f \in Seq(S) : f = es[k]
    BY <1>1, <1>2
  <2>4. p[k] = p[k - 1] \o f /\ q[k] = q[k - 1] \o f
    BY <1>5, <1>7, <2>1, <2>3
  <2>5. \A u \in Seq(S) : (u \o z) \o f = u \o (z \o f)
    OBVIOUS
  <2>6. a \o e \in Seq(S) /\ a \o x \in Seq(S) /\ z \o f \in Seq(S)
    OBVIOUS
  <2>7. p[k] = (a \o e) \o (z \o f) /\ q[k] = (a \o x) \o (z \o f)
    BY <2>2, <2>4, <2>5, <2>6
  <2>8. Both(k)
    BY <2>6, <2>7
  <2>9. d + 1 \in 0..(M - h)
    BY <1>9
  <2> HIDE DEF Both
  <2> QED BY <2>1, <2>8, <2>9
<1> HIDE DEF T, Both
<1>15. M - h \in T
  <2>1. PICK n \in Nat : n = M - h
    BY <1>9
  <2>2. \A d \in 0..n : d \in T
    BY <1>13, <1>14, <2>1, Induction
  <2> QED BY <2>1, <2>2
<1>16. h + (M - h) = M
  BY <1>9
<1>17. Both(M)
  BY <1>15, <1>16 DEF T
<1> QED BY <1>2, <1>6, <1>11, <1>17, <1>4 DEF Both, SameRest

\* Over elements none of which is missing, the loop passes one a round and comes
\* to the end.
Full(es, p, ws) == Tiled(es, p, ws) /\ \A k \in 1..Len(es) : es[k] # <<>>

\* Over elements that fill a value, the loop goes from one to the next, to its end.
LEMMA FullWalk ==
  ASSUME NEW es, NEW p, NEW ws, Full(es, p, ws)
  PROVE  /\ Len(es) <= Len(ws)
         /\ \A k \in 0..Len(es) : Walk(ws, 8 * Len(ws))[k] = Len(p[k])
         /\ \A k \in Len(es)..Len(ws) : Walk(ws, 8 * Len(ws))[k] = Len(ws)
<1>1. /\ Tiled(es, p, ws) /\ Builds(p, es, Words) /\ ws = p[Len(es)]
      /\ \A k \in 1..Len(es) : es[k] # <<>>
  BY DEF Full, Tiled
<1>2. PICK M \in Nat : M = Len(es)
  BY <1>1, TiledTyped
<1>3. PICK L \in Nat : L = Len(ws)
  BY <1>1, TiledTyped
<1>4. \A i \in 0..M : Len(p[i]) \in Nat /\ Len(p[i]) <= L
  BY <1>1, <1>2, <1>3, TiledTyped
<1>5. Value(ws, 8 * L) /\ (8 * L) \div 8 = L
  BY <1>1, <1>3, TiledTyped
<1>6. PICK off : off = Walk(ws, 8 * L)
  OBVIOUS
<1>7. off \in [0..L -> 0..L] /\ off[0] = 0 /\ \A k \in 0..(L - 1) : off[k + 1] = After(ws, 8 * L, off[k])
  BY <1>6, <1>5, WalkForm, SMTT(30)
<1> DEFINE T == {k \in 0..M : k <= Len(p[k]) /\ off[k] = Len(p[k])}
<1>8. 0 \in T
  <2>1. p[0] = <<>>
    BY <1>1 DEF Builds
  <2> QED BY <1>7, <2>1
<1>9. ASSUME NEW k \in 0..(M - 1), k \in T PROVE k + 1 \in T
  <2>1. PICK i \in 1..M : i = k + 1 /\ i - 1 = k
    BY <1>2
  <2>2. PICK o \in Nat : o = Len(p[i - 1]) /\ o = off[k] /\ k <= o
    BY <1>4, <1>9, <2>1
  <2>3. LET x == Len(p[i - 1])
        IN  /\ Fits(ws, 8 * Len(ws), x) /\ x + ElemWords(ws[x + 1]) = Len(p[i]) /\ x < Len(p[i])
    <3>1. i \in 1..Len(es) /\ es[i] # <<>>
      BY <1>1, <1>2
    <3>2. Tiled(es, p, ws)
      BY <1>1
    <3> QED BY ONLY <3>1, <3>2, TileAt
  <2>4. Fits(ws, 8 * L, o) /\ o + ElemWords(ws[o + 1]) = Len(p[i]) /\ o < Len(p[i])
    BY <1>3, <2>2, <2>3
  <2>5. Len(p[i]) \in Nat /\ Len(p[i]) <= L
    BY <1>4
  <2>6. k \in 0..(L - 1)
    BY <2>2, <2>4, <2>5
  <2>7. off[k + 1] = Len(p[i])
    BY <1>7, <2>2, <2>4, <2>6 DEF After
  <2>8. i <= Len(p[i]) /\ i \in 0..M
    BY <2>1, <2>2, <2>4, <2>5
  <2> QED BY <2>1, <2>7, <2>8
<1> HIDE DEF T
<1>10. \A k \in 0..M : k \in T
  BY <1>8, <1>9, Induction
<1>11. \A k \in 0..M : k <= Len(p[k]) /\ off[k] = Len(p[k])
  BY <1>10 DEF T
<1>12. M <= L /\ off[M] = L
  BY <1>1, <1>2, <1>3, <1>4, <1>11
<1>13. ASSUME NEW k \in M..L PROVE off[k] = L
  <2>1. M \in 0..L /\ k \in 0..L
    BY <1>12
  <2>2. off[M] <= off[k]
    BY <1>6, <1>5, <2>1, WalkRises
  <2>3. off[k] \in 0..L
    BY <1>7, <2>1
  <2> QED BY <1>12, <2>2, <2>3
<1> QED BY <1>2, <1>3, <1>6, <1>11, <1>12, <1>13

\* The encodings of parts.
LEMMA PartCodesFull ==
  ASSUME NEW ts \in Seq(Parts), NEW p, Builds(p, PartCodes(ts), Words)
  PROVE  /\ Full(PartCodes(ts), p, FlattenSeq(PartCodes(ts)))
         /\ \A k \in 1..Len(ts) : PartCodes(ts)[k] = EncodePart(ts[k])
<1>1. PICK es \in Seq(Seq(Words)) : es = PartCodes(ts) /\ Len(es) = Len(ts)
  BY PartCodesTyped
<1>2. \A k \in 1..Len(ts) : es[k] = EncodePart(ts[k])
  BY <1>1 DEF PartCodes
<1>3. \A k \in 1..Len(ts) : IsElement(es[k])
  <2> SUFFICES ASSUME NEW k \in 1..Len(ts) PROVE IsElement(es[k])
    OBVIOUS
  <2>1. ts[k] \in Parts
    OBVIOUS
  <2> QED BY <1>2, <2>1, EncodePartForm
<1>4. \A k \in 1..Len(es) : es[k] # <<>>
  BY <1>1, <1>3 DEF IsElement
<1>5. Tiling(es)
  BY <1>1, <1>3 DEF Tiling
<1>6. FlattenSeq(es) = p[Len(es)]
  BY <1>1, FlatUnique
<1> QED BY <1>1, <1>2, <1>4, <1>5, <1>6 DEF Full, Tiled

\* Others, one child after the other.
LEMMA OthersForm ==
  ASSUME NEW ts \in Seq(Parts)
  PROVE  \E t \in [0..Len(ts) -> Seq(Parts)] :
           /\ t[0] = <<>> /\ t[Len(ts)] = Others(ts)
           /\ \A k \in 1..Len(ts) :
                t[k] = IF ts[k].tag \in CorrelationTags THEN t[k - 1] ELSE t[k - 1] \o <<ts[k]>>
<1>1. PICK M \in Nat : M = Len(ts)
  OBVIOUS
<1>2. PICK fs : fs = [i \in 1..M |-> IF ts[i].tag \in CorrelationTags THEN <<>> ELSE <<ts[i]>>]
  OBVIOUS
<1>3. \A i \in 1..M : ts[i] \in Parts
  BY <1>1
<1>4. fs \in [1..M -> Seq(Parts)]
  <2>1. \A i \in 1..M : (IF ts[i].tag \in CorrelationTags THEN <<>> ELSE <<ts[i]>>) \in Seq(Parts)
    <3>1. ASSUME NEW x \in Parts PROVE <<x>> \in Seq(Parts)
      OBVIOUS
    <3>2. <<>> \in Seq(Parts)
      OBVIOUS
    <3> QED BY <1>3, <3>1, <3>2
  <2> QED BY <1>2, <2>1
<1>5. fs \in Seq(Seq(Parts)) /\ Len(fs) = M
  BY <1>4
<1>6. Others(ts) = FlattenSeq(fs)
  BY <1>1, <1>2 DEF Others
<1>7. PICK t : Builds(t, fs, Parts) /\ FlattenSeq(fs) = t[M]
  BY <1>5, FlatForm
<1>8. t \in [0..M -> Seq(Parts)] /\ t[0] = <<>>
  BY <1>5, <1>7 DEF Builds
<1>9. ASSUME NEW k \in 1..M
      PROVE  t[k] = IF ts[k].tag \in CorrelationTags THEN t[k - 1] ELSE t[k - 1] \o <<ts[k]>>
  <2>1. t[k] = t[k - 1] \o fs[k]
    BY <1>5, <1>7 DEF Builds
  <2>2. t[k - 1] \in Seq(Parts)
    BY <1>8
  <2>3. t[k - 1] \o <<>> = t[k - 1]
    BY <2>2
  <2>4. fs[k] = IF ts[k].tag \in CorrelationTags THEN <<>> ELSE <<ts[k]>>
    BY <1>2
  <2> QED BY <2>1, <2>3, <2>4
<1> QED BY <1>1, <1>6, <1>7, <1>8, <1>9

\* What is kept of the encodings of parts is those of the others.
LEMMA KeptExact ==
  ASSUME NEW ts \in Seq(Parts)
  PROVE  LET ws   == FlattenSeq(PartCodes(ts))
             n    == 8 * Len(ws)
             kept == Kept(ws, n, Correlations(ws, n))
         IN  /\ ~Damaged(ws, n) /\ Others(ts) \in Seq(Parts)
             /\ kept = FlattenSeq(PartCodes(Others(ts)))
             /\ kept = ws \/ 8 * Len(kept) # n
<1>1. PICK ws : ws = FlattenSeq(PartCodes(ts))
  OBVIOUS
<1>2. PICK es \in Seq(Seq(Words)), M \in Nat : es = PartCodes(ts) /\ Len(es) = M /\ M = Len(ts)
  BY PartCodesTyped
<1>3. PICK p : Builds(p, es, Words) /\ ws = p[M]
  BY <1>1, <1>2, FlatForm
<1>4. Full(es, p, ws) /\ \A k \in 1..M : es[k] = EncodePart(ts[k])
  BY <1>1, <1>2, <1>3, PartCodesFull
<1>5. Tiled(es, p, ws) /\ \A k \in 1..M : es[k] # <<>>
  BY <1>2, <1>4 DEF Full
<1>6. PICK L \in Nat : L = Len(ws)
  BY <1>5, TiledTyped
<1>7. Value(ws, 8 * L) /\ (8 * L) \div 8 = L
  BY <1>5, <1>6, TiledTyped
<1>8. PICK off : off = Walk(ws, 8 * L)
  OBVIOUS
<1>9. /\ M <= L /\ \A k \in 0..M : off[k] = Len(p[k])
      /\ \A k \in M..L : off[k] = L
  BY <1>2, <1>4, <1>6, <1>8, FullWalk
<1>10. PICK D : D = Correlations(ws, 8 * L)
  OBVIOUS
<1>11. PICK rs \in Seq(Seq(Words)) :
         /\ rs = Rounds(ws, 8 * L, D) /\ Len(rs) = L
         /\ Kept(ws, 8 * L, D) = FlattenSeq(rs)
  BY <1>7, RoundsTyped
<1>12. PICK r : Builds(r, rs, Words) /\ FlattenSeq(rs) = r[L]
  BY <1>11, FlatForm
<1>13. \A k \in 1..L : rs[k] = IF Fits(ws, 8 * L, off[k - 1]) /\ off[k - 1] \notin D
                               THEN Element(ws, off[k - 1]) ELSE <<>>
  BY <1>7, <1>8, <1>11 DEF Rounds
<1>14. /\ r[0] = <<>> /\ \A k \in 1..L : r[k] = r[k - 1] \o rs[k]
       /\ p[0] = <<>> /\ \A k \in 1..M : p[k] = p[k - 1] \o es[k]
  BY <1>2, <1>3, <1>11, <1>12 DEF Builds
<1>15. (\A k \in 0..L : r[k] \in Seq(Words)) /\ \A k \in 0..M : p[k] \in Seq(Words)
  BY <1>2, <1>3, <1>11, <1>12, BuiltTyped
<1>16. PICK t \in [0..M -> Seq(Parts)] :
         /\ t[0] = <<>> /\ t[M] = Others(ts)
         /\ \A k \in 1..M : t[k] = IF ts[k].tag \in CorrelationTags THEN t[k - 1]
                                   ELSE t[k - 1] \o <<ts[k]>>
  BY <1>2, OthersForm
<1>17. ASSUME NEW k \in 1..M
       PROVE  rs[k] = IF ts[k].tag \in CorrelationTags THEN <<>> ELSE EncodePart(ts[k])
  <2>1. es[k] # <<>> /\ k \in 1..Len(es) /\ k - 1 \in 0..M /\ k \in 1..L /\ k - 1 \in 0..L
    BY <1>2, <1>5, <1>9
  <2>2. LET o == Len(p[k - 1])
        IN  /\ Fits(ws, 8 * Len(ws), o) /\ Element(ws, o) = es[k] /\ ws[o + 1] = es[k][1]
    <3>1. Tiled(es, p, ws) /\ es[k] # <<>> /\ k \in 1..Len(es)
      BY <1>5, <2>1
    <3> QED BY ONLY <3>1, TileAt
  <2>3. PICK o : o = off[k - 1] /\ o = Len(p[k - 1])
    BY <1>9, <2>1
  <2>4. Fits(ws, 8 * L, o) /\ Element(ws, o) = es[k] /\ ws[o + 1] = es[k][1]
    BY <1>6, <2>2, <2>3
  <2>5. ts[k] \in Parts
    BY <1>2
  <2>6. es[k] = EncodePart(ts[k]) /\ ws[o + 1].tag = ts[k].tag
    BY <1>4, <2>4, <2>5, EncodePartForm
  <2>7. o \in Elements(ws, 8 * L)
    BY <1>7, <1>8, <2>1, <2>3, <2>4 DEF Elements
  <2>8. o \in D <=> ts[k].tag \in CorrelationTags
    BY <1>10, <2>6, <2>7 DEF Correlations
  <2>9. rs[k] = IF Fits(ws, 8 * L, o) /\ o \notin D THEN Element(ws, o) ELSE <<>>
    BY <1>13, <2>1, <2>3
  <2> QED BY <2>4, <2>6, <2>8, <2>9
<1> DEFINE Same(k) == /\ r[k] = FlattenSeq(PartCodes(t[k]))
                      /\ r[k] = p[k] \/ Len(r[k]) < Len(p[k])
           T == {k \in 0..M : Same(k)}
<1>18. 0 \in T
  <2>1. PartCodes(<<>>) = <<>>
    BY DEF PartCodes
  <2>2. FlattenSeq(<<>>) = <<>>
    BY DEF FlattenSeq
  <2>3. Same(0)
    BY <1>14, <1>16, <2>1, <2>2
  <2> HIDE DEF Same
  <2> QED BY <2>3
<1>19. ASSUME NEW k \in 0..(M - 1), k \in T PROVE k + 1 \in T
  <2>1. PICK i \in 1..M : i = k + 1 /\ i - 1 = k /\ i \in 1..L /\ i - 1 \in 0..M /\ i - 1 \in 0..L
    BY <1>9
  <2>2. Same(i - 1)
    BY <1>19, <2>1
  <2>3. ts[i] \in Parts /\ t[i - 1] \in Seq(Parts)
    <3>1. ts[i] \in Parts
      BY <1>2, <2>1
    <3>2. t[i - 1] \in Seq(Parts)
      BY <1>16, <2>1
    <3> QED BY <3>1, <3>2
  <2>4. PICK e \in Seq(Words) : e = EncodePart(ts[i]) /\ Len(e) \in Nat \ {0}
    <3>1. PICK e : e = EncodePart(ts[i])
      OBVIOUS
    <3>2. e \in Seq(Words) /\ e # <<>>
      BY <2>3, <3>1, EncodePartForm DEF IsElement
    <3>3. Len(e) \in Nat \ {0}
      BY <3>2
    <3> QED BY <3>1, <3>2, <3>3
  <2>5. PICK a \in Seq(Words), c \in Seq(Words) : a = r[i - 1] /\ c = p[i - 1]
    BY <1>15, <2>1
  <2>6. r[i] = a \o rs[i] /\ p[i] = c \o e
    BY <1>4, <1>14, <2>1, <2>4, <2>5
  <2>7. Len(c \o e) = Len(c) + Len(e) /\ Len(a \o e) = Len(a) + Len(e) /\ a \o <<>> = a
    BY Joined
  <2>8. Len(a) \in Nat /\ Len(c) \in Nat
    OBVIOUS
  <2>9. a = FlattenSeq(PartCodes(t[i - 1])) /\ (a = c \/ Len(a) < Len(c))
    BY <2>2, <2>5
  <2>10. CASE ts[i].tag \in CorrelationTags
    <3>1. r[i] = a /\ t[i] = t[i - 1]
      BY <1>16, <1>17, <2>1, <2>6, <2>7, <2>10
    <3>2. Len(a) < Len(c \o e)
      BY <2>4, <2>7, <2>8, <2>9
    <3>3. Same(i)
      BY <2>6, <2>9, <3>1, <3>2
    <3> HIDE DEF Same
    <3> QED BY <2>1, <3>3
  <2>11. CASE ts[i].tag \notin CorrelationTags
    <3>1. r[i] = a \o e /\ t[i] = t[i - 1] \o <<ts[i]>>
      BY <1>16, <1>17, <2>1, <2>4, <2>6, <2>11
    <3>2. FlattenSeq(PartCodes(t[i])) = FlattenSeq(PartCodes(t[i - 1])) \o e
      BY <2>3, <2>4, <3>1, PartCodesAppend
    <3>3. a \o e = c \o e \/ Len(a \o e) < Len(c \o e)
      <4>1. CASE a = c
        BY <4>1
      <4>2. CASE Len(a) < Len(c)
        BY <2>4, <2>7, <2>8, <4>2
      <4> QED BY <2>9, <4>1, <4>2
    <3>4. Same(i)
      BY <2>6, <2>9, <3>1, <3>2, <3>3
    <3> HIDE DEF Same
    <3> QED BY <2>1, <3>4
  <2> QED BY <2>10, <2>11
<1> HIDE DEF T, Same
<1>20. \A k \in 0..M : k \in T
  BY <1>18, <1>19, Induction
<1>21. Same(M)
  <2>1. M \in T
    BY <1>20
  <2> QED BY <2>1 DEF T
<1> DEFINE U == {d \in 0..(L - M) : r[M + d] = r[M]}
<1>22. L - M \in Nat
  BY <1>9
<1>23. 0 \in U
  BY <1>22
<1>24. ASSUME NEW d \in 0..((L - M) - 1), d \in U PROVE d + 1 \in U
  <2>1. PICK i \in 1..L : i = M + (d + 1) /\ i - 1 = M + d /\ i - 1 \in M..L /\ i - 1 \in 0..L
    BY <1>22
  <2>2. off[i - 1] = L
    BY <1>9, <2>1
  <2>3. ~Fits(ws, 8 * L, L)
    BY DEF Fits
  <2>4. rs[i] = <<>>
    BY <1>13, <2>2, <2>3
  <2>5. r[i] = r[i - 1] \o <<>> /\ r[i - 1] \in Seq(Words)
    BY <1>14, <1>15, <2>1, <2>4
  <2>6. r[i] = r[i - 1]
    BY <2>5
  <2>7. r[M + d] = r[M] /\ d + 1 \in 0..(L - M)
    BY <1>22, <1>24
  <2> QED BY <2>1, <2>6, <2>7
<1> HIDE DEF U
<1>25. L - M \in U
  <2>1. PICK n \in Nat : n = L - M
    BY <1>22
  <2>2. \A d \in 0..n : d \in U
    BY <1>23, <1>24, <2>1, Induction
  <2> QED BY <2>1, <2>2
<1>26. r[L] = r[M]
  <2>1. M + (L - M) = L
    BY <1>22
  <2> QED BY <1>25, <2>1 DEF U
<1>27. PICK kept : kept = Kept(ws, 8 * L, D)
  OBVIOUS
<1>28. /\ kept = FlattenSeq(PartCodes(Others(ts))) /\ kept \in Seq(Words)
       /\ kept = ws \/ Len(kept) < L
  <2>1. kept = r[M] /\ r[M] \in Seq(Words)
    <3>1. L \in 0..L
      OBVIOUS
    <3> QED BY <1>11, <1>12, <1>15, <1>26, <1>27, <3>1
  <2>2. r[M] = FlattenSeq(PartCodes(t[M])) /\ (r[M] = p[M] \/ Len(r[M]) < Len(p[M]))
    BY <1>21 DEF Same
  <2> QED BY <1>3, <1>6, <1>16, <2>1, <2>2
<1>29. kept = ws \/ 8 * Len(kept) # 8 * L
  <2>1. Len(kept) \in Nat
    BY <1>28
  <2> QED BY <1>28, <2>1
<1>30. ~Damaged(ws, 8 * L)
  <2>1. off[L] = L
    BY <1>9
  <2> QED BY <1>7, <1>8, <2>1 DEF Damaged
<1>31. Others(ts) \in Seq(Parts)
  BY <1>16
<1> QED BY <1>1, <1>6, <1>10, <1>27, <1>28, <1>29, <1>30, <1>31

\* A structure's first word with another length.
LEMMA Relabelled ==
  ASSUME NEW g, NEW n, NEW l
  PROVE  [[tag |-> g, struct |-> TRUE, len |-> n] EXCEPT !.len = l] =
           [tag |-> g, struct |-> TRUE, len |-> l]
<1>1. PICK e : e = TRUE
  OBVIOUS
<1>2. [[tag |-> g, struct |-> e, len |-> n] EXCEPT !.len = l] = [tag |-> g, struct |-> e, len |-> l]
  BY SMT
<1> QED BY <1>1, <1>2, Zenon

\* A header is stripped of its correlation values and of nothing else.
LEMMA HeaderExact ==
  ASSUME NEW t \in Nodes
  PROVE  /\ [t EXCEPT !.kids = Others(@)] \in Nodes
         /\ StripHeader(EncodeElem(t)) = EncodeElem([t EXCEPT !.kids = Others(@)])
<1>1. PICK ws : ws = FlattenSeq(PartCodes(t.kids))
  OBVIOUS
<1>2. /\ EncodeElem(t) = Enclose(t.tag, ws) /\ t.kids \in Seq(Parts) /\ t.tag \in Tags
      /\ ws \in Seq(Words)
  BY <1>1, EncodeNodeForm
<1>3. PICK os \in Seq(Parts) : os = Others(t.kids)
  BY <1>1, <1>2, KeptExact
<1>4. PICK u : u = [t EXCEPT !.kids = os]
  OBVIOUS
<1>5. u \in Nodes /\ u.tag = t.tag /\ u.kids = os
  BY <1>4 DEF Nodes
<1>6. PICK n : n = 8 * Len(ws)
  OBVIOUS
<1>7. PICK kept : kept = Kept(ws, n, Correlations(ws, n))
  OBVIOUS
<1>8. /\ ~Damaged(ws, n) /\ kept = FlattenSeq(PartCodes(os)) /\ (kept = ws \/ 8 * Len(kept) # n)
  BY <1>1, <1>2, <1>3, <1>6, <1>7, KeptExact
<1>9. EncodeElem(u) = Enclose(t.tag, kept)
  BY <1>5, <1>8, EncodeNodeForm
<1>10. PICK rh : rh = Enclose(t.tag, ws)
  OBVIOUS
<1>11. Tail(rh) = ws /\ rh[1] = [tag |-> t.tag, struct |-> TRUE, len |-> n]
  BY <1>2, <1>6, <1>10, EncloseForm
<1>12. rh[1].len = n
  BY <1>11
<1>13. CASE kept = ws
  <2>1. 8 * Len(kept) = n
    BY <1>6, <1>13
  <2>2. StripHeader(rh) = rh
    BY <1>7, <1>11, <1>12, <2>1 DEF StripHeader
  <2> QED BY <1>2, <1>3, <1>4, <1>5, <1>9, <1>10, <1>13, <2>2
<1>14. CASE kept # ws
  <2>1. 8 * Len(kept) # n
    BY <1>8, <1>14
  <2>2. StripHeader(rh) = <<[rh[1] EXCEPT !.len = 8 * Len(kept)]>> \o kept
    BY <1>7, <1>8, <1>11, <1>12, <2>1 DEF StripHeader
  <2>3. [rh[1] EXCEPT !.len = 8 * Len(kept)] = [tag |-> t.tag, struct |-> TRUE, len |-> 8 * Len(kept)]
    <3>1. PICK l : l = 8 * Len(kept)
      OBVIOUS
    <3>2. PICK w : w = rh[1]
      OBVIOUS
    <3>3. w = [tag |-> t.tag, struct |-> TRUE, len |-> n]
      BY <1>11, <3>2
    <3>4. [w EXCEPT !.len = l] = [tag |-> t.tag, struct |-> TRUE, len |-> l]
      BY <3>3, Relabelled
    <3> QED BY <3>1, <3>2, <3>4
  <2>4. StripHeader(rh) = Enclose(t.tag, kept)
    BY <2>2, <2>3 DEF Enclose
  <2> QED BY <1>2, <1>3, <1>4, <1>5, <1>9, <1>10, <2>4
<1> QED BY <1>13, <1>14

\* A message's elements, encoded.
LEMMA CodesFull ==
  ASSUME NEW m \in Seq(Leaves \cup Nodes), NEW p, Builds(p, Codes(m), Words)
  PROVE  /\ Full(Codes(m), p, FlattenSeq(Codes(m)))
         /\ \A k \in 1..Len(m) : IsHeader(Codes(m)[k][1]) <=> IsHeader(m[k])
<1>1. PICK es \in Seq(Seq(Words)) : es = Codes(m) /\ Len(es) = Len(m)
  BY CodesTyped
<1>2. \A k \in 1..Len(m) : es[k] = EncodeElem(m[k])
  BY <1>1, CodesTyped
<1>3. ASSUME NEW k \in 1..Len(m)
      PROVE  IsElement(es[k]) /\ (IsHeader(es[k][1]) <=> IsHeader(m[k]))
  <2>1. m[k] \in Leaves \cup Nodes
    OBVIOUS
  <2>2. IsElement(es[k]) /\ es[k][1].tag = m[k].tag /\ es[k][1].struct = m[k].struct
    BY <1>2, <2>1, EncodeElemForm
  <2> QED BY <2>2 DEF IsHeader
<1>4. \A k \in 1..Len(es) : es[k] # <<>>
  BY <1>1, <1>3 DEF IsElement
<1>5. Tiling(es)
  BY <1>1, <1>3 DEF Tiling
<1>6. FlattenSeq(es) = p[Len(es)]
  BY <1>1, FlatUnique
<1> QED BY <1>1, <1>3, <1>4, <1>5, <1>6 DEF Full, Tiled

\* The headers the loop finds are those of the message.
LEMMA HeadersExact ==
  ASSUME NEW m \in Seq(Leaves \cup Nodes), NEW p, Builds(p, Codes(m), Words)
  PROVE  LET ws == FlattenSeq(Codes(m))
         IN  Headers(ws, 8 * Len(ws)) = {Len(p[k - 1]) : k \in {i \in 1..Len(m) : IsHeader(m[i])}}
<1>1. PICK es, ws : es = Codes(m) /\ ws = FlattenSeq(Codes(m))
  OBVIOUS
<1>2. /\ Full(es, p, ws) /\ Tiled(es, p, ws) /\ Builds(p, es, Words) /\ ws = p[Len(es)]
      /\ \A k \in 1..Len(m) : IsHeader(es[k][1]) <=> IsHeader(m[k])
  BY <1>1, CodesFull DEF Full, Tiled
<1>3. PICK M \in Nat : M = Len(m) /\ M = Len(es)
  BY <1>1, CodesTyped
<1>4. PICK L \in Nat : L = Len(ws)
  BY <1>2, TiledTyped
<1>5. Value(ws, 8 * L) /\ (8 * L) \div 8 = L
  BY <1>2, <1>4, TiledTyped
<1>6. PICK off : off = Walk(ws, 8 * L)
  OBVIOUS
<1>7. /\ M <= L /\ \A k \in 0..M : off[k] = Len(p[k])
      /\ \A k \in M..L : off[k] = L
  BY <1>2, <1>3, <1>4, <1>6, FullWalk, SMTT(30)
<1>8. \A k \in 1..M : es[k] # <<>>
  BY <1>2, <1>3 DEF Full
<1>9. ASSUME NEW k \in 1..M
      PROVE  /\ Fits(ws, 8 * L, off[k - 1]) /\ off[k - 1] = Len(p[k - 1])
             /\ IsHeader(ws[off[k - 1] + 1]) <=> IsHeader(m[k])
  <2>1. Tiled(es, p, ws) /\ es[k] # <<>> /\ k \in 1..Len(es)
    BY <1>2, <1>3, <1>8
  <2>2. LET o == Len(p[k - 1])
        IN  Fits(ws, 8 * Len(ws), o) /\ ws[o + 1] = es[k][1]
    BY ONLY <2>1, TileAt
  <2>3. off[k - 1] = Len(p[k - 1])
    BY <1>7
  <2>4. Fits(ws, 8 * L, off[k - 1]) /\ ws[off[k - 1] + 1] = es[k][1]
    BY <1>4, <2>2, <2>3
  <2> QED BY <1>2, <1>3, <2>3, <2>4
<1> DEFINE I == {i \in 1..M : IsHeader(m[i])}
<1>10. ASSUME NEW o \in Headers(ws, 8 * L) PROVE \E k \in I : o = Len(p[k - 1])
  <2>1. PICK j \in 0..L : o = off[j] /\ Fits(ws, 8 * L, o) /\ IsHeader(ws[o + 1])
    BY <1>5, <1>6 DEF Headers, Elements
  <2>2. o # L
    BY <2>1 DEF Fits
  <2>3. j < M
    BY <1>7, <2>1, <2>2
  <2>4. PICK k \in 1..M : j = k - 1
    <3>1. j + 1 \in 1..M /\ j = (j + 1) - 1
      BY <2>3
    <3> QED BY <3>1
  <2>5. IsHeader(m[k]) /\ o = Len(p[k - 1])
    BY <1>9, <2>1, <2>4
  <2> QED BY <2>5
<1>11. ASSUME NEW k \in I PROVE Len(p[k - 1]) \in Headers(ws, 8 * L)
  <2>1. PICK o : o = off[k - 1]
    OBVIOUS
  <2>2. Fits(ws, 8 * L, o) /\ o = Len(p[k - 1]) /\ IsHeader(ws[o + 1])
    BY <1>9, <2>1
  <2>3. k - 1 \in 0..L
    BY <1>7
  <2>4. o \in Elements(ws, 8 * L)
    BY <1>5, <1>6, <2>1, <2>2, <2>3 DEF Elements
  <2> QED BY <2>2, <2>4 DEF Headers
<1>12. Headers(ws, 8 * L) = {Len(p[k - 1]) : k \in I}
  BY <1>10, <1>11
<1> QED BY <1>1, <1>3, <1>4, <1>12

\* What the code makes of an encoded message.
LEMMA StripsMessage ==
  ASSUME NEW m \in Seq(Leaves \cup Nodes)
  PROVE  StripCorrelation(Encode(m)) = Encode(Uncorrelated(m))
<1>1. PICK es \in Seq(Seq(Words)), M \in Nat : es = Codes(m) /\ Len(es) = M /\ M = Len(m)
  BY CodesTyped
<1>2. PICK p : Builds(p, es, Words) /\ FlattenSeq(es) = p[M]
  BY <1>1, FlatForm
<1>3. PICK ws \in Seq(Words) : ws = FlattenSeq(es) /\ ws = p[M]
  BY <1>2, FlatTyped
<1>4. PICK L \in Nat : L = Len(ws)
  OBVIOUS
<1>5. PICK b \in Buffers : b = Encode(m) /\ b = [words |-> Enclose("message", ws), tail |-> 0]
  BY <1>1, <1>3, EncodeForm
<1>6. PICK w : w = [tag |-> "message", struct |-> TRUE, len |-> 8 * L]
  OBVIOUS
<1>7. b.words = <<w>> \o ws /\ b.words[1] = w /\ Tail(b.words) = ws /\ Len(b.words) = 1 + L /\ b.tail = 0
  <2>1. "message" \in Tags
    BY TtlvAssumption
  <2>2. /\ Enclose("message", ws) = <<w>> \o ws /\ Enclose("message", ws)[1] = w
        /\ Tail(Enclose("message", ws)) = ws /\ Len(Enclose("message", ws)) = 1 + L
    BY <1>4, <1>6, <2>1, EncloseForm DEF Enclose
  <2> QED BY <1>5, <2>2
<1>8. w.len = 8 * L /\ w.struct = TRUE
  BY <1>6
<1>9. ~Unreadable(b)
  <2>1. Bytes(b) = 8 * (1 + L) + 0
    BY <1>7 DEF Bytes
  <2>2. 8 * (1 + L) + 0 = 8 + 8 * L
    OBVIOUS
  <2> QED BY <1>7, <1>8, <2>1, <2>2 DEF Unreadable
<1> DEFINE I == {i \in 1..M : IsHeader(m[i])}
<1>10. PICK heads : heads = Headers(ws, 8 * L) /\ heads = {Len(p[k - 1]) : k \in I}
  BY <1>1, <1>2, <1>3, <1>4, HeadersExact
<1>11. CASE I = {}
  <2>1. heads = {}
    BY <1>10, <1>11
  <2>2. StripCorrelation(b) = b
    BY <1>7, <1>8, <1>10, <2>1 DEF StripCorrelation
  <2>3. Uncorrelated(m) = m
    <3>1. SelectInSeq(m, IsHeader) = 0
      BY <1>1, <1>11 DEF SelectInSeq
    <3> QED BY <3>1 DEF Uncorrelated
  <2> QED BY <1>5, <2>2, <2>3
<1>12. CASE I # {}
  <2>1. PICK h \in I : h = SelectInSeq(m, IsHeader) /\ \A k \in I : h <= k
    <3>1. SelectInSeq(m, IsHeader) = Min(I)
      BY <1>1, <1>12 DEF SelectInSeq
    <3>2. PICK T : T = I
      OBVIOUS
    <3>3. T \in SUBSET Nat /\ T # {}
      BY <1>12, <3>2
    <3>4. Min(T) \in T /\ \A k \in T : Min(T) <= k
      BY <3>3, MinIsLeast
    <3> QED BY <3>1, <3>2, <3>4
  <2>2. h \in 1..M /\ IsHeader(m[h]) /\ h - 1 \in 0..M /\ h # 0
    OBVIOUS
  <2>3. PICK t \in Nodes : t = m[h]
    <3>1. m[h] \in Leaves \cup Nodes
      BY <1>1, <2>2
    <3>2. m[h] \notin Leaves
      BY <2>2, Zenon DEF IsHeader, Leaves
    <3> QED BY <3>1, <3>2
  <2>4. PICK a \in Seq(Words), at \in Nat : a = p[h - 1] /\ at = Len(a)
    <3>1. p[h - 1] \in Seq(Words) /\ Len(p[h - 1]) \in Nat
      BY <1>1, <1>2, <2>2, BuiltTyped
    <3> QED BY <3>1
  <2>5. at = Min(heads)
    <3>1. at \in heads
      BY <1>10, <2>4
    <3>2. ASSUME NEW y \in heads PROVE y \in Nat /\ at <= y
      <4>1. PICK k \in I : y = Len(p[k - 1])
        BY <1>10
      <4>2. h <= k /\ k - 1 \in 0..Len(es) /\ k - 1 \in (h - 1)..Len(es) /\ h - 1 \in 0..Len(es)
        <5>1. k \in 1..M /\ h <= k
          BY <2>1
        <5>2. k - 1 \in 0..M /\ k - 1 \in (h - 1)..M
          BY <2>2, <5>1
        <5> QED BY <1>1, <2>2, <5>1, <5>2
      <4>3. Len(p[h - 1]) <= Len(p[k - 1])
        BY <1>2, <4>2, BuiltStays
      <4>4. Len(p[k - 1]) \in Nat
        BY <1>2, <4>2, BuiltTyped
      <4> QED BY <2>4, <4>1, <4>3, <4>4
    <3>3. heads \in SUBSET Nat /\ heads # {}
      BY <3>1, <3>2
    <3>4. Min(heads) \in heads /\ \A y \in heads : Min(heads) <= y
      BY <3>3, MinIsLeast
    <3>5. Min(heads) \in Nat /\ at <= Min(heads) /\ Min(heads) <= at
      BY <3>1, <3>2, <3>4
    <3> QED BY <2>4, <3>5
  <2>6. PICK rh \in Seq(Words), l \in Nat :
           rh = es[h] /\ rh = EncodeElem(t) /\ IsElement(rh) /\ l = Len(rh)
    <3>1. es[h] = EncodeElem(t)
      BY <1>1, <2>2, <2>3, CodesTyped
    <3>2. IsElement(EncodeElem(t))
      BY <2>3, EncodeElemForm
    <3>3. EncodeElem(t) \in Seq(Words)
      BY <3>2 DEF IsElement
    <3>4. PICK r \in Seq(Words) : r = EncodeElem(t)
      BY <3>3
    <3>5. PICK j \in Nat : j = Len(r)
      OBVIOUS
    <3> QED BY <3>1, <3>2, <3>4, <3>5
  <2>7. Element(ws, at) = rh /\ ElemWords(ws[at + 1]) = l
    <3>1. Tiled(es, p, ws) /\ es[h] # <<>> /\ h \in 1..Len(es)
      <4>1. Tiled(es, p, ws)
        BY <1>1, <1>2, <1>3, CodesFull DEF Full
      <4> QED BY <1>1, <2>2, <2>6, <4>1 DEF IsElement
    <3>2. LET o == Len(p[h - 1]) IN Element(ws, o) = es[h] /\ ws[o + 1] = es[h][1]
      BY ONLY <3>1, TileAt
    <3>3. Element(ws, at) = rh /\ ws[at + 1] = rh[1]
      BY <2>4, <2>6, <3>2
    <3> QED BY <2>6, <3>3 DEF IsElement
  <2>8. PICK u \in Nodes : u = [t EXCEPT !.kids = Others(@)] /\ StripHeader(rh) = EncodeElem(u)
    BY <2>6, HeaderExact
  <2>9. PICK new \in Seq(Words), k \in Nat : new = EncodeElem(u) /\ k = Len(new)
    <3>1. IsElement(EncodeElem(u))
      BY EncodeElemForm
    <3>2. EncodeElem(u) \in Seq(Words)
      BY <3>1 DEF IsElement
    <3> QED BY <3>2
  <2>10. StripCorrelation(b) =
           [b EXCEPT !.words = <<Shrunk(w, 8 * (l - k))>> \o Replaced(ws, at, new)]
    <3>1. heads # {}
      BY <1>10, <2>2
    <3>2. StripHeader(Element(ws, Min(heads))) = new /\ Element(ws, Min(heads)) = rh
      BY <2>5, <2>7, <2>8, <2>9
    <3>3. StripCorrelation(b) =
            LET r == Element(ws, Min(heads))
                s == StripHeader(r)
            IN  [b EXCEPT !.words =
                   <<Shrunk(w, 8 * (Len(r) - Len(s)))>> \o Replaced(ws, Min(heads), s)]
      BY <1>7, <1>8, <1>9, <1>10, <3>1 DEF StripCorrelation
    <3> QED BY <2>5, <2>6, <2>9, <3>2, <3>3
  <2>11. PICK v : v = Uncorrelated(m) /\ v = [m EXCEPT ![h] = u]
    <3>1. Uncorrelated(m) = [m EXCEPT ![h].kids = Others(@)]
      BY <2>1, <2>2 DEF Uncorrelated
    <3>2. [m EXCEPT ![h].kids = Others(@)] = [m EXCEPT ![h] = u]
      BY <2>3, <2>8
    <3> QED BY <3>1, <3>2
  <2>12. v \in Seq(Leaves \cup Nodes) /\ Len(v) = M /\ v[h] = u /\ \A i \in 1..M : i # h => v[i] = m[i]
    BY <1>1, <2>2, <2>11
  <2>13. PICK fs \in Seq(Seq(Words)) : fs = Codes(v) /\ Len(fs) = M /\ \A i \in 1..M : fs[i] = EncodeElem(v[i])
    BY <2>12, CodesTyped
  <2>14. PICK z \in Seq(Words) : ws = (a \o rh) \o z /\ FlattenSeq(fs) = (a \o new) \o z
    <3>1. SameRest(p[Len(es)], FlattenSeq(fs), p[h - 1], es[h], fs[h], Words)
      <4>1. h \in 1..Len(es) /\ Builds(p, es, Words)
        BY <1>1, <1>2, <2>2
      <4>2. Differ(es, fs, h, Words)
        <5>1. \A i \in 1..M : es[i] = EncodeElem(m[i])
          BY <1>1, CodesTyped
        <5> QED BY <1>1, <2>12, <2>13, <4>1, <5>1 DEF Differ
      <4> QED BY <4>1, <4>2, FlatReplace
    <3>2. ws = p[Len(es)]
      BY <1>1, <1>3
    <3>3. p[h - 1] = a /\ es[h] = rh /\ fs[h] = new
      BY <2>2, <2>4, <2>6, <2>9, <2>12, <2>13
    <3> QED BY <3>1, <3>2, <3>3 DEF SameRest
  <2>15. PICK r : r = FlattenSeq(fs)
    OBVIOUS
  <2>16. rh \in Seq(Words)
    BY <2>6 DEF IsElement
  <2>17. r \in Seq(Words) /\ Len(r) = at + k + Len(z) /\ L = at + l + Len(z) /\ Len(z) \in Nat
    BY <1>4, <2>4, <2>6, <2>9, <2>14, <2>15, <2>16
  <2>18. Replaced(ws, at, new) = r
    <3>1. SubSeq(ws, 1, at) = a
      BY <2>4, <2>14, <2>16
    <3>2. SubSeq(ws, at + l + 1, Len(ws)) = z
      <4>1. ASSUME NEW S, NEW c \in Seq(S), NEW e \in Seq(S), NEW y \in Seq(S)
            PROVE  SubSeq((c \o e) \o y, Len(c) + Len(e) + 1, Len((c \o e) \o y)) = y
        OBVIOUS
      <4>2. SubSeq((a \o rh) \o z, Len(a) + Len(rh) + 1, Len((a \o rh) \o z)) = z
        BY <2>16, <4>1
      <4> QED BY <2>4, <2>6, <2>14, <4>2
    <3> QED BY <2>7, <2>14, <2>15, <3>1, <3>2 DEF Replaced
  <2>19. Shrunk(w, 8 * (l - k)) = [tag |-> "message", struct |-> TRUE, len |-> 8 * Len(r)]
    <3>1. PICK x : x = 8 * L - 8 * (l - k)
      OBVIOUS
    <3>2. x = 8 * Len(r)
      <4>1. ASSUME NEW c \in Int, NEW d \in Int, NEW e \in Int, NEW f \in Int
            PROVE  8 * (c + d + e) - 8 * (d - f) = 8 * (c + f + e)
        OBVIOUS
      <4>2. at \in Int /\ l \in Int /\ k \in Int /\ Len(z) \in Int
        BY <2>17
      <4>3. 8 * (at + l + Len(z)) - 8 * (l - k) = 8 * (at + k + Len(z))
        BY ONLY <4>1, <4>2
      <4> QED BY <2>17, <3>1, <4>3
    <3>3. Shrunk(w, 8 * (l - k)) = [w EXCEPT !.len = x]
      BY <1>8, <3>1 DEF Shrunk
    <3>4. [w EXCEPT !.len = x] = [tag |-> "message", struct |-> TRUE, len |-> x]
      BY <1>6, Relabelled
    <3> QED BY <3>2, <3>3, <3>4
  <2>20. StripCorrelation(b) = [b EXCEPT !.words = Enclose("message", r)]
    BY <2>10, <2>18, <2>19 DEF Enclose
  <2>21. StripCorrelation(b) = [words |-> Enclose("message", r), tail |-> 0]
    <3>1. PICK x : x = Enclose("message", r)
      OBVIOUS
    <3>2. ASSUME NEW ys, NEW tail
          PROVE  [[words |-> ys, tail |-> tail] EXCEPT !.words = x] = [words |-> x, tail |-> tail]
      BY SMT
    <3>3. [[words |-> Enclose("message", ws), tail |-> 0] EXCEPT !.words = x] = [words |-> x, tail |-> 0]
      BY <3>2
    <3> QED BY <1>5, <2>20, <3>1, <3>3
  <2>22. Encode(v) = [words |-> Enclose("message", r), tail |-> 0]
    BY <2>12, <2>13, <2>15, EncodeForm
  <2> QED BY <1>5, <2>11, <2>21, <2>22
<1> QED BY <1>11, <1>12

-----------------------------------------------------------------------------
(***************************************************************************)
(* The invariants.                                                         *)
(***************************************************************************)
Served ==
  /\ buf \in Buffers
  /\ \/ msg \in Messages /\ buf = Encode(msg)
     \/ msg = NoMessage

Sent == pc = "sent" => out = StripCorrelation(buf)

Inv == Served /\ Sent

\* From HandleMessage's call to its answer: what ServeKMIP wrote is a buffer, the
\* encoding of the message if there is one, and what is sent is that buffer
\* stripped (server.go, HandleMessage).
THEOREM Invariant == Spec => []Inv
<1>1. Init => Inv
  <2> SUFFICES ASSUME Init PROVE Inv
    OBVIOUS
  <2>1. Sent
    BY DEF Init, Sent
  <2>2. CASE \E m \in Messages : msg = m /\ buf = Encode(m)
    <3>1. msg \in Messages /\ buf = Encode(msg)
      BY <2>2
    <3>2. buf \in Buffers
      BY <3>1, TtlvAssumption, EncodeForm
    <3> QED BY <2>1, <3>1, <3>2 DEF Inv, Served
  <2>3. CASE \E b \in Raw : msg = NoMessage /\ buf = b
    BY <2>1, <2>3, TtlvAssumption DEF Inv, Served
  <2> QED BY <2>2, <2>3 DEF Init
<1>2. Inv /\ [HandleMessage]_vars => Inv'
  BY DEF Inv, Served, Sent, HandleMessage, vars
<1> QED BY <1>1, <1>2, PTL DEF Spec

\* Whatever the buffer, as many bytes follow the declared message as before: a
\* reader that takes 8 + length bytes stays in step (server.go, stripCorrelation;
\* kmip-proxy, readTTLV).
THEOREM FramingIsKept == Spec => []FramingKept
<1>1. Inv => FramingKept
  <2> SUFFICES ASSUME Inv, pc = "sent", Bytes(buf) >= 8 PROVE Surplus(out) = Surplus(buf)
    BY DEF FramingKept
  <2> QED BY StripFrames DEF Inv, Served, Sent
<1> QED BY <1>1, Invariant, PTL

\* Whatever the buffer, a second pass finds nothing (server.go, stripCorrelation;
\* correlation_test.go, "idempotent").
THEOREM StrippingIsIdempotent == Spec => []Idempotent
<1>1. Inv => Idempotent
  BY StripTwice DEF Inv, Served, Sent, Idempotent
<1> QED BY <1>1, Invariant, PTL

\* A response goes out as the message it encodes without the correlation values
\* of its header, with every length right and every other element where it was
\* (server.go, stripCorrelation; correlation_test.go).
THEOREM ResponseStripped == Spec => []StripsExactly
<1>1. Inv => StripsExactly
  <2> SUFFICES ASSUME Inv, pc = "sent", msg # NoMessage PROVE out = Encode(Uncorrelated(msg))
    BY DEF StripsExactly
  <2>1. msg \in Messages /\ buf = Encode(msg) /\ out = StripCorrelation(buf)
    BY DEF Inv, Served, Sent
  <2>2. msg \in Seq(Leaves \cup Nodes)
    BY <2>1, TtlvAssumption
  <2> QED BY <2>1, <2>2, StripsMessage
<1> QED BY <1>1, Invariant, PTL
=============================================================================
