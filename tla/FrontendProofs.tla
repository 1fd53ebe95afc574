--------------------------- MODULE FrontendProofs ----------------------------
(***************************************************************************)
(* Theorems about Frontend: types, what an answer of success stands for,   *)
(* and that both request surfaces together are the store of KeyStore, for  *)
(* any number of clients, vaults and keys, whatever others have stored.    *)
(***************************************************************************)
EXTENDS Frontend, TLAPS

-----------------------------------------------------------------------------
(***************************************************************************)
(* The inductive invariant.  Of a request x, with what the vaults hold (s) *)
(* and the keys that have gone (g): where it stands before it is answered, *)
(* and what its answer stands for.  Of all keys: a number has one type, in *)
(* the vaults, in calls that may act late and in requests (Agree).         *)
(***************************************************************************)
Open(x) == x.pc \in {"call", "acted"}
Done(x) == x.pc = "acted" \/ (x.pc = "done" /\ Succeeded(x))

\* The key that x was about is under its name on its vault, or has gone.
Stands(x, s, g) ==
  /\ x.id > 0 /\ x.type \in VaultTypes
  /\ x.id \in g \/ (x.vault \in Vaults /\ s[x.vault][x.uid] = [type |-> x.type, id |-> x.id])

Sound(x, s, g) ==
  /\ Open(x) =>
       /\ x.vault \in Vaults /\ x.fn # "Locate"
       /\ x.uid = NoName => (~x.kmip /\ x.fn = "Create")
  /\ (Open(x) \/ Done(x)) /\ x.kmip /\ x.fn = "Create" => x.type = KeyTypeFor(x.otype, x.alg)
  /\ Done(x) /\ x.fn \in {"Create", "GetKeyInfo"} => Stands(x, s, g)
  /\ (x.pc = "done" /\ Done(x) /\ x.kmip /\ x.fn = "GetKeyInfo") =>
       x.otype = KmipTypeFor(x.type).otype /\ x.alg = KmipTypeFor(x.type).alg

Numbered == [type : VaultTypes, id : 1..made]

\* Where a key is known.
Known(k) ==
  \/ \E p \in Places : k = KeyAt(p)
  \/ \E x \in late : k = x.key
  \/ \E c \in Clients : k = [type |-> req[c].type, id |-> req[c].id]

Agree == \A j, k \in Numbered : (Known(j) /\ Known(k) /\ j.id = k.id) => j = k

Inv ==
  /\ TypeOK
  /\ \A c \in Clients : Sound(req[c], store, gone)
  /\ Agree

\* keyTypeFor finds the type that kmipTypeFor was given, of those the gateway
\* creates, and kmipTypeFor tells them from all others (attrs.go).
LEMMA TypesInverse ==
  ASSUME NEW t \in VaultTypes
  PROVE  LET a == KmipTypeFor(t)
         IN  /\ a.otype \in ObjectTypes /\ a.alg \in Algorithms
             /\ t \in KeyTypes => KeyTypeFor(a.otype, a.alg) = t
             /\ t \notin KeyTypes => \A kt \in KeyTypes :
                  KmipTypeFor(kt).alg # a.alg
BY DEF KeyTypes, VaultTypes, KmipTypeFor, KeyTypeFor, ObjectTypes, Algorithms

\* Keys that are known after a step were known before it, or are one new one.
Grows ==
  \/ \A k \in Numbered' : Known(k)' => Known(k)
  \/ /\ made' = made + 1
     /\ \E new : new.id = made' /\ \A k \in Numbered' : Known(k)' => Known(k) \/ k = new

\* The numbers of keys.
LEMMA Numbers ==
  ASSUME TypeOK
  PROVE  /\ made \in Nat
         /\ \A k \in Kept : k.id \in 0..made /\ (k.id = 0 => k = NoKey)
         /\ \A p \in Places : KeyAt(p) \in Kept
<1>1. made \in Nat
  BY FrontendAssumption DEF TypeOK
<1>2. \A k \in Kept : k.id \in 0..made /\ (k.id = 0 => k = NoKey)
  BY <1>1 DEF Kept, NoKey
<1>3. \A p \in Places : KeyAt(p) \in Kept
  BY DEF TypeOK, Places, KeyAt
<1> QED BY <1>1, <1>2, <1>3

\* A number keeps its type.
LEMMA AgreeStays ==
  ASSUME Inv, Grows, made' \in made..MaxKeys PROVE Agree'
<1>1. made \in Nat /\ made' \in Nat /\ made <= made'
  BY Numbers, FrontendAssumption DEF Inv
<1>2. ASSUME NEW k \in Numbered', Known(k) PROVE k \in Numbered
  <2>1. CASE \E p \in Places : k = KeyAt(p)
    BY <1>1, <2>1, Numbers DEF Inv, Kept, Numbered, NoKey
  <2>2. CASE \E x \in late : k = x.key
    BY <1>1, <2>2 DEF Inv, TypeOK, Kept, Numbered, NoKey
  <2>3. CASE \E c \in Clients : k = [type |-> req[c].type, id |-> req[c].id]
    <3>1. PICK c \in Clients : k = [type |-> req[c].type, id |-> req[c].id]
      BY <2>3
    <3>2. req[c].id \in 0..made
      BY DEF Inv, TypeOK, Records
    <3> QED BY <1>1, <3>1, <3>2 DEF Numbered
  <2> QED BY <1>2, <2>1, <2>2, <2>3 DEF Known
<1>3. CASE \A k \in Numbered' : Known(k)' => Known(k)
  BY <1>2, <1>3 DEF Inv, Agree
<1>4. ASSUME NEW new, new.id = made', made' = made + 1,
             \A k \in Numbered' : Known(k)' => Known(k) \/ k = new
      PROVE  Agree'
  <2>1. \A k \in Numbered' : Known(k) => k.id # new.id
    BY <1>1, <1>2, <1>4 DEF Numbered
  <2> QED BY <1>2, <1>4, <2>1 DEF Inv, Agree
<1> QED BY <1>3, <1>4 DEF Grows

\* What a step has to show.
LEMMA Keeps ==
  ASSUME Inv, Grows, made' \in made..MaxKeys,
         sess' \in Vaults \cup {NoVault}, store' \in [Vaults -> [Names \cup {NoName} -> Kept']],
         gone' \subseteq 1..made', used' \subseteq Generated,
         late' \subseteq [at : Places, key : Kept'], req' \in [Clients -> Records'],
         \A c \in Clients : Sound(req'[c], store', gone')
  PROVE  Inv'
<1>1. made' \in 0..MaxKeys
  BY Numbers, FrontendAssumption DEF Inv
<1>2. \A c \in Clients : req'[c].pc \in {"call", "acted"} =>
        /\ req'[c].vault \in Vaults
        /\ req'[c].uid = NoName => (~req'[c].kmip /\ req'[c].fn = "Create")
  BY DEF Sound, Open
<1>3. TypeOK'
  BY <1>1, <1>2 DEF TypeOK, Places
<1>4. Agree'
  BY AgreeStays
<1> QED BY <1>3, <1>4 DEF Inv

\* More keys, more numbers.
LEMMA Wider ==
  ASSUME Inv, made' \in made..MaxKeys
  PROVE  /\ Kept \subseteq Kept' /\ Records \subseteq Records' /\ 1..made \subseteq 1..made'
         /\ 0..made \subseteq 0..made' /\ made \in Nat /\ made' \in Nat
<1>1. made \in Nat /\ made' \in Nat /\ made <= made'
  BY Numbers, FrontendAssumption DEF Inv
<1>2. 1..made \subseteq 1..made' /\ 0..made \subseteq 0..made'
  BY <1>1
<1> QED BY <1>1, <1>2 DEF Kept, Records, NoKey

\* A step of one request that leaves keys and calls as they are: it knows no key,
\* the one it knew, or one that a vault holds.
LEMMA OneRequest ==
  ASSUME Inv, NEW c \in Clients, NEW y \in Records, Sound(y, store, gone),
         req' = [req EXCEPT ![c] = y], UNCHANGED <<sess, store, made, gone, late>>,
         used' \subseteq Generated,
         \/ y.id = 0
         \/ y.id = req[c].id /\ y.type = req[c].type
         \/ \E p \in Places : KeyAt(p) = [type |-> y.type, id |-> y.id]
  PROVE  Inv'
<1>1. req' \in [Clients -> Records] /\ Records' = Records /\ Kept' = Kept
      /\ Numbered' = Numbered
  BY DEF Inv, TypeOK, Records, Kept, Numbered
<1>2. req'[c] = y /\ \A d \in Clients : d # c => req'[d] = req[d]
  BY DEF Inv, TypeOK
<1>3. \A d \in Clients : Sound(req'[d], store', gone')
  BY <1>2 DEF Inv
<1>4. \A k \in Numbered' : Known(k)' => Known(k)
  <2> SUFFICES ASSUME NEW k \in Numbered, Known(k)' PROVE Known(k)
    BY <1>1
  <2>1. CASE \E d \in Clients : d # c /\ k = [type |-> req'[d].type, id |-> req'[d].id]
    BY <1>2, <2>1 DEF Known
  <2>2. CASE k = [type |-> y.type, id |-> y.id]
    <3>1. y.id # 0
      BY <2>2 DEF Numbered
    <3>2. CASE y.id = req[c].id /\ y.type = req[c].type
      BY <2>2, <3>2 DEF Known
    <3>3. CASE \E p \in Places : KeyAt(p) = [type |-> y.type, id |-> y.id]
      BY <2>2, <3>3 DEF Known
    <3> QED BY <3>1, <3>2, <3>3
  <2>3. CASE (\E p \in Places : k = KeyAt(p)') \/ (\E x \in late' : k = x.key)
    BY <2>3 DEF Known, KeyAt
  <2> QED BY <1>2, <2>1, <2>2, <2>3 DEF Known
<1>5. made' \in made..MaxKeys
  BY Numbers DEF Inv, TypeOK
<1>6. Grows
  BY <1>4 DEF Grows
<1> QED BY <1>1, <1>3, <1>5, <1>6, Keeps DEF Inv, TypeOK

\* A vault puts a key in the place of another: what answers stood for stands or
\* has gone.
LEMMA StoresForm ==
  ASSUME Inv, NEW v \in Vaults, NEW n \in Names \cup {NoName}, NEW key \in Kept',
         made' \in made..MaxKeys, Stores(v, n, key)
  PROVE  /\ store' \in [Vaults -> [Names \cup {NoName} -> Kept']] /\ gone' \subseteq 1..made'
         /\ \A p \in Places : KeyAt(p)' = IF p = <<v, n>> THEN key ELSE KeyAt(p)
         /\ \A x \in Records : Sound(x, store, gone) => Sound(x, store', gone')
<1>1. \A w \in Vaults, o \in Names \cup {NoName} :
        store'[w][o] = IF w = v /\ o = n THEN key ELSE store[w][o]
  BY DEF Stores, Inv, TypeOK
<1>2. store' \in [Vaults -> [Names \cup {NoName} -> Kept']]
  <2>1. store \in [Vaults -> [Names \cup {NoName} -> Kept]] /\ Kept \subseteq Kept'
    BY Wider DEF Inv, TypeOK
  <2>2. \A w \in Vaults : store'[w] \in [Names \cup {NoName} -> Kept']
    <3>1. store'[v] = [store[v] EXCEPT ![n] = key] /\ \A w \in Vaults \ {v} : store'[w] = store[w]
      BY <2>1 DEF Stores
    <3> QED BY <2>1, <3>1
  <2>3. DOMAIN store' = Vaults /\ store' = [w \in Vaults |-> store'[w]]
    BY <2>1 DEF Stores
  <2> QED BY <2>2, <2>3
<1>3. store[v][n] \in Kept /\ store[v][n].id \in 0..made
  <2>1. store[v][n] \in Kept
    BY DEF Inv, TypeOK
  <2> QED BY <2>1, Numbers DEF Inv
<1>4. gone' \subseteq 1..made'
  <2>1. store[v][n].id = 0 \/ store[v][n].id \in 1..made
    BY <1>3, Numbers DEF Inv
  <2> QED BY <2>1, Wider DEF Stores, Inv, TypeOK
<1>5. \A p \in Places : KeyAt(p)' = IF p = <<v, n>> THEN key ELSE KeyAt(p)
  BY <1>1 DEF Places, KeyAt
<1>6. ASSUME NEW x \in Records, Stands(x, store, gone) PROVE Stands(x, store', gone')
  <2>1. CASE x.id \in gone
    BY <1>6, <2>1 DEF Stands, Stores
  <2>2. CASE x.id \notin gone
    <3>1. /\ x.vault \in Vaults /\ x.id > 0 /\ x.uid \in Names \cup {NoName}
          /\ store[x.vault][x.uid] = [type |-> x.type, id |-> x.id]
      BY <1>6, <2>2 DEF Stands, Records
    <3>2. CASE x.vault = v /\ x.uid = n
      <4>1. x.id \in gone'
        BY <3>1, <3>2 DEF Stores
      <4> QED BY <1>6, <4>1 DEF Stands
    <3>3. CASE ~(x.vault = v /\ x.uid = n)
      <4>1. store'[x.vault][x.uid] = store[x.vault][x.uid]
        BY <1>1, <3>1, <3>3
      <4> QED BY <1>6, <3>1, <4>1 DEF Stands
    <3> QED BY <3>2, <3>3
  <2> QED BY <2>1, <2>2
<1>7. \A x \in Records : Sound(x, store, gone) => Sound(x, store', gone')
  BY <1>6 DEF Sound
<1> QED BY <1>2, <1>4, <1>5, <1>7

-----------------------------------------------------------------------------
(***************************************************************************)
(* What arrives.                                                           *)
(***************************************************************************)

\* An empty record with the fields of a new request is a request.
LEMMA NewIsRecord ==
  ASSUME Inv, NEW kmip \in BOOLEAN, NEW fn \in Functions, NEW uid \in Names \cup {NoName}
  PROVE  /\ New(kmip, fn, uid) \in Records
         /\ LET x == New(kmip, fn, uid)
            IN  /\ x.kmip = kmip /\ x.fn = fn /\ x.uid = uid /\ x.id = 0
                /\ x.otype = "SecretData" /\ x.alg = "none" /\ x.type = "none"
<1>1. 0 \in 0..made
  BY FrontendAssumption DEF Inv, TypeOK
<1>2. Idle \in Records
  BY <1>1 DEF Idle, Records, Functions, ObjectTypes, Algorithms, Codes
<1>3. New(kmip, fn, uid) \in Records
  BY <1>2 DEF New, Records
<1> QED BY <1>3 DEF New, Idle

\* A name that comes of attributes is one that clients choose, or empty.
LEMMA NamesTyped == NamesAsked \subseteq Requested \cup {NoName}
<1> SUFFICES ASSUME NEW attrs \in AttributeLists PROVE NameIn(attrs) \in Requested \cup {NoName}
  BY DEF NamesAsked
<1>1. CASE \E i \in DOMAIN attrs : IsFirstName(attrs, i)
  <2>1. PICK i : /\ i = CHOOSE j \in DOMAIN attrs : IsFirstName(attrs, j)
                 /\ i \in DOMAIN attrs
    BY <1>1
  <2>2. attrs[i] \in Attributes
    BY <2>1 DEF AttributeLists
  <2>3. NameValue(attrs[i]) \in Requested \cup {NoName}
    BY <2>2 DEF NameValue, Attributes
  <2> QED BY <1>1, <2>1, <2>3 DEF NameIn
<1>2. CASE ~\E i \in DOMAIN attrs : IsFirstName(attrs, i)
  BY <1>2 DEF NameIn
<1> QED BY <1>1, <1>2

\* A request that is refused, and a Locate, leave the invariant alone.
LEMMA AnsweredAtOnce ==
  ASSUME Inv, NEW c \in Clients, NEW kmip \in BOOLEAN, NEW uid \in Names \cup {NoName},
         NEW code \in Codes, Answer(c, New(kmip, "Locate", uid), code),
         UNCHANGED <<sess, store, made, gone, late>>, used' \subseteq Generated
  PROVE  Inv'
<1>1. PICK x : x = New(kmip, "Locate", uid)
  OBVIOUS
<1>2. x \in Records /\ x.fn = "Locate" /\ x.id = 0
  BY <1>1, NewIsRecord DEF Functions
<1>3. PICK y : y = [x EXCEPT !.pc = "done", !.code = code]
  OBVIOUS
<1>4. y \in Records /\ y.pc = "done" /\ y.fn = "Locate" /\ y.id = 0
  BY <1>2, <1>3 DEF Records
<1>5. Sound(y, store, gone)
  BY <1>4 DEF Sound, Open
<1>6. req' = [req EXCEPT ![c] = y]
  BY <1>1, <1>3 DEF Answer
<1> QED BY <1>4, <1>5, <1>6, OneRequest

\* A request that takes the installed session to call it.
Takes(x) ==
  /\ x \in Records /\ x.fn # "Locate" /\ x.id = 0
  /\ x.uid = NoName => (~x.kmip /\ x.fn = "Create")
  /\ x.kmip /\ x.fn = "Create" => x.type = KeyTypeFor(x.otype, x.alg)

LEMMA CallsSession ==
  ASSUME Inv, NEW c \in Clients, NEW x, Takes(x), Call(c, x), sess # NoVault,
         UNCHANGED <<sess, store, made, gone, late>>, used' \subseteq Generated
  PROVE  Inv'
<1>1. sess \in Vaults
  BY DEF Inv, TypeOK
<1>2. PICK y : y = [x EXCEPT !.pc = "call", !.vault = sess]
  OBVIOUS
<1>3. /\ y \in Records /\ y.id = 0 /\ y.pc = "call" /\ y.vault = sess /\ y.fn = x.fn
      /\ y.uid = x.uid /\ y.kmip = x.kmip /\ y.type = x.type /\ y.otype = x.otype
      /\ y.alg = x.alg
  BY <1>1, <1>2 DEF Takes, Records
<1>4. Sound(y, store, gone)
  BY <1>1, <1>3 DEF Takes, Sound, Open, Done
<1>5. req' = [req EXCEPT ![c] = y]
  BY <1>2 DEF Call
<1> QED BY <1>3, <1>4, <1>5, OneRequest

\* What becomes of a request that arrives: it is answered, or it will call the
\* session with the fields its handler demands.
Answered(c) ==
  \E kmip \in BOOLEAN, uid \in Names \cup {NoName}, code \in Codes :
    Answer(c, New(kmip, "Locate", uid), code)

Calls(c) == sess # NoVault /\ \E x : Takes(x) /\ Call(c, x)

Arrives(c) ==
  /\ Free(c) /\ UNCHANGED <<sess, store, made, gone, late>> /\ used' \subseteq Generated
  /\ Answered(c) \/ Calls(c)

\* handleCreate asks for the type that keyTypeFor finds.
LEMMA KmipCreateArrives ==
  ASSUME Inv, NEW c \in Clients, KmipCreate(c) PROVE Arrives(c)
<1>1. PICK otype \in AskedTypes, alg \in AskedAlgs, asked \in NamesAsked :
        LET type == KeyTypeFor(otype, alg)
        IN  IF type = "none"
              THEN Refuse(c, TRUE, "InvalidField") /\ UNCHANGED used
              ELSE \E name \in IF asked # NoName THEN {asked} ELSE Generated \ used :
                     /\ Call(c, [New(TRUE, "Create", name) EXCEPT
                                   !.otype = otype, !.alg = alg, !.type = type])
                     /\ used' = used \cup ({name} \cap Generated)
  BY DEF KmipCreate
<1>2. /\ Free(c) /\ UNCHANGED <<sess, store, made, gone, late>> /\ sess # NoVault
  BY DEF KmipCreate
<1>3. CASE KeyTypeFor(otype, alg) = "none"
  BY <1>1, <1>2, <1>3 DEF Refuse, Codes, Arrives, Answered, Inv, TypeOK
<1>4. CASE KeyTypeFor(otype, alg) # "none"
  <2>1. PICK type : type = KeyTypeFor(otype, alg)
    OBVIOUS
  <2>2. PICK name \in IF asked # NoName THEN {asked} ELSE Generated \ used :
          /\ Call(c, [New(TRUE, "Create", name) EXCEPT
                        !.otype = otype, !.alg = alg, !.type = type])
          /\ used' = used \cup ({name} \cap Generated)
    BY <1>1, <1>4, <2>1
  <2>3. name \in Names /\ name # NoName
    BY NamesTyped, FrontendAssumption DEF Names
  <2>4. type \in KeyTypes
    BY <1>4, <2>1 DEF KeyTypeFor, KeyTypes
  <2>5. PICK z : z = New(TRUE, "Create", name)
    OBVIOUS
  <2>6. z \in Records /\ z.fn = "Create" /\ z.uid = name /\ z.id = 0
    <3>1. PICK kmip \in BOOLEAN : kmip = TRUE
      OBVIOUS
    <3>2. z = New(kmip, "Create", name)
      BY <2>5, <3>1, Zenon
    <3> QED BY <2>3, <3>2, NewIsRecord DEF Functions
  <2>7. PICK x : x = [z EXCEPT !.otype = otype, !.alg = alg, !.type = type]
    OBVIOUS
  <2>8. /\ x \in Records /\ x.fn = "Create" /\ x.uid = name /\ x.id = 0
        /\ x.type = type /\ x.otype = otype /\ x.alg = alg
    BY <2>4, <2>6, <2>7, FrontendAssumption DEF Records, VaultTypes
  <2>9. Takes(x) /\ Call(c, x)
    BY <2>1, <2>2, <2>3, <2>5, <2>7, <2>8 DEF Takes
  <2>10. used' \subseteq Generated
    BY <2>2 DEF Inv, TypeOK
  <2> QED BY <1>2, <2>9, <2>10 DEF Arrives, Calls
<1> QED BY <1>3, <1>4

\* What else arrives.
LEMMA OtherArrives ==
  ASSUME Inv, NEW c \in Clients,
         KmipRefused(c) \/ KmipKeyOp(c) \/ KmipLocate(c)
           \/ HttpMalformed(c) \/ HttpCreate(c) \/ HttpKeyOp(c)
  PROVE  Arrives(c)
<1>1. Free(c) /\ UNCHANGED <<sess, store, made, gone, late>> /\ used' \subseteq Generated
  BY DEF KmipRefused, KmipKeyOp, KmipLocate, HttpMalformed, HttpCreate, HttpKeyOp,
         Inv, TypeOK
<1>2. ASSUME NEW kmip \in BOOLEAN, NEW code \in Codes, Refuse(c, kmip, code)
      PROVE  Arrives(c)
  BY <1>1, <1>2 DEF Refuse, Arrives, Answered
<1>3. ASSUME NEW kmip \in BOOLEAN, NEW fn \in Functions \ {"Locate", "Create"},
             NEW uid \in Names, sess # NoVault, Call(c, New(kmip, fn, uid))
      PROVE  Arrives(c)
  <2>1. PICK x : x = New(kmip, fn, uid)
    OBVIOUS
  <2>2. Takes(x)
    BY <2>1, NewIsRecord, FrontendAssumption DEF Takes
  <2> QED BY <1>1, <1>3, <2>1, <2>2 DEF Arrives, Calls
<1>4. CASE KmipRefused(c) \/ HttpMalformed(c)
  BY <1>2, <1>4 DEF KmipRefused, HttpMalformed, Codes
<1>5. CASE KmipLocate(c)
  <2>1. PICK name \in NamesAsked : Answer(c, New(TRUE, "Locate", name), "Success")
    BY <1>5 DEF KmipLocate
  <2>2. name \in Names \cup {NoName}
    BY NamesTyped DEF Names
  <2> QED BY <1>1, <2>1, <2>2 DEF Codes, Arrives, Answered
<1>6. CASE KmipKeyOp(c)
  <2>1. PICK fn \in {"Destroy", "Wrap", "Unwrap", "Sign", "GetKeyInfo"},
             uid \in Names \cup {NoName} :
          \E iv \in IF fn = "Unwrap" THEN BOOLEAN ELSE {FALSE} :
            IF uid = NoName \/ (fn = "Unwrap" /\ ~iv)
              THEN Refuse(c, TRUE, "InvalidField") ELSE Call(c, New(TRUE, fn, uid))
    BY <1>6 DEF KmipKeyOp
  <2>2. fn \in Functions \ {"Locate", "Create"} /\ sess # NoVault /\ "InvalidField" \in Codes
    BY <1>6 DEF KmipKeyOp, Functions, Codes
  <2> QED BY <1>2, <1>3, <2>1, <2>2
<1>7. CASE HttpCreate(c)
  <2>1. PICK name \in Requested \cup {NoName}, type \in AskedKinds :
          IF sess = NoVault THEN Refuse(c, FALSE, "Unavailable")
          ELSE Call(c, [New(FALSE, "Create", name) EXCEPT !.type = type])
    BY <1>7 DEF HttpCreate
  <2>2. CASE sess = NoVault
    BY <1>2, <2>1, <2>2 DEF Codes
  <2>3. CASE sess # NoVault
    <3>1. PICK z : z = New(FALSE, "Create", name)
      OBVIOUS
    <3>2. z \in Records /\ z.fn = "Create" /\ z.id = 0
      <4>1. PICK kmip \in BOOLEAN : kmip = FALSE
        OBVIOUS
      <4>2. z = New(kmip, "Create", name)
        BY <3>1, <4>1, Zenon
      <4> QED BY <4>2, NewIsRecord DEF Functions, Names
    <3>3. ~z.kmip
      BY <3>1 DEF New, Idle
    <3>4. PICK x : x = [z EXCEPT !.type = type]
      OBVIOUS
    <3>5. /\ x \in Records /\ x.fn = "Create" /\ x.id = 0 /\ ~x.kmip
      BY <3>2, <3>3, <3>4, FrontendAssumption DEF Records, VaultTypes
    <3>6. Call(c, x)
      BY <2>1, <2>3, <3>1, <3>4
    <3> QED BY <1>1, <2>3, <3>5, <3>6 DEF Arrives, Calls, Takes
  <2> QED BY <2>2, <2>3
<1>8. CASE HttpKeyOp(c)
  <2>1. PICK fn \in {"Sign", "GetKeyInfo"}, uid \in Names \cup {NoName} :
          IF uid = NoName THEN Refuse(c, FALSE, "BadRequest")
          ELSE IF sess = NoVault THEN Refuse(c, FALSE, "Unavailable")
          ELSE Call(c, New(FALSE, fn, uid))
    BY <1>8 DEF HttpKeyOp
  <2>2. fn \in Functions \ {"Locate", "Create"} /\ {"BadRequest", "Unavailable"} \subseteq Codes
    BY DEF Functions, Codes
  <2> QED BY <1>2, <1>3, <2>1, <2>2
<1> QED BY <1>4, <1>5, <1>6, <1>7, <1>8

\* Arriving keeps the invariant.
LEMMA ArrivalKeeps ==
  ASSUME Inv, NEW c \in Clients, Arrives(c) PROVE Inv'
BY AnsweredAtOnce, CallsSession DEF Arrives, Answered, Calls

-----------------------------------------------------------------------------
(***************************************************************************)
(* What a call does.                                                       *)
(***************************************************************************)

\* A client that has called a session.
LEMMA Caller ==
  ASSUME Inv, NEW c \in Clients
  PROVE  /\ req[c] \in Records /\ Sound(req[c], store, gone)
         /\ Open(req[c]) => Place(c) \in Places /\ Key(c) \in Kept /\ req[c].fn # "Locate"
BY Numbers DEF Inv, TypeOK, Sound, Place, Places, Key, Records

\* A use acts.
LEMMA UseActsKeeps ==
  ASSUME Inv, NEW c \in Clients, UseActs(c) PROVE Inv'
<1>1. PICK y : y = [req[c] EXCEPT !.pc = "acted"]
  OBVIOUS
<1>2. /\ y \in Records /\ y.id = req[c].id /\ y.type = req[c].type
      /\ y.fn \notin {"Create", "GetKeyInfo"} /\ y.vault = req[c].vault
      /\ y.uid = req[c].uid /\ y.fn = req[c].fn
  BY <1>1, Caller DEF UseActs, Calling, Records
<1>3. Sound(y, store, gone)
  <2>1. Open(req[c]) /\ Sound(req[c], store, gone)
    BY Caller DEF UseActs, Calling, Open
  <2>2. req[c].vault \in Vaults /\ req[c].fn # "Locate" /\ req[c].uid # NoName
    BY <1>2, <2>1 DEF Sound
  <2>3. y.pc = "acted"
    BY <1>1, Caller DEF Records
  <2> QED BY <1>2, <2>2, <2>3 DEF Sound
<1>4. req' = [req EXCEPT ![c] = y]
  BY <1>1 DEF UseActs, Acted
<1>5. UNCHANGED <<sess, store, made, gone, late>> /\ used' \subseteq Generated
  BY DEF UseActs, Inv, TypeOK
<1> QED BY <1>2, <1>3, <1>4, <1>5, OneRequest

\* A key is described.
LEMMA InfoActsKeeps ==
  ASSUME Inv, NEW c \in Clients, InfoActs(c) PROVE Inv'
<1>1. PICK y : y = [req[c] EXCEPT !.pc = "acted", !.type = Key(c).type, !.id = Key(c).id]
  OBVIOUS
<1>2. /\ Place(c) \in Places /\ Key(c) \in [type : VaultTypes, id : 1..made]
      /\ req[c] \in Records /\ req[c].fn = "GetKeyInfo"
  BY Caller DEF InfoActs, Calling, Open, Kept
<1>3. /\ y \in Records /\ y.pc = "acted" /\ y.fn = "GetKeyInfo" /\ y.uid = req[c].uid
      /\ y.vault = req[c].vault /\ Key(c) = [type |-> y.type, id |-> y.id]
      /\ y.id \in 1..made /\ y.type \in VaultTypes
  <2>1. Key(c).id \in 1..made /\ Key(c).id \in 0..made /\ Key(c).type \in VaultTypes
    BY <1>2, Numbers DEF Inv
  <2> QED BY <1>1, <1>2, <2>1 DEF Records
<1>4. Sound(y, store, gone)
  <2>1. Open(req[c]) /\ Sound(req[c], store, gone)
    BY Caller DEF InfoActs, Calling, Open
  <2>2. req[c].vault \in Vaults /\ req[c].uid # NoName
    BY <1>2, <2>1 DEF Sound
  <2>3. y.id > 0
    BY <1>3, Numbers DEF Inv
  <2>4. store[y.vault][y.uid] = [type |-> y.type, id |-> y.id]
    BY <1>3 DEF Key, KeyAt, Place
  <2>5. Stands(y, store, gone)
    BY <1>3, <2>2, <2>3, <2>4 DEF Stands
  <2> QED BY <1>3, <2>2, <2>5 DEF Sound
<1>5. req' = [req EXCEPT ![c] = y]
  <2>1. req[c] \in Records /\ req \in [Clients -> Records]
    BY <1>2 DEF Inv, TypeOK
  <2> QED BY <1>1, <2>1 DEF InfoActs, ActedOn
<1>6. UNCHANGED <<sess, store, made, gone, late>> /\ used' \subseteq Generated
  BY DEF InfoActs, Inv, TypeOK
<1>7. \E p \in Places : KeyAt(p) = [type |-> y.type, id |-> y.id]
  BY <1>2, <1>3 DEF Key
<1> QED BY <1>3, <1>4, <1>5, <1>6, <1>7, OneRequest

\* The session returns.
LEMMA CallReturnsKeeps ==
  ASSUME Inv, NEW c \in Clients, CallReturns(c) PROVE Inv'
<1>1. /\ req[c].pc = "acted" /\ req[c] \in Records /\ Sound(req[c], store, gone)
      /\ Done(req[c])
  BY Caller DEF CallReturns, Done
<1>2. PICK t : t = KmipTypeFor(req[c].type)
  OBVIOUS
<1>3. \E code \in Codes :
        \/ /\ req[c].kmip /\ req[c].fn = "GetKeyInfo"
           /\ Answer(c, [req[c] EXCEPT !.otype = t.otype, !.alg = t.alg], code)
        \/ ~(req[c].kmip /\ req[c].fn = "GetKeyInfo") /\ Answer(c, req[c], code)
  BY <1>2 DEF CallReturns, Codes
<1>4. PICK code \in Codes :
        \/ /\ req[c].kmip /\ req[c].fn = "GetKeyInfo"
           /\ Answer(c, [req[c] EXCEPT !.otype = t.otype, !.alg = t.alg], code)
        \/ ~(req[c].kmip /\ req[c].fn = "GetKeyInfo") /\ Answer(c, req[c], code)
  BY <1>3
<1>5. UNCHANGED <<sess, store, made, gone, late>> /\ used' \subseteq Generated
  BY DEF CallReturns, Inv, TypeOK
<1>6. CASE req[c].kmip /\ req[c].fn = "GetKeyInfo"
  <2>1. Stands(req[c], store, gone)
    BY <1>1, <1>6 DEF Sound
  <2>2. t.otype \in ObjectTypes /\ t.alg \in Algorithms
    BY <1>2, <2>1, TypesInverse DEF Stands
  <2>3. PICK y : y = [req[c] EXCEPT !.otype = t.otype, !.alg = t.alg,
                                    !.pc = "done", !.code = code]
    OBVIOUS
  <2>4. /\ y \in Records /\ y.id = req[c].id /\ y.type = req[c].type /\ y.pc = "done"
        /\ y.fn = req[c].fn /\ y.vault = req[c].vault /\ y.uid = req[c].uid
        /\ y.otype = t.otype /\ y.alg = t.alg
    BY <1>1, <2>2, <2>3 DEF Records
  <2>5. req' = [req EXCEPT ![c] = y]
    BY <1>1, <1>4, <1>6, <2>3 DEF Answer, Records
  <2>6. Sound(y, store, gone)
    BY <1>2, <1>6, <2>1, <2>4 DEF Sound, Stands, Open
  <2> QED BY <1>5, <2>4, <2>5, <2>6, OneRequest
<1>7. CASE ~(req[c].kmip /\ req[c].fn = "GetKeyInfo")
  <2>1. PICK y : y = [req[c] EXCEPT !.pc = "done", !.code = code]
    OBVIOUS
  <2>2. /\ y \in Records /\ y.id = req[c].id /\ y.type = req[c].type /\ y.pc = "done"
        /\ y.fn = req[c].fn /\ y.vault = req[c].vault /\ y.uid = req[c].uid
        /\ y.otype = req[c].otype /\ y.alg = req[c].alg /\ y.kmip = req[c].kmip
    BY <1>1, <2>1 DEF Records
  <2>3. req' = [req EXCEPT ![c] = y]
    BY <1>4, <1>7, <2>1 DEF Answer
  <2>4. Sound(y, store, gone)
    BY <1>1, <1>7, <2>2 DEF Sound, Stands, Open
  <2> QED BY <1>5, <2>2, <2>3, <2>4, OneRequest
<1> QED BY <1>6, <1>7

\* What is kept of a request that fails: no key.
LEMMA FailedForm ==
  ASSUME Inv, NEW c \in Clients, Failed(c), Open(req[c])
  PROVE  \E y \in Records :
           /\ req' = [req EXCEPT ![c] = y]
           /\ y.id = 0 /\ y.pc = "done" /\ ~Succeeded(y) /\ y.fn = req[c].fn
           /\ y.uid = req[c].uid /\ y.vault = req[c].vault /\ Sound(y, store', gone')
<1>1. req[c] \in Records /\ req[c].fn # "Locate"
  BY Caller
<1>2. PICK z : z = New(req[c].kmip, req[c].fn, req[c].uid)
  OBVIOUS
<1>3. z \in Records /\ z.fn = req[c].fn /\ z.uid = req[c].uid /\ z.id = 0
  <2>1. req[c].kmip \in BOOLEAN /\ req[c].fn \in Functions /\ req[c].uid \in Names \cup {NoName}
    BY <1>1 DEF Records
  <2> QED BY <1>2, <2>1, NewIsRecord
<1>4. PICK code \in {"ItemNotFound", "GeneralFailure", "NotFound", "BadGateway"} :
        Answer(c, [z EXCEPT !.vault = req[c].vault], code)
  BY <1>2 DEF Failed
<1>5. PICK y : y = [z EXCEPT !.vault = req[c].vault, !.pc = "done", !.code = code]
  OBVIOUS
<1>6. /\ y \in Records /\ y.pc = "done" /\ y.id = 0 /\ y.fn = req[c].fn /\ y.code = code
      /\ y.uid = req[c].uid /\ y.vault = req[c].vault
  BY <1>1, <1>3, <1>5 DEF Records, Codes
<1>7. req' = [req EXCEPT ![c] = y]
  BY <1>3, <1>4, <1>5 DEF Answer, Records
<1>8. ~Succeeded(y)
  BY <1>4, <1>6 DEF Succeeded
<1>9. Sound(y, store', gone')
  BY <1>6, <1>8 DEF Sound, Open, Done
<1> QED BY <1>6, <1>7, <1>8, <1>9

\* A call fails.
LEMMA CallFailsKeeps ==
  ASSUME Inv, NEW c \in Clients, CallFails(c) PROVE Inv'
<1>1. UNCHANGED <<sess, store, made, gone, late>> /\ used' \subseteq Generated
  BY DEF CallFails, Inv, TypeOK
<1>2. PICK y \in Records :
        req' = [req EXCEPT ![c] = y] /\ y.id = 0 /\ Sound(y, store', gone')
  BY FailedForm DEF CallFails, Open
<1>3. Sound(y, store, gone)
  BY <1>1, <1>2
<1> QED BY <1>1, <1>2, <1>3, OneRequest

\* A step that changes what a vault holds: keys that are known after it.
LEMMA ActsKeeps ==
  ASSUME Inv, NEW c \in Clients, NEW y \in Records', req' = [req EXCEPT ![c] = y],
         Place(c) \in Places, NEW key \in Kept', Stores(req[c].vault, req[c].uid, key),
         UNCHANGED <<sess, late>>, used' \subseteq Generated,
         Sound(y, store', gone'),
         \/ /\ key = NoKey /\ made' = made /\ y.id = req[c].id /\ y.type = req[c].type
         \/ /\ made' = made + 1 /\ made < MaxKeys /\ key.id = made'
            /\ key = [type |-> y.type, id |-> y.id]
  PROVE  Inv'
<1>1. made' \in made..MaxKeys /\ made \in Nat
  BY Numbers, FrontendAssumption DEF Inv, TypeOK
<1>2. req[c].vault \in Vaults /\ req[c].uid \in Names \cup {NoName}
  BY DEF Place, Places
<1>3. /\ store' \in [Vaults -> [Names \cup {NoName} -> Kept']] /\ gone' \subseteq 1..made'
      /\ \A p \in Places : KeyAt(p)' = IF p = Place(c) THEN key ELSE KeyAt(p)
      /\ \A x \in Records : Sound(x, store, gone) => Sound(x, store', gone')
  BY <1>1, <1>2, StoresForm DEF Place
<1>4. req'[c] = y /\ \A d \in Clients : d # c => req'[d] = req[d]
  BY DEF Inv, TypeOK
<1>5. \A d \in Clients : Sound(req'[d], store', gone')
  BY <1>3, <1>4 DEF Inv, TypeOK
<1>6. req' \in [Clients -> Records'] /\ late' \subseteq [at : Places, key : Kept']
  BY <1>1, Wider DEF Inv, TypeOK
<1>7. ASSUME NEW k \in Numbered', Known(k)' PROVE Known(k) \/ (k = key /\ key # NoKey)
  <2>1. CASE \E p \in Places : k = KeyAt(p)'
    <3>1. k # NoKey
      BY <1>1 DEF Numbered, NoKey
    <3> QED BY <1>3, <2>1, <3>1 DEF Known
  <2>2. CASE \E x \in late' : k = x.key
    BY <2>2 DEF Known
  <2>3. CASE \E d \in Clients : d # c /\ k = [type |-> req'[d].type, id |-> req'[d].id]
    BY <1>4, <2>3 DEF Known
  <2>4. CASE k = [type |-> y.type, id |-> y.id]
    <3>1. CASE y.id = req[c].id /\ y.type = req[c].type
      BY <2>4, <3>1 DEF Known
    <3>2. CASE key = [type |-> y.type, id |-> y.id] /\ key.id = made' /\ made' = made + 1
      BY <1>1, <2>4, <3>2 DEF NoKey
    <3> QED BY <3>1, <3>2
  <2> QED BY <1>4, <1>7, <2>1, <2>2, <2>3, <2>4 DEF Known
<1>8. Grows
  BY <1>7 DEF Grows
<1>9. sess' \in Vaults \cup {NoVault}
  BY DEF Inv, TypeOK
<1> QED BY <1>1, <1>3, <1>5, <1>6, <1>8, <1>9, Keeps

\* A key is created.
LEMMA CreateActsKeeps ==
  ASSUME Inv, NEW c \in Clients, CreateActs(c) PROVE Inv'
<1>1. /\ req[c] \in Records /\ Sound(req[c], store, gone) /\ Open(req[c])
      /\ Place(c) \in Places /\ req[c].fn = "Create" /\ req[c].type \in KeyTypes
  BY Caller DEF CreateActs, Calling, Open
<1>2. made' = made + 1 /\ made < MaxKeys /\ made \in Nat /\ MaxKeys \in Nat
      /\ made' \in made..MaxKeys
  BY Numbers, FrontendAssumption DEF CreateActs, Inv
<1>3. PICK key : key = [type |-> req[c].type, id |-> made']
  OBVIOUS
<1>4. key \in Kept' /\ key.id = made' /\ key.type = req[c].type
  BY <1>1, <1>2, <1>3 DEF Kept, KeyTypes, VaultTypes
<1>5. Stores(req[c].vault, req[c].uid, key) /\ ActedOn(c, key)
  BY <1>3 DEF CreateActs
<1>6. PICK y : y = [req[c] EXCEPT !.pc = "acted", !.type = key.type, !.id = key.id]
  OBVIOUS
<1>7. req[c] \in Records'
  BY <1>1, <1>2, Wider
<1>8. /\ y \in Records' /\ y.pc = "acted" /\ y.fn = "Create" /\ y.type = req[c].type
      /\ y.id = made' /\ y.vault = req[c].vault /\ y.uid = req[c].uid
      /\ y.kmip = req[c].kmip /\ y.otype = req[c].otype /\ y.alg = req[c].alg
  <2>1. key.type \in VaultTypes /\ key.id \in 0..made' /\ key.id = made'
    BY <1>1, <1>2, <1>4 DEF KeyTypes, VaultTypes
  <2>2. y \in Records'
    BY <1>6, <1>7, <2>1 DEF Records
  <2> QED BY <1>1, <1>4, <1>6, <2>1, <2>2 DEF Records
<1>9. req' = [req EXCEPT ![c] = y]
  <2>1. req \in [Clients -> Records]
    BY DEF Inv, TypeOK
  <2> QED BY <1>1, <1>5, <1>6, <2>1 DEF ActedOn
<1>10. Sound(y, store', gone')
  <2>1. req[c].vault \in Vaults /\ req[c].uid \in Names \cup {NoName}
    BY <1>1 DEF Place, Places
  <2>2. store'[y.vault][y.uid] = key
    BY <1>5, <1>8, <2>1 DEF Stores, Inv, TypeOK
  <2>3. Stands(y, store', gone')
    BY <1>1, <1>2, <1>3, <1>8, <2>1, <2>2 DEF Stands, KeyTypes, VaultTypes
  <2> QED BY <1>1, <1>8, <2>1, <2>3 DEF Sound, Open
<1>11. UNCHANGED <<sess, late>> /\ used' \subseteq Generated
  BY DEF CreateActs, Inv, TypeOK
<1>12. key = [type |-> y.type, id |-> y.id]
  BY <1>3, <1>8
<1> QED BY <1>1, <1>2, <1>4, <1>5, <1>8, <1>9, <1>10, <1>11, <1>12, ActsKeeps

\* A key is destroyed.
LEMMA DestroyActsKeeps ==
  ASSUME Inv, NEW c \in Clients, DestroyActs(c) PROVE Inv'
<1>1. /\ req[c] \in Records /\ Sound(req[c], store, gone) /\ Open(req[c])
      /\ Place(c) \in Places /\ req[c].fn = "Destroy"
  BY Caller DEF DestroyActs, Calling, Open
<1>2. made' = made /\ Records' = Records /\ NoKey \in Kept'
  BY DEF DestroyActs, Records, Kept
<1>3. PICK y : y = [req[c] EXCEPT !.pc = "acted"]
  OBVIOUS
<1>4. /\ y \in Records' /\ y.pc = "acted" /\ y.fn = "Destroy" /\ y.type = req[c].type
      /\ y.id = req[c].id /\ y.vault = req[c].vault /\ y.uid = req[c].uid
      /\ y.kmip = req[c].kmip
  BY <1>1, <1>2, <1>3 DEF Records
<1>5. req' = [req EXCEPT ![c] = y]
  BY <1>3 DEF DestroyActs, Acted
<1>6. Sound(y, store', gone')
  BY <1>1, <1>4 DEF Sound, Open
<1>7. UNCHANGED <<sess, late>> /\ used' \subseteq Generated
  BY DEF DestroyActs, Inv, TypeOK
<1> QED BY <1>1, <1>2, <1>4, <1>5, <1>6, <1>7, ActsKeeps DEF DestroyActs

\* A call fails that a vault may still carry out.
LEMMA CallGivenUpKeeps ==
  ASSUME Inv, NEW c \in Clients, CallGivenUp(c) PROVE Inv'
<1>1. Open(req[c]) /\ Place(c) \in Places /\ made \in Nat
  BY Caller, Numbers DEF CallGivenUp, Calling, Open, Inv
<1>2. \E key \in Kept' :
        /\ late' = late \cup {[at |-> Place(c), key |-> key]}
        /\ \/ key = NoKey /\ made' = made
           \/ key.id = made' /\ made' = made + 1 /\ made < MaxKeys
  <2>1. CASE /\ req[c].type \in KeyTypes /\ made < MaxKeys /\ made' = made + 1
             /\ late' = late \cup {[at |-> Place(c), key |-> [type |-> req[c].type, id |-> made']]}
    <3>1. PICK key : key = [type |-> req[c].type, id |-> made']
      OBVIOUS
    <3>2. key \in Kept' /\ key.id = made'
      BY <1>1, <2>1, <3>1 DEF Kept, KeyTypes, VaultTypes
    <3> QED BY <2>1, <3>1, <3>2
  <2>2. CASE late' = late \cup {[at |-> Place(c), key |-> NoKey]} /\ made' = made
    BY <2>2 DEF Kept
  <2> QED BY <2>1, <2>2 DEF CallGivenUp
<1>3. PICK key \in Kept' :
        /\ late' = late \cup {[at |-> Place(c), key |-> key]}
        /\ \/ key = NoKey /\ made' = made
           \/ key.id = made' /\ made' = made + 1 /\ made < MaxKeys
  BY <1>2
<1>4. made' \in made..MaxKeys
  BY <1>1, <1>3, FrontendAssumption DEF Inv, TypeOK
<1>5. UNCHANGED <<sess, store, gone, used>>
  BY DEF CallGivenUp
<1>6. PICK y \in Records :
        req' = [req EXCEPT ![c] = y] /\ y.id = 0 /\ Sound(y, store', gone')
  BY <1>1, FailedForm DEF CallGivenUp
<1>7. req'[c] = y /\ \A d \in Clients : d # c => req'[d] = req[d]
  BY <1>6 DEF Inv, TypeOK
<1>8. \A d \in Clients : Sound(req'[d], store', gone')
  BY <1>5, <1>6, <1>7 DEF Inv
<1>9. /\ store' \in [Vaults -> [Names \cup {NoName} -> Kept']] /\ gone' \subseteq 1..made'
      /\ req' \in [Clients -> Records'] /\ sess' \in Vaults \cup {NoVault}
      /\ used' \subseteq Generated /\ late' \subseteq [at : Places, key : Kept']
  <2>1. Kept \subseteq Kept' /\ Records \subseteq Records' /\ 1..made \subseteq 1..made'
    BY <1>4, Wider
  <2>2. req' \in [Clients -> Records']
    BY <1>6, <2>1 DEF Inv, TypeOK
  <2>3. late' \subseteq [at : Places, key : Kept']
    BY <1>1, <1>3, <2>1 DEF Inv, TypeOK
  <2> QED BY <1>5, <2>1, <2>2, <2>3 DEF Inv, TypeOK
<1>10. ASSUME NEW k \in Numbered', Known(k)' PROVE Known(k) \/ (k = key /\ key # NoKey)
  <2>1. CASE \E p \in Places : k = KeyAt(p)'
    BY <1>5, <2>1 DEF Known, KeyAt
  <2>2. CASE \E x \in late' : k = x.key
    <3>1. k # NoKey
      BY <1>1, <1>4 DEF Numbered, NoKey
    <3> QED BY <1>3, <2>2, <3>1 DEF Known
  <2>3. CASE \E d \in Clients : k = [type |-> req'[d].type, id |-> req'[d].id]
    <3>1. k.id # 0
      BY <1>1, <1>4 DEF Numbered
    <3> QED BY <1>6, <1>7, <2>3, <3>1 DEF Known
  <2> QED BY <1>10, <2>1, <2>2, <2>3 DEF Known
<1>11. Grows
  BY <1>3, <1>10 DEF Grows
<1> QED BY <1>4, <1>8, <1>9, <1>11, Keeps

\* A vault carries out a call that has failed.
LEMMA SettleKeeps ==
  ASSUME Inv, NEW x \in late, Settle(x) PROVE Inv'
<1>1. /\ x.at \in Places /\ x.key \in Kept /\ made' = made /\ Kept' = Kept
      /\ Records' = Records /\ made' \in made..MaxKeys
  BY Numbers, FrontendAssumption DEF Settle, Inv, TypeOK, Kept, Records
<1>2. x.at[1] \in Vaults /\ x.at[2] \in Names \cup {NoName} /\ <<x.at[1], x.at[2]>> = x.at
  BY <1>1 DEF Places
<1>3. /\ store' \in [Vaults -> [Names \cup {NoName} -> Kept']] /\ gone' \subseteq 1..made'
      /\ \A p \in Places : KeyAt(p)' = IF p = x.at THEN x.key ELSE KeyAt(p)
      /\ \A y \in Records : Sound(y, store, gone) => Sound(y, store', gone')
  <2>1. PICK v \in Vaults, n \in Names \cup {NoName} : v = x.at[1] /\ n = x.at[2]
    BY <1>2
  <2>2. PICK key \in Kept' : key = x.key
    BY <1>1
  <2>3. Stores(v, n, key) /\ <<v, n>> = x.at
    BY <1>2, <2>1, <2>2 DEF Settle
  <2>4. /\ store' \in [Vaults -> [Names \cup {NoName} -> Kept']] /\ gone' \subseteq 1..made'
        /\ \A p \in Places : KeyAt(p)' = IF p = <<v, n>> THEN key ELSE KeyAt(p)
        /\ \A y \in Records : Sound(y, store, gone) => Sound(y, store', gone')
    BY <1>1, <2>3, StoresForm
  <2> QED BY <2>2, <2>3, <2>4
<1>4. req' = req /\ sess' = sess /\ used' = used /\ late' \subseteq late
  BY DEF Settle
<1>5. \A d \in Clients : Sound(req'[d], store', gone')
  BY <1>3, <1>4 DEF Inv, TypeOK
<1>6. ASSUME NEW k \in Numbered', Known(k)' PROVE Known(k)
  <2>1. CASE \E p \in Places : k = KeyAt(p)'
    BY <1>3, <2>1 DEF Known
  <2>2. CASE (\E z \in late' : k = z.key)
             \/ \E d \in Clients : k = [type |-> req'[d].type, id |-> req'[d].id]
    BY <1>4, <2>2 DEF Known
  <2> QED BY <1>6, <2>1, <2>2 DEF Known
<1>7. Grows
  BY <1>6 DEF Grows
<1>8. /\ sess' \in Vaults \cup {NoVault} /\ used' \subseteq Generated
      /\ req' \in [Clients -> Records'] /\ late' \subseteq [at : Places, key : Kept']
  <2>1. /\ sess \in Vaults \cup {NoVault} /\ used \subseteq Generated
        /\ req \in [Clients -> Records] /\ late \subseteq [at : Places, key : Kept]
    BY DEF Inv, TypeOK
  <2> QED BY <1>1, <1>4, <2>1
<1> QED BY <1>1, <1>3, <1>5, <1>7, <1>8, Keeps

-----------------------------------------------------------------------------
(***************************************************************************)
(* The invariant and what follows from it.                                 *)
(***************************************************************************)
LEMMA InitInv == Init => Inv
<1> SUFFICES ASSUME Init PROVE Inv
  OBVIOUS
<1>1. made = MaxStored /\ made \in 0..MaxKeys /\ made \in Nat
  BY FrontendAssumption DEF Init
<1>2. store \in [Vaults -> [Names \cup {NoName} -> Kept]]
  <2>1. {NoKey} \cup [type : StoredKinds, id : 1..MaxStored] \subseteq Kept
    BY <1>1, FrontendAssumption DEF Kept
  <2>2. PICK S : S = {NoKey} \cup [type : StoredKinds, id : 1..MaxStored]
    OBVIOUS
  <2>3. store \in [Vaults -> [Names \cup {NoName} -> S]] /\ S \subseteq Kept
    BY <2>1, <2>2 DEF Init
  <2> QED BY <2>3
<1>3. Idle \in Records
  BY <1>1 DEF Idle, Records, Functions, ObjectTypes, Algorithms, Codes
<1>4. TypeOK
  BY <1>1, <1>2, <1>3 DEF Init, TypeOK, Idle
<1>5. \A c \in Clients : Sound(req[c], store, gone)
  BY DEF Init, Idle, Sound, Open, Done, Succeeded
<1>6. ASSUME NEW k \in Numbered, Known(k) PROVE \E p \in Places : k = KeyAt(p) /\ k # NoKey
  <2>1. k # NoKey /\ k.id # 0
    BY <1>1 DEF Numbered, NoKey
  <2>2. late = {} /\ \A c \in Clients : req[c].id = 0
    BY DEF Init, Idle
  <2> QED BY <1>6, <2>1, <2>2 DEF Known
<1>7. Agree
  <2> SUFFICES ASSUME NEW j \in Numbered, NEW k \in Numbered, Known(j), Known(k), j.id = k.id
               PROVE  j = k
    BY DEF Agree
  <2>1. PICK p \in Places, q \in Places : j = KeyAt(p) /\ k = KeyAt(q) /\ j # NoKey
    BY <1>6
  <2>2. CASE p = q
    BY <2>1, <2>2
  <2>3. CASE p # q
    BY <2>1, <2>3 DEF Init
  <2> QED BY <2>2, <2>3
<1> QED BY <1>4, <1>5, <1>7 DEF Inv

\* The loop installs a session: nothing else changes.
LEMMA SetSessionKeeps ==
  ASSUME Inv, SetSession PROVE Inv'
<1>1. sess' \in Vaults /\ UNCHANGED <<store, made, gone, used, late, req>>
  BY DEF SetSession
<1>2. TypeOK'
  <2>1. Records' = Records /\ Kept' = Kept
    BY <1>1 DEF Records, Kept
  <2> QED BY <1>1, <2>1 DEF Inv, TypeOK
<1>3. \A c \in Clients : Sound(req'[c], store', gone')
  BY <1>1 DEF Inv
<1>4. Agree'
  BY <1>1 DEF Inv, Agree, Known, KeyAt, Numbered
<1> QED BY <1>2, <1>3, <1>4 DEF Inv

LEMMA StepInv == Inv /\ [Next]_vars => Inv'
<1> SUFFICES ASSUME Inv, [Next]_vars PROVE Inv'
  OBVIOUS
<1>1. CASE SetSession
  BY <1>1, SetSessionKeeps
<1>2. ASSUME NEW c \in Clients, RequestStep(c) PROVE Inv'
  BY <1>2, KmipCreateArrives, OtherArrives, ArrivalKeeps, CreateActsKeeps,
     DestroyActsKeeps, UseActsKeeps, InfoActsKeeps, CallReturnsKeeps, CallFailsKeeps,
     CallGivenUpKeeps DEF RequestStep
<1>3. ASSUME NEW x \in late, Settle(x) PROVE Inv'
  BY <1>3, SettleKeeps
<1>4. CASE UNCHANGED vars
  <2>1. UNCHANGED <<sess, store, made, gone, used, late, req>>
    BY <1>4 DEF vars
  <2>2. Records' = Records /\ Kept' = Kept
    BY <2>1 DEF Records, Kept
  <2>3. TypeOK'
    BY <2>1, <2>2 DEF Inv, TypeOK
  <2>4. (\A c \in Clients : Sound(req[c], store, gone))'
    BY <2>1 DEF Inv
  <2>5. Agree'
    BY <2>1 DEF Inv, Agree, Known, KeyAt, Numbered
  <2> QED BY <2>3, <2>4, <2>5 DEF Inv
<1> QED BY <1>1, <1>2, <1>3, <1>4 DEF Next

LEMMA Invariant == Spec => []Inv
BY InitInv, StepInv, PTL DEF Spec

\* Types, and that a handler calls a session only once one is installed, with a
\* name unless POST /keys leaves it to the platform (server.go, the handlers;
\* control/server.go, createKey, sign, getPublicKey).
THEOREM TypeCorrect == Spec => []TypeOK
<1>1. Inv => TypeOK
  BY DEF Inv
<1> QED BY <1>1, Invariant, PTL

\* A Create that is answered with success has put the key where the answer says,
\* and it stays there until it is destroyed or replaced, whatever other requests,
\* re-points and calls that act late do (server.go, handleCreate;
\* control/server.go, createKey).
THEOREM CreatedThere == Spec => []CreatedIsThere
<1>1. Inv => CreatedIsThere
  <2> SUFFICES ASSUME Inv, NEW c \in Clients, Did(c, "Create")
               PROVE  \/ req[c].id \in gone
                      \/ req[c].id > 0 /\ Key(c) = [type |-> req[c].type, id |-> req[c].id]
    BY DEF CreatedIsThere
  <2>1. Stands(req[c], store, gone)
    BY DEF Inv, Sound, Did, Done
  <2> QED BY <2>1 DEF Stands, Key, KeyAt, Place
<1> QED BY <1>1, Invariant, PTL

\* GetAttributes reports the type of the key that is there, in terms that select
\* that type again if it is one the gateway creates, and that no such key is
\* reported in if it is not (attrs.go, keyTypeFor and kmipTypeFor).
THEOREM AttributesTrue == Spec => []AttributesTruthful
<1>1. Inv => AttributesTruthful
  <2> SUFFICES ASSUME Inv, NEW c \in Clients, Did(c, "GetKeyInfo"), req[c].kmip
               PROVE
    /\ req[c].id \in gone \/ Key(c) = [type |-> req[c].type, id |-> req[c].id]
    /\ req[c].type \in KeyTypes => KeyTypeFor(req[c].otype, req[c].alg) = req[c].type
    /\ req[c].type \notin KeyTypes =>
         \A kt \in KeyTypes : KmipTypeFor(kt) # [otype |-> req[c].otype, alg |-> req[c].alg]
    /\ \A d \in Clients : (Did(d, "Create") /\ req[d].kmip /\ req[d].id = req[c].id) =>
         KeyTypeFor(req[c].otype, req[c].alg) = KeyTypeFor(req[d].otype, req[d].alg)
    BY DEF AttributesTruthful
  <2>1. /\ Stands(req[c], store, gone) /\ req[c].type \in VaultTypes
        /\ req[c].otype = KmipTypeFor(req[c].type).otype
        /\ req[c].alg = KmipTypeFor(req[c].type).alg
    BY DEF Inv, Sound, Did, Done, Stands
  <2>2. req[c].id \in gone \/ Key(c) = [type |-> req[c].type, id |-> req[c].id]
    BY <2>1 DEF Stands, Key, KeyAt, Place
  <2>3. /\ req[c].type \in KeyTypes => KeyTypeFor(req[c].otype, req[c].alg) = req[c].type
        /\ req[c].type \notin KeyTypes => \A kt \in KeyTypes : KmipTypeFor(kt).alg # req[c].alg
    BY <2>1, TypesInverse
  <2>4. ASSUME NEW d \in Clients, Did(d, "Create"), req[d].kmip, req[d].id = req[c].id
        PROVE  KeyTypeFor(req[c].otype, req[c].alg) = KeyTypeFor(req[d].otype, req[d].alg)
    <3>1. Stands(req[d], store, gone) /\ req[d].type = KeyTypeFor(req[d].otype, req[d].alg)
      BY <2>4 DEF Inv, Sound, Did, Done
    <3>2. req[c].id \in 1..made /\ made \in Nat
      <4>1. req[c].id \in 0..made
        BY DEF Inv, TypeOK, Records
      <4> QED BY <2>1, <4>1, Numbers DEF Stands, Inv
    <3>3. PICK j : j = [type |-> req[c].type, id |-> req[c].id]
      OBVIOUS
    <3>4. PICK k : k = [type |-> req[d].type, id |-> req[d].id]
      OBVIOUS
    <3>5. j \in Numbered /\ k \in Numbered /\ Known(j) /\ Known(k) /\ j.id = k.id
      BY <2>1, <2>4, <3>1, <3>2, <3>3, <3>4 DEF Numbered, Known, Stands
    <3>6. j = k
      BY <3>5 DEF Inv, Agree
    <3>7. req[c].type = req[d].type
      BY <3>3, <3>4, <3>6
    <3>8. KeyTypeFor(req[d].otype, req[d].alg) \in KeyTypes \cup {"none"}
      BY DEF KeyTypeFor, KeyTypes
    <3> QED BY <2>1, <2>3, <3>1, <3>7, <3>8 DEF VaultTypes, KeyTypes
  <2> QED BY <2>2, <2>3, <2>4
<1> QED BY <1>1, Invariant, PTL

-----------------------------------------------------------------------------
(***************************************************************************)
(* The refinement.  AbsStore, AbsJob and AbsLate are what the surfaces and *)
(* vaults stand for in KeyStore.                                           *)
(***************************************************************************)
AbsStore   == [k \in Places |-> {KeyAt(k).id} \ {0}]
AbsJob     == [c \in Clients |-> Job(req[c])]
AbsCall(x) == [key |-> x.at, to |-> {x.key.id} \ {0}]
AbsLate    == {AbsCall(x) : x \in late}

\* A step of one request is a step of one job.
LEMMA JobFollows ==
  ASSUME Inv, NEW c \in Clients, NEW y, req' = [req EXCEPT ![c] = y]
  PROVE  /\ AbsJob' = [AbsJob EXCEPT ![c] = Job(y)]
         /\ AbsJob'[c] = Job(y) /\ AbsJob[c] = Job(req[c])
BY DEF Inv, TypeOK, AbsJob

\* With the vaults and late calls as they are, so is the store.
LEMMA StoreStays ==
  /\ UNCHANGED store => AbsStore' = AbsStore
  /\ UNCHANGED late => AbsLate' = AbsLate
BY DEF AbsStore, AbsLate, KeyAt

\* What is answered at once never comes to the store.
LEMMA AnsweredIsLeaving ==
  ASSUME Inv, NEW c \in Clients, NEW kmip, NEW uid, NEW code, Free(c),
         Answer(c, New(kmip, "Locate", uid), code), UNCHANGED <<store, late>>
  PROVE  Store!Leave(c)
<1> DEFINE y == [New(kmip, "Locate", uid) EXCEPT !.pc = "done", !.code = code]
<1>1. y.fn = "Locate"
  BY DEF New, Idle
<1>2. Job(y) = Store!Idle
  BY <1>1 DEF Job, NoJob, Store!Idle
<1>3. req' = [req EXCEPT ![c] = y]
  BY DEF Answer
<1>4. Job(req[c]).pc \in {"idle", "done"}
  BY DEF Free, Job, NoJob
<1> HIDE DEF y
<1> QED BY <1>2, <1>3, <1>4, JobFollows, StoreStays
        DEF Store!Leave, Store!Becomes, Store!Free, AbsJob, AbsStore, AbsLate, AbsCall

\* A request that goes on to call its session has asked something of the store.
LEMMA CallingIsAsking ==
  ASSUME Inv, NEW c \in Clients, NEW x, Takes(x), Free(c),
         Call(c, x), sess # NoVault, UNCHANGED <<store, late>>
  PROVE  Store!Ask(c)
<1> DEFINE y == [x EXCEPT !.pc = "call", !.vault = sess]
<1>1. y.pc = "call" /\ y.fn = x.fn /\ y.vault \in Vaults /\ y.uid \in Names \cup {NoName}
      /\ y.fn # "Locate"
  BY DEF Takes, Records, Inv, TypeOK
<1> HIDE DEF y
<1>2. <<y.vault, y.uid>> \in Places /\ OpOf(y.fn) \in {"use", "destroy", "create"}
  BY <1>1 DEF Places, OpOf
<1>3. Job(y) \in [op : Store!Operations, key : Places, pc : {"asked"}, res : {"none"}]
  BY <1>1, <1>2 DEF Job, Store!Operations
<1>4. req' = [req EXCEPT ![c] = y]
  BY DEF Call, y
<1>5. Job(req[c]).pc \in {"idle", "done"}
  BY DEF Free, Job, NoJob
<1> QED BY <1>3, <1>4, <1>5, JobFollows, StoreStays
        DEF Store!Ask, Store!Becomes, Store!Free, AbsJob, AbsStore, AbsLate, AbsCall

\* Arriving is Ask or Leave.
LEMMA ArrivalRefines ==
  ASSUME Inv, NEW c \in Clients, Arrives(c) PROVE Store!Ask(c) \/ Store!Leave(c)
BY AnsweredIsLeaving, CallingIsAsking DEF Arrives, Answered, Calls

\* A call that acts, fails or returns takes its job along.
Ends(c, pc, res) == AbsJob' = [AbsJob EXCEPT ![c].pc = pc, ![c].res = res]

LEMMA CallFollows ==
  ASSUME Inv, NEW c \in Clients, Open(req[c]), NEW y, req' = [req EXCEPT ![c] = y],
         y.fn = req[c].fn, y.vault = req[c].vault, y.uid = req[c].uid
  PROVE  /\ AbsJob[c].op = OpOf(req[c].fn) /\ AbsJob[c].key = Place(c)
         /\ req[c].pc = "call" => AbsJob[c].pc = "asked"
         /\ req[c].pc = "acted" => AbsJob[c].pc = "acted" /\ AbsJob[c].res = "ok"
         /\ y.pc = "acted" => Ends(c, "acted", "ok")
         /\ y.pc = "done" /\ Succeeded(y) => Ends(c, "done", "ok")
         /\ y.pc = "done" /\ ~Succeeded(y) => Ends(c, "done", "failed")
<1>1. req[c].fn # "Locate" /\ Place(c) \in Places
  BY Caller
<1>2. PICK a : a = AbsJob[c]
  OBVIOUS
<1>3. \E p, r : a = [op |-> OpOf(req[c].fn), key |-> Place(c), pc |-> p, res |-> r]
  BY <1>1, <1>2 DEF AbsJob, Job, Place
<1>4. PICK p, r : a = [op |-> OpOf(req[c].fn), key |-> Place(c), pc |-> p, res |-> r]
  BY <1>3
<1>5. /\ req[c].pc = "call" => p = "asked"
      /\ req[c].pc = "acted" => p = "acted" /\ r = "ok"
  BY <1>1, <1>2, <1>4 DEF AbsJob, Job
<1>6. AbsJob' = [AbsJob EXCEPT ![c] = Job(y)]
  BY JobFollows
<1>7. ASSUME NEW pc, NEW res, y.pc = pc, pc \in {"acted", "done"},
             res = IF pc = "acted" \/ Succeeded(y) THEN "ok" ELSE "failed"
      PROVE  Ends(c, pc, res)
  <2>1. PICK z : z = [a EXCEPT !.pc = pc, !.res = res]
    OBVIOUS
  <2>2. PICK S : S = [op : {OpOf(req[c].fn)}, key : {Place(c)}, pc : {p, pc}, res : {r, res}]
    OBVIOUS
  <2>3. z \in S /\ z.pc = pc /\ z.res = res
    BY <1>4, <2>1, <2>2
  <2>4. Job(y) \in S /\ Job(y).pc = pc /\ Job(y).res = res
    BY <1>1, <1>7, <2>2 DEF Job, Place
  <2>5. Job(y) = z
    BY <2>2, <2>3, <2>4
  <2> QED BY <1>2, <1>6, <2>1, <2>5 DEF Ends
<1> QED BY <1>2, <1>4, <1>5, <1>7

\* Replacing the key of one name of one vault.
LEMMA StoreFollows ==
  ASSUME Inv, NEW p \in Places, NEW key, Stores(p[1], p[2], key)
  PROVE  AbsStore' = [AbsStore EXCEPT ![p] = {key.id} \ {0}]
<1>1. p[1] \in Vaults /\ p[2] \in Names \cup {NoName}
  BY DEF Places
<1>2. \A w \in Vaults, o \in Names \cup {NoName} :
        store'[w][o] = IF w = p[1] /\ o = p[2] THEN key ELSE store[w][o]
  BY <1>1 DEF Stores, Inv, TypeOK
<1>3. \A k \in Places : KeyAt(k)' = IF k = p THEN key ELSE KeyAt(k)
  BY <1>2 DEF Places, KeyAt
<1> QED BY <1>3 DEF AbsStore

\* A Create acts on the store at one moment.
LEMMA CreateRefines ==
  ASSUME Inv, NEW c \in Clients, CreateActs(c) PROVE Store!Change(c)
<1>1. req[c] \in Records /\ req[c].fn = "Create" /\ req[c].pc = "call" /\ Open(req[c])
      /\ Place(c) \in Places /\ made' \in 1..MaxKeys
  <2>1. made \in Nat /\ made' = made + 1 /\ made < MaxKeys /\ MaxKeys \in Nat
    BY Numbers, FrontendAssumption DEF CreateActs, Inv
  <2> QED BY <2>1, Caller DEF CreateActs, Calling, Open
<1>2. PICK key : key = [type |-> req[c].type, id |-> made']
  OBVIOUS
<1>3. Stores(req[c].vault, req[c].uid, key) /\ ActedOn(c, key) /\ key.id = made'
  BY <1>2 DEF CreateActs
<1>4. PICK y : y = [req[c] EXCEPT !.pc = "acted", !.type = key.type, !.id = key.id]
  OBVIOUS
<1>5. y.pc = "acted" /\ y.fn = req[c].fn /\ y.vault = req[c].vault /\ y.uid = req[c].uid
  BY <1>1, <1>4 DEF Records
<1>6. req' = [req EXCEPT ![c] = y]
  <2>1. req \in [Clients -> Records]
    BY DEF Inv, TypeOK
  <2> QED BY <1>1, <1>3, <1>4, <2>1 DEF ActedOn
<1>7. /\ AbsJob[c].op = "create" /\ AbsJob[c].key = Place(c) /\ AbsJob[c].pc = "asked"
      /\ Ends(c, "acted", "ok")
  BY <1>1, <1>5, <1>6, CallFollows DEF OpOf
<1>8. AbsStore' = [AbsStore EXCEPT ![Place(c)] = {made'}]
  <2>1. PICK p \in Places : p = Place(c)
    BY <1>1
  <2>2. Stores(p[1], p[2], key)
    BY <1>3, <2>1 DEF Place
  <2>3. AbsStore' = [AbsStore EXCEPT ![p] = {key.id} \ {0}]
    BY <2>2, StoreFollows
  <2>4. {key.id} \ {0} = {made'}
    BY <1>1, <1>3
  <2> QED BY <2>1, <2>3, <2>4
<1>9. {made'} \in Store!Effects("create") /\ AbsLate' = AbsLate
  BY <1>1, StoreStays DEF Store!Effects, Store!Contents, CreateActs
<1> QED BY <1>1, <1>7, <1>8, <1>9
        DEF Store!Change, Store!Outcome, Ends, AbsStore, AbsJob, AbsLate, AbsCall

\* What a Destroy finds, or does not find, is gone.
LEMMA DestroyRefines ==
  ASSUME Inv, NEW c \in Clients, DestroyActs(c) PROVE Store!Change(c)
<1>1. req[c] \in Records /\ req[c].fn = "Destroy" /\ req[c].pc = "call" /\ Open(req[c])
      /\ Place(c) \in Places
  BY Caller DEF DestroyActs, Calling, Open
<1>2. PICK y : y = [req[c] EXCEPT !.pc = "acted"]
  OBVIOUS
<1>3. y.pc = "acted" /\ y.fn = req[c].fn /\ y.vault = req[c].vault /\ y.uid = req[c].uid
  BY <1>1, <1>2 DEF Records
<1>4. req' = [req EXCEPT ![c] = y]
  BY <1>2 DEF DestroyActs, Acted
<1>5. /\ AbsJob[c].op = "destroy" /\ AbsJob[c].key = Place(c) /\ AbsJob[c].pc = "asked"
      /\ Ends(c, "acted", "ok")
  BY <1>1, <1>3, <1>4, CallFollows DEF OpOf
<1>6. AbsStore' = [AbsStore EXCEPT ![Place(c)] = {}]
  <2>1. PICK p \in Places : p = Place(c)
    BY <1>1
  <2>2. Stores(p[1], p[2], NoKey)
    BY <2>1 DEF Place, DestroyActs
  <2>3. AbsStore' = [AbsStore EXCEPT ![p] = {NoKey.id} \ {0}]
    BY <2>2, StoreFollows
  <2>4. {NoKey.id} \ {0} = {}
    BY DEF NoKey
  <2> QED BY <2>1, <2>3, <2>4
<1>7. {} \in Store!Effects("destroy") /\ AbsLate' = AbsLate
  BY StoreStays DEF Store!Effects, DestroyActs
<1> QED BY <1>1, <1>5, <1>6, <1>7
        DEF Store!Change, Store!Outcome, Ends, AbsStore, AbsJob, AbsLate, AbsCall

\* A vault serves only a key that it holds.
LEMMA UseRefines ==
  ASSUME Inv, NEW c \in Clients, UseActs(c) \/ InfoActs(c) PROVE Store!Use(c)
<1>1. /\ req[c] \in Records /\ req[c].fn \in {"Wrap", "Unwrap", "Sign", "GetKeyInfo"}
      /\ req[c].pc = "call" /\ Open(req[c]) /\ Place(c) \in Places /\ Key(c) \in Kept
      /\ UNCHANGED <<store, late>> /\ Key(c) # NoKey
  <2>1. Key(c) # NoKey
    BY DEF UseActs, InfoActs, NoKey
  <2> QED BY <2>1, Caller DEF UseActs, InfoActs, Calling, Open
<1>2. AbsStore[Place(c)] # {}
  <2>1. Key(c).id # 0
    BY <1>1, Numbers DEF Inv
  <2> QED BY <1>1, <2>1 DEF AbsStore, Key
<1>3. PICK y : /\ req' = [req EXCEPT ![c] = y] /\ y.pc = "acted" /\ y.fn = req[c].fn
               /\ y.vault = req[c].vault /\ y.uid = req[c].uid
  <2>1. CASE UseActs(c)
    <3>1. PICK y : y = [req[c] EXCEPT !.pc = "acted"]
      OBVIOUS
    <3>2. y.pc = "acted" /\ y.fn = req[c].fn /\ y.vault = req[c].vault /\ y.uid = req[c].uid
      BY <1>1, <3>1 DEF Records
    <3>3. req' = [req EXCEPT ![c] = y]
      BY <2>1, <3>1 DEF UseActs, Acted
    <3> QED BY <3>2, <3>3
  <2>2. CASE InfoActs(c)
    <3>1. PICK y : y = [req[c] EXCEPT !.pc = "acted", !.type = Key(c).type, !.id = Key(c).id]
      OBVIOUS
    <3>2. y.pc = "acted" /\ y.fn = req[c].fn /\ y.vault = req[c].vault /\ y.uid = req[c].uid
      BY <1>1, <3>1 DEF Records
    <3>3. req' = [req EXCEPT ![c] = y]
      <4>1. req \in [Clients -> Records]
        BY DEF Inv, TypeOK
      <4> QED BY <1>1, <2>2, <3>1, <4>1 DEF InfoActs, ActedOn
    <3> QED BY <3>2, <3>3
  <2> QED BY <2>1, <2>2
<1>4. /\ AbsJob[c].op = "use" /\ AbsJob[c].key = Place(c) /\ AbsJob[c].pc = "asked"
      /\ Ends(c, "acted", "ok")
  BY <1>1, <1>3, CallFollows DEF OpOf
<1>5. AbsStore' = AbsStore /\ AbsLate' = AbsLate
  BY <1>1, StoreStays
<1>6. AbsJob[c].pc = "asked" /\ AbsJob[c].op = "use" /\ AbsStore[AbsJob[c].key] # {}
  BY <1>2, <1>4
<1> QED BY <1>4, <1>5, <1>6 DEF Store!Use, Store!Outcome, Ends, AbsStore, AbsJob, AbsLate, AbsCall

\* A call that returns is answered; getPublicKey turns down a key without a
\* public half.
LEMMA ReturnRefines ==
  ASSUME Inv, NEW c \in Clients, CallReturns(c) PROVE Store!Answer(c) \/ Store!GiveUp(c)
<1>1. req[c] \in Records /\ req[c].pc = "acted" /\ Open(req[c]) /\ UNCHANGED <<store, late>>
  BY Caller DEF CallReturns, Open
<1>2. PICK y : /\ req' = [req EXCEPT ![c] = y] /\ y.pc = "done" /\ y.fn = req[c].fn
               /\ y.vault = req[c].vault /\ y.uid = req[c].uid
  <2>1. PICK z, code : /\ Answer(c, z, code) /\ z \in {req[c], [req[c] EXCEPT
                            !.otype = KmipTypeFor(req[c].type).otype,
                            !.alg = KmipTypeFor(req[c].type).alg]}
    BY DEF CallReturns
  <2>2. PICK y : y = [z EXCEPT !.pc = "done", !.code = code]
    OBVIOUS
  <2>3. y.pc = "done" /\ y.fn = req[c].fn /\ y.vault = req[c].vault /\ y.uid = req[c].uid
    BY <1>1, <2>1, <2>2 DEF Records
  <2>4. req' = [req EXCEPT ![c] = y]
    BY <2>1, <2>2 DEF Answer
  <2> QED BY <2>3, <2>4
<1>3. /\ AbsJob[c].pc = "acted" /\ AbsJob[c].res = "ok"
      /\ Ends(c, "done", "ok") \/ Ends(c, "done", "failed")
  BY <1>1, <1>2, CallFollows
<1>4. AbsStore' = AbsStore /\ AbsLate' = AbsLate
  BY <1>1, StoreStays
<1>5. CASE Ends(c, "done", "ok")
  <2>1. AbsJob' = [AbsJob EXCEPT ![c].pc = "done"]
    <3>1. PICK a : a = AbsJob[c]
      OBVIOUS
    <3>2. \E op, k, p, r : a = [op |-> op, key |-> k, pc |-> p, res |-> r]
      BY <3>1 DEF AbsJob, Job, NoJob
    <3>3. a.res = "ok"
      BY <1>3, <3>1
    <3>4. [a EXCEPT !.pc = "done", !.res = "ok"] = [a EXCEPT !.pc = "done"]
      BY <3>2, <3>3
    <3> QED BY <1>5, <3>1, <3>4 DEF Ends
  <2> QED BY <1>3, <1>4, <2>1 DEF Store!Answer, AbsStore, AbsJob, AbsLate, AbsCall
<1>6. CASE Ends(c, "done", "failed")
  BY <1>3, <1>4, <1>6
     DEF Store!GiveUp, Store!Outcome, Ends, AbsStore, AbsJob, AbsLate, AbsCall
<1> QED BY <1>3, <1>5, <1>6

\* A call that fails has not acted, has acted, or may act late.
LEMMA FailureRefines ==
  ASSUME Inv, NEW c \in Clients, CallFails(c) \/ CallGivenUp(c)
  PROVE  Store!GiveUp(c) \/ Store!GiveUpInFlight(c)
<1>1. Open(req[c]) /\ Place(c) \in Places /\ UNCHANGED store /\ Failed(c)
  BY Caller DEF CallFails, CallGivenUp, Calling, Open
<1>2. PICK y : /\ req' = [req EXCEPT ![c] = y] /\ y.pc = "done" /\ y.fn = req[c].fn
               /\ y.vault = req[c].vault /\ y.uid = req[c].uid /\ ~Succeeded(y)
  BY <1>1, FailedForm
<1>3. /\ AbsJob[c].op = OpOf(req[c].fn) /\ AbsJob[c].key = Place(c)
      /\ req[c].pc = "call" => AbsJob[c].pc = "asked"
      /\ req[c].pc = "acted" => AbsJob[c].pc = "acted"
      /\ Ends(c, "done", "failed")
  BY <1>1, <1>2, CallFollows
<1>4. AbsStore' = AbsStore
  BY <1>1, StoreStays
<1>5. CASE CallFails(c)
  <2>1. AbsJob[c].pc \in {"asked", "acted"} /\ AbsLate' = AbsLate
    BY <1>3, <1>5, StoreStays DEF CallFails
  <2> QED BY <1>3, <1>4, <2>1 DEF Store!GiveUp, Store!Outcome, Ends, AbsStore, AbsJob, AbsLate, AbsCall
<1>6. CASE CallGivenUp(c)
  <2>1. req[c].pc = "call" /\ AbsJob[c].pc = "asked" /\ AbsJob[c].key = Place(c)
        /\ AbsJob[c].op = OpOf(req[c].fn)
    BY <1>3, <1>6 DEF CallGivenUp, Calling
  <2>2. \E to \in Store!Effects(OpOf(req[c].fn)) :
          AbsLate' = AbsLate \cup {[key |-> Place(c), to |-> to]}
    <3>1. CASE /\ req[c].fn = "Create" /\ made < MaxKeys /\ made' = made + 1
               /\ late' = late \cup
                    {[at |-> Place(c), key |-> [type |-> req[c].type, id |-> made']]}
      <4>1. PICK x : x = [at |-> Place(c), key |-> [type |-> req[c].type, id |-> made']]
        OBVIOUS
      <4>2. made' \in 1..MaxKeys
        BY <3>1, Numbers, FrontendAssumption DEF Inv
      <4>3. AbsCall(x) = [key |-> Place(c), to |-> {made'}]
        BY <4>1, <4>2 DEF AbsCall
      <4>4. AbsLate' = AbsLate \cup {AbsCall(x)}
        BY <3>1, <4>1 DEF AbsLate, AbsCall
      <4>5. {made'} \in Store!Effects("create")
        BY <4>2 DEF Store!Effects, Store!Contents
      <4> QED BY <3>1, <4>3, <4>4, <4>5 DEF OpOf
    <3>2. CASE /\ req[c].fn = "Destroy"
               /\ late' = late \cup {[at |-> Place(c), key |-> NoKey]}
      <4>1. PICK x : x = [at |-> Place(c), key |-> NoKey]
        OBVIOUS
      <4>2. AbsCall(x) = [key |-> Place(c), to |-> {}]
        BY <4>1 DEF AbsCall, NoKey
      <4>3. AbsLate' = AbsLate \cup {AbsCall(x)}
        BY <3>2, <4>1 DEF AbsLate, AbsCall
      <4>4. {} \in Store!Effects("destroy")
        BY DEF Store!Effects
      <4> QED BY <3>2, <4>2, <4>3, <4>4 DEF OpOf
    <3> QED BY <1>6, <3>1, <3>2 DEF CallGivenUp, Calling
  <2> QED BY <1>3, <1>4, <2>1, <2>2
          DEF Store!GiveUpInFlight, Store!Outcome, Ends, AbsStore, AbsJob, AbsLate, AbsCall
<1> QED BY <1>5, <1>6

\* Late calls that look the same to the store are the same.
LEMMA CallsApart ==
  ASSUME Inv, NEW x \in late, NEW z \in late, AbsCall(z) = AbsCall(x) PROVE z = x
<1>1. /\ x.key \in Kept /\ z.key \in Kept /\ x = [at |-> x.at, key |-> x.key]
      /\ z = [at |-> z.at, key |-> z.key]
  BY DEF Inv, TypeOK
<1>2. z.at = x.at /\ {z.key.id} \ {0} = {x.key.id} \ {0}
  BY DEF AbsCall
<1>3. z.key.id = x.key.id
  BY <1>2
<1>4. z.key = x.key
  <2>1. CASE x.key.id = 0
    BY <1>1, <1>3, <2>1, Numbers DEF Inv
  <2>2. CASE x.key.id # 0
    <3>1. x.key \in Numbered /\ z.key \in Numbered
      BY <1>1, <1>3, <2>2 DEF Kept, Numbered, NoKey
    <3> QED BY <1>3, <3>1 DEF Inv, Agree, Known
  <2> QED BY <2>1, <2>2
<1> QED BY <1>1, <1>2, <1>4

\* A call that acts late acts on the store.
LEMMA SettleRefines ==
  ASSUME Inv, NEW x \in late, Settle(x) PROVE \E l \in AbsLate : Store!Settle(l)
<1>1. x.at \in Places /\ x.key \in Kept /\ AbsJob' = AbsJob
  BY DEF Settle, Inv, TypeOK, AbsJob
<1>2. AbsStore' = [AbsStore EXCEPT ![x.at] = {x.key.id} \ {0}]
  <2>1. PICK p \in Places : p = x.at
    BY <1>1
  <2>2. PICK key : key = x.key
    OBVIOUS
  <2>3. Stores(p[1], p[2], key)
    BY <2>1, <2>2 DEF Settle
  <2>4. AbsStore' = [AbsStore EXCEPT ![p] = {key.id} \ {0}]
    BY <2>3, StoreFollows
  <2> QED BY <2>1, <2>2, <2>4
<1>3. PICK l : l = AbsCall(x)
  OBVIOUS
<1>4. l \in AbsLate /\ l.key = x.at /\ l.to = {x.key.id} \ {0}
  BY <1>3 DEF AbsLate, AbsCall
<1>5. AbsLate' = AbsLate \ {l} \/ (l.to = {} /\ AbsLate' = AbsLate)
  <2>1. CASE late' = late \ {x}
    <3>1. \A z \in late : AbsCall(z) = l => z = x
      BY <1>3, CallsApart
    <3> QED BY <1>3, <2>1, <3>1 DEF AbsLate, AbsCall
  <2>2. CASE x.key = NoKey /\ late' = late
    <3>1. l.to = {}
      BY <1>4, <2>2 DEF NoKey
    <3> QED BY <2>2, <3>1, StoreStays
  <2> QED BY <2>1, <2>2 DEF Settle
<1> QED BY <1>1, <1>2, <1>4, <1>5
        DEF Store!Settle, AbsStore, AbsJob, AbsLate, AbsCall

\* Both request surfaces together are an atomic key store per vault: a request
\* acts at most once and at one moment, on the vault of the session it took as it
\* began, and is answered with success only if it did; one that fails may have
\* acted, or act later (server.go, the handlers; control/server.go, createKey,
\* sign, getPublicKey).
THEOREM FrontendIsAtomicStore == Spec => AtomicStore
<1>1. Init => Store!Init
  <2> SUFFICES ASSUME Init PROVE Store!Init
    OBVIOUS
  <2>1. Inv
    BY InitInv
  <2>2. \A k \in Places : {KeyAt(k).id} \ {0} \in Store!Contents
    <3> SUFFICES ASSUME NEW k \in Places PROVE {KeyAt(k).id} \ {0} \in Store!Contents
      OBVIOUS
    <3>1. KeyAt(k).id \in 0..made /\ made \in 0..MaxKeys
      BY <2>1, Numbers DEF Inv, TypeOK
    <3>2. KeyAt(k).id = 0 \/ KeyAt(k).id \in 1..MaxKeys
      BY <3>1, FrontendAssumption
    <3>3. CASE KeyAt(k).id = 0
      <4>1. {KeyAt(k).id} \ {0} = {}
        BY <3>3
      <4> QED BY <4>1 DEF Store!Contents
    <3>4. CASE KeyAt(k).id \in 1..MaxKeys
      <4>1. {KeyAt(k).id} \ {0} = {KeyAt(k).id}
        BY <3>4
      <4> QED BY <3>4, <4>1 DEF Store!Contents
    <3> QED BY <3>2, <3>3, <3>4
  <2>3. \A c \in Clients : Job(req[c]) = NoJob
    BY DEF Init, Idle, Job
  <2>4. late = {}
    BY DEF Init
  <2> QED BY <2>2, <2>3, <2>4 DEF Store!Init, Store!Idle, NoJob
<1>2. Inv /\ [Next]_vars => [Store!Next]_(Store!vars)
  <2> SUFFICES ASSUME Inv, [Next]_vars PROVE [Store!Next]_(Store!vars)
    OBVIOUS
  <2>1. ASSUME UNCHANGED <<store, late, req>> PROVE UNCHANGED Store!vars
    BY <2>1 DEF Store!vars, KeyAt
  <2>2. ASSUME NEW c \in Clients, RequestStep(c) PROVE Store!Next
    BY <2>2, KmipCreateArrives, OtherArrives, ArrivalRefines, CreateRefines,
       DestroyRefines, UseRefines, ReturnRefines, FailureRefines DEF RequestStep, Store!Next
  <2>3. ASSUME NEW x \in late, Settle(x) PROVE Store!Next
    BY <2>3, SettleRefines DEF Store!Next, AbsLate, AbsCall
  <2> QED BY <2>1, <2>2, <2>3 DEF Next, SetSession, vars
<1> QED BY <1>1, <1>2, Invariant, PTL DEF Spec, AtomicStore, Store!Spec

=============================================================================
