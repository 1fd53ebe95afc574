------------------------- MODULE VaultSessionProofs --------------------------
(***************************************************************************)
(* Theorems about VaultSession.  Whatever endpoint lists the platform      *)
(* hands out: types, that stored material is catalogued, and what a scan   *)
(* of a list establishes.  On a constellation that may change behind its   *)
(* first vault: that a successful Destroy leaves nothing, that a key that  *)
(* is there is not reported missing, and that the session is the store of  *)
(* KeyStore.                                                               *)
(***************************************************************************)
EXTENDS VaultSession, TLAPS

-----------------------------------------------------------------------------
(***************************************************************************)
(* The inductive invariant for any lists.  Of a request x, with what the   *)
(* vaults hold (h), what is catalogued (cat) and the number of materials   *)
(* generated (n): a scan has left nothing of what the request saw on the   *)
(* endpoints behind it that answered.  For that to last, material that is  *)
(* still to be stored must be new to every vault and every request: that   *)
(* of a pending create (Fresh) and that of a call that was given up        *)
(* (LateSound).                                                            *)
(***************************************************************************)
Pending(x) == x.pc \in {"mint", "put"}

\* Nothing of what x saw is left on those of the first n endpoints of its list
\* that answered.
Walked(x, h, n) == \A k \in (1..n) \ x.errs : x.seen \cap h[x.list[k]] = {}

Deletes(x)   == x.pc = "done" /\ x.op = "destroy" /\ x.res = "ok"
FindsNone(x) == x.pc = "done" /\ x.op = "use" /\ x.res = "absent"

Sound(x, h, cat, n) ==
  /\ x.i <= Len(x.list) + 1
  /\ Pending(x) => x.id > 0 /\ x.i = 1
  /\ x.pc = "put" => Len(x.list) > 0 /\ x.name \in cat
  /\ \A m \in x.seen : m.name = x.name /\ m.id <= n
  /\ x.pc = "scan" => Walked(x, h, x.i - 1)
  /\ (Deletes(x) \/ FindsNone(x)) => Walked(x, h, Len(x.list))
  /\ Deletes(x) /\ x.errs # {} => x.deleted
  /\ FindsNone(x) => x.errs = {}

\* Material number i is on no vault, and no request has seen it.
Unseen(i) ==
  /\ \A e \in Endpoints : \A m \in held[e] : m.id # i
  /\ \A r \in Requests : \A m \in req[r].seen : m.id # i

\* The material of a create that is still to be stored.
Fresh(x, q) ==
  Pending(x) =>
    /\ Unseen(x.id)
    /\ \A l \in late : \A m \in l.to : m.id # x.id
    /\ \A r \in Requests : (r # q /\ Pending(req[r])) => req[r].id # x.id

\* The material of a create that was given up.
LateSound(l) ==
  /\ \A m, p \in l.to : m = p
  /\ \A m \in l.to :
       /\ m.name = l.name /\ m.name \in catalogue /\ m.id <= keys /\ Unseen(m.id)
       /\ \A k \in late : \A p \in k.to : p.id = m.id => k = l

Catalogued(h, cat, n) ==
  \A e \in Endpoints : \A m \in h[e] : m.name \in cat /\ m.id <= n

Inv ==
  /\ TypeOK
  /\ Catalogued(held, catalogue, keys)
  /\ \A r \in Requests : Sound(req[r], held, catalogue, keys)
  /\ \A r \in Requests : Fresh(req[r], r)
  /\ \A l \in late : LateSound(l)

(***************************************************************************)
(* The inductive invariant for a constellation that keeps its first vault, *)
(* whatever it does with the others.  Only that vault ever holds material, *)
(* so a scan knows after its first answer what there is to know: Left(x, h)*)
(* is what x saw and is there.                                             *)
(***************************************************************************)
Anchored == \A k, l \in Layouts : k # <<>> /\ k[1] = l[1]

Left(x, h) == x.seen \cap UNION {h[e] : e \in Endpoints}

OnFirst(h) == \A e \in Endpoints : h[e] # {} => e = layout[1]

\* Nor will one that was given up put material on another vault.
LateOnFirst(L) == \A l \in L : l.to # {} => l.at = layout[1]

Settled(x, h) ==
  /\ x.pc # "idle" => x.list \in Layouts
  /\ (x.i = 1 \/ Pending(x)) => (~x.deleted /\ x.errs = {})
  /\ x.pc \in {"mint", "put", "scan"} => x.res = "none"
  /\ (x.pc = "scan" /\ x.i > 1 /\ (x.deleted \/ x.errs = {})) => Left(x, h) = {}
  /\ (Deletes(x) \/ FindsNone(x)) => Left(x, h) = {}

AnchoredInv ==
  /\ OnFirst(held) /\ LateOnFirst(late)
  /\ \A r \in Requests : Settled(req[r], held)

-----------------------------------------------------------------------------
\* An endpoint list names endpoints.
LEMMA ListTyped ==
  ASSUME NEW l \in Layouts \cup {<<>>}
  PROVE  l \in Seq(Endpoints) /\ Len(l) \in Nat /\ \A k \in 1..Len(l) : l[k] \in Endpoints
<1>1. CASE l \in Layouts
  BY <1>1, SessionAssumption
<1>2. CASE l = <<>>
  BY <1>2
<1> QED BY <1>1, <1>2

\* What a request has walked past without finding stays not found, as long as
\* only material that it did not see is stored.
LEMMA WalkedStays ==
  ASSUME NEW x, NEW h, NEW g, NEW n, \A k \in 1..n : x.list[k] \in Endpoints,
         \A e \in Endpoints : \A m \in g[e] : m \in h[e] \/ m \notin x.seen,
         Walked(x, h, n)
  PROVE  Walked(x, g, n)
BY DEF Walked

\* What request r had pending, as it is stored, or given up.
Its(r, y, m) == req[r].pc = "put" /\ ~Pending(y) /\ m.id = req[r].id /\ m.name = req[r].name

\* A step of request r: what it stores is the material it had pending, and so is
\* what it gives up; what it sees was there; and what it has pending is new or was
\* pending before.
Extends(r, y) ==
  /\ \A e \in Endpoints : \A m \in held'[e] : m \in held[e] \/ Its(r, y, m)
  /\ \/ late' = late
     \/ /\ held' = held
        /\ \E l \in Calls : /\ late' = late \cup {l} /\ l.name = req[r].name
                            /\ \A m, p \in l.to : m = p
                            /\ \A m \in l.to : Its(r, y, m)
  /\ \A m \in y.seen : m \in req[r].seen \/ \E e \in Endpoints : m \in held[e]
  /\ Pending(y) => \/ Pending(req[r]) /\ y.id = req[r].id /\ y.seen = req[r].seen
                   \/ y.id = keys + 1

\* Material numbers known so far are at most keys.
LEMMA Numbers ==
  ASSUME Inv
  PROVE  /\ keys \in Nat /\ \A q \in Requests : req[q].id \in Nat /\ req[q].id <= keys
         /\ \A e \in Endpoints : \A m \in held[e] : m.id \in Nat /\ m.id <= keys
         /\ \A q \in Requests : \A m \in req[q].seen : m.id \in Nat /\ m.id <= keys
         /\ \A l \in late : \A m \in l.to : m.id \in Nat /\ m.id <= keys
<1>1. keys \in Nat /\ \A q \in Requests : req[q].id \in Nat /\ req[q].id <= keys
  BY SessionAssumption DEF Inv, TypeOK, Records
<1>2. /\ \A e \in Endpoints : \A m \in held[e] : m.id \in Nat /\ m.id <= keys
      /\ \A q \in Requests : \A m \in req[q].seen : m.id \in Nat /\ m.id <= keys
  BY SessionAssumption DEF Inv, Catalogued, Sound, TypeOK, Records, Materials
<1>3. \A l \in late : \A m \in l.to : m.id \in Nat /\ m.id <= keys
  BY SessionAssumption DEF Inv, LateSound, TypeOK, Calls, Materials
<1> QED BY <1>1, <1>2, <1>3

\* A number nobody knows stays so, unless it is the pending one of request r.
LEMMA UnseenStays ==
  ASSUME Inv, NEW r \in Requests, NEW y, req' = [req EXCEPT ![r] = y], Extends(r, y),
         NEW i, Unseen(i), (req[r].pc = "put" /\ ~Pending(y)) => i # req[r].id \/ held' = held
  PROVE  Unseen(i)'
<1>1. req'[r] = y /\ \A q \in Requests : q # r => req'[q] = req[q]
  BY DEF Inv, TypeOK
<1>2. \A e \in Endpoints : \A m \in held'[e] : m.id # i
  BY DEF Extends, Unseen, Its
<1>3. \A q \in Requests : \A m \in req'[q].seen : m.id # i
  BY <1>1 DEF Extends, Unseen
<1> QED BY <1>2, <1>3 DEF Unseen

\* Materials that are to be stored stay new.
LEMMA FreshStays ==
  ASSUME Inv, NEW r \in Requests, NEW y, req' = [req EXCEPT ![r] = y], Extends(r, y)
  PROVE  \A q \in Requests : Fresh(req[q], q)'
<1>1. req'[r] = y /\ \A q \in Requests : q # r => req'[q] = req[q]
  BY DEF Inv, TypeOK
<1>2. ASSUME NEW q \in Requests, q # r, Pending(req[q])
      PROVE  Fresh(req[q], q)'
  <2>1. Fresh(req[q], q)
    BY DEF Inv
  <2>2. (req[r].pc = "put" /\ ~Pending(y)) => req[q].id # req[r].id
    BY <1>2, <2>1 DEF Fresh, Pending
  <2>3. Unseen(req[q].id)'
    BY <1>1, <1>2, <2>1, <2>2, UnseenStays DEF Fresh
  <2>4. \A l \in late' : \A m \in l.to : m.id # req[q].id
    BY <1>2, <2>1, <2>2 DEF Extends, Fresh, Its
  <2>5. \A p \in Requests : (p # q /\ Pending(req'[p])) => req'[p].id # req[q].id
    BY <1>1, <1>2, <2>1, Numbers DEF Extends, Fresh
  <2> QED BY <1>1, <1>2, <2>3, <2>4, <2>5 DEF Fresh
<1>3. ASSUME Pending(y) PROVE Fresh(req[r], r)'
  <2>1. /\ \A e \in Endpoints : held'[e] \subseteq held[e]
        /\ \A l \in late' : l \in late \/ l.to = {}
    BY <1>3 DEF Extends, Its
  <2>2. CASE Pending(req[r]) /\ y.id = req[r].id /\ y.seen = req[r].seen
    <3>1. Fresh(req[r], r)
      BY DEF Inv
    <3>2. Unseen(y.id)'
      BY <1>1, <2>1, <2>2, <3>1 DEF Fresh, Unseen
    <3>3. \A p \in Requests : (p # r /\ Pending(req'[p])) => req'[p].id # y.id
      BY <1>1, <2>2, <3>1 DEF Fresh
    <3> QED BY <1>1, <2>1, <2>2, <3>1, <3>2, <3>3 DEF Fresh
  <2>3. CASE y.id = keys + 1
    <3>1. Unseen(y.id)
      BY <2>3, Numbers DEF Unseen
    <3>2. Unseen(y.id)'
      BY <1>3, <3>1, UnseenStays
    <3>3. \A p \in Requests : (p # r /\ Pending(req'[p])) => req'[p].id # y.id
      BY <1>1, <2>3, Numbers
    <3>4. \A l \in late' : \A m \in l.to : m.id # y.id
      BY <2>1, <2>3, Numbers
    <3> QED BY <1>1, <3>2, <3>3, <3>4 DEF Fresh
  <2> QED BY <1>3, <2>2, <2>3 DEF Extends
<1> QED BY <1>1, <1>2, <1>3 DEF Fresh

\* So do those of calls that were given up.
LEMMA LateStays ==
  ASSUME Inv, NEW r \in Requests, NEW y, req' = [req EXCEPT ![r] = y], Extends(r, y),
         keys' \in Nat, keys <= keys', catalogue \subseteq catalogue'
  PROVE  late' \subseteq Calls /\ \A l \in late' : LateSound(l)'
<1>1. Fresh(req[r], r)
  BY DEF Inv
<1>2. ASSUME NEW l \in late, NEW m \in l.to
      PROVE  /\ m.name = l.name /\ m.name \in catalogue' /\ m.id <= keys' /\ Unseen(m.id)'
             /\ \A k \in late' : \A p \in k.to : p.id = m.id => k = l
  <2>1. LateSound(l)
    BY DEF Inv
  <2>2. (req[r].pc = "put" /\ ~Pending(y)) => m.id # req[r].id
    BY <1>1 DEF Fresh, Pending
  <2>3. Unseen(m.id)'
    BY <2>1, <2>2, UnseenStays DEF LateSound
  <2>4. \A k \in late' : \A p \in k.to : p.id = m.id => k = l
    BY <2>1, <2>2 DEF Extends, LateSound, Its
  <2> QED BY <2>1, <2>3, <2>4, Numbers DEF LateSound
<1>3. CASE late' = late
  BY <1>2, <1>3 DEF Inv, TypeOK, LateSound
<1>4. CASE late' # late
  <2>1. held' = held
    BY <1>4 DEF Extends
  <2>2. PICK l \in Calls : /\ late' = late \cup {l} /\ l.name = req[r].name
                           /\ \A m, p \in l.to : m = p
                           /\ \A m \in l.to : Its(r, y, m)
    BY <1>4 DEF Extends
  <2>3. ASSUME NEW m \in l.to
        PROVE  /\ m.name = l.name /\ m.name \in catalogue' /\ m.id <= keys' /\ Unseen(m.id)'
               /\ \A k \in late' : \A p \in k.to : p.id = m.id => k = l
    <3>1. Pending(req[r]) /\ m.id = req[r].id /\ m.name = req[r].name
          /\ req[r].pc = "put"
      BY <2>2 DEF Its, Pending
    <3>2. Unseen(m.id)'
      BY <1>1, <2>1, <3>1, UnseenStays DEF Fresh
    <3>3. m.name \in catalogue'
      BY <3>1 DEF Inv, Sound
    <3>4. \A k \in late' : \A p \in k.to : p.id = m.id => k = l
      BY <1>1, <2>2, <3>1 DEF Fresh
    <3> QED BY <2>2, <3>1, <3>2, <3>3, <3>4, Numbers
  <2>4. ASSUME NEW k \in late' PROVE LateSound(k)'
    <3>1. \A m, p \in k.to : m = p
      BY <2>2 DEF Inv, LateSound
    <3> QED BY <1>2, <2>2, <2>3, <3>1 DEF LateSound
  <2> QED BY <2>2, <2>4 DEF Inv, TypeOK
<1> QED BY <1>3, <1>4

\* A step of one request keeps the invariant if the request satisfies it after.
LEMMA OneRequest ==
  ASSUME Inv, NEW r \in Requests, NEW y, y \in Records', req' = [req EXCEPT ![r] = y],
         UNCHANGED <<layout, eps>>, keys' \in keys..MaxKeys,
         catalogue \subseteq catalogue', catalogue' \subseteq Names,
         held' \in [Endpoints -> SUBSET Materials],
         Extends(r, y), Sound(y, held', catalogue', keys')
  PROVE  Inv'
<1>1. keys \in Nat /\ keys' \in Nat /\ keys <= keys' /\ keys' \in 0..MaxKeys
  BY SessionAssumption DEF Inv, TypeOK
<1>2. req'[r] = y /\ \A q \in Requests : q # r => req'[q] = req[q]
  BY DEF Inv, TypeOK
<1>3. req' \in [Requests -> Records']
  BY <1>1 DEF Inv, TypeOK, Records
<1>4. Catalogued(held', catalogue', keys')
  <2> SUFFICES ASSUME NEW e \in Endpoints, NEW m \in held'[e]
               PROVE  m.name \in catalogue' /\ m.id <= keys'
    BY DEF Catalogued
  <2>1. CASE m \in held[e]
    <3>1. m.id \in Nat /\ m.id <= keys /\ m.name \in catalogue
      BY <2>1 DEF Inv, Catalogued, TypeOK, Materials
    <3> QED BY <1>1, <3>1
  <2>2. CASE Its(r, y, m)
    <3>1. req[r].id \in Nat /\ req[r].id <= keys /\ req[r].name \in catalogue
      BY <1>1, <2>2 DEF Inv, Sound, TypeOK, Records, Its
    <3> QED BY <1>1, <2>2, <3>1 DEF Its
  <2> QED BY <2>1, <2>2 DEF Extends
<1>5. ASSUME NEW q \in Requests PROVE Sound(req'[q], held', catalogue', keys')
  <2>1. CASE q = r  BY <1>2, <2>1
  <2>2. CASE q # r
    <3> DEFINE x == req[q]
    <3>1. x \in Records /\ Sound(x, held, catalogue, keys)
      BY DEF Inv, TypeOK
    <3>2. \A e \in Endpoints : \A m \in held'[e] : m \in held[e] \/ m \notin x.seen
      <4>1. req[r].pc = "put" => \A m \in x.seen : m.id # req[r].id
        BY DEF Inv, Fresh, Unseen, Pending
      <4> QED BY <4>1 DEF Extends, Its
    <3>3. Len(x.list) \in Nat /\ x.i \in Nat \ {0} /\ x.i <= Len(x.list) + 1
          /\ \A k \in 1..Len(x.list) : x.list[k] \in Endpoints
      BY <3>1, ListTyped DEF Records, Sound
    <3>4. ASSUME NEW n \in 0..Len(x.list), Walked(x, held, n) PROVE Walked(x, held', n)
      BY <3>2, <3>3, <3>4, WalkedStays
    <3>5. x.i - 1 \in 0..Len(x.list) /\ Len(x.list) \in 0..Len(x.list)
      BY <3>3
    <3>6. \A m \in x.seen : m.name = x.name /\ m.id <= keys'
      BY <1>1, <3>1 DEF Sound, Records, Materials
    <3>7. Sound(x, held', catalogue', keys')
      BY <3>1, <3>4, <3>5, <3>6 DEF Sound
    <3> QED BY <1>2, <2>2, <3>7
  <2> QED BY <2>1, <2>2
<1>6. late' \subseteq Calls /\ \A l \in late' : LateSound(l)'
  BY <1>1, LateStays
<1>7. TypeOK'
  <2>1. ASSUME NEW q \in Requests
        PROVE  /\ req'[q].i <= Len(req'[q].list) + 1
               /\ req'[q].pc = "put" => (Len(req'[q].list) > 0 /\ req'[q].id > 0)
    BY <1>5 DEF Sound, Pending
  <2> QED BY <1>1, <1>3, <1>6, <2>1 DEF Inv, TypeOK
<1>8. \A q \in Requests : Fresh(req[q], q)'
  BY FreshStays
<1> QED BY <1>4, <1>5, <1>6, <1>7, <1>8 DEF Inv

-----------------------------------------------------------------------------
(***************************************************************************)
(* The forms of a step of request r: what the request is after it (y), and *)
(* what it does to the rest.  Like says which fields a request keeps until *)
(* it is answered.                                                         *)
(***************************************************************************)
Like(y, x) ==
  /\ y.op = x.op /\ y.name = x.name /\ y.id = x.id /\ y.seen = x.seen /\ y.i \in Nat \ {0}
  /\ y.deleted \in BOOLEAN /\ y.errs \in SUBSET Nat

\* A request that begins, with the installed session's list, at its start.
NewRequest(r, y) ==
  /\ y \in Records' /\ req' = [req EXCEPT ![r] = y]
  /\ y.list = eps /\ y.i = 1 /\ ~y.deleted /\ y.errs = {}
  /\ \A m \in y.seen : m.name = y.name /\ m.id <= keys /\ \E e \in Endpoints : m \in held[e]
  /\ \/ y.pc = "scan" /\ y.op \in {"use", "destroy"} /\ y.res = "none" /\ UNCHANGED keys
     \/ y.pc = "done" /\ y.op # "none" /\ y.res = "failed" /\ UNCHANGED keys
     \/ y.pc = "mint" /\ y.op = "create" /\ y.res = "none" /\ y.id = keys' /\ keys' = keys + 1

\* A request that is answered.
Answered(r, y) ==
  /\ y \in Records /\ req' = [req EXCEPT ![r] = y]
  /\ Like(y, req[r]) /\ y.list = req[r].list /\ y.i = req[r].i
  /\ y.deleted = req[r].deleted /\ y.errs = req[r].errs /\ y.pc = "done"

\* A request that goes on to the next endpoint.
WalksOn(r, y) ==
  /\ req[r].pc = "scan" /\ req[r].i <= Len(req[r].list) /\ req[r].op \in {"use", "destroy"}
  /\ y \in Records /\ req' = [req EXCEPT ![r] = y]
  /\ Like(y, req[r]) /\ y.list = req[r].list /\ y.i = req[r].i + 1
  /\ y.pc = "scan" /\ y.res = req[r].res

\* The fields of a request that begins.
LEMMA BeginTyped ==
  ASSUME Inv, NEW op \in {"use", "destroy", "create"}, NEW n \in Names
  PROVE  /\ Begin(op, n) \in Records
         /\ LET x == Begin(op, n)
            IN  /\ x.op = op /\ x.name = n /\ x.pc = "idle" /\ x.list = eps /\ x.i = 1
                /\ ~x.deleted /\ x.errs = {} /\ x.res = "none" /\ x.id = 0
                /\ \A m \in x.seen : /\ m.name = n /\ m.id <= keys
                                     /\ \E e \in Endpoints : m \in held[e]
<1>1. Idle \in Records
  BY SessionAssumption DEF Idle, Records, Steps, Inv, TypeOK
<1>2. eps \in Layouts
  BY DEF Inv, TypeOK
<1>3. Named(HeldAnywhere, n) \subseteq Materials
      /\ \A m \in Named(HeldAnywhere, n) :
           m.name = n /\ m.id <= keys /\ \E e \in Endpoints : m \in held[e]
  BY DEF Named, HeldAnywhere, Inv, TypeOK, Catalogued
<1>4. Begin(op, n) \in Records
  BY <1>1, <1>2, <1>3 DEF Begin, Records
<1> QED BY <1>3, <1>4 DEF Begin, Idle

\* A create's material is the next one; nothing else is touched.
LEMMA BeginForm ==
  ASSUME Inv, NEW r \in Requests, BeginScan(r) \/ BeginCreate(r) \/ BeginFails(r)
  PROVE  /\ UNCHANGED <<layout, eps, held, catalogue, late>> /\ keys' \in keys..MaxKeys
         /\ req[r].pc \in {"idle", "done"}
         /\ \E y : NewRequest(r, y)
<1>1. /\ UNCHANGED <<layout, eps, held, catalogue, late>> /\ keys' \in keys..MaxKeys
      /\ req[r].pc \in {"idle", "done"} /\ Records \subseteq Records'
  <2>1. /\ UNCHANGED <<layout, eps, held, catalogue, late>> /\ req[r].pc \in {"idle", "done"}
        /\ keys' = keys \/ (keys' = keys + 1 /\ keys < MaxKeys)
    BY DEF BeginScan, BeginCreate, BeginFails
  <2>2. keys \in Nat /\ keys <= MaxKeys /\ MaxKeys \in Nat
    BY SessionAssumption DEF Inv, TypeOK
  <2>3. keys' \in keys..MaxKeys /\ 0..keys \subseteq 0..keys'
    BY <2>1, <2>2
  <2> QED BY <2>1, <2>3 DEF Records
<1>2. CASE BeginScan(r)
  <2>1. PICK n \in Names, op \in {"use", "destroy"} :
          req' = [req EXCEPT ![r] = [Begin(op, n) EXCEPT !.pc = "scan"]]
    BY <1>2 DEF BeginScan
  <2>2. PICK x : x = Begin(op, n)
    OBVIOUS
  <2>3. PICK y : y = [x EXCEPT !.pc = "scan"]
    OBVIOUS
  <2>4. /\ x \in Records /\ x.op = op /\ x.name = n /\ x.list = eps /\ x.i = 1
        /\ ~x.deleted /\ x.errs = {} /\ x.res = "none"
        /\ \A m \in x.seen : m.name = n /\ m.id <= keys /\ \E e \in Endpoints : m \in held[e]
    BY <2>2, BeginTyped
  <2>5. /\ y \in Records /\ y.op = op /\ y.name = n /\ y.list = eps /\ y.i = 1 /\ y.pc = "scan"
        /\ ~y.deleted /\ y.errs = {} /\ y.res = "none" /\ y.seen = x.seen
    BY <2>3, <2>4 DEF Records, Steps
  <2>6. NewRequest(r, y)
    BY <1>1, <1>2, <2>1, <2>2, <2>3, <2>4, <2>5 DEF NewRequest, BeginScan
  <2> QED BY <1>1, <2>6
<1>3. CASE BeginFails(r)
  <2>1. PICK n \in Names, op \in {"use", "destroy", "create"} :
          req' = [req EXCEPT ![r] = [Begin(op, n) EXCEPT !.pc = "done", !.res = "failed"]]
    BY <1>3 DEF BeginFails
  <2>2. PICK x : x = Begin(op, n)
    OBVIOUS
  <2>3. PICK y : y = [x EXCEPT !.pc = "done", !.res = "failed"]
    OBVIOUS
  <2>4. /\ x \in Records /\ x.op = op /\ x.name = n /\ x.list = eps /\ x.i = 1
        /\ ~x.deleted /\ x.errs = {}
        /\ \A m \in x.seen : m.name = n /\ m.id <= keys /\ \E e \in Endpoints : m \in held[e]
    BY <2>2, BeginTyped
  <2>5. /\ y \in Records /\ y.op = op /\ y.name = n /\ y.list = eps /\ y.i = 1 /\ y.pc = "done"
        /\ ~y.deleted /\ y.errs = {} /\ y.res = "failed" /\ y.seen = x.seen
    BY <2>3, <2>4 DEF Records, Steps
  <2>6. NewRequest(r, y)
    BY <1>1, <1>3, <2>1, <2>2, <2>3, <2>4, <2>5 DEF NewRequest, BeginFails
  <2> QED BY <1>1, <2>6
<1>4. CASE BeginCreate(r)
  <2>1. PICK n \in Names :
          req' = [req EXCEPT ![r] = [Begin("create", n) EXCEPT !.pc = "mint", !.id = keys']]
    BY <1>4 DEF BeginCreate
  <2>2. PICK x : x = Begin("create", n)
    OBVIOUS
  <2>3. PICK y : y = [x EXCEPT !.pc = "mint", !.id = keys']
    OBVIOUS
  <2>4. /\ x \in Records /\ x.op = "create" /\ x.name = n /\ x.list = eps /\ x.i = 1
        /\ ~x.deleted /\ x.errs = {} /\ x.res = "none"
        /\ \A m \in x.seen : m.name = n /\ m.id <= keys /\ \E e \in Endpoints : m \in held[e]
    BY <2>2, BeginTyped
  <2>5. keys' = keys + 1 /\ keys' \in 0..keys'
    <3>1. keys \in Nat
      BY SessionAssumption DEF Inv, TypeOK
    <3>2. keys' = keys + 1
      BY <1>4 DEF BeginCreate
    <3> QED BY <3>1, <3>2
  <2>6. /\ y \in Records' /\ y.op = "create" /\ y.name = n /\ y.list = eps /\ y.i = 1
        /\ y.pc = "mint" /\ y.id = keys' /\ ~y.deleted /\ y.errs = {} /\ y.res = "none"
        /\ y.seen = x.seen
    BY <1>1, <2>3, <2>4, <2>5 DEF Records, Steps
  <2>7. NewRequest(r, y)
    BY <2>1, <2>2, <2>3, <2>4, <2>5, <2>6 DEF NewRequest
  <2> QED BY <1>1, <2>7
<1> QED BY <1>2, <1>3, <1>4

\* Finish changes the place and the outcome.
LEMMA FinishForm ==
  ASSUME Inv, NEW r \in Requests, NEW res \in {"ok", "failed", "absent"}, Finish(r, res)
  PROVE  \E y : Answered(r, y) /\ y.res = res
<1>1. req[r] \in Records
  BY DEF Inv, TypeOK
<1>2. PICK y : y = [req[r] EXCEPT !.pc = "done", !.res = res]
  OBVIOUS
<1>3. y \in Records /\ y.pc = "done" /\ y.res = res
  BY <1>1, <1>2 DEF Records, Steps
<1>4. Like(y, req[r]) /\ y.list = req[r].list /\ y.i = req[r].i
      /\ y.deleted = req[r].deleted /\ y.errs = req[r].errs
  BY <1>1, <1>2 DEF Records, Like
<1>5. req' = [req EXCEPT ![r] = y]
  BY <1>1, <1>2 DEF Finish, Records
<1> QED BY <1>3, <1>4, <1>5 DEF Answered

\* The endpoint's error is remembered, if there is one.
LEMMA NextForm ==
  ASSUME Inv, NEW r \in Requests, NEW err \in BOOLEAN, NextEndpoint(r, err),
         req[r].pc = "scan", req[r].i <= Len(req[r].list), req[r].op \in {"use", "destroy"}
  PROVE  \E y : /\ WalksOn(r, y) /\ y.deleted = req[r].deleted
                /\ y.errs = req[r].errs \cup (IF err THEN {req[r].i} ELSE {})
<1> DEFINE x == req[r]
<1>1. x \in Records
  BY DEF Inv, TypeOK
<1>2. PICK S : S = x.errs \cup (IF err THEN {x.i} ELSE {})
  OBVIOUS
<1>3. PICK y : y = [x EXCEPT !.i = @ + 1, !.errs = S]
  OBVIOUS
<1>4. req' = [req EXCEPT ![r] = y]
  BY <1>1, <1>2, <1>3 DEF NextEndpoint, Inv, TypeOK, Records
<1>5. x.i + 1 \in Nat \ {0} /\ S \in SUBSET Nat
  BY <1>1, <1>2 DEF Records
<1>6. /\ y \in Records /\ y.pc = "scan" /\ y.list = x.list /\ y.i = x.i + 1
      /\ y.res = x.res /\ y.deleted = x.deleted /\ y.errs = S
  BY <1>1, <1>3, <1>5 DEF Records
<1>7. Like(y, x)
  BY <1>1, <1>3, <1>5, <1>6 DEF Like, Records
<1> QED BY <1>2, <1>4, <1>6, <1>7 DEF WalksOn

\* The first endpoint of a request that asks one is an endpoint.
LEMMA HereTyped ==
  ASSUME Inv, NEW r \in Requests, req[r].i <= Len(req[r].list)
  PROVE  Here(r) \in Endpoints /\ Here(r) = req[r].list[req[r].i] /\ DeleteCall(r) \in Calls
<1>1. req[r] \in Records
  BY DEF Inv, TypeOK
<1>2. Here(r) \in Endpoints
  BY <1>1, ListTyped DEF Here, Records
<1> QED BY <1>1, <1>2 DEF Here, DeleteCall, Calls, Records

\* An endpoint without an answer is remembered; one without the key is passed.
LEMMA PassForm ==
  ASSUME Inv, NEW r \in Requests, EndpointFails(r) \/ EndpointNotFound(r) \/ DeleteLost(r)
  PROVE  /\ UNCHANGED <<layout, eps, held, catalogue, keys>>
         /\ \/ late' = late
            \/ /\ late' = late \cup {DeleteCall(r)} /\ DeleteCall(r) \in Calls
               /\ DeleteLost(r)
         /\ \E y : /\ WalksOn(r, y) /\ y.deleted = req[r].deleted
                   /\ \/ y.errs = req[r].errs \cup {req[r].i}
                      \/ y.errs = req[r].errs /\ ~Holds(r) /\ ~DeleteLost(r)
<1>1. /\ req[r].pc = "scan" /\ req[r].i <= Len(req[r].list) /\ req[r].op \in {"use", "destroy"}
      /\ UNCHANGED <<layout, eps, held, catalogue, keys>>
      /\ late' = late \/ (DeleteLost(r) /\ late' = late \cup {DeleteCall(r)})
  BY DEF EndpointFails, EndpointNotFound, DeleteLost, Scanning, At
<1>2. PICK err \in BOOLEAN : NextEndpoint(r, err) /\ (err \/ (~Holds(r) /\ ~DeleteLost(r)))
  BY DEF EndpointFails, EndpointNotFound, DeleteLost
<1>3. PICK y : /\ WalksOn(r, y) /\ y.deleted = req[r].deleted
               /\ y.errs = req[r].errs \cup (IF err THEN {req[r].i} ELSE {})
  BY <1>1, <1>2, NextForm
<1> QED BY <1>1, <1>2, <1>3, HereTyped

\* A vault deletes what it holds under the name.
LEMMA DeleteForm ==
  ASSUME Inv, NEW r \in Requests, VaultDeletes(r)
  PROVE  /\ UNCHANGED <<layout, eps, catalogue, keys, late>> /\ Here(r) \in Endpoints /\ Holds(r)
         /\ held' = [held EXCEPT ![Here(r)] = @ \ Named(@, req[r].name)]
         /\ req[r].op = "destroy"
         /\ \E y : WalksOn(r, y) /\ y.deleted /\ y.errs = req[r].errs
<1> DEFINE x == req[r]
<1>1. x \in Records /\ x.pc = "scan" /\ x.i <= Len(x.list) /\ x.op = "destroy" /\ Holds(r)
      /\ UNCHANGED <<layout, eps, catalogue, keys, late>> /\ Does(DeleteCall(r))
  BY DEF VaultDeletes, Scanning, At, Inv, TypeOK
<1>2. Here(r) \in Endpoints
  BY <1>1, HereTyped
<1>3. held' = [held EXCEPT ![Here(r)] = @ \ Named(@, x.name)]
  BY <1>1, <1>2 DEF Does, DeleteCall, Inv, TypeOK
<1>4. PICK y : y = [x EXCEPT !.i = @ + 1, !.deleted = TRUE]
  OBVIOUS
<1>5. req' = [req EXCEPT ![r] = y]
  BY <1>1, <1>4 DEF VaultDeletes, Inv, TypeOK, Records
<1>6. x.i + 1 \in Nat \ {0}
  BY <1>1 DEF Records
<1>7. /\ y \in Records /\ y.pc = "scan" /\ y.list = x.list /\ y.i = x.i + 1
      /\ y.res = x.res /\ y.deleted /\ y.errs = x.errs
  BY <1>1, <1>4, <1>6 DEF Records
<1>8. Like(y, x)
  BY <1>1, <1>4, <1>6, <1>7 DEF Like, Records
<1>9. WalksOn(r, y)
  BY <1>1, <1>5, <1>7, <1>8 DEF WalksOn
<1> QED BY <1>1, <1>2, <1>3, <1>7, <1>9

\* The grant's list takes the place of the session's.
LEMMA MintForm ==
  ASSUME Inv, NEW r \in Requests, Mint(r)
  PROVE  /\ UNCHANGED <<layout, eps, held, keys, late>> /\ catalogue' = catalogue \cup {req[r].name}
         /\ Len(layout) > 0 /\ req[r].pc = "mint" /\ req[r].op = "create"
         /\ \E y : /\ y \in Records /\ req' = [req EXCEPT ![r] = y]
                   /\ Like(y, req[r]) /\ y.list = layout /\ y.i = req[r].i
                   /\ y.deleted = req[r].deleted /\ y.errs = req[r].errs
                   /\ y.pc = "put" /\ y.res = req[r].res
<1> DEFINE x == req[r]
<1>1. x \in Records /\ x.pc = "mint" /\ x.op = "create" /\ layout \in Layouts /\ Len(layout) > 0
      /\ UNCHANGED <<layout, eps, held, keys, late>> /\ catalogue' = catalogue \cup {x.name}
  BY DEF Inv, TypeOK, Mint, At
<1>2. PICK y : y = [x EXCEPT !.pc = "put", !.list = layout]
  OBVIOUS
<1>3. y \in Records /\ y.pc = "put" /\ y.list = layout
  BY <1>1, <1>2 DEF Records, Steps
<1>4. Like(y, x) /\ y.i = x.i /\ y.deleted = x.deleted /\ y.errs = x.errs /\ y.res = x.res
  BY <1>1, <1>2 DEF Records, Like
<1>5. req' = [req EXCEPT ![r] = y]
  BY <1>1, <1>2 DEF Mint, Records
<1> QED BY <1>1, <1>3, <1>4, <1>5

\* What a create asks of the first endpoint of its grant.
LEMMA CallForm ==
  ASSUME Inv, NEW r \in Requests, req[r].pc = "put"
  PROVE  /\ Here(r) = req[r].list[1] /\ Here(r) \in Endpoints
         /\ CreateCall(r) \in Calls /\ CreateCall(r).at = Here(r)
         /\ CreateCall(r).name = req[r].name
         /\ \E new \in Materials : /\ new.name = req[r].name /\ new.id = req[r].id
                                   /\ CreateCall(r).to = {new}
<1> DEFINE x == req[r]
<1>1. x \in Records /\ Sound(x, held, catalogue, keys)
  BY DEF Inv, TypeOK
<1>2. x.id \in 1..MaxKeys
  BY <1>1, SessionAssumption DEF Sound, Pending, Records, Inv, TypeOK
<1>3. PICK new : new = [name |-> x.name, id |-> x.id]
  OBVIOUS
<1>4. new \in Materials /\ new.name = x.name /\ new.id = x.id
  BY <1>1, <1>2, <1>3 DEF Materials, Records
<1>5. Here(r) = x.list[1] /\ Here(r) \in Endpoints
  BY <1>1, ListTyped DEF Here, Sound, Pending, Records
<1>6. PICK S : S = {new}
  OBVIOUS
<1>7. CreateCall(r) = [at |-> Here(r), name |-> x.name, to |-> S]
  BY <1>3, <1>6 DEF CreateCall, DeleteCall
<1>8. CreateCall(r) \in Calls /\ CreateCall(r).to = {new}
  BY <1>1, <1>4, <1>5, <1>6, <1>7 DEF Calls, Records
<1> QED BY <1>4, <1>5, <1>7, <1>8

\* The first endpoint of the grant holds the material afterwards.
LEMMA PutForm ==
  ASSUME Inv, NEW r \in Requests, Put(r)
  PROVE  /\ UNCHANGED <<layout, eps, catalogue, keys, late>> /\ Finish(r, "ok")
         /\ req[r].pc = "put" /\ req[r].op = "create" /\ Here(r) \in Endpoints
         /\ Here(r) = req[r].list[1]
         /\ \E new \in Materials :
              /\ new.name = req[r].name /\ new.id = req[r].id
              /\ held' = [held EXCEPT ![Here(r)] = (@ \ Named(@, req[r].name)) \cup {new}]
<1>1. /\ req[r].pc = "put" /\ req[r].op = "create" /\ Finish(r, "ok")
      /\ UNCHANGED <<layout, eps, catalogue, keys, late>> /\ Does(CreateCall(r))
  BY DEF Put, At
<1>2. PICK new \in Materials : /\ new.name = req[r].name /\ new.id = req[r].id
                               /\ CreateCall(r).to = {new}
  BY <1>1, CallForm
<1>3. /\ Here(r) = req[r].list[1] /\ Here(r) \in Endpoints
      /\ CreateCall(r).at = Here(r) /\ CreateCall(r).name = req[r].name
  BY <1>1, CallForm
<1>4. held' = [held EXCEPT ![Here(r)] = (@ \ Named(@, req[r].name)) \cup {new}]
  BY <1>1, <1>2, <1>3 DEF Does
<1> QED BY <1>1, <1>2, <1>3, <1>4

-----------------------------------------------------------------------------
(***************************************************************************)
(* Each form of step keeps the invariant.                                  *)
(***************************************************************************)

\* A new request has walked past nothing, and its material is new.
LEMMA BeginKeeps ==
  ASSUME Inv, NEW r \in Requests, BeginScan(r) \/ BeginCreate(r) \/ BeginFails(r)
  PROVE  Inv'
<1>1. UNCHANGED <<layout, eps, held, catalogue, late>> /\ keys' \in keys..MaxKeys
  BY BeginForm
<1>2. PICK y : NewRequest(r, y)
  BY BeginForm
<1>3. keys \in Nat /\ keys' \in Nat /\ keys <= keys' /\ eps \in Layouts
  BY <1>1, SessionAssumption DEF Inv, TypeOK
<1>4. \A m \in y.seen : m.name = y.name /\ m.id <= keys'
  BY <1>2, <1>3 DEF NewRequest, Records, Materials
<1>5. Sound(y, held', catalogue', keys')
  BY <1>2, <1>3, <1>4, ListTyped
     DEF NewRequest, Sound, Pending, Deletes, FindsNone, Walked
<1>6. Extends(r, y)
  BY <1>1, <1>2 DEF NewRequest, Extends, Pending
<1> QED BY <1>1, <1>2, <1>5, <1>6, OneRequest DEF NewRequest, Inv, TypeOK

\* A request is answered, and stores nothing.
LEMMA FinishKeeps ==
  ASSUME Inv, NEW r \in Requests, NEW res \in {"ok", "failed", "absent"}, Finish(r, res),
         UNCHANGED <<layout, eps, held, keys, late>>,
         catalogue \subseteq catalogue', catalogue' \subseteq Names,
         (req[r].op = "destroy" /\ res = "ok") \/ (req[r].op = "use" /\ res = "absent")
           => Walked(req[r], held, Len(req[r].list)),
         req[r].op = "destroy" /\ res = "ok" /\ req[r].errs # {} => req[r].deleted,
         req[r].op = "use" /\ res = "absent" => req[r].errs = {}
  PROVE  Inv'
<1>1. PICK y : Answered(r, y) /\ y.res = res
  BY FinishForm
<1>2. Sound(req[r], held, catalogue, keys)
  BY DEF Inv
<1>3. Sound(y, held, catalogue', keys)
  BY <1>1, <1>2 DEF Answered, Like, Sound, Pending, Deletes, FindsNone, Walked
<1>4. y \in Records' /\ keys \in keys..MaxKeys
  BY <1>1, SessionAssumption DEF Answered, Records, Inv, TypeOK
<1>5. Extends(r, y)
  BY <1>1 DEF Answered, Like, Extends, Pending
<1> QED BY <1>1, <1>3, <1>4, <1>5, OneRequest DEF Answered, Inv, TypeOK

\* The ends of a Create that stores nothing.
LEMMA CreateEndsKeeps ==
  ASSUME Inv, NEW r \in Requests, MintRefused(r) \/ MintWasted(r) \/ PutFails(r)
  PROVE  Inv'
<1>1. /\ Finish(r, "failed") /\ UNCHANGED <<layout, eps, held, keys, late>>
      /\ catalogue \subseteq catalogue' /\ catalogue' \subseteq Names
  BY DEF MintRefused, MintWasted, PutFails, Inv, TypeOK, Records
<1> QED BY <1>1, FinishKeeps

\* The platform catalogues the name as it grants the key.
LEMMA MintKeeps ==
  ASSUME Inv, NEW r \in Requests, Mint(r) PROVE Inv'
<1> DEFINE x == req[r]
<1>1. /\ UNCHANGED <<layout, eps, held, keys, late>> /\ catalogue' = catalogue \cup {x.name}
      /\ Len(layout) > 0 /\ x.pc = "mint"
  BY MintForm
<1>2. PICK y : /\ y \in Records /\ req' = [req EXCEPT ![r] = y]
               /\ Like(y, x) /\ y.list = layout /\ y.i = x.i /\ y.pc = "put"
  BY MintForm
<1>3. x \in Records /\ Sound(x, held, catalogue, keys) /\ layout \in Layouts
  BY DEF Inv, TypeOK
<1>4. Len(layout) \in Nat
  BY <1>3, ListTyped
<1>5. Sound(y, held, catalogue', keys)
  BY <1>1, <1>2, <1>3, <1>4 DEF Sound, Pending, Deletes, FindsNone, Like
<1>6. y \in Records' /\ keys \in keys..MaxKeys
  BY <1>1, <1>2, SessionAssumption DEF Records, Inv, TypeOK
<1>7. Extends(r, y)
  BY <1>1, <1>2 DEF Extends, Pending, Like
<1>8. catalogue' \subseteq Names
  BY <1>1, <1>3 DEF Inv, TypeOK, Records
<1> QED BY <1>1, <1>2, <1>5, <1>6, <1>7, <1>8, OneRequest DEF Inv, TypeOK

\* A create that has reached the vault is answered: it has no more to store.
LEMMA PutEnds ==
  ASSUME Inv, NEW r \in Requests, NEW y, Answered(r, y), req[r].pc = "put",
         req[r].op = "create", NEW h
  PROVE  Sound(y, h, catalogue, keys) /\ ~Pending(y)
<1>1. Sound(req[r], held, catalogue, keys)
  BY DEF Inv
<1> QED BY <1>1 DEF Answered, Like, Sound, Pending, Deletes, FindsNone

\* The vault stores the material of a Create, and nothing else.
LEMMA PutKeeps ==
  ASSUME Inv, NEW r \in Requests, Put(r) PROVE Inv'
<1> DEFINE x == req[r]
<1>1. /\ UNCHANGED <<layout, eps, catalogue, keys, late>> /\ Finish(r, "ok")
      /\ x.pc = "put" /\ x.op = "create"
  BY PutForm
<1>2. PICK new \in Materials :
        /\ new.name = x.name /\ new.id = x.id
        /\ held' = [held EXCEPT ![Here(r)] = (@ \ Named(@, x.name)) \cup {new}]
  BY PutForm
<1>3. PICK y : Answered(r, y)
  BY <1>1, FinishForm
<1>4. /\ held' \in [Endpoints -> SUBSET Materials]
      /\ \A e \in Endpoints : \A m \in held'[e] : m \in held[e] \/ m = new
  BY <1>2 DEF Inv, TypeOK
<1>5. Sound(y, held', catalogue, keys) /\ ~Pending(y)
  BY <1>1, <1>3, PutEnds
<1>6. y \in Records' /\ keys \in keys..MaxKeys
  BY <1>1, <1>3, SessionAssumption DEF Answered, Records, Inv, TypeOK
<1>7. Extends(r, y)
  BY <1>1, <1>2, <1>3, <1>4, <1>5 DEF Answered, Like, Extends, Its
<1> QED BY <1>1, <1>3, <1>4, <1>5, <1>6, <1>7, OneRequest DEF Answered, Inv, TypeOK

\* The material of a Create that is given up goes from pending to late.
LEMMA PutLostForm ==
  ASSUME Inv, NEW r \in Requests, PutLost(r)
  PROVE  /\ UNCHANGED <<layout, eps, held, catalogue, keys>> /\ Finish(r, "failed")
         /\ req[r].pc = "put" /\ req[r].op = "create"
         /\ late' = late \cup {CreateCall(r)}
         /\ \E y : Answered(r, y) /\ ~Pending(y) /\ Extends(r, y)
                   /\ Sound(y, held, catalogue, keys)
<1>1. /\ UNCHANGED <<layout, eps, held, catalogue, keys>> /\ Finish(r, "failed")
      /\ req[r].pc = "put" /\ req[r].op = "create"
      /\ late' = late \cup {CreateCall(r)}
  BY DEF PutLost, At
<1>2. PICK new \in Materials : /\ new.name = req[r].name /\ new.id = req[r].id
                               /\ CreateCall(r).to = {new}
  BY <1>1, CallForm
<1>3. PICK y : Answered(r, y)
  BY <1>1, FinishForm
<1>4. Sound(y, held, catalogue, keys) /\ ~Pending(y)
  BY <1>1, <1>3, PutEnds
<1>5. PICK l : l = CreateCall(r)
  OBVIOUS
<1>6. /\ l \in Calls /\ late' = late \cup {l} /\ l.name = req[r].name
      /\ \A m, p \in l.to : m = p
      /\ \A m \in l.to : Its(r, y, m)
  BY <1>1, <1>2, <1>4, <1>5, CallForm DEF Its
<1>7. y.seen = req[r].seen
  BY <1>3 DEF Answered, Like
<1>8. Extends(r, y)
  BY <1>1, <1>4, <1>6, <1>7 DEF Extends
<1> QED BY <1>1, <1>3, <1>4, <1>8

\* A Create is given up.
LEMMA PutLostKeeps ==
  ASSUME Inv, NEW r \in Requests, PutLost(r) PROVE Inv'
<1>1. UNCHANGED <<layout, eps, held, catalogue, keys>>
  BY PutLostForm
<1>2. PICK y : Answered(r, y) /\ Extends(r, y) /\ Sound(y, held, catalogue, keys)
  BY PutLostForm
<1>3. y \in Records' /\ keys \in keys..MaxKeys
  BY <1>1, <1>2, SessionAssumption DEF Answered, Records, Inv, TypeOK
<1> QED BY <1>1, <1>2, <1>3, OneRequest DEF Answered, Inv, TypeOK

\* A scan goes on.  What the request saw is not on the endpoint it leaves, unless
\* that did not answer.
LEMMA WalkKeeps ==
  ASSUME Inv, NEW r \in Requests, NEW y, WalksOn(r, y), Extends(r, y),
         \/ y.errs = req[r].errs \cup {req[r].i}
         \/ y.errs = req[r].errs /\ req[r].seen \cap held'[Here(r)] = {},
         UNCHANGED <<layout, eps, catalogue, keys>>,
         held' \in [Endpoints -> SUBSET Materials],
         \A e \in Endpoints : held'[e] \subseteq held[e]
  PROVE  Inv'
<1> DEFINE x == req[r]
<1>1. x \in Records /\ Sound(x, held, catalogue, keys)
  BY DEF Inv, TypeOK
<1>2. Len(x.list) \in Nat /\ x.i \in Nat \ {0}
      /\ \A k \in 1..Len(x.list) : x.list[k] \in Endpoints
  BY <1>1, ListTyped DEF Records
<1>3. Walked(y, held', y.i - 1)
  <2> SUFFICES ASSUME NEW k \in (1..x.i) \ y.errs
               PROVE  x.seen \cap held'[x.list[k]] = {}
    BY <1>2 DEF Walked, WalksOn, Like
  <2>1. CASE k = x.i
    BY <2>1 DEF Here
  <2>2. CASE k # x.i
    <3>1. k \in (1..(x.i - 1)) \ x.errs /\ k \in 1..Len(x.list)
      BY <1>2, <2>2 DEF WalksOn
    <3>2. x.seen \cap held[x.list[k]] = {}
      BY <1>1, <3>1 DEF WalksOn, Sound, Walked
    <3> QED BY <1>2, <3>1, <3>2
  <2> QED BY <2>1, <2>2
<1>4. y.i <= Len(y.list) + 1
  BY <1>2 DEF WalksOn
<1>5. Sound(y, held', catalogue, keys)
  BY <1>1, <1>3, <1>4 DEF WalksOn, Like, Sound, Pending, Deletes, FindsNone
<1>6. y \in Records' /\ keys \in keys..MaxKeys
  BY SessionAssumption DEF WalksOn, Records, Inv, TypeOK
<1> QED BY <1>5, <1>6, OneRequest DEF WalksOn, Inv, TypeOK

\* Passing an endpoint stores nothing, and gives up at most a deletion.
LEMMA PassExtends ==
  ASSUME Inv, NEW r \in Requests, EndpointFails(r) \/ EndpointNotFound(r) \/ DeleteLost(r),
         NEW y, WalksOn(r, y)
  PROVE  Extends(r, y)
<1>1. held' = held /\ y.seen = req[r].seen /\ ~Pending(y)
  BY PassForm DEF WalksOn, Like, Pending
<1>2. CASE late' = late
  BY <1>1, <1>2 DEF Extends
<1>3. CASE late' # late
  <2>1. PICK l : l = DeleteCall(r)
    OBVIOUS
  <2>2. l \in Calls /\ late' = late \cup {l} /\ l.name = req[r].name /\ l.to = {}
    BY <1>3, <2>1, PassForm DEF DeleteCall
  <2> QED BY <1>1, <2>2 DEF Extends
<1> QED BY <1>2, <1>3

\* An endpoint is passed.
LEMMA PassKeeps ==
  ASSUME Inv, NEW r \in Requests, EndpointFails(r) \/ EndpointNotFound(r) \/ DeleteLost(r)
  PROVE  Inv'
<1>1. UNCHANGED <<layout, eps, held, catalogue, keys>>
  BY PassForm
<1>2. PICK y : /\ WalksOn(r, y)
               /\ \/ y.errs = req[r].errs \cup {req[r].i}
                  \/ y.errs = req[r].errs /\ ~Holds(r)
  BY PassForm
<1>3. \A m \in req[r].seen : m.name = req[r].name
  BY DEF Inv, Sound
<1>4. ~Holds(r) => req[r].seen \cap held'[Here(r)] = {}
  BY <1>1, <1>3 DEF Holds, Named
<1>5. Extends(r, y)
  BY <1>2, PassExtends
<1> QED BY <1>1, <1>2, <1>4, <1>5, WalkKeeps DEF Inv, TypeOK

\* A vault deletes.
LEMMA VaultDeletesKeeps ==
  ASSUME Inv, NEW r \in Requests, VaultDeletes(r) PROVE Inv'
<1>1. /\ UNCHANGED <<layout, eps, catalogue, keys, late>> /\ Here(r) \in Endpoints
      /\ held' = [held EXCEPT ![Here(r)] = @ \ Named(@, req[r].name)]
  BY DeleteForm
<1>2. PICK y : WalksOn(r, y) /\ y.errs = req[r].errs
  BY DeleteForm
<1>3. held' \in [Endpoints -> SUBSET Materials] /\ \A f \in Endpoints : held'[f] \subseteq held[f]
  BY <1>1 DEF Inv, TypeOK
<1>4. req[r].seen \cap held'[Here(r)] = {}
  <2>1. \A m \in req[r].seen : m.name = req[r].name
    BY DEF Inv, Sound
  <2> QED BY <1>1, <2>1 DEF Named, Inv, TypeOK
<1>5. Extends(r, y)
  BY <1>1, <1>2, <1>3 DEF WalksOn, Like, Extends, Pending
<1> QED BY <1>1, <1>2, <1>3, <1>4, <1>5, WalkKeeps

\* The ends of a scan.
LEMMA ScanEndsKeeps ==
  ASSUME Inv, NEW r \in Requests, HolderAnswers(r) \/ UseExhausted(r) \/ DestroyEnd(r)
  PROVE  Inv'
<1> DEFINE x == req[r]
<1>1. x \in Records /\ x.pc = "scan" /\ Sound(x, held, catalogue, keys)
      /\ UNCHANGED <<layout, eps, held, catalogue, keys, late>>
  BY DEF HolderAnswers, UseExhausted, DestroyEnd, Scanning, At, Inv, TypeOK
<1>2. Len(x.list) \in Nat /\ x.i \in Nat
  BY <1>1, ListTyped DEF Records
<1>3. CASE HolderAnswers(r)
  <2>1. x.op = "use" /\ Finish(r, "ok")
    BY <1>3 DEF HolderAnswers, Scanning, At
  <2> QED BY <1>1, <2>1, FinishKeeps DEF Inv, TypeOK
<1>4. CASE ~HolderAnswers(r)
  <2>1. x.i > Len(x.list)
    BY <1>4 DEF UseExhausted, DestroyEnd
  <2>2. PICK res \in {"ok", "failed", "absent"} :
          /\ Finish(r, res)
          /\ res = "absent" => x.errs = {}
          /\ x.op = "destroy" /\ res = "ok" => (x.deleted \/ x.errs = {})
    BY <1>4 DEF UseExhausted, DestroyEnd, At
  <2>3. x.i - 1 = Len(x.list)
    BY <1>1, <1>2, <2>1 DEF Sound
  <2>4. Walked(x, held, Len(x.list))
    BY <1>1, <2>3 DEF Sound
  <2> QED BY <1>1, <2>2, <2>4, FinishKeeps DEF Inv, TypeOK
<1> QED BY <1>3, <1>4

\* The session list and the active constellation are no part of a request.
LEMMA ListsKeep ==
  ASSUME Inv, Refresh \/ LayoutChange PROVE Inv'
<1>1. /\ UNCHANGED <<held, catalogue, keys, late, req>>
      /\ layout' \in Layouts /\ eps' \in Layouts
  BY DEF Refresh, LayoutChange, Inv, TypeOK
<1> QED BY <1>1 DEF Inv, TypeOK, Records, Fresh, LateSound, Unseen

\* What a vault carries out late: it stores the call's material or nothing, and
\* touches what it holds under no other name.
LEMMA SettleForm ==
  ASSUME Inv, NEW l \in late, Settle(l)
  PROVE  /\ UNCHANGED <<layout, eps, catalogue, keys, req>>
         /\ l \in Calls /\ held' \in [Endpoints -> SUBSET Materials]
         /\ \A e \in Endpoints : e # l.at => held'[e] = held[e]
         /\ held'[l.at] = (held[l.at] \ Named(held[l.at], l.name)) \cup l.to
         /\ late' = late \ {l} \/ (l.to = {} /\ late' = late)
BY DEF Settle, Does, Inv, TypeOK, Calls

\* A call that acts late stores what no request has seen.
LEMMA SettleKeeps ==
  ASSUME Inv, NEW l \in late, Settle(l) PROVE Inv'
<1>1. /\ UNCHANGED <<layout, eps, catalogue, keys, req>>
      /\ held' \in [Endpoints -> SUBSET Materials]
      /\ \A e \in Endpoints : \A m \in held'[e] : m \in held[e] \/ m \in l.to
      /\ late' \subseteq late /\ (l \in late' => l.to = {})
  BY SettleForm
<1>2. LateSound(l)
  BY DEF Inv
<1>3. Catalogued(held', catalogue, keys)
  BY <1>1, <1>2 DEF Inv, Catalogued, LateSound
<1>4. ASSUME NEW q \in Requests PROVE Sound(req[q], held', catalogue, keys)
  <2> DEFINE x == req[q]
  <2>1. x \in Records /\ Sound(x, held, catalogue, keys)
    BY DEF Inv, TypeOK
  <2>2. \A e \in Endpoints : \A m \in held'[e] : m \in held[e] \/ m \notin x.seen
    BY <1>1, <1>2 DEF LateSound, Unseen
  <2>3. Len(x.list) \in Nat /\ x.i \in Nat \ {0} /\ x.i <= Len(x.list) + 1
        /\ \A k \in 1..Len(x.list) : x.list[k] \in Endpoints
    BY <2>1, ListTyped DEF Records, Sound
  <2>4. ASSUME NEW n \in 0..Len(x.list), Walked(x, held, n) PROVE Walked(x, held', n)
    BY <2>2, <2>3, <2>4, WalkedStays
  <2>5. x.i - 1 \in 0..Len(x.list) /\ Len(x.list) \in 0..Len(x.list)
    BY <2>3
  <2> QED BY <2>1, <2>4, <2>5 DEF Sound
<1>5. ASSUME NEW i, Unseen(i), \A m \in l.to : m.id # i PROVE Unseen(i)'
  BY <1>1, <1>5 DEF Unseen
<1>6. \A q \in Requests : Fresh(req[q], q)'
  <2> SUFFICES ASSUME NEW q \in Requests, Pending(req[q]) PROVE Fresh(req[q], q)'
    BY <1>1 DEF Fresh, Pending
  <2>1. Fresh(req[q], q)
    BY DEF Inv
  <2>2. Unseen(req[q].id)'
    BY <1>1, <1>5, <2>1 DEF Fresh
  <2> QED BY <1>1, <2>1, <2>2 DEF Fresh
<1>7. ASSUME NEW k \in late' PROVE LateSound(k)'
  <2>1. LateSound(k)
    BY <1>1 DEF Inv
  <2>2. ASSUME NEW m \in k.to PROVE Unseen(m.id)'
    BY <1>1, <1>2, <1>5, <2>1 DEF LateSound
  <2> QED BY <1>1, <2>1, <2>2 DEF LateSound
<1>8. TypeOK'
  BY <1>1 DEF Inv, TypeOK, Records
<1> QED BY <1>1, <1>3, <1>4, <1>6, <1>7, <1>8 DEF Inv

-----------------------------------------------------------------------------
\* The invariant holds of every state of the session.
LEMMA Invariant == Spec => []Inv
<1>1. Init => Inv
  <2> SUFFICES ASSUME Init PROVE Inv
    OBVIOUS
  <2>1. Idle \in Records /\ Idle.pc = "idle" /\ Idle.seen = {} /\ Idle.i = 1
        /\ Idle.list = <<>>
    BY SessionAssumption DEF Idle, Records, Steps, Init
  <2>2. Len(Idle.list) = 0
    BY <2>1
  <2>3. req \in [Requests -> Records] /\ \A r \in Requests : req[r] = Idle
    BY <2>1 DEF Init
  <2>4. Sound(Idle, held, catalogue, keys)
    BY <2>1, <2>2 DEF Sound, Pending, Deletes, FindsNone
  <2>5. \A r \in Requests : Fresh(req[r], r)
    BY <2>1, <2>3 DEF Fresh, Pending
  <2>6. TypeOK
    BY <2>1, <2>2, <2>3, SessionAssumption DEF Init, TypeOK
  <2>7. Catalogued(held, catalogue, keys) /\ late = {}
    BY DEF Init, Catalogued
  <2> QED BY <2>3, <2>4, <2>5, <2>6, <2>7 DEF Inv
<1>2. Inv /\ [Next]_vars => Inv'
  <2> SUFFICES ASSUME Inv, [Next]_vars PROVE Inv'
    OBVIOUS
  <2>1. ASSUME NEW r \in Requests,
               BeginScan(r) \/ BeginCreate(r) \/ BeginFails(r) \/ RequestStep(r)
        PROVE  Inv'
    BY <2>1, BeginKeeps, CreateEndsKeeps, MintKeeps,
       PutKeeps, PutLostKeeps, PassKeeps, VaultDeletesKeeps, ScanEndsKeeps DEF RequestStep
  <2>2. CASE UNCHANGED vars
    BY <2>2 DEF vars, Inv, TypeOK, Records, Fresh, LateSound, Unseen
  <2> QED BY <2>1, <2>2, SettleKeeps, ListsKeep DEF Next
<1> QED BY <1>1, <1>2, PTL DEF Spec

\* Types, and that g.Endpoints[0] is never taken of an empty list (session.go,
\* Create).
THEOREM TypeCorrect == Spec => []TypeOK
<1>1. Inv => TypeOK
  BY DEF Inv
<1> QED BY <1>1, Invariant, PTL

\* A vault stores material only under names that the platform has catalogued
\* (session.go, Create: the grant comes first).
THEOREM StoredIsCatalogued == Spec => []MaterialCatalogued
<1>1. Inv => MaterialCatalogued
  BY DEF Inv, Catalogued, MaterialCatalogued
<1> QED BY <1>1, Invariant, PTL

\* A successful Destroy, and a use that ends with no answer and no error, leave
\* nothing of what they saw on the endpoints of their list that answered, whatever
\* lists the platform hands out meanwhile; and all of them answered, unless the
\* Destroy has deleted something (session.go, withHolder and Destroy).
THEOREM ScanComplete == Spec => []ScanIsComplete
<1>1. Inv => ScanIsComplete
  <2> SUFFICES ASSUME Inv, NEW r \in Requests, Deletes(req[r]) \/ FindsNone(req[r])
               PROVE  /\ StillHeld(r, Answering(r)) = {}
                      /\ Deletes(req[r]) /\ req[r].errs # {} => req[r].deleted
                      /\ FindsNone(req[r]) => req[r].errs = {}
    BY DEF ScanIsComplete, At, Deletes, FindsNone
  <2>1. Sound(req[r], held, catalogue, keys) /\ Walked(req[r], held, Len(req[r].list))
    BY DEF Inv, Sound
  <2> QED BY <2>1 DEF StillHeld, Answering, Walked, Sound
<1> QED BY <1>1, Invariant, PTL

-----------------------------------------------------------------------------
(***************************************************************************)
(* A constellation that keeps its first vault.                             *)
(***************************************************************************)

\* What a request has left behind stays gone while others go on.
LEMMA OneSettled ==
  ASSUME Inv, AnchoredInv, NEW r \in Requests, NEW y, req' = [req EXCEPT ![r] = y],
         UNCHANGED <<layout, eps>>, Extends(r, y), OnFirst(held'), LateOnFirst(late'),
         Settled(y, held')
  PROVE  AnchoredInv'
<1>1. req'[r] = y /\ \A q \in Requests : q # r => req'[q] = req[q]
  BY DEF Inv, TypeOK
<1>2. ASSUME NEW q \in Requests, q # r PROVE Settled(req'[q], held')
  <2>1. \A e \in Endpoints : \A m \in held'[e] : m \in held[e] \/ m \notin req[q].seen
    <3>1. req[r].pc = "put" => \A m \in req[q].seen : m.id # req[r].id
      BY DEF Inv, Fresh, Unseen, Pending
    <3> QED BY <3>1 DEF Extends, Its
  <2>2. Left(req[q], held) = {} => Left(req[q], held') = {}
    BY <2>1 DEF Left
  <2> QED BY <1>1, <1>2, <2>2 DEF AnchoredInv, Settled, Deletes, FindsNone
<1>3. \A q \in Requests : Settled(req'[q], held')
  BY <1>1, <1>2
<1> QED BY <1>3 DEF AnchoredInv, OnFirst, LateOnFirst, Settled

\* A request begins with a list of the platform's.
LEMMA BeginSettles ==
  ASSUME Inv, AnchoredInv, NEW r \in Requests,
         BeginScan(r) \/ BeginCreate(r) \/ BeginFails(r)
  PROVE  AnchoredInv'
<1>1. UNCHANGED <<layout, eps, held, catalogue, late>>
  BY BeginForm
<1>2. PICK y : NewRequest(r, y)
  BY BeginForm
<1>3. Extends(r, y)
  BY <1>1, <1>2 DEF NewRequest, Extends, Pending
<1>4. Settled(y, held)
  BY <1>2 DEF NewRequest, Settled, Deletes, FindsNone, Inv, TypeOK
<1> QED BY <1>1, <1>2, <1>3, <1>4, OneSettled DEF NewRequest, AnchoredInv

\* A request is answered; nothing is stored.
LEMMA FinishSettles ==
  ASSUME Inv, AnchoredInv, NEW r \in Requests, NEW res \in {"ok", "failed", "absent"},
         Finish(r, res), req[r].pc # "idle", UNCHANGED <<layout, eps, held, late>>,
         ((req[r].op = "destroy" /\ res = "ok") \/ (req[r].op = "use" /\ res = "absent"))
           => Left(req[r], held) = {}
  PROVE  AnchoredInv'
<1>1. PICK y : Answered(r, y) /\ y.res = res
  BY FinishForm
<1>2. Extends(r, y)
  BY <1>1 DEF Answered, Like, Extends, Pending
<1>3. Settled(req[r], held)
  BY DEF AnchoredInv
<1>4. Settled(y, held)
  BY <1>1, <1>3 DEF Answered, Like, Settled, Left, Pending, Deletes, FindsNone
<1> QED BY <1>1, <1>2, <1>4, OneSettled DEF Answered, AnchoredInv

\* A Create: its grant is on a list with the same first vault, where its material
\* goes.
LEMMA CreateSettles ==
  ASSUME Anchored, Inv, AnchoredInv, NEW r \in Requests,
         MintRefused(r) \/ MintWasted(r) \/ Mint(r) \/ PutFails(r) \/ Put(r) \/ PutLost(r)
  PROVE  AnchoredInv'
<1> DEFINE x == req[r]
<1>1. CASE MintRefused(r) \/ MintWasted(r) \/ PutFails(r)
  <2>1. Finish(r, "failed") /\ UNCHANGED <<layout, eps, held, late>> /\ x.pc # "idle"
    BY <1>1 DEF MintRefused, MintWasted, PutFails, At
  <2> QED BY <2>1, FinishSettles
<1>2. CASE Mint(r)
  <2>1. UNCHANGED <<layout, eps, held, keys, late>> /\ x.pc = "mint"
    BY <1>2, MintForm
  <2>2. PICK y : /\ req' = [req EXCEPT ![r] = y] /\ Like(y, x) /\ y.list = layout
                 /\ y.i = x.i /\ y.deleted = x.deleted /\ y.errs = x.errs
                 /\ y.pc = "put" /\ y.res = x.res
    BY <1>2, MintForm
  <2>3. Extends(r, y)
    BY <2>1, <2>2 DEF Extends, Pending, Like
  <2>4. Settled(y, held)
    BY <2>1, <2>2 DEF AnchoredInv, Settled, Pending, Deletes, FindsNone, Inv, TypeOK
  <2> QED BY <2>1, <2>2, <2>3, <2>4, OneSettled DEF AnchoredInv
<1>3. ASSUME x.pc = "put" PROVE x.list[1] = layout[1]
  BY <1>3 DEF Anchored, AnchoredInv, Settled, Inv, TypeOK
<1>4. ASSUME NEW y, NEW h, Answered(r, y), x.pc = "put", x.op = "create" PROVE Settled(y, h)
  BY <1>4 DEF Answered, Like, AnchoredInv, Settled, Pending, Deletes, FindsNone
<1>5. CASE Put(r)
  <2>1. /\ UNCHANGED <<layout, eps, catalogue, keys, late>> /\ Finish(r, "ok")
        /\ x.pc = "put" /\ x.op = "create" /\ Here(r) = layout[1]
    BY <1>3, <1>5, PutForm
  <2>2. PICK new \in Materials :
          /\ new.name = x.name /\ new.id = x.id
          /\ held' = [held EXCEPT ![Here(r)] = (@ \ Named(@, x.name)) \cup {new}]
    BY <1>5, PutForm
  <2>3. PICK y : Answered(r, y)
    BY <2>1, FinishForm
  <2>4. \A e \in Endpoints : \A m \in held'[e] : m \in held[e] \/ m = new
    BY <2>2 DEF Inv, TypeOK
  <2>5. Extends(r, y)
    BY <2>1, <2>2, <2>3, <2>4 DEF Answered, Like, Extends, Its, Pending
  <2>6. OnFirst(held')
    <3>1. \A e \in Endpoints : e # Here(r) => held'[e] = held[e]
      BY <2>2 DEF Inv, TypeOK
    <3> QED BY <2>1, <3>1 DEF OnFirst, AnchoredInv
  <2> QED BY <1>4, <2>1, <2>3, <2>5, <2>6, OneSettled DEF Answered, AnchoredInv
<1>6. CASE PutLost(r)
  <2>1. /\ UNCHANGED <<layout, eps, held, catalogue, keys>>
        /\ x.pc = "put" /\ x.op = "create" /\ late' = late \cup {CreateCall(r)}
    BY <1>6, PutLostForm
  <2>2. PICK y : Answered(r, y) /\ Extends(r, y)
    BY <1>6, PutLostForm
  <2>3. CreateCall(r).at = layout[1]
    BY <1>3, <2>1, CallForm
  <2>4. LateOnFirst(late')
    BY <2>1, <2>3 DEF AnchoredInv, LateOnFirst
  <2> QED BY <1>4, <2>1, <2>2, <2>4, OneSettled DEF Answered, AnchoredInv
<1> QED BY <1>1, <1>2, <1>5, <1>6

\* A scan goes on, knowing what became of the key unless there was an error.
LEMMA WalkSettles ==
  ASSUME Inv, AnchoredInv, NEW r \in Requests, NEW y, WalksOn(r, y), Extends(r, y),
         UNCHANGED <<layout, eps>>, \A e \in Endpoints : held'[e] \subseteq held[e],
         LateOnFirst(late'), (y.deleted \/ y.errs = {}) => Left(req[r], held') = {}
  PROVE  AnchoredInv'
<1>1. OnFirst(held')
  BY DEF AnchoredInv, OnFirst
<1>2. y.i > 1
  <2>1. req[r].i \in Nat \ {0}
    BY DEF Inv, TypeOK, Records
  <2> QED BY <2>1 DEF WalksOn
<1>3. Settled(req[r], held)
  BY DEF AnchoredInv
<1>4. Settled(y, held')
  BY <1>2, <1>3 DEF WalksOn, Like, Settled, Left, Pending, Deletes, FindsNone
<1> QED BY <1>1, <1>4, OneSettled DEF WalksOn

\* The first vault is asked first, and by every scan.
LEMMA FirstHere ==
  ASSUME Anchored, Inv, AnchoredInv, NEW r \in Requests, req[r].pc = "scan"
  PROVE  /\ req[r].list \in Layouts /\ req[r].list[1] = layout[1]
         /\ Len(req[r].list) \in Nat \ {0} /\ req[r].i \in Nat \ {0}
         /\ req[r].i = 1 => Here(r) = layout[1]
<1>1. req[r].list \in Layouts /\ layout \in Layouts /\ req[r].i \in Nat \ {0}
  BY DEF AnchoredInv, Settled, Inv, TypeOK, Records
<1>2. req[r].list \in Seq(Endpoints) /\ req[r].list # <<>> /\ req[r].list[1] = layout[1]
  BY <1>1, SessionAssumption DEF Anchored
<1>3. Len(req[r].list) \in Nat \ {0}
  BY <1>2
<1> QED BY <1>1, <1>2, <1>3 DEF Here

\* An endpoint is passed.
LEMMA PassSettles ==
  ASSUME Anchored, Inv, AnchoredInv, NEW r \in Requests,
         EndpointFails(r) \/ EndpointNotFound(r) \/ DeleteLost(r)
  PROVE  AnchoredInv'
<1> DEFINE x == req[r]
<1>1. UNCHANGED <<layout, eps, held, catalogue, keys>>
  BY PassForm
<1>2. PICK y : /\ WalksOn(r, y) /\ y.deleted = x.deleted
               /\ \/ y.errs = x.errs \cup {x.i}
                  \/ y.errs = x.errs /\ ~Holds(r)
  BY PassForm
<1>3. ASSUME y.deleted \/ y.errs = {} PROVE Left(x, held) = {}
  <2>1. x.i \in Nat \ {0}
    BY DEF Inv, TypeOK, Records
  <2>2. CASE x.i = 1
    <3>1. ~x.deleted /\ ~Holds(r)
      BY <1>2, <1>3, <2>2 DEF AnchoredInv, Settled
    <3>2. Here(r) = layout[1]
      BY <1>2, <2>2, FirstHere DEF WalksOn
    <3>3. \A m \in x.seen : m.name = x.name
      BY DEF Inv, Sound
    <3>4. \A e \in Endpoints : x.seen \cap held[e] = {}
      BY <3>1, <3>2, <3>3 DEF AnchoredInv, OnFirst, Holds, Named
    <3> QED BY <3>4 DEF Left
  <2>3. CASE x.i # 1
    <3>1. x.i > 1 /\ x.pc = "scan"
      BY <1>2, <2>1, <2>3 DEF WalksOn
    <3>2. x.deleted \/ x.errs = {}
      BY <1>2, <1>3
    <3> QED BY <3>1, <3>2 DEF AnchoredInv, Settled
  <2> QED BY <2>2, <2>3
<1>4. LateOnFirst(late')
  <2>1. late' = late \/ late' = late \cup {DeleteCall(r)}
    BY PassForm
  <2> QED BY <1>1, <2>1 DEF AnchoredInv, LateOnFirst, DeleteCall
<1>5. Extends(r, y)
  BY <1>2, PassExtends
<1> QED BY <1>1, <1>2, <1>3, <1>4, <1>5, WalkSettles

\* A vault that deletes is the first one, and what it deletes is all there was.
LEMMA DeleteSettles ==
  ASSUME Inv, AnchoredInv, NEW r \in Requests, VaultDeletes(r)
  PROVE  /\ AnchoredInv'
         /\ Here(r) = layout[1]
<1> DEFINE x == req[r]
<1>1. /\ UNCHANGED <<layout, eps, catalogue, keys, late>> /\ Here(r) \in Endpoints /\ Holds(r)
      /\ held' = [held EXCEPT ![Here(r)] = @ \ Named(@, x.name)]
  BY DeleteForm
<1>2. PICK y : WalksOn(r, y)
  BY DeleteForm
<1>3. /\ \A e \in Endpoints : held'[e] \subseteq held[e]
      /\ held'[Here(r)] = held[Here(r)] \ Named(held[Here(r)], x.name)
  BY <1>1 DEF Inv, TypeOK
<1>4. Here(r) = layout[1] /\ \A e \in Endpoints : e # Here(r) => held[e] = {}
  BY <1>1 DEF AnchoredInv, OnFirst, Holds, Named
<1>5. Left(x, held') = {}
  <2>1. \A m \in x.seen : m.name = x.name
    BY DEF Inv, Sound
  <2>2. \A e \in Endpoints : x.seen \cap held'[e] = {}
    BY <1>3, <1>4, <2>1 DEF Named
  <2> QED BY <2>2 DEF Left
<1>6. Extends(r, y) /\ LateOnFirst(late')
  BY <1>1, <1>2, <1>3 DEF WalksOn, Like, Extends, Pending, AnchoredInv, LateOnFirst
<1> QED BY <1>1, <1>2, <1>3, <1>4, <1>5, <1>6, WalkSettles

\* At the end of the list without an error, or with something deleted, nothing
\* is left.
LEMMA ScanEndsSettles ==
  ASSUME Anchored, Inv, AnchoredInv, NEW r \in Requests,
         HolderAnswers(r) \/ UseExhausted(r) \/ DestroyEnd(r)
  PROVE  AnchoredInv'
<1> DEFINE x == req[r]
<1>1. x.pc = "scan" /\ UNCHANGED <<layout, eps, held, catalogue, keys, late>>
  BY DEF HolderAnswers, UseExhausted, DestroyEnd, Scanning, At
<1>2. CASE HolderAnswers(r)
  <2>1. x.op = "use" /\ Finish(r, "ok")
    BY <1>2 DEF HolderAnswers, Scanning, At
  <2> QED BY <1>1, <2>1, FinishSettles
<1>3. CASE ~HolderAnswers(r)
  <2>1. x.i > Len(x.list)
    BY <1>3 DEF UseExhausted, DestroyEnd
  <2>2. PICK res \in {"ok", "failed", "absent"} :
          /\ Finish(r, res)
          /\ x.op = "use" /\ res = "absent" => x.errs = {}
          /\ x.op = "destroy" /\ res = "ok" => (x.deleted \/ x.errs = {})
    BY <1>3 DEF UseExhausted, DestroyEnd, At
  <2>3. ASSUME x.deleted \/ x.errs = {} PROVE Left(x, held) = {}
    <3>1. x.i > 1
      BY <1>1, <2>1, FirstHere
    <3> QED BY <1>1, <2>3, <3>1 DEF AnchoredInv, Settled
  <2> QED BY <1>1, <2>2, <2>3, FinishSettles
<1> QED BY <1>2, <1>3

\* Another constellation or another session has the same first vault.
LEMMA ListsSettle ==
  ASSUME Anchored, Inv, AnchoredInv, Refresh \/ LayoutChange
  PROVE  AnchoredInv'
<1>1. UNCHANGED <<held, late, req>> /\ layout \in Layouts /\ layout' \in Layouts
  BY DEF Refresh, LayoutChange, Inv, TypeOK
<1>2. layout'[1] = layout[1]
  BY <1>1 DEF Anchored
<1> QED BY <1>1, <1>2 DEF AnchoredInv, OnFirst, LateOnFirst, Settled

\* A call that acts late brings back nothing that a request saw.
LEMMA SettleSettles ==
  ASSUME Inv, AnchoredInv, NEW l \in late, Settle(l)
  PROVE  AnchoredInv'
<1>1. /\ UNCHANGED <<layout, req>> /\ l \in Calls
      /\ \A e \in Endpoints : e # l.at => held'[e] = held[e]
      /\ \A e \in Endpoints : \A m \in held'[e] : m \in held[e] \/ m \in l.to
      /\ late' \subseteq late
  BY SettleForm
<1>2. LateSound(l)
  BY DEF Inv
<1>3. OnFirst(held')
  <2>1. l.to # {} => l.at = layout[1]
    BY DEF AnchoredInv, LateOnFirst
  <2>2. \A e \in Endpoints : held'[e] # {} => (held[e] # {} \/ (e = l.at /\ l.to # {}))
    BY <1>1
  <2> QED BY <1>1, <2>1, <2>2 DEF AnchoredInv, OnFirst
<1>4. ASSUME NEW q \in Requests PROVE Settled(req[q], held')
  <2>1. Left(req[q], held) = {} => Left(req[q], held') = {}
    BY <1>1, <1>2 DEF Left, LateSound, Unseen
  <2> QED BY <2>1 DEF AnchoredInv, Settled
<1> QED BY <1>1, <1>3, <1>4 DEF AnchoredInv, OnFirst, LateOnFirst, Settled

\* AnchoredInv is an invariant while the constellation keeps its first vault.
LEMMA AnchoredInvariant ==
  ASSUME Anchored PROVE Spec => []AnchoredInv
<1>1. Init => AnchoredInv
  BY DEF Init, AnchoredInv, OnFirst, LateOnFirst, Settled, Idle, Pending, Deletes, FindsNone
<1>2. Inv /\ AnchoredInv /\ [Next]_vars => AnchoredInv'
  <2> SUFFICES ASSUME Inv, AnchoredInv, [Next]_vars PROVE AnchoredInv'
    OBVIOUS
  <2>1. ASSUME NEW r \in Requests,
               BeginScan(r) \/ BeginCreate(r) \/ BeginFails(r) \/ RequestStep(r)
        PROVE  AnchoredInv'
    BY <2>1, BeginSettles, CreateSettles, PassSettles, DeleteSettles, ScanEndsSettles
       DEF RequestStep
  <2>2. CASE UNCHANGED vars
    BY <2>2 DEF vars, AnchoredInv, OnFirst, LateOnFirst, Settled
  <2> QED BY <2>1, <2>2, SettleSettles, ListsSettle DEF Next
<1> QED BY <1>1, <1>2, Invariant, PTL DEF Spec

\* While the constellation keeps its first vault, a successful Destroy leaves
\* nothing of what was there when it began on any vault, although it counts a
\* vault that it could not reach as one without the key once it has deleted
\* something (session.go, Destroy).
THEOREM DestroyedGone ==
  ASSUME Anchored PROVE Spec => []DestroyedIsGone
<1>1. AnchoredInv => DestroyedIsGone
  BY DEF AnchoredInv, Settled, Deletes, DestroyedIsGone, At, StillHeld, Left
<1> QED BY <1>1, AnchoredInvariant, PTL

\* While the constellation keeps its first vault, a key that is there throughout a
\* use is not reported missing (session.go, withHolder).
THEOREM AbsentAbsent ==
  ASSUME Anchored PROVE Spec => []AbsentIsAbsent
<1>1. AnchoredInv => AbsentIsAbsent
  BY DEF AnchoredInv, Settled, FindsNone, AbsentIsAbsent, At, StillHeld, Left
<1> QED BY <1>1, AnchoredInvariant, PTL

-----------------------------------------------------------------------------
(***************************************************************************)
(* The refinement, where moreover no list names its first vault twice (a   *)
(* walk would act twice).  AbsStore, AbsJob and AbsLate are what the       *)
(* session stands for in KeyStore.                                         *)
(***************************************************************************)
Placed == Anchored /\ \A l \in Layouts : \A k \in 2..Len(l) : l[k] # l[1]

AbsStore == [n \in Names |-> {m.id : m \in Named(held[Head(layout)], n)}]
AbsJob == [r \in Requests |-> Job(req[r])]
AbsCall(l) == [key |-> l.name, to |-> {m.id : m \in l.to}]
AbsLate == {AbsCall(l) : l \in {k \in late : k.at = Head(layout)}}

Abs == <<AbsStore, AbsJob, AbsLate>>

Jobs == [op : {"none", "use", "destroy", "create"}, key : Names,
         pc : {"idle", "asked", "acted", "done"},
         res : {"none", "ok", "failed", "absent"}]

\* What a request stands for, field by field.
LEMMA JobTyped ==
  ASSUME NEW x, x.op \in {"none", "use", "destroy", "create"}, x.name \in Names,
         x.pc \in Steps, x.res \in {"none", "ok", "failed", "absent"}
  PROVE  /\ Job(x) \in Jobs /\ Job(x).op = x.op /\ Job(x).key = x.name
         /\ ~Acted(x) => /\ Job(x).res = x.res
                         /\ x.pc \in {"mint", "put", "scan"} => Job(x).pc = "asked"
                         /\ x.pc \in {"idle", "done"} => Job(x).pc = x.pc
         /\ Acted(x) => Job(x).pc = "acted" /\ Job(x).res = Told(x)
BY DEF Job, Jobs, Told, Steps

\* A step of one request is a step of one job; one that is under way changes its
\* place and its outcome only.
LEMMA JobFollows ==
  ASSUME Inv, NEW r \in Requests, NEW y, req' = [req EXCEPT ![r] = y]
  PROVE  /\ AbsJob' = [AbsJob EXCEPT ![r] = Job(y)]
         /\ AbsJob'[r] = Job(y) /\ AbsJob[r] = Job(req[r])
BY DEF Inv, TypeOK, AbsJob

\* The step of a job that has been asked for.
LEMMA JobOutcome ==
  ASSUME Inv, NEW r \in Requests, NEW y \in Records, req' = [req EXCEPT ![r] = y],
         y.op = req[r].op, y.name = req[r].name
  PROVE  /\ AbsJob' = [AbsJob EXCEPT ![r].pc = Job(y).pc, ![r].res = Job(y).res]
         /\ Job(y).res = Job(req[r]).res => AbsJob' = [AbsJob EXCEPT ![r].pc = Job(y).pc]
<1> DEFINE j == Job(req[r])
           k == Job(y)
<1>1. /\ j \in Jobs /\ j.op = req[r].op /\ j.key = req[r].name
      /\ k \in Jobs /\ k.op = y.op /\ k.key = y.name
  BY JobTyped DEF Inv, TypeOK, Records
<1>2. AbsJob' = [AbsJob EXCEPT ![r] = k] /\ AbsJob[r] = j
  BY JobFollows
<1> HIDE DEF j, k
<1>3. PICK z : z = [j EXCEPT !.pc = k.pc, !.res = k.res]
  OBVIOUS
<1>4. z \in Jobs /\ z.op = j.op /\ z.key = j.key /\ z.pc = k.pc /\ z.res = k.res
  BY <1>1, <1>3 DEF Jobs
<1>5. z = k
  BY <1>1, <1>4 DEF Jobs
<1>6. AbsJob' = [AbsJob EXCEPT ![r].pc = k.pc, ![r].res = k.res]
  BY <1>2, <1>3, <1>5
<1>7. ASSUME k.res = j.res PROVE AbsJob' = [AbsJob EXCEPT ![r].pc = k.pc]
  <2>1. PICK w : w = [j EXCEPT !.pc = k.pc]
    OBVIOUS
  <2>2. w \in Jobs /\ w.op = j.op /\ w.key = j.key /\ w.pc = k.pc /\ w.res = k.res
    BY <1>1, <1>7, <2>1 DEF Jobs
  <2>3. w = k
    BY <1>1, <2>2 DEF Jobs
  <2> QED BY <1>2, <2>1, <2>3
<1> QED BY <1>6, <1>7 DEF j, k

\* What is under a name: what the first vault holds under it.
LEMMA StoreIsFirst ==
  ASSUME Placed, Inv
  PROVE  /\ layout[1] \in Endpoints /\ Len(layout) \in Nat \ {0} /\ layout # <<>>
         /\ \A n \in Names : AbsStore[n] = {m.id : m \in Named(held[layout[1]], n)}
<1>1. layout \in Seq(Endpoints) /\ layout # <<>>
  BY SessionAssumption DEF Placed, Anchored, Inv, TypeOK
<1>2. Head(layout) = layout[1] /\ layout[1] \in Endpoints /\ Len(layout) \in Nat \ {0}
  BY <1>1
<1> QED BY <1>1, <1>2 DEF AbsStore

\* With the first vault as it is, so is the store.
LEMMA StoreStays ==
  ASSUME UNCHANGED <<layout, held>> PROVE AbsStore' = AbsStore
BY DEF AbsStore

\* With the calls given up as they are, so is what they stand for.
LEMMA LateStaysAbs ==
  ASSUME UNCHANGED <<layout, late>> PROVE AbsLate' = AbsLate
BY DEF AbsLate, AbsCall

\* A call to the first vault is given up; one to another vault does not count.
LEMMA LateFollows ==
  ASSUME UNCHANGED layout, NEW l, late' = late \cup {l}
  PROVE  /\ l.at = Head(layout) => AbsLate' = AbsLate \cup {AbsCall(l)}
         /\ l.at # Head(layout) => AbsLate' = AbsLate
BY DEF AbsLate, AbsCall

\* The first vault holds something else under one name.
LEMMA StoreFollows ==
  ASSUME Placed, Inv, UNCHANGED layout, NEW n \in Names, NEW S,
         held'[layout[1]] = (held[layout[1]] \ Named(held[layout[1]], n)) \cup S,
         \A m \in S : m.name = n
  PROVE  AbsStore' = [AbsStore EXCEPT ![n] = {m.id : m \in S}]
<1>1. Head(layout) = layout[1]
  BY SessionAssumption DEF Placed, Anchored, Inv, TypeOK
<1>2. Named(held'[layout[1]], n) = S
  BY DEF Named
<1>3. \A o \in Names : o # n => Named(held'[layout[1]], o) = Named(held[layout[1]], o)
  BY DEF Named
<1>4. \A o \in Names :
        {m.id : m \in Named(held'[layout[1]], o)}
          = IF o = n THEN {m.id : m \in S} ELSE {m.id : m \in Named(held[layout[1]], o)}
  BY <1>2, <1>3
<1>5. AbsStore' = [o \in Names |-> {m.id : m \in Named(held'[layout[1]], o)}]
  BY <1>1 DEF AbsStore
<1>6. AbsStore = [o \in Names |-> {m.id : m \in Named(held[layout[1]], o)}]
  BY <1>1 DEF AbsStore
<1> QED BY <1>4, <1>5, <1>6

\* A request that begins asks, or is turned away at once.
LEMMA BeginRefines ==
  ASSUME Inv, NEW r \in Requests, BeginScan(r) \/ BeginCreate(r) \/ BeginFails(r)
  PROVE  Store!Ask(r) \/ Store!Refuse(r)
<1>1. UNCHANGED <<layout, held, late>> /\ req[r].pc \in {"idle", "done"}
  BY BeginForm
<1>2. PICK y : NewRequest(r, y)
  BY BeginForm
<1>3. y \in Records' /\ req' = [req EXCEPT ![r] = y] /\ ~Acted(y)
  BY <1>2 DEF NewRequest, Acted
<1>4. AbsJob' = [AbsJob EXCEPT ![r] = Job(y)] /\ AbsJob'[r] = Job(y) /\ AbsJob[r] = Job(req[r])
  BY <1>3, JobFollows
<1>5. Job(req[r]).pc \in {"idle", "done"}
  <2>1. /\ req[r].op \in {"none", "use", "destroy", "create"} /\ req[r].name \in Names
        /\ req[r].pc \in Steps /\ req[r].res \in {"none", "ok", "failed", "absent"}
    BY DEF Inv, TypeOK, Records
  <2>2. ~Acted(req[r])
    BY <1>1 DEF Acted
  <2> QED BY <1>1, <2>1, <2>2, JobTyped
<1>6. Job(y) \in Jobs /\ Job(y).op = y.op /\ Job(y).key = y.name /\ Job(y).res = y.res
      /\ (y.pc \in {"mint", "put", "scan"} => Job(y).pc = "asked")
      /\ (y.pc \in {"idle", "done"} => Job(y).pc = y.pc)
  BY <1>3, JobTyped DEF Records
<1>7. AbsStore' = AbsStore /\ AbsLate' = AbsLate
  BY <1>1, StoreStays, LateStaysAbs
<1>8. CASE y.pc = "done"
  <2>1. Job(y) \in [op : Store!Operations, key : Names, pc : {"done"}, res : {"failed"}]
    BY <1>2, <1>3, <1>6, <1>8 DEF NewRequest, Jobs, Records, Store!Operations
  <2> QED BY <1>4, <1>5, <1>7, <2>1
          DEF Store!Refuse, Store!Becomes, Store!Free, AbsJob, AbsStore, AbsLate, AbsCall
<1>9. CASE y.pc # "done"
  <2>1. Job(y) \in [op : Store!Operations, key : Names, pc : {"asked"}, res : {"none"}]
    BY <1>2, <1>3, <1>6, <1>9 DEF NewRequest, Jobs, Records, Store!Operations
  <2> QED BY <1>4, <1>5, <1>7, <2>1
          DEF Store!Ask, Store!Becomes, Store!Free, AbsJob, AbsStore, AbsLate, AbsCall
<1> QED BY <1>8, <1>9

\* The answer to a request that has not acted yet.
LEMMA AnsweredOutcome ==
  ASSUME Inv, NEW r \in Requests, NEW res \in {"ok", "failed", "absent"}, Finish(r, res)
  PROVE  AbsJob' = [AbsJob EXCEPT ![r].pc = "done", ![r].res = res]
<1>1. PICK y : Answered(r, y) /\ y.res = res
  BY FinishForm
<1>2. ~Acted(y) /\ Job(y).pc = "done" /\ Job(y).res = res
  BY <1>1, JobTyped DEF Answered, Acted, Records
<1> QED BY <1>1, <1>2, JobOutcome, ZenonT(60) DEF Answered, Like

\* A Create acts when the vault stores its material, or is given up on the way
\* there, and fails before that.
LEMMA CreateRefines ==
  ASSUME Placed, Inv, AnchoredInv, NEW r \in Requests,
         MintRefused(r) \/ MintWasted(r) \/ PutFails(r) \/ Put(r) \/ PutLost(r)
  PROVE  Store!GiveUp(r) \/ Store!Change(r) \/ Store!GiveUpInFlight(r)
<1> DEFINE x == req[r]
<1>1. AbsJob[r] = Job(x) /\ Pending(x) /\ x.op = "create"
  BY DEF AbsJob, MintRefused, MintWasted, PutFails, Put, PutLost, At, Pending
<1>2. Job(x).pc = "asked" /\ Job(x).op = "create" /\ Job(x).key = x.name /\ x.name \in Names
  BY <1>1, JobTyped DEF Pending, Acted, Inv, TypeOK, Records
<1>3. CASE MintRefused(r) \/ MintWasted(r) \/ PutFails(r)
  <2>1. Finish(r, "failed") /\ UNCHANGED <<layout, held, late>>
    BY <1>3 DEF MintRefused, MintWasted, PutFails
  <2>2. AbsJob' = [AbsJob EXCEPT ![r].pc = "done", ![r].res = "failed"]
    BY <2>1, AnsweredOutcome
  <2> QED BY <1>1, <1>2, <2>1, <2>2, StoreStays, LateStaysAbs
          DEF Store!GiveUp, Store!Outcome, AbsJob, AbsStore, AbsLate, AbsCall
<1>4. ASSUME x.pc = "put"
      PROVE  \E new \in Materials :
               /\ new.name = x.name /\ new.id = x.id /\ CreateCall(r).to = {new}
               /\ {new.id} \in Store!Effects("create")
               /\ AbsCall(CreateCall(r)) = [key |-> x.name, to |-> {new.id}]
  <2>1. PICK new \in Materials : /\ new.name = x.name /\ new.id = x.id
                                 /\ CreateCall(r).to = {new}
    BY <1>4, CallForm
  <2>2. new.id \in 1..MaxKeys
    BY DEF Materials
  <2>3. {new.id} \in Store!Effects("create")
    BY <2>2 DEF Store!Effects, Store!Contents
  <2>4. CreateCall(r).name = x.name /\ {m.id : m \in {new}} = {new.id}
    BY <1>4, CallForm
  <2> QED BY <2>1, <2>3, <2>4 DEF AbsCall
<1>5. ASSUME x.pc = "put" PROVE Here(r) = layout[1] /\ Head(layout) = layout[1]
  BY <1>5, CallForm, SessionAssumption
     DEF Placed, Anchored, AnchoredInv, Settled, Inv, TypeOK
<1>6. CASE Put(r)
  <2>1. /\ UNCHANGED <<layout, eps, catalogue, keys, late>> /\ Finish(r, "ok")
        /\ x.pc = "put" /\ Here(r) \in Endpoints
    BY <1>6, PutForm
  <2>2. PICK new \in Materials :
          /\ new.name = x.name /\ new.id = x.id /\ CreateCall(r).to = {new}
          /\ {new.id} \in Store!Effects("create")
    BY <1>4, <2>1
  <2>3. held' = [held EXCEPT ![Here(r)] = (@ \ Named(@, x.name)) \cup {new}]
    BY <1>6, <2>1, <2>2, CallForm DEF Put, Does
  <2>4. held'[layout[1]] = (held[layout[1]] \ Named(held[layout[1]], x.name)) \cup {new}
    BY <1>5, <2>1, <2>3 DEF Inv, TypeOK
  <2>5. AbsStore' = [AbsStore EXCEPT ![x.name] = {new.id}]
    <3>1. PICK S : S = {new}
      OBVIOUS
    <3>2. /\ held'[layout[1]] = (held[layout[1]] \ Named(held[layout[1]], x.name)) \cup S
          /\ \A m \in S : m.name = x.name
      BY <2>2, <2>4, <3>1
    <3>3. AbsStore' = [AbsStore EXCEPT ![x.name] = {m.id : m \in S}]
      BY <1>2, <2>1, <3>2, StoreFollows
    <3>4. {m.id : m \in S} = {new.id}
      BY <3>1
    <3> QED BY <3>3, <3>4
  <2>6. AbsJob' = [AbsJob EXCEPT ![r].pc = "done", ![r].res = "ok"]
    BY <2>1, AnsweredOutcome
  <2>7. AbsLate' = AbsLate
    BY <2>1, LateStaysAbs
  <2> QED BY <1>1, <1>2, <2>2, <2>5, <2>6, <2>7
          DEF Store!Change, Store!Outcome, AbsJob, AbsStore, AbsLate, AbsCall
<1>7. CASE PutLost(r)
  <2>1. /\ UNCHANGED <<layout, eps, held, catalogue, keys>> /\ Finish(r, "failed")
        /\ x.pc = "put" /\ late' = late \cup {CreateCall(r)}
    BY <1>7, PutLostForm
  <2>2. PICK new \in Materials :
          /\ {new.id} \in Store!Effects("create")
          /\ AbsCall(CreateCall(r)) = [key |-> x.name, to |-> {new.id}]
    BY <1>4, <2>1
  <2>3. AbsLate' = AbsLate \cup {[key |-> x.name, to |-> {new.id}]}
    BY <1>5, <2>1, <2>2, CallForm, LateFollows
  <2>4. AbsJob' = [AbsJob EXCEPT ![r].pc = "done", ![r].res = "failed"]
    BY <2>1, AnsweredOutcome
  <2> QED BY <1>1, <1>2, <2>1, <2>2, <2>3, <2>4, StoreStays
          DEF Store!GiveUpInFlight, Store!Outcome, AbsJob, AbsStore, AbsLate, AbsCall
<1> QED BY <1>3, <1>6, <1>7

\* A grant is no business of the store.
LEMMA MintRefines ==
  ASSUME Inv, NEW r \in Requests, Mint(r) PROVE Abs' = Abs
<1> DEFINE x == req[r]
<1>1. UNCHANGED <<layout, held, late>> /\ x.pc = "mint"
  BY MintForm
<1>2. PICK y : /\ y \in Records /\ req' = [req EXCEPT ![r] = y] /\ Like(y, x)
               /\ y.pc = "put" /\ y.res = x.res
  BY MintForm
<1>3. Job(y) = Job(x)
  BY <1>1, <1>2 DEF Job, Acted, Like
<1>4. AbsJob' = AbsJob
  BY <1>2, <1>3, JobFollows DEF AbsJob
<1> QED BY <1>1, <1>4, StoreStays, LateStaysAbs DEF Abs

\* Behind the first endpoint of a list there is another vault.
LEMMA SecondIsOther ==
  ASSUME Placed, Inv, AnchoredInv, NEW r \in Requests, req[r].pc = "scan",
         req[r].i <= Len(req[r].list), req[r].i # 1
  PROVE  Here(r) # layout[1]
<1> DEFINE l == req[r].list
<1>1. l \in Layouts /\ l[1] = layout[1] /\ Len(l) \in Nat \ {0} /\ req[r].i \in Nat \ {0}
  BY FirstHere DEF Placed
<1>2. req[r].i \in 2..Len(l)
  BY <1>1
<1> QED BY <1>1, <1>2 DEF Placed, Here

\* An endpoint is passed: the first is where the request acts, with an error, with
\* nothing found, or with a deletion that is given up; a later one can only cost it
\* its answer.
LEMMA PassRefines ==
  ASSUME Placed, Inv, AnchoredInv, NEW r \in Requests,
         EndpointFails(r) \/ EndpointNotFound(r) \/ DeleteLost(r)
  PROVE  \/ Store!GiveUp(r) \/ Store!GiveUpInFlight(r) \/ Store!Use(r) \/ Store!Change(r)
         \/ Abs' = Abs
<1> DEFINE x == req[r]
<1>1. UNCHANGED <<layout, eps, held, catalogue, keys>>
  BY PassForm
<1>2. PICK y : /\ WalksOn(r, y) /\ y.deleted = x.deleted
               /\ \/ y.errs = x.errs \cup {x.i}
                  \/ y.errs = x.errs /\ ~Holds(r) /\ ~DeleteLost(r)
  BY PassForm
<1>3. x \in Records /\ y \in Records /\ req' = [req EXCEPT ![r] = y]
      /\ y.op = x.op /\ y.name = x.name /\ x.pc = "scan" /\ y.pc = "scan"
      /\ x.op \in {"use", "destroy"} /\ x.name \in Names /\ x.i \in Nat \ {0}
      /\ x.deleted \in BOOLEAN /\ x.i <= Len(x.list)
  BY <1>2 DEF WalksOn, Like, Inv, TypeOK, Records
<1>4. Acted(y)
  BY <1>2, <1>3 DEF WalksOn, Acted
<1>5. Job(y).pc = "acted" /\ Job(y).res = Told(y)
  BY <1>3, <1>4, JobTyped DEF Records
<1>6. /\ AbsJob' = [AbsJob EXCEPT ![r].pc = "acted", ![r].res = Told(y)]
      /\ AbsStore' = AbsStore /\ AbsJob[r] = Job(x)
      /\ Job(x).op = x.op /\ Job(x).key = x.name
  <2>1. AbsJob' = [AbsJob EXCEPT ![r].pc = Job(y).pc, ![r].res = Job(y).res]
    BY <1>3, JobOutcome
  <2>2. AbsStore' = AbsStore /\ AbsJob[r] = Job(x)
    BY <1>1, StoreStays DEF AbsJob
  <2>3. Job(x).op = x.op /\ Job(x).key = x.name
    BY <1>3, JobTyped DEF Records
  <2> QED BY <1>5, <2>1, <2>2, <2>3
<1>7. CASE x.i = 1
  <2>1. ~x.deleted /\ x.errs = {}
    BY <1>7 DEF AnchoredInv, Settled
  <2>2. ~Acted(x) /\ Job(x).pc = "asked"
    BY <1>3, <1>7, JobTyped DEF Acted, Records
  <2>3. Here(r) = layout[1] /\ Head(layout) = layout[1]
    BY <1>3, <1>7, FirstHere, StoreIsFirst DEF Placed
  <2>4. CASE DeleteLost(r)
    <3>1. Told(y) = "failed" /\ x.op = "destroy"
      <4>1. y.errs # {} /\ x.op = "destroy"
        BY <1>2, <2>4 DEF DeleteLost, Scanning, At
      <4> QED BY <1>2, <1>3, <2>1, <4>1 DEF Told
    <3>2. late' = late \cup {DeleteCall(r)}
      BY <2>4 DEF DeleteLost
    <3>3. DeleteCall(r).at = Head(layout) /\ AbsCall(DeleteCall(r)) = [key |-> x.name, to |-> {}]
      BY <2>3 DEF DeleteCall, AbsCall
    <3>4. AbsLate' = AbsLate \cup {[key |-> x.name, to |-> {}]}
      BY <1>1, <3>2, <3>3, LateFollows
    <3>5. {} \in Store!Effects("destroy")
      BY DEF Store!Effects
    <3> QED BY <1>6, <2>2, <3>1, <3>4, <3>5
            DEF Store!GiveUpInFlight, Store!Outcome, AbsJob, AbsStore, AbsLate, AbsCall
  <2>5. CASE ~DeleteLost(r)
    <3>1. AbsLate' = AbsLate
      <4>1. late' = late
        BY <2>5, PassForm
      <4> QED BY <1>1, <4>1, LateStaysAbs
    <3>2. CASE y.errs # {}
      <4>1. Told(y) = "failed"
        BY <1>2, <2>1, <3>2 DEF Told
      <4> QED BY <1>6, <2>2, <3>1, <4>1
              DEF Store!GiveUp, Store!Outcome, AbsJob, AbsStore, AbsLate, AbsCall
    <3>3. CASE y.errs = {}
      <4>1. ~Holds(r)
        BY <1>2, <3>3
      <4>2. AbsStore[x.name] = {}
        BY <1>3, <2>3, <4>1, StoreIsFirst DEF Holds
      <4>3. Told(y) = IF x.op = "use" THEN "absent" ELSE "ok"
        BY <1>2, <1>3, <2>1, <3>3 DEF Told
      <4>4. CASE x.op = "use"
        BY <1>6, <2>2, <3>1, <4>2, <4>3, <4>4
           DEF Store!Use, Store!Outcome, AbsJob, AbsStore, AbsLate, AbsCall
      <4>5. CASE x.op = "destroy"
        <5>1. AbsStore' = [AbsStore EXCEPT ![x.name] = {}]
          BY <1>3, <1>6, <4>2 DEF AbsStore
        <5>2. {} \in Store!Effects("destroy")
          BY DEF Store!Effects
        <5> QED BY <1>6, <2>2, <3>1, <4>3, <4>5, <5>1, <5>2
                DEF Store!Change, Store!Outcome, AbsJob, AbsStore, AbsLate, AbsCall
      <4> QED BY <1>3, <4>4, <4>5
    <3> QED BY <3>2, <3>3
  <2> QED BY <2>4, <2>5
<1>8. CASE x.i # 1
  <2>1. Acted(x)
    BY <1>3, <1>8 DEF Acted
  <2>2. Job(x).pc = "acted" /\ Job(x).res = Told(x)
    BY <1>3, <2>1, JobTyped DEF Records
  <2>3. Told(y) = Told(x) \/ Told(y) = "failed"
    BY <1>2, <1>3 DEF Told
  <2>4. AbsLate' = AbsLate
    <3>1. Here(r) # Head(layout)
      BY <1>3, <1>8, SecondIsOther, StoreIsFirst
    <3>2. CASE late' = late
      BY <1>1, <3>2, LateStaysAbs
    <3>3. CASE late' = late \cup {DeleteCall(r)}
      <4>1. DeleteCall(r).at # Head(layout)
        BY <3>1 DEF DeleteCall
      <4> QED BY <1>1, <3>3, <4>1, LateFollows
    <3> QED BY <3>2, <3>3, PassForm
  <2>5. CASE Told(y) = "failed"
    BY <1>6, <2>2, <2>4, <2>5
       DEF Store!GiveUp, Store!Outcome, AbsJob, AbsStore, AbsLate, AbsCall
  <2>6. CASE Told(y) = Told(x)
    <3>1. Job(y) = Job(x)
      BY <1>3, <1>4, <2>1, <2>6 DEF Job
    <3>2. AbsJob' = AbsJob
      BY <1>3, <3>1, JobFollows DEF AbsJob
    <3> QED BY <1>6, <2>4, <3>2 DEF Abs
  <2> QED BY <2>3, <2>5, <2>6
<1> QED BY <1>7, <1>8

\* A vault that holds anything is the first of the list, and met once.
LEMMA HolderIsFirst ==
  ASSUME Placed, Inv, AnchoredInv, NEW r \in Requests, req[r].pc = "scan",
         req[r].i <= Len(req[r].list), Holds(r)
  PROVE  req[r].i = 1 /\ Here(r) = layout[1] /\ AbsStore[req[r].name] # {}
<1> DEFINE l == req[r].list
<1>1. /\ l \in Layouts /\ l[1] = layout[1]
      /\ Len(l) \in Nat \ {0} /\ req[r].i \in Nat \ {0}
  BY FirstHere DEF Placed
<1>2. req[r] \in Records /\ req[r].i \in 1..Len(l)
  BY <1>1 DEF Inv, TypeOK
<1>3. Here(r) = l[req[r].i] /\ Here(r) \in Endpoints
  BY <1>1, <1>2, ListTyped DEF Here
<1>4. Here(r) = layout[1]
  BY <1>3 DEF AnchoredInv, OnFirst, Holds, Named
<1>5. req[r].i = 1
  BY <1>4, SecondIsOther
<1>6. AbsStore[req[r].name] # {}
  <2>1. PICK m : m \in Named(held[layout[1]], req[r].name)
    BY <1>4 DEF Holds
  <2>2. AbsStore[req[r].name] = {n.id : n \in Named(held[layout[1]], req[r].name)}
    BY <1>2, StoreIsFirst DEF Records
  <2>3. m.id \in AbsStore[req[r].name]
    BY <2>1, <2>2
  <2> QED BY <2>3
<1> QED BY <1>4, <1>5, <1>6

\* A Destroy acts when the first vault deletes.
LEMMA DeleteRefines ==
  ASSUME Placed, Inv, AnchoredInv, NEW r \in Requests, VaultDeletes(r)
  PROVE  Store!Change(r)
<1> DEFINE x == req[r]
<1>1. /\ UNCHANGED <<layout, eps, catalogue, keys, late>> /\ Here(r) \in Endpoints /\ Holds(r)
      /\ held' = [held EXCEPT ![Here(r)] = @ \ Named(@, x.name)] /\ x.op = "destroy"
  BY DeleteForm
<1>2. PICK y : WalksOn(r, y) /\ y.deleted /\ y.errs = x.errs
  BY DeleteForm
<1>3. x.i = 1 /\ Here(r) = layout[1] /\ x \in Records /\ x.name \in Names /\ x.pc = "scan"
  BY <1>1, <1>2, HolderIsFirst DEF WalksOn, Inv, TypeOK, Records
<1>4. Acted(y) /\ y \in Records /\ y.op = "destroy" /\ y.name = x.name
      /\ req' = [req EXCEPT ![r] = y]
  BY <1>1, <1>2, <1>3 DEF WalksOn, Like, Acted
<1>5. Job(y).pc = "acted" /\ Job(y).res = "ok"
  BY <1>2, <1>4, JobTyped DEF Records, Told
<1>6. Job(x).pc = "asked" /\ Job(x).op = "destroy" /\ Job(x).key = x.name
      /\ AbsJob[r] = Job(x)
  BY <1>1, <1>3, JobTyped DEF Acted, Records, AbsJob
<1>7. AbsJob' = [AbsJob EXCEPT ![r].pc = "acted", ![r].res = "ok"]
  BY <1>1, <1>4, <1>5, JobOutcome
<1>8. AbsStore' = [AbsStore EXCEPT ![x.name] = {}]
  <2>1. held'[layout[1]] = (held[layout[1]] \ Named(held[layout[1]], x.name)) \cup {}
    BY <1>1, <1>3 DEF Inv, TypeOK
  <2>2. PICK S : S = {}
    OBVIOUS
  <2>3. AbsStore' = [AbsStore EXCEPT ![x.name] = {m.id : m \in S}]
    BY <1>1, <1>3, <2>1, <2>2, StoreFollows
  <2> QED BY <2>2, <2>3
<1>9. {} \in Store!Effects("destroy") /\ AbsLate' = AbsLate
  BY <1>1, LateStaysAbs DEF Store!Effects
<1> QED BY <1>6, <1>7, <1>8, <1>9
        DEF Store!Change, Store!Outcome, AbsJob, AbsStore, AbsLate, AbsCall

\* A use acts when its holder answers.
LEMMA HolderRefines ==
  ASSUME Placed, Inv, AnchoredInv, NEW r \in Requests, HolderAnswers(r)
  PROVE  Store!Use(r)
<1> DEFINE x == req[r]
<1>1. x.pc = "scan" /\ x.op = "use" /\ x.i <= Len(x.list) /\ Holds(r) /\ Finish(r, "ok")
      /\ UNCHANGED <<layout, held, late>> /\ x \in Records
  BY DEF HolderAnswers, Scanning, At, Inv, TypeOK
<1>2. x.i = 1 /\ AbsStore[x.name] # {}
  BY <1>1, HolderIsFirst
<1>3. Job(x).pc = "asked" /\ Job(x).op = "use" /\ Job(x).key = x.name /\ AbsJob[r] = Job(x)
  BY <1>1, <1>2, JobTyped DEF Acted, Records, AbsJob
<1>4. AbsJob' = [AbsJob EXCEPT ![r].pc = "done", ![r].res = "ok"]
  BY <1>1, AnsweredOutcome
<1> QED BY <1>1, <1>2, <1>3, <1>4, StoreStays, LateStaysAbs
        DEF Store!Use, Store!Outcome, AbsJob, AbsStore, AbsLate, AbsCall

\* The end of the list answers what the first vault decided.
LEMMA EndRefines ==
  ASSUME Placed, Inv, AnchoredInv, NEW r \in Requests, UseExhausted(r) \/ DestroyEnd(r)
  PROVE  Store!Answer(r)
<1> DEFINE x == req[r]
<1>1. x.pc = "scan" /\ x.i > Len(x.list) /\ x.op \in {"use", "destroy"}
      /\ UNCHANGED <<layout, held, late>> /\ x \in Records /\ Finish(r, Told(x))
  BY DEF UseExhausted, DestroyEnd, At, Told, Inv, TypeOK
<1>2. Acted(x)
  <2>1. Len(x.list) \in Nat \ {0} /\ x.i \in Nat
    BY <1>1, FirstHere DEF Placed
  <2> QED BY <1>1, <2>1 DEF Acted
<1>3. Told(x) \in {"ok", "failed", "absent"}
  BY DEF Told
<1>4. Job(x).pc = "acted" /\ Job(x).res = Told(x) /\ AbsJob[r] = Job(x)
  BY <1>1, <1>2, JobTyped DEF Records, AbsJob
<1>5. PICK y : Answered(r, y) /\ y.res = Told(x)
  BY <1>1, <1>3, FinishForm
<1>6. Job(y).pc = "done" /\ Job(y).res = Told(x)
  BY <1>5, JobTyped DEF Answered, Acted, Records
<1>7. AbsJob' = [AbsJob EXCEPT ![r].pc = "done"]
  <2>1. Job(y).res = Job(x).res => AbsJob' = [AbsJob EXCEPT ![r].pc = Job(y).pc]
    BY <1>5, JobOutcome DEF Answered, Like
  <2> QED BY <1>4, <1>6, <2>1
<1> QED BY <1>1, <1>4, <1>7, StoreStays, LateStaysAbs
        DEF Store!Answer, AbsJob, AbsStore, AbsLate, AbsCall

\* Another constellation has the store on the same vault.
LEMMA ListsRefine ==
  ASSUME Placed, Inv, Refresh \/ LayoutChange PROVE Abs' = Abs
<1>1. UNCHANGED <<held, late, req>> /\ layout \in Layouts /\ layout' \in Layouts
  BY DEF Refresh, LayoutChange, Inv, TypeOK
<1>2. Head(layout') = Head(layout)
  BY <1>1, SessionAssumption DEF Placed, Anchored
<1> QED BY <1>1, <1>2 DEF Abs, AbsJob, AbsStore, AbsLate, AbsCall

\* What the calls to the first vault stand for tells them apart.
LEMMA CallsApart ==
  ASSUME Inv, NEW l \in late, NEW k \in late, k.at = l.at, AbsCall(k) = AbsCall(l)
  PROVE  k = l
<1>1. LateSound(l) /\ l \in Calls /\ k \in Calls
  BY DEF Inv, TypeOK
<1>2. k.name = l.name /\ {m.id : m \in k.to} = {m.id : m \in l.to}
  BY DEF AbsCall
<1>3. CASE l.to = {}
  <2>1. k.to = {}
    BY <1>2, <1>3
  <2> QED BY <1>1, <1>2, <1>3, <2>1 DEF Calls
<1>4. CASE l.to # {}
  <2>1. PICK m \in l.to : TRUE
    BY <1>4
  <2>2. \E p \in k.to : p.id = m.id
    BY <1>2
  <2> QED BY <1>1, <2>2 DEF LateSound
<1> QED BY <1>3, <1>4

\* A call that acts late acts on the store if it was made of the first vault; on
\* another one it deletes what is not there.
LEMMA SettleRefines ==
  ASSUME Placed, Inv, AnchoredInv, NEW l \in late, Settle(l)
  PROVE  Store!Next \/ Abs' = Abs
<1>1. /\ UNCHANGED <<layout, eps, catalogue, keys, req>> /\ l \in Calls
      /\ \A e \in Endpoints : e # l.at => held'[e] = held[e]
      /\ held'[l.at] = (held[l.at] \ Named(held[l.at], l.name)) \cup l.to
      /\ late' = late \ {l} \/ (l.to = {} /\ late' = late)
  BY SettleForm
<1>2. /\ LateSound(l) /\ l.name \in Names /\ layout[1] \in Endpoints
      /\ Head(layout) = layout[1] /\ AbsJob' = AbsJob
  BY <1>1, StoreIsFirst DEF Inv, Calls, AbsJob
<1>3. CASE l.at = layout[1]
  <2>1. AbsStore' = [AbsStore EXCEPT ![l.name] = {m.id : m \in l.to}]
    <3>1. PICK n \in Names : n = l.name
      BY <1>2
    <3>2. PICK S : S = l.to
      OBVIOUS
    <3>3. /\ held'[layout[1]] = (held[layout[1]] \ Named(held[layout[1]], n)) \cup S
          /\ \A m \in S : m.name = n
      BY <1>1, <1>2, <1>3, <3>1, <3>2 DEF LateSound
    <3>4. AbsStore' = [AbsStore EXCEPT ![n] = {m.id : m \in S}]
      BY <1>1, <3>3, StoreFollows
    <3> QED BY <3>1, <3>2, <3>4
  <2>2. late' = late \ {l} => AbsLate' = AbsLate \ {AbsCall(l)}
    <3> SUFFICES ASSUME late' = late \ {l} PROVE AbsLate' = AbsLate \ {AbsCall(l)}
      OBVIOUS
    <3>1. \A k \in late : (k.at = Head(layout) /\ AbsCall(k) = AbsCall(l)) => k = l
      BY <1>2, <1>3, CallsApart
    <3> HIDE DEF AbsCall
    <3> QED BY <1>1, <3>1 DEF AbsLate
  <2>3. late' = late => AbsLate' = AbsLate
    BY <1>1, LateStaysAbs
  <2>5. AbsCall(l) \in AbsLate
    BY <1>2, <1>3 DEF AbsLate
  <2>6. PICK x : x = AbsCall(l)
    OBVIOUS
  <2>7. x.key = l.name /\ x.to = {m.id : m \in l.to} /\ (l.to = {} => x.to = {})
    BY <2>6 DEF AbsCall
  <2>8. AbsStore' = [AbsStore EXCEPT ![x.key] = x.to]
    BY <2>1, <2>7
  <2>9. AbsLate' = AbsLate \ {x} \/ (x.to = {} /\ AbsLate' = AbsLate)
    BY <1>1, <2>2, <2>3, <2>6, <2>7
  <2>10. x \in AbsLate /\ Store!Settle(x)
    BY <1>2, <2>5, <2>6, <2>8, <2>9 DEF Store!Settle, AbsJob, AbsStore, AbsLate, AbsCall
  <2> QED BY <2>10 DEF Store!Next, AbsLate, AbsCall
<1>4. CASE l.at # layout[1]
  <2>1. l.to = {} /\ held'[layout[1]] = held[layout[1]]
    BY <1>1, <1>2, <1>4 DEF AnchoredInv, LateOnFirst
  <2>2. AbsStore' = AbsStore
    BY <1>1, <1>2, <2>1 DEF AbsStore
  <2>3. AbsLate' = AbsLate
    BY <1>1, <1>2, <1>4 DEF AbsLate, AbsCall
  <2> QED BY <1>2, <2>2, <2>3 DEF Abs
<1> QED BY <1>3, <1>4

\* While the constellation keeps its first vault, and names it once, the session
\* is an atomic key store: a Create that spans the platform and a vault, and walks
\* that meet vaults one at a time on lists that may lag, act at one moment each,
\* and an answer other than an error is the truth of that moment (session.go).
THEOREM SessionIsAtomicStore ==
  ASSUME Placed PROVE Spec => AtomicStore
<1>1. Init => Store!Init
  <2> SUFFICES ASSUME Init PROVE Store!Init
    OBVIOUS
  <2>1. layout \in Seq(Endpoints) /\ layout # <<>>
    BY SessionAssumption DEF Init, Placed, Anchored
  <2>2. held[Head(layout)] = {}
    BY <2>1 DEF Init
  <2>3. \A n \in Names : {m.id : m \in Named(held[Head(layout)], n)} = {}
    BY <2>2 DEF Named
  <2>4. Job(Idle) = Store!Idle
    BY DEF Job, Idle, Acted, Store!Idle
  <2>5. \A r \in Requests : Job(req[r]) = Store!Idle
    BY <2>4 DEF Init
  <2>6. [n \in Names |-> {m.id : m \in Named(held[Head(layout)], n)}]
          \in [Names -> Store!Contents]
    BY <2>3 DEF Store!Contents
  <2>7. {[key |-> x.name, to |-> {m.id : m \in x.to}] :
           x \in {y \in late : y.at = Head(layout)}} = {}
    BY DEF Init
  <2> QED BY <2>5, <2>6, <2>7 DEF Store!Init
<1>2. Inv /\ AnchoredInv /\ [Next]_vars => [Store!Next]_(Store!vars)
  <2> SUFFICES ASSUME Inv, AnchoredInv, [Next]_vars PROVE [Store!Next]_(Store!vars)
    OBVIOUS
  <2>1. ASSUME NEW r \in Requests, BeginScan(r) \/ BeginCreate(r) \/ BeginFails(r)
        PROVE  Store!Next
    BY <2>1, BeginRefines DEF Store!Next
  <2>2. ASSUME NEW r \in Requests, RequestStep(r)
        PROVE  Store!Next \/ Abs' = Abs
    BY <2>2, CreateRefines, MintRefines, PassRefines, HolderRefines, DeleteRefines,
       EndRefines DEF RequestStep, Store!Next
  <2>3. CASE UNCHANGED vars
    BY <2>3 DEF vars, Store!vars
  <2>4. ASSUME NEW l \in late, Settle(l)
        PROVE  Store!Next \/ Abs' = Abs
    BY <2>4, SettleRefines
  <2>5. Abs' = Abs => UNCHANGED Store!vars
    BY DEF Abs, Store!vars, AbsJob, AbsStore, AbsLate, AbsCall
  <2> QED BY <2>1, <2>2, <2>3, <2>4, <2>5, ListsRefine DEF Next
<1>3. Anchored
  BY DEF Placed
<1> QED BY <1>1, <1>2, <1>3, Invariant, AnchoredInvariant, PTL DEF Spec, AtomicStore, Store!Spec
=============================================================================
