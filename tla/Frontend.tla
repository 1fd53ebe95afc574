------------------------------ MODULE Frontend ------------------------------
(***************************************************************************)
(* The request surfaces: KMIP messages (POST /kmip, internal/kmip) and the *)
(* management calls (POST /keys, /sign, /public, internal/control).  Each  *)
(* request takes the installed session, checks its fields, makes at most   *)
(* one call of that session and turns the outcome into an answer, while    *)
(* the self-config loop may install a session for another vault.           *)
(*                                                                         *)
(* A session call starts, acts on the vault at one moment and returns, in  *)
(* steps of their own; it may fail before that moment or after it, and a   *)
(* Create or Destroy that has failed may act later still.  This is what    *)
(* VaultSession implements of KeyStore.  External: the TTLV decoding and   *)
(* batching of kmip-go, and what the vaults hold, which may include keys   *)
(* that other clients of the owner's vault have made.                      *)
(***************************************************************************)
EXTENDS Naturals, Sequences, FiniteSets

CONSTANTS
  Vaults,     \* vaults a session may front
  Requested,  \* key names that clients choose
  Generated,  \* key names generateName makes; it never makes one twice
  NoName,     \* the empty name
  NoVault,    \* no session installed
  Clients,    \* goroutines that serve requests
  AskedTypes, \* object types and
  AskedAlgs,  \* algorithms that KMIP clients ask for
  AskedKinds, \* key types that POST /keys asks for, "none" for any other
  StoredKinds, \* types of the keys that others made
  MaxAttrs,   \* bound: attributes of a request
  MaxStored,  \* bound: keys that others made
  MaxKeys,    \* bound: keys altogether
  MaxLate     \* bound: failed calls that may still act

Names       == Requested \cup Generated
\* The types that the gateway creates, and those a vault may hold: "other" is
\* any other than HmacSha256Key that attrs.go does not know.
KeyTypes    == {"aes", "p256"}
VaultTypes  == KeyTypes \cup {"hmac", "other"}
NoKey       == [type |-> "none", id |-> 0]
\* "none" is the zero value of the enumerations, and an algorithm that is
\* missing or that coerceAlgorithm cannot read.
ObjectTypes == {"SymmetricKey", "PrivateKey", "PublicKey", "SecretData", "none"}
Algorithms  == {"AES", "ECDSA", "HMAC", "none"}

ASSUME FrontendAssumption ==
  /\ Requested \cap Generated = {}
  /\ NoName \notin Names
  /\ NoVault \notin Vaults
  /\ MaxAttrs \in Nat /\ MaxKeys \in Nat /\ MaxStored \in 0..MaxKeys
  /\ AskedTypes \subseteq ObjectTypes /\ AskedAlgs \subseteq Algorithms
  /\ AskedKinds \subseteq KeyTypes \cup {"none"} /\ StoredKinds \subseteq VaultTypes

VARIABLES
  sess,   \* the vault of Server.sess and Server.kmip, always set together
  store,  \* store[v][n]: the key named n on vault v: its type and its number
  made,   \* keys made so far, that of a Create that may act late among them
  gone,   \* numbers of the keys that have been destroyed or replaced
  used,   \* generated names so far
  late,   \* calls that failed and may still act
  req     \* req[c]: the request that c serves or served last

vars == <<sess, store, made, gone, used, late, req>>

Functions == {"Create", "Destroy", "Wrap", "Unwrap", "Sign", "GetKeyInfo", "Locate"}
Codes == {"none", "Success", "InvalidField", "GeneralFailure", "ItemNotFound",
              "OK", "BadRequest", "NotFound", "BadGateway", "Unavailable"}

(***************************************************************************)
(* pc is "idle", "call" (the session is called), "acted" (the call has     *)
(* acted and is still to return) or "done".  otype and alg are what a      *)
(* Create asked for, and what GetAttributes answered; type and id are of   *)
(* the key that was created or described.  Of a request that is refused    *)
(* only the answer is kept, of one that fails what it asked as well.       *)
(***************************************************************************)
Idle == [pc |-> "idle", kmip |-> TRUE, fn |-> "Locate", uid |-> NoName,
         otype |-> "SecretData", alg |-> "none", type |-> "none",
         vault |-> NoVault, id |-> 0, code |-> "none"]

Places == Vaults \X (Names \cup {NoName})
KeyAt(k) == store[k[1]][k[2]]

\* Others may have made keys, of any type, under names that clients choose.
Init ==
  /\ sess = NoVault
  /\ store \in [Vaults -> [Names \cup {NoName} ->
                   {NoKey} \cup [type : StoredKinds, id : 1..MaxStored]]]
  /\ \A k \in Places : KeyAt(k) # NoKey =>
       k[2] \in Requested /\ \A l \in Places \ {k} : KeyAt(l).id # KeyAt(k).id
  /\ made = MaxStored
  /\ gone = {} /\ used = {} /\ late = {}
  /\ req = [c \in Clients |-> Idle]

-----------------------------------------------------------------------------
(***************************************************************************)
(* attrs.go                                                                *)
(***************************************************************************)

\* The object type decides; the algorithm is looked at only without one the
\* gateway knows.
KeyTypeFor(otype, alg) ==
  IF otype = "SymmetricKey" THEN "aes"
  ELSE IF otype \in {"PrivateKey", "PublicKey"} THEN "p256"
  ELSE IF alg = "AES" THEN "aes"
  ELSE IF alg = "ECDSA" THEN "p256" ELSE "none"

\* A mutated KmipTypeFor: HmacSha256Key falls under the AES case.
KmipTypeForNoHmac(kt) ==
  CASE kt \in {"aes", "hmac"} -> [otype |-> "SymmetricKey", alg |-> "AES"]
    [] kt = "p256"            -> [otype |-> "PrivateKey", alg |-> "ECDSA"]
    [] OTHER                  -> [otype |-> "none", alg |-> "none"]

KmipTypeFor(kt) ==
  CASE kt = "aes"  -> [otype |-> "SymmetricKey", alg |-> "AES"]
    [] kt = "p256" -> [otype |-> "PrivateKey", alg |-> "ECDSA"]
    [] kt = "hmac" -> [otype |-> "SymmetricKey", alg |-> "HMAC"]
    [] OTHER       -> [otype |-> "none", alg |-> "none"]

\* Attributes as they come: under which name, and what nameValue can make of
\* the value.  "text" is a string, a Name or a TTLV value that decodes to one.
Attributes == [name : {"Name", "other"}, value : {"text", "unreadable"},
               text : Requested \cup {NoName}]
AttributeLists == UNION {[1..n -> Attributes] : n \in 0..MaxAttrs}

NameValue(attr) == IF attr.value = "text" THEN attr.text ELSE NoName

\* The first attribute called Name decides, whatever its value.
IsFirstName(attrs, i) ==
  attrs[i].name = "Name" /\ \A j \in 1..(i - 1) : attrs[j].name # "Name"

NameIn(attrs) ==
  IF \E i \in DOMAIN attrs : IsFirstName(attrs, i)
    THEN NameValue(attrs[CHOOSE i \in DOMAIN attrs : IsFirstName(attrs, i)])
    ELSE NoName

\* What comes of the attributes that clients send.
NamesAsked == {NameIn(attrs) : attrs \in AttributeLists}

-----------------------------------------------------------------------------
(***************************************************************************)
(* Requests arrive.  What is refused is answered in the same step.         *)
(***************************************************************************)
Free(c) == req[c].pc \in {"idle", "done"}
New(kmip, fn, uid) == [Idle EXCEPT !.kmip = kmip, !.fn = fn, !.uid = uid]

Answer(c, r, code) == req' = [req EXCEPT ![c] = [r EXCEPT !.pc = "done", !.code = code]]
Refuse(c, kmip, code) == Answer(c, New(kmip, "Locate", NoName), code)
Call(c, r) == req' = [req EXCEPT ![c] = [r EXCEPT !.pc = "call", !.vault = sess]]

\* POST /kmip without a session, without a readable body, or with a payload
\* that does not decode.
KmipRefused(c) ==
  /\ Free(c)
  /\ \E code \in IF sess = NoVault THEN {"Unavailable"} ELSE {"BadRequest", "InvalidField"} :
       Refuse(c, TRUE, code)
  /\ UNCHANGED <<sess, store, made, gone, used, late>>

\* handleCreate: the name the client gives, or a generated one.
KmipCreate(c) ==
  /\ Free(c) /\ sess # NoVault /\ made < MaxKeys
  /\ \E otype \in AskedTypes, alg \in AskedAlgs, asked \in NamesAsked :
       LET type == KeyTypeFor(otype, alg)
       IN  IF type = "none"
             THEN Refuse(c, TRUE, "InvalidField") /\ UNCHANGED used
             ELSE \E name \in IF asked # NoName THEN {asked} ELSE Generated \ used :
                    /\ Call(c, [New(TRUE, "Create", name) EXCEPT
                                  !.otype = otype, !.alg = alg, !.type = type])
                    /\ used' = used \cup ({name} \cap Generated)
  /\ UNCHANGED <<sess, store, made, gone, late>>

\* A mutated KmipKeyOp: a missing unique identifier is not refused.
KmipKeyOpUnchecked(c) ==
  /\ Free(c) /\ sess # NoVault
  /\ \E fn \in {"Destroy", "Wrap", "Unwrap", "Sign", "GetKeyInfo"},
        uid \in Names \cup {NoName} :
       \E iv \in IF fn = "Unwrap" THEN BOOLEAN ELSE {FALSE} :
         IF fn = "Unwrap" /\ ~iv THEN Refuse(c, TRUE, "InvalidField")
         ELSE Call(c, New(TRUE, fn, uid))
  /\ UNCHANGED <<sess, store, made, gone, used, late>>

\* handleDestroy, -Encrypt, -Decrypt, -Sign and -GetAttributes; a Decrypt needs
\* an IV as well.
KmipKeyOp(c) ==
  /\ Free(c) /\ sess # NoVault
  /\ \E fn \in {"Destroy", "Wrap", "Unwrap", "Sign", "GetKeyInfo"},
        uid \in Names \cup {NoName} :
       \E iv \in IF fn = "Unwrap" THEN BOOLEAN ELSE {FALSE} :
         IF uid = NoName \/ (fn = "Unwrap" /\ ~iv)
           THEN Refuse(c, TRUE, "InvalidField")
           ELSE Call(c, New(TRUE, fn, uid))
  /\ UNCHANGED <<sess, store, made, gone, used, late>>

\* handleLocate: the name asked for is the identifier; no vault is asked.
KmipLocate(c) ==
  /\ Free(c) /\ sess # NoVault
  /\ \E name \in NamesAsked : Answer(c, New(TRUE, "Locate", name), "Success")
  /\ UNCHANGED <<sess, store, made, gone, used, late>>

\* A management call whose body does not decode.
HttpMalformed(c) ==
  /\ Free(c)
  /\ Refuse(c, FALSE, "BadRequest")
  /\ UNCHANGED <<sess, store, made, gone, used, late>>

\* POST /keys: no name is made up, and the type defaults to "aes".
HttpCreate(c) ==
  /\ Free(c) /\ made < MaxKeys
  /\ \E name \in Requested \cup {NoName}, type \in AskedKinds :
       LET r == [New(FALSE, "Create", name) EXCEPT !.type = type]
       IN  IF sess = NoVault THEN Refuse(c, FALSE, "Unavailable") ELSE Call(c, r)
  /\ UNCHANGED <<sess, store, made, gone, used, late>>

\* POST /sign and /public: the name is checked before the session.
HttpKeyOp(c) ==
  /\ Free(c)
  /\ \E fn \in {"Sign", "GetKeyInfo"}, uid \in Names \cup {NoName} :
       IF uid = NoName THEN Refuse(c, FALSE, "BadRequest")
       ELSE IF sess = NoVault THEN Refuse(c, FALSE, "Unavailable")
       ELSE Call(c, New(FALSE, fn, uid))
  /\ UNCHANGED <<sess, store, made, gone, used, late>>

-----------------------------------------------------------------------------
(***************************************************************************)
(* The call of the session acts, and returns.                              *)
(***************************************************************************)
Calling(c, fn) == req[c].pc = "call" /\ req[c].fn = fn
Place(c) == <<req[c].vault, req[c].uid>>
Key(c) == KeyAt(Place(c))

\* The vault puts a key, or none, in the place of what it holds.
Stores(v, n, key) ==
  /\ store' = [store EXCEPT ![v][n] = key]
  /\ gone' = gone \cup ({store[v][n].id} \ {0})

Acted(c) == req' = [req EXCEPT ![c].pc = "acted"]
ActedOn(c, key) ==
  req' = [req EXCEPT ![c].pc = "acted", ![c].type = key.type, ![c].id = key.id]

\* A key of a supported type is created, in place of one under that name.
CreateActs(c) ==
  /\ Calling(c, "Create") /\ req[c].type \in KeyTypes /\ made < MaxKeys
  /\ made' = made + 1
  /\ LET key == [type |-> req[c].type, id |-> made']
     IN  Stores(req[c].vault, req[c].uid, key) /\ ActedOn(c, key)
  /\ UNCHANGED <<sess, used, late>>

\* A mutated DestroyActs: the handler takes the session anew for the call.
DestroyActsElsewhere(c) ==
  /\ Calling(c, "Destroy")
  /\ Stores(sess, req[c].uid, NoKey)
  /\ Acted(c)
  /\ UNCHANGED <<sess, made, used, late>>

\* The key is deleted; one that is not there counts as deleted.
DestroyActs(c) ==
  /\ Calling(c, "Destroy")
  /\ Stores(req[c].vault, req[c].uid, NoKey)
  /\ Acted(c)
  /\ UNCHANGED <<sess, made, used, late>>

\* The vault wraps and unwraps under an AES key and signs with a P-256 key.
UseActs(c) ==
  /\ \/ (Calling(c, "Wrap") \/ Calling(c, "Unwrap")) /\ Key(c).type = "aes"
     \/ Calling(c, "Sign") /\ Key(c).type = "p256"
  /\ Acted(c)
  /\ UNCHANGED <<sess, store, made, gone, used, late>>

\* It describes any key.
InfoActs(c) ==
  /\ Calling(c, "GetKeyInfo") /\ Key(c) # NoKey
  /\ ActedOn(c, Key(c))
  /\ UNCHANGED <<sess, store, made, gone, used, late>>

\* The session returns without an error.  handleGetAttributes maps the key's
\* type back; getPublicKey needs a key that has a public half.
CallReturns(c) ==
  /\ req[c].pc = "acted"
  /\ LET info == req[c].fn = "GetKeyInfo"
         t    == KmipTypeFor(req[c].type)
     IN  IF req[c].kmip
           THEN Answer(c, IF info THEN [req[c] EXCEPT !.otype = t.otype, !.alg = t.alg]
                          ELSE req[c], "Success")
           ELSE Answer(c, req[c],
                       IF info /\ req[c].type # "p256" THEN "BadRequest" ELSE "OK")
  /\ UNCHANGED <<sess, store, made, gone, used, late>>

\* Each handler has one answer for all errors.
Failed(c) ==
  LET info == req[c].fn = "GetKeyInfo"
      code == IF req[c].kmip THEN IF info THEN "ItemNotFound" ELSE "GeneralFailure"
              ELSE IF info THEN "NotFound" ELSE "BadGateway"
  IN  Answer(c, [New(req[c].kmip, req[c].fn, req[c].uid) EXCEPT !.vault = req[c].vault], code)

\* A mutated CallFails: the handlers drop the error.
CallFailsDropped(c) ==
  /\ req[c].pc \in {"call", "acted"}
  /\ Answer(c, req[c], IF req[c].kmip THEN "Success" ELSE "OK")
  /\ UNCHANGED <<sess, store, made, gone, used, late>>

\* The session returns an error, for whatever reason, before the call has acted
\* or after it.
CallFails(c) ==
  /\ req[c].pc \in {"call", "acted"}
  /\ Failed(c)
  /\ UNCHANGED <<sess, store, made, gone, used, late>>

\* It returns an error, and a vault may still carry the call out.
CallGivenUp(c) ==
  /\ Cardinality(late) < MaxLate
  /\ \/ Calling(c, "Create") /\ req[c].type \in KeyTypes /\ made < MaxKeys
       /\ made' = made + 1
       /\ late' = late \cup {[at |-> Place(c), key |-> [type |-> req[c].type, id |-> made']]}
     \/ Calling(c, "Destroy")
       /\ late' = late \cup {[at |-> Place(c), key |-> NoKey]}
       /\ UNCHANGED made
  /\ Failed(c)
  /\ UNCHANGED <<sess, store, gone, used>>

\* The vault carries it out; of equal deletions more may follow.
Settle(x) ==
  /\ x \in late
  /\ Stores(x.at[1], x.at[2], x.key)
  /\ late' = late \ {x} \/ (x.key = NoKey /\ late' = late)
  /\ UNCHANGED <<sess, made, used, req>>

-----------------------------------------------------------------------------
\* The self-config loop installs a session, the first or one for another vault.
SetSession ==
  /\ sess' \in Vaults \ {sess}
  /\ UNCHANGED <<store, made, gone, used, late, req>>

RequestStep(c) ==
  \/ KmipRefused(c) \/ KmipCreate(c) \/ KmipKeyOp(c) \/ KmipLocate(c)
  \/ HttpMalformed(c) \/ HttpCreate(c) \/ HttpKeyOp(c)
  \/ CreateActs(c) \/ DestroyActs(c) \/ UseActs(c) \/ InfoActs(c)
  \/ CallReturns(c) \/ CallFails(c) \/ CallGivenUp(c)

Next ==
  \/ SetSession
  \/ \E c \in Clients : RequestStep(c)
  \/ \E x \in late : Settle(x)

Spec == Init /\ [][Next]_vars

-----------------------------------------------------------------------------
Succeeded(x) == x.code \in {"Success", "OK"}
Did(c, fn) == req[c].pc = "done" /\ req[c].fn = fn /\ Succeeded(req[c])

\* What is kept of a request, and of a call.
Records ==
  [pc : {"idle", "call", "acted", "done"}, kmip : BOOLEAN, fn : Functions,
   uid : Names \cup {NoName}, otype : ObjectTypes, alg : Algorithms,
   type : VaultTypes \cup {"none"}, vault : Vaults \cup {NoVault},
   id : 0..made, code : Codes]

Kept == [type : VaultTypes, id : 1..made] \cup {NoKey}

\* Types.  In particular a session is called only once one is installed, with
\* a name unless POST /keys leaves it to the platform (server.go, the handlers).
TypeOK ==
  /\ sess \in Vaults \cup {NoVault}
  /\ store \in [Vaults -> [Names \cup {NoName} -> Kept]]
  /\ made \in 0..MaxKeys /\ gone \subseteq 1..made /\ used \subseteq Generated
  /\ late \subseteq [at : Places, key : Kept]
  /\ req \in [Clients -> Records]
  /\ \A c \in Clients : req[c].pc \in {"call", "acted"} =>
       /\ req[c].vault \in Vaults
       /\ req[c].uid = NoName => (~req[c].kmip /\ req[c].fn = "Create")

\* A Create that is answered with success has put a key of the type the answer
\* stands for on the vault the request was for, under the identifier in the
\* answer, where it stays until it is destroyed or replaced, through re-points,
\* other requests and calls that act late (server.go, handleCreate;
\* control/server.go, createKey).
CreatedIsThere ==
  \A c \in Clients : Did(c, "Create") =>
    \/ req[c].id \in gone
    \/ req[c].id > 0 /\ Key(c) = [type |-> req[c].type, id |-> req[c].id]

\* What GetAttributes reports is the type of the key under that identifier,
\* unless it has gone since (attrs.go, kmipTypeFor against keyTypeFor).  Of a
\* type that the gateway creates, a Create that asks for what is reported makes
\* a key of that type, and so does one that asks for what the key was made for.
\* What is reported of another type is reported of no type that it creates; but
\* a Create that asks for it may make an AES key, as the object type of an HMAC
\* key alone selects that.
AttributesTruthful ==
  \A c \in Clients : (Did(c, "GetKeyInfo") /\ req[c].kmip) =>
    /\ req[c].id \in gone \/ Key(c) = [type |-> req[c].type, id |-> req[c].id]
    /\ req[c].type \in KeyTypes => KeyTypeFor(req[c].otype, req[c].alg) = req[c].type
    /\ req[c].type \notin KeyTypes =>
         \A kt \in KeyTypes : KmipTypeFor(kt) # [otype |-> req[c].otype, alg |-> req[c].alg]
    /\ \A d \in Clients : (Did(d, "Create") /\ req[d].kmip /\ req[d].id = req[c].id) =>
         KeyTypeFor(req[c].otype, req[c].alg) = KeyTypeFor(req[d].otype, req[d].alg)

-----------------------------------------------------------------------------
(***************************************************************************)
(* What a client sees: a key is filed under a vault and a name.  A request *)
(* that is refused, and a Locate, never reach a session.                   *)
(***************************************************************************)
OpOf(fn) ==
  IF fn = "Create" THEN "create" ELSE IF fn = "Destroy" THEN "destroy" ELSE "use"

NoJob == [op |-> "none", key |-> CHOOSE k \in Places : TRUE, pc |-> "idle", res |-> "none"]

\* What the client of request x has asked of the store.
Job(x) ==
  IF x.fn = "Locate" THEN NoJob
  ELSE [op  |-> OpOf(x.fn), key |-> <<x.vault, x.uid>>,
        pc  |-> IF x.pc = "call" THEN "asked" ELSE x.pc,
        res |-> IF x.pc = "call" THEN "none"
                ELSE IF x.pc = "acted" \/ Succeeded(x) THEN "ok" ELSE "failed"]

Store == INSTANCE KeyStore WITH
  Keys <- Places, Clients <- Clients, Ids <- 1..MaxKeys,
  store <- [k \in Places |-> {KeyAt(k).id} \ {0}],
  job <- [c \in Clients |-> Job(req[c])],
  late <- {[key |-> x.at, to |-> {x.key.id} \ {0}] : x \in late}

\* Both surfaces together are an atomic key store per vault (server.go, the
\* handlers; control/server.go, createKey, sign, getPublicKey): a request acts
\* at most once and at one moment, on the vault of the session it took, and is
\* answered with success only if it did; one that fails may have acted, or act
\* later.  The surfaces and a re-point in between do not get into one another's
\* way.
AtomicStore == Store!Spec
=============================================================================
