------------------------------- MODULE KeyStore -------------------------------
(***************************************************************************)
(* What the gateway promises of keys, without vaults, endpoint lists or    *)
(* message formats: a store that holds at most one key under a name, and   *)
(* clients whose requests act on it at a single moment each.  An answer    *)
(* other than "failed" is the truth of that moment.  A request answered    *)
(* "failed" may have acted or not, and may act later still.                *)
(*                                                                         *)
(* VaultSession (on a constellation that keeps its first vault) and        *)
(* Frontend are shown to implement it.                                     *)
(***************************************************************************)
CONSTANTS
  Keys,     \* what a key is filed under
  Clients,  \* who makes requests
  Ids       \* key materials

VARIABLES
  store,  \* store[k]: the material under k, a set of at most one
  job,    \* job[c]: the request that c makes or made last
  late    \* what requests that were answered "failed" may do yet

vars == <<store, job, late>>

(***************************************************************************)
(* pc is "idle", "asked", "acted" (the moment has passed, the answer is    *)
(* still to be given) or "done".                                           *)
(***************************************************************************)
Idle == [op |-> "none", key |-> CHOOSE k \in Keys : TRUE, pc |-> "idle", res |-> "none"]

Operations == {"use", "destroy", "create"}

\* What can be under a key, and what an operation may put there.
Contents    == {{}} \cup {{id} : id \in Ids}
Effects(op) == IF op = "create" THEN Contents \ {{}}
               ELSE IF op = "destroy" THEN {{}} ELSE {}

\* Keys may be there from the beginning.
Init ==
  /\ store \in [Keys -> Contents]
  /\ job = [c \in Clients |-> Idle]
  /\ late = {}

Free(c) == job[c].pc \in {"idle", "done"}

\* What c asks for, or that it is turned away at once, is c's new job: the next
\* value of job[c] says which.
Becomes(c, Jobs) ==
  /\ Free(c)
  /\ job'[c] \in Jobs
  /\ job' = [job EXCEPT ![c] = job'[c]]
  /\ UNCHANGED <<store, late>>

Ask(c) ==
  Becomes(c, [op : Operations, key : Keys, pc : {"asked"}, res : {"none"}])

Refuse(c) ==
  Becomes(c, [op : Operations, key : Keys, pc : {"done"}, res : {"failed"}])

\* The client does something that is no business of the store.
Leave(c) == Becomes(c, {Idle})

\* The answer is given at once or later, or is lost.
Outcome(c, res) ==
  \E pc \in {"acted", "done"}, r \in {res, "failed"} :
     job' = [job EXCEPT ![c].pc = pc, ![c].res = r]

\* A create stores a key in place of what is there; destroying what is not
\* there succeeds.
Change(c) ==
  /\ job[c].pc = "asked"
  /\ \E to \in Effects(job[c].op) : store' = [store EXCEPT ![job[c].key] = to]
  /\ Outcome(c, "ok")
  /\ UNCHANGED late

Use(c) ==
  /\ job[c].pc = "asked" /\ job[c].op = "use"
  /\ Outcome(c, IF store[job[c].key] = {} THEN "absent" ELSE "ok")
  /\ UNCHANGED <<store, late>>

\* An error, before the request has acted or on the way of its answer.
GiveUp(c) ==
  /\ job[c].pc \in {"asked", "acted"}
  /\ Outcome(c, "failed")
  /\ UNCHANGED <<store, late>>

\* An error that does not say whether the request will act.
GiveUpInFlight(c) ==
  /\ job[c].pc = "asked"
  /\ \E to \in Effects(job[c].op) :
       late' = late \cup {[key |-> job[c].key, to |-> to]}
  /\ Outcome(c, "failed")
  /\ UNCHANGED store

Answer(c) ==
  /\ job[c].pc = "acted"
  /\ job' = [job EXCEPT ![c].pc = "done"]
  /\ UNCHANGED <<store, late>>

\* A request that was given up acts after all.  A create does so once; of equal
\* deletions more may follow.
Settle(x) ==
  /\ x \in late
  /\ store' = [store EXCEPT ![x.key] = x.to]
  /\ late' = late \ {x} \/ (x.to = {} /\ late' = late)
  /\ UNCHANGED job

Next ==
  \/ \E c \in Clients :
       \/ Ask(c) \/ Refuse(c) \/ Leave(c)
       \/ Change(c) \/ Use(c) \/ GiveUp(c) \/ GiveUpInFlight(c) \/ Answer(c)
  \/ \E x \in late : Settle(x)

Spec == Init /\ [][Next]_vars
=============================================================================
