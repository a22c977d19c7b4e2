------------------------------ MODULE Lifecycle ------------------------------
(***************************************************************************)
(* What a ConfigSync promises about the objects it puts into the cluster,  *)
(* without the reconcile loop: it places them only while its finalizer     *)
(* protects them, never under a name somebody else holds, removes only its *)
(* own, and is gone only after all of them.                                *)
(***************************************************************************)
CONSTANTS Syncs, Names, User, None

VARIABLES
  phase, \* [Syncs -> {"absent", "declared", "guarded", "leaving"}]
  owner  \* [Names -> the sync that placed the object, User or None]

Free == {n \in Names : owner[n] = None}
Placed(s) == {n \in Names : owner[n] = s}

Init ==
  /\ phase = [s \in Syncs |-> "absent"]
  /\ owner \in [Names -> {User, None}]

To(s, from, next) == phase[s] = from /\ phase' = [phase EXCEPT ![s] = next]

Declare(s) == To(s, "absent", "declared") /\ UNCHANGED owner
Guard(s) == To(s, "declared", "guarded") /\ UNCHANGED owner
(* Deleted before the finalizer was there.                                 *)
Withdraw(s) == To(s, "declared", "absent") /\ UNCHANGED owner
Leave(s) == To(s, "guarded", "leaving") /\ UNCHANGED owner
Finish(s) == Placed(s) = {} /\ To(s, "leaving", "absent") /\ UNCHANGED owner

(* A deletion does not stop a reconcile that has begun, hence also leaving. *)
Place(s) ==
  /\ phase[s] \in {"guarded", "leaving"}
  /\ \E N \in SUBSET (Free \cup Placed(s)) :
       owner' = [n \in Names |-> IF n \in N THEN s ELSE owner[n]]
  /\ UNCHANGED phase

Remove(s) ==
  /\ phase[s] \in {"guarded", "leaving"}
  /\ \E N \in SUBSET Placed(s) :
       owner' = [n \in Names |-> IF n \in N THEN None ELSE owner[n]]
  /\ UNCHANGED phase

(* Users create objects and delete any of them.                            *)
Create(n) == owner[n] = None /\ owner' = [owner EXCEPT ![n] = User] /\ UNCHANGED phase
Delete(n) == owner' = [owner EXCEPT ![n] = None] /\ UNCHANGED phase

Step(s) ==
  Declare(s) \/ Guard(s) \/ Withdraw(s) \/ Leave(s) \/ Finish(s) \/ Place(s) \/ Remove(s)

Next ==
  \/ \E s \in Syncs : Step(s)
  \/ \E n \in Names : Create(n) \/ Delete(n)

Spec == Init /\ [][Next]_<<phase, owner>>
==============================================================================
