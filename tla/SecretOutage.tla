----------------------------- MODULE SecretOutage -----------------------------
(***************************************************************************)
(* Secret resolution over time: the native and ExternalSecret resolvers,   *)
(* the sticky Established marks and the outage clock behind                *)
(* MaxDegradedExceeded, which the operator keeps only in the ConfigSync's  *)
(* status and therefore loses and carries over with it.                    *)
(*                                                                         *)
(* Time is kept as elapsed ticks that stop counting one tick after they    *)
(* exceed maxDegradedDuration: nothing depends on more.                    *)
(***************************************************************************)
EXTENDS Decisions, FiniteSets

CONSTANTS
  Native,      \* references with backend nativeSecret
  External,    \* references with backend externalSecret
  Renamed,     \* the external ones with a spec.target.name of their own
  Keyed,       \* references surfaced as env, which require a key
  Invalid,     \* references whose surface does not validate
  SpecSets,    \* the values of spec.secretRefs that users write
  MaxDegraded, \* maxDegradedDuration, in ticks
  MaxChanges   \* bound on the changes and failures of the environment

Refs == Native \cup External

ASSUME OutageAssumption ==
  /\ Native \cap External = {} /\ Renamed \subseteq External
  /\ Keyed \subseteq Refs /\ Invalid \subseteq Refs
  /\ SpecSets \subseteq SUBSET Refs
  /\ MaxDegraded \in Nat \ {0} /\ MaxChanges \in Nat

VARIABLES
  spec,     \* spec.secretRefs
  sec,      \* Secret objects: absent, without the required key, complete
  es,       \* ExternalSecret objects: absent (or not served), pending, ready
  status,   \* the ConfigSync's status: Established marks, SecretsReady
  wiredTo,  \* names of the Secrets the pod template refers to
  pc, job,  \* the reconcile in progress
  dirty,    \* the ConfigSync was written by others since it was read
  changes

vars == <<spec, sec, es, status, wiredTo, pc, job, dirty, changes>>

(* SecretReference.SecretName, and the Secret ESO writes (esTargetName).   *)
SecretName(r) == <<r, "name">>
TargetName(r) == IF r \in Renamed THEN <<r, "target">> ELSE SecretName(r)
SecretNames == {SecretName(r) : r \in Refs} \cup {TargetName(r) : r \in Refs}

Saturated(n) == IF n > MaxDegraded THEN MaxDegraded + 1 ELSE n

NoJob == [refs |-> {}, todo |-> {}, ready |-> {}, seen |-> {}, outage |-> 0,
          st |-> [est |-> {}, ready |-> "Unknown", age |-> 0, reason |-> "None"]]

Init ==
  /\ spec \in SpecSets
  /\ sec \in [SecretNames -> {"absent", "complete"}]
  /\ es = [r \in External |-> "absent"]
  /\ status = NoJob.st
  /\ wiredTo = {}
  /\ pc = "idle" /\ job = NoJob /\ dirty = FALSE
  /\ changes = 0

Change == changes < MaxChanges /\ changes' = changes + 1

------------------------------------------------------------------------------
(* degradedSince: how long the SecretsReady condition has been False.      *)
DegradedFor(st) == IF st.ready = "False" THEN st.age ELSE 0

Begin ==
  /\ pc = "idle"
  /\ pc' = "resolve"
  /\ job' = [NoJob EXCEPT !.refs = spec, !.todo = spec, !.outage = DegradedFor(status),
                          !.st = status]
  /\ dirty' = FALSE
  /\ UNCHANGED <<spec, sec, es, status, wiredTo, changes>>

(* validateSurface.                                                        *)
ValidSurface(r) == r \notin Invalid

(* The Secret exists and holds the required keys.                          *)
KeysPresent(r) ==
  sec[TargetName(r)] \in IF r \in Keyed THEN {"complete"} ELSE {"complete", "noKey"}

(* resolveOne: the surface, then the backend; an ExternalSecret must be    *)
(* Ready before its target Secret is looked at.                            *)
Resolvable(r) == ValidSurface(r) /\ (r \in External => es[r] = "ready") /\ KeysPresent(r)

ResolveOne(r) ==
  /\ pc = "resolve" /\ r \in job.todo
  /\ job' = [job EXCEPT !.todo = @ \ {r},
                        !.ready = IF Resolvable(r) THEN @ \cup {r} ELSE @,
                        !.seen = IF Resolvable(r) THEN @ \cup {TargetName(r)} ELSE @]
  /\ UNCHANGED <<spec, sec, es, status, wiredTo, pc, dirty, changes>>

(* An API error counts as BackendNotReady.                                 *)
ResolveError(r) ==
  /\ pc = "resolve" /\ r \in job.todo /\ Change
  /\ job' = [job EXCEPT !.todo = @ \ {r}]
  /\ UNCHANGED <<spec, sec, es, status, wiredTo, pc, dirty>>

(* Slip: the transition time moves on every reconcile.                     *)
BugSetCondition(st, value, reason) ==
  [st EXCEPT !.ready = value, !.reason = reason, !.age = 0]

(* setCondition: the transition time moves only when the status flips.     *)
SetCondition(st, value, reason) ==
  [st EXCEPT !.ready = value, !.reason = reason, !.age = IF value = st.ready THEN @ ELSE 0]

(* Slip: Established follows what resolves now.                            *)
BugCarryOver(st, refs, ready) == [st EXCEPT !.est = @ \cap ready]

(* The marks of the references still in the spec are carried over.         *)
CarryOver(st, refs, ready) == [st EXCEPT !.est = @ \cap refs]

Decide ==
  /\ pc = "resolve" /\ job.todo = {}
  /\ LET st == CarryOver(job.st, job.refs, job.ready)
         d == Evaluate(job.refs, job.ready, st.est, job.outage, MaxDegraded)
     IN  /\ job' = [job EXCEPT
                      !.st = SetCondition(st, IF d.allReady THEN "True" ELSE "False", d.reason)]
         /\ pc' = IF d.allReady THEN "wire" ELSE "write"
  /\ UNCHANGED <<spec, sec, es, status, wiredTo, dirty, changes>>

(* Slip: wiring does not establish.                                        *)
BugWire ==
  /\ pc = "wire"
  /\ wiredTo' \in {wiredTo, {SecretName(r) : r \in job.refs}}
  /\ pc' = "write"
  /\ UNCHANGED <<spec, sec, es, status, job, dirty, changes>>

(* wireAndStamp with secretSurfaces: a write of the template, or none when *)
(* its stamp already matches; either way the references are established.   *)
Wire ==
  /\ pc = "wire"
  /\ wiredTo' \in {wiredTo, {SecretName(r) : r \in job.refs}}
  /\ job' = [job EXCEPT !.st.est = job.refs]
  /\ pc' = "write"
  /\ UNCHANGED <<spec, sec, es, status, dirty, changes>>

WireFails ==
  /\ pc = "wire" /\ Change
  /\ pc' = "write"
  /\ UNCHANGED <<spec, sec, es, status, wiredTo, job, dirty>>

(* Status().Update, refused when the object changed in between.            *)
Write ==
  /\ pc = "write" /\ ~dirty
  /\ status' = job.st
  /\ pc' = "idle" /\ job' = NoJob
  /\ UNCHANGED <<spec, sec, es, wiredTo, dirty, changes>>

(* A conflict, a failing call, or the operator's death at any point.       *)
WriteConflict ==
  /\ pc = "write" /\ dirty
  /\ pc' = "idle" /\ job' = NoJob
  /\ UNCHANGED <<spec, sec, es, status, wiredTo, dirty, changes>>

Abort ==
  /\ pc # "idle" /\ Change
  /\ pc' = "idle" /\ job' = NoJob
  /\ UNCHANGED <<spec, sec, es, status, wiredTo, dirty>>

------------------------------------------------------------------------------
EditRefs ==
  /\ Change
  /\ \E refs \in SpecSets \ {spec} : spec' = refs
  /\ dirty' = TRUE
  /\ UNCHANGED <<sec, es, status, wiredTo, pc, job>>

ChangeSecret(n) ==
  /\ Change
  /\ \E v \in {"absent", "noKey", "complete"} \ {sec[n]} : sec' = [sec EXCEPT ![n] = v]
  /\ UNCHANGED <<spec, es, status, wiredTo, pc, job, dirty>>

ChangeExternal(r) ==
  /\ Change
  /\ \E v \in {"absent", "pending", "ready"} \ {es[r]} : es' = [es EXCEPT ![r] = v]
  /\ UNCHANGED <<spec, sec, status, wiredTo, pc, job, dirty>>

Tick ==
  /\ status' = [status EXCEPT !.age = Saturated(@ + 1)]
  /\ job' = IF pc = "idle" THEN job ELSE [job EXCEPT !.st.age = Saturated(@ + 1)]
  /\ UNCHANGED <<spec, sec, es, wiredTo, pc, dirty, changes>>

------------------------------------------------------------------------------
Reconcile ==
  \/ Begin \/ Decide \/ Wire \/ Write \/ WriteConflict
  \/ \E r \in Refs : ResolveOne(r)

Environment ==
  \/ EditRefs \/ WireFails \/ Abort
  \/ \E r \in Refs : ResolveError(r)
  \/ \E n \in SecretNames : ChangeSecret(n)
  \/ \E r \in External : ChangeExternal(r)

Next == Reconcile \/ Environment \/ Tick

Spec == Init /\ [][Next]_vars

(* An unready sync is requeued every progressingRequeue and a steady one   *)
(* at its interval, so reconciles go on; time passes.                      *)
FairSpec == Spec /\ WF_vars(Reconcile) /\ WF_vars(Tick)

------------------------------------------------------------------------------
(* R8.9, fail closed: the pod template is never made to refer to a Secret  *)
(* that the same reconcile has not seen complete, so that no pod is rolled *)
(* that "would crash on a missing secret".                                 *)
WiredSeen == [][wiredTo' # wiredTo => wiredTo' \subseteq job.seen]_vars

(* R8.9, fail safe: an established reference stays established for as long *)
(* as it is in the spec, through outages, conflicts and restarts.          *)
StickyEstablished == [][\A r \in status.est \cap spec : r \in status'.est]_vars

(* The references that do not resolve at the moment.                       *)
Unready == {r \in spec : ~Resolvable(r)}

(* R8.11: fail-safe does not mask staleness forever.  If from some point   *)
(* on established references stay unresolvable and no new one is awaited,  *)
(* MaxDegradedExceeded is raised and stays.                                *)
NotMaskedForever ==
  <>[](Unready # {} /\ Unready \subseteq status.est)
    => <>[](status.reason = "MaxDegradedExceeded")

(* R8.9: a sync whose references all stay resolvable recovers, whatever    *)
(* outages came before, and ends with every reference established.         *)
Recovers ==
  <>[](Unready = {}) => <>[](status.ready = "True" /\ status.est = spec)
==============================================================================
