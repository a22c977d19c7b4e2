--------------------------- MODULE RolloutProgress ---------------------------
(***************************************************************************)
(* internal/rollout: DeploymentProgress and StatefulSetProgress, applied   *)
(* to a workload whose Kubernetes controller works through a new pod       *)
(* template pod by pod, and the part of wireAndStamp that stamps a version *)
(* and reports its progress from the manager's read cache.                 *)
(*                                                                         *)
(* The controllers are external; they are modelled as far as the progress  *)
(* functions look at them: the controller acts on the object as it last    *)
(* observed it, and its status is a snapshot of the pods at one moment.    *)
(***************************************************************************)
EXTENDS Naturals, FiniteSets

CONSTANTS
  Kinds,       \* kinds of workloads: "Deployment", "StatefulSet"
  Versions,    \* the versions Kohen stamps; a pod template is its version
  BrokenOf,    \* [Kinds -> versions whose pods never become ready]
  MaxReplicas, \* bound on spec.replicas
  Surge,       \* pods of a Deployment above spec.replicas
  MovesOf,     \* [Kinds -> moves of other actors this instance allows]
  MaxMoves,    \* bound on their number
  Lag,         \* whether the read cache can lag behind the API server
  None

ASSUME RolloutAssumption ==
  /\ Kinds \subseteq {"Deployment", "StatefulSet"}
  /\ BrokenOf \in [Kinds -> SUBSET Versions] /\ None \notin Versions
  /\ MaxReplicas \in Nat \ {0} /\ Surge \in Nat \ {0}
  /\ MaxMoves \in Nat /\ Lag \in BOOLEAN

VARIABLES
  spec,    \* the workload: [gen, v, replicas]
  status,  \* its status, as its controller wrote it last
  ctl,     \* the spec its controller observed last
  pods,    \* [Slots -> NoPod or a pod]; a StatefulSet's slots are ordinals
  cache,   \* [spec, status] in the manager's read cache
  want,    \* the version the ConfigSync calls for
  pc, job, \* the reconcile: before the stamp or before the progress; its version
  report,  \* RolloutComplete as last set: [v, progress]
  moves

vars == <<spec, status, ctl, pods, cache, want, pc, job, report, moves>>
kohen == <<pc, job, report>>

Kind == spec.kind
Broken == BrokenOf[Kind]

Slots == 0 .. MaxReplicas + Surge - 1
NoPod == [v |-> None, ready |-> FALSE]
Pods == {i \in Slots : pods[i] # NoPod}
PodsOf(v) == {i \in Pods : pods[i].v = v}
Ready(s) == {i \in s : pods[i].ready}
Put(i, pod) == [pods EXCEPT ![i] = pod]

------------------------------------------------------------------------------
(* The progress functions, on an object o = [spec, status].                *)

(* Slips: old replicas are not waited for; the deadline is not looked at.  *)
BugDeploymentOld(o) ==
  IF o.status.failed THEN "ProgressDeadlineExceeded"
  ELSE IF /\ o.status.observed >= o.spec.gen
          /\ o.status.updated >= o.spec.replicas
          /\ o.status.ready >= o.spec.replicas
       THEN "Complete" ELSE "RollingOut"

BugDeploymentDeadline(o) ==
  IF /\ o.status.observed >= o.spec.gen
     /\ o.status.updated >= o.spec.replicas
     /\ o.status.replicas <= o.status.updated
     /\ o.status.ready >= o.spec.replicas
  THEN "Complete" ELSE "RollingOut"

DeploymentProgress(o) ==
  IF o.status.failed THEN "ProgressDeadlineExceeded"
  ELSE IF /\ o.status.observed >= o.spec.gen
          /\ o.status.updated >= o.spec.replicas
          /\ o.status.replicas <= o.status.updated
          /\ o.status.ready >= o.spec.replicas
       THEN "Complete" ELSE "RollingOut"

(* Slip: the generation is not compared.                                   *)
BugStatefulSetProgress(o) ==
  IF /\ o.status.updated >= o.spec.replicas
     /\ o.status.ready >= o.spec.replicas
     /\ o.status.current = o.status.update
  THEN "Complete" ELSE "RollingOut"

StatefulSetProgress(o) ==
  IF /\ o.status.observed >= o.spec.gen
     /\ o.status.updated >= o.spec.replicas
     /\ o.status.ready >= o.spec.replicas
     /\ o.status.current = o.status.update
  THEN "Complete" ELSE "RollingOut"

Progress(o) ==
  IF o.spec.kind = "Deployment" THEN DeploymentProgress(o) ELSE StatefulSetProgress(o)

Live == [spec |-> spec, status |-> status]

------------------------------------------------------------------------------
Init ==
  /\ \E k \in Kinds, v \in Versions, n \in 1 .. MaxReplicas :
       /\ v \notin BrokenOf[k]
       /\ spec = [kind |-> k, gen |-> 1, v |-> v, replicas |-> n]
       /\ pods = [i \in Slots |-> IF i < n THEN [v |-> v, ready |-> TRUE] ELSE NoPod]
       /\ status = [observed |-> 1, replicas |-> n, updated |-> n, ready |-> n,
                    failed |-> FALSE, current |-> v, update |-> v]
       /\ want = v
  /\ ctl = spec
  /\ cache = Live
  /\ pc = "idle" /\ job = None /\ report = [v |-> None, progress |-> "None"]
  /\ moves = 0

(* A write to the workload or its status; without Lag the cache has it.    *)
Write(newSpec, newStatus) ==
  /\ spec' = newSpec /\ status' = newStatus
  /\ cache' = IF Lag THEN cache ELSE [spec |-> newSpec, status |-> newStatus]

(* Slip: a version reported complete is not reconciled again.              *)
BugStampOnce ==
  /\ pc = "idle"
  /\ IF report = [v |-> want, progress |-> "Complete"] THEN UNCHANGED <<pc, job>>
     ELSE pc' = "progress" /\ job' = want
  /\ IF pc' = "idle" \/ cache.spec.v = want \/ spec.v = want
     THEN UNCHANGED <<spec, status, cache>>
     ELSE Write([spec EXCEPT !.gen = @ + 1, !.v = want], status)
  /\ UNCHANGED <<ctl, pods, want, report, moves>>

(* wireAndStamp up to the apply: the stamp is compared in the cache, and   *)
(* an apply that changes nothing leaves the generation alone.              *)
Stamp ==
  /\ pc = "idle"
  /\ pc' = "progress" /\ job' = want
  /\ IF cache.spec.v = want \/ spec.v = want THEN UNCHANGED <<spec, status, cache>>
     ELSE Write([spec EXCEPT !.gen = @ + 1, !.v = want], status)
  /\ UNCHANGED <<ctl, pods, want, report, moves>>

(* rolloutProgress reads the cache again.                                  *)
Report ==
  /\ pc = "progress"
  /\ pc' = "idle" /\ job' = None
  /\ report' = [v |-> job, progress |-> Progress(cache)]
  /\ UNCHANGED <<spec, status, ctl, pods, cache, want, moves>>

Deliver ==
  /\ cache # Live /\ cache' = Live
  /\ UNCHANGED <<spec, status, ctl, pods, want, kohen, moves>>

------------------------------------------------------------------------------
(* The controllers: observe, replace pods one at a time, write the status. *)

Observe ==
  /\ ctl # spec /\ ctl' = spec
  /\ UNCHANGED <<spec, status, pods, cache, want, kohen, moves>>

PodStep(i, pod) ==
  /\ pods' = Put(i, pod)
  /\ UNCHANGED <<spec, status, ctl, cache, want, kohen, moves>>

(* A Deployment: surge first, keep spec.replicas pods available, remove    *)
(* pods of other versions.                                                 *)
CreateReplica ==
  /\ Kind = "Deployment"
  /\ Cardinality(PodsOf(ctl.v)) < ctl.replicas
  /\ Cardinality(Pods) < ctl.replicas + Surge
  /\ LET i == CHOOSE s \in Slots : pods[s] = NoPod
     IN  PodStep(i, [v |-> ctl.v, ready |-> FALSE])

DeleteReplica ==
  /\ Kind = "Deployment"
  /\ \E i \in Pods :
       /\ \/ pods[i].v # ctl.v
          \/ Cardinality(PodsOf(ctl.v)) > ctl.replicas
       /\ pods[i].ready => Cardinality(Ready(Pods)) > ctl.replicas
       /\ PodStep(i, NoPod)

(* A StatefulSet with ordered pods: the next step is taken only when every *)
(* pod is there and ready, except for the one that is missing.             *)
Ordinals == {i \in Slots : i < ctl.replicas}

Revision(i) ==
  IF i < Cardinality(PodsOf(status.current) \cap Ordinals)
  THEN status.current ELSE ctl.v

CreateOrdinal ==
  /\ Kind = "StatefulSet"
  /\ \E i \in Ordinals :
       /\ pods[i] = NoPod /\ \A j \in Ordinals : j < i => pods[j].ready
       /\ PodStep(i, [v |-> Revision(i), ready |-> FALSE])

DeleteOrdinal ==
  /\ Kind = "StatefulSet" /\ Ordinals \subseteq Ready(Pods)
  /\ \E i \in Pods :
       /\ \A j \in Pods : j > i => j \in Ordinals /\ pods[j].v = ctl.v
       /\ i \notin Ordinals \/ pods[i].v # ctl.v
       /\ PodStep(i, NoPod)

BecomeReady(i) ==
  /\ i \in Pods /\ ~pods[i].ready /\ pods[i].v \notin Broken
  /\ PodStep(i, [pods[i] EXCEPT !.ready = TRUE])

(* The status of the observed generation, from the pods as they are.  A    *)
(* rolling update is over when all pods are updated and ready: only then   *)
(* is a StatefulSet's update revision its current one.  A deadline passed  *)
(* stays recorded until the rollout moves on or is over.                   *)
Over == Pods = PodsOf(ctl.v) /\ Pods = Ready(Pods)

Snapshot(failed) ==
  [observed |-> ctl.gen, replicas |-> Cardinality(Pods),
   updated |-> Cardinality(PodsOf(ctl.v)), ready |-> Cardinality(Ready(Pods)),
   failed |-> failed, update |-> ctl.v,
   current |-> IF Over THEN ctl.v ELSE status.current]

Moved == \/ status.update # ctl.v
         \/ status.updated < Cardinality(PodsOf(ctl.v))
         \/ status.ready < Cardinality(Ready(Pods))

WriteStatus ==
  /\ LET new == Snapshot(status.failed /\ ~Moved /\ ~Over)
     IN  status # new /\ Write(spec, new)
  /\ UNCHANGED <<ctl, pods, want, kohen, moves>>

(* progressDeadlineSeconds passed without progress (Deployments only).     *)
PassDeadline ==
  /\ Kind = "Deployment" /\ ctl = spec /\ ~Moved
  /\ status = Snapshot(FALSE) /\ DeploymentProgress(Live) = "RollingOut"
  /\ \E i \in Pods : pods[i].v = ctl.v /\ ~pods[i].ready
  /\ Write(spec, Snapshot(TRUE))
  /\ UNCHANGED <<ctl, pods, want, kohen, moves>>

------------------------------------------------------------------------------
(* Other actors.                                                           *)
Move(kind) == kind \in MovesOf[Kind] /\ moves < MaxMoves /\ moves' = moves + 1

(* The branch moves, forward or back, or an env-surfaced secret rotates.   *)
Retarget ==
  /\ Move("version")
  /\ \E v \in Versions \ {want} : want' = v
  /\ UNCHANGED <<spec, status, ctl, pods, cache, kohen>>

Scale ==
  /\ Move("scale")
  /\ \E n \in (0 .. MaxReplicas) \ {spec.replicas} :
       Write([spec EXCEPT !.gen = @ + 1, !.replicas = n], status)
  /\ UNCHANGED <<ctl, pods, want, kohen>>

(* A pod crashes or is evicted.                                            *)
LosePod ==
  /\ Move("pod")
  /\ \E i \in Pods :
       \/ pods' = Put(i, NoPod)
       \/ pods[i].ready /\ pods' = Put(i, [pods[i] EXCEPT !.ready = FALSE])
  /\ UNCHANGED <<spec, status, ctl, cache, want, kohen>>

------------------------------------------------------------------------------
Controller ==
  \/ CreateReplica \/ DeleteReplica \/ CreateOrdinal \/ DeleteOrdinal

Next ==
  \/ Stamp \/ Report \/ Deliver
  \/ Observe \/ Controller \/ WriteStatus \/ PassDeadline
  \/ \E i \in Slots : BecomeReady(i)
  \/ Retarget \/ Scale \/ LosePod

Spec == Init /\ [][Next]_vars

(* The reconcile is repeated (every ten seconds while a rollout is in      *)
(* flight), the watch delivers, the controller works on, pods that can     *)
(* start do, and a deadline passes.                                        *)
Fairness ==
  /\ WF_vars(Stamp) /\ WF_vars(Report) /\ WF_vars(Deliver)
  /\ WF_vars(Observe) /\ WF_vars(Controller) /\ WF_vars(WriteStatus)
  /\ WF_vars(PassDeadline)
  /\ \A i \in Slots : WF_vars(BecomeReady(i))

FairSpec == Spec /\ Fairness

------------------------------------------------------------------------------
(* A workload that is reported rolled out runs no pod of another version,  *)
(* however old the snapshot of the pods in its status is (SPEC 11.4,       *)
(* RolloutComplete).                                                       *)
CompleteRolledOut == Progress(Live) = "Complete" => Pods = PodsOf(spec.v)

Startable == want \notin Broken \/ spec.replicas = 0

(* Once versions and replicas rest, a version whose pods can start is      *)
(* stamped and reported complete and stays so, however stale the cache was *)
(* when an earlier reconcile compared the stamp or read the progress.      *)
Settles ==
  <>[](Startable => spec.v = want /\ report = [v |-> want, progress |-> "Complete"])

(* A Deployment's rollout that cannot finish is reported as stuck (SPEC    *)
(* 11.4: stuck rollouts appear on the degraded gauge).  A StatefulSet has  *)
(* no deadline: its stuck rollouts stay in progress.                       *)
StuckSurfaced ==
  <>[](Kind = "StatefulSet" \/ Startable \/ report.progress = "ProgressDeadlineExceeded")

(* What the reconcile loop relies on (module Rollout).                     *)
Summary ==
  CASE Progress(Live) = "Complete" -> "done"
    [] Progress(Live) = "ProgressDeadlineExceeded" -> "stuck"
    [] OTHER -> "rolling"

R == INSTANCE Rollout WITH Templates <- Versions, tmpl <- spec.v, rollout <- Summary

(* The progress functions implement the summary: a new template is never   *)
(* complete at once, and only a rollout in flight gets stuck.              *)
ImplementsRollout == R!Spec
==============================================================================
