----------------------------- MODULE RolloutProofs -----------------------------
(***************************************************************************)
(* Proofs about RolloutProgress, for any number of versions, replicas and  *)
(* moves and whatever the read cache lags behind: the progress functions   *)
(* implement the summary the reconcile loop relies on, and a workload they *)
(* call complete runs no pod of another version.                           *)
(***************************************************************************)
EXTENDS RolloutProgress, FiniteSetTheorems, TLAPS

SpecType == [kind : Kinds, gen : Nat, v : Versions, replicas : Nat]
StatusType ==
  [observed : Nat, replicas : Nat, updated : Nat, ready : Nat, failed : BOOLEAN,
   current : Versions, update : Versions]

TypeInv ==
  /\ spec \in SpecType /\ ctl \in SpecType /\ status \in StatusType
  /\ pods \in [Slots -> [v : Versions \cup {None}, ready : BOOLEAN]]
  /\ want \in Versions

(* Generations: the status is never ahead of its controller, nor the       *)
(* controller of the spec, and a generation says which spec it is of.      *)
GenInv ==
  /\ status.observed <= ctl.gen /\ ctl.gen <= spec.gen
  /\ ctl.kind = spec.kind
  /\ ctl.gen = spec.gen => ctl = spec
  /\ status.observed = ctl.gen => status.update = ctl.v

BaseInv == TypeInv /\ GenInv

------------------------------------------------------------------------------
LEMMA CountType ==
  ASSUME NEW S \in SUBSET Slots
  PROVE  IsFiniteSet(S) /\ Cardinality(S) \in Nat
<1>1. IsFiniteSet(Slots)
  BY RolloutAssumption, FS_Interval DEF Slots
<1> QED BY <1>1, FS_Subset, FS_CardinalityType

LEMMA SnapshotType ==
  ASSUME TypeInv, NEW failed \in BOOLEAN
  PROVE  Snapshot(failed) \in StatusType
<1>1. Cardinality(Pods) \in Nat /\ Cardinality(PodsOf(ctl.v)) \in Nat
      /\ Cardinality(Ready(Pods)) \in Nat
  BY CountType DEF Pods, PodsOf, Ready
<1>2. ctl.gen \in Nat /\ ctl.v \in Versions /\ status.current \in Versions
  BY DEF TypeInv, SpecType, StatusType
<1> QED BY <1>1, <1>2 DEF Snapshot, StatusType

(* The steps, by what they do to the workload.                             *)
SpecWrite ==
  /\ spec'.gen = spec.gen + 1 /\ spec' \in SpecType /\ spec'.kind = spec.kind
  /\ UNCHANGED <<status, ctl, pods>> /\ want' = want
  /\ \/ spec'.replicas = spec.replicas /\ spec'.v = want /\ spec.v # want
     \/ spec'.v = spec.v /\ "scale" \in MovesOf[Kind]

StatusWrite ==
  /\ \E failed \in BOOLEAN :
       /\ status' = Snapshot(failed)
       /\ failed => status.failed \/ Summary # "done"
  /\ UNCHANGED <<spec, ctl, pods, want>>

PodWrite(i, pod) ==
  /\ pods' = Put(i, pod) /\ pod \in [v : Versions \cup {None}, ready : BOOLEAN]
  /\ UNCHANGED <<spec, status, ctl, want>>

Bystands == UNCHANGED <<spec, status, ctl, pods>> /\ want' \in Versions

LEMMA StepKinds ==
  ASSUME TypeInv, [Next]_vars
  PROVE  \/ SpecWrite \/ StatusWrite \/ Observe \/ Bystands
         \/ \E i, pod : PodWrite(i, pod)
<1> USE DEF TypeInv, Write, kohen
<1>1. CASE Stamp
  <2>1. CASE UNCHANGED <<spec, status, cache>>
    BY <1>1, <2>1 DEF Stamp, Bystands
  <2>2. CASE /\ spec' = [spec EXCEPT !.gen = @ + 1, !.v = want] /\ status' = status
             /\ spec.v # want
    <3>1. spec' = [kind |-> spec.kind, gen |-> spec.gen + 1, v |-> want,
                   replicas |-> spec.replicas]
      BY <2>2 DEF SpecType
    <3>2. spec.kind \in Kinds /\ spec.gen + 1 \in Nat /\ spec.replicas \in Nat /\ want \in Versions
      BY DEF SpecType
    <3>3. spec' \in SpecType
      BY <3>1, <3>2 DEF SpecType
    <3>4. UNCHANGED <<status, ctl, pods, want>>
      BY <1>1, <2>2 DEF Stamp
    <3>5. QED  BY <2>2, <3>1, <3>3, <3>4 DEF SpecWrite
  <2>3. QED  BY <1>1, <2>1, <2>2 DEF Stamp
<1>2. CASE Report \/ Deliver
  BY <1>2 DEF Report, Deliver, Bystands
<1>3. CASE CreateReplica
  BY <1>3 DEF CreateReplica, PodStep, PodWrite, SpecType
<1>4. CASE DeleteReplica
  BY <1>4 DEF DeleteReplica, PodStep, PodWrite, NoPod
<1>5. CASE CreateOrdinal
  <2>1. PICK i : PodStep(i, [v |-> Revision(i), ready |-> FALSE])
    BY <1>5 DEF CreateOrdinal
  <2>2. Revision(i) \in Versions
    BY DEF Revision, SpecType, StatusType
  <2>3. QED  BY <2>1, <2>2 DEF PodStep, PodWrite
<1>6. CASE DeleteOrdinal
  BY <1>6 DEF DeleteOrdinal, PodStep, PodWrite, NoPod
<1>7. ASSUME NEW i \in Slots, BecomeReady(i)
      PROVE  \E j, pod : PodWrite(j, pod)
  BY <1>7 DEF BecomeReady, PodStep, PodWrite
<1>8. CASE WriteStatus
  <2>1. /\ status' = Snapshot(status.failed /\ ~Moved /\ ~Over)
        /\ UNCHANGED <<spec, ctl, pods, want>>
    BY <1>8 DEF WriteStatus
  <2>2. status.failed \in BOOLEAN
    BY DEF StatusType
  <2>3. (status.failed /\ ~Moved /\ ~Over) \in BOOLEAN
    OBVIOUS
  <2>4. QED  BY <2>1, <2>2, <2>3 DEF StatusWrite
<1>9. CASE PassDeadline
  <2>1. /\ Kind = "Deployment" /\ DeploymentProgress(Live) = "RollingOut"
        /\ status' = Snapshot(TRUE) /\ UNCHANGED <<spec, ctl, pods, want>>
    BY <1>9 DEF PassDeadline
  <2>2. Summary # "done"
    BY <2>1 DEF Summary, Progress, Live, Kind
  <2>3. QED  BY <2>1, <2>2 DEF StatusWrite
<1>10. CASE Retarget
  BY <1>10 DEF Retarget, Bystands
<1>11. CASE Scale
  <2>1. PICK n \in 0 .. MaxReplicas : spec' = [spec EXCEPT !.gen = @ + 1, !.replicas = n]
    BY <1>11 DEF Scale
  <2>2. n \in Nat
    BY <2>1, RolloutAssumption
  <2>3. spec' = [kind |-> spec.kind, gen |-> spec.gen + 1, v |-> spec.v, replicas |-> n]
    BY <2>1 DEF SpecType
  <2>4. spec.kind \in Kinds /\ spec.gen + 1 \in Nat /\ spec.v \in Versions
    BY DEF SpecType
  <2>5. spec' \in SpecType
    BY <2>2, <2>3, <2>4 DEF SpecType
  <2>6. UNCHANGED <<status, ctl, pods, want>> /\ "scale" \in MovesOf[Kind]
    BY <1>11 DEF Scale, Move
  <2>7. QED  BY <2>3, <2>5, <2>6 DEF SpecWrite
<1>12. CASE LosePod
  BY <1>12 DEF LosePod, PodWrite, NoPod, Pods
<1>13. CASE UNCHANGED vars
  BY <1>13 DEF vars, Bystands
<1> QED BY <1>1, <1>2, <1>3, <1>4, <1>5, <1>6, <1>7, <1>8, <1>9, <1>10, <1>11, <1>12, <1>13
        DEF Next, Controller

------------------------------------------------------------------------------
LEMMA BaseInit == Init => BaseInv
<1> SUFFICES ASSUME Init PROVE BaseInv
  OBVIOUS
<1>1. PICK k \in Kinds, v \in Versions, n \in 1 .. MaxReplicas :
        /\ spec = [kind |-> k, gen |-> 1, v |-> v, replicas |-> n]
        /\ pods = [i \in Slots |-> IF i < n THEN [v |-> v, ready |-> TRUE] ELSE NoPod]
        /\ status = [observed |-> 1, replicas |-> n, updated |-> n, ready |-> n,
                     failed |-> FALSE, current |-> v, update |-> v]
        /\ want = v
  BY DEF Init
<1>2. ctl = spec
  BY DEF Init
<1>3. n \in Nat
  BY RolloutAssumption
<1>4. spec \in SpecType /\ status \in StatusType
  BY <1>1, <1>3 DEF SpecType, StatusType
<1>5. pods \in [Slots -> [v : Versions \cup {None}, ready : BOOLEAN]]
  BY <1>1 DEF NoPod
<1> QED BY <1>1, <1>2, <1>4, <1>5 DEF BaseInv, TypeInv, GenInv

LEMMA BaseStep ==
  ASSUME BaseInv, [Next]_vars
  PROVE  BaseInv'
<1> USE DEF BaseInv
<1>0. spec.gen \in Nat /\ ctl.gen \in Nat /\ status.observed \in Nat
  BY DEF TypeInv, SpecType, StatusType
<1>1. CASE SpecWrite
  <2>1. TypeInv'
    BY <1>1 DEF SpecWrite, TypeInv
  <2>2. QED  BY <1>0, <1>1, <2>1 DEF SpecWrite, GenInv
<1>2. CASE StatusWrite
  <2>1. PICK failed \in BOOLEAN : status' = Snapshot(failed)
    BY <1>2 DEF StatusWrite
  <2>2. status' \in StatusType
    BY <2>1, SnapshotType
  <2>3. status'.observed = ctl.gen /\ status'.update = ctl.v
    BY <2>1 DEF Snapshot
  <2>4. UNCHANGED <<spec, ctl, pods, want>>
    BY <1>2 DEF StatusWrite
  <2>5. QED  BY <1>0, <2>2, <2>3, <2>4 DEF TypeInv, GenInv
<1>3. CASE Observe
  <2>1. ctl' = spec /\ ctl # spec /\ UNCHANGED <<spec, status, pods, want>>
    BY <1>3 DEF Observe
  <2>2. status.observed < ctl'.gen
    BY <1>0, <2>1 DEF GenInv
  <2>3. QED  BY <1>0, <2>1, <2>2 DEF TypeInv, GenInv
<1>4. CASE Bystands
  BY <1>4 DEF Bystands, TypeInv, GenInv
<1>5. ASSUME NEW i, NEW pod, PodWrite(i, pod) PROVE BaseInv'
  BY <1>5 DEF PodWrite, Put, TypeInv, GenInv
<1> QED BY <1>1, <1>2, <1>3, <1>4, <1>5, StepKinds

(* The inductive invariant: types and the order of the generations.        *)
THEOREM BaseInvariance == Spec => []BaseInv
<1>1. BaseInv /\ [Next]_vars => BaseInv'
  BY BaseStep
<1> QED BY BaseInit, <1>1, PTL DEF Spec

------------------------------------------------------------------------------
(* The refinement of Rollout.                                              *)
SummaryFacts ==
  /\ Summary \in {"done", "stuck", "rolling"}
  /\ Summary = "stuck" <=> spec.kind = "Deployment" /\ status.failed
  /\ Summary = "done" => status.observed >= spec.gen

LEMMA SummaryIs == TypeInv => SummaryFacts
<1> SUFFICES ASSUME TypeInv PROVE SummaryFacts
  OBVIOUS
<1>1. Live.spec = spec /\ Live.status = status
  BY DEF Live
<1>2. status.failed \in BOOLEAN
  BY DEF TypeInv, StatusType
<1> QED BY <1>1, <1>2
        DEF SummaryFacts, Summary, Progress, DeploymentProgress, StatefulSetProgress

LEMMA RolloutInit == Init => R!Init
<1> SUFFICES ASSUME Init PROVE R!Init
  OBVIOUS
<1>1. TypeInv
  BY BaseInit DEF BaseInv
<1>2. ~status.failed /\ spec.v \in Versions
  BY <1>1 DEF Init, TypeInv, SpecType
<1> QED BY <1>1, <1>2, SummaryIs DEF R!Init, SummaryFacts

LEMMA RolloutStep ==
  ASSUME BaseInv, BaseInv', [Next]_vars
  PROVE  [R!Next]_<<spec.v, Summary>>
<1>0. /\ TypeInv /\ TypeInv' /\ GenInv
      /\ spec.gen \in Nat /\ ctl.gen \in Nat /\ status.observed \in Nat /\ spec'.v \in Versions
  BY DEF BaseInv, TypeInv, SpecType, StatusType
<1>1. /\ Summary \in {"done", "stuck", "rolling"}
      /\ Summary = "stuck" <=> spec.kind = "Deployment" /\ status.failed
      /\ Summary = "done" => status.observed >= spec.gen
  BY <1>0, SummaryIs DEF SummaryFacts
<1>2. /\ Summary' \in {"done", "stuck", "rolling"}
      /\ Summary' = "stuck" <=> spec'.kind = "Deployment" /\ status'.failed
      /\ Summary' = "done" => status'.observed >= spec'.gen
  <2>1. TypeInv' => SummaryFacts'
    BY SummaryIs, PTL
  <2>2. QED  BY <1>0, <2>1 DEF SummaryFacts
<1>3. ASSUME spec'.v = spec.v, Summary = "done" => Summary' # "stuck"
      PROVE  [R!Next]_<<spec.v, Summary>>
  BY <1>1, <1>2, <1>3 DEF R!Next, R!Finish, R!Stick, R!Resume
<1>4. CASE SpecWrite
  <2>1. Summary' # "done"
    BY <1>0, <1>2, <1>4 DEF SpecWrite, GenInv
  <2>2. Summary' = "stuck" <=> Summary = "stuck"
    BY <1>1, <1>2, <1>4 DEF SpecWrite
  <2>3. CASE spec'.v = spec.v
    BY <1>3, <2>2, <2>3
  <2>4. CASE spec'.v # spec.v
    BY <1>0, <1>1, <1>2, <2>1, <2>2, <2>4 DEF R!Next, R!Write
  <2>5. QED  BY <2>3, <2>4
<1>5. CASE StatusWrite
  <2>1. PICK failed \in BOOLEAN : /\ status' = Snapshot(failed)
                                  /\ failed => status.failed \/ Summary # "done"
    BY <1>5 DEF StatusWrite
  <2>2. status'.failed = failed /\ UNCHANGED spec
    BY <1>5, <2>1 DEF Snapshot, StatusWrite
  <2>3. Summary = "done" => Summary' # "stuck"
    BY <1>1, <1>2, <2>1, <2>2
  <2>4. QED  BY <1>3, <2>2, <2>3
<1>6. CASE Observe \/ Bystands \/ \E i, pod : PodWrite(i, pod)
  <2>1. UNCHANGED <<spec, status>>
    BY <1>6 DEF Observe, Bystands, PodWrite
  <2>2. QED  BY <1>1, <1>2, <1>3, <2>1
<1> QED BY <1>0, <1>4, <1>5, <1>6, StepKinds

(* DeploymentProgress and StatefulSetProgress, read against controllers    *)
(* that act on what they observed, give the reconcile loop the summary it  *)
(* is modelled with: no new template is complete at once, and only a       *)
(* rollout in flight gets stuck.                                           *)
THEOREM RolloutImplemented == Spec => ImplementsRollout
<1>1. BaseInv /\ BaseInv' /\ [Next]_vars => [R!Next]_<<spec.v, Summary>>
  BY RolloutStep
<1> QED BY RolloutInit, BaseInvariance, <1>1, PTL DEF Spec, ImplementsRollout, R!Spec

------------------------------------------------------------------------------
(* What "complete" is worth.  Once a status of the observed generation     *)
(* says that every pod is updated, no pod of another version is created:   *)
(* the controller creates only what it observed, and a StatefulSet falls   *)
(* back to its current revision only while that is not the update one.     *)
OneVersion == \A i \in Slots : pods[i] # NoPod => pods[i].v = ctl.v

DeploymentInv ==
  spec.kind = "Deployment" /\ status.observed = ctl.gen /\ status.replicas <= status.updated
    => OneVersion

StatefulSetInv ==
  spec.kind = "StatefulSet" =>
    /\ ctl.replicas = spec.replicas
    /\ \A i \in Slots : pods[i] # NoPod => i < spec.replicas
    /\ /\ status.observed = ctl.gen /\ status.updated >= ctl.replicas
       /\ status.current = status.update
       => OneVersion

RolledInv == DeploymentInv /\ StatefulSetInv

LEMMA OneVersionCounts ==
  ASSUME TypeInv, Cardinality(Pods) <= Cardinality(PodsOf(ctl.v))
  PROVE  OneVersion
<1>1. PodsOf(ctl.v) \in SUBSET Pods /\ Pods \in SUBSET Slots
  BY DEF PodsOf, Pods
<1>2. IsFiniteSet(Pods) /\ Cardinality(Pods) \in Nat /\ Cardinality(PodsOf(ctl.v)) \in Nat
  BY <1>1, CountType
<1>3. Cardinality(PodsOf(ctl.v)) <= Cardinality(Pods)
  BY <1>1, <1>2, FS_Subset
<1>4. Cardinality(PodsOf(ctl.v)) = Cardinality(Pods)
  BY <1>2, <1>3
<1>5. PodsOf(ctl.v) = Pods
  BY <1>1, <1>2, <1>4, FS_Subset
<1> QED BY <1>5 DEF OneVersion, PodsOf, Pods

(* A StatefulSet has at most one pod per ordinal.                          *)
LEMMA OrdinalCounts ==
  ASSUME TypeInv, \A i \in Slots : pods[i] # NoPod => i < spec.replicas
  PROVE  Cardinality(Pods) <= spec.replicas
<1>1. PICK n \in Nat : n = spec.replicas
  BY DEF TypeInv, SpecType
<1>2. IsFiniteSet(0 .. n - 1) /\ Cardinality(0 .. n - 1) = n
  <2>1. 0 \in Int /\ n - 1 \in Int
    OBVIOUS
  <2>2. /\ IsFiniteSet(0 .. n - 1)
        /\ Cardinality(0 .. n - 1) = IF 0 > n - 1 THEN 0 ELSE (n - 1) - 0 + 1
    BY <2>1, FS_Interval
  <2>3. QED  BY <2>2
<1>3. Slots \subseteq Nat
  BY RolloutAssumption DEF Slots
<1>4. \A i \in Pods : i \in Nat /\ i < n
  BY <1>1, <1>3 DEF Pods
<1>5. Pods \in SUBSET (0 .. n - 1)
  BY <1>4
<1> QED BY <1>1, <1>2, <1>5, FS_Subset

(* Pods that appear are of the observed version, or of the current         *)
(* revision; the others keep theirs.                                       *)
PodsFrom(v) ==
  \A i \in Slots : pods'[i] # NoPod =>
    \/ pods[i] # NoPod /\ pods'[i].v = pods[i].v
    \/ pods'[i].v = v /\ (Kind = "StatefulSet" => i < ctl.replicas)

LEMMA PodSteps ==
  ASSUME TypeInv, [Next]_vars, pods' # pods
  PROVE  /\ UNCHANGED <<spec, status, ctl>>
         /\ \/ PodsFrom(ctl.v)
            \/ Kind = "StatefulSet" /\ PodsFrom(status.current)
<1> USE DEF TypeInv, kohen
<1>1. CASE CreateReplica
  BY <1>1 DEF CreateReplica, PodStep, Put, PodsFrom, NoPod, Kind
<1>2. CASE DeleteReplica
  BY <1>2 DEF DeleteReplica, PodStep, Put, PodsFrom, Kind
<1>3. CASE CreateOrdinal
  <2>1. PICK i \in Ordinals : PodStep(i, [v |-> Revision(i), ready |-> FALSE])
    BY <1>3 DEF CreateOrdinal
  <2>2. Revision(i) = status.current \/ Revision(i) = ctl.v
    BY DEF Revision
  <2>3. PICK v : v = Revision(i)
    OBVIOUS
  <2>4. PodsFrom(v)
    BY <2>1, <2>3 DEF PodStep, Put, PodsFrom, Ordinals
  <2>5. QED  BY <1>3, <2>1, <2>2, <2>3, <2>4 DEF CreateOrdinal, PodStep
<1>4. CASE DeleteOrdinal
  BY <1>4 DEF DeleteOrdinal, PodStep, Put, PodsFrom, Kind
<1>5. ASSUME NEW i \in Slots, BecomeReady(i)
      PROVE  UNCHANGED <<spec, status, ctl>> /\ PodsFrom(ctl.v)
  BY <1>5 DEF BecomeReady, PodStep, Put, PodsFrom, Pods
<1>6. CASE LosePod
  BY <1>6 DEF LosePod, Put, PodsFrom, Pods
<1>7. QED
  BY <1>1, <1>2, <1>3, <1>4, <1>5, <1>6
     DEF Next, Controller, Stamp, Report, Deliver, Observe, WriteStatus, PassDeadline,
         Retarget, Scale, vars

LEMMA RolledInit == Init => RolledInv
<1> SUFFICES ASSUME Init PROVE RolledInv
  OBVIOUS
<1>1. PICK k \in Kinds, v \in Versions, n \in 1 .. MaxReplicas :
        /\ spec = [kind |-> k, gen |-> 1, v |-> v, replicas |-> n]
        /\ pods = [i \in Slots |-> IF i < n THEN [v |-> v, ready |-> TRUE] ELSE NoPod]
  BY DEF Init
<1>2. ctl = spec
  BY DEF Init
<1> QED BY <1>1, <1>2 DEF RolledInv, DeploymentInv, StatefulSetInv, OneVersion

LEMMA RolledStep ==
  ASSUME "StatefulSet" \in Kinds => "scale" \notin MovesOf["StatefulSet"],
         BaseInv, RolledInv, [Next]_vars
  PROVE  RolledInv'
<1> USE DEF RolledInv
<1>0. /\ TypeInv /\ GenInv
      /\ spec.gen \in Nat /\ ctl.gen \in Nat /\ status.observed \in Nat
      /\ spec.kind \in Kinds /\ ctl.replicas \in Nat
  BY DEF BaseInv, TypeInv, SpecType, StatusType
<1>1. CASE pods' # pods
  <2>1. /\ UNCHANGED <<spec, status, ctl>>
        /\ \/ PodsFrom(ctl.v)
           \/ Kind = "StatefulSet" /\ PodsFrom(status.current)
    BY <1>0, <1>1, PodSteps
  <2>2. DeploymentInv'
    BY <2>1 DEF DeploymentInv, OneVersion, PodsFrom, Kind
  <2>3. StatefulSetInv'
    <3>1. SUFFICES ASSUME spec.kind = "StatefulSet" PROVE StatefulSetInv'
      BY <2>1 DEF StatefulSetInv
    <3>2. ctl.replicas = spec.replicas /\ \A i \in Slots : pods'[i] # NoPod => i < spec.replicas
      BY <2>1, <3>1 DEF StatefulSetInv, PodsFrom, Kind
    <3>3. ASSUME status.observed = ctl.gen, status.updated >= ctl.replicas,
                 status.current = status.update
          PROVE  OneVersion'
      <4>1. OneVersion /\ status.current = ctl.v
        BY <1>0, <3>1, <3>3 DEF StatefulSetInv, GenInv
      <4>2. QED  BY <2>1, <4>1 DEF OneVersion, PodsFrom
    <3>4. QED  BY <2>1, <3>2, <3>3 DEF StatefulSetInv
  <2>4. QED  BY <2>2, <2>3
<1>2. CASE pods' = pods /\ SpecWrite
  <2>1. spec.kind = "StatefulSet" => spec'.replicas = spec.replicas
    BY <1>0, <1>2 DEF SpecWrite, Kind
  <2>2. QED  BY <1>2, <2>1 DEF SpecWrite, DeploymentInv, StatefulSetInv, OneVersion
<1>3. CASE StatusWrite
  <2>1. PICK failed \in BOOLEAN : status' = Snapshot(failed)
    BY <1>3 DEF StatusWrite
  <2>2. /\ status'.replicas = Cardinality(Pods)
        /\ status'.updated = Cardinality(PodsOf(ctl.v))
    BY <2>1 DEF Snapshot
  <2>3. UNCHANGED <<spec, ctl, pods>>
    BY <1>3 DEF StatusWrite
  <2>4. status'.replicas <= status'.updated => OneVersion
    BY <1>0, <2>2, OneVersionCounts
  <2>5. spec.kind = "StatefulSet" /\ status'.updated >= ctl.replicas => OneVersion
    <3>1. SUFFICES ASSUME spec.kind = "StatefulSet", status'.updated >= ctl.replicas
                   PROVE  OneVersion
      OBVIOUS
    <3>2. Cardinality(Pods) <= ctl.replicas
      BY <1>0, <3>1, OrdinalCounts DEF StatefulSetInv
    <3>3. Cardinality(Pods) \in Nat /\ Cardinality(PodsOf(ctl.v)) \in Nat
      BY CountType DEF Pods, PodsOf
    <3>4. Cardinality(Pods) <= Cardinality(PodsOf(ctl.v))
      BY <1>0, <2>2, <3>1, <3>2, <3>3
    <3>5. QED  BY <1>0, <3>4, OneVersionCounts
  <2>6. QED  BY <2>3, <2>4, <2>5 DEF DeploymentInv, StatefulSetInv, OneVersion
<1>4. CASE Observe
  <2>1. ctl' = spec /\ ctl # spec /\ UNCHANGED <<spec, status, pods>>
    BY <1>4 DEF Observe
  <2>2. status.observed < ctl'.gen
    BY <1>0, <2>1 DEF GenInv
  <2>3. QED  BY <1>0, <2>1, <2>2 DEF DeploymentInv, StatefulSetInv
<1>5. CASE Bystands
  BY <1>5 DEF Bystands, DeploymentInv, StatefulSetInv, OneVersion
<1>6. ASSUME NEW i, NEW pod, PodWrite(i, pod), pods' = pods PROVE RolledInv'
  BY <1>6 DEF PodWrite, DeploymentInv, StatefulSetInv, OneVersion
<1> QED BY <1>0, <1>1, <1>2, <1>3, <1>4, <1>5, <1>6, StepKinds

(* RolloutComplete is worth what it says: a workload whose status reads    *)
(* complete runs no pod of another version, however old the snapshot in    *)
(* its status is and whatever pods are lost and replaced, as long as no    *)
(* StatefulSet is scaled.                                                  *)
THEOREM CompleteIsRolledOut ==
  ASSUME "StatefulSet" \in Kinds => "scale" \notin MovesOf["StatefulSet"]
  PROVE  Spec => []CompleteRolledOut
<1>1. BaseInv /\ RolledInv /\ [Next]_vars => RolledInv'
  BY RolledStep
<1>2. ASSUME BaseInv, RolledInv PROVE CompleteRolledOut
  <2>1. SUFFICES ASSUME Progress(Live) = "Complete" PROVE Pods = PodsOf(spec.v)
    BY DEF CompleteRolledOut
  <2>2. /\ Live.spec = spec /\ Live.status = status
        /\ spec.gen \in Nat /\ ctl.gen \in Nat /\ status.observed \in Nat
        /\ spec.kind \in {"Deployment", "StatefulSet"}
    BY <1>2, RolloutAssumption DEF Live, BaseInv, TypeInv, SpecType, StatusType
  <2>3. status.observed >= spec.gen
    BY <2>1, <2>2 DEF Progress, DeploymentProgress, StatefulSetProgress
  <2>4. status.observed = ctl.gen /\ ctl = spec
    BY <1>2, <2>2, <2>3 DEF BaseInv, GenInv
  <2>5. OneVersion
    BY <1>2, <2>1, <2>2, <2>4
       DEF Progress, DeploymentProgress, StatefulSetProgress, RolledInv, DeploymentInv,
           StatefulSetInv
  <2>6. QED  BY <2>4, <2>5 DEF OneVersion, Pods, PodsOf
<1> QED BY BaseInvariance, RolledInit, <1>1, <1>2, PTL DEF Spec
==============================================================================
