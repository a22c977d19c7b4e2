----------------------------- MODULE MetricsProofs -----------------------------
(***************************************************************************)
(* Proofs about Metrics, for any number of ConfigSyncs, any specs and any  *)
(* bound on failures: keeping the series does not disturb the reconcile    *)
(* loop, and a ConfigSync that is gone leaves no series behind.            *)
(***************************************************************************)
EXTENDS Metrics, ConfigSyncProofs

(* Only a ConfigSync under its finalizer has series.  This is what         *)
(* finalize relies on: the deletion it sees is the only way such a sync    *)
(* can go.                                                                 *)
SeriesInv ==
  /\ degraded = [s \in Syncs |-> degraded[s]]
  /\ version = [s \in Syncs |-> version[s]]
  /\ \A s \in Syncs : degraded[s] # None \/ version[s] # None => cs[s].fin

------------------------------------------------------------------------------
(* Only DropFinalizer takes a finalizer away, and only the worker's own.   *)
LEMMA FinalizerStays ==
  ASSUME LoopInv, [Next]_vars, NEW s \in Syncs, cs[s].fin
  PROVE  cs'[s].fin \/ (DropFinalizer /\ s = Me)
<1> USE DEF LoopInv, ShapeInv
<1>1. ASSUME NEW o \in Syncs,
             \/ AddFinalizer(o) \/ ClearSyncNow(o) \/ CreateSync(o) \/ EditSpec(o)
             \/ AnnotateSyncNow(o) \/ DeleteSync(o)
      PROVE  cs'[s].fin
  <2>1. /\ Wrote(o)
        /\ cs[o].fin => cs'[o].fin
    BY <1>1, SyncWrites DEF SamePhase, IsSync
  <2>2. QED  BY <2>1 DEF Wrote
<1>2. ASSUME NEW o \in Syncs, ReconcileGone(o) \/ BeginSync(o) \/ BeginFinalize(o)
      PROVE  cs'[s].fin
  BY <1>2 DEF ReconcileGone, BeginSync, BeginFinalize, cluster
<1>3. ASSUME UpdateStatus \/ DropFinalizer PROVE cs'[s].fin \/ (DropFinalizer /\ s = Me)
  <2>1. Me \in Syncs
    BY <1>3 DEF WorkerInv, UpdateStatus, DropFinalizer, At
  <2>2. Wrote(Me) /\ (UpdateStatus => SamePhase(cs[Me], cs'[Me]))
    BY <1>3, <2>1, SyncWrites
  <2>3. QED  BY <1>3, <2>2 DEF Wrote, SamePhase
<1>4. ASSUME Crash PROVE cs'[s].fin
  BY <1>4 DEF Crash, cluster
<1>5. CASE SyncSteps
  BY <1>5, <1>1, <1>2, <1>3, <1>4 DEF SyncSteps, Reconcile
<1>6. CASE ~SyncSteps
  BY <1>6, OtherSteps DEF Advances, Bystands
<1>7. QED  BY <1>5, <1>6

LEMMA MStepIsStep ==
  ASSUME [MNext]_mvars
  PROVE  [Next]_vars
BY DEF MNext, mvars, Recording, Clearing, Next, Operator, Pipeline, Faults

LEMMA SeriesInit == ASSUME MInit PROVE SeriesInv
BY DEF MInit, SeriesInv, NoSeries

(* A step that drops no finalizer may set series of the worker's sync, or  *)
(* drop any.                                                               *)
LEMMA SeriesKept ==
  ASSUME LoopInv, SeriesInv, [Next]_vars, ~DropFinalizer,
         NEW d, NEW v, pc # "idle" \/ (d = None /\ v = None),
         \/ UNCHANGED series
         \/ degraded' = [degraded EXCEPT ![Me] = d] /\ UNCHANGED version
         \/ version' = [version EXCEPT ![Me] = v] /\ UNCHANGED degraded
         \/ degraded' = [degraded EXCEPT ![Me] = None] /\ version' = [version EXCEPT ![Me] = None]
         \/ degraded' = NoSeries /\ version' = NoSeries
  PROVE  SeriesInv'
<1>1. \A s \in Syncs : cs[s].fin => cs'[s].fin
  BY FinalizerStays
<1>2. pc # "idle" => Me \in Syncs /\ cs[Me].fin
  BY DEF LoopInv, WorkerInv
<1>3. \A s \in Syncs : degraded'[s] # None \/ version'[s] # None =>
        degraded[s] # None \/ version[s] # None \/ (pc # "idle" /\ s = Me)
  BY DEF SeriesInv, series, NoSeries
<1>4. /\ degraded' = [s \in Syncs |-> degraded'[s]]
      /\ version' = [s \in Syncs |-> version'[s]]
  BY DEF SeriesInv, series, NoSeries
<1>5. QED  BY <1>1, <1>2, <1>3, <1>4 DEF SeriesInv

LEMMA SeriesStep ==
  ASSUME LoopInv, SeriesInv, [MNext]_mvars
  PROVE  SeriesInv'
<1>0. [Next]_vars
  BY MStepIsStep
<1>1. CASE Recording /\ Record
  <2>1. pc # "idle" /\ ~DropFinalizer
    BY <1>1 DEF Recording, UpdateStatus, UpdateStatusFails, DropFinalizer, At
  <2>2. QED  BY <1>0, <1>1, <2>1, SeriesKept DEF Record
<1>2. CASE ResolveSecrets /\ SetConfigVersion
  <2>1. pc # "idle" /\ ~DropFinalizer
    BY <1>2 DEF ResolveSecrets, DropFinalizer, At
  <2>2. QED  BY <1>0, <1>2, <2>1, SeriesKept DEF SetConfigVersion, series
<1>3. CASE Clearing /\ ClearConfigSync
  <2>1. pc # "idle"
    BY <1>3 DEF Clearing, DropFinalizer, DropFinalizerConflict, At
  <2>2. CASE ~DropFinalizer
    BY <1>0, <1>3, <2>1, <2>2, SeriesKept DEF ClearConfigSync
  <2>3. CASE DropFinalizer
    <3>1. \A s \in Syncs : cs[s].fin /\ s # Me => cs'[s].fin
      BY <1>0, FinalizerStays
    <3>2. QED  BY <1>3, <3>1 DEF ClearConfigSync, SeriesInv
  <2>4. QED  BY <2>2, <2>3
<1>4. CASE Crash /\ Restarted
  BY <1>4 DEF Restarted, SeriesInv, NoSeries
<1>5. CASE Next /\ ~Clearing /\ UNCHANGED series
  <2>1. ~DropFinalizer
    BY <1>5 DEF Clearing
  <2>2. QED  BY <1>0, <1>5, <2>1, SeriesKept
<1>6. CASE UNCHANGED mvars
  BY <1>6 DEF mvars, vars, series, SeriesInv
<1>7. QED  BY <1>1, <1>2, <1>3, <1>4, <1>5, <1>6 DEF MNext

(* Keeping the series changes nothing of what the reconcile loop does: the *)
(* loop with its metrics implements the loop without, so everything proved *)
(* of Spec holds for the program that also records.                        *)
THEOREM MetricsOnlyObserve == MSpec => Spec
<1>1. MInit => Init
  BY DEF MInit
<1>2. [MNext]_mvars => [Next]_vars
  BY MStepIsStep
<1>3. QED  BY <1>1, <1>2, PTL DEF MSpec, Spec

(* The inductive invariant: only a sync under its finalizer has series.    *)
THEOREM SeriesInvariance == MSpec => [](LoopInv /\ SeriesInv)
<1>1. MInit => LoopInv /\ SeriesInv
  BY LoopInit, SeriesInit DEF MInit
<1>2. LoopInv /\ SeriesInv /\ [MNext]_mvars => LoopInv' /\ SeriesInv'
  BY MStepIsStep, LoopStep, SeriesStep
<1>3. QED  BY <1>1, <1>2, PTL DEF MSpec

(* ClearConfigSync leaks nothing: a ConfigSync that is gone has no series, *)
(* whatever failed, was refused or was retried while it was deleted.       *)
THEOREM NoSeriesLeak == MSpec => []NoSeriesLeft
<1>1. LoopInv /\ SeriesInv => NoSeriesLeft
  BY DEF LoopInv, ShapeInv, IsSync, SeriesInv, NoSeriesLeft
<1>2. QED  BY <1>1, SeriesInvariance, PTL
==============================================================================
