--------------------------- MODULE ConfigSyncProofs ---------------------------
(***************************************************************************)
(* Proofs about the reconcile loop, for any number of ConfigSyncs, objects *)
(* and commits, any specs and any bound on failures: no sync is forgotten, *)
(* the finalizer covers every object, a user's object is not taken over,   *)
(* and the loop implements Lifecycle.  Users act at any time and caches    *)
(* lag; what has to be excluded is a hypothesis of its theorem.            *)
(***************************************************************************)
EXTENDS ConfigSyncProperties, TLAPS

(* The shape of a ConfigSync object and of what a reconcile holds.         *)
IsSync(x) ==
  /\ x = [live |-> x.live, deleting |-> x.deleting, fin |-> x.fin, syncNow |-> x.syncNow,
          born |-> x.born, spec |-> x.spec, status |-> x.status]
  /\ x.live \in BOOLEAN /\ x.deleting \in BOOLEAN /\ x.fin \in BOOLEAN
  /\ x.fin \/ x.deleting => x.live
  /\ x.deleting => x.fin
  /\ x.live => x.born # 0

IsJob(j) == j = [sync |-> j.sync, spec |-> j.spec, st |-> j.st, commit |-> j.commit,
                 tok |-> j.tok]

ShapeInv ==
  /\ cs = [s \in Syncs |-> cs[s]] /\ \A s \in Syncs : IsSync(cs[s])
  /\ IsJob(job) /\ due \subseteq Syncs

(* A reconcile that is under way works for a sync under its finalizer.     *)
WorkerInv == pc # "idle" => Me \in Syncs /\ cs[Me].live /\ cs[Me].fin

(* From the fetch to the manifests a reconcile holds a commit.             *)
HoldsCommit == {"apply", "patch", "prune", "manifests"}
CommitInv == head \in Commits /\ (pc \in HoldsCommit => job.commit \in Commits)

LoopInv == ShapeInv /\ WorkerInv /\ CommitInv /\ NeverForgotten

------------------------------------------------------------------------------
(* The writes to ConfigSync objects, by what they do to its life.          *)
SamePhase(x, y) == y.live = x.live /\ y.deleting = x.deleting /\ y.fin = x.fin

Wrote(s) ==
  /\ cs' = [o \in Syncs |-> IF o = s THEN cs'[s] ELSE cs[o]]
  /\ IsSync(cs'[s])

LEMMA FieldWrite ==
  ASSUME NEW x, IsSync(x), NEW v, NEW y,
         \/ y = [x EXCEPT !.syncNow = v]
         \/ y = [x EXCEPT !.spec = v]
         \/ y = [x EXCEPT !.status = v]
  PROVE  IsSync(y) /\ SamePhase(x, y)
BY DEF IsSync, SamePhase

LEMMA FinalizerWrite ==
  ASSUME NEW x, IsSync(x), x.live, ~x.deleting, NEW y, y = [x EXCEPT !.fin = TRUE]
  PROVE  IsSync(y) /\ y.live /\ ~y.deleting /\ y.fin
BY DEF IsSync

LEMMA DeletionWrite ==
  ASSUME NEW x, IsSync(x), x.fin, NEW y, y = [x EXCEPT !.deleting = TRUE]
  PROVE  IsSync(y) /\ y.live /\ y.deleting /\ y.fin
BY DEF IsSync

LEMMA AbsentSync ==
  ASSUME NEW t, NEW y, y = [Absent EXCEPT !.born = t]
  PROVE  IsSync(y) /\ ~y.live /\ ~y.deleting /\ ~y.fin
BY DEF IsSync, Absent

LEMMA NewSync ==
  ASSUME NEW t, t # 0, NEW sp,
         NEW y, y = [Absent EXCEPT !.live = TRUE, !.born = t, !.spec = sp]
  PROVE  IsSync(y) /\ y.live /\ ~y.deleting /\ ~y.fin
BY DEF IsSync, Absent

LEMMA WriteAt ==
  ASSUME ShapeInv, NEW s \in Syncs, NEW y, IsSync(y), cs' = [cs EXCEPT ![s] = y]
  PROVE  Wrote(s) /\ cs'[s] = y
BY DEF ShapeInv, Wrote

LEMMA SyncWrites ==
  ASSUME ShapeInv, NEW s \in Syncs
  PROVE  /\ AddFinalizer(s) => Wrote(s) /\ cs'[s].live /\ ~cs'[s].deleting /\ cs'[s].fin
         /\ ClearSyncNow(s) \/ EditSpec(s) \/ AnnotateSyncNow(s) =>
              Wrote(s) /\ SamePhase(cs[s], cs'[s])
         /\ CreateSync(s) => ~cs[s].live /\ Wrote(s) /\ cs'[s].live /\ ~cs'[s].deleting /\ ~cs'[s].fin
         /\ DeleteSync(s) =>
              /\ Wrote(s) /\ cs'[s].fin = cs[s].fin
              /\ cs'[s].live = cs[s].fin /\ cs'[s].deleting = cs[s].fin
         /\ UpdateStatus /\ s = Me => Wrote(s) /\ SamePhase(cs[s], cs'[s])
         /\ DropFinalizer /\ s = Me => Wrote(s) /\ ~cs'[s].live /\ ~cs'[s].deleting /\ ~cs'[s].fin
<1> USE DEF ShapeInv
<1>0. IsSync(cs[s])
  OBVIOUS
<1>1. ASSUME AddFinalizer(s)
      PROVE  Wrote(s) /\ cs'[s].live /\ ~cs'[s].deleting /\ cs'[s].fin
  <2>1. cs' = [cs EXCEPT ![s] = [cs[s] EXCEPT !.fin = TRUE]] /\ cs[s].live /\ ~cs[s].deleting
    BY <1>1 DEF AddFinalizer
  <2>2. QED  BY <1>0, <2>1, FinalizerWrite, WriteAt
<1>2. ASSUME ClearSyncNow(s) \/ EditSpec(s) \/ AnnotateSyncNow(s)
      PROVE  Wrote(s) /\ SamePhase(cs[s], cs'[s])
  <2>1. PICK v : \/ cs' = [cs EXCEPT ![s] = [cs[s] EXCEPT !.syncNow = v]]
                 \/ cs' = [cs EXCEPT ![s] = [cs[s] EXCEPT !.spec = v]]
    BY <1>2 DEF ClearSyncNow, EditSpec, AnnotateSyncNow
  <2>2. PICK y : /\ y = [cs[s] EXCEPT !.syncNow = v] \/ y = [cs[s] EXCEPT !.spec = v]
                 /\ cs' = [cs EXCEPT ![s] = y]
    BY <2>1
  <2>3. IsSync(y) /\ SamePhase(cs[s], y)
    BY <1>0, <2>2, FieldWrite
  <2>4. QED  BY <2>2, <2>3, WriteAt
<1>3. ASSUME CreateSync(s)
      PROVE  ~cs[s].live /\ Wrote(s) /\ cs'[s].live /\ ~cs'[s].deleting /\ ~cs'[s].fin
  <2>1. PICK sp \in Specs, t \in {Now, Now + 1} :
          t > 0 /\ cs' = [cs EXCEPT ![s] = [Absent EXCEPT !.live = TRUE, !.born = t, !.spec = sp]]
    BY <1>3 DEF CreateSync
  <2>2. t # 0 /\ ~cs[s].live
    BY <1>0, <1>3, <2>1 DEF CreateSync, IsSync
  <2>3. QED  BY <2>1, <2>2, NewSync, WriteAt
<1>4. ASSUME DeleteSync(s)
      PROVE  /\ Wrote(s) /\ cs'[s].fin = cs[s].fin
             /\ cs'[s].live = cs[s].fin /\ cs'[s].deleting = cs[s].fin
  <2>1. CASE cs[s].fin
    <3>1. cs' = [cs EXCEPT ![s] = [cs[s] EXCEPT !.deleting = TRUE]]
      BY <1>4, <2>1 DEF DeleteSync
    <3>2. QED  BY <1>0, <2>1, <3>1, DeletionWrite, WriteAt DEF IsSync
  <2>2. CASE ~cs[s].fin
    <3>1. cs' = [cs EXCEPT ![s] = [Absent EXCEPT !.born = cs[s].born]]
      BY <1>4, <2>2 DEF DeleteSync
    <3>2. cs[s].fin = FALSE
      BY <1>0, <2>2 DEF IsSync
    <3>3. PICK y : y = [Absent EXCEPT !.born = cs[s].born]
      OBVIOUS
    <3>4. IsSync(y) /\ y.live = FALSE /\ y.deleting = FALSE /\ y.fin = FALSE
      BY <3>3, AbsentSync DEF IsSync
    <3>5. Wrote(s) /\ cs'[s] = y
      BY <3>1, <3>3, <3>4, WriteAt
    <3>6. QED  BY <3>2, <3>4, <3>5
  <2>3. QED  BY <2>1, <2>2
<1>5. ASSUME UpdateStatus, s = Me PROVE Wrote(s) /\ SamePhase(cs[s], cs'[s])
  <2>1. cs' = [cs EXCEPT ![s] = [cs[s] EXCEPT !.status = job.st]]
    BY <1>5 DEF UpdateStatus
  <2>2. QED  BY <1>0, <2>1, FieldWrite, WriteAt
<1>6. ASSUME DropFinalizer, s = Me
      PROVE  Wrote(s) /\ ~cs'[s].live /\ ~cs'[s].deleting /\ ~cs'[s].fin
  <2>1. cs' = [cs EXCEPT ![s] = [Absent EXCEPT !.born = cs[s].born]]
    BY <1>6 DEF DropFinalizer
  <2>2. QED  BY <2>1, AbsentSync, WriteAt
<1>7. QED  BY <1>1, <1>2, <1>3, <1>4, <1>5, <1>6

------------------------------------------------------------------------------
(* The other steps leave the ConfigSyncs alone: the worker goes on or      *)
(* gives the sync back to the queue, or somebody else acts.                *)
Advances ==
  /\ pc # "idle" /\ UNCHANGED cs /\ IsJob(job')
  /\ \/ pc' # "idle" /\ job'.sync = Me /\ job'.spec = job.spec /\ due' = due
     \/ pc' = "idle" /\ due' = due \cup {Me}
  /\ head' = head
  /\ pc' \in HoldsCommit =>
       job'.commit = head \/ (pc \in HoldsCommit /\ job'.commit = job.commit)

Bystands == /\ UNCHANGED <<cs, pc, job>> /\ due \subseteq due' /\ due' \subseteq Syncs
            /\ head' = head \/ head' \in Commits

SyncSteps ==
  \/ \E s \in Syncs : \/ Reconcile(s) \/ CreateSync(s) \/ EditSpec(s)
                      \/ AnnotateSyncNow(s) \/ DeleteSync(s)
  \/ UpdateStatus \/ DropFinalizer \/ Crash

LEMMA OtherSteps ==
  ASSUME ShapeInv, [Next]_vars, ~SyncSteps
  PROVE  Advances \/ Bystands
<1> USE DEF ShapeInv, IsJob, Me, At, cluster, objects, workloads, Continue, Return, Requeue,
            NotWired, NoJob, HoldsCommit
<1>1. FetchAndRender => Advances
  <2>1. CASE head \in BadRender
    BY <2>1 DEF FetchAndRender, Advances
  <2>2. CASE head \notin BadRender
    BY <2>2 DEF FetchAndRender, Advances
  <2>3. QED  BY <2>1, <2>2
<1>2. CheckConfigMap => Advances
  BY DEF CheckConfigMap, Advances
<1>3. PatchConfigMap => Advances
  BY DEF PatchConfigMap, Advances
<1>4. PruneConfigMaps => Advances
  BY DEF PruneConfigMaps, Advances
<1>5. ManifestsRejected => Advances
  BY DEF ManifestsRejected, Advances
<1>6. ApplyManifests => Advances
  BY DEF ApplyManifests, Advances
<1>7. ApplyManifestsFails => Advances
  BY DEF ApplyManifestsFails, Advances
<1>8. PruneManifests => Advances
  BY DEF PruneManifests, Advances
<1>9. ResolveSecrets => Advances
  BY DEF ResolveSecrets, Advances
<1>10. Inspect => Advances
  BY DEF Inspect, Advances
<1>11. Wire => Advances
  BY DEF Wire, Advances
<1>12. WireFails => Advances
  BY DEF WireFails, Advances
<1>13. StampNoRestart => Advances
  BY DEF StampNoRestart, Advances
<1>14. StampNoRestartFails => Advances
  BY DEF StampNoRestartFails, Advances
<1>15. RolloutProgress => Advances
  BY DEF RolloutProgress, Advances
<1>16. UpdateStatusFails => Advances
  BY DEF UpdateStatusFails, Advances
<1>17. Unwire => Advances
  BY DEF Unwire, Advances
<1>18. ClearStamp => Advances
  BY DEF ClearStamp, Advances
<1>19. FinalPrune => Advances
  BY DEF FinalPrune, Advances
<1>20. FinalPruneManifests => Advances
  BY DEF FinalPruneManifests, Advances
<1>21. DropFinalizerConflict => Advances
  BY DEF DropFinalizerConflict, Advances
<1>22. FetchFails => Advances
  BY DEF FetchFails, Advances
<1>23. PatchConfigMapFails => Advances
  BY DEF PatchConfigMapFails, Advances
<1>24. PruneConfigMapsFails => Advances
  BY DEF PruneConfigMapsFails, Advances
<1>25. PruneManifestsFails => Advances
  BY DEF PruneManifestsFails, Advances
<1>26. FinalizeFails => Advances
  BY DEF FinalizeFails, Advances
<1>27. \A w \in Workloads : ReplaceWorkload(w) => Bystands
  BY DEF ReplaceWorkload, Bystands, worker
<1>28. \A w \in Workloads : StripStamp(w) => Bystands
  BY DEF StripStamp, Bystands, worker
<1>29. \A w \in Workloads : StripFields(w) => Bystands
  BY DEF StripFields, Bystands, worker
<1>30. \A w \in Workloads : StickRollout(w) => Bystands
  BY DEF StickRollout, Bystands, worker
<1>31. \A w \in Workloads : ResumeRollout(w) => Bystands
  BY DEF ResumeRollout, Bystands, worker
<1>32. \A w \in Workloads : FinishRollout(w) => Bystands
  BY DEF FinishRollout, Bystands, worker
<1>33. \A w \in Workloads : ObserveWorkload(w) => Bystands
  BY DEF ObserveWorkload, Bystands, worker
<1>34. Push => Bystands
  BY DEF Push, Bystands, worker
<1>35. \A r \in Refs : ChangeSecret(r) => Bystands
  BY DEF ChangeSecret, Bystands, worker
<1>36. \A n \in Names : CreateForeign(n) => Bystands
  BY DEF CreateForeign, Bystands, worker
<1>37. \A n \in Names : DeleteObject(n) => Bystands
  BY DEF DeleteObject, Bystands, worker
<1>38. \A n \in ConfigMaps : ObserveConfigMap(n) => Bystands
  BY DEF ObserveConfigMap, Bystands
<1>39. UNCHANGED vars => Bystands
  BY DEF vars, Bystands
<1>40. QED
  BY <1>1, <1>2, <1>3, <1>4, <1>5, <1>6, <1>7, <1>8, <1>9, <1>10, <1>11, <1>12, <1>13, 
        <1>14, <1>15, <1>16, <1>17, <1>18, <1>19, <1>20, <1>21, <1>22, <1>23, <1>24, 
        <1>25, <1>26, <1>27, <1>28, <1>29, <1>30, <1>31, <1>32, <1>33, <1>34, <1>35, 
        <1>36, <1>37, <1>38, <1>39
     DEF Next, Operator, Faults, Users, Kubernetes, Pipeline, SyncSteps

LEMMA LoopInit == ASSUME Init PROVE LoopInv
BY AbsentSync DEF Init, LoopInv, ShapeInv, WorkerInv, CommitInv, HoldsCommit, NeverForgotten, IsSync,
       IsJob, Absent, NoJob

LEMMA LoopStep ==
  ASSUME LoopInv, [Next]_vars
  PROVE  LoopInv'
<1> USE DEF LoopInv, ShapeInv, WorkerInv, CommitInv, HoldsCommit, NeverForgotten, Running, Me,
            At, cluster
<1>1. ASSUME NEW s \in Syncs, ReconcileGone(s) PROVE LoopInv'
  BY <1>1 DEF ReconcileGone
<1>2. ASSUME NEW s \in Syncs, AddFinalizer(s) \/ ClearSyncNow(s) PROVE LoopInv'
  BY <1>2, SyncWrites DEF AddFinalizer, ClearSyncNow, Wrote, SamePhase
<1>3. ASSUME NEW s \in Syncs, BeginSync(s) \/ BeginFinalize(s) PROVE LoopInv'
  <2>1. /\ pc = "idle" /\ pc' # "idle" /\ job'.sync = s /\ IsJob(job') /\ UNCHANGED <<cs, head>>
        /\ pc' \notin HoldsCommit
    BY <1>3 DEF BeginSync, BeginFinalize, NoJob, IsJob
  <2>2. cs[s].live /\ cs[s].fin /\ due' = due \ {s}
    BY <1>3 DEF BeginSync, BeginFinalize
  <2>3. QED  BY <2>1, <2>2
<1>4. ASSUME NEW s \in Syncs, CreateSync(s) \/ EditSpec(s) \/ AnnotateSyncNow(s) \/ DeleteSync(s)
      PROVE  LoopInv'
  <2>1. /\ Wrote(s) /\ UNCHANGED <<pc, job, head>> /\ due' = due \cup {s}
        /\ cs[s].fin => cs'[s].fin
    BY <1>4, SyncWrites DEF CreateSync, EditSpec, AnnotateSyncNow, DeleteSync, Touch, IsSync, SamePhase
  <2>2. QED  BY <2>1, SMTT(30) DEF Wrote, IsSync
<1>5. ASSUME UpdateStatus \/ DropFinalizer PROVE LoopInv'
  <2>1. Me \in Syncs /\ pc' = "idle" /\ job' = NoJob /\ due' = due \cup {Me} /\ head' = head
    BY <1>5 DEF UpdateStatus, DropFinalizer, Requeue
  <2>2. Wrote(Me)
    BY <1>5, <2>1, SyncWrites
  <2>3. QED  BY <2>1, <2>2 DEF Wrote, NoJob, IsJob
<1>6. ASSUME Crash PROVE LoopInv'
  BY <1>6 DEF Crash, NoJob, IsJob
<1>7. ASSUME Advances PROVE LoopInv'
  BY <1>7 DEF Advances
<1>8. ASSUME Bystands PROVE LoopInv'
  BY <1>8 DEF Bystands
<1>9. CASE SyncSteps
  BY <1>9, <1>1, <1>2, <1>3, <1>4, <1>5, <1>6 DEF SyncSteps, Reconcile
<1>10. CASE ~SyncSteps
  BY <1>10, <1>7, <1>8, OtherSteps
<1>11. QED  BY <1>9, <1>10

(* The inductive invariant of the reconcile loop: shapes, a worker only    *)
(* under a finalizer, and no sync out of the queue.                        *)
THEOREM LoopInvariance == Spec => []LoopInv
<1>1. QED  BY LoopInit, LoopStep, PTL DEF Spec

(* No ConfigSync is forgotten, on any path of the reconcile, across errors *)
(* conflicts and restarts.                                                 *)
THEOREM NothingForgotten == Spec => []NeverForgotten
<1>1. LoopInv => NeverForgotten
  BY DEF LoopInv
<1>2. QED  BY <1>1, LoopInvariance, PTL

------------------------------------------------------------------------------
(* The objects.  Nothing is assumed of the read cache except at the labels *)
(* a theorem names: there, when the worker reads ConfigMaps, it has caught *)
(* up (a final list that misses an object leaves it behind).               *)
Caught == \A n \in ConfigMaps : seen[n] = store[n].owner
FinalListCurrent == pc = "finalPrune" => Caught
ReadsCurrent == pc \in {"apply", "prune", "finalPrune"} => Caught

ObjectShape ==
  /\ store = [n \in Names |-> store[n]]
  /\ \A n \in Names : store[n].owner \in Syncs \cup {User, None}

FinalLabels == {"unwire", "clearStamp", "finalPrune", "finalPruneManifests", "dropFinalizer"}

(* Deletion works through ConfigMaps, then manifests; what is pruned stays *)
(* pruned, because only the worker places objects.                         *)
FinalInv ==
  /\ pc \in FinalLabels => cs[Me].deleting
  /\ pc \in {"finalPruneManifests", "dropFinalizer"} => \A n \in ConfigMaps : store[n].owner # Me
  /\ pc = "dropFinalizer" => \A n \in Manifests : store[n].owner # Me

ObjectInv == ObjectShape /\ ObjectsGuarded /\ FinalInv

(* Between the ownership check and the apply the name stays free or owned. *)
PatchInv ==
  pc = "patch" /\ job.spec.cm \in Names => store[job.spec.cm].owner \in {Me, None}

(* What a step can do to the objects.                                      *)
Places(N) ==
  /\ N \subseteq Names
  /\ store' = [n \in Names |-> IF n \in N THEN Rendered(job) ELSE store[n]]
Removes(N) ==
  /\ N \subseteq Names
  /\ store' = [n \in Names |-> IF n \in N THEN NoObject ELSE store[n]]

Own == {n \in Names : store[n].owner = Me}
Vacant == {n \in Names : store[n].owner = None}
Labelled == {n \in Names : store[n].owner = User /\ LabelOf[n] = Me}

PlaceSteps == PatchConfigMap \/ ApplyManifests \/ ApplyManifestsFails
RemoveSteps ==
  \/ PruneConfigMaps \/ PruneConfigMapsFails \/ PruneManifests \/ PruneManifestsFails
  \/ FinalPrune \/ FinalPruneManifests \/ FinalizeFails
UserSteps == \E n \in Names : CreateForeign(n) \/ DeleteObject(n)

LEMMA SeenCurrent ==
  ASSUME NEW n \in Names, n \in Manifests \/ Caught
  PROVE  SeenOwner(n) = store[n].owner
BY ConstantsAssumption DEF Caught, SeenOwner, Names, ConstantsAssumption

LEMMA StoreWrites ==
  ASSUME ObjectShape, NEW new, WriteStore(new),
         new = [n \in Names |-> new[n]],
         \A n \in Names : new[n].owner \in Syncs \cup {User, None}
  PROVE  ObjectShape' /\ store' = new
BY DEF ObjectShape, WriteStore

LEMMA Placing ==
  ASSUME LoopInv, ObjectInv, PlaceSteps
  PROVE  /\ ObjectShape' /\ pc' \notin FinalLabels \cup {"patch"} /\ pc # "idle" /\ UNCHANGED cs
         /\ \E N \in SUBSET Names :
              Places(N) /\ (PatchInv => N \subseteq Own \cup Vacant)
<1> USE DEF ObjectInv, LoopInv, Me
<1>1. /\ pc' \notin FinalLabels \cup {"patch"} /\ pc # "idle" /\ UNCHANGED cs
      /\ Me \in Syncs /\ Rendered(job).owner = Me
  BY DEF PlaceSteps, PatchConfigMap, ApplyManifests, ApplyManifestsFails, FinalLabels, At, Continue,
         Return, Rendered, WorkerInv
<1>2. CASE PatchConfigMap
  <2> DEFINE N == {job.spec.cm} \cap Names
             new == [store EXCEPT ![job.spec.cm] = Rendered(job)]
  <2>1. new = [n \in Names |-> IF n \in N THEN Rendered(job) ELSE store[n]]
    BY DEF ObjectShape
  <2>2. WriteStore(new) /\ pc = "patch"
    BY <1>2 DEF PatchConfigMap, At
  <2>3. ObjectShape' /\ store' = new
    BY <1>1, <2>1, <2>2, StoreWrites DEF ObjectShape
  <2>4. PatchInv => N \subseteq Own \cup Vacant
    BY <2>2 DEF PatchInv, Own, Vacant
  <2>5. Places(N)
    BY <2>1, <2>3 DEF Places
  <2>6. QED  BY <1>1, <2>3, <2>4, <2>5
<1>3. CASE ApplyManifests \/ ApplyManifestsFails
  <2>0. ManifestsOf[job.commit] \subseteq Manifests
    BY <1>3, ConstantsAssumption
    DEF ApplyManifests, ApplyManifestsFails, At, CommitInv, HoldsCommit, ConstantsAssumption
  <2>1. PICK ms \in SUBSET Manifests : WriteStore(ApplyAll(ms)) /\ \A m \in ms : MayApply(m)
    BY <1>3, <2>0 DEF ApplyManifests, ApplyManifestsFails
  <2> DEFINE N == ms \cap Names
  <2>2. ApplyAll(ms) = [n \in Names |-> IF n \in N THEN Rendered(job) ELSE store[n]]
    BY DEF ApplyAll
  <2>3. ObjectShape' /\ store' = ApplyAll(ms)
    BY <1>1, <2>1, <2>2, StoreWrites DEF ObjectShape
  <2>4. N \subseteq Own \cup Vacant
    BY <2>1, SeenCurrent DEF MayApply, OwnedBy, Own, Vacant
  <2>5. Places(N)
    BY <2>2, <2>3 DEF Places
  <2>6. QED  BY <1>1, <2>3, <2>4, <2>5
<1>4. QED  BY <1>2, <1>3 DEF PlaceSteps

LEMMA Removing ==
  ASSUME LoopInv, ObjectInv, RemoveSteps
  PROVE  /\ ObjectShape' /\ pc # "idle" /\ pc' # "patch" /\ UNCHANGED cs
         /\ \E N \in SUBSET Names :
              Removes(N) /\ (ReadsCurrent => N \subseteq Own \cup Labelled)
<1> USE DEF ObjectInv, LoopInv, Me
<1>1. pc # "idle" /\ pc' # "patch" /\ UNCHANGED cs
  BY DEF RemoveSteps, PruneConfigMaps, PruneConfigMapsFails, PruneManifests, PruneManifestsFails,
         FinalPrune, FinalPruneManifests, FinalizeFails, At, Continue, Return, Requeue, cluster
<1>2. CASE UNCHANGED objects
  <2>1. Removes({})
    BY <1>2 DEF objects, ObjectShape, Removes
  <2>2. ObjectShape'
    BY <1>2 DEF objects, ObjectShape
  <2>3. QED  BY <1>1, <2>1, <2>2
<1>3. CASE ~UNCHANGED objects
  <2>1. PICK gone, kind, keep :
          /\ WriteStore(Deleted(gone)) /\ gone \subseteq Stale(kind, keep)
          /\ kind = Manifests \/ (kind = ConfigMaps /\ pc \in {"prune", "finalPrune"})
    <3> DEFINE Gone(kind, keep) == \E g \in SUBSET Stale(kind, keep) : WriteStore(Deleted(g))
    <3>1. CASE PruneConfigMaps \/ PruneConfigMapsFails
      <4>1. Gone(ConfigMaps, {job.spec.cm}) /\ pc = "prune"
        BY <3>1 DEF PruneConfigMaps, PruneConfigMapsFails, At
      <4>2. QED  BY <4>1, Zenon
    <3>2. CASE PruneManifests \/ PruneManifestsFails
      <4>1. Gone(Manifests, ManifestsOf[job.commit])
        BY <3>2 DEF PruneManifests, PruneManifestsFails
      <4>2. QED  BY <4>1, Zenon
    <3>3. CASE FinalPrune \/ (FinalizeFails /\ pc = "finalPrune")
      <4>1. Gone(ConfigMaps, {}) /\ pc = "finalPrune"
        BY <1>3, <3>3 DEF FinalPrune, FinalizeFails, At
      <4>2. QED  BY <4>1, Zenon
    <3>4. CASE FinalPruneManifests \/ (FinalizeFails /\ pc # "finalPrune")
      <4>1. Gone(Manifests, {})
        BY <1>3, <3>4 DEF FinalPruneManifests, FinalizeFails, At
      <4>2. QED  BY <4>1, Zenon
    <3>5. QED  BY <3>1, <3>2, <3>3, <3>4 DEF RemoveSteps
  <2>2. gone \subseteq Names
    BY <2>1 DEF Stale, Names
  <2>3. ASSUME ReadsCurrent, NEW n \in gone PROVE n \in Own \cup Labelled
    <3>1. n \in Names /\ SeenLabel(n) = Me /\ (n \in Manifests \/ Caught)
      BY <2>1, <2>2, <2>3 DEF Stale, ReadsCurrent
    <3>2. SeenOwner(n) = store[n].owner
      BY <3>1, SeenCurrent
    <3>3. QED  BY <3>1, <3>2 DEF SeenLabel, Own, Labelled
  <2>4. Deleted(gone) = [n \in Names |-> IF n \in gone THEN NoObject ELSE store[n]]
    BY DEF Deleted
  <2>5. ObjectShape' /\ store' = Deleted(gone)
    BY <2>1, <2>4, StoreWrites DEF ObjectShape, NoObject
  <2>6. Removes(gone)
    BY <2>2, <2>4, <2>5 DEF Removes
  <2>7. QED  BY <1>1, <2>2, <2>3, <2>5, <2>6
<1>4. QED  BY <1>2, <1>3

(* The steps that leave ConfigSyncs and objects alone.  They lead into a   *)
(* deletion's labels only within it, and to the apply only past the check. *)
Quiet ==
  /\ UNCHANGED <<cs, store>>
  /\ \A n \in ConfigMaps : seen' = seen \/ seen'[n] \in {seen[n], store[n].owner}
  /\ pc' \in FinalLabels => /\ pc \in FinalLabels /\ job'.sync = Me
                            /\ pc' \in {"finalPruneManifests", "dropFinalizer"} => pc' = pc
  /\ pc' = "patch" => /\ job'.sync = Me /\ job'.spec = job.spec
                      /\ pc = "patch" \/ (pc = "apply" /\ MayApply(job.spec.cm))

LEMMA QuietSteps ==
  ASSUME LoopInv, [Next]_vars,
         ~SyncSteps, ~PlaceSteps, ~RemoveSteps, Operator \/ ~UserSteps
  PROVE  Quiet
<1> USE DEF LoopInv, ShapeInv, IsJob, Me, At, cluster, objects, Continue, Return, Requeue, NoJob,
            NotWired, FinalLabels
<1>1. FetchAndRender => Quiet
  BY DEF FetchAndRender, Quiet
<1>2. CheckConfigMap => Quiet
  BY DEF CheckConfigMap, Quiet
<1>3. ManifestsRejected => Quiet
  BY DEF ManifestsRejected, Quiet
<1>4. ResolveSecrets => Quiet
  BY DEF ResolveSecrets, Quiet
<1>5. Inspect => Quiet
  BY DEF Inspect, Quiet
<1>6. Wire => Quiet
  BY DEF Wire, Quiet
<1>7. WireFails => Quiet
  BY DEF WireFails, Quiet
<1>8. StampNoRestart => Quiet
  BY DEF StampNoRestart, Quiet
<1>9. StampNoRestartFails => Quiet
  BY DEF StampNoRestartFails, Quiet
<1>10. RolloutProgress => Quiet
  BY DEF RolloutProgress, Quiet
<1>11. UpdateStatusFails => Quiet
  BY DEF UpdateStatusFails, Quiet
<1>12. Unwire => Quiet
  BY DEF Unwire, Quiet
<1>13. ClearStamp => Quiet
  BY DEF ClearStamp, Quiet
<1>14. DropFinalizerConflict => Quiet
  BY DEF DropFinalizerConflict, Quiet
<1>15. FetchFails => Quiet
  BY DEF FetchFails, Quiet
<1>16. PatchConfigMapFails => Quiet
  BY DEF PatchConfigMapFails, Quiet
<1>17. \A w \in Workloads : ReplaceWorkload(w) => Quiet
  BY DEF ReplaceWorkload, Quiet, worker
<1>18. \A w \in Workloads : StripStamp(w) => Quiet
  BY DEF StripStamp, Quiet, worker
<1>19. \A w \in Workloads : StripFields(w) => Quiet
  BY DEF StripFields, Quiet, worker
<1>20. \A w \in Workloads : StickRollout(w) => Quiet
  BY DEF StickRollout, Quiet, worker
<1>21. \A w \in Workloads : ResumeRollout(w) => Quiet
  BY DEF ResumeRollout, Quiet, worker
<1>22. \A w \in Workloads : FinishRollout(w) => Quiet
  BY DEF FinishRollout, Quiet, worker
<1>23. \A w \in Workloads : ObserveWorkload(w) => Quiet
  BY DEF ObserveWorkload, Quiet, worker
<1>24. Push => Quiet
  BY DEF Push, Quiet, worker
<1>25. \A r \in Refs : ChangeSecret(r) => Quiet
  BY DEF ChangeSecret, Quiet, worker
<1>26. \A n \in ConfigMaps : ObserveConfigMap(n) => Quiet
  BY DEF ObserveConfigMap, Quiet
<1>27. UNCHANGED vars => Quiet
  BY DEF vars, Quiet
<1>28. QED
  BY <1>1, <1>2, <1>3, <1>4, <1>5, <1>6, <1>7, <1>8, <1>9, <1>10, <1>11, <1>12, <1>13, 
        <1>14, <1>15, <1>16, <1>17, <1>18, <1>19, <1>20, <1>21, <1>22, <1>23, <1>24, 
        <1>25, <1>26, <1>27
     DEF Next, Operator, Faults, Users, Kubernetes, Pipeline, SyncSteps, PlaceSteps, RemoveSteps,
         UserSteps

(* A write to a ConfigSync leaves the objects alone; the finalizer goes    *)
(* only when none of its objects is left.                                  *)
LEMMA SyncStepObjects ==
  ASSUME LoopInv, ObjectInv, SyncSteps
  PROVE  /\ UNCHANGED <<store, seen>>
         /\ \A s \in Syncs : cs[s].fin => cs'[s].fin \/ \A n \in Names : store[n].owner # s
         /\ pc' # "patch" \/ UNCHANGED <<pc, job>>
         /\ pc' \in FinalLabels =>
              /\ cs'[job'.sync].deleting
              /\ pc' \in {"finalPruneManifests", "dropFinalizer"} => UNCHANGED <<pc, job>>
<1> USE DEF LoopInv, ShapeInv, WorkerInv, ObjectInv, FinalLabels, Me, At, cluster, objects
<1>1. ASSUME NEW s \in Syncs, ReconcileGone(s) PROVE UNCHANGED <<cs, store, seen, pc, job>>
  BY <1>1 DEF ReconcileGone
<1>2. ASSUME NEW s \in Syncs, BeginSync(s) \/ BeginFinalize(s)
      PROVE  /\ UNCHANGED <<cs, store, seen>>
             /\ pc' \in {"status", "fetch"} \/ (pc' \in {"finalPrune", "unwire"} /\ job'.sync = s
                                               /\ cs[s].deleting)
  BY <1>2, ZenonT(40) DEF BeginSync, BeginFinalize, NoJob
<1>3. ASSUME NEW s \in Syncs,
             \/ AddFinalizer(s) \/ ClearSyncNow(s)
             \/ CreateSync(s) \/ EditSpec(s) \/ AnnotateSyncNow(s) \/ DeleteSync(s)
      PROVE  /\ UNCHANGED <<store, seen, pc, job>> /\ Wrote(s)
             /\ cs[s].fin => cs'[s].fin
             /\ cs[s].deleting => cs'[s].deleting
  BY <1>3, SyncWrites DEF AddFinalizer, ClearSyncNow, CreateSync, EditSpec, AnnotateSyncNow, DeleteSync,
                          Touch, SamePhase, IsSync
<1>4. ASSUME UpdateStatus
      PROVE  UNCHANGED <<store, seen>> /\ pc' = "idle" /\ Wrote(Me) /\ SamePhase(cs[Me], cs'[Me])
  BY <1>4, SyncWrites DEF UpdateStatus, Requeue, SamePhase
<1>5. ASSUME DropFinalizer
      PROVE  /\ UNCHANGED <<store, seen>> /\ pc' = "idle" /\ Wrote(Me) /\ Me \in Syncs
             /\ \A n \in Names : store[n].owner # Me
  BY <1>5, SyncWrites DEF DropFinalizer, Requeue, FinalInv, Names
<1>6. ASSUME Crash PROVE UNCHANGED <<cs, store, seen>> /\ pc' = "idle"
  BY <1>6 DEF Crash
<1> DEFINE Goal ==
      /\ UNCHANGED <<store, seen>>
      /\ \A s \in Syncs : cs[s].fin => cs'[s].fin \/ \A n \in Names : store[n].owner # s
      /\ pc' # "patch" \/ UNCHANGED <<pc, job>>
      /\ pc' \in FinalLabels =>
           /\ cs'[job'.sync].deleting
           /\ pc' \in {"finalPruneManifests", "dropFinalizer"} => UNCHANGED <<pc, job>>
<1>7. ASSUME NEW s \in Syncs, Reconcile(s) PROVE Goal
  <2>1. CASE ReconcileGone(s)
    BY <1>1, <2>1 DEF FinalInv
  <2>2. CASE BeginSync(s) \/ BeginFinalize(s)
    BY <1>2, <2>2
  <2>3. CASE AddFinalizer(s) \/ ClearSyncNow(s)
    BY <1>3, <2>3 DEF Wrote, FinalInv
  <2>4. QED  BY <1>7, <2>1, <2>2, <2>3 DEF Reconcile
<1>8. ASSUME NEW s \in Syncs,
             CreateSync(s) \/ EditSpec(s) \/ AnnotateSyncNow(s) \/ DeleteSync(s)
      PROVE  Goal
  BY <1>3, <1>8 DEF Wrote, FinalInv
<1>9. CASE UpdateStatus
  BY <1>4, <1>9 DEF Wrote, SamePhase
<1>10. CASE DropFinalizer
  BY <1>5, <1>10 DEF Wrote
<1>11. QED
  BY <1>6, <1>7, <1>8, <1>9, <1>10 DEF SyncSteps

LEMMA ObjectInit == ASSUME Init PROVE ObjectInv /\ PatchInv
BY ConstantsAssumption
DEF Init, ObjectInv, ObjectShape, ObjectsGuarded, FinalInv, FinalLabels, PatchInv, NoObject, Names,
    ConstantsAssumption

LEMMA UserWrites ==
  ASSUME ObjectShape, NEW n \in Names, CreateForeign(n) \/ DeleteObject(n)
  PROVE  /\ ObjectShape' /\ UNCHANGED <<cs, pc, job>>
         /\ \E x \in {User, None} :
              /\ store'[n].owner = x
              /\ store' = [store EXCEPT ![n] = store'[n]]
              /\ x = User => store[n].owner = None /\ CreateForeign(n)
<1>1. UNCHANGED <<cs, pc, job>>
  BY DEF CreateForeign, DeleteObject, worker
<1>2. CASE CreateForeign(n)
  <2> DEFINE y == [owner |-> User, data |-> None]
  <2>1. WriteStore([store EXCEPT ![n] = y]) /\ store[n].owner = None
    BY <1>2 DEF CreateForeign, NoObject
  <2>2. ObjectShape' /\ store' = [store EXCEPT ![n] = y]
    BY <2>1, StoreWrites DEF ObjectShape
  <2>3. store'[n] = y /\ y.owner = User
    BY <2>2 DEF ObjectShape
  <2>4. QED  BY <1>1, <1>2, <2>1, <2>2, <2>3
<1>3. CASE DeleteObject(n)
  <2>1. WriteStore([store EXCEPT ![n] = NoObject])
    BY <1>3 DEF DeleteObject
  <2>2. ObjectShape' /\ store' = [store EXCEPT ![n] = NoObject]
    BY <2>1, StoreWrites DEF ObjectShape, NoObject
  <2>3. store'[n] = NoObject /\ NoObject.owner = None
    BY <2>2 DEF ObjectShape, NoObject
  <2>4. None # User
    BY ConstantsAssumption DEF ConstantsAssumption
  <2>5. QED  BY <1>1, <2>2, <2>3, <2>4
<1>4. QED  BY <1>2, <1>3

LEMMA ObjectStep ==
  ASSUME LoopInv, ObjectInv, FinalListCurrent, [Next]_vars
  PROVE  ObjectInv'
<1> USE DEF ObjectInv, LoopInv, WorkerInv, Me
<1>1. CASE SyncSteps
  <2>1. /\ UNCHANGED <<store, seen>>
        /\ \A s \in Syncs : cs[s].fin => cs'[s].fin \/ \A n \in Names : store[n].owner # s
        /\ pc' \in FinalLabels =>
             /\ cs'[job'.sync].deleting
             /\ pc' \in {"finalPruneManifests", "dropFinalizer"} => UNCHANGED <<pc, job>>
    BY <1>1, SyncStepObjects
  <2>2. ObjectShape' /\ ObjectsGuarded'
    BY <2>1 DEF ObjectShape, ObjectsGuarded
  <2>3. FinalInv'
    BY <2>1 DEF FinalInv, FinalLabels
  <2>4. QED  BY <2>2, <2>3
<1>2. CASE PlaceSteps
  <2>1. PICK N \in SUBSET Names : Places(N)
    BY <1>2, Placing
  <2>2. ObjectShape' /\ pc' \notin FinalLabels /\ pc # "idle" /\ UNCHANGED cs
    BY <1>2, Placing
  <2>3. ObjectsGuarded'
    BY <2>1, <2>2 DEF Places, Rendered, ObjectsGuarded
  <2>4. QED  BY <2>2, <2>3 DEF FinalInv, FinalLabels
<1>3. CASE RemoveSteps
  <2>1. PICK N \in SUBSET Names : Removes(N)
    BY <1>3, Removing
  <2>2. ObjectShape' /\ UNCHANGED cs /\ pc # "idle"
    BY <1>3, Removing
  <2>3. ObjectsGuarded' /\ \A n \in Names : store[n].owner # Me => store'[n].owner # Me
    BY <2>1, <2>2, ConstantsAssumption
    DEF Removes, NoObject, ObjectsGuarded, ConstantsAssumption
  <2>4. FinalInv'
    <3>1. CASE FinalPrune
      <4>1. /\ pc' = "finalPruneManifests" /\ job'.sync = Me /\ pc = "finalPrune"
            /\ store' = Deleted(Stale(ConfigMaps, {}))
        BY <1>3, <3>1 DEF FinalPrune, Continue, At, ShapeInv, IsJob, WriteStore
      <4>2. \A n \in ConfigMaps : SeenOwner(n) = store[n].owner
        BY <4>1, SeenCurrent DEF FinalListCurrent, Names
      <4>3. User \notin Syncs /\ None \notin Syncs /\ Me \in Syncs
        BY <2>2, ConstantsAssumption DEF ConstantsAssumption
      <4>4. \A n \in ConfigMaps : store'[n].owner # Me
        BY <4>1, <4>2, <4>3 DEF Deleted, Stale, SeenLabel, NoObject, Names
      <4>5. QED  BY <2>2, <4>1, <4>4 DEF FinalInv, FinalLabels
    <3>2. CASE FinalPruneManifests
      <4>1. /\ pc' = "dropFinalizer" /\ job'.sync = Me /\ pc = "finalPruneManifests"
            /\ store' = Deleted(Stale(Manifests, {}))
        BY <1>3, <3>2 DEF FinalPruneManifests, Continue, At, ShapeInv, IsJob, WriteStore
      <4>2. \A n \in Manifests : SeenOwner(n) = store[n].owner
        BY SeenCurrent DEF Names
      <4>3. User \notin Syncs /\ None \notin Syncs /\ Me \in Syncs
        BY <2>2, ConstantsAssumption DEF ConstantsAssumption
      <4>4. \A n \in Manifests : store'[n].owner # Me
        BY <4>1, <4>2, <4>3 DEF Deleted, Stale, SeenLabel, NoObject, Names
      <4>5. QED  BY <2>2, <2>3, <4>1, <4>4 DEF FinalInv, FinalLabels, Names
    <3>3. CASE ~FinalPrune /\ ~FinalPruneManifests
      <4>1. pc' \notin FinalLabels
        BY <1>3, <3>3 DEF RemoveSteps, PruneConfigMaps, PruneConfigMapsFails, PruneManifests,
                          PruneManifestsFails, FinalizeFails, Continue, Return, Requeue, FinalLabels
      <4>2. QED  BY <4>1 DEF FinalInv, FinalLabels
    <3>4. QED  BY <3>1, <3>2, <3>3
  <2>5. QED  BY <2>2, <2>3, <2>4
<1>4. CASE UserSteps
  <2>1. PICK n \in Names : CreateForeign(n) \/ DeleteObject(n)
    BY <1>4 DEF UserSteps
  <2>2. ObjectShape' /\ UNCHANGED <<cs, pc, job>>
    BY <2>1, UserWrites
  <2>3. PICK x \in {User, None} :
          store'[n].owner = x /\ store' = [store EXCEPT ![n] = store'[n]]
    BY <2>1, UserWrites
  <2>4. x \notin Syncs /\ \A m \in Names \ {n} : store'[m] = store[m]
    BY <2>3, ConstantsAssumption DEF ConstantsAssumption, ObjectShape
  <2>5. ObjectsGuarded'
    BY <2>2, <2>3, <2>4 DEF ObjectsGuarded
  <2>6. FinalInv'
    BY <2>2, <2>3, <2>4 DEF FinalInv, FinalLabels, Names
  <2>7. QED  BY <2>2, <2>5, <2>6
<1>5. CASE Quiet
  BY <1>5 DEF Quiet, ObjectShape, ObjectsGuarded, FinalInv, FinalLabels
<1>6. QED  BY <1>1, <1>2, <1>3, <1>4, <1>5, QuietSteps

(* Objects are covered by a finalizer, and finalize has already removed    *)
(* what the labels behind it say, when the list of ConfigMaps that         *)
(* finalize prunes by is current.                                          *)
THEOREM ObjectInvariance == Spec /\ []FinalListCurrent => []ObjectInv
<1>1. QED  BY ObjectInit, ObjectStep, LoopInvariance, PTL DEF Spec

(* Every object of a sync is covered by its finalizer, whichever call of a *)
(* deletion failed and wherever the operator was restarted, when the list  *)
(* of ConfigMaps that finalize prunes by is current.                       *)
THEOREM ObjectsCovered == Spec /\ []FinalListCurrent => []ObjectsGuarded
<1>1. ObjectInv => ObjectsGuarded
  BY DEF ObjectInv
<1>2. QED  BY <1>1, ObjectInvariance, PTL

LEMMA CaughtStep ==
  ASSUME LoopInv, ObjectInv, Caught, "configMap" \notin Lag, [Next]_vars
  PROVE  Caught'
<1>1. ASSUME NEW new, WriteStore(new) PROVE Caught'
  BY <1>1 DEF WriteStore, Caught
<1>2. CASE UNCHANGED <<store, seen>>
  BY <1>2 DEF Caught
<1>3. CASE PlaceSteps
  BY <1>1, <1>3 DEF PlaceSteps, PatchConfigMap, ApplyManifests, ApplyManifestsFails
<1>4. CASE RemoveSteps
  BY <1>1, <1>2, <1>4
  DEF RemoveSteps, PruneConfigMaps, PruneConfigMapsFails, PruneManifests, PruneManifestsFails,
      FinalPrune, FinalPruneManifests, FinalizeFails, objects
<1>5. CASE UserSteps
  BY <1>1, <1>5 DEF UserSteps, CreateForeign, DeleteObject
<1>6. CASE SyncSteps
  BY <1>2, <1>6, SyncStepObjects
<1>7. CASE Quiet
  BY <1>7 DEF Quiet, Caught
<1>8. QED  BY <1>3, <1>4, <1>5, <1>6, <1>7, QuietSteps

(* Without a lagging cache of ConfigMaps every read is current.            *)
THEOREM NoLagReads ==
  ASSUME "configMap" \notin Lag
  PROVE  Spec => [](ObjectInv /\ Caught)
<1>1. Init => Caught
  BY DEF Init, Caught
<1>2. Caught => FinalListCurrent
  BY DEF FinalListCurrent
<1>3. QED
  BY <1>1, <1>2, ObjectInit, ObjectStep, CaughtStep, LoopInvariance, PTL DEF Spec

------------------------------------------------------------------------------
(* No user creates the ConfigMap of a reconcile between its ownership      *)
(* check and its apply, two calls of which only the first looks.           *)
NoRace == [][~(pc = "patch" /\ CreateForeign(job.spec.cm))]_vars

LEMMA PatchStep ==
  ASSUME LoopInv, ObjectInv, PatchInv, ReadsCurrent, [Next]_vars,
         [~(pc = "patch" /\ CreateForeign(job.spec.cm))]_vars
  PROVE  PatchInv'
<1> USE DEF ObjectInv, LoopInv, WorkerInv, Me
<1>1. CASE SyncSteps
  BY <1>1, SyncStepObjects DEF PatchInv
<1>2. CASE PlaceSteps
  BY <1>2, Placing DEF PatchInv
<1>3. CASE RemoveSteps
  BY <1>3, Removing DEF PatchInv
<1>4. CASE UserSteps
  <2>1. PICK n \in Names : CreateForeign(n) \/ DeleteObject(n)
    BY <1>4 DEF UserSteps
  <2>2. /\ UNCHANGED <<pc, job>> /\ store' = [store EXCEPT ![n] = store'[n]]
        /\ store'[n].owner = None \/ CreateForeign(n)
    BY <2>1, UserWrites
  <2>3. CASE store'[n].owner = None
    BY <2>2, <2>3 DEF PatchInv, ObjectShape
  <2>4. CASE CreateForeign(n) /\ store' # store
    <3>1. pc = "patch" => n # job.spec.cm
      BY <2>4 DEF vars
    <3>2. QED  BY <2>2, <3>1 DEF PatchInv, ObjectShape
  <2>5. CASE store' = store
    BY <2>2, <2>5 DEF PatchInv
  <2>6. QED  BY <2>2, <2>3, <2>4, <2>5
<1>5. CASE Quiet
  <2>1. CASE pc = "apply" /\ pc' = "patch" /\ job.spec.cm \in Names
    <3>1. SeenOwner(job.spec.cm) = store[job.spec.cm].owner
      BY <2>1, SeenCurrent DEF ReadsCurrent
    <3>2. QED  BY <1>5, <2>1, <3>1 DEF Quiet, PatchInv, MayApply, OwnedBy
  <2>2. CASE ~(pc = "apply" /\ pc' = "patch" /\ job.spec.cm \in Names)
    BY <1>5, <2>2 DEF Quiet, PatchInv
  <2>3. QED  BY <2>1, <2>2
<1>6. QED  BY <1>1, <1>2, <1>3, <1>4, <1>5, QuietSteps

LEMMA CurrentFinalList == ReadsCurrent => FinalListCurrent
BY DEF ReadsCurrent, FinalListCurrent

(* Between the ownership check and the apply the ConfigMap's name stays    *)
(* the sync's to write, unless a user creates it just there.               *)
THEOREM PatchInvariance == Spec /\ []ReadsCurrent /\ NoRace => []PatchInv
<1>1. QED
  BY ObjectInit, PatchStep, LoopInvariance, ObjectInvariance, CurrentFinalList, PTL
  DEF Spec, NoRace

(* A user's object, whenever it was created, is never taken over nor       *)
(* overwritten, and it is deleted only when it carries the labels of the   *)
(* sync.  Excluded are exactly the two races of the code: a creation of    *)
(* the reconcile's own ConfigMap between check and apply, and a cache that *)
(* has not caught up when the worker checks or lists ConfigMaps.           *)
THEOREM NeverAdopts == Spec /\ []ReadsCurrent /\ NoRace => NoAdoption
<1>1. ASSUME LoopInv, ObjectInv, PatchInv, ReadsCurrent, [Next]_vars
      PROVE  [\A n \in Names : Operator /\ store[n].owner = User =>
                 \/ store'[n] = store[n]
                 \/ store'[n] = NoObject /\ LabelOf[n] = Me]_vars
  <2> USE DEF ObjectInv, LoopInv, WorkerInv, Me
  <2> SUFFICES ASSUME NEW n \in Names, Operator, store[n].owner = User
               PROVE  \/ store'[n] = store[n]
                      \/ store'[n] = NoObject /\ LabelOf[n] = Me
    OBVIOUS
  <2>1. User \notin Syncs /\ User # None
    BY ConstantsAssumption DEF ConstantsAssumption
  <2>2. CASE SyncSteps
    BY <1>1, <2>2, SyncStepObjects
  <2>3. CASE PlaceSteps
    <3>1. PICK N \in SUBSET Names : Places(N) /\ N \subseteq Own \cup Vacant
      BY <1>1, <2>3, Placing
    <3>2. QED  BY <1>1, <2>1, <2>3, <3>1, Placing DEF Places, Own, Vacant
  <2>4. CASE RemoveSteps
    <3>1. PICK N \in SUBSET Names : Removes(N) /\ N \subseteq Own \cup Labelled
      BY <1>1, <2>4, Removing
    <3>2. Me \in Syncs
      BY <1>1, <2>4, Removing
    <3>3. QED  BY <2>1, <3>1, <3>2 DEF Removes, Own, Labelled
  <2>5. CASE Quiet
    BY <2>5 DEF Quiet
  <2>6. QED  BY <1>1, <2>2, <2>3, <2>4, <2>5, QuietSteps
<1>2. QED
  BY <1>1, LoopInvariance, ObjectInvariance, PatchInvariance, CurrentFinalList, PTL
  DEF Spec, NoAdoption

------------------------------------------------------------------------------
(* The refinement of Lifecycle.                                            *)
phases == [s \in Syncs |-> Phase(cs[s])]
owners == [n \in Names |-> store[n].owner]

LEMMA LifecycleInit == ASSUME Init PROVE L!Init
BY DEF Init, L!Init, Phase, Absent, NoObject

LEMMA PhaseOf ==
  ASSUME NEW x, IsSync(x)
  PROVE  /\ ~x.live => Phase(x) = "absent"
         /\ x.live /\ ~x.fin => Phase(x) = "declared"
         /\ x.live /\ x.fin /\ ~x.deleting => Phase(x) = "guarded"
         /\ x.live /\ x.fin /\ x.deleting => Phase(x) = "leaving"
BY DEF Phase, IsSync

LEMMA PhaseWrite ==
  ASSUME ShapeInv, NEW s \in Syncs, Wrote(s)
  PROVE  phases' = [phases EXCEPT ![s] = Phase(cs'[s])]
BY DEF Wrote, phases, ShapeInv

LEMMA SyncStepLifecycle ==
  ASSUME LoopInv, ObjectInv, SyncSteps
  PROVE  L!Next \/ UNCHANGED <<phases, owners>>
<1> USE DEF LoopInv, ShapeInv, WorkerInv, ObjectInv, Me
<1>1. UNCHANGED <<store, owners>>
  BY SyncStepObjects DEF owners
<1>2. ASSUME NEW s \in Syncs, ReconcileGone(s) \/ BeginSync(s) \/ BeginFinalize(s)
      PROVE  UNCHANGED <<phases, owners>>
  BY <1>1, <1>2 DEF ReconcileGone, BeginSync, BeginFinalize, cluster, phases
<1>3. ASSUME NEW s \in Syncs, Wrote(s), SamePhase(cs[s], cs'[s])
      PROVE  UNCHANGED <<phases, owners>>
  <2>1. Phase(cs'[s]) = Phase(cs[s])
    BY <1>3, PhaseOf DEF SamePhase, Wrote, IsSync
  <2>2. QED  BY <1>1, <1>3, <2>1, PhaseWrite DEF phases
<1>4. ASSUME NEW s \in Syncs, AddFinalizer(s) PROVE L!Guard(s)
  <2>1. Wrote(s) /\ Phase(cs[s]) = "declared" /\ Phase(cs'[s]) = "guarded"
    BY <1>4, SyncWrites, PhaseOf DEF AddFinalizer, Wrote
  <2>2. QED  BY <1>1, <2>1, PhaseWrite DEF L!Guard, L!To, phases, owners
<1>5. ASSUME NEW s \in Syncs, CreateSync(s) PROVE L!Declare(s)
  <2>1. Wrote(s) /\ Phase(cs[s]) = "absent" /\ Phase(cs'[s]) = "declared"
    BY <1>5, SyncWrites, PhaseOf DEF Wrote
  <2>2. QED  BY <1>1, <2>1, PhaseWrite DEF L!Declare, L!To, phases, owners
<1>6. ASSUME NEW s \in Syncs, DeleteSync(s) PROVE L!Leave(s) \/ L!Withdraw(s)
  <2>1. CASE cs[s].fin
    <3>1. Wrote(s) /\ Phase(cs[s]) = "guarded" /\ Phase(cs'[s]) = "leaving"
      BY <1>6, <2>1, SyncWrites, PhaseOf DEF DeleteSync, Wrote
    <3>2. QED  BY <1>1, <3>1, PhaseWrite DEF L!Leave, L!To, phases, owners
  <2>2. CASE ~cs[s].fin
    <3>1. Wrote(s) /\ Phase(cs[s]) = "declared" /\ Phase(cs'[s]) = "absent"
      BY <1>6, <2>2, SyncWrites, PhaseOf DEF DeleteSync, Wrote
    <3>2. QED  BY <1>1, <3>1, PhaseWrite DEF L!Withdraw, L!To, phases, owners
  <2>3. QED  BY <2>1, <2>2 DEF IsSync
<1>7. ASSUME DropFinalizer PROVE Me \in Syncs /\ L!Finish(Me)
  <2>1. Me \in Syncs /\ cs[Me].live /\ cs[Me].fin /\ cs[Me].deleting
    BY <1>7 DEF DropFinalizer, At, FinalInv, FinalLabels
  <2>2. Wrote(Me) /\ Phase(cs[Me]) = "leaving" /\ Phase(cs'[Me]) = "absent"
    BY <1>7, <2>1, SyncWrites, PhaseOf DEF Wrote
  <2>3. L!Placed(Me) = {}
    BY <1>7 DEF DropFinalizer, At, FinalInv, L!Placed, Names
  <2>4. QED  BY <1>1, <2>1, <2>2, <2>3, PhaseWrite DEF L!Finish, L!To, phases, owners
<1>8. ASSUME Crash PROVE UNCHANGED <<phases, owners>>
  BY <1>1, <1>8 DEF Crash, cluster, phases
<1>9. ASSUME NEW s \in Syncs, ClearSyncNow(s) \/ EditSpec(s) \/ AnnotateSyncNow(s)
      PROVE  UNCHANGED <<phases, owners>>
  BY <1>3, <1>9, SyncWrites
<1>10. ASSUME UpdateStatus PROVE UNCHANGED <<phases, owners>>
  BY <1>3, <1>10, SyncWrites DEF UpdateStatus, At
<1>11. QED
  BY <1>2, <1>4, <1>5, <1>6, <1>7, <1>8, <1>9, <1>10 DEF SyncSteps, Reconcile, L!Next, L!Step

(* No user labels objects as Kohen's.                                      *)
Unlabeled == \A n \in Names : LabelOf[n] \notin Syncs

LEMMA ObjectStepLifecycle ==
  ASSUME LoopInv, ObjectInv, PatchInv, ReadsCurrent, Unlabeled,
         PlaceSteps \/ RemoveSteps \/ UserSteps
  PROVE  L!Next
<1> USE DEF LoopInv, ShapeInv, WorkerInv, ObjectInv, Me
<1>1. ASSUME pc # "idle"
      PROVE  Me \in Syncs /\ phases[Me] \in {"guarded", "leaving"}
  BY <1>1, PhaseOf DEF phases, IsSync
<1>2. CASE PlaceSteps
  <2>1. PICK N \in SUBSET Names : Places(N) /\ N \subseteq Own \cup Vacant
    BY <1>2, Placing
  <2>2. UNCHANGED phases /\ pc # "idle"
    BY <1>2, Placing DEF phases
  <2>3. owners' = [n \in Names |-> IF n \in N THEN Me ELSE owners[n]]
    BY <2>1 DEF Places, Rendered, owners
  <2>4. N \in SUBSET (L!Free \cup L!Placed(Me))
    BY <2>1 DEF L!Free, L!Placed, Own, Vacant
  <2>5. \E s \in Syncs : L!Place(s)
    <3>1. \E Z \in SUBSET (L!Free \cup L!Placed(Me)) :
             owners' = [n \in Names |-> IF n \in Z THEN Me ELSE owners[n]]
      BY <2>3, <2>4, Zenon
    <3>2. phases[Me] \in {"guarded", "leaving"} /\ UNCHANGED phases
      BY <1>1, <2>2, Zenon
    <3>3. QED  BY <3>1, <3>2, <1>1, <2>2, Zenon DEF L!Place, phases, owners
  <2>6. QED  BY <2>5 DEF L!Next, L!Step
<1>3. CASE RemoveSteps
  <2>1. PICK N \in SUBSET Names : Removes(N) /\ N \subseteq Own \cup Labelled
    BY <1>3, Removing
  <2>2. UNCHANGED phases /\ pc # "idle"
    BY <1>3, Removing DEF phases
  <2>3. owners' = [n \in Names |-> IF n \in N THEN None ELSE owners[n]]
    BY <2>1 DEF Removes, NoObject, owners
  <2>4. N \in SUBSET L!Placed(Me)
    BY <1>1, <2>1, <2>2 DEF L!Placed, Own, Labelled, Unlabeled
  <2>5. \E s \in Syncs : L!Remove(s)
    <3>1. \E Z \in SUBSET L!Placed(Me) :
             owners' = [n \in Names |-> IF n \in Z THEN None ELSE owners[n]]
      BY <2>3, <2>4, Zenon
    <3>2. phases[Me] \in {"guarded", "leaving"} /\ UNCHANGED phases
      BY <1>1, <2>2, Zenon
    <3>3. QED  BY <3>1, <3>2, <1>1, <2>2, Zenon DEF L!Remove, phases, owners
  <2>6. QED  BY <2>5 DEF L!Next, L!Step
<1>4. CASE UserSteps
  <2>1. PICK n \in Names : CreateForeign(n) \/ DeleteObject(n)
    BY <1>4 DEF UserSteps
  <2>2. PICK x \in {User, None} :
          /\ store'[n].owner = x /\ store' = [store EXCEPT ![n] = store'[n]]
          /\ x = User => store[n].owner = None
    BY <2>1, UserWrites
  <2>3. UNCHANGED phases
    BY <2>1, UserWrites DEF phases
  <2>4. owners' = [owners EXCEPT ![n] = x]
    BY <2>2 DEF owners, ObjectShape
  <2>5. L!Create(n) \/ L!Delete(n)
    BY <2>2, <2>3, <2>4 DEF L!Create, L!Delete, phases, owners
  <2>6. QED  BY <2>5 DEF L!Next
<1>5. QED  BY <1>2, <1>3, <1>4

(* The reconcile loop implements the life cycle of a ConfigSync, outside   *)
(* of the two races and when users do not use Kohen's labels.              *)
THEOREM LifecycleKept ==
  ASSUME Unlabeled
  PROVE  Spec /\ []ReadsCurrent /\ NoRace => KeepsLifecycle
<1>1. ASSUME LoopInv, ObjectInv, PatchInv, ReadsCurrent, [Next]_vars
      PROVE  L!Next \/ UNCHANGED <<phases, owners>>
  <2>1. ASSUME Quiet PROVE UNCHANGED <<phases, owners>>
    BY <2>1 DEF Quiet, phases, owners
  <2>2. QED  BY <1>1, <2>1, SyncStepLifecycle, ObjectStepLifecycle, QuietSteps
<1>2. QED
  BY <1>1, LifecycleInit, LoopInvariance, ObjectInvariance, PatchInvariance, CurrentFinalList, PTL
  DEF Spec, KeepsLifecycle, L!Spec, phases, owners
==============================================================================
