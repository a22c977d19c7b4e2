---------------------------- MODULE WorkloadProofs ----------------------------
(***************************************************************************)
(* Proofs about what the reconcile loop does to the workloads, for any     *)
(* number of ConfigSyncs and workloads: types, who writes a workload, what *)
(* a version stamp stands for and what is covered by a finalizer.          *)
(***************************************************************************)
EXTENDS ConfigSyncProofs

SyncType ==
  [live : BOOLEAN, deleting : BOOLEAN, fin : BOOLEAN, syncNow : BOOLEAN, born : Nat,
   spec : Specs \cup {None}, status : StatusType]

WorkloadType ==
  [exists : BOOLEAN, tmpl : TemplateType, objStamp : Versions \cup {None},
   rollout : {"rolling", "done", "stuck"}, by : Syncs \cup {None}]

(* The labels between the fetch and the status write: the commit is known. *)
Fetched == {"apply", "patch", "prune", "manifests", "pruneManifests", "resolve", "inspect",
            "wire", "objectStamp", "progress"}

SyncsTyped ==
  /\ cs \in [Syncs -> SyncType]
  /\ \A s \in Syncs : cs[s].live => cs[s].spec \in Specs

WorkloadsTyped == wl \in [Workloads -> WorkloadType] /\ wlc \in [Workloads -> WorkloadType]

WorkerTyped ==
  /\ pc \in Labels /\ dirty \in BOOLEAN
  /\ job.st \in StatusType /\ job.commit \in Commits \cup {None}
  /\ pc # "idle" => job.spec \in Specs
  /\ pc \in Fetched => job.commit \in Commits

StoreTyped ==
  /\ store = [n \in Names |-> store[n]]
  /\ \A n \in Names : store[n].owner \in Syncs \cup {User, None}
  /\ seen \in [ConfigMaps -> Syncs \cup {User, None}]

RestTyped ==
  /\ head \in Commits /\ secret \in [Refs -> Tokens]
  /\ moves \in 0 .. MaxMoves /\ wired \in [Syncs -> SUBSET Refs]

(* Creation timestamps have a maximum, also with infinitely many names.    *)
BirthInv == Syncs # {} => \E t \in Births : \A u \in Births : u <= t

TypeInv == SyncsTyped /\ WorkloadsTyped /\ WorkerTyped /\ StoreTyped /\ RestTyped /\ BirthInv

------------------------------------------------------------------------------
LEMMA TypesOK == LoopInv /\ TypeInv => TypeOK
<1> SUFFICES ASSUME LoopInv, TypeInv PROVE TypeOK
  OBVIOUS
<1> USE DEF LoopInv, TypeInv
<1>1. \A s \in Syncs :
       /\ cs[s].live \in BOOLEAN /\ cs[s].deleting \in BOOLEAN
       /\ cs[s].fin \in BOOLEAN /\ cs[s].syncNow \in BOOLEAN /\ cs[s].born \in Nat
       /\ cs[s].spec \in Specs \cup {None} /\ cs[s].status \in StatusType
       /\ cs[s].live => cs[s].spec \in Specs
  BY DEF SyncsTyped, SyncType
<1>2. \A x \in {wl[w] : w \in Workloads} \cup {wlc[w] : w \in Workloads} :
       /\ x.exists \in BOOLEAN /\ x.tmpl \in TemplateType
       /\ x.objStamp \in Versions \cup {None}
       /\ x.rollout \in {"rolling", "done", "stuck"} /\ x.by \in Syncs \cup {None}
  BY DEF WorkloadsTyped, WorkloadType
<1> QED
  BY <1>1, <1>2
  DEF TypeOK, StoreTyped, RestTyped, WorkerTyped, WorkerInv, ShapeInv

(* The helpers on statuses.                                                *)
LEMMA StatusOps ==
  ASSUME NEW st \in StatusType
  PROVE  /\ \A c \in Conditions : SetTrue(st, c) \in StatusType
         /\ \A c \in Conditions : SetFalse(st, c) \in StatusType
         /\ \A reason \in Readies : NotReady(st, reason) \in StatusType
BY DEF StatusType, SetTrue, SetFalse, NotReady

LEMMA StatusFields ==
  ASSUME NEW st \in StatusType
  PROVE  /\ \A sp \in Specs : [st EXCEPT !.observed = sp] \in StatusType
         /\ \A v \in Versions : [st EXCEPT !.version = v] \in StatusType
         /\ \A e \in SUBSET Refs : [st EXCEPT !.est = e] \in StatusType
         /\ \A c \in Completes : [st EXCEPT !.complete = c] \in StatusType
         /\ \A c \in Completes, v \in Versions \cup {None} :
              [st EXCEPT !.complete = c, !.workloadVersion = v] \in StatusType
BY DEF StatusType

LEMMA WiredStatus ==
  ASSUME NEW st \in StatusType, job.spec \in Specs
  PROVE  Wired(st) \in StatusType
<1>1. ComputeReady(st.conds, st.complete) \in Readies
  BY DEF ComputeReady, Readies
<1>2. PICK e \in SUBSET Refs, r \in Readies : Wired(st) = [st EXCEPT !.est = e, !.ready = r]
  BY <1>1, ConstantsAssumption DEF Wired, StatusType, ConstantsAssumption
<1> QED  BY <1>2 DEF StatusType

LEMMA NoStatusTyped == NoStatus \in StatusType /\ Absent \in SyncType
<1>1. NoStatus \in StatusType
  BY DEF NoStatus, StatusType, Readies, Completes
<1> QED  BY <1>1 DEF Absent, SyncType

LEMMA FreshTyped ==
  /\ Fresh \in WorkloadType /\ Fresh.tmpl = Unwired /\ Fresh.by = None
  /\ NoWorkload \in WorkloadType /\ NoWorkload.tmpl = Unwired /\ NoWorkload.by = None
<1>1. Unwired \in TemplateType
  BY DEF Unwired, TemplateType
<1>2. Fresh \in WorkloadType /\ Fresh.tmpl = Unwired /\ Fresh.by = None
  BY <1>1 DEF Fresh, WorkloadType
<1>3. NoWorkload \in WorkloadType /\ NoWorkload.tmpl = Fresh.tmpl /\ NoWorkload.by = Fresh.by
  BY <1>2 DEF NoWorkload, WorkloadType
<1> QED  BY <1>2, <1>3

LEMMA TypeInit == ASSUME Init PROVE TypeInv
<1> USE DEF Init
<1>1. SyncsTyped
  BY NoStatusTyped DEF SyncsTyped, Absent
<1>2. WorkloadsTyped
  BY FreshTyped DEF WorkloadsTyped
<1>3. WorkerTyped
  BY NoStatusTyped DEF WorkerTyped, NoJob, Labels, Fetched
<1>4. StoreTyped
  <2>1. \A n \in Names : store[n].owner \in Syncs \cup {User, None}
    BY DEF NoObject
  <2>2. store = [n \in Names |-> store[n]]
    OBVIOUS
  <2> QED  BY <2>1, <2>2 DEF StoreTyped, Names
<1>5. RestTyped
  BY ConstantsAssumption DEF RestTyped, Tokens, ConstantsAssumption
<1>6. BirthInv
  <2> SUFFICES ASSUME NEW s \in Syncs PROVE \E t \in Births : \A u \in Births : u <= t
    BY DEF BirthInv
  <2>1. \A o \in Syncs : cs[o].born = 0
    BY DEF Absent
  <2> QED  BY <2>1 DEF Births
<1> QED  BY <1>1, <1>2, <1>3, <1>4, <1>5, <1>6 DEF TypeInv

------------------------------------------------------------------------------
LEMMA Continues ==
  ASSUME WorkerTyped, IsJob(job), pc # "idle", NEW label \in Labels, NEW st \in StatusType,
         Continue(label, st), label \in Fetched => job.commit \in Commits
  PROVE  WorkerTyped' /\ job'.st = st
<1>1. job' = [sync |-> job.sync, spec |-> job.spec, st |-> st, commit |-> job.commit,
              tok |-> job.tok]
  BY DEF IsJob, Continue
<1> QED  BY <1>1 DEF WorkerTyped, Continue

LEMMA Ends ==
  ASSUME pc' = "idle", job' = NoJob, dirty' = FALSE
  PROVE  WorkerTyped'
BY NoStatusTyped DEF WorkerTyped, NoJob, Labels, Fetched

LEMMA Stays == ASSUME WorkerTyped, UNCHANGED <<pc, job, dirty>> PROVE WorkerTyped'
BY DEF WorkerTyped

(* BeginSync and BeginFinalize.                                            *)
LEMMA Begins ==
  ASSUME LoopInv, TypeInv, NEW s \in Syncs, BeginSync(s) \/ BeginFinalize(s)
  PROVE  WorkerTyped' /\ job'.sync = s /\ job'.spec = cs[s].spec
<1> USE DEF LoopInv, TypeInv
<1>1. cs[s].spec \in Specs /\ cs[s].status \in StatusType
  BY DEF BeginSync, BeginFinalize, SyncsTyped, SyncType
<1>2. CASE BeginSync(s)
  <2> DEFINE st == [cs[s].status EXCEPT !.observed = cs[s].spec]
  <2>1. st \in StatusType
    BY <1>1, StatusFields
  <2>2. NotReady(SetFalse(st, "WorkloadWired"), "Degraded") \in StatusType
    BY <2>1, StatusOps DEF Conditions, Gates, Readies
  <2>3. PICK new \in StatusType, conflict \in BOOLEAN :
          /\ job' = [[NoJob EXCEPT !.sync = s, !.spec = cs[s].spec] EXCEPT !.st = new]
          /\ pc' = IF conflict THEN "status" ELSE "fetch"
    BY <1>2, <2>1, <2>2 DEF BeginSync
  <2>4. job' = [sync |-> s, spec |-> cs[s].spec, st |-> new, commit |-> None, tok |-> None]
    BY <2>3 DEF NoJob
  <2>5. dirty' = FALSE /\ pc' \in {"status", "fetch"}
    BY <1>2, <2>3 DEF BeginSync
  <2> QED  BY <1>1, <2>4, <2>5 DEF WorkerTyped, Labels, Fetched
<1>3. CASE BeginFinalize(s)
  <2>1. job' = [sync |-> s, spec |-> cs[s].spec, st |-> NoStatus, commit |-> None, tok |-> None]
    BY <1>3 DEF BeginFinalize, NoJob
  <2>2. pc' \in {"finalPrune", "unwire"} /\ dirty' = FALSE
    BY <1>3 DEF BeginFinalize
  <2> QED  BY <1>1, <2>1, <2>2, NoStatusTyped DEF WorkerTyped, Labels, Fetched
<1> QED  BY <1>2, <1>3

LEMMA VersionsHold ==
  ASSUME NEW c \in Commits, NEW E \in SUBSET EnvRefs, NEW f \in [E -> Tokens]
  PROVE  VersionWithSecrets(c, f) \in Versions
<1>1. f \in UNION {[D -> Tokens] : D \in SUBSET EnvRefs}
  OBVIOUS
<1>2. VersionWithSecrets(c, f) \in {VersionWithSecrets(d, f) : d \in Commits}
  OBVIOUS
<1> QED  BY <1>1, <1>2 DEF Versions

LEMMA ResolveTypes ==
  ASSUME LoopInv, TypeInv, ResolveSecrets
  PROVE  WorkerTyped'
<1> USE DEF LoopInv, TypeInv
<1> DEFINE refs == job.spec.refs
           tok == [r \in refs |-> secret[r]]
           ready == {r \in refs : tok[r] > 0}
           est == job.st.est \cap refs
           d == Evaluate(refs, ready, est, 0, 0)
           st == [job.st EXCEPT !.est = est]
<1>0. pc = "resolve" /\ job.spec \in Specs /\ job.commit \in Commits /\ refs \subseteq Refs
  BY ConstantsAssumption DEF ResolveSecrets, At, WorkerTyped, Fetched, ConstantsAssumption
<1>1. st \in StatusType
  BY <1>0, StatusFields DEF WorkerTyped
<1>2. EnvTokens(refs, tok) \in [EnvRefs \cap refs -> Tokens]
  BY <1>0, ConstantsAssumption DEF EnvTokens, RestTyped, ConstantsAssumption
<1>3. VersionWithSecrets(job.commit, EnvTokens(refs, tok)) \in Versions
  <2>1. EnvRefs \cap refs \in SUBSET EnvRefs
    OBVIOUS
  <2> QED  BY <1>0, <1>2, <2>1, VersionsHold
<1>4. SetTrue(st, "SecretsReady") \in StatusType /\ SetFalse(st, "SecretsReady") \in StatusType
  BY <1>1, StatusOps DEF Conditions, Gates
<1>5. Advance(SetTrue(st, "SecretsReady"), tok) \in StatusType
  BY <1>3, <1>4, StatusFields DEF Advance
<1>6. d.readyReason \in Readies
  BY DEF Evaluate, Readies
<1>7. NotReady(SetFalse(st, "SecretsReady"), d.readyReason) \in StatusType
  BY <1>4, <1>6, StatusOps
<1>8. \/ /\ pc' = "inspect"
         /\ job' = [job EXCEPT !.st = Advance(SetTrue(st, "SecretsReady"), tok), !.tok = tok]
      \/ /\ pc' = "status"
         /\ job' = [job EXCEPT !.st = NotReady(SetFalse(st, "SecretsReady"), d.readyReason)]
  BY DEF ResolveSecrets
<1>9. UNCHANGED dirty
  BY DEF ResolveSecrets
<1> HIDE DEF refs, tok, ready, est, d, st
<1>10. PICK new, t :
         /\ new \in StatusType /\ pc' \in {"inspect", "status"}
         /\ job' = [job EXCEPT !.st = new, !.tok = t]
  <2>1. CASE pc' = "inspect" /\ job' = [job EXCEPT !.st = Advance(SetTrue(st, "SecretsReady"), tok),
                                                   !.tok = tok]
    BY <1>5, <2>1
  <2>2. CASE pc' = "status"
             /\ job' = [job EXCEPT !.st = NotReady(SetFalse(st, "SecretsReady"), d.readyReason)]
    <3> DEFINE new == NotReady(SetFalse(st, "SecretsReady"), d.readyReason)
    <3> HIDE DEF new
    <3>1. job' = [job EXCEPT !.st = new, !.tok = job.tok]
      BY <2>2 DEF ShapeInv, IsJob, new
    <3> QED  BY <1>7, <2>2, <3>1 DEF new
  <2> QED  BY <1>8, <2>1, <2>2
<1>11. job' = [sync |-> job.sync, spec |-> job.spec, st |-> new, commit |-> job.commit, tok |-> t]
  BY <1>10 DEF ShapeInv, IsJob
<1> QED  BY <1>0, <1>9, <1>10, <1>11 DEF WorkerTyped, Labels

(* The steps of the pipeline keep the types of what a reconcile holds.     *)
LEMMA WorkerSteps ==
  ASSUME LoopInv, TypeInv, [Next]_vars
  PROVE  WorkerTyped'
<1> USE DEF LoopInv, TypeInv
<1>0. WorkerTyped /\ IsJob(job) /\ job.st \in StatusType /\ "Degraded" \in Readies
  BY DEF ShapeInv, WorkerTyped, Readies
<1>1. /\ \A c \in Conditions : SetTrue(job.st, c) \in StatusType /\ SetFalse(job.st, c) \in StatusType
      /\ NotReady(job.st, "Degraded") \in StatusType
      /\ \A c \in Conditions : NotReady(SetFalse(job.st, c), "Degraded") \in StatusType
  BY <1>0, StatusOps
<1>2. /\ "Fetched" \in Conditions /\ "Rendered" \in Conditions /\ "ManifestsApplied" \in Conditions
      /\ "WorkloadWired" \in Conditions /\ "SecretsReady" \in Conditions
  BY DEF Conditions, Gates
<1>3. pc # "idle" =>
        /\ \A c \in Conditions : Wired(SetFalse(job.st, c)) \in StatusType
        /\ \A c \in Conditions, d \in Completes :
             Wired([SetTrue(job.st, c) EXCEPT !.complete = d]) \in StatusType
        /\ \A c \in Conditions, d \in Completes, v \in Versions \cup {None} :
             Wired([SetTrue(job.st, c) EXCEPT !.complete = d, !.workloadVersion = v]) \in StatusType
  BY <1>0, <1>1, WiredStatus, StatusFields DEF WorkerTyped
<1>4. job.st.version \in Versions \cup {None}
  BY <1>0 DEF StatusType
<1>5. {"Complete", "Degraded", "RollingOut", "ProgressDeadlineExceeded"} \subseteq Completes
  BY DEF Completes
<1>6. \A label \in Labels : \A st \in StatusType :
        pc # "idle" /\ Continue(label, st) /\ (label \in Fetched => job.commit \in Commits)
          => WorkerTyped'
  BY <1>0, Continues
<1>7. "status" \in Labels /\ "status" \notin Fetched
  BY DEF Labels, Fetched
<1>8. \A st \in StatusType : pc # "idle" /\ Return(st) => WorkerTyped'
  BY <1>6, <1>7 DEF Return
<1>9. pc \in Fetched => job.commit \in Commits
  BY <1>0 DEF WorkerTyped
<1>10. Requeue => WorkerTyped'
  BY Ends DEF Requeue
<1>11. pc # "idle" /\ NotWired => WorkerTyped'
  BY <1>2, <1>3, <1>8 DEF NotWired
<1>12. \A s \in Syncs : Touch(s) => WorkerTyped'
  BY <1>0 DEF Touch, WorkerTyped
<1>13. UNCHANGED <<pc, job, dirty>> => WorkerTyped'
  BY <1>0, Stays
<1> USE DEF At
<1>20. FetchAndRender => WorkerTyped'
  <2> SUFFICES ASSUME FetchAndRender PROVE WorkerTyped'
    OBVIOUS
  <2>1. SetTrue(job.st, "Fetched") \in StatusType
    BY <1>1, <1>2
  <2>2. /\ NotReady(SetFalse(SetTrue(job.st, "Fetched"), "Rendered"), "Degraded") \in StatusType
        /\ SetTrue(SetTrue(job.st, "Fetched"), "Rendered") \in StatusType
    BY <1>0, <1>2, <2>1, StatusOps
  <2>3. PICK st \in StatusType :
          \/ pc' = "status" /\ job' = [job EXCEPT !.st = st]
          \/ pc' = "apply" /\ job' = [job EXCEPT !.st = st, !.commit = head]
    BY <2>2 DEF FetchAndRender
  <2>4. pc = "fetch" /\ head \in Commits /\ UNCHANGED dirty
    BY DEF FetchAndRender, RestTyped
  <2>5. PICK c \in Commits \cup {None} :
          /\ job' = [sync |-> job.sync, spec |-> job.spec, st |-> st, commit |-> c, tok |-> job.tok]
          /\ \/ pc' = "status"
             \/ pc' = "apply" /\ c \in Commits
    BY <1>0, <2>3, <2>4 DEF IsJob, WorkerTyped
  <2> QED  BY <1>0, <2>4, <2>5 DEF WorkerTyped, Labels, Fetched
<1>21. CheckConfigMap => WorkerTyped'
  <2>1. CheckConfigMap => pc = "apply" /\ pc # "idle" /\ "patch" \in Labels /\ pc \in Fetched
    BY DEF CheckConfigMap, Labels, Fetched
  <2> QED  BY <1>0, <1>1, <1>6, <1>8, <1>9, <2>1 DEF CheckConfigMap
<1>22. PatchConfigMap => WorkerTyped'
  <2>1. PatchConfigMap => pc # "idle" /\ "prune" \in Labels /\ pc \in Fetched
    BY DEF PatchConfigMap, Labels, Fetched
  <2> QED  BY <1>0, <1>6, <1>9, <2>1 DEF PatchConfigMap
<1>23. PruneConfigMaps => WorkerTyped'
  <2>1. PruneConfigMaps => pc # "idle" /\ "manifests" \in Labels /\ pc \in Fetched
    BY DEF PruneConfigMaps, Labels, Fetched
  <2> QED  BY <1>0, <1>6, <1>9, <2>1 DEF PruneConfigMaps
<1>24. ManifestsRejected => WorkerTyped'
  BY <1>1, <1>2, <1>8 DEF ManifestsRejected
<1>25. ApplyManifests => WorkerTyped'
  <2>1. ApplyManifests => pc # "idle" /\ "pruneManifests" \in Labels /\ pc \in Fetched
    BY DEF ApplyManifests, Labels, Fetched
  <2> QED  BY <1>0, <1>6, <1>9, <2>1 DEF ApplyManifests
<1>26. ApplyManifestsFails => WorkerTyped'
  BY <1>1, <1>2, <1>8 DEF ApplyManifestsFails
<1>27. PruneManifests => WorkerTyped'
  <2>1. PruneManifests => pc # "idle" /\ "resolve" \in Labels /\ pc \in Fetched
    BY DEF PruneManifests, Labels, Fetched
  <2> QED  BY <1>1, <1>2, <1>6, <1>9, <2>1 DEF PruneManifests
<1>28. Inspect => WorkerTyped'
  <2>1. Inspect => pc # "idle" /\ "progress" \in Labels /\ "wire" \in Labels /\ pc \in Fetched
    BY DEF Inspect, Labels, Fetched
  <2> QED  BY <1>0, <1>6, <1>9, <1>11, <2>1 DEF Inspect
<1>29. Wire => WorkerTyped'
  <2>1. Wire => pc # "idle" /\ "progress" \in Labels /\ "objectStamp" \in Labels /\ pc \in Fetched
    BY DEF Wire, Labels, Fetched
  <2> QED  BY <1>0, <1>6, <1>9, <2>1 DEF Wire
<1>30. WireFails => WorkerTyped'
  BY <1>11 DEF WireFails
<1>31. StampNoRestart => WorkerTyped'
  BY <1>2, <1>3, <1>4, <1>5, <1>8 DEF StampNoRestart
<1>32. StampNoRestartFails => WorkerTyped'
  BY <1>2, <1>3, <1>5, <1>8 DEF StampNoRestartFails
<1>33. RolloutProgress => WorkerTyped'
  <2>1. Progress(wlc[job.spec.wl]) \in Completes
    BY DEF Progress, Completes
  <2> QED  BY <1>2, <1>3, <1>4, <1>8, <2>1 DEF RolloutProgress
<1>34. Unwire => WorkerTyped'
  <2>1. "clearStamp" \in Labels \ Fetched
    BY DEF Labels, Fetched
  <2> QED  BY <1>0, <1>6, <2>1 DEF Unwire
<1>35. ClearStamp => WorkerTyped'
  <2>1. "finalPrune" \in Labels \ Fetched
    BY DEF Labels, Fetched
  <2> QED  BY <1>0, <1>6, <2>1 DEF ClearStamp
<1>36. FinalPrune => WorkerTyped'
  <2>1. "finalPruneManifests" \in Labels \ Fetched
    BY DEF Labels, Fetched
  <2> QED  BY <1>0, <1>6, <2>1 DEF FinalPrune
<1>37. FinalPruneManifests => WorkerTyped'
  <2>1. "dropFinalizer" \in Labels \ Fetched
    BY DEF Labels, Fetched
  <2> QED  BY <1>0, <1>6, <2>1 DEF FinalPruneManifests
<1>38. UpdateStatus \/ UpdateStatusFails \/ DropFinalizer \/ DropFinalizerConflict \/ FinalizeFails
         => WorkerTyped'
  BY <1>10 DEF UpdateStatus, UpdateStatusFails, DropFinalizer, DropFinalizerConflict, FinalizeFails
<1>39. FetchFails \/ PatchConfigMapFails \/ PruneConfigMapsFails \/ PruneManifestsFails => WorkerTyped'
  BY <1>1, <1>2, <1>8
  DEF FetchFails, PatchConfigMapFails, PruneConfigMapsFails, PruneManifestsFails
<1>40. Crash => WorkerTyped'
  BY Ends DEF Crash
<1>41. \A s \in Syncs : Reconcile(s) => WorkerTyped'
  BY <1>13, Begins DEF Reconcile, ReconcileGone, AddFinalizer, ClearSyncNow
<1>42. Users => WorkerTyped'
  BY <1>12, <1>13
  DEF Users, CreateSync, EditSpec, AnnotateSyncNow, DeleteSync, Push, ChangeSecret, ReplaceWorkload,
      StripStamp, StripFields, StickRollout, ResumeRollout, CreateForeign, DeleteObject, worker
<1>43. Kubernetes => WorkerTyped'
  BY <1>13 DEF Kubernetes, FinishRollout, ObserveWorkload, ObserveConfigMap, worker
<1>44. UNCHANGED vars => WorkerTyped'
  BY <1>13 DEF vars
<1> QED
  BY <1>20, <1>21, <1>22, <1>23, <1>24, <1>25, <1>26, <1>27, <1>28, <1>29, <1>30, <1>31, <1>32,
     <1>33, <1>34, <1>35, <1>36, <1>37, <1>38, <1>39, <1>40, <1>41, <1>42, <1>43, <1>44,
     ResolveTypes
  DEF Next, Operator, Faults, Pipeline

------------------------------------------------------------------------------
(* The writes to the objects.                                              *)
LEMMA StoreWritten ==
  ASSUME StoreTyped, NEW new, WriteStore(new), new = [n \in Names |-> new[n]],
         \A n \in Names : new[n].owner \in Syncs \cup {User, None}
  PROVE  StoreTyped'
<1>1. [n \in ConfigMaps |-> new[n].owner] \in [ConfigMaps -> Syncs \cup {User, None}]
  BY DEF Names
<1> QED  BY <1>1 DEF StoreTyped, WriteStore

LEMMA StoreSteps ==
  ASSUME LoopInv, TypeInv, [Next]_vars
  PROVE  StoreTyped'
<1> USE DEF LoopInv, TypeInv
<1>0. StoreTyped /\ (pc # "idle" => Me \in Syncs /\ Rendered(job).owner = Me)
  BY DEF WorkerInv, Rendered, Me
<1>1. \A gone : WriteStore(Deleted(gone)) => StoreTyped'
  <2> TAKE gone
  <2>1. Deleted(gone) = [n \in Names |-> Deleted(gone)[n]]
    BY DEF Deleted
  <2>2. \A n \in Names : Deleted(gone)[n].owner \in Syncs \cup {User, None}
    BY <1>0 DEF Deleted, NoObject, StoreTyped
  <2> QED  BY <1>0, <2>1, <2>2, StoreWritten
<1>2. \A ms : pc # "idle" /\ WriteStore(ApplyAll(ms)) => StoreTyped'
  <2> SUFFICES ASSUME NEW ms, pc # "idle", WriteStore(ApplyAll(ms)) PROVE StoreTyped'
    OBVIOUS
  <2>1. ApplyAll(ms) = [n \in Names |-> ApplyAll(ms)[n]]
    BY DEF ApplyAll
  <2>2. \A n \in Names : ApplyAll(ms)[n].owner \in Syncs \cup {User, None}
    BY <1>0 DEF ApplyAll, StoreTyped
  <2> QED  BY <1>0, <2>1, <2>2, StoreWritten
<1>3. \A m, x : x.owner \in Syncs \cup {User, None} /\ WriteStore([store EXCEPT ![m] = x])
        => StoreTyped'
  <2> SUFFICES ASSUME NEW m, NEW x, x.owner \in Syncs \cup {User, None},
                      WriteStore([store EXCEPT ![m] = x])
               PROVE  StoreTyped'
    OBVIOUS
  <2> DEFINE new == [store EXCEPT ![m] = x]
  <2>1. new = [n \in Names |-> IF n = m THEN x ELSE store[n]]
    BY <1>0 DEF StoreTyped
  <2>2. new = [n \in Names |-> new[n]] /\ \A n \in Names : new[n].owner \in Syncs \cup {User, None}
    BY <1>0, <2>1 DEF StoreTyped
  <2> QED  BY <1>0, <2>2, StoreWritten
<1>4. UNCHANGED objects => StoreTyped'
  BY <1>0 DEF objects, StoreTyped
<1> USE DEF At, cluster, objects
<1>5. PlaceSteps => StoreTyped'
  BY <1>0, <1>2, <1>3 DEF PlaceSteps, PatchConfigMap, ApplyManifests, ApplyManifestsFails
<1>6. RemoveSteps => StoreTyped'
  BY <1>1, <1>4
  DEF RemoveSteps, PruneConfigMaps, PruneConfigMapsFails, PruneManifests, PruneManifestsFails,
      FinalPrune, FinalPruneManifests, FinalizeFails
<1>7. UserSteps => StoreTyped'
  <2>1. NoObject.owner = None
    BY DEF NoObject
  <2> QED  BY <1>3, <2>1 DEF UserSteps, CreateForeign, DeleteObject
<1>8. ASSUME NEW n \in ConfigMaps, ObserveConfigMap(n) PROVE StoreTyped'
  <2>1. store' = store /\ seen' = [seen EXCEPT ![n] = store[n].owner]
    BY <1>8 DEF ObserveConfigMap
  <2>2. n \in Names
    BY DEF Names
  <2> HIDE DEF LoopInv, TypeInv
  <2> QED  BY <1>0, <2>1, <2>2 DEF StoreTyped
<1>9. SyncSteps => StoreTyped'
  BY <1>4
  DEF SyncSteps, Reconcile, ReconcileGone, AddFinalizer, ClearSyncNow, BeginSync, BeginFinalize,
      CreateSync, EditSpec, AnnotateSyncNow, DeleteSync, UpdateStatus, DropFinalizer, Crash
<1>10. ASSUME \/ FetchAndRender \/ CheckConfigMap \/ ManifestsRejected \/ ResolveSecrets \/ Inspect \/ Wire
              \/ WireFails \/ StampNoRestart \/ StampNoRestartFails \/ RolloutProgress \/ UpdateStatusFails
              \/ Unwire \/ ClearStamp \/ DropFinalizerConflict \/ FetchFails \/ PatchConfigMapFails
       PROVE  StoreTyped'
  BY <1>10, <1>4
  DEF FetchAndRender, CheckConfigMap, ManifestsRejected, ResolveSecrets, Inspect, Wire, WireFails,
      StampNoRestart, StampNoRestartFails, RolloutProgress, UpdateStatusFails, Unwire, ClearStamp,
      DropFinalizerConflict, FetchFails, PatchConfigMapFails
<1>11. ASSUME \/ Push \/ \E r \in Refs : ChangeSecret(r)
              \/ \E w \in Workloads : \/ ReplaceWorkload(w) \/ StripStamp(w) \/ StripFields(w)
                                      \/ StickRollout(w) \/ ResumeRollout(w) \/ FinishRollout(w)
                                      \/ ObserveWorkload(w)
       PROVE  StoreTyped'
  BY <1>11, <1>4
  DEF Push, ChangeSecret, ReplaceWorkload, StripStamp, StripFields, StickRollout, ResumeRollout,
      FinishRollout, ObserveWorkload
<1>12. UNCHANGED vars => StoreTyped'
  BY <1>4 DEF vars
<1> QED
  BY <1>5, <1>6, <1>7, <1>8, <1>9, <1>10, <1>11, <1>12
  DEF Next, Operator, Faults, Users, Kubernetes, Pipeline, SyncSteps, PlaceSteps, RemoveSteps, UserSteps

(* Counters, secrets, commits and history.                                 *)
LEMMA RestSteps ==
  ASSUME LoopInv, TypeInv, [Next]_vars
  PROVE  RestTyped'
<1> USE DEF LoopInv, TypeInv
<1>0. RestTyped /\ MaxMoves \in Nat /\ \A sp \in Specs : sp.refs \subseteq Refs
  BY ConstantsAssumption DEF ConstantsAssumption
<1>1. \A kind : Move(kind) => moves' \in 0 .. MaxMoves
  BY <1>0 DEF Move, RestTyped
<1>2. UNCHANGED <<head, secret, wired>> /\ (UNCHANGED moves \/ \E kind : Move(kind)) => RestTyped'
  BY <1>0, <1>1, SMTT(30) DEF RestTyped
<1> USE DEF cluster
<1>3. ASSUME \E s \in Syncs : Reconcile(s) \/ CreateSync(s) \/ EditSpec(s) \/ AnnotateSyncNow(s) \/ DeleteSync(s)
      PROVE  RestTyped'
  BY <1>3, <1>2
  DEF Reconcile, ReconcileGone, AddFinalizer, ClearSyncNow, BeginSync, BeginFinalize, ConflictSeen,
      CreateSync, EditSpec, AnnotateSyncNow, DeleteSync
<1>4. Faults => RestTyped'
  BY <1>2
  DEF Faults, FetchFails, PatchConfigMapFails, PruneConfigMapsFails, PruneManifestsFails,
      FinalizeFails, Crash
<1>5. Wire => RestTyped'
  <2>1. Wire => job.spec.refs \subseteq Refs
    BY <1>0 DEF Wire, At, WorkerTyped
  <2>2. Wire => wired' \in [Syncs -> SUBSET Refs]
    BY <1>0, <2>1 DEF Wire, RestTyped
  <2> QED  BY <1>0, <2>2 DEF Wire, RestTyped
<1>6. Pipeline => RestTyped'
  <2>1. ASSUME \/ FetchAndRender \/ CheckConfigMap \/ PatchConfigMap \/ PruneConfigMaps
               \/ ManifestsRejected \/ ApplyManifests \/ ApplyManifestsFails \/ PruneManifests
               \/ ResolveSecrets \/ Inspect
        PROVE  RestTyped'
    BY <2>1, <1>2
    DEF FetchAndRender, CheckConfigMap, PatchConfigMap, PruneConfigMaps, ManifestsRejected,
        ApplyManifests, ApplyManifestsFails, PruneManifests, ResolveSecrets, Inspect
  <2>2. ASSUME \/ WireFails \/ StampNoRestart \/ StampNoRestartFails \/ RolloutProgress
               \/ UpdateStatus \/ UpdateStatusFails \/ Unwire \/ ClearStamp \/ FinalPrune
               \/ FinalPruneManifests \/ DropFinalizer \/ DropFinalizerConflict
        PROVE  RestTyped'
    BY <2>2, <1>2
    DEF WireFails, StampNoRestart, StampNoRestartFails, RolloutProgress, UpdateStatus,
        UpdateStatusFails, Unwire, ClearStamp, FinalPrune, FinalPruneManifests, DropFinalizer,
        DropFinalizerConflict
  <2> QED  BY <1>5, <2>1, <2>2 DEF Pipeline
<1>7. Push => RestTyped'
  BY <1>0, <1>1 DEF Push, RestTyped
<1>8. \A r \in Refs : ChangeSecret(r) => RestTyped'
  BY <1>0, <1>1 DEF ChangeSecret, RestTyped
<1>9. ASSUME \/ \E w \in Workloads : ReplaceWorkload(w) \/ StripStamp(w) \/ StripFields(w)
                                     \/ StickRollout(w) \/ ResumeRollout(w)
             \/ \E n \in Names : CreateForeign(n) \/ DeleteObject(n)
      PROVE  RestTyped'
  BY <1>9, <1>2
  DEF ReplaceWorkload, StripStamp, StripFields, StickRollout, ResumeRollout, CreateForeign,
      DeleteObject
<1>10. Kubernetes => RestTyped'
  BY <1>2 DEF Kubernetes, FinishRollout, ObserveWorkload, ObserveConfigMap
<1>11. UNCHANGED vars => RestTyped'
  BY <1>2 DEF vars
<1> QED
  BY <1>3, <1>4, <1>6, <1>7, <1>8, <1>9, <1>10, <1>11 DEF Next, Operator, Users

------------------------------------------------------------------------------
(* The writes to a workload.                                               *)
LEMMA TemplateWrites ==
  ASSUME NEW x \in WorkloadType, NEW t \in TemplateType, NEW b \in Syncs \cup {None}
  PROVE  LET y == WithTemplate(x, t, b)
         IN  /\ y \in WorkloadType
             /\ y.exists = x.exists /\ y.tmpl = t /\ y.by = b /\ y.objStamp = x.objStamp
             /\ y.rollout \in {x.rollout, "rolling"} /\ (t = x.tmpl => y.rollout = x.rollout)
<1>1. PICK r \in {"rolling", "done", "stuck"} :
        /\ WithTemplate(x, t, b) = [x EXCEPT !.tmpl = t, !.by = b, !.rollout = r]
        /\ r \in {x.rollout, "rolling"} /\ (t = x.tmpl => r = x.rollout)
  BY DEF WithTemplate, WorkloadType
<1> QED  BY <1>1 DEF WorkloadType

LEMMA StampWrites ==
  ASSUME NEW x \in WorkloadType, NEW v \in Versions \cup {None}
  PROVE  LET y == [x EXCEPT !.objStamp = v]
         IN  /\ y \in WorkloadType
             /\ y.exists = x.exists /\ y.tmpl = x.tmpl /\ y.by = x.by /\ y.objStamp = v
             /\ y.rollout = x.rollout
BY DEF WorkloadType

LEMMA RolloutWrites ==
  ASSUME NEW x \in WorkloadType, NEW r \in {"rolling", "done", "stuck"}
  PROVE  LET y == [x EXCEPT !.rollout = r]
         IN  /\ y \in WorkloadType
             /\ y.exists = x.exists /\ y.tmpl = x.tmpl /\ y.by = x.by /\ y.objStamp = x.objStamp
             /\ y.rollout = r
BY DEF WorkloadType

LEMMA Templates ==
  /\ Unwired \in TemplateType
  /\ \A v \in Versions \cup {None} : [Unwired EXCEPT !.stamp = v] \in TemplateType
  /\ \A t \in TemplateType : [t EXCEPT !.stamp = None] \in TemplateType
  /\ TypeInv /\ pc # "idle" => Template(job) \in TemplateType
<1>1. Unwired \in TemplateType
  BY DEF Unwired, TemplateType
<1>2. \A v \in Versions \cup {None} : [Unwired EXCEPT !.stamp = v] \in TemplateType
  BY DEF Unwired, TemplateType
<1>3. \A t \in TemplateType : [t EXCEPT !.stamp = None] \in TemplateType
  BY DEF TemplateType
<1>4. ASSUME TypeInv, pc # "idle" PROVE Template(job) \in TemplateType
  <2>1. job.spec \in Specs /\ job.spec.cm \in ConfigMaps /\ job.spec.refs \subseteq Refs
    BY <1>4, ConstantsAssumption DEF TypeInv, WorkerTyped, ConstantsAssumption
  <2>2. job.st.version \in Versions \cup {None}
    BY <1>4 DEF TypeInv, WorkerTyped, StatusType
  <2>3. job.spec.mount \in {sp.mount : sp \in Specs}
    BY <2>1
  <2> QED  BY <2>1, <2>2, <2>3 DEF Template, TemplateType
<1> QED  BY <1>1, <1>2, <1>3, <1>4

(* What a step can do to the workload w.                                   *)
Rewired(w) ==
  /\ Wire /\ w = job.spec.wl /\ wl[w].exists
  /\ wl'[w].exists /\ wl'[w].tmpl = Template(job) /\ wl'[w].by = Me
  /\ wl'[w].objStamp = wl[w].objStamp
Retracted(w) ==
  /\ Unwire /\ w = job.spec.wl /\ wl[w].exists
  /\ wl'[w].exists /\ wl'[w].tmpl = Unwired /\ wl'[w].by = None
  /\ wl'[w].objStamp = wl[w].objStamp
Restamped(w) ==
  /\ w = job.spec.wl
  /\ \/ StampNoRestart /\ wl[w].exists /\ wl'[w].objStamp = job.st.version
     \/ ClearStamp /\ wl'[w].objStamp = None
  /\ wl'[w].exists = wl[w].exists /\ wl'[w].tmpl = wl[w].tmpl /\ wl'[w].by = wl[w].by
  /\ wl'[w].rollout = wl[w].rollout
Replaced(w) == ReplaceWorkload(w) /\ wl'[w].tmpl = Unwired /\ wl'[w].by = None
Stripped(w) ==
  /\ \/ StripStamp(w) /\ wl'[w].tmpl = [wl[w].tmpl EXCEPT !.stamp = None]
     \/ StripFields(w) /\ wl'[w].tmpl = [Unwired EXCEPT !.stamp = wl[w].tmpl.stamp]
  /\ wl[w].exists /\ wl'[w].exists /\ wl'[w].by = wl[w].by
  /\ wl'[w].objStamp = wl[w].objStamp
Moved(w) ==
  /\ \/ FinishRollout(w) /\ wl'[w].rollout = "done"
     \/ StickRollout(w) /\ wl[w].rollout = "rolling"
     \/ ResumeRollout(w)
  /\ wl'[w].exists = wl[w].exists /\ wl'[w].tmpl = wl[w].tmpl /\ wl'[w].by = wl[w].by
  /\ wl'[w].objStamp = wl[w].objStamp

Changed(w) == \/ Rewired(w) \/ Retracted(w) \/ Restamped(w) \/ Replaced(w) \/ Stripped(w)
              \/ Moved(w)

WorkloadSteps ==
  \/ Wire \/ StampNoRestart \/ Unwire \/ ClearStamp
  \/ \E w \in Workloads : \/ ReplaceWorkload(w) \/ StripStamp(w) \/ StripFields(w)
                          \/ FinishRollout(w) \/ StickRollout(w) \/ ResumeRollout(w)

LEMMA Untouched ==
  ASSUME [Next]_vars, ~WorkloadSteps
  PROVE  wl' = wl /\ (wlc' = wlc \/ \E w \in Workloads : wlc' = [wlc EXCEPT ![w] = wl[w]])
<1> USE DEF cluster, workloads
<1>1. ASSUME NEW s \in Syncs,
             Reconcile(s) \/ CreateSync(s) \/ EditSpec(s) \/ AnnotateSyncNow(s) \/ DeleteSync(s)
      PROVE  wl' = wl /\ wlc' = wlc
  BY <1>1
  DEF Reconcile, ReconcileGone, AddFinalizer, ClearSyncNow, BeginSync, BeginFinalize, CreateSync,
      EditSpec, AnnotateSyncNow, DeleteSync
<1>2. ASSUME Faults PROVE wl' = wl /\ wlc' = wlc
  BY <1>2
  DEF Faults, FetchFails, PatchConfigMapFails, PruneConfigMapsFails, PruneManifestsFails,
      FinalizeFails, Crash
<1>3. ASSUME Pipeline PROVE wl' = wl /\ wlc' = wlc
  BY <1>3
  DEF Pipeline, WorkloadSteps, FetchAndRender, CheckConfigMap, PatchConfigMap, PruneConfigMaps,
      ManifestsRejected, ApplyManifests, ApplyManifestsFails, PruneManifests, ResolveSecrets, Inspect,
      WireFails, StampNoRestartFails, RolloutProgress, UpdateStatus, UpdateStatusFails, FinalPrune,
      FinalPruneManifests, DropFinalizer, DropFinalizerConflict
<1>4. ASSUME \/ Push \/ \E r \in Refs : ChangeSecret(r)
             \/ \E n \in Names : CreateForeign(n) \/ DeleteObject(n)
             \/ \E n \in ConfigMaps : ObserveConfigMap(n)
      PROVE  wl' = wl /\ wlc' = wlc
  BY <1>4 DEF Push, ChangeSecret, CreateForeign, DeleteObject, ObserveConfigMap
<1>5. ASSUME NEW w \in Workloads, ObserveWorkload(w)
      PROVE  wl' = wl /\ wlc' = [wlc EXCEPT ![w] = wl[w]]
  BY <1>5 DEF ObserveWorkload
<1>6. ASSUME UNCHANGED vars PROVE wl' = wl /\ wlc' = wlc
  BY <1>6 DEF vars
<1> QED
  BY <1>1, <1>2, <1>3, <1>4, <1>5, <1>6, SMTT(30) DEF Next, Operator, Users, Kubernetes, WorkloadSteps

(* A step that writes a workload writes one, and the cache follows or not. *)
WritesOne ==
  \E w \in Workloads : \E y \in WorkloadType :
    WriteWorkload(w, y) /\ (wl' = [wl EXCEPT ![w] = y] => wl'[w] = wl[w] \/ Changed(w))

LEMMA WorkloadStep ==
  ASSUME LoopInv, TypeInv, WorkloadSteps
  PROVE  UNCHANGED workloads \/ WritesOne
<1> USE DEF LoopInv, TypeInv
<1>0. \A w \in Workloads : wl[w] \in WorkloadType /\ \A y : wl' = [wl EXCEPT ![w] = y] => wl'[w] = y
  BY DEF WorkloadsTyped
<1>1. pc # "idle" => Me \in Syncs /\ job.spec.wl \in Workloads /\ job.st.version \in Versions \cup {None}
  BY ConstantsAssumption
  DEF WorkerInv, WorkerTyped, ConstantsAssumption, Me, StatusType
<1> USE DEF At, WritesOne, Changed
<1>2. CASE Wire
  <2> DEFINE w == job.spec.wl
             y == WithTemplate(wl[w], Template(job), Me)
  <2>1. w \in Workloads /\ WriteWorkload(w, y) /\ wl[w].exists
    BY <1>1, <1>2 DEF Wire, ResolvesContainer
  <2>2. /\ y \in WorkloadType /\ y.exists = wl[w].exists /\ y.tmpl = Template(job) /\ y.by = Me
        /\ y.objStamp = wl[w].objStamp
    BY <1>0, <1>1, <1>2, Templates, TemplateWrites DEF Wire
  <2> HIDE DEF w, y
  <2>3. wl' = [wl EXCEPT ![w] = y] => Rewired(w)
    BY <1>0, <1>2, <2>1, <2>2 DEF Rewired, w
  <2> QED  BY <2>1, <2>2, <2>3
<1>3. CASE Unwire
  <2> DEFINE w == job.spec.wl
             y == WithTemplate(wl[w], Unwired, None)
  <2>1. CASE ~wl[w].exists
    BY <1>3, <2>1 DEF Unwire, workloads
  <2>2. CASE wl[w].exists
    <3>1. w \in Workloads /\ WriteWorkload(w, y)
      BY <1>1, <1>3, <2>2 DEF Unwire
    <3>2. /\ y \in WorkloadType /\ y.exists = wl[w].exists /\ y.tmpl = Unwired /\ y.by = None
          /\ y.objStamp = wl[w].objStamp
      BY <1>0, <3>1, Templates, TemplateWrites
    <3> HIDE DEF w, y
    <3>3. wl' = [wl EXCEPT ![w] = y] => Retracted(w)
      BY <1>0, <1>3, <2>2, <3>1, <3>2 DEF Retracted, w
    <3> QED  BY <3>1, <3>2, <3>3
  <2> QED  BY <2>1, <2>2
<1>4. CASE StampNoRestart
  <2> DEFINE w == job.spec.wl
             y == [wl[w] EXCEPT !.objStamp = job.st.version]
  <2>1. w \in Workloads /\ WriteWorkload(w, y) /\ wl[w].exists
    BY <1>1, <1>4 DEF StampNoRestart
  <2>2. /\ y \in WorkloadType /\ y.exists = wl[w].exists /\ y.tmpl = wl[w].tmpl /\ y.by = wl[w].by
        /\ y.objStamp = job.st.version /\ y.rollout = wl[w].rollout
    BY <1>0, <1>1, <1>4, <2>1, StampWrites DEF StampNoRestart
  <2> HIDE DEF w, y
  <2>3. wl' = [wl EXCEPT ![w] = y] => Restamped(w)
    BY <1>0, <1>4, <2>1, <2>2 DEF Restamped, w
  <2> QED  BY <2>1, <2>2, <2>3
<1>5. CASE ClearStamp
  <2> DEFINE w == job.spec.wl
             y == [wl[w] EXCEPT !.objStamp = None]
  <2>1. CASE ~wl[w].exists
    BY <1>5, <2>1 DEF ClearStamp, workloads
  <2>2. CASE wl[w].exists
    <3>1. w \in Workloads /\ WriteWorkload(w, y)
      BY <1>1, <1>5, <2>2 DEF ClearStamp
    <3>2. /\ y \in WorkloadType /\ y.exists = wl[w].exists /\ y.tmpl = wl[w].tmpl /\ y.by = wl[w].by
          /\ y.objStamp = None /\ y.rollout = wl[w].rollout
      BY <1>0, <3>1, StampWrites
    <3> HIDE DEF w, y
    <3>3. wl' = [wl EXCEPT ![w] = y] => Restamped(w)
      BY <1>0, <1>5, <3>1, <3>2 DEF Restamped, w
    <3> QED  BY <3>1, <3>2, <3>3
  <2> QED  BY <2>1, <2>2
<1>6. ASSUME NEW w \in Workloads, ReplaceWorkload(w) PROVE WritesOne
  <2>1. PICK y \in {Fresh, NoWorkload} : WriteWorkload(w, y)
    BY <1>6 DEF ReplaceWorkload
  <2>2. y \in WorkloadType /\ y.tmpl = Unwired /\ y.by = None
    BY <2>1, FreshTyped
  <2>3. wl' = [wl EXCEPT ![w] = y] => Replaced(w)
    BY <1>0, <1>6, <2>2 DEF Replaced
  <2> QED  BY <2>1, <2>2, <2>3
<1>7. ASSUME NEW w \in Workloads, StripStamp(w) \/ StripFields(w) PROVE WritesOne
  <2>1. wl[w].tmpl \in TemplateType /\ wl[w].tmpl.stamp \in Versions \cup {None}
          /\ wl[w].by \in Syncs \cup {None} /\ wl[w].exists
    BY <1>0, <1>7 DEF WorkloadType, TemplateType, StripStamp, StripFields
  <2>2. PICK t \in TemplateType :
          /\ WriteWorkload(w, WithTemplate(wl[w], t, wl[w].by))
          /\ \/ StripStamp(w) /\ t = [wl[w].tmpl EXCEPT !.stamp = None]
             \/ StripFields(w) /\ t = [Unwired EXCEPT !.stamp = wl[w].tmpl.stamp]
    BY <1>7, <2>1, Templates DEF StripStamp, StripFields
  <2> DEFINE y == WithTemplate(wl[w], t, wl[w].by)
  <2>3. /\ y \in WorkloadType /\ y.exists = wl[w].exists /\ y.tmpl = t /\ y.by = wl[w].by
        /\ y.objStamp = wl[w].objStamp
    <3>1. PICK x \in WorkloadType, b \in Syncs \cup {None} : x = wl[w] /\ b = wl[w].by
      BY <1>0, <2>1
    <3> QED  BY <3>1, TemplateWrites
  <2> HIDE DEF y
  <2>4. wl' = [wl EXCEPT ![w] = y] => Stripped(w)
    BY <1>0, <2>1, <2>2, <2>3 DEF Stripped
  <2> QED  BY <2>2, <2>3, <2>4 DEF y
<1>8. ASSUME NEW w \in Workloads, FinishRollout(w) \/ StickRollout(w) \/ ResumeRollout(w)
      PROVE  WritesOne
  <2>1. PICK r \in {"rolling", "done", "stuck"} :
          /\ WriteWorkload(w, [wl[w] EXCEPT !.rollout = r])
          /\ \/ FinishRollout(w) /\ r = "done"
             \/ StickRollout(w) /\ wl[w].rollout = "rolling"
             \/ ResumeRollout(w)
    BY <1>8 DEF FinishRollout, StickRollout, ResumeRollout
  <2> DEFINE y == [wl[w] EXCEPT !.rollout = r]
  <2>2. /\ y \in WorkloadType /\ y.exists = wl[w].exists /\ y.tmpl = wl[w].tmpl /\ y.by = wl[w].by
        /\ y.objStamp = wl[w].objStamp /\ y.rollout = r
    BY <1>0, RolloutWrites
  <2> HIDE DEF y
  <2>3. wl' = [wl EXCEPT ![w] = y] => Moved(w)
    BY <1>0, <2>1, <2>2 DEF Moved
  <2> QED  BY <2>1, <2>2, <2>3 DEF y
<1> QED  BY <1>2, <1>3, <1>4, <1>5, <1>6, <1>7, <1>8 DEF WorkloadSteps

(* Every step keeps the types of the workloads, changes at most one, and   *)
(* that in one of the ways above; without a lag the cache is the cluster.  *)
LEMMA WorkloadNext ==
  ASSUME LoopInv, TypeInv, [Next]_vars
  PROVE  /\ WorkloadsTyped'
         /\ \A w \in Workloads : wl'[w] = wl[w] \/ Changed(w)
         /\ "workload" \notin Lag /\ wlc = wl => wlc' = wl'
<1> USE DEF LoopInv, TypeInv
<1>1. CASE wl' = wl /\ (wlc' = wlc \/ \E w \in Workloads : wlc' = [wlc EXCEPT ![w] = wl[w]])
  BY <1>1 DEF WorkloadsTyped
<1>2. CASE WritesOne
  <2>1. PICK w \in Workloads, y \in WorkloadType :
          WriteWorkload(w, y) /\ (wl' = [wl EXCEPT ![w] = y] => wl'[w] = wl[w] \/ Changed(w))
    BY <1>2 DEF WritesOne
  <2>2. wl' = [wl EXCEPT ![w] = y] /\ wlc' = (IF "workload" \in Lag THEN wlc ELSE wl')
    BY <2>1 DEF WriteWorkload
  <2>3. WorkloadsTyped'
    BY <2>2 DEF WorkloadsTyped
  <2>4. \A v \in Workloads \ {w} : wl'[v] = wl[v]
    BY <2>2 DEF WorkloadsTyped
  <2> QED  BY <2>1, <2>2, <2>3, <2>4
<1> QED  BY <1>1, <1>2, Untouched, WorkloadStep DEF workloads

------------------------------------------------------------------------------
(* What a step can do to the ConfigSync s.                                 *)
Created(s) ==
  /\ CreateSync(s) /\ ~cs[s].live /\ cs'[s].live /\ ~cs'[s].deleting /\ cs'[s].spec \in Specs
  /\ cs'[s].status = NoStatus
  /\ cs'[s].born \in {Now, Now + 1} /\ (cs'[s].born = Now => Ties)
Removed(s) ==
  /\ (DeleteSync(s) /\ ~cs[s].fin) \/ (DropFinalizer /\ s = Me)
  /\ ~cs'[s].live /\ cs'[s].born = cs[s].born /\ cs'[s].status = NoStatus
Updated(s) ==
  /\ cs[s].live /\ cs'[s].live /\ cs'[s].born = cs[s].born
  /\ cs[s].fin => cs'[s].fin
  /\ cs[s].deleting => cs'[s].deleting
  /\ cs'[s].spec \in Specs /\ (cs'[s].spec = cs[s].spec \/ EditSpec(s))
  /\ cs'[s].status = cs[s].status \/ (UpdateStatus /\ s = Me /\ cs'[s].status = job.st)

LEMMA NowIsMax ==
  ASSUME SyncsTyped, BirthInv, NEW s \in Syncs
  PROVE  Now \in Nat /\ Now \in Births /\ \A u \in Births : u <= Now
<1>1. \E t \in Births : \A u \in Births : u <= t
  BY DEF BirthInv
<1>2. Now \in Births /\ \A u \in Births : u <= Now
  BY <1>1 DEF Now
<1>3. Births \subseteq Nat
  BY DEF Births, SyncsTyped, SyncType
<1> QED  BY <1>2, <1>3

LEMMA SyncWritten ==
  ASSUME SyncsTyped, NEW s \in Syncs, NEW y \in SyncType, y.live => y.spec \in Specs,
         cs' = [cs EXCEPT ![s] = y]
  PROVE  SyncsTyped' /\ cs'[s] = y /\ \A o \in Syncs \ {s} : cs'[o] = cs[o]
BY DEF SyncsTyped

LEMMA SyncFields ==
  ASSUME NEW x \in SyncType
  PROVE  /\ [x EXCEPT !.fin = TRUE] \in SyncType
         /\ \A b \in BOOLEAN : [x EXCEPT !.syncNow = b] \in SyncType
         /\ [x EXCEPT !.deleting = TRUE] \in SyncType
         /\ \A sp \in Specs : [x EXCEPT !.spec = sp] \in SyncType
         /\ \A st \in StatusType : [x EXCEPT !.status = st] \in SyncType
BY DEF SyncType

(* One ConfigSync is written, in one of the ways above.                    *)
WritesSync ==
  \E s \in Syncs : \E y \in SyncType :
    /\ cs' = [cs EXCEPT ![s] = y] /\ (y.live => y.spec \in Specs)
    /\ cs'[s] = y => Created(s) \/ Removed(s) \/ Updated(s)

LEMMA SyncStep ==
  ASSUME LoopInv, TypeInv, SyncSteps
  PROVE  UNCHANGED cs \/ WritesSync
<1> USE DEF LoopInv, TypeInv, WritesSync
<1>0. \A s \in Syncs : cs[s] \in SyncType /\ (cs[s].live => cs[s].spec \in Specs)
  BY DEF SyncsTyped
<1>1. ASSUME NEW s \in Syncs, ReconcileGone(s) \/ BeginSync(s) \/ BeginFinalize(s)
      PROVE  UNCHANGED cs
  BY <1>1 DEF ReconcileGone, BeginSync, BeginFinalize, cluster
<1>2. ASSUME NEW s \in Syncs, AddFinalizer(s) PROVE WritesSync
  <2> DEFINE y == [cs[s] EXCEPT !.fin = TRUE]
  <2>1. cs' = [cs EXCEPT ![s] = y] /\ cs[s].live
    BY <1>2 DEF AddFinalizer
  <2>2. /\ y \in SyncType /\ y.live = cs[s].live /\ y.born = cs[s].born /\ y.fin
        /\ y.deleting = cs[s].deleting /\ y.spec = cs[s].spec /\ y.status = cs[s].status
    BY <1>0, SyncFields DEF SyncType
  <2> HIDE DEF y
  <2>3. cs'[s] = y => Updated(s)
    BY <1>0, <2>1, <2>2 DEF Updated
  <2> QED  BY <1>0, <2>1, <2>2, <2>3
<1>3. ASSUME NEW s \in Syncs, ClearSyncNow(s) \/ AnnotateSyncNow(s) PROVE WritesSync
  <2>1. PICK b \in BOOLEAN : cs' = [cs EXCEPT ![s] = [cs[s] EXCEPT !.syncNow = b]] /\ cs[s].live
    BY <1>3 DEF ClearSyncNow, AnnotateSyncNow
  <2> DEFINE y == [cs[s] EXCEPT !.syncNow = b]
  <2>2. /\ y \in SyncType /\ y.live = cs[s].live /\ y.born = cs[s].born /\ y.fin = cs[s].fin
        /\ y.deleting = cs[s].deleting /\ y.spec = cs[s].spec /\ y.status = cs[s].status
    BY <1>0, SyncFields DEF SyncType
  <2>3. cs' = [cs EXCEPT ![s] = y]
    BY <2>1
  <2> HIDE DEF y
  <2>4. cs'[s] = y => Updated(s)
    BY <1>0, <2>1, <2>2 DEF Updated
  <2> QED  BY <1>0, <2>1, <2>2, <2>3, <2>4
<1>4. ASSUME NEW s \in Syncs, EditSpec(s) PROVE WritesSync
  <2>1. PICK sp \in Specs : cs' = [cs EXCEPT ![s] = [cs[s] EXCEPT !.spec = sp]] /\ cs[s].live
    BY <1>4 DEF EditSpec
  <2> DEFINE y == [cs[s] EXCEPT !.spec = sp]
  <2>2. /\ y \in SyncType /\ y.live = cs[s].live /\ y.born = cs[s].born /\ y.fin = cs[s].fin
        /\ y.deleting = cs[s].deleting /\ y.spec = sp /\ y.status = cs[s].status
    BY <1>0, SyncFields DEF SyncType
  <2>3. cs' = [cs EXCEPT ![s] = y]
    BY <2>1
  <2> HIDE DEF y
  <2>4. cs'[s] = y => Updated(s)
    BY <1>0, <1>4, <2>1, <2>2 DEF Updated
  <2> QED  BY <1>0, <2>1, <2>2, <2>3, <2>4
<1>5. ASSUME UpdateStatus PROVE WritesSync
  <2>1. Me \in Syncs /\ cs[Me].live /\ job.st \in StatusType
    BY <1>5 DEF UpdateStatus, At, WorkerInv, WorkerTyped
  <2> DEFINE y == [cs[Me] EXCEPT !.status = job.st]
  <2>2. /\ y \in SyncType /\ y.live = cs[Me].live /\ y.born = cs[Me].born /\ y.fin = cs[Me].fin
        /\ y.deleting = cs[Me].deleting /\ y.spec = cs[Me].spec /\ y.status = job.st
    BY <1>0, <2>1, SyncFields, ZenonT(40) DEF SyncType
  <2>3. cs' = [cs EXCEPT ![Me] = y]
    BY <1>5 DEF UpdateStatus
  <2> HIDE DEF y
  <2>4. cs'[Me] = y => Updated(Me)
    BY <1>0, <1>5, <2>1, <2>2 DEF Updated
  <2> QED  BY <1>0, <2>1, <2>2, <2>3, <2>4
<1>6. ASSUME NEW s \in Syncs, NEW t \in Nat
      PROVE  /\ [Absent EXCEPT !.born = t] \in SyncType
             /\ ~[Absent EXCEPT !.born = t].live /\ [Absent EXCEPT !.born = t].born = t
             /\ [Absent EXCEPT !.born = t].status = NoStatus
  BY NoStatusTyped DEF Absent, SyncType
<1>7. ASSUME NEW s \in Syncs, (DeleteSync(s) /\ ~cs[s].fin) \/ (DropFinalizer /\ s = Me)
      PROVE  WritesSync
  <2> DEFINE y == [Absent EXCEPT !.born = cs[s].born]
  <2>1. cs' = [cs EXCEPT ![s] = y]
    BY <1>7 DEF DeleteSync, DropFinalizer
  <2>2. y \in SyncType /\ ~y.live /\ y.born = cs[s].born /\ y.status = NoStatus
    BY <1>0, <1>6 DEF SyncType
  <2> HIDE DEF y
  <2>3. cs'[s] = y => Removed(s)
    BY <1>7, <2>2 DEF Removed
  <2> QED  BY <2>1, <2>2, <2>3
<1>8. ASSUME NEW s \in Syncs, DeleteSync(s), cs[s].fin PROVE WritesSync
  <2> DEFINE y == [cs[s] EXCEPT !.deleting = TRUE]
  <2>1. cs' = [cs EXCEPT ![s] = y] /\ cs[s].live
    BY <1>8 DEF DeleteSync
  <2>2. /\ y \in SyncType /\ y.live = cs[s].live /\ y.born = cs[s].born /\ y.fin = cs[s].fin
        /\ y.deleting /\ y.spec = cs[s].spec /\ y.status = cs[s].status
    BY <1>0, SyncFields DEF SyncType
  <2> HIDE DEF y
  <2>3. cs'[s] = y => Updated(s)
    BY <1>0, <2>1, <2>2 DEF Updated
  <2> QED  BY <1>0, <2>1, <2>2, <2>3
<1>9. ASSUME NEW s \in Syncs, CreateSync(s) PROVE WritesSync
  <2>1. PICK sp \in Specs, t \in {Now, Now + 1} :
          /\ t = Now => Ties
          /\ cs' = [cs EXCEPT ![s] = [Absent EXCEPT !.live = TRUE, !.born = t, !.spec = sp]]
    BY <1>9 DEF CreateSync
  <2>2. t \in Nat
    BY <2>1, NowIsMax
  <2> DEFINE y == [Absent EXCEPT !.live = TRUE, !.born = t, !.spec = sp]
  <2>3. y \in SyncType /\ y.live /\ ~y.deleting /\ y.spec = sp /\ y.born = t /\ y.status = NoStatus
    BY <2>2, NoStatusTyped DEF Absent, SyncType
  <2>4. cs' = [cs EXCEPT ![s] = y] /\ ~cs[s].live
    BY <1>9, <2>1 DEF CreateSync, ShapeInv, IsSync
  <2> HIDE DEF y
  <2>5. cs'[s] = y => Created(s)
    BY <1>9, <2>1, <2>3, <2>4 DEF Created
  <2> QED  BY <2>3, <2>4, <2>5
<1>10. ASSUME Crash PROVE UNCHANGED cs
  BY <1>10 DEF Crash, cluster
<1>11. ASSUME DropFinalizer PROVE Me \in Syncs
  BY <1>11 DEF DropFinalizer, At, WorkerInv
<1> QED
  BY <1>1, <1>2, <1>3, <1>4, <1>5, <1>7, <1>8, <1>9, <1>10, <1>11 DEF SyncSteps, Reconcile

(* Every step keeps the types of the ConfigSyncs and changes at most one;  *)
(* the latest timestamp stays the latest.                                  *)
LEMMA SyncNext ==
  ASSUME LoopInv, TypeInv, [Next]_vars
  PROVE  /\ SyncsTyped' /\ BirthInv'
         /\ \A s \in Syncs : cs'[s] = cs[s] \/ Created(s) \/ Removed(s) \/ Updated(s)
<1> USE DEF LoopInv, TypeInv
<1>1. CASE UNCHANGED cs
  BY <1>1 DEF SyncsTyped, BirthInv, Births
<1>2. CASE WritesSync
  <2>1. PICK s \in Syncs, y \in SyncType :
          /\ cs' = [cs EXCEPT ![s] = y] /\ (y.live => y.spec \in Specs)
          /\ cs'[s] = y => Created(s) \/ Removed(s) \/ Updated(s)
    BY <1>2 DEF WritesSync
  <2>2. SyncsTyped' /\ cs'[s] = y /\ \A o \in Syncs \ {s} : cs'[o] = cs[o]
    BY <2>1, SyncWritten
  <2>3. Created(s) \/ Removed(s) \/ Updated(s)
    BY <2>1, <2>2
  <2>4. cs'[s].born \in {cs[s].born, Now, Now + 1} /\ cs'[s].born \in Nat
    BY <2>2, <2>3 DEF Created, Removed, Updated, SyncsTyped, SyncType
  <2>5. BirthInv'
    <3>1. Now \in Nat /\ Now \in Births /\ \A u \in Births : u <= Now
      BY NowIsMax
    <3>2. \A o \in Syncs : cs[o].born \in Nat /\ cs[o].born <= Now
      BY <3>1 DEF Births, SyncsTyped, SyncType
    <3>3. CASE cs'[s].born = cs[s].born
      <4>1. Births' = Births
        BY <2>2, <3>3 DEF Births
      <4> QED  BY <4>1 DEF BirthInv
    <3>4. CASE cs'[s].born \in {Now, Now + 1}
      <4>1. \A o \in Syncs : cs'[o].born <= cs'[s].born
        BY <2>2, <3>1, <3>2, <3>4
      <4>2. cs'[s].born \in Births' /\ \A u \in Births' : u <= cs'[s].born
        BY <4>1 DEF Births
      <4> QED  BY <4>2 DEF BirthInv
    <3> QED  BY <2>4, <3>3, <3>4
  <2> QED  BY <2>2, <2>3, <2>5
<1>3. CASE Advances \/ Bystands
  BY <1>1, <1>3 DEF Advances, Bystands
<1> QED  BY <1>1, <1>2, <1>3, SyncStep, OtherSteps

------------------------------------------------------------------------------
(* The inductive form of the type invariant.                               *)
THEOREM TypeInvariance == Spec => []TypeInv
<1>1. LoopInv /\ TypeInv /\ [Next]_vars => TypeInv'
  BY SyncNext, WorkloadNext, WorkerSteps, StoreSteps, RestSteps DEF TypeInv
<1> QED  BY <1>1, TypeInit, LoopInvariance, PTL DEF Spec

(***************************************************************************)
(* The variables keep their types: every object at the API server, both    *)
(* caches and what a reconcile holds in memory are well formed on every    *)
(* path; the version a status or a stamp names is one of a fetched commit. *)
(***************************************************************************)
THEOREM TypeCorrect == Spec => []TypeOK
<1> QED  BY TypesOK, TypeInvariance, LoopInvariance, PTL

------------------------------------------------------------------------------
(* The labels of sync, and where the worker can go in a step.              *)
SyncLabels == {"fetch", "apply", "patch", "prune", "manifests", "pruneManifests", "resolve", "inspect",
               "wire", "objectStamp", "progress", "status"}

LEMMA Flow ==
  ASSUME LoopInv, [Next]_vars
  PROVE  \/ UNCHANGED <<pc, job>>
         \/ pc' = "idle" /\ job' = NoJob
         \/ \E s \in Syncs : BeginSync(s) \/ BeginFinalize(s)
         \/ /\ pc # "idle" /\ job'.sync = Me /\ job'.spec = job.spec /\ UNCHANGED cs
            /\ \/ pc' = "status" /\ pc \in SyncLabels
               \/ FetchAndRender /\ pc' = "apply"
               \/ CheckConfigMap /\ pc' = "patch"
               \/ PatchConfigMap /\ pc' = "prune"
               \/ PruneConfigMaps /\ pc' = "manifests"
               \/ ApplyManifests /\ pc' = "pruneManifests"
               \/ PruneManifests /\ pc' = "resolve"
               \/ ResolveSecrets /\ pc' = "inspect"
               \/ Inspect /\ pc' \in {"progress", "wire"}
               \/ Wire /\ pc' \in {"progress", "objectStamp"}
               \/ Unwire /\ pc' = "clearStamp"
               \/ ClearStamp /\ pc' = "finalPrune"
               \/ FinalPrune /\ pc' = "finalPruneManifests"
               \/ FinalPruneManifests /\ pc' = "dropFinalizer"
<1> USE DEF Continue, Return, Requeue, NotWired, At, SyncLabels
<1>1. CASE SyncSteps
  BY <1>1
  DEF SyncSteps, Reconcile, ReconcileGone, AddFinalizer, ClearSyncNow, CreateSync, EditSpec,
      AnnotateSyncNow, DeleteSync, Touch, UpdateStatus, DropFinalizer, Crash
<1>2. CASE Bystands
  BY <1>2 DEF Bystands
<1>3. CASE Advances /\ Faults
  BY <1>3
  DEF Advances, Faults, FetchFails, PatchConfigMapFails, PruneConfigMapsFails, PruneManifestsFails,
      FinalizeFails, Crash
<1>4. CASE Advances /\ Pipeline
  <2> USE <1>4 DEF Advances
  <2>1. CASE \/ FetchAndRender \/ CheckConfigMap \/ PatchConfigMap \/ PruneConfigMaps
             \/ ManifestsRejected \/ ApplyManifests
    BY <2>1 DEF FetchAndRender, CheckConfigMap, PatchConfigMap, PruneConfigMaps, ManifestsRejected,
                ApplyManifests
  <2>2. CASE ApplyManifestsFails \/ PruneManifests \/ ResolveSecrets \/ Inspect \/ Wire \/ WireFails
    BY <2>2 DEF ApplyManifestsFails, PruneManifests, ResolveSecrets, Inspect, Wire, WireFails
  <2>3. CASE StampNoRestart \/ StampNoRestartFails \/ RolloutProgress \/ UpdateStatus
             \/ UpdateStatusFails \/ DropFinalizer \/ DropFinalizerConflict
    BY <2>3 DEF StampNoRestart, StampNoRestartFails, RolloutProgress, UpdateStatus,
                UpdateStatusFails, DropFinalizer, DropFinalizerConflict
  <2>4. CASE Unwire \/ ClearStamp \/ FinalPrune \/ FinalPruneManifests
    BY <2>4, SMTT(30) DEF Unwire, ClearStamp, FinalPrune, FinalPruneManifests
  <2> QED  BY <2>1, <2>2, <2>3, <2>4 DEF Pipeline
<1>5. CASE Users \/ Kubernetes \/ UNCHANGED vars
  BY <1>5
  DEF Users, Kubernetes, CreateSync, EditSpec, AnnotateSyncNow, DeleteSync, Touch, Push, ChangeSecret,
      ReplaceWorkload, StripStamp, StripFields, StickRollout, ResumeRollout, CreateForeign,
      DeleteObject, FinishRollout, ObserveWorkload, ObserveConfigMap, worker, vars
<1> QED
  BY <1>1, <1>2, <1>3, <1>4, <1>5, OtherSteps, SMTT(30) DEF LoopInv, Next, Operator, SyncSteps

------------------------------------------------------------------------------
(* The singleton.  No ConfigSync is retargeted to another workload.        *)
Retained == \A s \in Syncs : cs[s].live /\ cs'[s].live => cs'[s].spec.wl = cs[s].spec.wl
NoRetarget == [][Retained]_vars

(* No two ConfigSyncs target one workload.                                 *)
Alone == \A s, o \in Syncs : cs[s].live /\ cs[o].live /\ cs[s].spec.wl = cs[o].spec.wl => s = o

(* The singleton check answers right and stays right, or has nothing to    *)
(* decide.                                                                 *)
Settled == (~Ties /\ "list" \notin Moves) \/ (Alone /\ Alone')

(* The labels of a reconcile that goes on to write the workload, and those *)
(* of a deletion after the workload.                                       *)
Pursuing == {"fetch", "apply", "patch", "prune", "manifests", "pruneManifests", "resolve", "inspect",
             "wire", "objectStamp", "progress", "unwire", "clearStamp"}
Retreated == {"clearStamp", "finalPrune", "finalPruneManifests", "dropFinalizer"}

(* Whoever wired a workload targets it, is under its finalizer and has no  *)
(* older rival; a reconcile that goes on has none either.                  *)
OwnerInv ==
  /\ \A w \in Workloads, s \in Syncs : wl[w].by = s =>
       cs[s].live /\ cs[s].fin /\ cs[s].spec.wl = w /\ ~SingletonConflict(s)
  /\ \A w \in Workloads : ~wl[w].exists => wl[w].by = None
  /\ pc # "idle" => job.spec.wl = cs[Me].spec.wl
  /\ \A s \in Syncs : pc \in Pursuing /\ Me = s => ~SingletonConflict(s)
  /\ pc \in Retreated => \A w \in Workloads : wl[w].by # Me

LEMMA OwnerInit == ASSUME Init PROVE OwnerInv
BY ConstantsAssumption, FreshTyped
DEF Init, OwnerInv, Pursuing, Retreated, ConstantsAssumption

(* A ConfigSync without an older rival does not get one: a new sync is     *)
(* younger, and nobody comes back from a deletion or moves over.           *)
LEMMA StaysOwner ==
  ASSUME LoopInv, TypeInv, [Next]_vars, Settled, Retained,
         NEW s \in Syncs, cs[s].live, cs'[s].live, ~SingletonConflict(s)
  PROVE  ~SingletonConflict(s)'
<1> USE DEF LoopInv, TypeInv
<1> SUFFICES ASSUME NEW o \in Syncs \ {s}, cs'[o].live, ~cs'[o].deleting,
                    cs'[o].spec.wl = cs'[s].spec.wl,
                    WinsOver(o, cs'[o].born, s, cs'[s].born)
             PROVE  FALSE
  BY DEF SingletonConflict
<1>0. SUFFICES ASSUME ~Ties PROVE FALSE
  BY DEF Settled, Alone
<1>1. cs'[s].born = cs[s].born /\ cs'[s].spec.wl = cs[s].spec.wl
  BY SyncNext DEF Created, Removed, Updated, Retained
<1>2. CASE Created(o)
  <2>1. cs'[o].born = Now + 1
    BY <1>0, <1>2 DEF Created
  <2>2. cs[s].born <= Now /\ cs[s].born \in Nat /\ Now \in Nat
    BY NowIsMax DEF Births, SyncsTyped, SyncType
  <2> QED  BY <1>1, <2>1, <2>2 DEF WinsOver
<1>3. CASE cs'[o] = cs[o] \/ Updated(o)
  <2>1. cs[o].live /\ ~cs[o].deleting /\ cs'[o].born = cs[o].born
    BY <1>3 DEF Updated
  <2>2. cs'[o].spec.wl = cs[o].spec.wl
    BY <2>1 DEF Retained
  <2>3. SingletonConflict(s)
    BY <1>1, <2>1, <2>2 DEF SingletonConflict
  <2> QED  BY <2>3
<1>4. CASE Removed(o)
  BY <1>4 DEF Removed
<1> QED  BY <1>2, <1>3, <1>4, SyncNext

(* Under the finalizer a ConfigSync lives on, until it is dropped.         *)
LEMMA GuardedLives ==
  ASSUME LoopInv, TypeInv, [Next]_vars, NEW s \in Syncs, cs[s].live, cs[s].fin,
         ~(DropFinalizer /\ s = Me)
  PROVE  cs'[s].live /\ cs'[s].fin
BY SyncNext DEF Created, Removed, Updated

LEMMA OwnerStep ==
  ASSUME LoopInv, LoopInv', TypeInv, TypeInv', OwnerInv, [Next]_vars, Settled, Retained
  PROVE  OwnerInv'
<1> USE DEF LoopInv, TypeInv, Me
<1>0. None \notin Syncs /\ \A w \in Workloads : wl[w] \in WorkloadType
  BY ConstantsAssumption DEF ConstantsAssumption, WorkloadsTyped
<1>1. \A w \in Workloads :
        \/ wl'[w].by = None
        \/ wl'[w].by = wl[w].by /\ wl'[w].exists = wl[w].exists /\ wl'[w].by \in Syncs
        \/ Wire /\ w = job.spec.wl /\ wl'[w].by = Me /\ Me \in Syncs /\ wl'[w].exists
  <2>1. \A w \in Workloads : wl[w].by \in Syncs \cup {None}
    BY <1>0 DEF WorkloadType
  <2>2. Wire => Me \in Syncs
    BY DEF Wire, At, WorkerInv
  <2>3. ASSUME NEW w \in Workloads
        PROVE  \/ wl'[w].by = None
               \/ wl'[w].by = wl[w].by /\ wl'[w].exists = wl[w].exists
               \/ Wire /\ w = job.spec.wl /\ wl'[w].by = Me /\ wl'[w].exists
    <3>1. CASE Rewired(w) \/ Retracted(w) \/ Replaced(w)
      BY <3>1 DEF Rewired, Retracted, Replaced
    <3>2. CASE Restamped(w) \/ Moved(w)
      BY <3>2 DEF Restamped, Moved
    <3>3. CASE Stripped(w)
      BY <1>0, <3>3, WorkloadNext DEF Stripped, WorkloadType, WorkloadsTyped
    <3> QED  BY <3>1, <3>2, <3>3, WorkloadNext DEF Changed
  <2> QED  BY <2>1, <2>2, <2>3
<1>2. \A s \in Syncs : BeginSync(s) \/ BeginFinalize(s) =>
        /\ job'.sync = s /\ job'.spec = cs[s].spec /\ UNCHANGED <<cs, wl>>
        /\ cs[s].live
        /\ pc' \in Pursuing => ~SingletonConflict(s)
        /\ pc' \in Retreated => SingletonConflict(s)
  <2> SUFFICES ASSUME NEW s \in Syncs, BeginSync(s) \/ BeginFinalize(s)
               PROVE  /\ job'.sync = s /\ job'.spec = cs[s].spec /\ UNCHANGED <<cs, wl>>
                      /\ cs[s].live
                      /\ pc' \in Pursuing => ~SingletonConflict(s)
                      /\ pc' \in Retreated => SingletonConflict(s)
    OBVIOUS
  <2>1. UNCHANGED <<cs, wl>> /\ cs[s].live
    BY DEF BeginSync, BeginFinalize, cluster, workloads
  <2>2. PICK conflict \in BOOLEAN :
          /\ ConflictSeen(s, conflict)
          /\ pc' \in IF conflict THEN {"status", "finalPrune"} ELSE {"fetch", "unwire"}
    BY DEF BeginSync, BeginFinalize
  <2>3. conflict <=> SingletonConflict(s)
    <3>1. CASE "list" \notin Moves
      BY <2>2, <3>1 DEF ConflictSeen, Move
    <3>2. CASE Alone
      <4>1. SingletonConflict(s) = FALSE
        BY <2>1, <3>2 DEF Alone, SingletonConflict
      <4>2. conflict = FALSE
        BY <2>2, <4>1 DEF ConflictSeen
      <4> QED  BY <4>1, <4>2
    <3> QED  BY <3>1, <3>2 DEF Settled
  <2> QED  BY <2>1, <2>2, <2>3, Begins DEF Pursuing, Retreated
<1>3. \A w \in Workloads, s \in Syncs : wl'[w].by = s =>
        /\ cs[s].live /\ cs[s].fin /\ cs[s].spec.wl = w /\ ~SingletonConflict(s)
        /\ ~(DropFinalizer /\ s = Me)
  <2> SUFFICES ASSUME NEW w \in Workloads, NEW s \in Syncs, wl'[w].by = s
               PROVE  /\ cs[s].live /\ cs[s].fin /\ cs[s].spec.wl = w /\ ~SingletonConflict(s)
                      /\ ~(DropFinalizer /\ s = Me)
    OBVIOUS
  <2>1. CASE wl'[w].by = wl[w].by
    <3>1. DropFinalizer => wl[w].by # Me
      BY DEF DropFinalizer, At, OwnerInv, Retreated
    <3> QED  BY <2>1, <3>1 DEF OwnerInv
  <2>2. CASE Wire /\ w = job.spec.wl /\ wl'[w].by = Me
    <3>1. pc = "wire" /\ ~DropFinalizer
      BY <2>2 DEF Wire, DropFinalizer, At
    <3> QED  BY <2>2, <3>1 DEF OwnerInv, WorkerInv, Pursuing
  <2> QED  BY <1>0, <1>1, <2>1, <2>2
<1>4. \A w \in Workloads, s \in Syncs : wl'[w].by = s =>
        cs'[s].live /\ cs'[s].fin /\ cs'[s].spec.wl = w /\ ~SingletonConflict(s)'
  <2> SUFFICES ASSUME NEW w \in Workloads, NEW s \in Syncs, wl'[w].by = s
               PROVE  cs'[s].live /\ cs'[s].fin /\ cs'[s].spec.wl = w /\ ~SingletonConflict(s)'
    OBVIOUS
  <2>1. /\ cs[s].live /\ cs[s].fin /\ cs[s].spec.wl = w /\ ~SingletonConflict(s)
        /\ ~(DropFinalizer /\ s = Me)
    BY <1>3
  <2>2. cs'[s].live /\ cs'[s].fin
    BY <2>1, GuardedLives
  <2>3. ~SingletonConflict(s)'
    BY <2>1, <2>2, StaysOwner
  <2> QED  BY <2>1, <2>2, <2>3 DEF Retained
<1>5. \A w \in Workloads : ~wl'[w].exists => wl'[w].by = None
  BY <1>0, <1>1 DEF OwnerInv
<1>6. pc' # "idle" => job'.spec.wl = cs'[job'.sync].spec.wl
  <2>1. CASE UNCHANGED <<pc, job>> /\ pc # "idle"
    <3>1. Me \in Syncs /\ cs[Me].live /\ cs'[Me].live
      BY <2>1 DEF WorkerInv
    <3> QED  BY <2>1, <3>1 DEF OwnerInv, Retained
  <2> QED  BY <1>2, <2>1, Flow DEF OwnerInv
<1>7. \A s \in Syncs : pc' \in Pursuing /\ job'.sync = s => ~SingletonConflict(s)'
  <2> SUFFICES ASSUME NEW s \in Syncs, pc' \in Pursuing, job'.sync = s PROVE ~SingletonConflict(s)'
    OBVIOUS
  <2>1. pc' # "idle" /\ cs'[s].live
    BY DEF Pursuing, WorkerInv
  <2>2. CASE \E o \in Syncs : BeginSync(o) \/ BeginFinalize(o)
    <3>1. cs[s].live /\ ~SingletonConflict(s)
      BY <1>2, <2>2
    <3> QED  BY <2>1, <3>1, StaysOwner
  <2>3. CASE s = Me /\ pc \in Pursuing
    <3>1. cs[s].live /\ ~SingletonConflict(s)
      BY <2>3 DEF OwnerInv, WorkerInv, Pursuing
    <3> QED  BY <2>1, <3>1, StaysOwner
  <2>4. \/ s = Me /\ pc \in Pursuing
        \/ \E o \in Syncs : BeginSync(o) \/ BeginFinalize(o)
    BY <2>1, Flow
    DEF Pursuing, FetchAndRender, CheckConfigMap, PatchConfigMap, PruneConfigMaps, ApplyManifests,
        PruneManifests, ResolveSecrets, Inspect, Wire, Unwire, ClearStamp, FinalPrune,
        FinalPruneManifests, At
  <2> QED  BY <2>2, <2>3, <2>4
<1>8. pc' \in Retreated => \A w \in Workloads : wl'[w].by # job'.sync
  <2> SUFFICES ASSUME pc' \in Retreated, NEW w \in Workloads PROVE wl'[w].by # job'.sync
    OBVIOUS
  <2>1. job'.sync \in Syncs
    BY DEF Retreated, WorkerInv
  <2>2. CASE \E s \in Syncs : BeginSync(s) \/ BeginFinalize(s)
    BY <1>2, <2>2 DEF OwnerInv
  <2>3. CASE job'.sync = Me /\ pc \in Retreated
    <3>1. ~Wire
      BY <2>3 DEF Wire, At, Retreated
    <3> QED  BY <1>0, <1>1, <2>1, <2>3, <3>1 DEF OwnerInv
  <2>4. CASE job'.sync = Me /\ Unwire
    <3>1. pc = "unwire" /\ Me \in Syncs /\ job.spec.wl = cs[Me].spec.wl /\ ~Wire
      BY <2>4 DEF Unwire, Wire, At, OwnerInv, WorkerInv
    <3>2. CASE w # job.spec.wl
      BY <1>0, <1>1, <2>1, <2>4, <3>1, <3>2 DEF OwnerInv
    <3>3. CASE w = job.spec.wl
      <4>1. CASE wl[w].exists
        <5>1. wl' = [wl EXCEPT ![w] = WithTemplate(wl[w], Unwired, None)]
          BY <2>4, <3>3, <4>1 DEF Unwire, WriteWorkload
        <5>2. wl'[w].by = None
          BY <1>0, <5>1, Templates, TemplateWrites DEF WorkloadsTyped
        <5> QED  BY <1>0, <2>1, <5>2
      <4>2. CASE ~wl[w].exists
        BY <1>0, <1>1, <2>1, <3>1, <4>2 DEF OwnerInv
      <4> QED  BY <4>1, <4>2
    <3> QED  BY <3>2, <3>3
  <2>5. \/ \E s \in Syncs : BeginSync(s) \/ BeginFinalize(s)
        \/ job'.sync = Me /\ (pc \in Retreated \/ Unwire)
    <3>1. pc' # "idle" /\ pc' # "status"
      BY DEF Retreated
    <3> QED
      BY <3>1, Flow
      DEF Retreated, FetchAndRender, CheckConfigMap, PatchConfigMap, PruneConfigMaps, ApplyManifests,
          PruneManifests, ResolveSecrets, Inspect, Wire, ClearStamp, FinalPrune,
          FinalPruneManifests, At
  <2> QED  BY <2>2, <2>3, <2>4, <2>5
<1> QED  BY <1>4, <1>5, <1>6, <1>7, <1>8 DEF OwnerInv

(* With the singleton check in order: no ties, no failing list.            *)
THEOREM OwnerInvariance ==
  ASSUME ~Ties, "list" \notin Moves PROVE Spec /\ NoRetarget => []OwnerInv
<1>1. LoopInv /\ LoopInv' /\ TypeInv /\ TypeInv' /\ OwnerInv /\ [Next]_vars /\ [Retained]_vars => OwnerInv'
  <2>1. UNCHANGED vars => Retained
    BY DEF vars, Retained
  <2> QED  BY <2>1, OwnerStep DEF Settled
<1> QED  BY <1>1, OwnerInit, LoopInvariance, TypeInvariance, PTL DEF Spec, NoRetarget

(* With a workload per ConfigSync.                                         *)
THEOREM SoleOwnerInvariance == Spec /\ NoRetarget /\ []Alone => []OwnerInv
<1>1. LoopInv /\ LoopInv' /\ TypeInv /\ TypeInv' /\ OwnerInv /\ Alone /\ Alone' /\ [Next]_vars /\ [Retained]_vars => OwnerInv'
  <2>1. UNCHANGED vars => Retained
    BY DEF vars, Retained
  <2> QED  BY <2>1, OwnerStep DEF Settled
<1> QED  BY <1>1, OwnerInit, LoopInvariance, TypeInvariance, PTL DEF Spec, NoRetarget

(***************************************************************************)
(* Whatever pod template the operator has wired stays covered by the       *)
(* finalizer of the sync that wired it, as long as nobody retargets a sync *)
(* to another workload, no two syncs were created in the same second and   *)
(* the list behind the singleton check does not fail: across crashes,      *)
(* failed calls, stale caches, edits of other fields and workloads that    *)
(* are deleted and created again (finalize's unwire step).                 *)
(***************************************************************************)
THEOREM WorkloadsCovered ==
  ASSUME ~Ties, "list" \notin Moves PROVE Spec /\ NoRetarget => []WorkloadsGuarded
<1>1. OwnerInv => WorkloadsGuarded
  BY DEF OwnerInv, WorkloadsGuarded
<1> QED  BY <1>1, OwnerInvariance, PTL

(* The same when every ConfigSync has a workload of its own, where ties    *)
(* and a failing list do no harm.                                          *)
THEOREM OwnWorkloadsCovered == Spec /\ NoRetarget /\ []Alone => []WorkloadsGuarded
<1>1. OwnerInv => WorkloadsGuarded
  BY DEF OwnerInv, WorkloadsGuarded
<1> QED  BY <1>1, SoleOwnerInvariance, PTL

(* The steps of the operator that write a workload.                        *)
LEMMA OperatorWrites ==
  ASSUME Operator, wl' # wl
  PROVE  /\ Wire \/ StampNoRestart \/ Unwire \/ ClearStamp
         /\ pc \in {"wire", "objectStamp", "unwire", "clearStamp"} /\ UNCHANGED moves
<1> USE DEF cluster, workloads
<1>1. ASSUME NEW s \in Syncs, Reconcile(s) PROVE FALSE
  BY <1>1 DEF Reconcile, ReconcileGone, AddFinalizer, ClearSyncNow, BeginSync, BeginFinalize
<1>2. ASSUME Pipeline, ~(Wire \/ StampNoRestart \/ Unwire \/ ClearStamp) PROVE FALSE
  BY <1>2
  DEF Pipeline, FetchAndRender, CheckConfigMap, PatchConfigMap, PruneConfigMaps,
      ManifestsRejected, ApplyManifests, ApplyManifestsFails, PruneManifests, ResolveSecrets, Inspect,
      WireFails, StampNoRestartFails, RolloutProgress, UpdateStatus, UpdateStatusFails, FinalPrune,
      FinalPruneManifests, DropFinalizer, DropFinalizerConflict
<1> QED  BY <1>1, <1>2 DEF Operator, Wire, StampNoRestart, Unwire, ClearStamp, At

(***************************************************************************)
(* The singleton check of sync and finalize keeps the loser away from the  *)
(* workload for the whole reconcile: the answer was read once, and by the  *)
(* time of a write no older sync can have appeared.                        *)
(***************************************************************************)
THEOREM LoserStaysAway ==
  ASSUME ~Ties, "list" \notin Moves PROVE Spec /\ NoRetarget => LoserNeverWrites
<1> DEFINE Harmless ==
      \A w \in Workloads :
        Operator /\ (wl'[w].tmpl # wl[w].tmpl \/ wl'[w].objStamp # wl[w].objStamp)
          => ~SingletonConflict(Me)
<1>1. LoopInv /\ OwnerInv /\ [Next]_vars => Harmless
  <2> SUFFICES ASSUME LoopInv, OwnerInv, NEW w \in Workloads, Operator,
                      wl'[w].tmpl # wl[w].tmpl \/ wl'[w].objStamp # wl[w].objStamp
               PROVE  ~SingletonConflict(Me)
    OBVIOUS
  <2>1. pc \in {"wire", "objectStamp", "unwire", "clearStamp"}
    BY OperatorWrites
  <2>2. Me \in Syncs /\ pc \in Pursuing
    BY <2>1 DEF LoopInv, WorkerInv, Pursuing
  <2> QED  BY <2>2 DEF OwnerInv
<1> HIDE DEF Harmless
<1>2. LoserNeverWrites <=> [][Harmless]_vars
  BY DEF LoserNeverWrites, Harmless
<1> QED  BY <1>1, <1>2, LoopInvariance, OwnerInvariance, PTL DEF Spec

(***************************************************************************)
(* Unwire retracts only the wiring of the sync being deleted, if every     *)
(* ConfigSync has a workload of its own.  With a rival it may hit the      *)
(* rival's wiring.                                                         *)
(***************************************************************************)
THEOREM OwnWiringUnwired == Spec /\ NoRetarget /\ []Alone => UnwireOnlyOwn
<1> DEFINE OwnOnly == \A w \in Workloads : Unwire /\ wl'[w] # wl[w] => wl[w].by \in {Me, None}
<1>1. LoopInv /\ TypeInv /\ OwnerInv /\ Alone /\ [Next]_vars => OwnOnly
  <2> SUFFICES ASSUME LoopInv, TypeInv, OwnerInv, Alone,
                      NEW w \in Workloads, Unwire, wl'[w] # wl[w]
               PROVE  wl[w].by \in {Me, None}
    OBVIOUS
  <2>1. pc = "unwire" /\ w = job.spec.wl
    BY DEF Unwire, At, WriteWorkload, workloads, TypeInv, WorkloadsTyped
  <2>2. Me \in Syncs /\ cs[Me].live /\ cs[Me].spec.wl = w
    BY <2>1 DEF LoopInv, WorkerInv, OwnerInv
  <2>3. wl[w].by \in Syncs \cup {None}
    BY TypesOK DEF TypeOK, TypeInv
  <2>4. wl[w].by \in Syncs => cs[wl[w].by].live /\ cs[wl[w].by].spec.wl = w
    BY DEF OwnerInv
  <2> QED  BY <2>2, <2>3, <2>4 DEF Alone
<1> HIDE DEF OwnOnly
<1>2. UnwireOnlyOwn <=> [][OwnOnly]_vars
  BY DEF UnwireOnlyOwn, OwnOnly
<1> QED  BY <1>1, <1>2, LoopInvariance, TypeInvariance, SoleOwnerInvariance, PTL DEF Spec

------------------------------------------------------------------------------
(* What a step can do to the object n.                                     *)
Placed(n) ==
  /\ store'[n] = Rendered(job)
  /\ \/ PatchConfigMap /\ n = job.spec.cm
     \/ (ApplyManifests \/ ApplyManifestsFails) /\ n \in ManifestsOf[job.commit] /\ MayApply(n)
Pruned(n) ==
  /\ store'[n] = NoObject /\ SeenLabel(n) = Me
  /\ \/ (PruneConfigMaps \/ PruneConfigMapsFails) /\ n \in ConfigMaps \ {job.spec.cm}
     \/ (PruneManifests \/ PruneManifestsFails) /\ n \in Manifests \ ManifestsOf[job.commit]
     \/ pc = "finalPrune" /\ (FinalPrune \/ FinalizeFails) /\ n \in ConfigMaps
     \/ pc = "finalPruneManifests" /\ (FinalPruneManifests \/ FinalizeFails) /\ n \in Manifests
Made(n) == CreateForeign(n) /\ store[n] = NoObject /\ store'[n] = [owner |-> User, data |-> None]
Tampered(n) == DeleteObject(n) /\ store'[n] = NoObject

ObjectSteps == PlaceSteps \/ RemoveSteps \/ UserSteps

(* Only these steps write objects, whatever the read cache shows.          *)
LEMMA ObjectsUntouched ==
  ASSUME [Next]_vars, ~ObjectSteps
  PROVE  store' = store
<1> USE DEF cluster, objects
<1>1. SyncSteps => store' = store
  BY DEF SyncSteps, Reconcile, ReconcileGone, AddFinalizer, ClearSyncNow, BeginSync, BeginFinalize,
         CreateSync, EditSpec, AnnotateSyncNow, DeleteSync, UpdateStatus, DropFinalizer, Crash
<1>2. ASSUME \/ FetchAndRender \/ CheckConfigMap \/ ManifestsRejected \/ ResolveSecrets \/ Inspect \/ Wire
             \/ WireFails \/ StampNoRestart \/ StampNoRestartFails \/ RolloutProgress \/ UpdateStatusFails
             \/ Unwire \/ ClearStamp \/ DropFinalizerConflict \/ FetchFails \/ PatchConfigMapFails
      PROVE  store' = store
  BY <1>2
  DEF FetchAndRender, CheckConfigMap, ManifestsRejected, ResolveSecrets, Inspect, Wire, WireFails,
      StampNoRestart, StampNoRestartFails, RolloutProgress, UpdateStatusFails, Unwire, ClearStamp,
      DropFinalizerConflict, FetchFails, PatchConfigMapFails
<1>3. ASSUME \/ Push \/ \E r \in Refs : ChangeSecret(r)
             \/ \E n \in ConfigMaps : ObserveConfigMap(n)
             \/ \E w \in Workloads : \/ ReplaceWorkload(w) \/ StripStamp(w) \/ StripFields(w)
                                     \/ StickRollout(w) \/ ResumeRollout(w) \/ FinishRollout(w)
                                     \/ ObserveWorkload(w)
      PROVE  store' = store
  BY <1>3
  DEF Push, ChangeSecret, ObserveConfigMap, ReplaceWorkload, StripStamp, StripFields, StickRollout,
      ResumeRollout, FinishRollout, ObserveWorkload
<1>4. UNCHANGED vars => store' = store
  BY DEF vars
<1> QED
  BY <1>1, <1>2, <1>3, <1>4, SMTT(30)
  DEF ObjectSteps, Next, Operator, Faults, Users, Kubernetes, Pipeline, SyncSteps, PlaceSteps,
      RemoveSteps, UserSteps

LEMMA ObjectNext ==
  ASSUME LoopInv, TypeInv, [Next]_vars, NEW n \in Names
  PROVE  store'[n] = store[n] \/ Placed(n) \/ Pruned(n) \/ Made(n) \/ Tampered(n)
<1> USE DEF LoopInv, TypeInv
<1>0. store = [m \in Names |-> store[m]]
  BY DEF StoreTyped
<1>1. CASE PatchConfigMap
  <2>1. store' = [store EXCEPT ![job.spec.cm] = Rendered(job)]
    BY <1>1 DEF PatchConfigMap, WriteStore
  <2>2. store'[n] = IF n = job.spec.cm THEN Rendered(job) ELSE store[n]
    BY <1>0, <2>1
  <2> QED  BY <1>1, <2>2 DEF Placed
<1>2. CASE ApplyManifests \/ ApplyManifestsFails
  <2>1. PICK ms \in SUBSET ManifestsOf[job.commit] :
          store' = ApplyAll(ms) /\ \A m \in ms : MayApply(m)
    BY <1>2 DEF ApplyManifests, ApplyManifestsFails, WriteStore
  <2>2. store'[n] = IF n \in ms THEN Rendered(job) ELSE store[n]
    BY <2>1 DEF ApplyAll
  <2> QED  BY <1>2, <2>1, <2>2 DEF Placed
<1>3. CASE PruneConfigMaps \/ PruneConfigMapsFails
  <2>1. PICK gone \in SUBSET Stale(ConfigMaps, {job.spec.cm}) : store' = Deleted(gone)
    BY <1>3 DEF PruneConfigMaps, PruneConfigMapsFails, WriteStore
  <2>2. store'[n] = IF n \in gone THEN NoObject ELSE store[n]
    BY <2>1 DEF Deleted
  <2> QED  BY <1>3, <2>1, <2>2 DEF Pruned, Stale
<1>4. CASE PruneManifests \/ PruneManifestsFails
  <2>1. PICK gone \in SUBSET Stale(Manifests, ManifestsOf[job.commit]) : store' = Deleted(gone)
    BY <1>4 DEF PruneManifests, PruneManifestsFails, WriteStore
  <2>2. store'[n] = IF n \in gone THEN NoObject ELSE store[n]
    BY <2>1 DEF Deleted
  <2> QED  BY <1>4, <2>1, <2>2 DEF Pruned, Stale
<1>5. CASE FinalPrune \/ (FinalizeFails /\ store' # store /\ pc = "finalPrune")
  <2>1. PICK gone \in SUBSET Stale(ConfigMaps, {}) : store' = Deleted(gone)
    BY <1>5 DEF FinalPrune, FinalizeFails, WriteStore, At, objects
  <2>2. store'[n] = IF n \in gone THEN NoObject ELSE store[n]
    BY <2>1 DEF Deleted
  <2>3. pc = "finalPrune"
    BY <1>5 DEF FinalPrune, At
  <2> QED  BY <1>5, <2>1, <2>2, <2>3 DEF Pruned, Stale
<1>7. CASE FinalPruneManifests \/ (FinalizeFails /\ store' # store /\ pc # "finalPrune")
  <2>1. PICK gone \in SUBSET Stale(Manifests, {}) :
          store' = Deleted(gone) /\ pc = "finalPruneManifests"
    BY <1>7 DEF FinalPruneManifests, FinalizeFails, WriteStore, At, objects
  <2>2. store'[n] = IF n \in gone THEN NoObject ELSE store[n]
    BY <2>1 DEF Deleted
  <2> QED  BY <1>7, <2>1, <2>2 DEF Pruned, Stale
<1>6. CASE UserSteps
  <2>1. PICK m \in Names : CreateForeign(m) \/ DeleteObject(m)
    BY <1>6 DEF UserSteps
  <2>2. PICK x :
          /\ store' = [store EXCEPT ![m] = x]
          /\ \/ CreateForeign(m) /\ store[m] = NoObject /\ x = [owner |-> User, data |-> None]
             \/ DeleteObject(m) /\ x = NoObject
    BY <2>1 DEF CreateForeign, DeleteObject, WriteStore
  <2>3. store'[n] = IF n = m THEN x ELSE store[n]
    BY <1>0, <2>2
  <2> QED  BY <2>2, <2>3 DEF Made, Tampered
<1> QED
  BY <1>1, <1>2, <1>3, <1>4, <1>5, <1>6, <1>7, ObjectsUntouched
  DEF ObjectSteps, PlaceSteps, RemoveSteps

------------------------------------------------------------------------------
(* What a version stamp stands for.  From the apply to the wiring the      *)
(* ConfigMap holds what was rendered, and the version names that commit    *)
(* with every reference resolved.                                          *)
Published == {"prune", "manifests", "pruneManifests", "resolve", "inspect", "wire"}

PublishedInv ==
  /\ pc \in Published => store[job.spec.cm] = Rendered(job)
  /\ pc \in {"inspect", "wire"} =>
       job.st.version[1] = job.commit /\ \A r \in job.spec.refs : job.tok[r] > 0

(* How a reconcile gets to these labels and what it carries along.         *)
LEMMA Carried ==
  ASSUME LoopInv, [Next]_vars, pc' \in Published
  PROVE  \/ UNCHANGED <<pc, job>>
         \/ /\ job'.sync = job.sync /\ job'.spec = job.spec /\ job'.commit = job.commit
            /\ \/ PatchConfigMap /\ pc' = "prune"
               \/ PruneConfigMaps /\ pc' = "manifests"
               \/ ApplyManifests /\ pc' = "pruneManifests"
               \/ PruneManifests /\ pc' = "resolve"
               \/ ResolveSecrets /\ pc' = "inspect"
               \/ Inspect /\ pc' = "wire" /\ job' = job
<1> USE DEF LoopInv, ShapeInv, IsJob, Continue
<1>1. ASSUME NEW s \in Syncs, BeginSync(s) \/ BeginFinalize(s) PROVE FALSE
  BY <1>1 DEF BeginSync, BeginFinalize, Published
<1>2. CASE \/ PatchConfigMap /\ pc' = "prune"
           \/ PruneConfigMaps /\ pc' = "manifests"
           \/ ApplyManifests /\ pc' = "pruneManifests"
           \/ PruneManifests /\ pc' = "resolve"
  BY <1>2 DEF PatchConfigMap, PruneConfigMaps, ApplyManifests, PruneManifests
<1>3. CASE ResolveSecrets /\ pc' = "inspect"
  BY <1>3 DEF ResolveSecrets
<1>4. CASE Inspect /\ pc' = "wire"
  BY <1>4 DEF Inspect, NotWired, Return
<1> QED  BY <1>1, <1>2, <1>3, <1>4, Flow DEF Published

(* ResolveSecrets goes on only with every reference resolved.              *)
LEMMA Resolved ==
  ASSUME LoopInv, TypeInv, ResolveSecrets, pc' = "inspect"
  PROVE  job'.st.version[1] = job.commit /\ \A r \in job.spec.refs : job'.tok[r] > 0
<1> DEFINE refs == job.spec.refs
           tok == [r \in refs |-> secret[r]]
           ready == {r \in refs : tok[r] > 0}
           est == job.st.est \cap refs
           d == Evaluate(refs, ready, est, 0, 0)
           st == [job.st EXCEPT !.est = est]
           v == VersionWithSecrets(job.commit, EnvTokens(refs, tok))
<1>1. d.allReady /\ job' = [job EXCEPT !.st = Advance(SetTrue(st, "SecretsReady"), tok), !.tok = tok]
  BY DEF ResolveSecrets
<1>2. d.allReady => refs \ ready = {}
  BY DEF Evaluate
<1>3. st \in StatusType
  BY StatusFields, ConstantsAssumption
  DEF LoopInv, TypeInv, WorkerTyped, ResolveSecrets, At, ConstantsAssumption, StatusType
<1>4. SetTrue(st, "SecretsReady") \in StatusType
  BY <1>3, StatusOps DEF Conditions, Gates
<1>5. Advance(SetTrue(st, "SecretsReady"), tok).version = v
  BY <1>4 DEF Advance, StatusType
<1>6. v[1] = job.commit
  BY DEF VersionWithSecrets
<1> HIDE DEF v, d, st
<1>7. job'.st = Advance(SetTrue(st, "SecretsReady"), tok) /\ job'.tok = tok
  BY <1>1 DEF LoopInv, ShapeInv, IsJob
<1>8. \A r \in refs : tok[r] > 0
  BY <1>1, <1>2
<1> QED  BY <1>5, <1>6, <1>7, <1>8

(* The published ConfigMap stays as it is until the reconcile ends.        *)
LEMMA OwnedStays ==
  ASSUME LoopInv, TypeInv, [Next]_vars, "tamper" \notin Moves,
         pc \in Published \cup {"progress", "objectStamp", "status"},
         store[job.spec.cm].owner = Me
  PROVE  store'[job.spec.cm] = store[job.spec.cm]
<1> USE DEF LoopInv, TypeInv
<1> DEFINE n == job.spec.cm
<1>0. /\ None \notin Syncs /\ ConfigMaps \cap Manifests = {}
      /\ \A c \in Commits : ManifestsOf[c] \subseteq Manifests
      /\ \A sp \in Specs : sp.cm \in ConfigMaps
  BY ConstantsAssumption DEF ConstantsAssumption
<1>1. n \in ConfigMaps /\ n \in Names /\ store[n] # NoObject
  BY <1>0 DEF WorkerTyped, WorkerInv, Names, Published, NoObject
<1>2. ~Placed(n)
  <2>1. pc # "patch"
    BY DEF Published
  <2>2. pc = "manifests" => n \notin ManifestsOf[job.commit]
    BY <1>0, <1>1 DEF WorkerTyped, Fetched
  <2> QED  BY <2>1, <2>2 DEF Placed, PatchConfigMap, ApplyManifests, ApplyManifestsFails, At
<1>3. ~Pruned(n)
  BY <1>0, <1>1 DEF Pruned, Published
<1>4. ~Made(n) /\ ~Tampered(n)
  BY <1>1 DEF Made, Tampered, DeleteObject, Move
<1> QED  BY <1>1, <1>2, <1>3, <1>4, ObjectNext

LEMMA PublishedStep ==
  ASSUME LoopInv, TypeInv, PublishedInv, [Next]_vars, "tamper" \notin Moves
  PROVE  PublishedInv'
<1> USE DEF LoopInv, TypeInv
<1>1. pc # "idle" => job.spec.cm \in Names
  BY ConstantsAssumption DEF WorkerTyped, Names, ConstantsAssumption
<1>2. pc \in Published => store'[job.spec.cm] = store[job.spec.cm]
  BY OwnedStays DEF PublishedInv, Rendered, Me
<1>3. ASSUME pc' \in Published PROVE store'[job'.spec.cm] = Rendered(job')
  <2>1. CASE PatchConfigMap /\ job'.sync = job.sync /\ job'.spec = job.spec /\ job'.commit = job.commit
    <3>1. job.spec.cm \in Names /\ store' = [store EXCEPT ![job.spec.cm] = Rendered(job)]
      BY <1>1, <2>1 DEF PatchConfigMap, At, WriteStore
    <3>2. store'[job.spec.cm] = Rendered(job)
      BY <3>1 DEF StoreTyped
    <3> QED  BY <2>1, <3>2 DEF Rendered
  <2>2. CASE pc \in Published /\ job'.sync = job.sync /\ job'.spec = job.spec /\ job'.commit = job.commit
    BY <1>2, <1>3, <2>2 DEF PublishedInv, Rendered
  <2>3. pc \in Published \/ PatchConfigMap
    BY <1>3, Carried
    DEF Published, PruneConfigMaps, ApplyManifests, PruneManifests, ResolveSecrets, Inspect, At
  <2> QED  BY <1>3, <2>1, <2>2, <2>3, Carried
<1>4. ASSUME pc' \in {"inspect", "wire"}
      PROVE  job'.st.version[1] = job'.commit /\ \A r \in job'.spec.refs : job'.tok[r] > 0
  <2>1. pc' \in Published
    BY <1>4 DEF Published
  <2>2. CASE UNCHANGED <<pc, job>>
    BY <1>4, <2>2 DEF PublishedInv
  <2>3. CASE Inspect /\ job' = job
    BY <2>3 DEF PublishedInv, Inspect, At
  <2>4. CASE ResolveSecrets /\ pc' = "inspect" /\ job'.spec = job.spec /\ job'.commit = job.commit
    BY <2>4, Resolved
  <2> QED  BY <1>4, <2>1, <2>2, <2>3, <2>4, Carried
<1> QED  BY <1>3, <1>4 DEF PublishedInv

(* The ConfigMap is published before the pods are told of its version.     *)
THEOREM PublishedInvariance ==
  ASSUME "tamper" \notin Moves PROVE Spec => []PublishedInv
<1>1. Init => PublishedInv
  BY DEF Init, PublishedInv, Published
<1> QED  BY <1>1, PublishedStep, LoopInvariance, TypeInvariance, PTL DEF Spec

(***************************************************************************)
(* A stamp moves only to a version whose content the mounted ConfigMap     *)
(* holds and whose secrets were resolved: nothing but a user deleting the  *)
(* ConfigMap can come between the apply and the wiring, not a stale cache, *)
(* a failed prune, another sync or a push to the branch.                   *)
(***************************************************************************)
THEOREM StampsArePublished ==
  ASSUME "tamper" \notin Moves PROVE Spec => StampOnlyPublished
<1> DEFINE Backed ==
      \A w \in Workloads :
        LET t == wl'[w].tmpl
        IN  t.stamp \notin {None, wl[w].tmpl.stamp} =>
              /\ store[t.cm] = [owner |-> wl'[w].by, data |-> <<t.stamp[1], job.spec.path>>]
              /\ \A r \in t.refs : job.tok[r] > 0
<1>1. LoopInv /\ TypeInv /\ PublishedInv /\ [Next]_vars => Backed
  <2> SUFFICES ASSUME LoopInv, TypeInv, PublishedInv, [Next]_vars, NEW w \in Workloads,
                      wl'[w].tmpl.stamp \notin {None, wl[w].tmpl.stamp}
               PROVE  LET t == wl'[w].tmpl
                      IN  /\ store[t.cm] = [owner |-> wl'[w].by, data |-> <<t.stamp[1], job.spec.path>>]
                          /\ \A r \in t.refs : job.tok[r] > 0
    OBVIOUS
  <2>1. ~Retracted(w) /\ ~Replaced(w) /\ ~Restamped(w) /\ ~Moved(w)
    BY DEF Retracted, Replaced, Restamped, Moved, Unwired
  <2>2. ~Stripped(w)
    <3>1. wl[w].tmpl \in TemplateType
      BY DEF TypeInv, WorkloadsTyped, WorkloadType
    <3> QED  BY <3>1 DEF Stripped, TemplateType, Unwired
  <2>3. Rewired(w)
    BY <2>1, <2>2, WorkloadNext DEF Changed
  <2>4. pc = "wire" /\ wl'[w].tmpl = Template(job) /\ wl'[w].by = Me
    BY <2>3 DEF Rewired, Wire, At
  <2>5. wl'[w].tmpl.cm = job.spec.cm /\ wl'[w].tmpl.refs = job.spec.refs /\ wl'[w].tmpl.stamp = job.st.version
    BY <2>4 DEF Template
  <2> QED  BY <2>4, <2>5 DEF PublishedInv, Published, Rendered, Me
<1> HIDE DEF Backed
<1>2. StampOnlyPublished <=> [][Backed]_vars
  BY DEF StampOnlyPublished, Backed
<1> QED  BY <1>1, <1>2, LoopInvariance, TypeInvariance, PublishedInvariance, PTL DEF Spec

------------------------------------------------------------------------------
(* R-ROLLOUT.2.  With a current cache of the workloads, a reconcile that   *)
(* goes on to wire does not find the version already stamped.              *)
WireInv ==
  /\ wlc = wl
  /\ pc = "wire" /\ job.spec.mode = "auto" =>
       wl[job.spec.wl].tmpl.stamp = None \/ wl[job.spec.wl].tmpl.stamp # job.st.version

LEMMA WireStep ==
  ASSUME LoopInv, TypeInv, WireInv, [Next]_vars, "workload" \notin Lag
  PROVE  WireInv'
<1> USE DEF LoopInv, TypeInv
<1>1. wlc' = wl'
  BY WorkloadNext DEF WireInv
<1>2. ASSUME pc' = "wire", job'.spec.mode = "auto"
      PROVE  LET t == wl'[job'.spec.wl].tmpl IN t.stamp = None \/ t.stamp # job'.st.version
  <2> DEFINE w == job.spec.wl
  <2>1. pc' \in Published
    BY <1>2 DEF Published
  <2>2. w \in Workloads
    <3>1. pc # "idle"
      BY <1>2, <2>1, Carried DEF Inspect, At
    <3> QED  BY <3>1, ConstantsAssumption DEF WorkerTyped, ConstantsAssumption
  <2>3. CASE UNCHANGED <<pc, job>>
    <3>1. ~Rewired(w) /\ ~Retracted(w) /\ ~Restamped(w)
      BY <1>2, <2>3
      DEF Rewired, Retracted, Restamped, Wire, Unwire, StampNoRestart, ClearStamp, At, Continue, Return
    <3>2. wl[w].tmpl \in TemplateType
      BY <2>2 DEF WorkloadsTyped, WorkloadType
    <3>3. wl'[w].tmpl.stamp \in {None, wl[w].tmpl.stamp}
      <4>1. Replaced(w) => wl'[w].tmpl.stamp = None
        BY DEF Replaced, Unwired
      <4>2. Stripped(w) => wl'[w].tmpl.stamp \in {None, wl[w].tmpl.stamp}
        BY <3>2 DEF Stripped, Unwired, TemplateType
      <4>3. Moved(w) => wl'[w].tmpl = wl[w].tmpl
        BY DEF Moved
      <4> QED  BY <2>2, <3>1, <4>1, <4>2, <4>3, WorkloadNext DEF Changed
    <3> QED  BY <1>2, <2>3, <3>3 DEF WireInv
  <2>4. CASE Inspect /\ job' = job
    <3>1. wl' = wl /\ wlc[w].tmpl.stamp # job.st.version
      BY <1>2, <2>4 DEF Inspect, cluster, workloads, Continue, NotWired, Return
    <3> QED  BY <2>4, <3>1 DEF WireInv
  <2> QED  BY <1>2, <2>1, <2>3, <2>4, Carried
<1> QED  BY <1>1, <1>2 DEF WireInv

THEOREM WireInvariance ==
  ASSUME "workload" \notin Lag PROVE Spec => []WireInv
<1>1. Init => WireInv
  BY DEF Init, WireInv
<1> QED  BY <1>1, WireStep, LoopInvariance, TypeInvariance, PTL DEF Spec

(***************************************************************************)
(* One version costs at most one rollout: while the stamp stays, the       *)
(* operator does not touch the pod template, whoever else strips fields,   *)
(* replaces the workload or interrupts the reconcile (inspectWorkload and  *)
(* Wirer.Wire, with a read cache that does not lag).                       *)
(***************************************************************************)
THEOREM OneRollout ==
  ASSUME "workload" \notin Lag PROVE Spec => OneRolloutPerVersion
<1> DEFINE Frugal ==
      \A w \in Workloads :
        Operator /\ wl[w].tmpl.stamp # None /\ wl'[w].tmpl # wl[w].tmpl =>
          wl'[w].tmpl.stamp # wl[w].tmpl.stamp
<1>1. LoopInv /\ TypeInv /\ WireInv /\ [Next]_vars => Frugal
  <2> SUFFICES ASSUME LoopInv, TypeInv, WireInv, [Next]_vars, NEW w \in Workloads, Operator,
                      wl[w].tmpl.stamp # None, wl'[w].tmpl # wl[w].tmpl
               PROVE  wl'[w].tmpl.stamp # wl[w].tmpl.stamp
    OBVIOUS
  <2>1. pc # "idle" => job.spec.mode \in {"auto", "none"}
    BY ConstantsAssumption DEF TypeInv, WorkerTyped, ConstantsAssumption
  <2>2. Rewired(w) => wl'[w].tmpl.stamp # wl[w].tmpl.stamp
    <3>1. CASE Rewired(w) /\ job.spec.mode = "auto"
      BY <3>1 DEF Rewired, Wire, At, Template, WireInv
    <3>2. CASE Rewired(w) /\ job.spec.mode = "none"
      BY <3>2 DEF Rewired, Template
    <3> QED  BY <2>1, <3>1, <3>2 DEF Rewired, Wire, At
  <2>3. Retracted(w) \/ Replaced(w) => wl'[w].tmpl.stamp = None
    BY DEF Retracted, Replaced, Unwired
  <2>4. ~Restamped(w) /\ ~Moved(w)
    BY DEF Restamped, Moved
  <2>5. ~Stripped(w)
    <3>1. UNCHANGED moves /\ moves \in Nat
      BY OperatorWrites, ConstantsAssumption DEF TypeInv, RestTyped, ConstantsAssumption
    <3> QED  BY <3>1 DEF Stripped, StripStamp, StripFields, Move
  <2> QED  BY <2>2, <2>3, <2>4, <2>5, WorkloadNext DEF Changed
<1> HIDE DEF Frugal
<1>2. OneRolloutPerVersion <=> [][Frugal]_vars
  BY DEF OneRolloutPerVersion, Frugal
<1> QED  BY <1>1, <1>2, LoopInvariance, TypeInvariance, WireInvariance, PTL DEF Spec

------------------------------------------------------------------------------
(* What a workload mounts.  A ConfigSync keeps its workload and the name   *)
(* of its ConfigMap: renaming it prunes the old one before the workload is *)
(* wired with the new.                                                     *)
Unrenamed ==
  \A s \in Syncs : cs[s].live /\ cs'[s].live =>
    cs'[s].spec.wl = cs[s].spec.wl /\ cs'[s].spec.cm = cs[s].spec.cm
NoRename == [][Unrenamed]_vars

(* A sync owns no ConfigMap but the one of its spec, and a mounted one     *)
(* belongs to the sync that wired it.                                      *)
MountInv ==
  /\ \A n \in ConfigMaps, s \in Syncs : store[n].owner = s => n = cs[s].spec.cm
  /\ \A n \in ConfigMaps, w \in Workloads :
       wl[w].tmpl.cm = n => wl[w].by \in Syncs /\ store[n].owner = wl[w].by
  /\ pc # "idle" => job.spec.cm = cs[Me].spec.cm
  /\ pc = "patch" => store[job.spec.cm].owner \notin Syncs \ {Me}

LEMMA MountInit == ASSUME Init PROVE MountInv
BY ConstantsAssumption, FreshTyped
DEF Init, MountInv, NoObject, Unwired, Names, ConstantsAssumption

(* A prune does not hit a mounted ConfigMap: of its own the reconcile      *)
(* keeps the one of the spec, and a deletion has unwired before.           *)
LEMMA PruneSpares ==
  ASSUME LoopInv, TypeInv, OwnerInv, MountInv, ReadsCurrent, NEW n \in ConfigMaps, Pruned(n),
         store[n].owner \in Syncs
  PROVE  \A w \in Workloads : wl[w].tmpl.cm # n
<1> USE DEF LoopInv, TypeInv
<1>1. /\ pc = "finalPrune" \/ (pc = "prune" /\ n # job.spec.cm)
      /\ Me \in Syncs /\ n \in Names /\ User \notin Syncs
  BY ConstantsAssumption
  DEF Pruned, PruneConfigMaps, PruneConfigMapsFails, PruneManifests, PruneManifestsFails, At,
      WorkerInv, ConstantsAssumption, Names
<1>2. store[n].owner = Me
  <2>1. SeenOwner(n) = store[n].owner
    BY <1>1, SeenCurrent DEF ReadsCurrent
  <2> QED  BY <1>1, <2>1 DEF Pruned, SeenLabel
<1>3. n = job.spec.cm
  BY <1>1, <1>2 DEF MountInv
<1>4. pc \in Retreated
  BY <1>1, <1>3 DEF Retreated
<1> QED  BY <1>2, <1>4 DEF MountInv, OwnerInv

LEMMA MountStep ==
  ASSUME LoopInv, LoopInv', TypeInv, TypeInv', ObjectInv, ObjectInv', OwnerInv, PublishedInv, MountInv,
         [Next]_vars, Unrenamed, ReadsCurrent, "tamper" \notin Moves
  PROVE  MountInv'
<1> USE DEF LoopInv, TypeInv
<1>0. /\ None \notin Syncs /\ User \notin Syncs /\ None \notin ConfigMaps
      /\ ConfigMaps \cap Manifests = {} /\ \A c \in Commits : ManifestsOf[c] \subseteq Manifests
      /\ \A n \in ConfigMaps : n \in Names
      /\ \A sp \in Specs : sp.cm \in ConfigMaps
  BY ConstantsAssumption DEF ConstantsAssumption, Names
<1>1. pc # "idle" => job.spec.cm \in ConfigMaps /\ Me \in Syncs /\ cs[Me].live
  BY <1>0 DEF WorkerTyped, WorkerInv
<1>2. ASSUME NEW n \in ConfigMaps
      PROVE  \/ store'[n] = store[n]
             \/ PatchConfigMap /\ n = job.spec.cm /\ store'[n].owner = Me
             \/ Pruned(n) /\ store'[n].owner = None
             \/ store[n].owner = None /\ store'[n].owner = User
  <2>1. Placed(n) => PatchConfigMap /\ n = job.spec.cm /\ store'[n].owner = Me
    <3>1. ApplyManifests \/ ApplyManifestsFails => n \notin ManifestsOf[job.commit]
      BY <1>0 DEF ApplyManifests, ApplyManifestsFails, At, WorkerTyped, Fetched
    <3> QED  BY <3>1 DEF Placed, Rendered, Me
  <2>2. Pruned(n) => store'[n].owner = None
    BY DEF Pruned, NoObject
  <2>3. Made(n) => store[n].owner = None /\ store'[n].owner = User
    BY DEF Made, NoObject
  <2>4. ~Tampered(n)
    BY DEF Tampered, DeleteObject, Move
  <2> QED  BY <1>0, <2>1, <2>2, <2>3, <2>4, ObjectNext
<1>3. ASSUME NEW n \in ConfigMaps, NEW s \in Syncs, store'[n].owner = s PROVE n = cs'[s].spec.cm
  <2>1. cs'[s].live
    BY <1>0, <1>3 DEF ObjectInv, ObjectsGuarded, ShapeInv, IsSync
  <2>2. CASE store'[n] = store[n]
    <3>1. cs[s].live
      <4>1. n \in Names /\ store[n].owner = s
        BY <1>0, <1>3, <2>2
      <4>2. cs[s].fin
        BY <4>1 DEF ObjectInv, ObjectsGuarded
      <4> QED  BY <4>2 DEF ShapeInv, IsSync
    <3> QED  BY <1>3, <2>1, <2>2, <3>1 DEF MountInv, Unrenamed
  <2>3. CASE PatchConfigMap /\ n = job.spec.cm /\ store'[n].owner = Me
    <3>1. pc # "idle" /\ s = Me
      BY <1>3, <2>3 DEF PatchConfigMap, At
    <3> QED  BY <1>1, <2>1, <2>3, <3>1 DEF MountInv, Unrenamed
  <2> QED  BY <1>0, <1>2, <1>3, <2>2, <2>3
<1>4. ASSUME NEW n \in ConfigMaps, NEW w \in Workloads, wl'[w].tmpl.cm = n
      PROVE  wl'[w].by \in Syncs /\ store'[n].owner = wl'[w].by
  <2>1. CASE wl[w].tmpl.cm = n /\ wl'[w].by = wl[w].by
    <3>1. wl[w].by \in Syncs /\ store[n].owner = wl[w].by
      BY <2>1 DEF MountInv
    <3>2. CASE PatchConfigMap /\ n = job.spec.cm /\ store'[n].owner = Me
      BY <2>1, <3>1, <3>2 DEF MountInv, PatchConfigMap, At
    <3> QED  BY <1>0, <1>2, <2>1, <3>1, <3>2, PruneSpares
  <2>2. CASE Rewired(w)
    <3>1. pc = "wire" /\ n = job.spec.cm /\ wl'[w].by = Me /\ UNCHANGED store
      BY <1>4, <2>2 DEF Rewired, Wire, At, Template, objects
    <3> QED  BY <1>1, <3>1 DEF PublishedInv, Published, Rendered, Me
  <2>3. CASE Retracted(w) \/ Replaced(w)
    BY <1>0, <1>4, <2>3 DEF Retracted, Replaced, Unwired
  <2>4. CASE Stripped(w)
    <3>1. wl[w].tmpl \in TemplateType
      BY DEF WorkloadsTyped, WorkloadType
    <3>2. wl[w].tmpl.cm = n /\ wl'[w].by = wl[w].by
      BY <1>0, <1>4, <2>4, <3>1 DEF Stripped, TemplateType, Unwired
    <3> QED  BY <2>1, <3>2
  <2>5. CASE Restamped(w) \/ Moved(w) \/ wl'[w] = wl[w]
    BY <1>4, <2>1, <2>5 DEF Restamped, Moved
  <2> QED  BY <2>2, <2>3, <2>4, <2>5, WorkloadNext DEF Changed
<1>5. ASSUME pc' # "idle" PROVE job'.spec.cm = cs'[job'.sync].spec.cm
  <2>1. job'.sync \in Syncs /\ cs'[job'.sync].live
    BY <1>5 DEF WorkerInv, Me
  <2>2. CASE \E s \in Syncs : BeginSync(s) \/ BeginFinalize(s)
    <3>1. PICK s \in Syncs : BeginSync(s) \/ BeginFinalize(s)
      BY <2>2, SMTT(30)
    <3>2. job'.sync = s /\ job'.spec = cs[s].spec /\ UNCHANGED cs
      BY <3>1, Begins DEF BeginSync, BeginFinalize, cluster
    <3> QED  BY <3>2
  <2>3. CASE pc # "idle" /\ job'.sync = Me /\ job'.spec = job.spec
    BY <1>1, <2>1, <2>3 DEF MountInv, Unrenamed
  <2> QED  BY <1>5, <2>2, <2>3, Flow DEF Me
<1>6. ASSUME pc' = "patch" PROVE store'[job'.spec.cm].owner \notin Syncs \ {job'.sync}
  <2> DEFINE n == job.spec.cm
  <2>1. \/ UNCHANGED <<pc, job>>
        \/ CheckConfigMap /\ job'.sync = Me /\ job'.spec = job.spec
    <3>1. ASSUME NEW s \in Syncs, BeginSync(s) \/ BeginFinalize(s) PROVE FALSE
      BY <1>6, <3>1 DEF BeginSync, BeginFinalize
    <3> QED  BY <1>6, <3>1, Flow
  <2>2. CASE UNCHANGED <<pc, job>>
    <3>1. n \in ConfigMaps /\ Me \in Syncs /\ ~PatchConfigMap
      BY <1>1, <1>6, <2>2 DEF PatchConfigMap, Continue
    <3> QED  BY <1>0, <1>2, <1>6, <2>2, <3>1 DEF MountInv, Me
  <2>3. CASE CheckConfigMap /\ job'.sync = Me /\ job'.spec = job.spec
    <3>1. n \in ConfigMaps /\ MayApply(n) /\ UNCHANGED store /\ pc = "apply"
      BY <1>1, <1>6, <2>3 DEF CheckConfigMap, At, Continue, Return, cluster, objects
    <3>2. store[n].owner \in {None, Me}
      BY <1>0, <3>1, SeenCurrent DEF MayApply, OwnedBy, ReadsCurrent
    <3> QED  BY <1>0, <2>3, <3>1, <3>2
  <2> QED  BY <2>1, <2>2, <2>3
<1> QED  BY <1>3, <1>4, <1>5, <1>6 DEF MountInv, Me

(* What is mounted belongs to the sync that mounted it.                    *)
THEOREM MountInvariance ==
  ASSUME ~Ties, "list" \notin Moves, "tamper" \notin Moves
  PROVE  Spec /\ NoRename /\ []ReadsCurrent => []MountInv
<1>1. LoopInv /\ LoopInv' /\ TypeInv /\ TypeInv' /\ ObjectInv /\ ObjectInv' /\ OwnerInv /\ PublishedInv
        /\ MountInv /\ ReadsCurrent /\ [Next]_vars /\ [Unrenamed]_vars => MountInv'
  <2>1. UNCHANGED vars => Unrenamed
    BY DEF vars, Unrenamed
  <2> QED  BY <2>1, MountStep
<1>2. [Unrenamed]_vars => [Retained]_vars
  BY DEF Unrenamed, Retained
<1>3. NoRename => NoRetarget
  BY <1>2, PTL DEF NoRename, NoRetarget
<1> QED
  BY <1>1, <1>3, MountInit, LoopInvariance, TypeInvariance, ObjectInvariance, CurrentFinalList,
     OwnerInvariance, PublishedInvariance, PTL DEF Spec, NoRename

(***************************************************************************)
(* No prune and no deletion of a sync takes a ConfigMap away from under a  *)
(* workload that mounts it, also when several syncs name one ConfigMap or  *)
(* one workload and users create objects of that name; unless a sync is    *)
(* renamed or retargeted, users delete ConfigMaps, or the cache has not    *)
(* caught up when ConfigMaps are checked or listed (Applier.Prune).        *)
(***************************************************************************)
THEOREM MountedSpared ==
  ASSUME ~Ties, "list" \notin Moves, "tamper" \notin Moves
  PROVE  Spec /\ NoRename /\ []ReadsCurrent => MountedNeverPruned
<1> DEFINE Spares ==
      \A n \in ConfigMaps :
        Operator /\ store[n].owner \in Syncs /\ store'[n] = NoObject =>
          \A w \in Workloads : ~(wl[w].exists /\ wl[w].tmpl.cm = n)
<1>1. LoopInv /\ TypeInv /\ OwnerInv /\ MountInv /\ ReadsCurrent /\ [Next]_vars => Spares
  <2> SUFFICES ASSUME LoopInv, TypeInv, OwnerInv, MountInv, ReadsCurrent, [Next]_vars, NEW n \in ConfigMaps,
                      Operator, store[n].owner \in Syncs, store'[n] = NoObject
               PROVE  \A w \in Workloads : wl[w].tmpl.cm # n
    OBVIOUS
  <2>1. None \notin Syncs /\ User # None /\ n \in Names
    BY ConstantsAssumption DEF ConstantsAssumption, Names
  <2>2. store'[n] # store[n] /\ ~Made(n) /\ ~Tampered(n)
    BY <2>1 DEF NoObject, Made, Tampered, DeleteObject, Move
  <2>3. ~Placed(n)
    <3>1. Placed(n) => Me \in Syncs
      BY DEF Placed, PatchConfigMap, ApplyManifests, ApplyManifestsFails, At, LoopInv, WorkerInv
    <3> QED  BY <2>1, <3>1 DEF Placed, Rendered, NoObject, Me
  <2>4. Pruned(n)
    BY <2>1, <2>2, <2>3, ObjectNext
  <2> QED  BY <2>4, PruneSpares
<1> HIDE DEF Spares
<1>2. MountedNeverPruned <=> [][Spares]_vars
  BY DEF MountedNeverPruned, Spares
<1>3. [Unrenamed]_vars => [Retained]_vars
  BY DEF Unrenamed, Retained
<1>4. NoRename => NoRetarget
  BY <1>3, PTL DEF NoRename, NoRetarget
<1> QED
  BY <1>1, <1>2, <1>4, LoopInvariance, TypeInvariance, OwnerInvariance, MountInvariance, PTL
  DEF Spec

------------------------------------------------------------------------------
(* Established marks.  A ConfigSync keeps its workload and its references. *)
KeepsRefs ==
  \A s \in Syncs : cs[s].live /\ cs'[s].live =>
    cs'[s].spec.wl = cs[s].spec.wl /\ cs'[s].spec.refs = cs[s].spec.refs
NoRefEdit == [][KeepsRefs]_vars

Versioned == {"inspect", "wire", "progress", "objectStamp"}

(* A stamp comes from a sync that has wired its references, and a         *)
(* reconcile that reports them has wired them, now or before.              *)
EstInv ==
  /\ \A w \in Workloads : wl[w].tmpl.stamp # None => wl[w].by \in Syncs
  /\ \A w \in Workloads, s \in Syncs : wl[w].by = s => cs[s].spec.refs \subseteq wired[s]
  /\ pc # "idle" => job.spec.refs = cs[Me].spec.refs /\ job.st.est \subseteq wired[Me]
  /\ pc \in Versioned => job.st.version \in Versions
  /\ pc \in {"progress", "objectStamp"} => job.spec.refs \subseteq wired[Me]
  /\ EstablishedWired

(* The helpers on statuses, field by field.                                *)
SameFields(st, new) ==
  new.observed = st.observed /\ new.version = st.version /\ new.est = st.est

LEMMA StatusKeeps ==
  ASSUME NEW st \in StatusType
  PROVE  /\ \A c : SameFields(st, SetTrue(st, c)) /\ SameFields(st, SetFalse(st, c))
         /\ "WorkloadWired" \notin SetFalse(st, "WorkloadWired").conds
         /\ \A reason : SameFields(st, NotReady(st, reason)) /\ NotReady(st, reason).ready = reason
         /\ LET new == Wired(st)
            IN  /\ new.observed = st.observed /\ new.version = st.version
                /\ new.workloadVersion = st.workloadVersion
                /\ new.ready = ComputeReady(st.conds, st.complete)
                /\ new.est = IF "WorkloadWired" \in st.conds THEN job.spec.refs ELSE st.est
<1>1. \A c : SameFields(st, SetTrue(st, c)) /\ SameFields(st, SetFalse(st, c))
  BY DEF StatusType, SameFields, SetTrue, SetFalse
<1>2. "WorkloadWired" \notin SetFalse(st, "WorkloadWired").conds
  BY DEF StatusType, SetFalse
<1>3. \A reason : SameFields(st, NotReady(st, reason)) /\ NotReady(st, reason).ready = reason
  BY DEF StatusType, SameFields, NotReady
<1>4. LET new == Wired(st)
      IN  /\ new.observed = st.observed /\ new.version = st.version
          /\ new.workloadVersion = st.workloadVersion
          /\ new.ready = ComputeReady(st.conds, st.complete)
          /\ new.est = IF "WorkloadWired" \in st.conds THEN job.spec.refs ELSE st.est
  BY DEF Wired, StatusType
<1> QED  BY <1>1, <1>2, <1>3, <1>4

(* A reconcile that comes to the status write with Ready=True.             *)
Reports ==
  /\ \/ RolloutProgress /\ Progress(wlc[job.spec.wl]) = "Complete"
     \/ StampNoRestart
  /\ job'.st.version = job.st.version /\ job'.st.workloadVersion = job.st.version

(* What a step of the worker does to the status it carries.                *)
StatusCarried ==
  /\ job'.st.observed = job.st.observed
  /\ \/ job'.st.est \subseteq job.st.est
     \/ pc \in {"progress", "objectStamp"} /\ job'.st.est = job.spec.refs
  /\ pc' \in {"wire", "progress", "objectStamp"} => pc \in Versioned /\ job'.st.version = job.st.version
  /\ pc' = "inspect" => job'.st.version \in Versions
  /\ pc' = "status" /\ job'.st.ready = "Synced" => Reports

LEMMA Continuing ==
  ASSUME LoopInv, NEW label, NEW st, Continue(label, st)
  PROVE  pc' = label /\ job'.st = st
BY DEF LoopInv, ShapeInv, IsJob, Continue

LEMMA ReportsLater ==
  ASSUME LoopInv, TypeInv, pc # "idle"
  PROVE  /\ NotWired => StatusCarried
         /\ StampNoRestart \/ StampNoRestartFails \/ RolloutProgress => StatusCarried
<1> USE DEF LoopInv, TypeInv
<1>0. job.st \in StatusType
  BY DEF WorkerTyped
<1>1. ASSUME NotWired PROVE StatusCarried
  <2> DEFINE x == SetFalse(job.st, "WorkloadWired")
  <2>1. x \in StatusType /\ SameFields(job.st, x) /\ "WorkloadWired" \notin x.conds
    BY <1>0, StatusOps, StatusKeeps DEF Conditions, Gates
  <2>2. pc' = "status" /\ job'.st = Wired(x)
    BY <1>1, Continuing DEF NotWired, Return
  <2> HIDE DEF x
  <2>3. ComputeReady(x.conds, x.complete) = "Degraded"
    BY <2>1 DEF ComputeReady, Gates
  <2> QED  BY <2>1, <2>2, <2>3, StatusKeeps DEF StatusCarried, SameFields
<1>2. ASSUME StampNoRestart \/ RolloutProgress PROVE StatusCarried
  <2> DEFINE x == SetTrue(job.st, "WorkloadWired")
  <2>1. x \in StatusType /\ SameFields(job.st, x)
    BY <1>0, StatusOps, StatusKeeps DEF Conditions, Gates
  <2>2. Progress(wlc[job.spec.wl]) \in Completes /\ "Complete" \in Completes
    BY DEF Progress, Completes
  <2>3. PICK d \in Completes :
          /\ Return(Wired([x EXCEPT !.complete = d, !.workloadVersion = job.st.version]))
          /\ \/ StampNoRestart
             \/ RolloutProgress /\ d = Progress(wlc[job.spec.wl])
    BY <1>2, <2>2 DEF StampNoRestart, RolloutProgress
  <2> DEFINE y == [x EXCEPT !.complete = d, !.workloadVersion = job.st.version]
  <2>4. job.st.version \in Versions \cup {None}
    BY <1>0 DEF StatusType
  <2> HIDE DEF x
  <2>5. y \in StatusType /\ SameFields(x, y) /\ y.complete = d /\ y.workloadVersion = job.st.version
    BY <2>1, <2>4 DEF StatusType, SameFields
  <2>6. pc' = "status" /\ job'.st = Wired(y)
    BY <2>3, Continuing DEF Return
  <2> HIDE DEF y
  <2>7. /\ job'.st.observed = job.st.observed /\ job'.st.version = job.st.version
        /\ job'.st.workloadVersion = job.st.version
        /\ job'.st.ready = ComputeReady(y.conds, y.complete)
        /\ job'.st.est \in {job.spec.refs, job.st.est}
    BY <2>1, <2>5, <2>6, StatusKeeps DEF SameFields
  <2>8. job'.st.ready = "Synced" => d = "Complete"
    BY <2>5, <2>7 DEF ComputeReady
  <2>9. pc \in {"progress", "objectStamp"}
    BY <1>2 DEF StampNoRestart, RolloutProgress, At
  <2> QED  BY <2>3, <2>6, <2>7, <2>8, <2>9 DEF StatusCarried, Reports
<1>3. ASSUME StampNoRestartFails PROVE StatusCarried
  <2> DEFINE x == SetTrue(job.st, "WorkloadWired")
             y == [x EXCEPT !.complete = "Degraded"]
  <2>1. x \in StatusType /\ SameFields(job.st, x)
    BY <1>0, StatusOps, StatusKeeps DEF Conditions, Gates
  <2>2. pc' = "status" /\ job'.st = Wired(y)
    BY <1>3, Continuing DEF StampNoRestartFails, Return
  <2> HIDE DEF x
  <2>3. y \in StatusType /\ SameFields(x, y) /\ y.complete = "Degraded"
    BY <2>1 DEF StatusType, SameFields, Completes
  <2> HIDE DEF y
  <2>4. /\ job'.st.observed = job.st.observed /\ job'.st.ready = ComputeReady(y.conds, y.complete)
        /\ job'.st.est \in {job.spec.refs, job.st.est}
    BY <2>1, <2>2, <2>3, StatusKeeps DEF SameFields
  <2>5. job'.st.ready # "Synced"
    BY <2>3, <2>4 DEF ComputeReady
  <2>6. pc = "objectStamp"
    BY <1>3 DEF StampNoRestartFails, At
  <2> QED  BY <2>2, <2>4, <2>5, <2>6 DEF StatusCarried
<1> QED  BY <1>1, <1>2, <1>3

LEMMA StatusFlow ==
  ASSUME LoopInv, TypeInv, [Next]_vars, pc' # "idle", ~UNCHANGED <<pc, job>>,
         \A s \in Syncs : ~BeginSync(s) /\ ~BeginFinalize(s)
  PROVE  pc # "idle" /\ job'.sync = Me /\ job'.spec = job.spec /\ UNCHANGED cs /\ StatusCarried
<1> USE DEF LoopInv, TypeInv
<1>0. pc # "idle" /\ job'.sync = Me /\ job'.spec = job.spec /\ UNCHANGED cs
  BY Flow
<1>1. job.st \in StatusType
  BY DEF WorkerTyped
<1>2. ASSUME NEW label, Continue(label, job.st),
             \/ label \notin Versioned \cup {"status"}
             \/ label \in {"wire", "progress", "objectStamp"} /\ pc \in Versioned
      PROVE  StatusCarried
  BY <1>2, <1>0, Continuing DEF StatusCarried, Versioned
<1>3. \A c \in Conditions : Return(NotReady(SetFalse(job.st, c), "Degraded")) => StatusCarried
  <2> SUFFICES ASSUME NEW c \in Conditions, Return(NotReady(SetFalse(job.st, c), "Degraded"))
               PROVE  StatusCarried
    OBVIOUS
  <2> DEFINE x == SetFalse(job.st, c)
  <2>1. x \in StatusType /\ SameFields(job.st, x)
    BY <1>1, StatusOps, StatusKeeps
  <2>2. pc' = "status" /\ job'.st = NotReady(x, "Degraded")
    BY Continuing DEF Return
  <2> HIDE DEF x
  <2> QED  BY <2>1, <2>2, StatusKeeps DEF StatusCarried, SameFields
<1>4. Return(NotReady(job.st, "Degraded")) => StatusCarried
  <2> SUFFICES ASSUME Return(NotReady(job.st, "Degraded")) PROVE StatusCarried
    OBVIOUS
  <2>1. pc' = "status" /\ job'.st = NotReady(job.st, "Degraded")
    BY Continuing DEF Return
  <2> QED  BY <1>1, <2>1, StatusKeeps DEF StatusCarried, SameFields
<1>5. {"Fetched", "Rendered", "ManifestsApplied", "SecretsReady", "WorkloadWired"} \subseteq Conditions
  BY DEF Conditions, Gates
<1> USE DEF At
<1>6. FetchAndRender => StatusCarried
  <2> SUFFICES ASSUME FetchAndRender PROVE StatusCarried
    OBVIOUS
  <2> DEFINE x == SetTrue(job.st, "Fetched")
  <2>1. x \in StatusType /\ SameFields(job.st, x)
    BY <1>1, <1>5, StatusOps, StatusKeeps
  <2>2. \/ pc' = "status" /\ job' = [job EXCEPT !.st = NotReady(SetFalse(x, "Rendered"), "Degraded")]
        \/ pc' = "apply" /\ job' = [job EXCEPT !.st = SetTrue(x, "Rendered"), !.commit = head]
    BY DEF FetchAndRender
  <2>3. \/ pc' = "status" /\ job'.st = NotReady(SetFalse(x, "Rendered"), "Degraded")
        \/ pc' = "apply" /\ job'.st = SetTrue(x, "Rendered")
    BY <2>2 DEF ShapeInv, IsJob
  <2> HIDE DEF x
  <2>4. SetFalse(x, "Rendered") \in StatusType
    BY <1>5, <2>1, StatusOps
  <2>5. SameFields(x, job'.st) /\ (pc' = "status" => job'.st.ready = "Degraded")
    <3>1. CASE pc' = "status" /\ job'.st = NotReady(SetFalse(x, "Rendered"), "Degraded")
      BY <2>1, <2>4, <3>1, StatusKeeps DEF SameFields
    <3>2. CASE pc' = "apply" /\ job'.st = SetTrue(x, "Rendered")
      BY <2>1, <3>2, StatusKeeps
    <3> QED  BY <2>3, <3>1, <3>2
  <2> QED  BY <2>1, <2>3, <2>5 DEF StatusCarried, SameFields
<1>7. ResolveSecrets => StatusCarried
  <2> SUFFICES ASSUME ResolveSecrets PROVE StatusCarried
    OBVIOUS
  <2> DEFINE refs == job.spec.refs
             tok == [r \in refs |-> secret[r]]
             ready == {r \in refs : tok[r] > 0}
             est == job.st.est \cap refs
             d == Evaluate(refs, ready, est, 0, 0)
             st == [job.st EXCEPT !.est = est]
             v == VersionWithSecrets(job.commit, EnvTokens(refs, tok))
  <2>1. st \in StatusType /\ st.observed = job.st.observed /\ st.est \subseteq job.st.est
    BY <1>1 DEF StatusType
  <2>2. \/ /\ pc' = "inspect"
           /\ job' = [job EXCEPT !.st = Advance(SetTrue(st, "SecretsReady"), tok), !.tok = tok]
        \/ /\ pc' = "status" /\ ~d.allReady
           /\ job' = [job EXCEPT !.st = NotReady(SetFalse(st, "SecretsReady"), d.readyReason)]
    BY DEF ResolveSecrets
  <2>3. ~d.allReady => d.readyReason # "Synced"
    BY DEF Evaluate
  <2>4. v \in Versions
    <3>1. job.commit \in Commits /\ refs \subseteq Refs
      BY ConstantsAssumption DEF ResolveSecrets, WorkerTyped, Fetched, ConstantsAssumption
    <3>2. EnvRefs \cap refs \in SUBSET EnvRefs /\ EnvTokens(refs, tok) \in [EnvRefs \cap refs -> Tokens]
      BY <3>1 DEF EnvTokens, RestTyped
    <3> QED  BY <3>1, <3>2, VersionsHold
  <2>5. Advance(SetTrue(st, "SecretsReady"), tok) = [SetTrue(st, "SecretsReady") EXCEPT !.version = v]
    BY DEF Advance
  <2> HIDE DEF st, d, v, tok
  <2>6. \/ pc' = "inspect" /\ job'.st = [SetTrue(st, "SecretsReady") EXCEPT !.version = v]
        \/ /\ pc' = "status" /\ ~d.allReady
           /\ job'.st = NotReady(SetFalse(st, "SecretsReady"), d.readyReason)
    BY <2>2, <2>5 DEF ShapeInv, IsJob
  <2>7. CASE pc' = "inspect" /\ job'.st = [SetTrue(st, "SecretsReady") EXCEPT !.version = v]
    <3>1. SetTrue(st, "SecretsReady") \in StatusType /\ SameFields(st, SetTrue(st, "SecretsReady"))
      BY <1>5, <2>1, StatusOps, StatusKeeps
    <3>2. job'.st.version = v /\ job'.st.observed = st.observed /\ job'.st.est = st.est
      BY <2>7, <3>1 DEF StatusType, SameFields
    <3> QED  BY <2>1, <2>4, <2>7, <3>2 DEF StatusCarried
  <2>8. CASE /\ pc' = "status" /\ ~d.allReady
             /\ job'.st = NotReady(SetFalse(st, "SecretsReady"), d.readyReason)
    <3>1. SetFalse(st, "SecretsReady") \in StatusType /\ SameFields(st, SetFalse(st, "SecretsReady"))
      BY <1>5, <2>1, StatusOps, StatusKeeps
    <3>2. job'.st.ready = d.readyReason /\ SameFields(st, job'.st)
      BY <2>8, <3>1, StatusKeeps DEF SameFields
    <3> QED  BY <2>1, <2>3, <2>8, <3>2 DEF StatusCarried, SameFields
  <2> QED  BY <2>6, <2>7, <2>8
<1>8. PruneManifests => StatusCarried
  <2> SUFFICES ASSUME PruneManifests PROVE StatusCarried
    OBVIOUS
  <2>1. pc' = "resolve" /\ job'.st = SetTrue(job.st, "ManifestsApplied")
    BY Continuing DEF PruneManifests
  <2> QED  BY <1>1, <2>1, StatusKeeps DEF StatusCarried, SameFields
<1>9. CheckConfigMap \/ PatchConfigMap \/ PruneConfigMaps \/ ApplyManifests => StatusCarried
  BY <1>2, <1>4 DEF CheckConfigMap, PatchConfigMap, PruneConfigMaps, ApplyManifests, Versioned
<1>10. Unwire \/ ClearStamp \/ FinalPrune \/ FinalPruneManifests => StatusCarried
  BY <1>2 DEF Unwire, ClearStamp, FinalPrune, FinalPruneManifests, Versioned
<1>11. Inspect \/ Wire \/ WireFails => StatusCarried
  BY <1>0, <1>2, ReportsLater DEF Inspect, Wire, WireFails, Versioned
<1>12. ManifestsRejected \/ ApplyManifestsFails \/ FetchFails \/ PatchConfigMapFails
         \/ PruneConfigMapsFails \/ PruneManifestsFails => StatusCarried
  BY <1>3, <1>4, <1>5
  DEF ManifestsRejected, ApplyManifestsFails, FetchFails, PatchConfigMapFails, PruneConfigMapsFails,
      PruneManifestsFails
<1>13. ~UpdateStatus /\ ~UpdateStatusFails /\ ~DropFinalizer /\ ~DropFinalizerConflict /\ ~FinalizeFails
         /\ ~Crash
  BY DEF UpdateStatus, UpdateStatusFails, DropFinalizer, DropFinalizerConflict, FinalizeFails, Crash,
         Requeue
<1>14. ~(\E s \in Syncs : Reconcile(s)) /\ ~Users /\ ~Kubernetes /\ ~UNCHANGED vars
  <2>1. ASSUME NEW s \in Syncs, Reconcile(s) PROVE FALSE
    BY <2>1, SMTT(30) DEF Reconcile, ReconcileGone, AddFinalizer, ClearSyncNow
  <2>2. ASSUME Users \/ Kubernetes \/ UNCHANGED vars PROVE FALSE
    BY <2>2, ZenonT(40)
    DEF Users, Kubernetes, CreateSync, EditSpec, AnnotateSyncNow, DeleteSync, Touch, Push, ChangeSecret,
        ReplaceWorkload, StripStamp, StripFields, StickRollout, ResumeRollout, CreateForeign,
        DeleteObject, FinishRollout, ObserveWorkload, ObserveConfigMap, worker, vars
  <2> QED  BY <2>1, <2>2
<1> QED
  BY <1>0, <1>6, <1>7, <1>8, <1>9, <1>10, <1>11, <1>12, <1>13, <1>14, ReportsLater
  DEF Next, Operator, Pipeline, Faults

(* The history of wired references only grows.                             *)
LEMMA WiredNext ==
  ASSUME LoopInv, TypeInv, [Next]_vars
  PROVE  /\ \A s \in Syncs : wired[s] \subseteq wired'[s]
         /\ Wire => job.spec.refs \subseteq wired'[Me]
<1> USE DEF LoopInv, TypeInv, cluster
<1>1. CASE Wire
  <2>1. Me \in Syncs /\ wired' = [wired EXCEPT ![Me] = @ \cup job.spec.refs]
    BY <1>1 DEF Wire, At, WorkerInv
  <2> QED  BY <2>1 DEF RestTyped
<1>2. CASE ~Wire
  <2>1. ASSUME \E s \in Syncs : Reconcile(s) \/ CreateSync(s) \/ EditSpec(s) \/ AnnotateSyncNow(s) \/ DeleteSync(s)
        PROVE  wired' = wired
    BY <2>1
    DEF Reconcile, ReconcileGone, AddFinalizer, ClearSyncNow, BeginSync, BeginFinalize, CreateSync,
        EditSpec, AnnotateSyncNow, DeleteSync
  <2>2. Faults => wired' = wired
    BY DEF Faults, FetchFails, PatchConfigMapFails, PruneConfigMapsFails, PruneManifestsFails,
           FinalizeFails, Crash
  <2>3. Pipeline => wired' = wired
    BY <1>2
    DEF Pipeline, FetchAndRender, CheckConfigMap, PatchConfigMap, PruneConfigMaps, ManifestsRejected,
        ApplyManifests, ApplyManifestsFails, PruneManifests, ResolveSecrets, Inspect, WireFails,
        StampNoRestart, StampNoRestartFails, RolloutProgress, UpdateStatus, UpdateStatusFails, Unwire,
        ClearStamp, FinalPrune, FinalPruneManifests, DropFinalizer, DropFinalizerConflict
  <2>4. ASSUME \/ Push \/ \E r \in Refs : ChangeSecret(r)
               \/ \E w \in Workloads : ReplaceWorkload(w) \/ StripStamp(w) \/ StripFields(w)
                                       \/ StickRollout(w) \/ ResumeRollout(w)
               \/ \E n \in Names : CreateForeign(n) \/ DeleteObject(n)
        PROVE  wired' = wired
    BY <2>4
    DEF Push, ChangeSecret, ReplaceWorkload, StripStamp, StripFields, StickRollout, ResumeRollout,
        CreateForeign, DeleteObject
  <2>5. Kubernetes \/ UNCHANGED vars => wired' = wired
    BY DEF Kubernetes, FinishRollout, ObserveWorkload, ObserveConfigMap, vars
  <2>6. wired' = wired
    BY <2>1, <2>2, <2>3, <2>4, <2>5 DEF Next, Operator, Users
  <2> QED  BY <1>2, <2>6
<1> QED  BY <1>1, <1>2

LEMMA EstInit == ASSUME Init PROVE EstInv
<1>1. \A s \in Syncs : cs[s].status.est = {}
  BY DEF Init, Absent, NoStatus
<1>2. EstablishedWired
  BY <1>1 DEF EstablishedWired
<1> QED
  BY <1>2, FreshTyped, ConstantsAssumption DEF Init, EstInv, Versioned, Unwired, ConstantsAssumption

(* The sync a live ConfigSync's workload was wired by is that ConfigSync.  *)
LEMMA OwnWorkload ==
  ASSUME LoopInv, TypeInv, OwnerInv, Alone, pc # "idle",
         wl[job.spec.wl].by \in Syncs
  PROVE  wl[job.spec.wl].by = Me
<1>1. job.spec.wl \in Workloads /\ Me \in Syncs /\ cs[Me].live
  BY ConstantsAssumption DEF LoopInv, TypeInv, WorkerInv, WorkerTyped, ConstantsAssumption
<1> QED  BY <1>1 DEF OwnerInv, Alone

(* What the reconcile reads of its workload from the cache is right: it    *)
(* does not take the version for stamped that the workload has not, nor    *)
(* an older rollout's completion for this one's.                           *)
NoStaleMatch ==
  pc = "inspect" /\ wlc[job.spec.wl].tmpl.stamp = job.st.version =>
    wl[job.spec.wl].tmpl.stamp = job.st.version
NoStaleCompletion ==
  pc = "progress" /\ Progress(wlc[job.spec.wl]) = "Complete" =>
    wl[job.spec.wl].rollout = "done"

LEMMA EstStep ==
  ASSUME LoopInv, LoopInv', TypeInv, TypeInv', OwnerInv, NoStaleMatch, EstInv, Alone, [Next]_vars,
         KeepsRefs
  PROVE  EstInv'
<1> USE DEF LoopInv, TypeInv
<1>0. /\ None \notin Syncs /\ None \notin Versions
      /\ \A w \in Workloads : wl[w] \in WorkloadType /\ wl[w].tmpl \in TemplateType
  BY ConstantsAssumption, VersionsAssumption
  DEF ConstantsAssumption, WorkloadsTyped, WorkloadType
<1>1. pc # "idle" => Me \in Syncs /\ cs[Me].live
  BY DEF WorkerInv
<1>2. ASSUME NEW w \in Workloads
      PROVE  \/ wl'[w].by = wl[w].by /\ wl'[w].tmpl.stamp \in {None, wl[w].tmpl.stamp}
             \/ wl'[w].by = None /\ wl'[w].tmpl.stamp = None
             \/ Wire /\ wl'[w].by = Me
  <2>1. Stripped(w) => wl'[w].by = wl[w].by /\ wl'[w].tmpl.stamp \in {None, wl[w].tmpl.stamp}
    BY <1>0 DEF Stripped, Unwired, TemplateType
  <2>2. Retracted(w) \/ Replaced(w) => wl'[w].by = None /\ wl'[w].tmpl.stamp = None
    BY DEF Retracted, Replaced, Unwired
  <2>3. Restamped(w) \/ Moved(w) => wl'[w].by = wl[w].by /\ wl'[w].tmpl = wl[w].tmpl
    BY DEF Restamped, Moved
  <2>4. Rewired(w) => Wire /\ wl'[w].by = Me
    BY DEF Rewired
  <2> QED  BY <2>1, <2>2, <2>3, <2>4, WorkloadNext DEF Changed
<1>3. ASSUME NEW w \in Workloads, wl'[w].tmpl.stamp # None PROVE wl'[w].by \in Syncs
  BY <1>1, <1>2, <1>3 DEF EstInv, Wire, At
<1>4. ASSUME NEW w \in Workloads, NEW s \in Syncs, wl'[w].by = s
      PROVE  cs'[s].spec.refs \subseteq wired'[s]
  <2>1. CASE wl[w].by = s
    <3>1. cs[s].live /\ cs[s].fin /\ cs[s].spec.refs \subseteq wired[s]
      BY <2>1 DEF OwnerInv, EstInv
    <3>2. CASE DropFinalizer /\ s = Me
      BY <2>1, <3>2 DEF DropFinalizer, At, OwnerInv, Retreated
    <3>3. CASE ~(DropFinalizer /\ s = Me)
      <4>1. cs'[s].live
        BY <3>1, <3>3, GuardedLives
      <4> QED  BY <3>1, <4>1, WiredNext DEF KeepsRefs
    <3> QED  BY <3>2, <3>3
  <2>2. CASE Wire /\ s = Me
    <3>1. UNCHANGED cs /\ job.spec.refs = cs[s].spec.refs
      BY <2>2 DEF Wire, At, EstInv
    <3> QED  BY <2>2, <3>1, WiredNext
  <2> QED  BY <1>0, <1>2, <1>4, <2>1, <2>2
<1>5. ASSUME NEW s \in Syncs PROVE cs'[s].status.est \subseteq wired'[s]
  <2>1. cs[s].status.est \subseteq wired[s]
    BY DEF EstInv, EstablishedWired
  <2>2. Created(s) \/ Removed(s) => cs'[s].status.est = {}
    BY DEF Created, Removed, NoStatus
  <2>3. CASE UpdateStatus /\ s = Me /\ cs'[s].status = job.st
    BY <2>3, WiredNext DEF UpdateStatus, At, EstInv
  <2>4. CASE cs'[s].status = cs[s].status
    BY <2>1, <2>4, WiredNext
  <2> QED  BY <2>2, <2>3, <2>4, SyncNext DEF Updated
<1>6. ASSUME pc' # "idle"
      PROVE  /\ job'.spec.refs = cs'[job'.sync].spec.refs /\ job'.st.est \subseteq wired'[job'.sync]
             /\ pc' \in Versioned => job'.st.version \in Versions
             /\ pc' \in {"progress", "objectStamp"} => job'.spec.refs \subseteq wired'[job'.sync]
  <2>1. job'.sync \in Syncs /\ cs'[job'.sync].live
    BY <1>6 DEF WorkerInv, Me
  <2>2. CASE UNCHANGED <<pc, job>>
    <3>1. Me \in Syncs /\ cs[Me].live /\ pc # "idle" /\ wired[Me] \subseteq wired'[Me]
      BY <1>1, <1>6, <2>2, WiredNext
    <3> QED  BY <2>1, <2>2, <3>1 DEF EstInv, KeepsRefs, Me
  <2>3. CASE \E s \in Syncs : BeginSync(s) \/ BeginFinalize(s)
    <3>1. PICK s \in Syncs : BeginSync(s) \/ BeginFinalize(s)
      BY <2>3, SMTT(30)
    <3>2. job'.sync = s /\ job'.spec = cs[s].spec /\ UNCHANGED cs /\ wired' = wired /\ pc' \notin Versioned
      BY <3>1, Begins DEF BeginSync, BeginFinalize, cluster, Versioned
    <3>3. job'.st.est \subseteq cs[s].status.est
      <4>1. CASE BeginFinalize(s)
        BY <4>1 DEF BeginFinalize, NoJob, NoStatus
      <4>2. CASE BeginSync(s)
        <5> DEFINE st == [cs[s].status EXCEPT !.observed = cs[s].spec]
        <5>1. cs[s].spec \in Specs /\ cs[s].status \in StatusType
          BY <4>2 DEF BeginSync, SyncsTyped, SyncType
        <5>2. st \in StatusType /\ st.est = cs[s].status.est
          BY <5>1 DEF StatusType
        <5>3. SetFalse(st, "WorkloadWired") \in StatusType
          BY <5>2, StatusOps DEF Conditions, Gates
        <5>4. \/ job' = [[NoJob EXCEPT !.sync = s, !.spec = cs[s].spec] EXCEPT !.st = st]
              \/ job' = [[NoJob EXCEPT !.sync = s, !.spec = cs[s].spec] EXCEPT
                           !.st = NotReady(SetFalse(st, "WorkloadWired"), "Degraded")]
          BY <4>2 DEF BeginSync
        <5> HIDE DEF st
        <5>5. job'.st \in {st, NotReady(SetFalse(st, "WorkloadWired"), "Degraded")}
          BY <5>4 DEF NoJob
        <5> QED  BY <5>2, <5>3, <5>5, StatusKeeps DEF SameFields
      <4> QED  BY <3>1, <4>1, <4>2
    <3>4. cs[s].status.est \subseteq wired[s] /\ pc' \notin {"progress", "objectStamp"}
      BY <3>2 DEF EstInv, EstablishedWired, Versioned
    <3> QED  BY <3>2, <3>3, <3>4
  <2>4. CASE ~UNCHANGED <<pc, job>> /\ ~\E s \in Syncs : BeginSync(s) \/ BeginFinalize(s)
    <3>1. pc # "idle" /\ job'.sync = Me /\ job'.spec = job.spec /\ UNCHANGED cs /\ StatusCarried
      BY <1>6, <2>4, StatusFlow
    <3>2. job'.spec.refs = cs'[job'.sync].spec.refs /\ wired[Me] \subseteq wired'[Me]
      BY <1>1, <3>1, WiredNext DEF EstInv, Me
    <3>3. job'.st.est \subseteq wired'[Me]
      BY <3>1, <3>2 DEF StatusCarried, EstInv
    <3>4. pc' \in Versioned => job'.st.version \in Versions
      BY <3>1 DEF StatusCarried, EstInv, Versioned
    <3>5. ASSUME pc' \in {"progress", "objectStamp"} PROVE job.spec.refs \subseteq wired'[Me]
      <4>1. Wire \/ (Inspect /\ pc' = "progress")
        BY <2>4, <3>5, Flow
      <4>2. CASE Inspect /\ pc' = "progress"
        <5>1. wlc[job.spec.wl].tmpl.stamp = job.st.version /\ pc = "inspect"
          BY <4>2 DEF Inspect, At, Continue, NotWired, Return
        <5>2. wl[job.spec.wl].tmpl.stamp # None /\ job.spec.wl \in Workloads
          BY <1>0, <5>1, ConstantsAssumption
          DEF NoStaleMatch, EstInv, Versioned, WorkerTyped, ConstantsAssumption
        <5>3. wl[job.spec.wl].by = Me
          BY <3>1, <5>2, OwnWorkload DEF EstInv
        <5> QED  BY <1>1, <3>1, <3>2, <5>2, <5>3 DEF EstInv
      <4> QED  BY <4>1, <4>2, WiredNext
    <3> QED  BY <3>1, <3>2, <3>3, <3>4, <3>5
  <2> QED  BY <2>2, <2>3, <2>4
<1>7. pc' \in Versioned => pc' # "idle"
  BY DEF Versioned
<1> QED  BY <1>3, <1>4, <1>5, <1>6, <1>7 DEF EstInv, EstablishedWired, Me

(***************************************************************************)
(* A reference is marked Established only when its workload has been wired *)
(* with it, also when the reconcile that marks it found the version        *)
(* stamped already and wired nothing (markSecretsEstablished).  Assumed: a *)
(* workload per sync, whose target and references stay, and that the stamp *)
(* found in the cache is on the workload.                                  *)
(***************************************************************************)
THEOREM EstablishedOnlyWired ==
  Spec /\ NoRefEdit /\ []Alone /\ []NoStaleMatch => []EstablishedWired
<1>1. LoopInv /\ LoopInv' /\ TypeInv /\ TypeInv' /\ OwnerInv /\ NoStaleMatch /\ EstInv /\ Alone
        /\ [Next]_vars /\ [KeepsRefs]_vars => EstInv'
  <2>1. UNCHANGED vars => KeepsRefs
    BY DEF vars, KeepsRefs
  <2> QED  BY <2>1, EstStep
<1>2. [KeepsRefs]_vars => [Retained]_vars
  BY DEF KeepsRefs, Retained
<1>3. NoRefEdit => NoRetarget
  BY <1>2, PTL DEF NoRefEdit, NoRetarget
<1>4. EstInv => EstablishedWired
  BY DEF EstInv
<1> QED
  BY <1>1, <1>3, <1>4, EstInit, LoopInvariance, TypeInvariance, SoleOwnerInvariance, PTL
  DEF Spec, NoRefEdit

------------------------------------------------------------------------------
(* Ready=True.  The moves that undo what a reconcile has seen before it    *)
(* can report it: edits, and others writing the workload or the ConfigMap. *)
Undoing == {"edit", "workload", "stripStamp", "stripFields", "resume", "tamper"}

(* Template t is what a sync with the spec sp wires.                       *)
WiredAs(t, sp) ==
  /\ t.cm = sp.cm /\ t.mount = sp.mount /\ t.refs = sp.refs
  /\ sp.mode = "none" => t.stamp = None

(* Before the status is built: the ConfigMap holds the commit, the         *)
(* workload carries this sync's template and, by mode, the version.        *)
Carries ==
  /\ store[job.spec.cm] = Rendered(job) /\ job.st.version[1] = job.commit
  /\ wl[job.spec.wl].by = Me
  /\ pc = "progress" => job.spec.mode = "auto" /\ wl[job.spec.wl].tmpl.stamp = job.st.version
  /\ pc = "objectStamp" => job.spec.mode = "none"

Honest ==
  /\ Applied(Me, job.spec, job.st.version)
  /\ job.st.workloadVersion = job.st.version

RolledOut == job.spec.mode = "auto" => wl[job.spec.wl].rollout = "done"

HonestInv ==
  /\ \A w \in Workloads : wl[w].exists
  /\ \A w \in Workloads, s \in Syncs : wl[w].by = s => WiredAs(wl[w].tmpl, cs[s].spec)
  /\ pc # "idle" => job.spec = cs[Me].spec
  /\ pc \in SyncLabels => job.st.observed = job.spec
  /\ pc \in {"objectStamp", "progress"} => Carries
  /\ pc = "status" /\ job.st.ready = "Synced" => Honest

DoneInv == pc = "status" /\ job.st.ready = "Synced" => RolledOut

LEMMA HonestInit == ASSUME Init PROVE HonestInv /\ DoneInv
BY ConstantsAssumption DEF Init, HonestInv, DoneInv, SyncLabels, Fresh, ConstantsAssumption

(* Without edits the specs stay.                                           *)
LEMMA SpecsStay ==
  ASSUME LoopInv, TypeInv, [Next]_vars, "edit" \notin Moves, NEW s \in Syncs, cs[s].live, cs'[s].live
  PROVE  cs'[s].spec = cs[s].spec
BY SyncNext DEF Created, Removed, Updated, EditSpec, Move

(* Nobody but the operator and the rollout changes a workload.             *)
LEMMA OnlyWorkerWrites ==
  ASSUME LoopInv, TypeInv, [Next]_vars, Moves \cap Undoing = {}, NEW w \in Workloads
  PROVE  \/ wl'[w] = wl[w] \/ Rewired(w) \/ Retracted(w) \/ Restamped(w)
         \/ /\ wl'[w].exists = wl[w].exists /\ wl'[w].tmpl = wl[w].tmpl /\ wl'[w].by = wl[w].by
            /\ wl'[w].objStamp = wl[w].objStamp /\ UNCHANGED <<pc, job>>
            /\ wl[w].rollout = "done" => wl'[w].rollout = "done"
<1>1. ~Replaced(w) /\ ~Stripped(w)
  BY DEF Replaced, Stripped, ReplaceWorkload, StripStamp, StripFields, Move, Undoing
<1>2. Moved(w) => UNCHANGED <<pc, job>> /\ (wl[w].rollout = "done" => wl'[w].rollout = "done")
  BY DEF Moved, FinishRollout, StickRollout, ResumeRollout, Move, Undoing, worker
<1> QED  BY <1>1, <1>2, WorkloadNext DEF Changed, Moved

(* A reconcile starts with the observed spec and not by reporting Ready.   *)
LEMMA BeginReady ==
  ASSUME LoopInv, TypeInv, NEW s \in Syncs, BeginSync(s) \/ BeginFinalize(s)
  PROVE  /\ pc' \in SyncLabels => job'.st.observed = job'.spec
         /\ pc' \in {"fetch", "status", "finalPrune", "unwire"}
         /\ pc' = "status" => job'.st.ready # "Synced"
<1> USE DEF LoopInv, TypeInv
<1>1. CASE BeginFinalize(s)
  BY <1>1 DEF BeginFinalize, SyncLabels
<1>2. CASE BeginSync(s)
  <2> DEFINE st == [cs[s].status EXCEPT !.observed = cs[s].spec]
  <2>1. cs[s].spec \in Specs /\ cs[s].status \in StatusType
    BY <1>2 DEF BeginSync, SyncsTyped, SyncType
  <2>2. st \in StatusType /\ st.observed = cs[s].spec
    BY <2>1 DEF StatusType
  <2>3. SetFalse(st, "WorkloadWired") \in StatusType
    BY <2>2, StatusOps DEF Conditions, Gates
  <2>4. \/ /\ job' = [[NoJob EXCEPT !.sync = s, !.spec = cs[s].spec] EXCEPT !.st = st]
           /\ pc' = "fetch"
        \/ /\ job' = [[NoJob EXCEPT !.sync = s, !.spec = cs[s].spec] EXCEPT
                        !.st = NotReady(SetFalse(st, "WorkloadWired"), "Degraded")]
           /\ pc' = "status"
    BY <1>2 DEF BeginSync
  <2> HIDE DEF st
  <2>5. \/ job'.st = st /\ pc' = "fetch"
        \/ job'.st = NotReady(SetFalse(st, "WorkloadWired"), "Degraded") /\ pc' = "status"
    BY <2>4 DEF NoJob
  <2>6. job'.spec = cs[s].spec
    BY <1>2, Begins
  <2> QED  BY <2>2, <2>3, <2>5, <2>6, StatusKeeps DEF SameFields
<1> QED  BY <1>1, <1>2

LEMMA HonestStep ==
  ASSUME LoopInv, LoopInv', TypeInv, TypeInv', OwnerInv, NoStaleMatch, EstInv, PublishedInv, HonestInv,
         Alone, [Next]_vars, Moves \cap Undoing = {}
  PROVE  HonestInv'
<1> USE DEF LoopInv, TypeInv
<1>0. /\ None \notin Syncs /\ None \notin Versions /\ "edit" \notin Moves /\ "tamper" \notin Moves
      /\ \A w \in Workloads : wl[w] \in WorkloadType
  BY ConstantsAssumption, VersionsAssumption DEF ConstantsAssumption, WorkloadsTyped, Undoing
<1>1. pc # "idle" => /\ Me \in Syncs /\ cs[Me].live /\ job.spec.wl \in Workloads
                     /\ job.spec.mode \in {"auto", "none"} /\ job.spec.cm \in ConfigMaps
  BY ConstantsAssumption DEF WorkerInv, WorkerTyped, ConstantsAssumption
<1>2. ASSUME NEW w \in Workloads PROVE wl'[w].exists
  BY OnlyWorkerWrites DEF HonestInv, Rewired, Retracted, Restamped
<1>3. ASSUME NEW w \in Workloads, NEW s \in Syncs, wl'[w].by = s
      PROVE  WiredAs(wl'[w].tmpl, cs'[s].spec)
  <2>1. CASE wl[w].by = s /\ wl'[w].tmpl = wl[w].tmpl
    <3>1. cs[s].live /\ cs[s].fin /\ WiredAs(wl[w].tmpl, cs[s].spec)
      BY <2>1 DEF OwnerInv, HonestInv
    <3>2. CASE DropFinalizer /\ s = Me
      BY <2>1, <3>2 DEF DropFinalizer, At, OwnerInv, Retreated
    <3>3. CASE ~(DropFinalizer /\ s = Me)
      <4>1. cs'[s].spec = cs[s].spec
        BY <1>0, <3>1, <3>3, GuardedLives, SpecsStay
      <4> QED  BY <2>1, <3>1, <4>1
    <3> QED  BY <3>2, <3>3
  <2>2. CASE Rewired(w)
    <3>1. wl'[w].tmpl = Template(job) /\ s = Me /\ UNCHANGED cs /\ job.spec = cs[s].spec
      BY <1>3, <2>2 DEF Rewired, Wire, At, HonestInv
    <3> QED  BY <3>1 DEF Template, WiredAs
  <2> QED  BY <1>0, <1>3, <2>1, <2>2, OnlyWorkerWrites DEF Retracted, Restamped
<1>4. ASSUME pc' # "idle" PROVE job'.spec = cs'[job'.sync].spec
  <2>1. job'.sync \in Syncs /\ cs'[job'.sync].live
    BY <1>4 DEF WorkerInv, Me
  <2>2. CASE \E s \in Syncs : BeginSync(s) \/ BeginFinalize(s)
    <3>1. PICK s \in Syncs : BeginSync(s) \/ BeginFinalize(s)
      BY <2>2, SMTT(30)
    <3>2. job'.sync = s /\ job'.spec = cs[s].spec /\ UNCHANGED cs
      BY <3>1, Begins DEF BeginSync, BeginFinalize, cluster
    <3> QED  BY <3>2
  <2>3. CASE pc # "idle" /\ job'.sync = Me /\ job'.spec = job.spec
    <3>1. cs'[Me].spec = cs[Me].spec
      BY <1>0, <1>1, <2>1, <2>3, SpecsStay
    <3> QED  BY <2>3, <3>1 DEF HonestInv
  <2> QED  BY <1>4, <2>2, <2>3, Flow DEF Me
<1>5. ASSUME NEW s \in Syncs, BeginSync(s) \/ BeginFinalize(s)
      PROVE  /\ pc' \in SyncLabels => job'.st.observed = job'.spec
             /\ pc' \in {"fetch", "status", "finalPrune", "unwire"}
             /\ pc' = "status" => job'.st.ready # "Synced"
  BY <1>5, BeginReady
<1>6. ASSUME ~UNCHANGED <<pc, job>>, pc' # "idle", ~\E s \in Syncs : BeginSync(s) \/ BeginFinalize(s)
      PROVE  pc # "idle" /\ job'.sync = Me /\ job'.spec = job.spec /\ UNCHANGED cs /\ StatusCarried
  BY <1>6, StatusFlow
<1>7. ASSUME pc' \in SyncLabels PROVE job'.st.observed = job'.spec
  <2>1. CASE UNCHANGED <<pc, job>>
    BY <1>7, <2>1 DEF HonestInv
  <2>2. CASE ~UNCHANGED <<pc, job>> /\ ~\E s \in Syncs : BeginSync(s) \/ BeginFinalize(s)
    <3>1. pc' # "idle"
      BY <1>7 DEF SyncLabels
    <3>2. pc \in SyncLabels
      BY <1>7, <2>2, <3>1, Flow
      DEF SyncLabels, FetchAndRender, CheckConfigMap, PatchConfigMap, PruneConfigMaps, ApplyManifests,
          PruneManifests, ResolveSecrets, Inspect, Wire, At
    <3> QED  BY <1>6, <2>2, <3>1, <3>2 DEF StatusCarried, HonestInv
  <2> QED  BY <1>5, <1>7, <2>1, <2>2
<1>8. ASSUME pc' \in {"objectStamp", "progress"}
      PROVE  /\ store'[job'.spec.cm] = Rendered(job') /\ job'.st.version[1] = job'.commit
             /\ wl'[job'.spec.wl].by = job'.sync
             /\ pc' = "progress" =>
                  job'.spec.mode = "auto" /\ wl'[job'.spec.wl].tmpl.stamp = job'.st.version
             /\ pc' = "objectStamp" => job'.spec.mode = "none"
  <2> DEFINE w == job.spec.wl
  <2>1. \/ UNCHANGED <<pc, job>>
        \/ Wire
        \/ Inspect /\ pc' = "progress"
    BY <1>5, <1>8, Flow
  <2>2. CASE UNCHANGED <<pc, job>>
    <3>1. Carries /\ w \in Workloads
      BY <1>1, <1>8, <2>2 DEF HonestInv
    <3>2. store'[job.spec.cm] = store[job.spec.cm]
      BY <1>0, <1>8, <2>2, <3>1, OwnedStays DEF Carries, Rendered, Me
    <3>3. ~Rewired(w) /\ ~Retracted(w) /\ ~Restamped(w)
      BY <1>8, <2>2
      DEF Rewired, Retracted, Restamped, Wire, Unwire, StampNoRestart, ClearStamp, At, Continue, Return
    <3>4. wl'[w].by = wl[w].by /\ wl'[w].tmpl = wl[w].tmpl
      BY <3>1, <3>3, OnlyWorkerWrites
    <3> QED  BY <2>2, <3>1, <3>2, <3>4 DEF Carries, Rendered, Me
  <2>3. CASE Wire
    <3>1. pc = "wire" /\ w \in Workloads /\ UNCHANGED store /\ wl[w].exists
      BY <1>1, <2>3 DEF Wire, At, objects, ResolvesContainer
    <3>2. job'.st = job.st /\ pc' = (IF job.spec.mode = "auto" THEN "progress" ELSE "objectStamp")
      BY <2>3, Continuing DEF Wire
    <3>3. job'.sync = job.sync /\ job'.spec = job.spec /\ job'.commit = job.commit
      BY <2>3 DEF Wire, Continue, ShapeInv, IsJob
    <3>4. wl'[w].by = Me /\ wl'[w].tmpl = Template(job)
      <4>1. wl' = [wl EXCEPT ![w] = WithTemplate(wl[w], Template(job), Me)]
        BY <2>3 DEF Wire, WriteWorkload
      <4>2. Template(job) \in TemplateType /\ Me \in Syncs \cup {None} /\ wl[w] \in WorkloadType
        BY <1>0, <1>1, <3>1, Templates
      <4> QED  BY <3>1, <4>1, <4>2, TemplateWrites DEF WorkloadsTyped
    <3>5. job.spec.mode = "auto" => wl'[w].tmpl.stamp = job.st.version
      BY <3>4 DEF Template
    <3>6. store[job.spec.cm] = Rendered(job) /\ job.st.version[1] = job.commit
      BY <3>1 DEF PublishedInv, Published
    <3>7. job.spec.mode \in {"auto", "none"}
      BY <1>1, <3>1
    <3> QED  BY <1>8, <3>1, <3>2, <3>3, <3>4, <3>5, <3>6, <3>7 DEF Rendered, Me
  <2>4. CASE Inspect /\ pc' = "progress"
    <3>1. /\ pc = "inspect" /\ w \in Workloads /\ UNCHANGED <<store, wl>> /\ job.spec.mode = "auto"
          /\ wlc[w].tmpl.stamp = job.st.version /\ Continue("progress", job.st)
      BY <1>1, <2>4 DEF Inspect, At, Continue, NotWired, Return, cluster, objects, workloads
    <3>2. job' = job
      BY <3>1 DEF Continue, ShapeInv, IsJob
    <3>3. wl[w].tmpl.stamp = job.st.version /\ wl[w].tmpl.stamp # None
      BY <1>0, <3>1 DEF NoStaleMatch, EstInv, Versioned
    <3>4. wl[w].by = Me
      BY <3>1, <3>3, OwnWorkload DEF EstInv
    <3> QED  BY <2>4, <3>1, <3>2, <3>3, <3>4 DEF PublishedInv, Published, Me
  <2> QED  BY <2>1, <2>2, <2>3, <2>4
<1>9. ASSUME pc' = "status", job'.st.ready = "Synced"
      PROVE  LET x == wl'[job'.spec.wl]
                 sp == job'.spec
                 v == job'.st.version
             IN  /\ x.exists /\ x.tmpl.cm = sp.cm /\ x.tmpl.mount = sp.mount /\ x.tmpl.refs = sp.refs
                 /\ v = IF sp.mode = "auto" THEN x.tmpl.stamp ELSE x.objStamp
                 /\ sp.mode = "none" => x.tmpl.stamp = None
                 /\ store'[sp.cm] = [owner |-> job'.sync, data |-> <<v[1], sp.path>>]
                 /\ job'.st.workloadVersion = v
  <2> DEFINE w == job.spec.wl
  <2>1. CASE UNCHANGED <<pc, job>>
    <3>1. Honest /\ w \in Workloads
      BY <1>1, <1>9, <2>1 DEF HonestInv
    <3>2. ~Rewired(w) /\ ~Retracted(w) /\ ~Restamped(w)
      BY <1>9, <2>1
      DEF Rewired, Retracted, Restamped, Wire, Unwire, StampNoRestart, ClearStamp, At, Continue, Return
    <3>3. /\ wl'[w].exists = wl[w].exists /\ wl'[w].tmpl = wl[w].tmpl /\ wl'[w].objStamp = wl[w].objStamp
      BY <3>1, <3>2, OnlyWorkerWrites
    <3>4. store'[job.spec.cm] = store[job.spec.cm]
      <4>1. store[job.spec.cm].owner = Me /\ Me \in Syncs /\ job.spec.cm \in ConfigMaps
        BY <1>1, <1>9, <2>1, <3>1 DEF Honest, Applied
      <4> QED  BY <1>0, <1>9, <2>1, <4>1, OwnedStays
    <3> QED  BY <2>1, <3>1, <3>3, <3>4 DEF Honest, Applied, Me
  <2>2. CASE Reports /\ job'.sync = Me /\ job'.spec = job.spec
    <3>1. pc \in {"progress", "objectStamp"} /\ UNCHANGED store
      BY <2>2 DEF Reports, RolloutProgress, StampNoRestart, At, cluster, objects
    <3>2. Carries /\ w \in Workloads /\ wl[w].exists /\ WiredAs(wl[w].tmpl, job.spec)
      BY <1>1, <3>1 DEF HonestInv, Carries
    <3>3. /\ store'[job.spec.cm] = [owner |-> Me, data |-> <<job'.st.version[1], job.spec.path>>]
          /\ job'.st.workloadVersion = job'.st.version /\ job'.st.version = job.st.version
      BY <2>2, <3>1, <3>2 DEF Reports, Carries, Rendered, Me
    <3>4. CASE RolloutProgress /\ Progress(wlc[w]) = "Complete"
      <4>1. pc = "progress" /\ wl' = wl
        BY <3>4 DEF RolloutProgress, At, cluster, workloads
      <4> QED  BY <2>2, <3>2, <3>3, <4>1 DEF Carries, WiredAs
    <3>5. CASE StampNoRestart
      <4>1. pc = "objectStamp" /\ wl' = [wl EXCEPT ![w] = [wl[w] EXCEPT !.objStamp = job.st.version]]
        BY <3>5 DEF StampNoRestart, At, WriteWorkload
      <4>2. job.st.version \in Versions \cup {None}
        BY DEF WorkerTyped, StatusType
      <4>3. wl'[w].exists /\ wl'[w].tmpl = wl[w].tmpl /\ wl'[w].objStamp = job.st.version
        BY <1>0, <3>2, <4>1, <4>2, StampWrites DEF WorkloadsTyped
      <4> QED  BY <2>2, <3>2, <3>3, <4>1, <4>3 DEF Carries, WiredAs
    <3> QED  BY <2>2, <3>4, <3>5 DEF Reports
  <2> QED  BY <1>5, <1>6, <1>9, <2>1, <2>2 DEF StatusCarried
<1> QED  BY <1>2, <1>3, <1>4, <1>7, <1>8, <1>9 DEF HonestInv, Carries, Honest, Applied, Me

LEMMA DoneStep ==
  ASSUME LoopInv, LoopInv', TypeInv, HonestInv, DoneInv, NoStaleCompletion,
         [Next]_vars, Moves \cap Undoing = {}
  PROVE  DoneInv'
<1> USE DEF LoopInv, TypeInv
<1>0. \A w \in Workloads : wl[w] \in WorkloadType
  BY DEF WorkloadsTyped
<1>1. pc # "idle" => job.spec.wl \in Workloads
  BY ConstantsAssumption DEF WorkerTyped, ConstantsAssumption
<1> SUFFICES ASSUME pc' = "status", job'.st.ready = "Synced" PROVE RolledOut'
  BY DEF DoneInv
<1>2. CASE UNCHANGED <<pc, job>>
  <2> DEFINE w == job.spec.wl
  <2>1. ~Rewired(w) /\ ~Retracted(w) /\ ~Restamped(w)
    BY <1>2
    DEF Rewired, Retracted, Restamped, Wire, Unwire, StampNoRestart, ClearStamp, At, Continue, Return
  <2>2. w \in Workloads /\ RolledOut
    BY <1>1, <1>2 DEF DoneInv
  <2>3. wl[w].rollout = "done" => wl'[w].rollout = "done"
    BY <2>1, <2>2, OnlyWorkerWrites
  <2> QED  BY <1>2, <2>2, <2>3 DEF RolledOut
<1>3. CASE \E s \in Syncs : BeginSync(s) \/ BeginFinalize(s)
  <2>1. PICK s \in Syncs : BeginSync(s) \/ BeginFinalize(s)
    BY <1>3, SMTT(30)
  <2> QED  BY <2>1, BeginReady
<1>4. CASE ~UNCHANGED <<pc, job>> /\ ~\E s \in Syncs : BeginSync(s) \/ BeginFinalize(s)
  <2>1. pc # "idle" /\ job'.spec = job.spec /\ Reports
    BY <1>4, StatusFlow DEF StatusCarried
  <2>2. CASE RolloutProgress /\ Progress(wlc[job.spec.wl]) = "Complete"
    <3>1. pc = "progress" /\ wl' = wl
      BY <2>2 DEF RolloutProgress, At, cluster, workloads
    <3> QED  BY <2>1, <2>2, <3>1 DEF NoStaleCompletion, RolledOut
  <2>3. CASE StampNoRestart
    <3>1. pc = "objectStamp"
      BY <2>3 DEF StampNoRestart, At
    <3> QED  BY <2>1, <3>1 DEF HonestInv, Carries, RolledOut
  <2> QED  BY <2>1, <2>2, <2>3 DEF Reports
<1> QED  BY <1>2, <1>3, <1>4

(* The assumptions under which Ready=True can be relied upon: nobody edits *)
(* the spec, writes the workload or deletes the ConfigMap, pods of a       *)
(* finished rollout stay up, no two syncs share a workload, and a stamp    *)
(* found in the cache is on the workload.                                  *)
Undisturbed == Spec /\ []Alone /\ []NoStaleMatch

THEOREM HonestInvariance ==
  ASSUME Moves \cap Undoing = {}
  PROVE  Undisturbed => []HonestInv
<1>0. "edit" \notin Moves /\ "tamper" \notin Moves
  BY DEF Undoing
<1>1. LoopInv /\ TypeInv /\ [Next]_vars => [KeepsRefs]_vars /\ [Retained]_vars
  BY <1>0, SpecsStay DEF KeepsRefs, Retained
<1>2. LoopInv /\ LoopInv' /\ TypeInv /\ TypeInv' /\ OwnerInv /\ NoStaleMatch /\ EstInv /\ PublishedInv
        /\ HonestInv /\ Alone /\ [Next]_vars => HonestInv'
  BY HonestStep
<1>3. LoopInv /\ LoopInv' /\ TypeInv /\ TypeInv' /\ OwnerInv /\ NoStaleMatch /\ EstInv /\ Alone
        /\ [Next]_vars /\ [KeepsRefs]_vars => EstInv'
  <2>1. UNCHANGED vars => KeepsRefs
    BY DEF vars, KeepsRefs
  <2> QED  BY <2>1, EstStep
<1>4. Spec => NoRefEdit /\ NoRetarget
  BY <1>1, LoopInvariance, TypeInvariance, PTL DEF Spec, NoRefEdit, NoRetarget
<1> QED
  BY <1>0, <1>2, <1>3, <1>4, EstInit, HonestInit, LoopInvariance, TypeInvariance,
     SoleOwnerInvariance, PublishedInvariance, PTL DEF Undisturbed, Spec, NoRefEdit

(* What a status write that turns Ready=True reports.                      *)
LEMMA ReadyWrite ==
  ASSUME LoopInv, TypeInv, HonestInv, [Next]_vars, NEW s \in Syncs,
         cs'[s].status # cs[s].status, cs'[s].status.ready = "Synced"
  PROVE  LET st == cs'[s].status
         IN  /\ Applied(s, st.observed, st.version) /\ st.workloadVersion = st.version
             /\ DoneInv /\ st.observed.mode = "auto" => wl[st.observed.wl].rollout = "done"
<1>1. ~Created(s) /\ ~Removed(s)
  BY DEF Created, Removed, NoStatus
<1>2. UpdateStatus /\ s = Me /\ cs'[s].status = job.st
  BY <1>1, SyncNext DEF Updated
<1>3. pc = "status" /\ job.st.ready = "Synced" /\ job.st.observed = job.spec
  BY <1>2 DEF UpdateStatus, At, HonestInv, SyncLabels
<1> QED  BY <1>2, <1>3, SMTT(30) DEF HonestInv, Honest, DoneInv, RolledOut

(***************************************************************************)
(* When a status write turns Ready to Synced, the workload at that moment  *)
(* carries the version it reports, mounts the ConfigMap with that          *)
(* version's content and has all the references of the spec, whatever the  *)
(* branch, the Secrets, failed calls, crashes and deletions did in between *)
(* (wireAndStamp, computeReady), however old the cached rollout is.        *)
(***************************************************************************)
THEOREM ReadyApplied ==
  ASSUME Moves \cap Undoing = {}
  PROVE  Undisturbed => ReadyIsApplied
<1> DEFINE Truthful ==
      \A s \in Syncs :
        LET st == cs'[s].status
        IN  st # cs[s].status /\ st.ready = "Synced" =>
              Applied(s, st.observed, st.version) /\ st.workloadVersion = st.version
<1>1. LoopInv /\ TypeInv /\ HonestInv /\ [Next]_vars => Truthful
  BY ReadyWrite
<1> HIDE DEF Truthful
<1>2. ReadyIsApplied <=> [][Truthful]_vars
  BY DEF ReadyIsApplied, Truthful
<1> QED
  BY <1>1, <1>2, LoopInvariance, TypeInvariance, HonestInvariance, PTL DEF Undisturbed, Spec

(***************************************************************************)
(* Ready=True is honest, that is, the workload has also finished rolling   *)
(* out, when in addition the completion a reconcile reads from the cache   *)
(* is not that of an older rollout.  The code does not ensure this: it     *)
(* reads the cached workload right after its own write (wireAndStamp).     *)
(***************************************************************************)
THEOREM ReadyHonest ==
  ASSUME Moves \cap Undoing = {}
  PROVE  Undisturbed /\ []NoStaleCompletion => ReadyIsHonest
<1> DEFINE Truthful ==
      \A s \in Syncs :
        LET st == cs'[s].status
        IN  st # cs[s].status /\ st.ready = "Synced" =>
              /\ Applied(s, st.observed, st.version)
              /\ st.workloadVersion = st.version
              /\ st.observed.mode = "auto" => wl[st.observed.wl].rollout = "done"
<1>1. LoopInv /\ LoopInv' /\ TypeInv /\ HonestInv /\ DoneInv /\ NoStaleCompletion /\ [Next]_vars => DoneInv'
  BY DoneStep
<1>2. LoopInv /\ TypeInv /\ HonestInv /\ DoneInv /\ [Next]_vars => Truthful
  BY ReadyWrite
<1> HIDE DEF Truthful
<1>3. ReadyIsHonest <=> [][Truthful]_vars
  BY DEF ReadyIsHonest, Truthful
<1> QED
  BY <1>1, <1>2, <1>3, HonestInit, LoopInvariance, TypeInvariance, HonestInvariance, PTL
  DEF Undisturbed, Spec
==============================================================================
