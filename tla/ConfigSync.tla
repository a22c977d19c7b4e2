------------------------------ MODULE ConfigSync ------------------------------
(***************************************************************************)
(* The reconcile loop of the Kohen operator (internal/controller) with the *)
(* engines it calls: apply (ConfigMaps and ExternalSecret manifests), wire *)
(* (server-side apply of the workload's pod template) and rollout (stamps  *)
(* and progress), against a cluster that other actors change at any time.  *)
(*                                                                         *)
(* One worker reconciles one ConfigSync at a time (controller-runtime's    *)
(* default of MaxConcurrentReconciles = 1).  Its program counter pc stops  *)
(* before every group of API calls, so users, the garbage of a crash,      *)
(* other field managers and the workload controllers can act between them. *)
(* A group is one call, except that the manifests of a commit are checked  *)
(* and patched in one step (a failure leaves some of them applied), the    *)
(* deletes of one prune are one step likewise, and the Secrets are read in *)
(* one step (SecretOutage reads them one by one).  The ConfigSync itself   *)
(* and the list of them come from the manager's cache in the code and are  *)
(* read live here: a reconcile of an older copy goes as one that began     *)
(* before the writes it misses and is refused at its own write (dirty).    *)
(* Not covered by that: a second finalize of a sync that is already gone.  *)
(***************************************************************************)
EXTENDS Decisions, FiniteSets

CONSTANTS
  Syncs,        \* names of ConfigSync objects in one namespace (naturals)
  Workloads,    \* the workloads a workloadRef can name
  Unsupported,  \* those with an OnDelete or Recreate update strategy
  ConfigMaps,   \* ConfigMap names
  Manifests,    \* names of ExternalSecret manifests that commits may hold
  Refs,         \* names of secret references
  EnvRefs,      \* the env-surfaced ones whose rotation rolls out
  Commits,      \* commits the branch can point at
  BadRender,    \* commits whose tree the renderer rejects
  BadManifests, \* commits whose manifests the loader or the guard rejects
  ManifestsOf,  \* [Commits -> SUBSET Manifests]
  Specs,        \* the specs users write: [wl, cm, path, mount, mode, refs]
  Foreign,      \* ConfigMaps and manifests a user created beforehand
  LabelOf,      \* [names -> the sync whose label a user's object carries]
  MaxToken,     \* bound on the version token of a Secret
  Moves,        \* kinds of environment moves this instance allows
  MaxMoves,     \* bound on the number of environment moves and faults
  Lag,          \* what can lag behind the API server in the manager's cache
  Ties,         \* whether two ConfigSyncs can share a creation timestamp
  User, None

ASSUME ConstantsAssumption ==
  /\ Syncs \subseteq Nat \ {0}
  /\ Unsupported \subseteq Workloads /\ EnvRefs \subseteq Refs
  /\ BadRender \subseteq Commits /\ BadManifests \subseteq Commits
  /\ ManifestsOf \in [Commits -> SUBSET Manifests]
  /\ Foreign \subseteq ConfigMaps \cup Manifests
  /\ ConfigMaps \cap Manifests = {}
  /\ LabelOf \in [ConfigMaps \cup Manifests -> Syncs \cup {None}]
  /\ \A sp \in Specs : /\ sp.wl \in Workloads /\ sp.cm \in ConfigMaps
                       /\ sp.mode \in {"auto", "none"} /\ sp.refs \subseteq Refs
  /\ MaxToken \in Nat /\ MaxMoves \in Nat /\ Lag \subseteq {"workload", "configMap"} /\ Ties \in BOOLEAN
  /\ User \notin Syncs /\ None \notin Syncs \cup {User} /\ None \notin ConfigMaps

VARIABLES
  cs,      \* [Syncs -> ConfigSync objects at the API server]
  store,   \* [ConfigMaps \cup Manifests -> owner and data of the object]
  seen,    \* [ConfigMaps -> owner of the object in the manager's read cache]
  wl,      \* [Workloads -> workload at the API server]
  wlc,     \* [Workloads -> workload in the manager's read cache]
  head,    \* the commit the tracked branch points at
  secret,  \* [Refs -> version token of the backing Secret; 0: not resolvable]
  pc, job, \* where the worker is, and what its reconcile holds in memory
  dirty,   \* the ConfigSync was written by others since the worker read it
  due,     \* the work queue: ConfigSyncs that will be reconciled (again)
  moves,   \* environment moves and faults so far
  wired    \* history: [Syncs -> references the sync has ever wired]

vars == <<cs, store, seen, wl, wlc, head, secret, pc, job, dirty, due, moves, wired>>

objects == <<store, seen>>
workloads == <<wl, wlc>>
cluster == <<cs, objects, workloads, head, secret, wired>>

Names == ConfigMaps \cup Manifests
Conditions == Gates
Completes == {"None", "Complete", "RollingOut", "ProgressDeadlineExceeded", "Degraded"}
Readies == {"None", "Synced", "Progressing", "Degraded"}
Tokens == 0 .. MaxToken
Versions == UNION {{VersionWithSecrets(c, f) : c \in Commits} :
                     f \in UNION {[E -> Tokens] : E \in SUBSET EnvRefs}}

ASSUME VersionsAssumption == None \notin Versions

NoStatus == [observed |-> None, conds |-> {}, complete |-> "None", ready |-> "None",
             version |-> None, workloadVersion |-> None, est |-> {}]
Absent == [live |-> FALSE, deleting |-> FALSE, fin |-> FALSE, syncNow |-> FALSE,
           born |-> 0, spec |-> None, status |-> NoStatus]
NoObject == [owner |-> None, data |-> None]
(***************************************************************************)
(* The fields of a pod template that the field manager "kohen" owns, and a *)
(* workload: its template, the stamp on its own metadata (field manager    *)
(* "kohen-stamp"), its rollout as the progress functions would report it   *)
(* and, as history, the sync whose apply the template comes from.          *)
(***************************************************************************)
Unwired == [cm |-> None, mount |-> None, refs |-> {}, stamp |-> None]
Fresh == [exists |-> TRUE, tmpl |-> Unwired, objStamp |-> None, rollout |-> "done",
          by |-> None]
NoWorkload == [Fresh EXCEPT !.exists = FALSE]
NoJob == [sync |-> None, spec |-> None, st |-> NoStatus, commit |-> None, tok |-> None]

Init ==
  /\ cs = [s \in Syncs |-> Absent]
  /\ store = [n \in Names |-> IF n \in Foreign THEN [owner |-> User, data |-> None]
                              ELSE NoObject]
  /\ seen = [n \in ConfigMaps |-> store[n].owner]
  /\ wl = [w \in Workloads |-> Fresh]
  /\ wlc = wl
  /\ head \in Commits
  /\ secret \in [Refs -> Tokens \cap {0, 1}]
  /\ pc = "idle" /\ job = NoJob /\ dirty = FALSE /\ due = {}
  /\ moves = 0
  /\ wired = [s \in Syncs |-> {}]

------------------------------------------------------------------------------
(* Helpers of the worker.                                                  *)

Me == job.sync
At(label) == pc = label
(* A call to the API server or to git that fails: bounded like every other *)
(* move of the environment.                                                *)
Move(kind) == kind \in Moves /\ moves < MaxMoves /\ moves' = moves + 1

(* Slip: a return path without a requeue.                                  *)
BugRequeue == /\ UNCHANGED due
              /\ pc' = "idle" /\ job' = NoJob /\ dirty' = FALSE

(* Every return path of Reconcile after sync or finalize failed asks for a *)
(* requeue (Requeue, RequeueAfter or an error).                            *)
Requeue == /\ due' = due \cup {Me}
           /\ pc' = "idle" /\ job' = NoJob /\ dirty' = FALSE

(* Go on to label with the working status st.                              *)
Continue(label, st) ==
  /\ pc' = label /\ job' = [job EXCEPT !.st = st]
  /\ UNCHANGED <<dirty, due>>

(* sync returns: the status it built is written next.                      *)
Return(st) == Continue("status", st)
NotReady(st, reason) == [st EXCEPT !.ready = reason]
SetTrue(st, c) == [st EXCEPT !.conds = @ \cup {c}]
SetFalse(st, c) == [st EXCEPT !.conds = @ \ {c}]

(* Writes to a workload and to the objects; what does not lag is in the    *)
(* read cache at once.  ExternalSecrets are unstructured and never cached. *)
WriteWorkload(w, new) ==
  /\ wl' = [wl EXCEPT ![w] = new]
  /\ wlc' = IF "workload" \in Lag THEN wlc ELSE wl'

WriteStore(new) ==
  /\ store' = new
  /\ seen' = IF "configMap" \in Lag THEN seen ELSE [n \in ConfigMaps |-> new[n].owner]

SeenOwner(n) == IF n \in ConfigMaps THEN seen[n] ELSE store[n].owner

(* What the object's labels say.  An object Kohen applied carries labels   *)
(* and controller reference of the same sync; a user's carries no such     *)
(* reference, but may carry the labels (a restored or copied manifest).    *)
SeenLabel(n) == IF SeenOwner(n) = User THEN LabelOf[n] ELSE SeenOwner(n)

(* A pod-template change starts a rollout; an apply that changes nothing   *)
(* does not.  A Progressing=False condition of the previous rollout stays  *)
(* until the workload's controller has observed the new generation.        *)
WithTemplate(x, t, by) ==
  [x EXCEPT !.tmpl = t, !.by = by,
            !.rollout = IF t = x.tmpl \/ @ = "stuck" THEN @ ELSE "rolling"]

SingletonConflict(s) ==
  \E o \in Syncs \ {s} :
    /\ cs[o].live /\ ~cs[o].deleting
    /\ cs[o].spec.wl = cs[s].spec.wl
    /\ WinsOver(o, cs[o].born, s, cs[s].born)

------------------------------------------------------------------------------
(* Reconcile: the early returns, then sync or finalize.                    *)

ReconcileGone(s) ==
  /\ At("idle") /\ s \in due /\ ~cs[s].live
  /\ due' = due \ {s}
  /\ UNCHANGED <<cluster, pc, job, dirty, moves>>

AddFinalizer(s) ==
  /\ At("idle") /\ s \in due /\ cs[s].live /\ ~cs[s].deleting /\ ~cs[s].fin
  /\ cs' = [cs EXCEPT ![s].fin = TRUE]
  /\ UNCHANGED <<objects, workloads, head, secret, wired, pc, job, dirty, due, moves>>

ClearSyncNow(s) ==
  /\ At("idle") /\ s \in due /\ cs[s].live /\ ~cs[s].deleting /\ cs[s].fin
  /\ cs[s].syncNow
  /\ cs' = [cs EXCEPT ![s].syncNow = FALSE]
  /\ UNCHANGED <<objects, workloads, head, secret, wired, pc, job, dirty, due, moves>>

(* Slip: the singleton check is missing.                                   *)
BugBeginSync(s) ==
  /\ At("idle") /\ s \in due /\ cs[s].live /\ ~cs[s].deleting /\ cs[s].fin
  /\ ~cs[s].syncNow
  /\ pc' = "fetch"
  /\ job' = [NoJob EXCEPT !.sync = s, !.spec = cs[s].spec,
                          !.st = [cs[s].status EXCEPT !.observed = cs[s].spec]]
  /\ dirty' = FALSE /\ due' = due \ {s}
  /\ UNCHANGED <<cluster, moves>>

(* singletonConflict reads the list of ConfigSyncs; when that fails it     *)
(* answers that there is no conflict.                                      *)
ConflictSeen(s, conflict) ==
  \/ conflict = SingletonConflict(s) /\ UNCHANGED moves
  \/ conflict = FALSE /\ Move("list")

(* sync starts from the object it read: observedGeneration, then the       *)
(* singleton check, which ends the pipeline for the loser.                 *)
BeginSync(s) ==
  /\ At("idle") /\ s \in due /\ cs[s].live /\ ~cs[s].deleting /\ cs[s].fin
  /\ ~cs[s].syncNow
  /\ LET st == [cs[s].status EXCEPT !.observed = cs[s].spec]
         start == [NoJob EXCEPT !.sync = s, !.spec = cs[s].spec]
     IN  \E conflict \in BOOLEAN :
           /\ ConflictSeen(s, conflict)
           /\ pc' = IF conflict THEN "status" ELSE "fetch"
           /\ job' = [start EXCEPT !.st =
                IF conflict THEN NotReady(SetFalse(st, "WorkloadWired"), "Degraded") ELSE st]
  /\ dirty' = FALSE /\ due' = due \ {s}
  /\ UNCHANGED cluster

(* loadCredential and Fetch: any failure keeps everything applied so far.  *)
FetchFails ==
  /\ At("fetch") /\ Move("fault")
  /\ Return(NotReady(SetFalse(job.st, "Fetched"), "Degraded"))
  /\ UNCHANGED cluster

(* Fetch returns the commit the branch points at now; Render is local.     *)
FetchAndRender ==
  /\ At("fetch")
  /\ LET st == SetTrue(job.st, "Fetched")
     IN  IF head \in BadRender
         THEN /\ pc' = "status"
              /\ job' = [job EXCEPT !.st = NotReady(SetFalse(st, "Rendered"), "Degraded")]
         ELSE /\ pc' = "apply"
              /\ job' = [job EXCEPT !.st = SetTrue(st, "Rendered"), !.commit = head]
  /\ UNCHANGED <<cluster, dirty, due, moves>>

(* Slip: no ownership check before the apply.                              *)
BugMayApply(n) == TRUE

(* Applier.Apply of the ConfigMap, first half: the no-adoption check.      *)
OwnedBy(n) == SeenOwner(n) = Me
MayApply(n) == SeenOwner(n) = None \/ OwnedBy(n)

CheckConfigMap ==
  /\ At("apply")
  /\ IF MayApply(job.spec.cm) THEN Continue("patch", job.st)
     ELSE Return(NotReady(job.st, "Degraded"))
  /\ UNCHANGED <<cluster, moves>>

Rendered(j) == [owner |-> j.sync, data |-> <<j.commit, j.spec.path>>]

(* Second half: the server-side apply with ForceOwnership.                 *)
PatchConfigMap ==
  /\ At("patch")
  /\ WriteStore([store EXCEPT ![job.spec.cm] = Rendered(job)])
  /\ Continue("prune", job.st)
  /\ UNCHANGED <<cs, workloads, head, secret, wired, moves>>

PatchConfigMapFails ==
  /\ At("patch") /\ Move("fault")
  /\ Return(NotReady(job.st, "Degraded"))
  /\ UNCHANGED cluster

(* Applier.Prune: delete the objects of the kind that carry this owner's   *)
(* labels, except the ones to keep; the controller reference is not looked *)
(* at.  The deletes are one call each, so a failure leaves some subset     *)
(* deleted, and have no precondition: they hit whatever has the name now.  *)
Stale(kind, keep) == {n \in kind \ keep : SeenLabel(n) = Me}
Deleted(gone) == [n \in Names |-> IF n \in gone THEN NoObject ELSE store[n]]

PruneConfigMaps ==
  /\ At("prune")
  /\ WriteStore(Deleted(Stale(ConfigMaps, {job.spec.cm})))
  /\ Continue("manifests", job.st)
  /\ UNCHANGED <<cs, workloads, head, secret, wired, moves>>

PruneConfigMapsFails ==
  /\ At("prune") /\ Move("fault")
  /\ \E gone \in SUBSET Stale(ConfigMaps, {job.spec.cm}) : WriteStore(Deleted(gone))
  /\ Return(NotReady(job.st, "Degraded"))
  /\ UNCHANGED <<cs, workloads, head, secret, wired>>

(* applyManifests: load and guard the whole set, apply one by one, prune.  *)
ManifestsRejected ==
  /\ At("manifests") /\ job.commit \in BadManifests
  /\ Return(NotReady(SetFalse(job.st, "ManifestsApplied"), "Degraded"))
  /\ UNCHANGED <<cluster, moves>>

ApplyAll(ms) == [n \in Names |-> IF n \in ms THEN Rendered(job) ELSE store[n]]

ApplyManifests ==
  /\ At("manifests") /\ job.commit \notin BadManifests
  /\ \A m \in ManifestsOf[job.commit] : MayApply(m)
  /\ WriteStore(ApplyAll(ManifestsOf[job.commit]))
  /\ Continue("pruneManifests", job.st)
  /\ UNCHANGED <<cs, workloads, head, secret, wired, moves>>

(* Some manifests are applied and the next one is not: it belongs to       *)
(* somebody else, or the call fails.                                       *)
ApplyManifestsFails ==
  /\ At("manifests") /\ job.commit \notin BadManifests
  /\ \E ms \in SUBSET ManifestsOf[job.commit], next \in ManifestsOf[job.commit] :
       /\ next \notin ms /\ \A m \in ms : MayApply(m)
       /\ \/ ~MayApply(next) /\ UNCHANGED moves
          \/ MayApply(next) /\ Move("fault")
       /\ WriteStore(ApplyAll(ms))
  /\ Return(NotReady(SetFalse(job.st, "ManifestsApplied"), "Degraded"))
  /\ UNCHANGED <<cs, workloads, head, secret, wired>>

PruneManifests ==
  /\ At("pruneManifests")
  /\ WriteStore(Deleted(Stale(Manifests, ManifestsOf[job.commit])))
  /\ Continue("resolve", SetTrue(job.st, "ManifestsApplied"))
  /\ UNCHANGED <<cs, workloads, head, secret, wired, moves>>

PruneManifestsFails ==
  /\ At("pruneManifests") /\ Move("fault")
  /\ \E gone \in SUBSET Stale(Manifests, ManifestsOf[job.commit]) : WriteStore(Deleted(gone))
  /\ Return(NotReady(SetFalse(job.st, "ManifestsApplied"), "Degraded"))
  /\ UNCHANGED <<cs, workloads, head, secret, wired>>

(* resolveSecrets: read every backing Secret from the API server, carry    *)
(* the sticky Established marks over, decide; on success fix the version.  *)
EnvTokens(refs, tok) == [r \in EnvRefs \cap refs |-> tok[r]]

Advance(st, tok) ==
  [st EXCEPT !.version = VersionWithSecrets(job.commit, EnvTokens(job.spec.refs, tok))]

ResolveSecrets ==
  /\ At("resolve")
  /\ LET refs == job.spec.refs
         tok == [r \in refs |-> secret[r]]
         ready == {r \in refs : tok[r] > 0}
         est == job.st.est \cap refs
         d == Evaluate(refs, ready, est, 0, 0)
         st == [job.st EXCEPT !.est = est]
     IN  IF d.allReady
         THEN /\ pc' = "inspect"
              /\ job' = [job EXCEPT !.st = Advance(SetTrue(st, "SecretsReady"), tok),
                                    !.tok = tok]
         ELSE /\ pc' = "status"
              /\ job' = [job EXCEPT !.st = NotReady(SetFalse(st, "SecretsReady"), d.readyReason)]
  /\ UNCHANGED <<cluster, dirty, due, moves>>

(* Slip: references count as established as soon as they resolve.          *)
BugWired(st) ==
  [st EXCEPT !.est = job.spec.refs, !.ready = ComputeReady(st.conds, st.complete)]

(* wireAndStamp ends; Established and Ready follow from WorkloadWired.     *)
Wired(st) ==
  LET e == IF "WorkloadWired" \in st.conds THEN job.spec.refs ELSE st.est
  IN  [st EXCEPT !.est = e, !.ready = ComputeReady(st.conds, st.complete)]
NotWired == Return(Wired(SetFalse(job.st, "WorkloadWired")))

(* Slips: wire on every reconcile; compare with the status, not the stamp. *)
BugInspectAlways ==
  /\ At("inspect")
  /\ IF wlc[job.spec.wl].exists THEN Continue("wire", job.st) ELSE NotWired
  /\ UNCHANGED <<cluster, moves>>

BugInspectStatus ==
  /\ At("inspect")
  /\ IF ~wlc[job.spec.wl].exists THEN NotWired
     ELSE Continue(IF job.spec.mode = "auto" /\ job.st.workloadVersion = job.st.version
                   THEN "progress" ELSE "wire", job.st)
  /\ UNCHANGED <<cluster, moves>>

(* StatefulSetSupported, DeploymentSupported.                              *)
Supported(w) == w \notin Unsupported

(* inspectWorkload reads the cached workload; the strategy only matters    *)
(* when the rollout is driven by the pod template.                         *)
Inspect ==
  /\ At("inspect")
  /\ LET w == job.spec.wl
         auto == job.spec.mode = "auto"
     IN  IF ~wlc[w].exists \/ (auto /\ ~Supported(w)) THEN NotWired
         ELSE Continue(IF auto /\ wlc[w].tmpl.stamp = job.st.version
                       THEN "progress" ELSE "wire", job.st)
  /\ UNCHANGED <<cluster, moves>>

Template(j) == [cm |-> j.spec.cm, mount |-> j.spec.mount, refs |-> j.spec.refs,
                stamp |-> IF j.spec.mode = "auto" THEN j.st.version ELSE None]

(* ResolveContainer finds the workload, and in it the container.           *)
ResolvesContainer(w) == wl[w].exists

(* Wirer.Wire: one apply replaces everything the field manager owns.       *)
Wire ==
  /\ At("wire") /\ ResolvesContainer(job.spec.wl)
  /\ WriteWorkload(job.spec.wl, WithTemplate(wl[job.spec.wl], Template(job), Me))
  /\ wired' = [wired EXCEPT ![Me] = @ \cup job.spec.refs]
  /\ Continue(IF job.spec.mode = "auto" THEN "progress" ELSE "objectStamp", job.st)
  /\ UNCHANGED <<cs, objects, head, secret, moves>>

(* The workload is gone, another manager owns a field, or the call fails.  *)
WireFails ==
  /\ At("wire")
  /\ \/ ~ResolvesContainer(job.spec.wl) /\ UNCHANGED moves
     \/ ResolvesContainer(job.spec.wl) /\ Move("fault")
  /\ NotWired
  /\ UNCHANGED cluster

(* rollout: none. ObjectStamp, then StampNoRestart when it differs.        *)
StampNoRestart ==
  /\ At("objectStamp") /\ wl[job.spec.wl].exists
  /\ WriteWorkload(job.spec.wl, [wl[job.spec.wl] EXCEPT !.objStamp = job.st.version])
  /\ Return(Wired([SetTrue(job.st, "WorkloadWired") EXCEPT
                     !.complete = "Complete", !.workloadVersion = job.st.version]))
  /\ UNCHANGED <<cs, objects, head, secret, wired, moves>>

StampNoRestartFails ==
  /\ At("objectStamp")
  /\ \/ ~wl[job.spec.wl].exists /\ UNCHANGED moves
     \/ wl[job.spec.wl].exists /\ Move("fault")
  /\ Return(Wired([SetTrue(job.st, "WorkloadWired") EXCEPT !.complete = "Degraded"]))
  /\ UNCHANGED cluster

(* rolloutProgress reads the cached workload again.                        *)
Progress(x) ==
  CASE ~x.exists -> "RollingOut"
    [] x.exists /\ x.rollout = "done" -> "Complete"
    [] x.exists /\ x.rollout = "stuck" -> "ProgressDeadlineExceeded"
    [] OTHER -> "RollingOut"

RolloutProgress ==
  /\ At("progress")
  /\ Return(Wired([SetTrue(job.st, "WorkloadWired") EXCEPT
                     !.complete = Progress(wlc[job.spec.wl]),
                     !.workloadVersion = job.st.version]))
  /\ UNCHANGED <<cluster, moves>>

(* Status().Update: refused when the object changed since it was read.     *)
UpdateStatus ==
  /\ At("status") /\ ~dirty
  /\ cs' = [cs EXCEPT ![Me].status = job.st]
  /\ Requeue
  /\ UNCHANGED <<objects, workloads, head, secret, wired, moves>>

UpdateStatusFails ==
  /\ At("status")
  /\ \/ dirty /\ UNCHANGED moves
     \/ ~dirty /\ Move("fault")
  /\ Requeue
  /\ UNCHANGED cluster

------------------------------------------------------------------------------
(* finalize: unwire unless another sync owns the workload, prune, drop the *)
(* finalizer.  An error anywhere returns it, and the next try starts over. *)

(* Slips: never unwire; forget the workloadRef; let a pending force-sync   *)
(* annotation hold the deletion up.                                        *)
BugNoUnwire(s) ==
  /\ At("idle") /\ s \in due /\ cs[s].live /\ cs[s].deleting /\ cs[s].fin
  /\ pc' = "finalPrune"
  /\ job' = [NoJob EXCEPT !.sync = s, !.spec = cs[s].spec]
  /\ dirty' = FALSE /\ due' = due \ {s}
  /\ UNCHANGED <<cluster, moves>>

BugNoRef(s) ==
  /\ At("idle") /\ s \in due /\ cs[s].live /\ cs[s].deleting /\ cs[s].fin
  /\ pc' = IF SingletonConflict(s) THEN "finalPrune" ELSE "unwire"
  /\ job' = [NoJob EXCEPT !.sync = s]
  /\ dirty' = FALSE /\ due' = due \ {s}
  /\ UNCHANGED <<cluster, moves>>

BugSyncNowFirst(s) ==
  /\ At("idle") /\ s \in due /\ cs[s].live /\ cs[s].deleting /\ cs[s].fin
  /\ ~cs[s].syncNow
  /\ pc' = IF SingletonConflict(s) THEN "finalPrune" ELSE "unwire"
  /\ job' = [NoJob EXCEPT !.sync = s, !.spec = cs[s].spec]
  /\ dirty' = FALSE /\ due' = due \ {s}
  /\ UNCHANGED <<cluster, moves>>

BeginFinalize(s) ==
  /\ At("idle") /\ s \in due /\ cs[s].live /\ cs[s].deleting /\ cs[s].fin
  /\ \E conflict \in BOOLEAN :
       /\ ConflictSeen(s, conflict)
       /\ pc' = IF conflict THEN "finalPrune" ELSE "unwire"
  /\ job' = [NoJob EXCEPT !.sync = s, !.spec = cs[s].spec]
  /\ dirty' = FALSE /\ due' = due \ {s}
  /\ UNCHANGED cluster

(* Slip: the version annotation is not part of what is retracted.          *)
BugUnwire ==
  /\ At("unwire")
  /\ LET w == job.spec.wl
     IN  IF wl[w].exists
         THEN WriteWorkload(w, WithTemplate(wl[w], [Unwired EXCEPT !.stamp = wl[w].tmpl.stamp], None))
         ELSE UNCHANGED workloads
  /\ Continue("clearStamp", job.st)
  /\ UNCHANGED <<cs, objects, head, secret, wired, moves>>

Unwire ==
  /\ At("unwire")
  /\ LET w == job.spec.wl
     IN  IF wl[w].exists THEN WriteWorkload(w, WithTemplate(wl[w], Unwired, None))
         ELSE UNCHANGED workloads
  /\ Continue("clearStamp", job.st)
  /\ UNCHANGED <<cs, objects, head, secret, wired, moves>>

ClearStamp ==
  /\ At("clearStamp")
  /\ LET w == job.spec.wl
     IN  IF wl[w].exists THEN WriteWorkload(w, [wl[w] EXCEPT !.objStamp = None])
         ELSE UNCHANGED workloads
  /\ Continue("finalPrune", job.st)
  /\ UNCHANGED <<cs, objects, head, secret, wired, moves>>

(* Slip: the current ConfigMap is kept, as in sync.                        *)
BugFinalPrune ==
  /\ At("finalPrune")
  /\ WriteStore(Deleted(Stale(ConfigMaps, {job.spec.cm})))
  /\ Continue("finalPruneManifests", job.st)
  /\ UNCHANGED <<cs, workloads, head, secret, wired, moves>>

FinalPrune ==
  /\ At("finalPrune")
  /\ WriteStore(Deleted(Stale(ConfigMaps, {})))
  /\ Continue("finalPruneManifests", job.st)
  /\ UNCHANGED <<cs, workloads, head, secret, wired, moves>>

FinalPruneManifests ==
  /\ At("finalPruneManifests")
  /\ WriteStore(Deleted(Stale(Manifests, {})))
  /\ Continue("dropFinalizer", job.st)
  /\ UNCHANGED <<cs, workloads, head, secret, wired, moves>>

(* Without its last finalizer the API server removes the object; the watch *)
(* reports that, so the name is queued once more.                          *)
DropFinalizer ==
  /\ At("dropFinalizer") /\ ~dirty
  /\ cs' = [cs EXCEPT ![Me] = [Absent EXCEPT !.born = cs[Me].born]]
  /\ Requeue
  /\ UNCHANGED <<objects, workloads, head, secret, wired, moves>>

DropFinalizerConflict ==
  /\ At("dropFinalizer") /\ dirty
  /\ Requeue
  /\ UNCHANGED <<cluster, moves>>

FinalizeFails ==
  /\ \/ /\ pc \in {"unwire", "clearStamp", "dropFinalizer"} /\ Move("fault")
        /\ UNCHANGED objects
     \/ /\ pc \in {"finalPrune", "finalPruneManifests"} /\ Move("fault")
        /\ \E gone \in SUBSET Stale(IF At("finalPrune") THEN ConfigMaps ELSE Manifests, {}) :
             WriteStore(Deleted(gone))
  /\ Requeue
  /\ UNCHANGED <<cs, workloads, head, secret, wired>>

(* The operator dies and restarts: what the reconcile held is lost, the    *)
(* initial list of the watch queues every ConfigSync again.                *)
Crash ==
  /\ Move("crash")
  /\ pc' = "idle" /\ job' = NoJob /\ dirty' = FALSE
  /\ due' = {s \in Syncs : cs[s].live}
  /\ UNCHANGED cluster

------------------------------------------------------------------------------
(* The other actors.  A write to a ConfigSync queues it and makes the copy *)
(* of a running reconcile stale.                                           *)

Touch(s) == /\ due' = due \cup {s}
            /\ dirty' = (dirty \/ (pc # "idle" /\ Me = s))
            /\ UNCHANGED <<pc, job>>

Births == {cs[o].born : o \in Syncs}
Now == CHOOSE t \in Births : \A u \in Births : u <= t

CreateSync(s) ==
  /\ cs[s].born = 0
  /\ \E sp \in Specs, t \in {Now, Now + 1} :
       /\ t > 0 /\ (t = Now => Ties)
       /\ cs' = [cs EXCEPT ![s] = [Absent EXCEPT !.live = TRUE, !.born = t, !.spec = sp]]
  /\ Touch(s)
  /\ UNCHANGED <<objects, workloads, head, secret, wired, moves>>

EditSpec(s) ==
  /\ cs[s].live /\ Move("edit")
  /\ \E sp \in Specs \ {cs[s].spec} : cs' = [cs EXCEPT ![s].spec = sp]
  /\ Touch(s)
  /\ UNCHANGED <<objects, workloads, head, secret, wired>>

AnnotateSyncNow(s) ==
  /\ cs[s].live /\ ~cs[s].syncNow /\ Move("syncNow")
  /\ cs' = [cs EXCEPT ![s].syncNow = TRUE]
  /\ Touch(s)
  /\ UNCHANGED <<objects, workloads, head, secret, wired>>

DeleteSync(s) ==
  /\ cs[s].live /\ ~cs[s].deleting /\ Move("delete")
  /\ cs' = [cs EXCEPT ![s] = IF @.fin THEN [@ EXCEPT !.deleting = TRUE]
                             ELSE [Absent EXCEPT !.born = cs[s].born]]
  /\ Touch(s)
  /\ UNCHANGED <<objects, workloads, head, secret, wired>>

worker == <<pc, job, dirty, due>>

Push ==
  /\ Move("push")
  /\ \E c \in Commits \ {head} : head' = c
  /\ UNCHANGED <<cs, objects, workloads, secret, wired, worker>>

(* A backing Secret appears, disappears, recovers or rotates.              *)
ChangeSecret(r) ==
  /\ Move("secret")
  /\ \E t \in Tokens \ {secret[r]} : secret' = [secret EXCEPT ![r] = t]
  /\ UNCHANGED <<cs, objects, workloads, head, wired, worker>>

(* A workload is deleted, or created again from its own manifests.         *)
ReplaceWorkload(w) ==
  /\ Move("workload")
  /\ WriteWorkload(w, IF wl[w].exists THEN NoWorkload ELSE Fresh)
  /\ UNCHANGED <<cs, objects, head, secret, wired, worker>>

(* Another manager strips Kohen's stamp, or its volumes, mounts and env.   *)
StripStamp(w) ==
  /\ Move("stripStamp") /\ wl[w].exists /\ wl[w].tmpl.stamp # None
  /\ WriteWorkload(w, WithTemplate(wl[w], [wl[w].tmpl EXCEPT !.stamp = None], wl[w].by))
  /\ UNCHANGED <<cs, objects, head, secret, wired, worker>>

StripFields(w) ==
  /\ Move("stripFields") /\ wl[w].exists /\ wl[w].tmpl.cm # None
  /\ WriteWorkload(w, WithTemplate(wl[w], [Unwired EXCEPT !.stamp = wl[w].tmpl.stamp], wl[w].by))
  /\ UNCHANGED <<cs, objects, head, secret, wired, worker>>

(* A user creates a ConfigMap or manifest of that name.                    *)
CreateForeign(n) ==
  /\ Move("foreign") /\ store[n] = NoObject
  /\ WriteStore([store EXCEPT ![n] = [owner |-> User, data |-> None]])
  /\ UNCHANGED <<cs, workloads, head, secret, wired, worker>>

(* A user deletes one, their own or Kohen's.                               *)
DeleteObject(n) ==
  /\ Move("tamper") /\ store[n] # NoObject
  /\ WriteStore([store EXCEPT ![n] = NoObject])
  /\ UNCHANGED <<cs, workloads, head, secret, wired, worker>>

(* The workload's controller finishes a rollout, or gives up on it.        *)
FinishRollout(w) ==
  /\ wl[w].exists /\ wl[w].rollout # "done"
  /\ WriteWorkload(w, [wl[w] EXCEPT !.rollout = "done"])
  /\ UNCHANGED <<cs, objects, head, secret, wired, worker, moves>>

StickRollout(w) ==
  /\ Move("stick") /\ wl[w].exists /\ wl[w].rollout = "rolling"
  /\ WriteWorkload(w, [wl[w] EXCEPT !.rollout = "stuck"])
  /\ UNCHANGED <<cs, objects, head, secret, wired, worker>>

(* Pods of a finished rollout fail, or a stuck one moves again (Rollout).  *)
ResumeRollout(w) ==
  /\ Move("resume") /\ wl[w].exists /\ wl[w].rollout # "rolling"
  /\ WriteWorkload(w, [wl[w] EXCEPT !.rollout = "rolling"])
  /\ UNCHANGED <<cs, objects, head, secret, wired, worker>>

(* The watch delivers the workload to the read cache and, through          *)
(* mapWorkload, queues the syncs that target it.                           *)
ObserveWorkload(w) ==
  /\ wlc[w] # wl[w]
  /\ wlc' = [wlc EXCEPT ![w] = wl[w]]
  /\ due' = due \cup {s \in Syncs : cs[s].live /\ cs[s].spec.wl = w}
  /\ UNCHANGED <<cs, objects, wl, head, secret, wired, pc, job, dirty, moves>>

(* The same for ConfigMaps, which queue the sync that owns them.           *)
ObserveConfigMap(n) ==
  /\ seen[n] # store[n].owner
  /\ seen' = [seen EXCEPT ![n] = store[n].owner]
  /\ due' = due \cup {s \in {seen[n], store[n].owner} \cap Syncs : cs[s].live}
  /\ UNCHANGED <<cs, store, workloads, head, secret, wired, pc, job, dirty, moves>>

------------------------------------------------------------------------------
Reconcile(s) == ReconcileGone(s) \/ AddFinalizer(s) \/ ClearSyncNow(s)
                  \/ BeginSync(s) \/ BeginFinalize(s)

Pipeline ==
  \/ FetchAndRender \/ CheckConfigMap \/ PatchConfigMap \/ PruneConfigMaps
  \/ ManifestsRejected \/ ApplyManifests \/ ApplyManifestsFails \/ PruneManifests
  \/ ResolveSecrets \/ Inspect \/ Wire \/ WireFails \/ StampNoRestart
  \/ StampNoRestartFails \/ RolloutProgress \/ UpdateStatus \/ UpdateStatusFails
  \/ Unwire \/ ClearStamp \/ FinalPrune \/ FinalPruneManifests \/ DropFinalizer
  \/ DropFinalizerConflict

Faults ==
  \/ FetchFails \/ PatchConfigMapFails \/ PruneConfigMapsFails \/ PruneManifestsFails
  \/ FinalizeFails \/ Crash

Users ==
  \/ \E s \in Syncs : CreateSync(s) \/ EditSpec(s) \/ AnnotateSyncNow(s) \/ DeleteSync(s)
  \/ Push
  \/ \E r \in Refs : ChangeSecret(r)
  \/ \E w \in Workloads : ReplaceWorkload(w) \/ StripStamp(w) \/ StripFields(w)
                           \/ StickRollout(w) \/ ResumeRollout(w)
  \/ \E n \in Names : CreateForeign(n) \/ DeleteObject(n)

Operator == (\E s \in Syncs : Reconcile(s)) \/ Pipeline
Kubernetes ==
  \/ \E w \in Workloads : FinishRollout(w) \/ ObserveWorkload(w)
  \/ \E n \in ConfigMaps : ObserveConfigMap(n)

Next == Operator \/ Faults \/ Users \/ Kubernetes

Spec == Init /\ [][Next]_vars

(***************************************************************************)
(* The work queue retries every queued ConfigSync and a started reconcile  *)
(* goes on; the watch and the workload controllers make progress.  Nothing *)
(* is assumed of users, and failures are finitely many (MaxMoves).         *)
(***************************************************************************)
Fairness ==
  /\ WF_vars(Pipeline)
  /\ \A s \in Syncs : SF_vars(Reconcile(s))
  /\ \A w \in Workloads : WF_vars(FinishRollout(w)) /\ WF_vars(ObserveWorkload(w))
  /\ \A n \in ConfigMaps : WF_vars(ObserveConfigMap(n))

FairSpec == Spec /\ Fairness
==============================================================================
