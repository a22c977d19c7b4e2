------------------------- MODULE ConfigSyncProperties -------------------------
(***************************************************************************)
(* What the reconcile loop promises.                                       *)
(***************************************************************************)
EXTENDS ConfigSync

StatusType ==
  [observed : Specs \cup {None}, conds : SUBSET Conditions, complete : Completes,
   ready : Readies, version : Versions \cup {None},
   workloadVersion : Versions \cup {None}, est : SUBSET Refs]

TemplateType ==
  [cm : ConfigMaps \cup {None}, mount : {sp.mount : sp \in Specs} \cup {None},
   refs : SUBSET Refs, stamp : Versions \cup {None}]

Labels == {"idle", "fetch", "apply", "patch", "prune", "manifests", "pruneManifests",
           "resolve", "inspect", "wire", "objectStamp", "progress", "status", "unwire",
           "clearStamp", "finalPrune", "finalPruneManifests", "dropFinalizer"}

(* Types of the variables: API objects, caches and the worker's memory.    *)
TypeOK ==
  /\ \A s \in Syncs :
       /\ cs[s].live \in BOOLEAN /\ cs[s].deleting \in BOOLEAN
       /\ cs[s].fin \in BOOLEAN /\ cs[s].syncNow \in BOOLEAN /\ cs[s].born \in Nat
       /\ cs[s].spec \in Specs \cup {None} /\ cs[s].status \in StatusType
       /\ cs[s].live => cs[s].spec \in Specs
  /\ \A n \in Names : store[n].owner \in Syncs \cup {User, None}
  /\ seen \in [ConfigMaps -> Syncs \cup {User, None}]
  /\ \A x \in {wl[w] : w \in Workloads} \cup {wlc[w] : w \in Workloads} :
       /\ x.exists \in BOOLEAN /\ x.tmpl \in TemplateType
       /\ x.objStamp \in Versions \cup {None}
       /\ x.rollout \in {"rolling", "done", "stuck"} /\ x.by \in Syncs \cup {None}
  /\ head \in Commits /\ secret \in [Refs -> Tokens]
  /\ pc \in Labels /\ dirty \in BOOLEAN /\ due \subseteq Syncs
  /\ pc # "idle" => Me \in Syncs /\ job.spec \in Specs
  /\ job.st \in StatusType /\ job.commit \in Commits \cup {None}
  /\ moves \in 0 .. MaxMoves /\ wired \in [Syncs -> SUBSET Refs]

Running(s) == pc # "idle" /\ Me = s

(* No ConfigSync is forgotten: it is queued or being reconciled, whatever  *)
(* path the reconcile took, across conflicts, errors and restarts.         *)
NeverForgotten == \A s \in Syncs : cs[s].live => s \in due \/ Running(s)

(* Whatever object the operator has put into the cluster for a sync is     *)
(* covered by that sync's finalizer, so that deleting the sync cannot      *)
(* leave it behind.                                                        *)
ObjectsGuarded == \A n \in Names : store[n].owner \in Syncs => cs[store[n].owner].fin

(* The fields the operator wired into a pod template are covered by the    *)
(* finalizer of the sync that wired them.                                  *)
WorkloadsGuarded == \A w \in Workloads : wl[w].by \in Syncs => cs[wl[w].by].fin

(* A reference is marked Established only when the workload has been wired *)
(* with it (markSecretsEstablished).                                       *)
EstablishedWired == \A s \in Syncs : cs[s].status.est \subseteq wired[s]

(* A stamp moves to a version only when the ConfigMap the template then    *)
(* mounts holds the rendering of that version's commit and every secret    *)
(* reference of the template was resolved by the same reconcile.           *)
StampOnlyPublished ==
  [][\A w \in Workloads :
       LET t == wl'[w].tmpl
       IN  t.stamp \notin {None, wl[w].tmpl.stamp} =>
             /\ store[t.cm] = [owner |-> wl'[w].by, data |-> <<t.stamp[1], job.spec.path>>]
             /\ \A r \in t.refs : job.tok[r] > 0
    ]_vars

(* R-ROLLOUT.2: while the stamp stays, the operator does not touch the pod *)
(* template, so one version costs at most one rollout.  (With a read cache *)
(* that can show an older stamp this is not guaranteed.)                   *)
OneRolloutPerVersion ==
  [][\A w \in Workloads :
       Operator /\ wl[w].tmpl.stamp # None /\ wl'[w].tmpl # wl[w].tmpl =>
         wl'[w].tmpl.stamp # wl[w].tmpl.stamp
    ]_vars

(* The operator never deletes a ConfigMap that a workload still mounts.    *)
MountedNeverPruned ==
  [][\A n \in ConfigMaps :
       Operator /\ store[n].owner \in Syncs /\ store'[n] = NoObject =>
         \A w \in Workloads : ~(wl[w].exists /\ wl[w].tmpl.cm = n)
    ]_vars

(* An object a user created is neither adopted nor overwritten, and it is  *)
(* deleted only if it carries the labels of the sync (ownedBy looks at     *)
(* labels and controller reference, Prune at the labels).                  *)
NoAdoption ==
  [][\A n \in Names : Operator /\ store[n].owner = User =>
       \/ store'[n] = store[n]
       \/ store'[n] = NoObject /\ LabelOf[n] = Me
    ]_vars

(* Only the owner of the singleton writes the workload.                    *)
LoserNeverWrites ==
  [][\A w \in Workloads :
       Operator /\ (wl'[w].tmpl # wl[w].tmpl \/ wl'[w].objStamp # wl[w].objStamp)
         => ~SingletonConflict(Me)
    ]_vars

(* The workload of sp carries version v as sync s would wire it.           *)
Applied(s, sp, v) ==
  LET x == wl[sp.wl]
  IN  /\ x.exists /\ x.tmpl.cm = sp.cm /\ x.tmpl.mount = sp.mount /\ x.tmpl.refs = sp.refs
      /\ v = IF sp.mode = "auto" THEN x.tmpl.stamp ELSE x.objStamp
      /\ sp.mode = "none" => x.tmpl.stamp = None
      /\ store[sp.cm] = [owner |-> s, data |-> <<v[1], sp.path>>]

(* When the status turns Ready=True, the workload carries the reported     *)
(* version, mounts the ConfigMap of the spec with that version's content   *)
(* and has all its secret references.                                      *)
ReadyIsApplied ==
  [][\A s \in Syncs :
       LET st == cs'[s].status
       IN  st # cs[s].status /\ st.ready = "Synced" =>
             Applied(s, st.observed, st.version) /\ st.workloadVersion = st.version
    ]_vars

(* And it has finished rolling out: Ready=True means "desired version      *)
(* fully applied, wired, converged" (SPEC, Status conditions).             *)
ReadyIsHonest ==
  [][\A s \in Syncs :
       LET st == cs'[s].status
       IN  st # cs[s].status /\ st.ready = "Synced" =>
             /\ Applied(s, st.observed, st.version)
             /\ st.workloadVersion = st.version
             /\ st.observed.mode = "auto" => wl[st.observed.wl].rollout = "done"
    ]_vars

(* Nothing in the cluster or the repository keeps s from being applied.    *)
Applicable(s) ==
  LET sp == cs[s].spec
  IN  /\ cs[s].live /\ ~cs[s].deleting /\ ~SingletonConflict(s)
      /\ wl[sp.wl].exists /\ (sp.mode = "auto" => Supported(sp.wl))
      /\ head \notin BadRender \cup BadManifests
      /\ \A n \in {sp.cm} \cup ManifestsOf[head] : store[n].owner \in {None, s}
      /\ \A r \in sp.refs : secret[r] > 0

Desired(s) ==
  VersionWithSecrets(head, EnvTokens(cs[s].spec.refs, secret))

Converged(s) ==
  /\ Applied(s, cs[s].spec, Desired(s)) /\ cs[s].status.ready = "Synced"
  /\ {n \in Names : store[n].owner = s} = {cs[s].spec.cm} \cup ManifestsOf[head]

(* Once users and failures pause, every ConfigSync that can be applied is  *)
(* applied at the head of its branch and reported Ready, and what it no    *)
(* longer needs is gone.                                                   *)
Converges == <>[](\A s \in Syncs : Applicable(s) => Converged(s))

(* A deleted ConfigSync goes away: the finalizer is eventually dropped.    *)
DeletionCompletes == \A s \in Syncs : cs[s].deleting ~> ~cs[s].live

Phase(x) ==
  CASE ~x.live -> "absent"
    [] x.live /\ ~x.fin -> "declared"
    [] x.live /\ x.fin /\ ~x.deleting -> "guarded"
    [] OTHER -> "leaving"

L == INSTANCE Lifecycle WITH phase <- [s \in Syncs |-> Phase(cs[s])],
                             owner <- [n \in Names |-> store[n].owner]

(* The reconcile loop, with everything that interrupts it, keeps to the    *)
(* life cycle: it places objects only under the finalizer and under names  *)
(* that are free or its own, removes only its own, and lets the sync go    *)
(* only after all of them.                                                 *)
KeepsLifecycle == L!Spec

(* Retracting a workload's fields hits only fields of the sync that is     *)
(* being deleted (the comment in finalize: it "must NOT unwire" another    *)
(* sync's wiring).                                                         *)
UnwireOnlyOwn ==
  [][\A w \in Workloads : Unwire /\ wl'[w] # wl[w] => wl[w].by \in {Me, None}]_vars
==============================================================================
