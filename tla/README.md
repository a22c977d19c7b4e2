# Kohen: TLA+ models, checks and proofs

Kohen is a Kubernetes operator. A `ConfigSync` names a git source, a workload and secret references; the
operator renders the tracked tree into a ConfigMap, applies `ExternalSecret` manifests found in it, waits for the
referenced Secrets, mounts everything into the workload's pod template by server-side apply and stamps the template with a
version so that the workload rolls. This directory holds models of that code, the TLC
configurations that check them on small instances, and TLAPS proofs.

## 1. Inventory

| Part | Code | State it keeps | Operations | What makes it correct |
| --- | --- | --- | --- | --- |
| Reconcile loop | `internal/controller/configsync_controller.go`, `helpers.go` | the `ConfigSync` object and its status; nothing in memory between reconciles | `Reconcile`, `sync`, `wireAndStamp`, `finalize`, the watches | no sync forgotten, everything it created covered by the finalizer, honest status, convergence |
| Apply engine | `internal/apply` | owned ConfigMaps and manifests | `Apply`, `Prune`, `PruneKind` | never adopts; deletes only what carries its labels |
| Wire engine | `internal/wire` | fields of field manager `kohen` | `Wire`, `Unwire` | replaces and retracts exactly those fields |
| Rollout engine | `internal/rollout` | stamps (pod template or object) | versions, `StampNoRestart`, `ClearStamp`, progress | one rollout per version |
| Secret resolution | `internal/controller/secrets.go`, `internal/secret` and its backends | `Established` marks, `SecretsReady` and its transition time | `resolveSecrets`, `Evaluate`, `Resolve` | fail closed first, fail safe later, bounded degradation |
| Manifest apply | `internal/controller/manifests.go` | owned `ExternalSecret`s | `applyManifests` | all-or-nothing validation, owner-scoped prune, no half-applied commit left behind |
| Manifest loader, guard | `internal/manifest` | none | `Load`, `Check` | claims exactly the files the renderer leaves, rejects disallowed kinds, namespaces and stores |
| Fetch cache | `internal/git/cache.go` | map, entries with counts, directories | `acquire`, `release`, `evictLocked` | in-use worktrees kept, exact counts, single flight, no leak |
| Git source | `internal/git/source.go` and neighbours | worktrees on disk | `Fetch`, `resolveRef`, `checkout` | the worktree is the commit it is reported as |
| Renderer | `internal/render` | none | `Render` | deterministic, within limits, no collisions |
| Metrics | `internal/metrics` | a degraded gauge and a version series per sync, in the process | `Record`, `SetConfigVersion`, `ClearConfigSync` | agree with the status, none left behind |
| Redactor, config, main | `internal/redact`, `internal/config`, `cmd/operator` | registered values; settings | | |

How they interact. The controller-runtime work queue hands one name at a time to `Reconcile`
(the default of one concurrent reconcile is not changed). `sync` calls fetch, render, apply, prune, manifests,
resolve, inspect, wire, stamp and progress in this order, building a status in memory that a
single `Status().Update` writes at the end under optimistic concurrency. Workloads are read from the
manager's cache in `inspectWorkload` and `rolloutProgress`, but live in `Wire`, `ObjectStamp` and the
resolvers (unstructured or uncached reads); ConfigMaps are read from the cache by the apply engine, ExternalSecrets are not. Secrets other than credentials, and branches, are not
watched: only requeues notice them. The fetch cache is the one part with concurrent goroutines and a mutex
of its own.

What is hard. Between any two calls of a reconcile users edit or delete the sync, other
managers change the workload, somebody creates an object of the same name, a call fails, or the operator dies; what
the reconcile read earlier is then stale. Several decisions rest on one summary value (the stamp stands for all wiring, a
condition's transition time for an outage, the age of two objects for ownership). `PROJECT.json` lists
these hazards at their lines.

## 2. Plan

Order of work, most important first. Everything up to 11 is in place.

1. `ConfigSync` (with `Decisions`, `ConfigSyncProperties`, `MCConfigSync`): the reconcile loop with the apply, wire and
   rollout engines, users, faults, lagging caches and restarts.
2. `FetchCache` (with `MCFetchCache`): the concurrent cache.
3. `FetchCacheProofs`: its safety for any number of callers, keys and entries.
4. `SecretOutage` (with `MCSecretOutage`): resolvers, `Established` and the outage clock.
5. `GitSource` (with `MCGitSource`), composed with `FetchCache`: list, clone and checkout against a moving branch.
6. `GitSourceProofs`: it implements `FetchCache`; what it returns is honest and not outdated.
7. `RolloutProgress` (with `MCRolloutProgress`): the progress functions under the controllers of Kubernetes, and
   `Rollout`, the three-valued summary that `ConfigSync` works with, which they implement.
8. `ConfigTree` (with `MCConfigTree`): renderer, manifest loader, guard and manifest apply over trees of files.
9. `Lifecycle`: the abstract specification of a ConfigSync and its objects, which `ConfigSync` implements.
   `Metrics` (with `MCMetrics`), composed with `ConfigSync`.
10. `ConfigSyncProofs`: `NeverForgotten`, `ObjectsGuarded`, `NoAdoption` and the refinement of `Lifecycle`, with assumptions on
    single reads in place of a cache that never lags.
11. `WorkloadProofs`: types and everything the reconcile loop promises about workloads and status. `SecretOutageProofs`,
    `RolloutProofs`, `ConfigTreeProofs`, `MetricsProofs` and the footprint in `FetchCacheProofs`.
12. To do: proofs with weaker assumptions, as section 5 says at each of them.

## 3. The modules

### Decisions

Pure operators shared by the others: `WinsOver`, `Evaluate` (`secret.Evaluate`), `VersionWithSecrets`,
`ComputeReady`. A version is the pair of commit and env tokens: the truncated hashes are taken to be injective.

### ConfigSync

One worker with a program counter that stops before every group of calls to the API server, git or the Secrets. A group is one call,
with three exceptions: the manifests of a commit are checked and patched in one step, the deletes of one prune are
one step, and the references are resolved in one step (`SecretOutage` reads them one by one, `ConfigTree` applies manifests one by one). `cs` holds the
ConfigSync objects (deletion timestamp, finalizer, sync-now annotation, creation time, spec, status), `store` the
ConfigMaps and manifests with their owner, `seen` the owners of ConfigMaps in the manager's cache, `wl` the workloads
and `wlc` the cached copy of them (`Lag` says which of the two caches may be behind; `ObserveWorkload` and
`ObserveConfigMap` deliver the watch events),
`head` the branch, `secret` the version tokens of backing Secrets, `job` what a running reconcile holds in
memory, `dirty` whether its copy of the ConfigSync is out of date, `due` the work queue. `wired` is history.

* `ReconcileGone`, `AddFinalizer`, `ClearSyncNow`, `BeginSync` and `BeginFinalize` are the early returns and the two
  branches of `Reconcile`; the pipeline actions follow `sync`, `applyManifests`, `wireAndStamp` and `finalize` call by
  call. Every action named `...Fails` is the error path of that call, with the status the code then
  writes. A multi-object apply or prune that fails leaves an arbitrary subset done. A failing list in
  `singletonConflict` is a move of its own, since the code then goes on as if there were no conflict.
* `UpdateStatus` succeeds only when the object did not change since it was read; the conflict, like every error, queues the
  sync again. `Requeue` stands for every form of coming back (`Requeue`, `RequeueAfter`, an error): delays
  are abstracted.
* The ConfigSync that `Reconcile` gets and the list in `singletonConflict` come from the manager's cache in the code and are read live
  here. A reconcile of an older copy behaves as one that began before the writes it misses: `dirty` then makes its own write to
  the object fail. What that does not cover is a cached sync that is gone already, which `finalize` would go through a second time, and
  a list that does not show a rival created a moment ago, which is what `Ties` and the failing list show the effect of.
* An object Kohen applied has the labels and the controller reference of the same sync, so its owner stands for both. An object of a user has no
  such reference but may have the labels (`LabelOf`): `OwnedBy`, which needs the reference, refuses it, while `Stale`, which goes by labels
  as `Prune` does, deletes it.
* `Crash` forgets the job and the queue; the initial list queues every sync again.
* A workload's rollout is `rolling`, `done` or `stuck` (progress deadline exceeded); a change of the pod template
  starts one, and lost pods or scaling start it again (`ResumeRollout`). A `stuck` condition survives a new write until
  the workload controller acts, as `DeploymentProgress` sees it. `RolloutProgress` justifies this summary.
* Users create, edit, annotate and delete syncs, push commits, rotate and remove Secrets, delete and re-create
  workloads, strip Kohen's stamp or fields, create and delete objects.

Left out of this module: events, `RolloutInProgress` and `SourceCommit` (written, never read), the re-creation of a deleted sync under its name (and with it the comparison of UIDs), garbage collection by owner reference, time.

### Lifecycle

What a ConfigSync promises about objects, without a reconcile loop: a sync is absent, declared, guarded by its finalizer, or
leaving; it places objects only under the finalizer and only under names that are free or its own, removes only its own,
and is gone only after all of them. `ConfigSyncProperties!L` maps `cs` and the owners in `store` to it.

### Rollout and RolloutProgress

`RolloutProgress` has one workload, a Deployment or a StatefulSet, with generations, pods of versions and a status that its
Kubernetes controller writes as a snapshot of the pods, and the two calls of `wireAndStamp` that matter: the stamp, compared in the read cache, and the
progress, read from the cache again. The controllers are external: a Deployment surges, keeps `spec.replicas` pods available and
removes pods of other versions; a StatefulSet replaces ordinals one at a time from the top. Pods of a version in
`BrokenOf` its kind never become ready. Partitioned updates are left out: with one, the current revision never becomes
the updated one, `StatefulSetProgress` says the rollout goes on for ever, and the repository does not say what it should say.
`Rollout` is the abstract specification: the pod template and a summary `rolling`, `done` or `stuck`; a new
template is never done at once and only a rollout in flight gets stuck.

### ConfigTree

One commit is a set of files out of a catalogue (`Trees` are the sets that are tried). A path is a sequence of names and a
name the sequence of its parts between `__`, so that flattening (`/` to `__`) and its collisions are what they are in the code. A file has a size, is
text or binary, and has documents, each of a class by what the two YAML decoders make of it: `yaml.v3`
into `typeMeta` in `IsKubernetesManifest`, the Kubernetes decoder into a map in `parseFile`. The properties do not use the decoders:
`ObjectsIn` and `IsConfig` say what the documents call a manifest and a config file (any document of a YAML or JSON file that sets `apiVersion` and `kind`
makes it a manifest; a document that does not decode is skipped). `ClearDocs` are the files for which the decoders can
give that answer: none of their documents has type metadata that is no string, and no object follows a document that does not decode. The reconcile walks the tree for the
renderer one entry at a time (`RejectLink`, `Skip`, `RejectKey`, `Include`), checks the limits, publishes the ConfigMap, walks
again for the loader, guards all objects, applies them one by one and prunes. A loaded object is the pair of its file's and its
document's position, which is also the order in which the code's slice holds them. It can be interrupted between any two
steps, and the next fetch may find another commit or another clone of the same one; a clone has a `.git` of its own, which is part of the walked
directory when the configured path is the repository's root (`Root`).

### Metrics

The two series per sync next to the actions of `ConfigSync`: each action that reaches a call of `internal/metrics` is
conjoined with what the call does, a crash loses both. The counters and histograms are left out.

### SecretOutage

`resolveSecrets` step by step over elapsed time. Secrets and ExternalSecrets change at any moment, each reference is read in
a step of its own, and the outage clock lives where the code keeps it: in the age of the `SecretsReady` condition
in the status, which is carried over from reconcile to reconcile and lost with a conflicting update. `SecretName`
and `TargetName` are the two names an ExternalSecret reference has. Whether `wireAndStamp` writes or finds the
stamp matching is left open here (`ConfigSync` decides it).

### FetchCache

Each step of a caller is one critical section of `fc.mu`, one channel operation or one directory removal.
An identifier in `Entries` is an entry and its temporary directory; `MkdirTemp` gives a fresh one, so an identifier
comes back only when nothing refers to it. A failing `MkdirTemp` changes nothing and a failing
`RemoveAll`, whose error the code drops, is taken to succeed. The choice among equally old entries in `evictLocked`
follows Go's map order and is open.

### GitSource

`Client.Fetch` over `FetchCache`, whose actions it extends: `ResolveRef` lists the remote, `AcquireHit` and `AcquireMiss`
enter the cache under the listed hash, `Checkout` is the clone that fills an entry with what the remote serves by then,
`Return`, `Reject` and `Cleanup` are the three ways from the worktree to `release`, and the `...Own` actions are
the uncached path of an abbreviated commit. There is one repository, so a key is a hash; hashes are numbered in the
order in which the branch reaches them, and pushes are fast-forward (after a forced push back, a hash cached too new is
served for the branch as well). An annotated tag is a branch whose hash stands for one commit. `tree` is what
is on disk, `commit` what the entry says, `result` what a caller was told.

## 4. The runs

Bounds: in `ConfigSync`, `Metrics` and `RolloutProgress` every environment move and every fault counts against `MaxMoves` (2 to 4): enough
for two faults or edits around a deletion or a restart, which is what each hazard needs. In `core` the five commits have no, one or two
manifests, or are rejected by the renderer or the guard, and one manifest's name is taken by an object of a user; tokens 0 to 2 give an absent, a present and a rotated Secret; two
syncs suffice for the singleton rule, which is pairwise. Liveness is checked on smaller instances than safety: `converge` has one
commit and no manifests, so what changes a version there is a secret, while `singleton` has pushes and `core` has
the manifests. Two replicas, two versions and one pod of surge make a rollout
pass through mixed states and back. Trees are all pairs of clear catalogued files and all triples of configuration files or of
manifests: a collision needs two, a link and its target two, and a bad object must stop the others wherever it is; the catalogue
holds at least one file for each branch of the code. The limits are scaled down (22 bytes, 2 of margin, keys of 6 characters) so that
three files reach and pass them. Two callers suffice for the cache because its safety is proved for any number.

| Run | Checks | Shows |
| --- | --- | --- |
| `core` | types, `NeverForgotten`, `ObjectsGuarded`, `WorkloadsGuarded`, `EstablishedWired`, `StampOnlyPublished`, `OneRolloutPerVersion`, `KeepsLifecycle` | safety of one sync under faults, a crash, invalid commits, partial applies and prunes, a manifest's name that is taken, rotation, stripped fields, stuck rollouts and deletion; `Lifecycle` is implemented |
| `converge` | `Converges`, `DeletionCompletes` | after the last disturbance (renames, mode switches, rotations, replaced workloads, tampered objects, conflicts, a restart, both read caches lagging, a user's object with Kohen's labels) the sync is applied and Ready, or gone |
| `singleton` | `LoserNeverWrites`, `MountedNeverPruned`, `Converges`, `NoSeriesLeft`, `GaugeFollows` | two syncs on one workload through pushes, faults, restarts and deletions, with their metrics: the survivor takes over, series agree with the status and go with their sync |
| `cache` | `InUseKept`, `RefsExact`, `SingleFlight`, `UsesComplete`, `NoLeak`, `FootprintBound`, `AcquireReturns`, `DeadRemoved` | two callers, more keys than callers and a cap of one, so that the cap matters; every waiter is answered, dead worktrees go |
| `git_source` | `HonestCommit`, `NeverOlder`, `CacheProtocol` | fetches share worktrees while the branch moves between listing and clone |
| `secrets` | `WiredSeen`, `StickyEstablished`, `Recovers`, `NotMaskedForever` | references added and removed during outages, an invalid one too |
| `rollout` | `CompleteRolledOut`, `Settles`, `StuckSurfaced`, `ImplementsRollout` | versions and pods change under both kinds of workload with a lagging cache, a Deployment's replicas too and one of its versions never starts: complete means rolled out, stuck Deployments are told, `Rollout` is implemented |
| `tree` | `RenderExact`, `LimitsExact`, `PrunedToTree`, `AllOrNothing` | below the repository's root and for clear files, the ConfigMap is exactly the config files, within the limit, and what is refused is too large; only permitted commits are applied, as a whole, and success leaves exactly the commit's objects |

`CHECK_DEADLOCK FALSE` is set where syncs can be deleted: a cluster without syncs is quiescent.

Runs that end in a violation state what a document or a comment says and show that the code
does otherwise; `findings` in `PROJECT.json` quotes the lines.

| Run | The code does | The text says |
| --- | --- | --- |
| `v_ready` | progress is read from the cache right after the stamp is written, so the previous rollout's completion makes the new version Ready | Ready is "fully applied, wired, converged" |
| `v_takeover` | while the older of two syncs is being deleted the younger wires, then the older unwires it | must not retract the incumbent's fields |
| `v_pinned` | a worktree is keyed by the hash listed before the clone; after a push in between, a fetch of that hash gets the newer commit | "tag/commit = immutable pin" |
| `v_render` | a manifest behind a document that does not decode becomes a key, and at the repository's root the clone's `.git` does | "any Kubernetes-shaped YAML under the path is excluded from ConfigMap keys"; "same inputs ⇒ byte-identical objects" |

The counterexample of `v_ready` needs no edit and no failure: the first reconcile writes the stamp, reads the workload as it was before, and
reports Ready. With `Lag = {}` the same run still ends in a violation, by an edit: a new `configMap.name` keeps the version, the old ConfigMap
is pruned, the write is skipped, Ready. So `ReadyIsHonest` is no property of a passing run; section 5 says what is proved instead. In `v_render` one
commit shows both halves. `RenderExact` is the same definition in `tree` and there, as is the code.

The passing runs are arranged around these four and around more behaviours that the models have and that no run keeps. The first
group shows when the named constant or property of an instance is changed:

* `WorkloadsGuarded` fails once `workloadRef` is edited: deletion unwires only the workload named last (`core` edits nothing);
* `LoserNeverWrites` fails once the list of `singletonConflict` may fail (`"list"` in `Moves`): the failure counts as no conflict;
* `NoAdoption` fails with `"foreign"` in `Moves`: an object created between the check and the apply is taken over, and with
  `"configMap"` in `Lag` one created before the check too; no run checks it, since without such creations only the guard of
  `Apply` is left, and `NeverAdopts` proves it up to exactly these two races;
* `OneRolloutPerVersion` fails with `"workload"` in `Lag`: a version that the cache does not show yet is written
  again, and rolls once more if fields were stripped since;
* `Prune` deletes by label and name: an object of a user goes if it carries the labels (`LabelOf`), or, with `"configMap"` in `Lag`, if it has
  taken the name of a listed one since;
* `ReadyIsApplied` (the part of `ReadyIsHonest` without the rollout) fails with stripped fields under a stamp that stays, and with
  `"workload"` in `Lag` after versions A, B, A, when the cache still shows the first stamp;
* `ObjectsGuarded` fails with `"configMap"` in `Lag`: the list of the final `Prune` can miss a ConfigMap that then outlives the
  finalizer; the garbage collector would take it by its owner reference, which the model leaves out;
* `Converges` fails when another manager strips fields and leaves the stamp (`"stripFields"`), and in mode `auto` after a rename
  alone, which leaves the version as it is: `converge` combines renames with a mode switch;
* `WiredSeen` fails with `Renamed = {"x"}`: an ExternalSecret's own target name is checked, not wired;
* `CompleteRolledOut` fails for a StatefulSet that is rolled back and scaled down (three moves): it is complete while a condemned pod runs
  the other version; `StuckSurfaced` without its first disjunct fails when a StatefulSet's version is broken.

The second is not stated as a property of its own:

* a manifest whose `kind` is a number is excluded by the renderer and ignored by the loader, and the sync succeeds; behind a document
  whose `kind` is a mapping, where only the renderer's decoder fails, a manifest is applied and its file is a key too;
* the ConfigMap moves to the new commit before its manifests are guarded and its secrets resolve, also when they are rejected;
* the version series is set before the workload is wired, if it ever is;
* a file reference added to a stamped workload is marked Established although nothing is written;
* two documents of one name in a commit are both applied, the one walked last wins;
* time spent awaiting a first resolution counts towards `MaxDegradedExceeded`, since it keeps the same condition False;
* a switch to rollout mode `none` changes the pod template once, and cache eviction runs only after a successful clone.

### Fairness

`ConfigSync!Fairness`: a reconcile in progress takes its next step (calls have deadlines and
failures are finitely many); a queued sync is eventually picked up even while others keep being queued (the
work queue is first-in, first-out and does not hold duplicates, hence strong fairness per sync); the watch delivers,
for workloads and for ConfigMaps, and workload controllers finish rollouts. Nothing is assumed of users. `SecretOutage`: reconciles
go on, because an unready sync is requeued every ten seconds and a steady one at its interval; time passes.
`FetchCache!Fairness`: a clone returns (the HTTP transport has a five-minute timeout), a reader finishes, the
scheduler runs every goroutine, time passes; no caller has to fetch. `RolloutProgress!Fairness`: the reconcile is repeated
(every ten seconds while a rollout is in flight), the watch delivers, the workload's controller observes, works and
writes its status, a pod that can start does, and a deadline passes; weak fairness suffices, since nothing but its own
step ends such a step's being possible for good. `Metrics` uses the fairness of `ConfigSync`. `ConfigTree` states
safety only.

### Mutants

Every property of a passing run is also shown to fail on a plausible slip in the code it is about. The slips are the operators
named `Bug...`, next to the definitions they would replace; no specification uses them.

## 5. Proofs

`FetchCacheProofs` proves, for any finite sets of callers and entries, any keys, cap, TTL and clock bound
(`CacheAssumption`), that `FetchCache!Spec` implies `[]TypeOK`, `[]InUseKept`, `[]RefsExact`, `[]SingleFlight`,
`[]UsesComplete` and `[]NoLeak`.

None of these is inductive. That a held directory stays (`InUseKept`) depends on eviction taking only entries whose
count is zero, so on the count being exact; that a dying entry is removed once depends on it being unmapped and unheld
when a removal is pending; that the fill is unique depends on the entry being published before the clone. The inductive
invariant `IInv` is `TypeOK`, `RefsExact` and

* `MapInv`: a mapped entry has its directory, is neither dead nor failed, and has one key;
* `FillInv`: the caller that clones does so into the mapped entry, is the only one, and readiness follows its progress;
* `RemoveInv`: an entry with a pending removal is dead, unmapped, unreferenced, and has one remover;
* `HoldInv`: a holder's directory exists, an idle caller has no entry, a reader's entry has no error;
* `LeakInv`: a directory on disk is mapped, or dead and referenced, or about to be removed.

`HeldRefs` turns the cardinality into the fact the other steps need: a count is zero exactly when nobody holds the
entry. There is one lemma per action, with one step per conjunct; `RefsExact` is re-established by counting one holder
more (`Hit`, `Miss`), one less (`Release`) or the same ones.

`GitSourceProofs` proves, under `SourceAssumption` besides, that `SourceSpec` implies `CacheProtocol` (the cache's
`Spec`), `[]HonestCommit` and `[]NeverOlder`. `CacheSimulation` shows that every step of `GitSource` is a step of the cache
or leaves it alone, so `IInv` carries over; on top of it `SInv` adds

* `TreeInv`: a directory on disk holds the commit its entry reports, a removed one nothing;
* `ListedInv`: a listed hash is not ahead of the branch, and is the commit that was asked for otherwise;
* `KeyInv`: a caller inside the cache is there under its listed hash, and a living entry is mapped under its holders' key;
* `AgeInv`: an entry is not older than its key;
* `ResultInv`: a result belongs to the worktree in use, or to the caller's own directory.

The clone is the step that matters: nobody reads the entry yet (`FillInv`), everybody who waits for it listed the same
hash (`KeyInv` with the uniqueness in `MapInv`), and the branch has only moved forward since.

`ConfigSyncProofs` proves, under `ConstantsAssumption` (any numbers of syncs, workloads, objects, references and versions, any
bound on moves), in three layers:

* `LoopInvariance`: `LoopInv` says what shape the objects and the job have, that a worker that has come past the finalizer check
  works on a sync that has the finalizer, and that every sync there is is in the queue or being worked on. The queue is
  the point: `NeverForgotten` is one conjunct, kept because every way out of a reconcile calls `Requeue`. This theorem and
  `NothingForgotten` need no further assumption.
* `ObjectInvariance`: `ObjectInv` adds that an object's owner has its finalizer (`ObjectsGuarded`), which is not
  inductive: `DropFinalizer` keeps it only because nothing is left by then. So `FinalInv` says, for each label of
  `finalize`, which objects have already been removed. The two prunes find their objects by listing, so this needs
  `[]FinalListCurrent`: when `finalize` lists ConfigMaps, the cache has caught up. Otherwise the statement is false without the garbage
  collector. At every other moment the cache may lag. `ObjectsCovered` follows.
* `PatchInvariance`: `PatchInv` says that at the label between the ownership check and the apply the name is still free or the
  sync's own. Its two hypotheses are the two races the code has: `NoRace`, nobody creates the reconcile's own ConfigMap
  between check and apply, and `[]ReadsCurrent`, the cache has caught up when ConfigMaps are checked or listed. Users may create, label and
  delete objects at any other moment. `NeverAdopts` (the action property `NoAdoption`) follows, and with `Unlabeled` (no object of a user has
  Kohen's labels) `LifecycleKept` (`Spec => KeepsLifecycle`, the refinement of `Lifecycle`), with one lemma for the steps of a sync and one for
  those that write objects. `NoLagReads` shows that the hypotheses on reads hold in every behaviour without a lagging cache.

Actions that change neither objects nor the queue are one case each (`Quiet`, `Bystands`), so that the step lemmas have
one step per kind of change.

`WorkloadProofs` goes on from there. `TypeInvariance` proves `TypeOK` with `TypeInv`, which adds what the types of the next
step depend on: the shape of the functions, that a commit is known from the fetch to the status write, that a greatest creation time
exists (`VersionsAssumption`: `None` is no version). Each theorem below has the inductive invariant it needs on top of it.

* `OwnerInv`, for `WorkloadsCovered`, `LoserStaysAway` and `OwnWiringUnwired`: whoever wired a workload targets it, is under its finalizer and has
  no older rival; a reconcile that goes on to write has none; after the unwire of a deletion no workload is wired by that sync.
  The point is that an answer read once, at the start of a reconcile, stays right to its end: a sync that appears later is younger, and
  a deleted one does not come back. That is false with two creation times in one second (`~Ties`), with a failing list
  (`"list" \notin Moves`) and with an edited `workloadRef` (`NoRetarget`), as section 4 says. `OwnWorkloadsCovered` trades the first two
  for `[]Alone`, no two syncs on one workload. `OwnWiringUnwired` shows that the finding of `v_takeover` needs a rival.
* `PublishedInv`, for `StampsArePublished`: from the apply to the stamp the ConfigMap of the job holds the job's commit. It needs that
  nobody deletes it in between (`"tamper" \notin Moves`).
* `WireInv`, for `OneRollout`: at the write, the live template does not carry the version yet. It needs the inspected
  copy to be the live one (`"workload" \notin Lag`); with a lagging cache a version may be written twice.
* `MountInv`, for `MountedSpared`: a sync owns no ConfigMap but the one of its spec, and a mounted one belongs to the sync
  that wired it. A rename prunes the mounted ConfigMap before the template moves on, so it needs `NoRename`, the
  assumptions of `OwnerInv`, and `[]ReadsCurrent`; users may create ConfigMaps at any time.
* `EstInv`, for `EstablishedOnlyWired`: a stamp stands for all references of its sync. That is false once a reference is added to a
  stamped workload (section 4), hence `NoRefEdit`, with a foreign stamp, hence `[]Alone`, and with a stamp that is only in the cache any more, hence
  `[]NoStaleMatch`: a stamp found to match is on the workload. The cache may lag otherwise.
* `HonestInv`, for `ReadyApplied` and `ReadyHonest`: what the job's status claims is true from the moment it is set to the status write. The moves
  in `Undoing` (edits and others' writes to workload or ConfigMap) make the claim false after the fact or, for edits, as section 4 says.
  Faults, pushes, rotations, deletions, stuck rollouts and restarts remain. Under this and `[]NoStaleMatch` (`Undisturbed`)
  `ReadyApplied` says that Ready=True tells the truth about version, ConfigMap and references, however old the rollout in the cache is.
  That the rollout has finished, `ReadyHonest`, needs `[]NoStaleCompletion` as well: a completion that is read is the live workload's. This
  is an assumption about the watch, which the code does not ensure; `v_ready` is a behaviour in which it fails.

`MetricsProofs` proves without assumptions that `MSpec` implies `Spec`, so everything above holds with metrics, and `NoSeriesLeft` from `SeriesInv`:
only a sync under its finalizer has series. `NoSeriesLeft` is not inductive, since the series are cleared before the finalizer is dropped.

`FetchCacheProofs!FootprintBounded` needs `IInv` and counts: an insertion happens with a clone that then runs, the clone that ends
evicts to the cap or until only held entries remain (`HeldFew`: no more of those than callers).

`SecretOutageProofs` proves `WiredSeen` and `StickyEstablished`; `IInv` there says what a reconcile knows between its reads: the names it has seen are those
of the references that resolved, all of them when it wires, and unless its status write is going to be refused it works for the references of the
spec and keeps their marks. `Renamed = {}` is needed
for `WiredSeen`, which is false otherwise (section 4). `MarksOnlyEarned` adds that marks are only given by a reconcile for which
every reference resolved.

`RolloutProofs` proves that `RolloutProgress` implements `Rollout` for any kinds, versions, replicas and broken versions. `BaseInv` is types
and the order of generations: the status is not ahead of its controller, nor the controller of the spec, and a generation determines what
was observed. The mapping's summary is a function of the live status, so
that each action is a step or a stutter of `Rollout` is a case split, except that a new template is not complete at once: its generation
is above every observed one. `CompleteRolledOut` needs `RolledInv`: while a status of the live generation says that all
pods are updated and none is left over, the pods are those of the version, since a controller creates only pods of what it observed and a
StatefulSet falls back to its current revision only while that is not the updated one.
It assumes that no StatefulSet is scaled, which is the counterexample of section 4.

`ConfigTreeProofs` proves the properties of `ConfigTree`, for any catalogue, trees, allow-list and limits (`TreeAssumption`,
`KeyAssumption`: documents are sequences, sizes are numbers, every key has a part). Where a property names the documents' manifests, the trees hold clear
files (`ClearTrees`); `v_render` and section 4 show the others.

* `RenderInv`, for `RendersExactly`: during the walk the candidates are exactly the entries that were passed and not excluded, keys differ, and no unsafe
  link was passed; from the publication on the ConfigMap is what they render to. It assumes `~Root`, since the clone's `.git` is walked otherwise.
* `RevInv`, for `RendersDeterministically`: what is published of a commit is a function of its tree, not of the clone (`Deterministic`), for any files,
  clear or not, again with `~Root`.
* `ApplyInv`, for `PrunesToTree` and `AppliesAllOrNothing`: during the second walk the loaded objects are exactly those of the files that were
  passed, from the guard on all of them are permitted, and while they are applied those that were taken are in the cluster.
* `LimitsInv`, for `LimitsAreExact`: the code adds up candidates, the property the keys of the published data. Both are `MapThenSumSet`, which
  chooses an order; that a sum exists, does not depend on the order, grows with its terms and may be
  taken over keys in place of files is proved from its definition (`IterationExists`, `IterationIsSum`, `SumMonotone`, `SumRenamed`). The raw
  check refuses nothing more because encoding never shrinks. It assumes `Margin < HardLimit`: otherwise `effectiveLimit` ignores the margin.

Induction over data cannot be used as a theorem about an arbitrary predicate; where it is needed (sums, iterations, the first document that
does not decode) the proofs take a least counterexample instead (`LeastNat`, from the well-foundedness of `<` on `Nat`).

Every safety property of a passing run is stated by a theorem. Only model-checked are all liveness properties (`Converges`, `DeletionCompletes`,
`GaugeFollows`, `AcquireReturns`, `DeadRemoved`, `Recovers`, `NotMaskedForever`, `Settles`, `StuckSurfaced`), since arguments from fairness
and `ENABLED` are outside what the prover handles. The four properties of the violation runs are refuted; `OwnWiringUnwired`,
`ReadyHonest` and `RendersExactly` say when three of them hold.

## 6. Not modelled

* `internal/git/url.go` and `auth.go`: validation of one URL string and construction of one credential, character by character and
  without state; what they reject is a failing fetch. `sanitizePath` and `verifyContained`: a rejected subpath is an outcome.
* `internal/redact`: text replacement in messages. `internal/config`: settings read once, constants here.
* Counters, histograms and events: nothing reads them.
* Garbage collection by owner reference and the re-creation of a deleted sync under its name; the manager's cache of ConfigSyncs, as said in section 3.
* I/O errors of the renderer and the loader are one `Interrupt`; `Options` of the renderer that the operator never sets (key
  separator, limits above the built-in one) are left at their defaults.
* `ConfigSync` takes a commit as a whole, rejected by the renderer, by the guard or not at all; what is in it is the subject of
  `ConfigTree`.
* Generated code, Helm charts, CRDs, RBAC, the site and test helpers carry no logic of their own.
