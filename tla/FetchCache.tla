------------------------------ MODULE FetchCache ------------------------------
(***************************************************************************)
(* The fetch cache of internal/git: worktrees shared by the callers of     *)
(* Fetch, keyed by repository and commit, reference-counted, filled by a   *)
(* single flight and evicted by age and by an LRU cap.                     *)
(*                                                                         *)
(* A step of a caller is one critical section of fc.mu, one channel        *)
(* operation or one directory removal.  An entry is identified with its    *)
(* directory: an identifier is reused only once its directory is gone and  *)
(* nobody refers to it.                                                    *)
(***************************************************************************)
EXTENDS Naturals, FiniteSets

CONSTANTS
  Callers,   \* goroutines inside Fetch
  Keys,      \* repository@commit
  Entries,   \* cacheEntry objects and their temporary directories
  MaxEntries,\* fc.max
  TTL,       \* fc.ttl, in ticks
  MaxClock,  \* bound on the clock
  None

ASSUME CacheAssumption ==
  /\ IsFiniteSet(Callers) /\ IsFiniteSet(Entries)
  /\ MaxEntries \in Nat /\ TTL \in Nat /\ MaxClock \in Nat
  /\ None \notin Entries /\ None \notin Keys

VARIABLES
  entries,  \* fc.entries: [Keys -> Entries \cup {None}]
  refs, lastUse, dead, ready, err, dir,   \* the fields of each entry
  pc, ent, key,   \* each caller: where it is, its entry, its key
  doomed,   \* each caller: the evicted directories it still has to remove
  clock

vars == <<entries, refs, lastUse, dead, ready, err, dir, pc, ent, key, doomed, clock>>

Holding == {"waiting", "cloning", "closing", "sweeping", "using", "releasing"}

Init ==
  /\ entries = [k \in Keys |-> None]
  /\ refs = [e \in Entries |-> 0]
  /\ lastUse = [e \in Entries |-> 0]
  /\ dead = [e \in Entries |-> FALSE]
  /\ ready = [e \in Entries |-> FALSE]
  /\ err = [e \in Entries |-> FALSE]
  /\ dir = [e \in Entries |-> FALSE]
  /\ pc = [t \in Callers |-> "idle"]
  /\ ent = [t \in Callers |-> None]
  /\ key = [t \in Callers |-> None]
  /\ doomed = [t \in Callers |-> {}]
  /\ clock = 0

Mapped == {e \in Entries : \E k \in Keys : entries[k] = e}

(* An identifier no directory, caller or pending removal refers to.        *)
Unused(e) == /\ ~dir[e] /\ \A t \in Callers : ent[t] # e /\ e \notin doomed[t]

------------------------------------------------------------------------------
(* Slip: a hit does not take a reference.                                  *)
BugHit(t, k) ==
  /\ pc[t] = "idle" /\ entries[k] # None
  /\ pc' = [pc EXCEPT ![t] = "waiting"]
  /\ ent' = [ent EXCEPT ![t] = entries[k]]
  /\ key' = [key EXCEPT ![t] = k]
  /\ UNCHANGED <<entries, refs, lastUse, dead, ready, err, dir, doomed, clock>>

(* acquire, first critical section: a hit takes a reference and waits.     *)
Hit(t, k) ==
  /\ pc[t] = "idle" /\ entries[k] # None
  /\ refs' = [refs EXCEPT ![entries[k]] = @ + 1]
  /\ pc' = [pc EXCEPT ![t] = "waiting"]
  /\ ent' = [ent EXCEPT ![t] = entries[k]]
  /\ key' = [key EXCEPT ![t] = k]
  /\ UNCHANGED <<entries, lastUse, dead, ready, err, dir, doomed, clock>>

(* Slip: the entry is not published before the clone.                      *)
BugMiss(t, k, e) ==
  /\ pc[t] = "idle" /\ entries[k] = None /\ Unused(e)
  /\ refs' = [refs EXCEPT ![e] = 1]
  /\ lastUse' = [lastUse EXCEPT ![e] = clock]
  /\ dead' = [dead EXCEPT ![e] = FALSE]
  /\ ready' = [ready EXCEPT ![e] = FALSE]
  /\ err' = [err EXCEPT ![e] = FALSE]
  /\ dir' = [dir EXCEPT ![e] = TRUE]
  /\ pc' = [pc EXCEPT ![t] = "cloning"]
  /\ ent' = [ent EXCEPT ![t] = e]
  /\ key' = [key EXCEPT ![t] = k]
  /\ UNCHANGED <<entries, doomed, clock>>

(* A miss creates the directory and publishes the entry before cloning.    *)
Miss(t, k, e) ==
  /\ pc[t] = "idle" /\ entries[k] = None /\ Unused(e)
  /\ entries' = [entries EXCEPT ![k] = e]
  /\ refs' = [refs EXCEPT ![e] = 1]
  /\ lastUse' = [lastUse EXCEPT ![e] = clock]
  /\ dead' = [dead EXCEPT ![e] = FALSE]
  /\ ready' = [ready EXCEPT ![e] = FALSE]
  /\ err' = [err EXCEPT ![e] = FALSE]
  /\ dir' = [dir EXCEPT ![e] = TRUE]
  /\ pc' = [pc EXCEPT ![t] = "cloning"]
  /\ ent' = [ent EXCEPT ![t] = e]
  /\ key' = [key EXCEPT ![t] = k]
  /\ UNCHANGED <<doomed, clock>>

(* Slip: eviction does not look at the reference count.                    *)
BugIdle == Mapped

(* evictLocked: the idle entries past the TTL, and then the least recently *)
(* used idle ones while the map is over its cap.                           *)
Idle == {e \in Mapped : refs[e] = 0}
Expired == {e \in Idle : clock - lastUse[e] > TTL}

(* Slip: only the TTL, no cap.                                             *)
BugEvictable(out) == out = Expired

Evictable(out) ==
  /\ Expired \subseteq out /\ out \subseteq Idle
  /\ LET lru == out \ Expired
     IN  /\ \A e \in lru, f \in Idle \ out : lastUse[e] <= lastUse[f]
         /\ lru # {} => Cardinality(Mapped \ out) >= MaxEntries
         /\ Cardinality(Mapped \ out) <= MaxEntries \/ out = Idle

(* acquire, second critical section, after clone returned.                 *)
CloneOk(t) ==
  /\ pc[t] = "cloning"
  /\ \E out \in SUBSET Idle :
       /\ Evictable(out)
       /\ dead' = [e \in Entries |-> dead[e] \/ e \in out]
       /\ entries' = [k \in Keys |-> IF entries[k] \in out THEN None ELSE entries[k]]
       /\ doomed' = [doomed EXCEPT ![t] = out]
  /\ pc' = [pc EXCEPT ![t] = "closing"]
  /\ UNCHANGED <<refs, lastUse, ready, err, dir, ent, key, clock>>

(* Slips: a failed entry is not marked dead; its channel is never closed.  *)
BugCloneErr(t) ==
  /\ pc[t] = "cloning"
  /\ err' = [err EXCEPT ![ent[t]] = TRUE]
  /\ entries' = [entries EXCEPT ![key[t]] = None]
  /\ pc' = [pc EXCEPT ![t] = "closing"]
  /\ UNCHANGED <<refs, lastUse, dead, ready, dir, ent, key, doomed, clock>>

BugCloneErrNoClose(t) ==
  /\ pc[t] = "cloning"
  /\ err' = [err EXCEPT ![ent[t]] = TRUE]
  /\ dead' = [dead EXCEPT ![ent[t]] = TRUE]
  /\ entries' = [entries EXCEPT ![key[t]] = None]
  /\ pc' = [pc EXCEPT ![t] = "releasing"]
  /\ UNCHANGED <<refs, lastUse, ready, dir, ent, key, doomed, clock>>

CloneErr(t) ==
  /\ pc[t] = "cloning"
  /\ err' = [err EXCEPT ![ent[t]] = TRUE]
  /\ dead' = [dead EXCEPT ![ent[t]] = TRUE]
  /\ entries' = [entries EXCEPT ![key[t]] = None]
  /\ pc' = [pc EXCEPT ![t] = "closing"]
  /\ UNCHANGED <<refs, lastUse, ready, dir, ent, key, doomed, clock>>

(* close(e.ready), then the removals, then the result.                     *)
Close(t) ==
  /\ pc[t] = "closing"
  /\ ready' = [ready EXCEPT ![ent[t]] = TRUE]
  /\ pc' = [pc EXCEPT ![t] = "sweeping"]
  /\ UNCHANGED <<entries, refs, lastUse, dead, err, dir, ent, key, doomed, clock>>

Sweep(t, e) ==
  /\ pc[t] = "sweeping" /\ e \in doomed[t]
  /\ dir' = [dir EXCEPT ![e] = FALSE]
  /\ doomed' = [doomed EXCEPT ![t] = @ \ {e}]
  /\ UNCHANGED <<entries, refs, lastUse, dead, ready, err, pc, ent, key, clock>>

Swept(t) ==
  /\ pc[t] = "sweeping" /\ doomed[t] = {}
  /\ pc' = [pc EXCEPT ![t] = IF err[ent[t]] THEN "releasing" ELSE "using"]
  /\ UNCHANGED <<entries, refs, lastUse, dead, ready, err, dir, ent, key, doomed, clock>>

(* Slip: a hit does not wait for the clone.                                *)
BugWait(t) ==
  /\ pc[t] = "waiting"
  /\ pc' = [pc EXCEPT ![t] = IF err[ent[t]] THEN "releasing" ELSE "using"]
  /\ UNCHANGED <<entries, refs, lastUse, dead, ready, err, dir, ent, key, doomed, clock>>

(* The select of a hit: the clone completed, or the context was cancelled. *)
Wait(t) ==
  /\ pc[t] = "waiting" /\ ready[ent[t]]
  /\ pc' = [pc EXCEPT ![t] = IF err[ent[t]] THEN "releasing" ELSE "using"]
  /\ UNCHANGED <<entries, refs, lastUse, dead, ready, err, dir, ent, key, doomed, clock>>

Cancel(t) ==
  /\ pc[t] = "waiting"
  /\ pc' = [pc EXCEPT ![t] = "releasing"]
  /\ UNCHANGED <<entries, refs, lastUse, dead, ready, err, dir, ent, key, doomed, clock>>

(* The reader is done: Cleanup calls release.                              *)
Finish(t) ==
  /\ pc[t] = "using"
  /\ pc' = [pc EXCEPT ![t] = "releasing"]
  /\ UNCHANGED <<entries, refs, lastUse, dead, ready, err, dir, ent, key, doomed, clock>>

(* Slip: only eviction and failed clones remove directories.               *)
BugRelease(t) ==
  /\ pc[t] = "releasing"
  /\ refs' = [refs EXCEPT ![ent[t]] = @ - 1]
  /\ lastUse' = [lastUse EXCEPT ![ent[t]] = clock]
  /\ pc' = [pc EXCEPT ![t] = "idle"]
  /\ ent' = [ent EXCEPT ![t] = None]
  /\ key' = [key EXCEPT ![t] = None]
  /\ UNCHANGED <<entries, dead, ready, err, dir, doomed, clock>>

(* release: drop the reference; the last one of a dead entry removes its   *)
(* directory after the lock is given up.                                   *)
Release(t) ==
  /\ pc[t] = "releasing"
  /\ LET e == ent[t]
         last == refs[e] <= 1 /\ dead[e]
     IN  /\ refs' = [refs EXCEPT ![e] = @ - 1]
         /\ lastUse' = [lastUse EXCEPT ![e] = clock]
         /\ pc' = [pc EXCEPT ![t] = IF last THEN "removing" ELSE "idle"]
         /\ ent' = [ent EXCEPT ![t] = IF last THEN e ELSE None]
         /\ key' = [key EXCEPT ![t] = None]
  /\ UNCHANGED <<entries, dead, ready, err, dir, doomed, clock>>

Remove(t) ==
  /\ pc[t] = "removing"
  /\ dir' = [dir EXCEPT ![ent[t]] = FALSE]
  /\ pc' = [pc EXCEPT ![t] = "idle"]
  /\ ent' = [ent EXCEPT ![t] = None]
  /\ UNCHANGED <<entries, refs, lastUse, dead, ready, err, key, doomed, clock>>

Tick ==
  /\ clock < MaxClock
  /\ clock' = clock + 1
  /\ UNCHANGED <<entries, refs, lastUse, dead, ready, err, dir, pc, ent, key, doomed>>

------------------------------------------------------------------------------
Progress(t) == \/ CloneOk(t) \/ CloneErr(t) \/ Close(t) \/ Swept(t)
               \/ \E e \in Entries : Sweep(t, e)
               \/ Wait(t) \/ Finish(t) \/ Release(t) \/ Remove(t)

Acquire(t) == \E k \in Keys : Hit(t, k) \/ \E e \in Entries : Miss(t, k, e)

Next == Tick \/ \E t \in Callers : Acquire(t) \/ Cancel(t) \/ Progress(t)

Spec == Init /\ [][Next]_vars

(* A clone returns, a reader finishes, and the scheduler is fair; no caller*)
(* is obliged to fetch.  The clock runs.                                   *)
Fairness == WF_vars(Tick) /\ \A t \in Callers : WF_vars(Progress(t))

FairSpec == Spec /\ Fairness

------------------------------------------------------------------------------
(* Types of the cache, its entries and the callers.                        *)
TypeOK ==
  /\ entries \in [Keys -> Entries \cup {None}]
  /\ refs \in [Entries -> Nat] /\ lastUse \in [Entries -> Nat]
  /\ dead \in [Entries -> BOOLEAN] /\ ready \in [Entries -> BOOLEAN]
  /\ err \in [Entries -> BOOLEAN] /\ dir \in [Entries -> BOOLEAN]
  /\ pc \in [Callers -> Holding \cup {"idle", "removing"}]
  /\ ent \in [Callers -> Entries \cup {None}] /\ key \in [Callers -> Keys \cup {None}]
  /\ doomed \in [Callers -> SUBSET Entries]
  /\ clock \in Nat
  /\ \A t \in Callers : pc[t] # "idle" => ent[t] \in Entries
  /\ \A t \in Callers : pc[t] \in Holding => key[t] \in Keys

Holders(e) == {t \in Callers : pc[t] \in Holding /\ ent[t] = e}

(* "An in-use worktree is never removed": from the moment a caller holds a *)
(* reference until it has given it back, the directory is there.           *)
InUseKept == \A t \in Callers : pc[t] \in Holding => dir[ent[t]]

(* The reference count is the number of callers that hold the entry: no    *)
(* reference is lost or given back twice, on hits, failures and            *)
(* cancellations alike.                                                    *)
RefsExact == \A e \in Entries : refs[e] = Cardinality(Holders(e))

(* Concurrent misses of one key share one clone.                           *)
SingleFlight ==
  \A t, u \in Callers :
    pc[t] = "cloning" /\ pc[u] = "cloning" /\ key[t] = key[u] => t = u

(* Only a successful clone is handed out: a caller that reads a worktree   *)
(* waited until it was complete.                                           *)
UsesComplete == \A t \in Callers : pc[t] = "using" => ready[ent[t]] /\ ~err[ent[t]]

(* The callers that will remove the directory of e.                        *)
Removers(e) == {t \in Callers : e \in doomed[t] \/ (pc[t] = "removing" /\ ent[t] = e)}

(* No directory leaks: one that exists is in the map, is held, or is about *)
(* to be removed by somebody; and it is removed by one caller only.        *)
NoLeak ==
  \A e \in Entries :
    /\ dir[e] => e \in Mapped \/ Holders(e) # {} \/ Removers(e) # {}
    /\ Removers(e) # {} =>
         /\ e \notin Mapped /\ Holders(e) = {}
         /\ \A t, u \in Removers(e) : t = u

(* The footprint (DefaultFetchCacheMaxEntries "bounds cache disk/inode     *)
(* footprint"): when evictLocked cannot get below the cap every remaining  *)
(* entry is in use, so the map exceeds the larger of the cap and the       *)
(* number of callers only by the clones that are still running.            *)
FootprintBound ==
  LET n == Cardinality(Mapped)
      c == Cardinality({t \in Callers : pc[t] = "cloning"})
  IN  n <= MaxEntries + c \/ n <= Cardinality(Callers) + c

(* A hit does not wait forever for somebody else's clone: it gets the      *)
(* worktree or an error.                                                   *)
AcquireReturns == \A t \in Callers : pc[t] = "waiting" ~> pc[t] # "waiting"

(* What was evicted or failed to clone is removed from the disk.           *)
DeadRemoved == \A e \in Entries : dead[e] /\ dir[e] ~> ~dir[e]
==============================================================================
