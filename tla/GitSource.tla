------------------------------ MODULE GitSource ------------------------------
(***************************************************************************)
(* Client.Fetch of internal/git on top of the fetch cache: a ref is listed *)
(* in one request, the worktree is cloned in a later one, and in between   *)
(* the branch moves and other callers fill, share and evict entries.       *)
(*                                                                         *)
(* One repository, so a key of the cache is the hash in url@hash.  Hashes  *)
(* are numbered in the order in which the branch reaches them: pushes are  *)
(* fast-forward.  A Fetch that fails before it lists (URL, path,           *)
(* credentials), or while it lists, changes nothing and has no step.       *)
(***************************************************************************)
EXTENDS FetchCache

CONSTANT Refs   \* the references callers ask for

RefType == [kind : {"branch", "commit", "short"}, commit : Keys \cup {None}]

ASSUME SourceAssumption ==
  /\ Keys \subseteq Nat /\ Keys # {} /\ None \notin Refs
  /\ Refs \subseteq RefType
  /\ \A r \in Refs : r.kind # "branch" => r.commit \in Keys

VARIABLES
  head,    \* the branch on the remote
  want,    \* each caller: Reference.Ref of the running Fetch
  hash,    \* each caller: resolvedRef.hash, None for an abbreviated commit
  commit,  \* each entry: cacheEntry.commit
  tree,    \* each entry: the commit whose files its directory holds
  own,     \* each caller: the tree in a temporary directory of its own
  result   \* each caller: Result.Commit, until Cleanup

source == <<head, want, hash, commit, tree, own, result>>
svars == <<vars, source>>

SourceInit ==
  /\ Init
  /\ head \in Keys
  /\ want = [t \in Callers |-> None] /\ hash = [t \in Callers |-> None]
  /\ commit = [e \in Entries |-> None] /\ tree = [e \in Entries |-> None]
  /\ own = [t \in Callers |-> None] /\ result = [t \in Callers |-> None]

(* A push, fast-forward.                                                   *)
Push ==
  /\ \E c \in Keys : c > head /\ head' = c
  /\ UNCHANGED <<vars, want, hash, commit, tree, own, result>>

------------------------------------------------------------------------------
(* resolveRef: the listed hash of a branch, a full commit as given, and    *)
(* nothing for an abbreviated one.                                         *)
Resolved(r) == IF r.kind = "branch" THEN head ELSE IF r.kind = "commit" THEN r.commit ELSE None

ResolveRef(t, r) ==
  /\ pc[t] = "idle" /\ want[t] = None
  /\ want' = [want EXCEPT ![t] = r]
  /\ hash' = [hash EXCEPT ![t] = Resolved(r)]
  /\ UNCHANGED <<vars, head, commit, tree, own, result>>

(* Slip: one worktree per repository, whatever the commit.                 *)
BugCacheKey(t) == CHOOSE k \in Keys : TRUE

(* obtainWorktree: the key under which the worktree is cached.             *)
CacheKey(t) == hash[t]

AcquireHit(t) ==
  /\ hash[t] # None /\ Hit(t, CacheKey(t))
  /\ UNCHANGED source

AcquireMiss(t, e) ==
  /\ hash[t] # None /\ Miss(t, CacheKey(t), e)
  /\ commit' = [commit EXCEPT ![e] = None]
  /\ UNCHANGED <<head, want, hash, tree, own, result>>

(* What the remote hands out when it is asked for r, if it has it.         *)
Served(r) == IF r.kind = "branch" THEN head ELSE r.commit
Serves(r) == r.kind # "branch" => r.commit <= head

(* Slip: the hash that was listed is reported, not the one checked out.    *)
BugReported(t) == IF hash[t] # None THEN hash[t] ELSE Served(want[t])

(* checkout returns the hash of the HEAD it cloned.                        *)
Reported(t) == Served(want[t])

Checkout(t) ==
  /\ CloneOk(t) /\ Serves(want[t])
  /\ tree' = [tree EXCEPT ![ent[t]] = Served(want[t])]
  /\ commit' = [commit EXCEPT ![ent[t]] = Reported(t)]
  /\ UNCHANGED <<head, want, hash, own, result>>

(* The steps of the cache that Fetch only waits for.                       *)
CacheStep(t) ==
  /\ CloneErr(t) \/ Close(t) \/ Swept(t) \/ Wait(t) \/ Cancel(t)
  /\ UNCHANGED source

SweepTree(t, e) ==
  /\ Sweep(t, e)
  /\ tree' = [tree EXCEPT ![e] = None]
  /\ UNCHANGED <<head, want, hash, commit, own, result>>

RemoveTree(t) ==
  /\ Remove(t)
  /\ tree' = [tree EXCEPT ![ent[t]] = None]
  /\ UNCHANGED <<head, want, hash, commit, own, result>>

------------------------------------------------------------------------------
(* The subpath exists and is contained in the worktree: Fetch returns.     *)
Return(t) ==
  /\ pc[t] = "using" /\ result[t] = None
  /\ result' = [result EXCEPT ![t] = commit[ent[t]]]
  /\ UNCHANGED <<vars, head, want, hash, commit, tree, own>>

(* Slip: the error path of the subpath checks forgets cleanup.             *)
BugReject(t) ==
  /\ pc[t] = "using" /\ result[t] = None
  /\ pc' = [pc EXCEPT ![t] = "idle"]
  /\ ent' = [ent EXCEPT ![t] = None]
  /\ key' = [key EXCEPT ![t] = None]
  /\ want' = [want EXCEPT ![t] = None]
  /\ hash' = [hash EXCEPT ![t] = None]
  /\ UNCHANGED <<entries, refs, lastUse, dead, ready, err, dir, doomed, clock,
                 head, commit, tree, own, result>>

(* The subpath is missing or escapes: cleanup, then the error.             *)
Reject(t) ==
  /\ result[t] = None /\ Finish(t)
  /\ UNCHANGED source

(* The reader is done and calls Cleanup.                                   *)
Cleanup(t) ==
  /\ result[t] # None /\ Finish(t)
  /\ result' = [result EXCEPT ![t] = None]
  /\ UNCHANGED <<head, want, hash, commit, tree, own>>

(* The reference is given back; with it the Fetch, or its Cleanup, ends.   *)
GiveBack(t) ==
  /\ Release(t)
  /\ want' = [want EXCEPT ![t] = None]
  /\ hash' = [hash EXCEPT ![t] = None]
  /\ UNCHANGED <<head, commit, tree, own, result>>

(* Without a key: a clone into a directory of the caller's own, removed by *)
(* Cleanup, or at once when the clone or the subpath checks fail.          *)
CheckoutOwn(t) ==
  /\ pc[t] = "idle" /\ want[t] # None /\ hash[t] = None /\ own[t] = None
  /\ Serves(want[t])
  /\ own' = [own EXCEPT ![t] = Served(want[t])]
  /\ result' = [result EXCEPT ![t] = Reported(t)]
  /\ UNCHANGED <<vars, head, want, hash, commit, tree>>

FailOwn(t) ==
  /\ pc[t] = "idle" /\ want[t] # None /\ hash[t] = None /\ own[t] = None
  /\ want' = [want EXCEPT ![t] = None]
  /\ UNCHANGED <<vars, head, hash, commit, tree, own, result>>

CleanupOwn(t) ==
  /\ own[t] # None
  /\ own' = [own EXCEPT ![t] = None]
  /\ result' = [result EXCEPT ![t] = None]
  /\ want' = [want EXCEPT ![t] = None]
  /\ UNCHANGED <<vars, head, hash, commit, tree>>

------------------------------------------------------------------------------
Fetch(t) ==
  \/ \E r \in Refs : ResolveRef(t, r)
  \/ AcquireHit(t) \/ Checkout(t) \/ CacheStep(t) \/ RemoveTree(t)
  \/ \E e \in Entries : AcquireMiss(t, e) \/ SweepTree(t, e)
  \/ Return(t) \/ Reject(t) \/ Cleanup(t) \/ GiveBack(t)
  \/ CheckoutOwn(t) \/ FailOwn(t) \/ CleanupOwn(t)

SourceNext ==
  \/ Push
  \/ Tick /\ UNCHANGED source
  \/ \E t \in Callers : Fetch(t)

SourceSpec == SourceInit /\ [][SourceNext]_svars

------------------------------------------------------------------------------
(* Fetch uses the cache only as the cache is meant to be used, every error *)
(* path giving its reference back: it implements the cache's specification *)
(* (and so inherits what is proved of it).                                 *)
CacheProtocol == Spec

(* While a caller reads a worktree, Result.Commit names the commit whose   *)
(* files are in it, although the branch moved between the listing and the  *)
(* clone and others evict and refill the cache.                            *)
HonestCommit ==
  \A t \in Callers : result[t] # None =>
    result[t] = IF hash[t] = None THEN own[t] ELSE tree[ent[t]]

(* A Fetch of a branch never returns a commit older than the one the       *)
(* branch had when this Fetch listed it, shared worktrees or not.          *)
NeverOlder ==
  \A t \in Callers :
    result[t] # None /\ want[t].kind = "branch" => result[t] >= hash[t]

(* A Fetch of a commit returns that commit (README: "tag/commit =          *)
(* immutable pin").                                                        *)
PinnedExact ==
  \A t \in Callers :
    result[t] # None /\ want[t].kind # "branch" => result[t] = want[t].commit
==============================================================================
