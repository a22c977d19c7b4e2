--------------------------- MODULE GitSourceProofs ---------------------------
(***************************************************************************)
(* Proofs about GitSource: it implements FetchCache, and from the cache's  *)
(* inductive invariant what Fetch returns is honest and not outdated.      *)
(***************************************************************************)
EXTENDS GitSource, FetchCacheProofs

SourceType ==
  /\ head \in Keys
  /\ want \in [Callers -> Refs \cup {None}] /\ hash \in [Callers -> Keys \cup {None}]
  /\ commit \in [Entries -> Keys \cup {None}] /\ tree \in [Entries -> Keys \cup {None}]
  /\ own \in [Callers -> Keys \cup {None}] /\ result \in [Callers -> Keys \cup {None}]

(* A directory holds what its entry says it holds.                         *)
TreeInv ==
  \A e \in Entries : IF dir[e] THEN commit[e] = tree[e] ELSE tree[e] = None

(* What was listed: not ahead of the branch, and exactly a given commit.   *)
ListedInv ==
  \A t \in Callers : hash[t] # None =>
    /\ want[t] \in Refs
    /\ want[t].kind = "branch" => hash[t] <= head
    /\ want[t].kind # "branch" => hash[t] = want[t].commit

(* A caller in the cache is there for the hash it listed, and an entry     *)
(* that is not dead is still mapped under the key of its holders.          *)
KeyInv ==
  \A t \in Callers : pc[t] \in Holding =>
    /\ hash[t] # None /\ key[t] = hash[t]
    /\ ~dead[ent[t]] => entries[key[t]] = ent[t]

(* An entry is never older than its key, for the map and for its holders.  *)
AgeInv ==
  /\ \A k \in Keys : entries[k] # None /\ commit[entries[k]] # None => commit[entries[k]] >= k
  /\ \A t \in Callers : pc[t] \in Holding /\ commit[ent[t]] # None => commit[ent[t]] >= key[t]

(* A result is that of the shared worktree in use, or of the caller's own. *)
ResultInv ==
  \A t \in Callers :
    /\ own[t] # None => pc[t] = "idle" /\ hash[t] = None /\ want[t] # None /\ result[t] = own[t]
    /\ result[t] # None /\ own[t] = None =>
         pc[t] = "using" /\ result[t] = commit[ent[t]]
    /\ own[t] # None => want[t].kind # "branch"
    /\ want[t] # None /\ want[t].kind = "branch" => hash[t] # None

SInv == SourceType /\ TreeInv /\ ListedInv /\ KeyInv /\ AgeInv /\ ResultInv

------------------------------------------------------------------------------
(* Every step of GitSource is a step of the cache or leaves it alone.      *)
LEMMA CacheSimulation ==
  ASSUME IInv, SInv, [SourceNext]_svars
  PROVE  [Next]_vars
<1>1. CASE Push
  BY <1>1 DEF Push
<1>2. CASE Tick /\ UNCHANGED source
  BY <1>2 DEF Next
<1>3. ASSUME NEW t \in Callers, Fetch(t)
      PROVE  [Next]_vars
  <2>1. ASSUME NEW r \in Refs, ResolveRef(t, r)
        PROVE  [Next]_vars
    BY <2>1 DEF ResolveRef
  <2>2. CASE AcquireHit(t)
    <3>1. hash[t] \in Keys /\ Hit(t, hash[t])
      BY <2>2 DEF AcquireHit, CacheKey, SInv, SourceType
    <3> QED BY <3>1 DEF Acquire, Next
  <2>3. ASSUME NEW e \in Entries, AcquireMiss(t, e)
        PROVE  [Next]_vars
    <3>1. hash[t] \in Keys /\ Miss(t, hash[t], e)
      BY <2>3 DEF AcquireMiss, CacheKey, SInv, SourceType
    <3> QED BY <3>1 DEF Acquire, Next
  <2>4. CASE Checkout(t)
    BY <2>4 DEF Checkout, Progress, Next
  <2>5. CASE CacheStep(t)
    BY <2>5 DEF CacheStep, Progress, Next
  <2>6. CASE RemoveTree(t)
    BY <2>6 DEF RemoveTree, Progress, Next
  <2>7. ASSUME NEW e \in Entries, SweepTree(t, e)
        PROVE  [Next]_vars
    BY <2>7 DEF SweepTree, Progress, Next
  <2>8. CASE Return(t)
    BY <2>8 DEF Return
  <2>9. CASE Reject(t) \/ Cleanup(t)
    BY <2>9 DEF Reject, Cleanup, Progress, Next
  <2>10. CASE GiveBack(t)
    BY <2>10 DEF GiveBack, Progress, Next
  <2>11. CASE CheckoutOwn(t) \/ FailOwn(t) \/ CleanupOwn(t)
    BY <2>11 DEF CheckoutOwn, FailOwn, CleanupOwn
  <2> QED BY <1>3, <2>1, <2>2, <2>3, <2>4, <2>5, <2>6, <2>7, <2>8, <2>9, <2>10, <2>11 DEF Fetch
<1>4. CASE UNCHANGED svars
  BY <1>4 DEF svars
<1> QED BY <1>1, <1>2, <1>3, <1>4 DEF SourceNext

LEMMA SourceInitInv == SourceInit => SInv
<1> SUFFICES ASSUME SourceInit PROVE SInv
  OBVIOUS
<1> USE CacheAssumption, SourceAssumption DEF SourceInit, Init
<1>1. SourceType
  BY DEF SourceType
<1>2. TreeInv /\ ListedInv /\ KeyInv /\ AgeInv /\ ResultInv
  BY DEF TreeInv, ListedInv, KeyInv, AgeInv, ResultInv, Holding
<1> QED BY <1>1, <1>2 DEF SInv

(* The steps that change the cache as well, then the others.  The cache's  *)
(* own invariant is known to hold before and after.                        *)
LEMMA ResolveRefStep ==
  ASSUME IInv, IInv', SInv, NEW t \in Callers, NEW r \in Refs, ResolveRef(t, r)
  PROVE  SInv'
<1> USE CacheAssumption, SourceAssumption DEF ResolveRef, Resolved, vars, SInv, IInv, StructInv, Holding
<1>1. TreeInv' /\ AgeInv'
  BY DEF TreeInv, AgeInv
<1>2. SourceType'
  BY DEF SourceType, RefType
<1>3. ListedInv'
  BY DEF SourceType, ListedInv, RefType
<1>4. KeyInv'
  BY DEF SourceType, TypeOK, KeyInv
<1>5. ResultInv'
  BY DEF SourceType, TypeOK, ResultInv
<1> QED BY <1>1, <1>2, <1>3, <1>4, <1>5

LEMMA AcquireHitStep ==
  ASSUME IInv, IInv', SInv, NEW t \in Callers, AcquireHit(t)
  PROVE  SInv'
<1> USE CacheAssumption, SourceAssumption
    DEF AcquireHit, CacheKey, Hit, source, SInv, IInv, StructInv, Holding
<1>1. SourceType' /\ TreeInv' /\ ListedInv'
  BY DEF SourceType, TreeInv, ListedInv
<1>2. KeyInv'
  BY DEF SourceType, TypeOK, KeyInv
<1>3. AgeInv'
  <2>1. \A u \in Callers : u # t => pc'[u] = pc[u] /\ ent'[u] = ent[u] /\ key'[u] = key[u]
    BY DEF TypeOK
  <2>2. ent'[t] = entries[hash[t]] /\ key'[t] = hash[t] /\ hash[t] \in Keys
    BY DEF SourceType, TypeOK
  <2>3. commit[entries[hash[t]]] # None => commit[entries[hash[t]]] >= hash[t]
    BY <2>2 DEF AgeInv
  <2>4. commit' = commit /\ entries' = entries
    OBVIOUS
  <2> HIDE DEF AcquireHit, IInv
  <2> QED BY <2>1, <2>2, <2>3, <2>4 DEF AgeInv
<1>4. ResultInv'
  BY DEF SourceType, TypeOK, ResultInv
<1> QED BY <1>1, <1>2, <1>3, <1>4

LEMMA AcquireMissStep ==
  ASSUME IInv, IInv', SInv, NEW t \in Callers, NEW e \in Entries, AcquireMiss(t, e)
  PROVE  SInv'
<1> USE CacheAssumption, SourceAssumption
    DEF AcquireMiss, CacheKey, Miss, Unused, SInv, IInv, StructInv, Holding
<1>1. ListedInv'
  BY DEF ListedInv
<1>2. SourceType'
  BY DEF SourceType
<1>3. TreeInv'
  BY DEF SourceType, TypeOK, TreeInv
<1>4. KeyInv'
  BY DEF SourceType, TypeOK, KeyInv
<1>5. AgeInv'
  BY DEF SourceType, TypeOK, AgeInv, MapInv
<1>6. ResultInv'
  BY DEF SourceType, TypeOK, ResultInv
<1> QED BY <1>1, <1>2, <1>3, <1>4, <1>5, <1>6

LEMMA CheckoutStep ==
  ASSUME IInv, IInv', SInv, NEW t \in Callers, Checkout(t)
  PROVE  SInv'
<1> USE CacheAssumption, SourceAssumption
    DEF Checkout, CloneOk, Served, Serves, Reported, SInv, IInv, StructInv, Holding
<1>0. \A e \in Entries : refs[e] = 0 => \A u \in Callers : ~(pc[u] \in Holding /\ ent[u] = e)
  BY HeldRefs
<1>1. ListedInv'
  BY DEF ListedInv
<1>a. /\ ent[t] \in Entries /\ key[t] \in Keys /\ key[t] = hash[t] /\ entries[key[t]] = ent[t]
      /\ want[t] \in Refs
  BY DEF TypeOK, FillInv, KeyInv, ListedInv
<1>b. Served(want[t]) \in Keys /\ Served(want[t]) >= key[t]
  <2>1. /\ head \in Nat /\ hash[t] \in Nat /\ hash[t] # None
        /\ want[t].kind = "branch" => hash[t] <= head
        /\ want[t].kind # "branch" => hash[t] = want[t].commit
    BY <1>a DEF SourceType, ListedInv
  <2>2. Served(want[t]) = IF want[t].kind = "branch" THEN head ELSE want[t].commit
    BY DEF Served
  <2> HIDE DEF Checkout, IInv, Served
  <2> QED BY <1>a, <2>1, <2>2 DEF SourceType
<1>c. PICK out \in SUBSET Idle :
        /\ dead' = [e \in Entries |-> dead[e] \/ e \in out]
        /\ entries' = [k \in Keys |-> IF entries[k] \in out THEN None ELSE entries[k]]
  OBVIOUS
<1>2. SourceType'
  BY <1>a, <1>b DEF SourceType
<1>3. TreeInv'
  BY <1>a, <1>b DEF SourceType, TypeOK, TreeInv, HoldInv
<1>4. KeyInv'
  <2> SUFFICES ASSUME NEW u \in Callers, pc'[u] \in Holding
               PROVE  /\ hash'[u] # None /\ key'[u] = hash'[u]
                      /\ ~dead'[ent'[u]] => entries'[key'[u]] = ent'[u]
    BY DEF KeyInv
  <2>1. pc[u] \in Holding /\ ent[u] \in Entries /\ key[u] \in Keys
    BY DEF TypeOK
  <2>2. ent[u] \notin out
    BY <1>0, <1>c, <2>1 DEF Idle
  <2> QED BY <1>c, <2>1, <2>2 DEF KeyInv
<1>5. AgeInv'
  <2> HIDE DEF Checkout, CloneOk, Served, Serves
  <2>1. \A k \in Keys : entries[k] = ent[t] => k = key[t]
    BY <1>a DEF MapInv
  <2>2. \A u \in Callers : pc[u] \in Holding /\ ent[u] = ent[t] => key[u] = key[t]
    <3>1. ~dead[ent[t]]
      BY <1>a, CacheAssumption DEF MapInv
    <3>2. ASSUME NEW u \in Callers, pc[u] \in Holding, ent[u] = ent[t]
          PROVE  key[u] = key[t]
      <4>1. key[u] \in Keys
        BY <3>2 DEF TypeOK
      <4>2. entries[key[u]] = ent[t]
        BY <3>1, <3>2 DEF KeyInv
      <4> QED BY <2>1, <4>1, <4>2
    <3> QED BY <3>2
  <2>3. /\ commit'[ent[t]] = Served(want[t])
        /\ \A e \in Entries : e # ent[t] => commit'[e] = commit[e]
    BY <1>a DEF SourceType, Checkout
  <2>4. ASSUME NEW k \in Keys, entries'[k] # None, commit'[entries'[k]] # None
        PROVE  commit'[entries'[k]] >= k
    <3>1. entries'[k] = entries[k] /\ entries[k] \in Entries
      BY <1>c, <2>4 DEF TypeOK
    <3> QED BY <1>b, <2>1, <2>3, <2>4, <3>1 DEF AgeInv
  <2>5. ASSUME NEW u \in Callers, pc'[u] \in Holding, commit'[ent'[u]] # None
        PROVE  commit'[ent'[u]] >= key'[u]
    <3>1. pc[u] \in Holding /\ ent[u] \in Entries /\ ent'[u] = ent[u] /\ key'[u] = key[u]
      BY <2>5 DEF TypeOK, Checkout, CloneOk
    <3> QED BY <1>b, <2>2, <2>3, <2>5, <3>1 DEF AgeInv
  <2> QED BY <2>4, <2>5 DEF AgeInv
<1>6. ResultInv'
  BY DEF SourceType, TypeOK, ResultInv, FillInv
<1> QED BY <1>1, <1>2, <1>3, <1>4, <1>5, <1>6

LEMMA WaitingStep ==
  ASSUME IInv, IInv', SInv, NEW t \in Callers, CacheStep(t)
  PROVE  SInv'
<1> USE CacheAssumption, SourceAssumption
    DEF CacheStep, CloneErr, Close, Swept, Wait, Cancel, source, SInv, IInv, StructInv, Holding
<1>1. SourceType' /\ TreeInv' /\ ListedInv'
  BY DEF SourceType, TreeInv, ListedInv
<1>2. KeyInv'
  BY DEF SourceType, TypeOK, KeyInv, FillInv, MapInv
<1>3. AgeInv'
  BY DEF SourceType, TypeOK, AgeInv
<1>4. ResultInv'
  BY DEF SourceType, TypeOK, ResultInv
<1> QED BY <1>1, <1>2, <1>3, <1>4

LEMMA SweepTreeStep ==
  ASSUME IInv, IInv', SInv, NEW t \in Callers, NEW e \in Entries, SweepTree(t, e)
  PROVE  SInv'
<1> USE CacheAssumption, SourceAssumption DEF SweepTree, Sweep, SInv, IInv, StructInv, Holding
<1>1. ListedInv' /\ KeyInv' /\ AgeInv' /\ ResultInv'
  BY DEF ListedInv, KeyInv, AgeInv, ResultInv
<1>2. SourceType'
  BY DEF SourceType
<1>3. TreeInv'
  BY DEF SourceType, TypeOK, TreeInv
<1> QED BY <1>1, <1>2, <1>3

LEMMA RemoveTreeStep ==
  ASSUME IInv, IInv', SInv, NEW t \in Callers, RemoveTree(t)
  PROVE  SInv'
<1> USE CacheAssumption, SourceAssumption DEF RemoveTree, Remove, SInv, IInv, StructInv, Holding
<1>1. ListedInv'
  BY DEF ListedInv
<1>2. SourceType'
  BY DEF SourceType
<1>3. TreeInv'
  BY DEF SourceType, TypeOK, TreeInv
<1>4. KeyInv'
  BY DEF SourceType, TypeOK, KeyInv
<1>5. AgeInv'
  BY DEF SourceType, TypeOK, AgeInv
<1>6. ResultInv'
  BY DEF SourceType, TypeOK, ResultInv
<1> QED BY <1>1, <1>2, <1>3, <1>4, <1>5, <1>6

LEMMA ReturnStep ==
  ASSUME IInv, IInv', SInv, NEW t \in Callers, Return(t)
  PROVE  SInv'
<1> USE CacheAssumption, SourceAssumption DEF Return, vars, SInv, IInv, StructInv, Holding
<1>1. TreeInv' /\ ListedInv' /\ KeyInv' /\ AgeInv'
  BY DEF TreeInv, ListedInv, KeyInv, AgeInv
<1>2. SourceType'
  BY DEF SourceType, TypeOK
<1>3. ResultInv'
  BY DEF SourceType, TypeOK, ResultInv, KeyInv
<1> QED BY <1>1, <1>2, <1>3

LEMMA RejectStep ==
  ASSUME IInv, IInv', SInv, NEW t \in Callers, Reject(t)
  PROVE  SInv'
<1> USE CacheAssumption, SourceAssumption DEF Reject, Finish, source, SInv, IInv, StructInv, Holding
<1>1. SourceType' /\ TreeInv' /\ ListedInv'
  BY DEF SourceType, TreeInv, ListedInv
<1>2. KeyInv'
  BY DEF SourceType, TypeOK, KeyInv
<1>3. AgeInv'
  BY DEF SourceType, TypeOK, AgeInv
<1>4. ResultInv'
  BY DEF SourceType, TypeOK, ResultInv
<1> QED BY <1>1, <1>2, <1>3, <1>4

LEMMA CleanupStep ==
  ASSUME IInv, IInv', SInv, NEW t \in Callers, Cleanup(t)
  PROVE  SInv'
<1> USE CacheAssumption, SourceAssumption DEF Cleanup, Finish, SInv, IInv, StructInv, Holding
<1>1. TreeInv' /\ ListedInv'
  BY DEF TreeInv, ListedInv
<1>2. SourceType'
  BY DEF SourceType
<1>3. KeyInv'
  BY DEF SourceType, TypeOK, KeyInv
<1>4. AgeInv'
  BY DEF SourceType, TypeOK, AgeInv
<1>5. ResultInv'
  BY DEF SourceType, TypeOK, ResultInv
<1> QED BY <1>1, <1>2, <1>3, <1>4, <1>5

LEMMA GiveBackStep ==
  ASSUME IInv, IInv', SInv, NEW t \in Callers, GiveBack(t)
  PROVE  SInv'
<1> USE CacheAssumption, SourceAssumption DEF GiveBack, Release, SInv, IInv, StructInv, Holding
<1>1. TreeInv'
  BY DEF TreeInv
<1>2. SourceType'
  BY DEF SourceType
<1>3. ListedInv'
  BY DEF SourceType, ListedInv
<1>4. KeyInv'
  BY DEF SourceType, TypeOK, KeyInv
<1>5. AgeInv'
  BY DEF SourceType, TypeOK, AgeInv
<1>6. ResultInv'
  BY DEF SourceType, TypeOK, ResultInv
<1> QED BY <1>1, <1>2, <1>3, <1>4, <1>5, <1>6

LEMMA CheckoutOwnStep ==
  ASSUME IInv, IInv', SInv, NEW t \in Callers, CheckoutOwn(t)
  PROVE  SInv'
<1> USE CacheAssumption, SourceAssumption
    DEF CheckoutOwn, Served, Serves, Reported, vars, SInv, IInv, StructInv, Holding
<1>1. TreeInv' /\ ListedInv' /\ KeyInv' /\ AgeInv'
  BY DEF TreeInv, ListedInv, KeyInv, AgeInv
<1>2. SourceType'
  BY DEF SourceType, RefType
<1>3. ResultInv'
  BY DEF SourceType, TypeOK, ResultInv
<1> QED BY <1>1, <1>2, <1>3

LEMMA FailOwnStep ==
  ASSUME IInv, IInv', SInv, NEW t \in Callers, FailOwn(t)
  PROVE  SInv'
<1> USE CacheAssumption, SourceAssumption DEF FailOwn, vars, SInv, IInv, StructInv, Holding
<1>1. TreeInv' /\ KeyInv' /\ AgeInv'
  BY DEF TreeInv, KeyInv, AgeInv
<1>2. SourceType'
  BY DEF SourceType
<1>3. ListedInv'
  BY DEF SourceType, ListedInv
<1>4. ResultInv'
  BY DEF SourceType, TypeOK, ResultInv
<1> QED BY <1>1, <1>2, <1>3, <1>4

LEMMA CleanupOwnStep ==
  ASSUME IInv, IInv', SInv, NEW t \in Callers, CleanupOwn(t)
  PROVE  SInv'
<1> USE CacheAssumption, SourceAssumption DEF CleanupOwn, vars, SInv, IInv, StructInv, Holding
<1>1. TreeInv' /\ KeyInv' /\ AgeInv'
  BY DEF TreeInv, KeyInv, AgeInv
<1>2. SourceType'
  BY DEF SourceType
<1>3. ListedInv'
  BY DEF SourceType, ListedInv, ResultInv
<1>4. ResultInv'
  BY DEF SourceType, TypeOK, ResultInv
<1> QED BY <1>1, <1>2, <1>3, <1>4

LEMMA SourceStep ==
  ASSUME IInv, IInv', SInv, [SourceNext]_svars
  PROVE  SInv'
<1>1. CASE Push
  <2>1. head \in Nat /\ head' \in Keys /\ head' \in Nat /\ head' > head
    BY <1>1, SourceAssumption DEF Push, SInv, SourceType
  <2>2. \A t \in Callers : hash[t] # None => hash[t] \in Nat
    BY SourceAssumption DEF SInv, SourceType
  <2>3. ListedInv'
    BY <1>1, <2>1, <2>2 DEF Push, SInv, ListedInv
  <2> QED BY <1>1, <2>1, <2>3
          DEF Push, vars, SInv, SourceType, TreeInv, KeyInv, AgeInv, ResultInv
<1>2. CASE Tick /\ UNCHANGED source
  BY <1>2 DEF Tick, source, SInv, SourceType, TreeInv, ListedInv, KeyInv, AgeInv, ResultInv
<1>3. ASSUME NEW t \in Callers, Fetch(t)
      PROVE  SInv'
  BY <1>3, ResolveRefStep, AcquireHitStep, AcquireMissStep, CheckoutStep, WaitingStep,
     SweepTreeStep, RemoveTreeStep,
     ReturnStep, RejectStep, CleanupStep, GiveBackStep, CheckoutOwnStep, FailOwnStep, CleanupOwnStep
  DEF Fetch
<1>4. CASE UNCHANGED svars
  BY <1>4 DEF svars, vars, source, SInv, SourceType, TreeInv, ListedInv, KeyInv, AgeInv, ResultInv
<1> QED BY <1>1, <1>2, <1>3, <1>4 DEF SourceNext

------------------------------------------------------------------------------
(* Both inductive invariants hold of the composition.                      *)
THEOREM SourceInvariance == SourceSpec => [](IInv /\ SInv)
<1>1. SourceInit => IInv /\ SInv
  BY InitInv, SourceInitInv DEF SourceInit
<1>2. IInv /\ SInv /\ [SourceNext]_svars => IInv' /\ SInv'
  BY CacheSimulation, NextStep, SourceStep
<1> QED BY <1>1, <1>2, PTL DEF SourceSpec

(* Fetch implements the cache's specification: whatever happens to a       *)
(* Fetch, it takes and gives back references as acquire and release do.    *)
THEOREM FetchKeepsProtocol == SourceSpec => CacheProtocol
<1>1. SourceInit => Init
  BY DEF SourceInit
<1>2. IInv /\ SInv /\ [SourceNext]_svars => [Next]_vars
  BY CacheSimulation
<1> QED BY SourceInvariance, <1>1, <1>2, PTL DEF SourceSpec, Spec, CacheProtocol

(* Result.Commit is the commit of the tree being read, for as long as it   *)
(* is read.                                                                *)
THEOREM ResultHonest == SourceSpec => []HonestCommit
<1>1. IInv /\ SInv => HonestCommit
  BY DEF IInv, StructInv, HoldInv, Holding, TypeOK, SInv, TreeInv, KeyInv, ResultInv, HonestCommit
<1> QED BY SourceInvariance, <1>1, PTL

(* A branch is never served older than this Fetch found it.                *)
THEOREM ResultNotOlder == SourceSpec => []NeverOlder
<1>1. IInv /\ SInv => NeverOlder
  BY SourceAssumption DEF IInv, SInv, Holding, SourceType, KeyInv, AgeInv, ResultInv, NeverOlder
<1> QED BY SourceInvariance, <1>1, PTL
==============================================================================
