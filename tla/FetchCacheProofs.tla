--------------------------- MODULE FetchCacheProofs ---------------------------
(***************************************************************************)
(* Proofs about FetchCache, for any number of callers, keys and entries.   *)
(***************************************************************************)
EXTENDS FetchCache, FiniteSetTheorems, TLAPS

(* A mapped entry has a live directory that nobody is about to remove, and *)
(* is mapped by one key only.                                              *)
MapInv ==
  /\ \A k \in Keys : entries[k] # None =>
       dir[entries[k]] /\ ~dead[entries[k]] /\ ~err[entries[k]]
  /\ \A k, l \in Keys : entries[k] = entries[l] /\ entries[k] # None => k = l

(* The caller that fills an entry is the only one, and the entry it clones *)
(* into is the mapped one.                                                 *)
FillInv ==
  /\ \A t \in Callers : pc[t] = "cloning" => entries[key[t]] = ent[t]
  /\ \A t \in Callers : pc[t] \in {"cloning", "closing"} => ~ready[ent[t]]
  /\ \A t \in Callers : pc[t] \in {"sweeping", "using"} => ready[ent[t]]
  /\ \A t, u \in Callers :
       pc[t] \in {"cloning", "closing"} /\ pc[u] \in {"cloning", "closing"}
         /\ ent[t] = ent[u] => t = u

(* A directory with a pending removal is unmapped, unheld and dead, and    *)
(* the removal is pending once.                                            *)
RemoveInv ==
  /\ \A t \in Callers, e \in Entries :
       t \in Removers(e) =>
         dir[e] /\ dead[e] /\ (\A k \in Keys : entries[k] # e) /\ refs[e] = 0
  /\ \A t, u \in Callers, e \in Entries :
       t \in Removers(e) /\ u \in Removers(e) => t = u
  /\ \A t \in Callers : doomed[t] # {} => pc[t] \in {"closing", "sweeping"}

HoldInv ==
  /\ \A t \in Callers : pc[t] \in Holding => dir[ent[t]]
  /\ \A t \in Callers : pc[t] = "idle" => ent[t] = None
  /\ \A t \in Callers : pc[t] = "using" => ~err[ent[t]]

(* A directory on disk is accounted for.                                   *)
LeakInv ==
  \A e \in Entries : dir[e] =>
    \/ \E k \in Keys : entries[k] = e
    \/ dead[e] /\ refs[e] # 0
    \/ \E t \in Callers : t \in Removers(e)

StructInv == MapInv /\ FillInv /\ RemoveInv /\ HoldInv /\ LeakInv

IInv == TypeOK /\ RefsExact /\ StructInv

------------------------------------------------------------------------------
(* A held entry has a reference, and only held entries have one.           *)
LEMMA HeldRefs ==
  ASSUME TypeOK, RefsExact
  PROVE  \A e \in Entries : refs[e] = 0 <=> \A t \in Callers : ~(pc[t] \in Holding /\ ent[t] = e)
<1> TAKE e \in Entries
<1>1. IsFiniteSet(Holders(e))
  BY CacheAssumption, FS_Subset DEF Holders
<1>2. refs[e] = Cardinality(Holders(e))
  BY DEF RefsExact
<1>3. refs[e] = 0 <=> Holders(e) = {}
  BY <1>1, <1>2, FS_EmptySet
<1> QED BY <1>3 DEF Holders

(* A step that leaves every entry's holders and count alone.               *)
LEMMA SameHolders ==
  ASSUME RefsExact, UNCHANGED refs, \A e \in Entries : Holders(e)' = Holders(e)
  PROVE  RefsExact'
BY DEF RefsExact

LEMMA HitStep ==
  ASSUME IInv, NEW t \in Callers, NEW k \in Keys, Hit(t, k)
  PROVE  IInv'
<1> USE DEF IInv, StructInv, Holding
<1>0. \A f \in Entries : refs[f] = 0 <=> \A u \in Callers : ~(pc[u] \in Holding /\ ent[u] = f)
  BY HeldRefs
<1>1. TypeOK'
  BY CacheAssumption DEF TypeOK, Hit
<1>2. RefsExact'
  <2>0. PICK e \in Entries : e = entries[k]
    BY DEF TypeOK, Hit
  <2>1. t \notin Holders(e)
    BY DEF Hit, Holders
  <2>2. Holders(e)' = Holders(e) \cup {t}
    BY <2>0 DEF TypeOK, Hit, Holders
  <2>3. \A f \in Entries \ {e} : Holders(f)' = Holders(f) /\ refs'[f] = refs[f]
    BY <2>0 DEF TypeOK, Hit, Holders
  <2>4. IsFiniteSet(Holders(e))
    BY CacheAssumption, FS_Subset DEF Holders
  <2>5. Cardinality(Holders(e) \cup {t}) = Cardinality(Holders(e)) + 1
    BY <2>1, <2>4, FS_AddElement
  <2>6. refs'[e] = refs[e] + 1
    BY <2>0 DEF TypeOK, Hit
  <2>7. refs'[e] = Cardinality(Holders(e)')
    BY <2>2, <2>5, <2>6 DEF RefsExact
  <2> QED BY <2>3, <2>7 DEF RefsExact
<1>3. MapInv'
  BY <1>0, CacheAssumption DEF TypeOK, MapInv, FillInv, RemoveInv, HoldInv, Removers, Hit
<1>4. FillInv'
  BY <1>0, CacheAssumption DEF TypeOK, MapInv, FillInv, RemoveInv, HoldInv, Removers, Hit
<1>5. RemoveInv'
  BY <1>0, CacheAssumption DEF TypeOK, MapInv, FillInv, RemoveInv, HoldInv, Removers, Hit
<1>6. HoldInv'
  BY <1>0, CacheAssumption DEF TypeOK, MapInv, FillInv, RemoveInv, HoldInv, Removers, Hit
<1>7. LeakInv'
  BY <1>0, CacheAssumption, SMTT(30) DEF TypeOK, MapInv, FillInv, RemoveInv, HoldInv, LeakInv, Removers, Hit
<1> QED BY <1>1, <1>2, <1>3, <1>4, <1>5, <1>6, <1>7

LEMMA MissStep ==
  ASSUME IInv, NEW t \in Callers, NEW k \in Keys, NEW e \in Entries, Miss(t, k, e)
  PROVE  IInv'
<1> USE DEF IInv, StructInv, Holding
<1>0. \A f \in Entries : refs[f] = 0 <=> \A u \in Callers : ~(pc[u] \in Holding /\ ent[u] = f)
  BY HeldRefs
<1>1. TypeOK'
  BY CacheAssumption DEF TypeOK, Miss, Unused
<1>2. RefsExact'
  <2>1. Holders(e)' = {t}
    BY DEF TypeOK, Miss, Unused, Holders
  <2>2. \A f \in Entries \ {e} : Holders(f)' = Holders(f) /\ refs'[f] = refs[f]
    BY DEF TypeOK, Miss, Holders
  <2>3. refs'[e] = 1
    BY DEF TypeOK, Miss
  <2>4. refs'[e] = Cardinality(Holders(e)')
    BY <2>1, <2>3, FS_Singleton
  <2> QED BY <2>2, <2>4 DEF RefsExact
<1>3. MapInv'
  BY <1>0, CacheAssumption DEF TypeOK, MapInv, FillInv, RemoveInv, HoldInv, Removers, Miss, Unused
<1>4. FillInv'
  BY <1>0, CacheAssumption DEF TypeOK, MapInv, FillInv, RemoveInv, HoldInv, Removers, Miss, Unused
<1>5. RemoveInv'
  BY <1>0, CacheAssumption DEF TypeOK, MapInv, FillInv, RemoveInv, HoldInv, Removers, Miss, Unused
<1>6. HoldInv'
  BY <1>0, CacheAssumption DEF TypeOK, MapInv, FillInv, RemoveInv, HoldInv, Removers, Miss, Unused
<1>7. LeakInv'
  BY <1>0, CacheAssumption, SMTT(30) DEF TypeOK, MapInv, FillInv, RemoveInv, HoldInv, LeakInv, Removers, Miss, Unused
<1> QED BY <1>1, <1>2, <1>3, <1>4, <1>5, <1>6, <1>7

LEMMA CloneOkStep ==
  ASSUME IInv, NEW t \in Callers, CloneOk(t)
  PROVE  IInv'
<1> USE DEF IInv, StructInv, Holding
<1>0. \A f \in Entries : refs[f] = 0 <=> \A u \in Callers : ~(pc[u] \in Holding /\ ent[u] = f)
  BY HeldRefs
<1>1. TypeOK'
  BY CacheAssumption DEF TypeOK, CloneOk, Idle, Mapped
<1>2. RefsExact'
  <2>1. \A f \in Entries : Holders(f)' = Holders(f)
    BY DEF TypeOK, CloneOk, Holders
  <2> QED BY <2>1, SameHolders DEF CloneOk
<1>3. MapInv'
  BY <1>0, CacheAssumption DEF TypeOK, MapInv, FillInv, RemoveInv, HoldInv, Removers, CloneOk, Idle, Mapped
<1>4. FillInv'
  BY <1>0, CacheAssumption DEF TypeOK, MapInv, FillInv, RemoveInv, HoldInv, Removers, CloneOk, Idle, Mapped
<1>5. RemoveInv'
  BY <1>0, CacheAssumption DEF TypeOK, MapInv, FillInv, RemoveInv, HoldInv, Removers, CloneOk, Idle, Mapped
<1>6. HoldInv'
  BY <1>0, CacheAssumption DEF TypeOK, MapInv, FillInv, RemoveInv, HoldInv, Removers, CloneOk, Idle, Mapped
<1>7. LeakInv'
  <2>1. PICK out \in SUBSET Idle :
          /\ dead' = [e \in Entries |-> dead[e] \/ e \in out]
          /\ entries' = [k \in Keys |-> IF entries[k] \in out THEN None ELSE entries[k]]
          /\ doomed' = [doomed EXCEPT ![t] = out]
    BY DEF CloneOk
  <2> SUFFICES ASSUME NEW e \in Entries, dir[e]
              PROVE  \/ \E k \in Keys : entries'[k] = e
                     \/ dead'[e] /\ refs[e] # 0
                     \/ \E u \in Callers : e \in doomed'[u] \/ (pc'[u] = "removing" /\ ent[u] = e)
    BY DEF LeakInv, Removers, CloneOk
  <2>2. CASE e \in out
    BY <2>1, <2>2 DEF TypeOK
  <2>3. CASE e \notin out /\ \E k \in Keys : entries[k] = e
    BY <2>1, <2>3 DEF TypeOK
  <2>4. CASE dead[e] /\ refs[e] # 0
    BY <2>1, <2>4 DEF TypeOK
  <2>5. CASE \E u \in Callers : u \in Removers(e)
    BY <2>1, <2>5, SMTT(30) DEF TypeOK, Removers, CloneOk, RemoveInv
  <2> QED BY <2>2, <2>3, <2>4, <2>5 DEF LeakInv
<1> QED BY <1>1, <1>2, <1>3, <1>4, <1>5, <1>6, <1>7

LEMMA CloneErrStep ==
  ASSUME IInv, NEW t \in Callers, CloneErr(t)
  PROVE  IInv'
<1> USE DEF IInv, StructInv, Holding
<1>0. \A f \in Entries : refs[f] = 0 <=> \A u \in Callers : ~(pc[u] \in Holding /\ ent[u] = f)
  BY HeldRefs
<1>1. TypeOK'
  BY CacheAssumption DEF TypeOK, CloneErr
<1>2. RefsExact'
  <2>1. \A f \in Entries : Holders(f)' = Holders(f)
    BY DEF TypeOK, CloneErr, Holders
  <2> QED BY <2>1, SameHolders DEF CloneErr
<1>3. MapInv'
  BY <1>0, CacheAssumption DEF TypeOK, MapInv, FillInv, RemoveInv, HoldInv, Removers, CloneErr
<1>4. FillInv'
  BY <1>0, CacheAssumption DEF TypeOK, MapInv, FillInv, RemoveInv, HoldInv, Removers, CloneErr
<1>5. RemoveInv'
  BY <1>0, CacheAssumption DEF TypeOK, MapInv, FillInv, RemoveInv, HoldInv, Removers, CloneErr
<1>6. HoldInv'
  BY <1>0, CacheAssumption DEF TypeOK, MapInv, FillInv, RemoveInv, HoldInv, Removers, CloneErr
<1>7. LeakInv'
  BY <1>0, CacheAssumption DEF TypeOK, MapInv, FillInv, RemoveInv, HoldInv, LeakInv, Removers, CloneErr
<1> QED BY <1>1, <1>2, <1>3, <1>4, <1>5, <1>6, <1>7

LEMMA CloseStep ==
  ASSUME IInv, NEW t \in Callers, Close(t)
  PROVE  IInv'
<1> USE DEF IInv, StructInv, Holding
<1>0. \A f \in Entries : refs[f] = 0 <=> \A u \in Callers : ~(pc[u] \in Holding /\ ent[u] = f)
  BY HeldRefs
<1>1. TypeOK'
  BY CacheAssumption DEF TypeOK, Close
<1>2. RefsExact'
  <2>1. \A f \in Entries : Holders(f)' = Holders(f)
    BY DEF TypeOK, Close, Holders
  <2> QED BY <2>1, SameHolders DEF Close
<1>3. MapInv'
  BY <1>0, CacheAssumption DEF TypeOK, MapInv, FillInv, RemoveInv, HoldInv, Removers, Close
<1>4. FillInv'
  BY <1>0, CacheAssumption DEF TypeOK, MapInv, FillInv, RemoveInv, HoldInv, Removers, Close
<1>5. RemoveInv'
  BY <1>0, CacheAssumption DEF TypeOK, MapInv, FillInv, RemoveInv, HoldInv, Removers, Close
<1>6. HoldInv'
  BY <1>0, CacheAssumption DEF TypeOK, MapInv, FillInv, RemoveInv, HoldInv, Removers, Close
<1>7. LeakInv'
  BY <1>0, CacheAssumption DEF TypeOK, MapInv, FillInv, RemoveInv, HoldInv, LeakInv, Removers, Close
<1> QED BY <1>1, <1>2, <1>3, <1>4, <1>5, <1>6, <1>7

LEMMA SweepStep ==
  ASSUME IInv, NEW t \in Callers, NEW e \in Entries, Sweep(t, e)
  PROVE  IInv'
<1> USE DEF IInv, StructInv, Holding
<1>0. \A f \in Entries : refs[f] = 0 <=> \A u \in Callers : ~(pc[u] \in Holding /\ ent[u] = f)
  BY HeldRefs
<1>1. TypeOK'
  BY CacheAssumption DEF TypeOK, Sweep
<1>2. RefsExact'
  <2>1. \A f \in Entries : Holders(f)' = Holders(f)
    BY DEF TypeOK, Sweep, Holders
  <2> QED BY <2>1, SameHolders DEF Sweep
<1>3. MapInv'
  BY <1>0, CacheAssumption DEF TypeOK, MapInv, FillInv, RemoveInv, HoldInv, Removers, Sweep
<1>4. FillInv'
  BY <1>0, CacheAssumption DEF TypeOK, MapInv, FillInv, RemoveInv, HoldInv, Removers, Sweep
<1>5. RemoveInv'
  BY <1>0, CacheAssumption DEF TypeOK, MapInv, FillInv, RemoveInv, HoldInv, Removers, Sweep
<1>6. HoldInv'
  BY <1>0, CacheAssumption DEF TypeOK, MapInv, FillInv, RemoveInv, HoldInv, Removers, Sweep
<1>7. LeakInv'
  BY <1>0, CacheAssumption DEF TypeOK, MapInv, FillInv, RemoveInv, HoldInv, LeakInv, Removers, Sweep
<1> QED BY <1>1, <1>2, <1>3, <1>4, <1>5, <1>6, <1>7

LEMMA SweptStep ==
  ASSUME IInv, NEW t \in Callers, Swept(t)
  PROVE  IInv'
<1> USE DEF IInv, StructInv, Holding
<1>0. \A f \in Entries : refs[f] = 0 <=> \A u \in Callers : ~(pc[u] \in Holding /\ ent[u] = f)
  BY HeldRefs
<1>1. TypeOK'
  BY CacheAssumption DEF TypeOK, Swept
<1>2. RefsExact'
  <2>1. \A f \in Entries : Holders(f)' = Holders(f)
    BY DEF TypeOK, Swept, Holders
  <2> QED BY <2>1, SameHolders DEF Swept
<1>3. MapInv'
  BY <1>0, CacheAssumption DEF TypeOK, MapInv, FillInv, RemoveInv, HoldInv, Removers, Swept
<1>4. FillInv'
  BY <1>0, CacheAssumption DEF TypeOK, MapInv, FillInv, RemoveInv, HoldInv, Removers, Swept
<1>5. RemoveInv'
  BY <1>0, CacheAssumption DEF TypeOK, MapInv, FillInv, RemoveInv, HoldInv, Removers, Swept
<1>6. HoldInv'
  BY <1>0, CacheAssumption DEF TypeOK, MapInv, FillInv, RemoveInv, HoldInv, Removers, Swept
<1>7. LeakInv'
  BY <1>0, CacheAssumption DEF TypeOK, MapInv, FillInv, RemoveInv, HoldInv, LeakInv, Removers, Swept
<1> QED BY <1>1, <1>2, <1>3, <1>4, <1>5, <1>6, <1>7

LEMMA WaitStep ==
  ASSUME IInv, NEW t \in Callers, Wait(t)
  PROVE  IInv'
<1> USE DEF IInv, StructInv, Holding
<1>0. \A f \in Entries : refs[f] = 0 <=> \A u \in Callers : ~(pc[u] \in Holding /\ ent[u] = f)
  BY HeldRefs
<1>1. TypeOK'
  BY CacheAssumption DEF TypeOK, Wait
<1>2. RefsExact'
  <2>1. \A f \in Entries : Holders(f)' = Holders(f)
    BY DEF TypeOK, Wait, Holders
  <2> QED BY <2>1, SameHolders DEF Wait
<1>3. MapInv'
  BY <1>0, CacheAssumption DEF TypeOK, MapInv, FillInv, RemoveInv, HoldInv, Removers, Wait
<1>4. FillInv'
  BY <1>0, CacheAssumption DEF TypeOK, MapInv, FillInv, RemoveInv, HoldInv, Removers, Wait
<1>5. RemoveInv'
  BY <1>0, CacheAssumption DEF TypeOK, MapInv, FillInv, RemoveInv, HoldInv, Removers, Wait
<1>6. HoldInv'
  BY <1>0, CacheAssumption DEF TypeOK, MapInv, FillInv, RemoveInv, HoldInv, Removers, Wait
<1>7. LeakInv'
  BY <1>0, CacheAssumption DEF TypeOK, MapInv, FillInv, RemoveInv, HoldInv, LeakInv, Removers, Wait
<1> QED BY <1>1, <1>2, <1>3, <1>4, <1>5, <1>6, <1>7

LEMMA CancelStep ==
  ASSUME IInv, NEW t \in Callers, Cancel(t)
  PROVE  IInv'
<1> USE DEF IInv, StructInv, Holding
<1>0. \A f \in Entries : refs[f] = 0 <=> \A u \in Callers : ~(pc[u] \in Holding /\ ent[u] = f)
  BY HeldRefs
<1>1. TypeOK'
  BY CacheAssumption DEF TypeOK, Cancel
<1>2. RefsExact'
  <2>1. \A f \in Entries : Holders(f)' = Holders(f)
    BY DEF TypeOK, Cancel, Holders
  <2> QED BY <2>1, SameHolders DEF Cancel
<1>3. MapInv'
  BY <1>0, CacheAssumption DEF TypeOK, MapInv, FillInv, RemoveInv, HoldInv, Removers, Cancel
<1>4. FillInv'
  BY <1>0, CacheAssumption DEF TypeOK, MapInv, FillInv, RemoveInv, HoldInv, Removers, Cancel
<1>5. RemoveInv'
  BY <1>0, CacheAssumption DEF TypeOK, MapInv, FillInv, RemoveInv, HoldInv, Removers, Cancel
<1>6. HoldInv'
  BY <1>0, CacheAssumption DEF TypeOK, MapInv, FillInv, RemoveInv, HoldInv, Removers, Cancel
<1>7. LeakInv'
  BY <1>0, CacheAssumption DEF TypeOK, MapInv, FillInv, RemoveInv, HoldInv, LeakInv, Removers, Cancel
<1> QED BY <1>1, <1>2, <1>3, <1>4, <1>5, <1>6, <1>7

LEMMA FinishStep ==
  ASSUME IInv, NEW t \in Callers, Finish(t)
  PROVE  IInv'
<1> USE DEF IInv, StructInv, Holding
<1>0. \A f \in Entries : refs[f] = 0 <=> \A u \in Callers : ~(pc[u] \in Holding /\ ent[u] = f)
  BY HeldRefs
<1>1. TypeOK'
  BY CacheAssumption DEF TypeOK, Finish
<1>2. RefsExact'
  <2>1. \A f \in Entries : Holders(f)' = Holders(f)
    BY DEF TypeOK, Finish, Holders
  <2> QED BY <2>1, SameHolders DEF Finish
<1>3. MapInv'
  BY <1>0, CacheAssumption DEF TypeOK, MapInv, FillInv, RemoveInv, HoldInv, Removers, Finish
<1>4. FillInv'
  BY <1>0, CacheAssumption DEF TypeOK, MapInv, FillInv, RemoveInv, HoldInv, Removers, Finish
<1>5. RemoveInv'
  BY <1>0, CacheAssumption DEF TypeOK, MapInv, FillInv, RemoveInv, HoldInv, Removers, Finish
<1>6. HoldInv'
  BY <1>0, CacheAssumption DEF TypeOK, MapInv, FillInv, RemoveInv, HoldInv, Removers, Finish
<1>7. LeakInv'
  BY <1>0, CacheAssumption DEF TypeOK, MapInv, FillInv, RemoveInv, HoldInv, LeakInv, Removers, Finish
<1> QED BY <1>1, <1>2, <1>3, <1>4, <1>5, <1>6, <1>7

LEMMA ReleaseStep ==
  ASSUME IInv, NEW t \in Callers, Release(t)
  PROVE  IInv'
<1> USE DEF IInv, StructInv, Holding
<1>0. \A f \in Entries : refs[f] = 0 <=> \A u \in Callers : ~(pc[u] \in Holding /\ ent[u] = f)
  BY HeldRefs
<1>1. TypeOK'
  BY <1>0, CacheAssumption DEF TypeOK, Release
<1>2. RefsExact'
  <2>0. PICK e \in Entries : e = ent[t]
    BY DEF TypeOK, Release
  <2>1. t \in Holders(e)
    BY <2>0 DEF Release, Holders
  <2>2. Holders(e)' = Holders(e) \ {t}
    BY <2>0 DEF TypeOK, Release, Holders
  <2>3. \A f \in Entries \ {e} : Holders(f)' = Holders(f) /\ refs'[f] = refs[f]
    BY <2>0 DEF TypeOK, Release, Holders
  <2>4. IsFiniteSet(Holders(e))
    BY CacheAssumption, FS_Subset DEF Holders
  <2>5. Cardinality(Holders(e) \ {t}) = Cardinality(Holders(e)) - 1
    BY <2>1, <2>4, FS_RemoveElement
  <2>6. refs'[e] = refs[e] - 1
    BY <2>0 DEF TypeOK, Release
  <2>7. refs'[e] = Cardinality(Holders(e)')
    BY <2>2, <2>5, <2>6 DEF RefsExact
  <2> QED BY <2>3, <2>7 DEF RefsExact
<1>3. MapInv'
  BY <1>0, CacheAssumption DEF TypeOK, MapInv, FillInv, RemoveInv, HoldInv, Removers, Release
<1>4. FillInv'
  BY <1>0, CacheAssumption DEF TypeOK, MapInv, FillInv, RemoveInv, HoldInv, Removers, Release
<1>5. RemoveInv'
  <2>0. PICK e \in Entries : e = ent[t]
    BY DEF TypeOK, Release
  <2>1. refs[e] >= 1 /\ refs'[e] = refs[e] - 1 /\ dir[e] /\ pc[t] = "releasing"
    BY <1>0, <2>0 DEF TypeOK, Release, HoldInv
  <2>2. \A u \in Callers : u \notin Removers(e)
    BY <2>1 DEF RemoveInv
  <2>3. \A f \in Entries, u \in Callers :
          u \in Removers(f)' => u \in Removers(f) \/ (u = t /\ f = e /\ refs[e] <= 1 /\ dead[e])
    BY <2>0 DEF TypeOK, Release, Removers
  <2>4. \A f \in Entries, u \in Callers : u \in Removers(f) => refs'[f] = 0
    BY <2>1, <2>2 DEF TypeOK, Release, RemoveInv
  <2>5. refs[e] <= 1 => refs'[e] = 0
    BY <2>1 DEF TypeOK
  <2>6. dead[e] => \A k \in Keys : entries[k] # e
    BY CacheAssumption DEF TypeOK, MapInv
  <2>7. \A u \in Callers, f \in Entries :
          u \in Removers(f)' =>
            dir[f] /\ dead[f] /\ (\A k \in Keys : entries[k] # f) /\ refs'[f] = 0
    BY <2>1, <2>3, <2>4, <2>5, <2>6 DEF RemoveInv
  <2>8. \A u, v \in Callers, f \in Entries :
          u \in Removers(f)' /\ v \in Removers(f)' => u = v
    BY <2>2, <2>3 DEF RemoveInv
  <2>9. \A u \in Callers : doomed[u] # {} => pc'[u] \in {"closing", "sweeping"}
    BY <2>1 DEF TypeOK, Release, RemoveInv
  <2> QED BY <2>7, <2>8, <2>9 DEF RemoveInv, Release
<1>6. HoldInv'
  BY <1>0, CacheAssumption DEF TypeOK, MapInv, FillInv, RemoveInv, HoldInv, Removers, Release
<1>7. LeakInv'
  BY <1>0, CacheAssumption DEF TypeOK, MapInv, FillInv, RemoveInv, HoldInv, LeakInv, Removers, Release
<1> QED BY <1>1, <1>2, <1>3, <1>4, <1>5, <1>6, <1>7

LEMMA RemoveStep ==
  ASSUME IInv, NEW t \in Callers, Remove(t)
  PROVE  IInv'
<1> USE DEF IInv, StructInv, Holding
<1>0. \A f \in Entries : refs[f] = 0 <=> \A u \in Callers : ~(pc[u] \in Holding /\ ent[u] = f)
  BY HeldRefs
<1>1. TypeOK'
  BY CacheAssumption DEF TypeOK, Remove
<1>2. RefsExact'
  <2>1. \A f \in Entries : Holders(f)' = Holders(f)
    BY DEF TypeOK, Remove, Holders
  <2> QED BY <2>1, SameHolders DEF Remove
<1>3. MapInv'
  BY <1>0, CacheAssumption DEF TypeOK, MapInv, FillInv, RemoveInv, HoldInv, Removers, Remove
<1>4. FillInv'
  BY <1>0, CacheAssumption DEF TypeOK, MapInv, FillInv, RemoveInv, HoldInv, Removers, Remove
<1>5. RemoveInv'
  BY <1>0, CacheAssumption DEF TypeOK, MapInv, FillInv, RemoveInv, HoldInv, Removers, Remove
<1>6. HoldInv'
  BY <1>0, CacheAssumption DEF TypeOK, MapInv, FillInv, RemoveInv, HoldInv, Removers, Remove
<1>7. LeakInv'
  BY <1>0, CacheAssumption DEF TypeOK, MapInv, FillInv, RemoveInv, HoldInv, LeakInv, Removers, Remove
<1> QED BY <1>1, <1>2, <1>3, <1>4, <1>5, <1>6, <1>7

------------------------------------------------------------------------------
LEMMA InitInv == Init => IInv
<1> SUFFICES ASSUME Init PROVE IInv
  OBVIOUS
<1>1. TypeOK
  BY CacheAssumption DEF Init, TypeOK, Holding
<1>2. RefsExact
  <2>1. \A e \in Entries : Holders(e) = {}
    BY DEF Init, Holders, Holding
  <2> QED BY <2>1, FS_EmptySet DEF RefsExact, Init
<1>3. StructInv
  BY DEF Init, StructInv, MapInv, FillInv, RemoveInv, HoldInv, LeakInv, Removers, Holding
<1> QED BY <1>1, <1>2, <1>3 DEF IInv

(* Time, and stuttering, change nothing the invariant mentions but the     *)
(* clock's type.                                                           *)
LEMMA ClockStep ==
  ASSUME IInv, Tick \/ UNCHANGED vars
  PROVE  IInv'
<1>1. TypeOK'
  BY DEF IInv, TypeOK, Tick, vars
<1>2. RefsExact'
  <2>1. UNCHANGED refs /\ \A e \in Entries : Holders(e)' = Holders(e)
    BY DEF Tick, vars, Holders
  <2> QED BY <2>1, SameHolders DEF IInv
<1>3. StructInv'
  BY DEF IInv, StructInv, MapInv, FillInv, RemoveInv, HoldInv, LeakInv, Removers, Tick, vars
<1> QED BY <1>1, <1>2, <1>3 DEF IInv

LEMMA NextStep ==
  ASSUME IInv, [Next]_vars
  PROVE  IInv'
<1>1. CASE Tick \/ UNCHANGED vars
  BY <1>1, ClockStep
<1>2. ASSUME NEW t \in Callers, Acquire(t) \/ Cancel(t) \/ Progress(t)
      PROVE  IInv'
  <2>1. CASE Acquire(t)
    BY <2>1, HitStep, MissStep DEF Acquire
  <2>2. CASE Cancel(t)
    BY <2>2, CancelStep
  <2>3. CASE CloneOk(t) \/ CloneErr(t) \/ Close(t)
    BY <2>3, CloneOkStep, CloneErrStep, CloseStep
  <2>4. CASE Swept(t) \/ \E e \in Entries : Sweep(t, e)
    BY <2>4, SweepStep, SweptStep
  <2>5. CASE Wait(t) \/ Finish(t) \/ Release(t) \/ Remove(t)
    BY <2>5, WaitStep, FinishStep, ReleaseStep, RemoveStep
  <2> QED BY <1>2, <2>1, <2>2, <2>3, <2>4, <2>5 DEF Progress
<1> QED BY <1>1, <1>2 DEF Next

(* The inductive invariant holds in every reachable state of the cache.    *)
THEOREM Invariance == Spec => []IInv
<1>1. IInv /\ [Next]_vars => IInv'
  BY NextStep
<1> QED BY InitInv, <1>1, PTL DEF Spec

(* Types: whatever the interleaving of acquire and release, each caller    *)
(* between them has an entry and a key, and no count goes negative.        *)
THEOREM TypeCorrect == Spec => []TypeOK
<1>1. IInv => TypeOK
  BY DEF IInv
<1> QED BY Invariance, <1>1, PTL

(* An in-use worktree is never removed (cache.go, fetchCache), however     *)
(* hits, evictions, failed clones and cancellations interleave.            *)
THEOREM InUseWorktreesKept == Spec => []InUseKept
<1>1. IInv => InUseKept
  BY DEF IInv, StructInv, HoldInv, InUseKept
<1> QED BY Invariance, <1>1, PTL

(* acquire and release balance: an entry's count is the number of callers  *)
(* that hold it.                                                           *)
THEOREM ReferencesExact == Spec => []RefsExact
<1>1. IInv => RefsExact
  BY DEF IInv
<1> QED BY Invariance, <1>1, PTL

(* Concurrent misses for the same key run one clone.                       *)
THEOREM ClonesSingleFlight == Spec => []SingleFlight
<1>1. IInv => SingleFlight
  BY DEF IInv, StructInv, FillInv, SingleFlight
<1> QED BY Invariance, <1>1, PTL

(* acquire hands out only worktrees whose clone completed without error.   *)
THEOREM OnlyCompleteUsed == Spec => []UsesComplete
<1>1. IInv => UsesComplete
  BY DEF IInv, StructInv, FillInv, HoldInv, UsesComplete
<1> QED BY Invariance, <1>1, PTL

(* acquire and release leave no directory that nobody will remove, and     *)
(* never remove one twice or while it is mapped or held.                   *)
THEOREM DirectoriesAccounted == Spec => []NoLeak
<1>1. IInv => NoLeak
  <2> SUFFICES ASSUME IInv, NEW e \in Entries
              PROVE  /\ dir[e] => e \in Mapped \/ Holders(e) # {} \/ Removers(e) # {}
                     /\ Removers(e) # {} =>
                          /\ e \notin Mapped /\ Holders(e) = {}
                          /\ \A t, u \in Removers(e) : t = u
    BY DEF NoLeak
  <2>1. refs[e] = 0 <=> Holders(e) = {}
    BY HeldRefs DEF IInv, Holders
  <2>2. dir[e] => e \in Mapped \/ Holders(e) # {} \/ Removers(e) # {}
    BY <2>1 DEF IInv, StructInv, LeakInv, Mapped
  <2>3. ASSUME NEW t \in Removers(e)
        PROVE  e \notin Mapped /\ Holders(e) = {} /\ \A u \in Removers(e) : t = u
    <3>1. Removers(e) \subseteq Callers
      BY DEF Removers
    <3> QED BY <2>1, <3>1 DEF IInv, StructInv, RemoveInv, Mapped
  <2> QED BY <2>2, <2>3
<1> QED BY Invariance, <1>1, PTL

------------------------------------------------------------------------------
(* The footprint.  The bound is inductive on top of IInv: a miss adds an   *)
(* entry and a clone, a failed clone takes both away, and a clone that     *)
(* succeeds evicts until the cap holds or only held entries are left.      *)
Cloning == {t \in Callers : pc[t] = "cloning"}

(* Entries that are held are no more than the callers.                     *)
LEMMA HeldFew ==
  ASSUME TypeOK, RefsExact, NEW S \in SUBSET Entries, \A e \in S : refs[e] # 0
  PROVE  Cardinality(S) <= Cardinality(Callers)
<1>1. \A e \in S : \E t \in Callers : ent[t] = e
  BY HeldRefs
<1>2. DEFINE f == [e \in S |-> CHOOSE t \in Callers : ent[t] = e]
<1>3. \A e \in S : f[e] \in Callers /\ ent[f[e]] = e
  BY <1>1
<1>4. f \in [S -> Callers]
  BY <1>3
<1>5. f \in Injection(S, Callers)
  <2> HIDE DEF f
  <2>1. QED  BY <1>3, <1>4 DEF Injection, IsInjective
<1>6. IsFiniteSet(Callers)
  BY CacheAssumption
<1> QED BY <1>5, <1>6, FS_Injection

LEMMA FootprintSame ==
  ASSUME FootprintBound, UNCHANGED entries, Cloning' = Cloning
  PROVE  FootprintBound'
BY DEF FootprintBound, Mapped, Cloning

LEMMA FootprintStep ==
  ASSUME IInv, FootprintBound, [Next]_vars
  PROVE  FootprintBound'
<1> USE DEF IInv
<1>0. /\ IsFiniteSet(Mapped) /\ IsFiniteSet(Cloning) /\ IsFiniteSet(Callers)
      /\ Cardinality(Mapped) \in Nat /\ Cardinality(Cloning) \in Nat
      /\ Cardinality(Callers) \in Nat /\ MaxEntries \in Nat
  BY CacheAssumption, FS_Subset, FS_CardinalityType DEF Mapped, Cloning
<1>1. ASSUME NEW t \in Callers, NEW k \in Keys, NEW e \in Entries, Miss(t, k, e)
      PROVE  FootprintBound'
  <2>1. Mapped' = Mapped \cup {e}
    BY <1>1, CacheAssumption DEF Miss, Mapped, TypeOK
  <2>2. Cloning' = Cloning \cup {t} /\ t \notin Cloning
    BY <1>1 DEF Miss, Cloning, TypeOK
  <2>3. Cardinality(Mapped') <= Cardinality(Mapped) + 1
    <3>1. Cardinality(Mapped \cup {e}) = IF e \in Mapped THEN Cardinality(Mapped)
                                         ELSE Cardinality(Mapped) + 1
      BY <1>0, FS_AddElement
    <3> QED BY <1>0, <2>1, <3>1
  <2>4. Cardinality(Cloning') = Cardinality(Cloning) + 1
    BY <1>0, <2>2, FS_AddElement
  <2>5. Cardinality(Mapped') \in Nat
    BY <1>0, <2>1, FS_AddElement, FS_CardinalityType
  <2> QED BY <1>0, <2>3, <2>4, <2>5 DEF FootprintBound, Cloning
<1>2. ASSUME NEW t \in Callers, CloneErr(t) PROVE FootprintBound'
  <2>1. entries[key[t]] = ent[t] /\ ent[t] \in Entries /\ key[t] \in Keys
    BY <1>2 DEF CloneErr, StructInv, FillInv, TypeOK, Holding
  <2>2. \A k \in Keys : entries'[k] = IF k = key[t] THEN None ELSE entries[k]
    BY <1>2 DEF CloneErr, TypeOK
  <2>3. Mapped' = Mapped \ {ent[t]} /\ ent[t] \in Mapped
    BY <2>1, <2>2, CacheAssumption DEF Mapped, StructInv, MapInv
  <2>4. Cloning' = Cloning \ {t} /\ t \in Cloning
    BY <1>2 DEF CloneErr, Cloning, TypeOK
  <2>5. /\ Cardinality(Mapped') = Cardinality(Mapped) - 1
        /\ Cardinality(Cloning') = Cardinality(Cloning) - 1
    BY <1>0, <2>3, <2>4, FS_RemoveElement
  <2> QED BY <1>0, <2>5 DEF FootprintBound, Cloning
<1>3. ASSUME NEW t \in Callers, CloneOk(t) PROVE FootprintBound'
  <2>1. PICK out \in SUBSET Idle :
          /\ Evictable(out)
          /\ entries' = [k \in Keys |-> IF entries[k] \in out THEN None ELSE entries[k]]
    BY <1>3 DEF CloneOk
  <2>2. Mapped' = Mapped \ out
    BY <2>1, CacheAssumption DEF Mapped, TypeOK
  <2>3. Cardinality(Mapped') <= MaxEntries \/ Cardinality(Mapped') <= Cardinality(Callers)
    <3>1. CASE out = Idle
      <4>1. \A e \in Mapped' : refs[e] # 0
        BY <2>2, <3>1 DEF Idle
      <4>2. Mapped' \in SUBSET Entries
        BY DEF Mapped
      <4> QED BY <4>1, <4>2, HeldFew
    <3>2. CASE out # Idle
      BY <2>1, <2>2, <3>2 DEF Evictable
    <3> QED BY <3>1, <3>2
  <2>4. IsFiniteSet(Cloning') /\ Cardinality(Cloning') \in Nat
    BY CacheAssumption, FS_Subset, FS_CardinalityType DEF Cloning
  <2>5. Cardinality(Mapped') \in Nat
    BY <1>0, <2>2, FS_Difference, FS_CardinalityType
  <2> QED BY <1>0, <2>3, <2>4, <2>5 DEF FootprintBound, Cloning
<1>4. ASSUME NEW t \in Callers, NEW k \in Keys, Hit(t, k) PROVE FootprintBound'
  BY <1>4, FootprintSame DEF Hit, Cloning, TypeOK
<1>5. ASSUME NEW t \in Callers, \/ Cancel(t) \/ Close(t) \/ Swept(t) \/ Wait(t)
                                \/ Finish(t) \/ Release(t) \/ Remove(t)
      PROVE  FootprintBound'
  <2>1. UNCHANGED entries /\ Cloning' = Cloning
    BY <1>5 DEF Cancel, Close, Swept, Wait, Finish, Release, Remove, Cloning, TypeOK
  <2> QED BY <2>1, FootprintSame
<1>6. ASSUME \/ Tick \/ UNCHANGED vars
             \/ \E t \in Callers, e \in Entries : Sweep(t, e)
      PROVE  FootprintBound'
  <2>1. UNCHANGED entries /\ Cloning' = Cloning
    BY <1>6 DEF Tick, vars, Sweep, Cloning
  <2> QED BY <2>1, FootprintSame
<1> QED BY <1>1, <1>2, <1>3, <1>4, <1>5, <1>6 DEF Next, Acquire, Progress

(* The disk footprint is bounded: the map exceeds the larger of the cap    *)
(* and the number of callers only by clones that are still running,        *)
(* however many keys are asked for (DefaultFetchCacheMaxEntries).          *)
THEOREM FootprintBounded == Spec => []FootprintBound
<1>1. Init => FootprintBound
  <2>1. ASSUME Init PROVE Mapped = {} /\ Cloning = {}
    BY <2>1, CacheAssumption DEF Init, Mapped, Cloning
  <2> QED BY <2>1, FS_EmptySet, CacheAssumption DEF FootprintBound, Cloning
<1>2. IInv /\ FootprintBound /\ [Next]_vars => FootprintBound'
  BY FootprintStep
<1> QED BY Invariance, <1>1, <1>2, PTL DEF Spec
==============================================================================
