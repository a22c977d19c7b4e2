--------------------------- MODULE ConfigTreeProofs ---------------------------
(***************************************************************************)
(* Proofs about ConfigTree, for any catalogue of files, any commits made   *)
(* of them, any allow-list and any limits.  Where the decoders agree with  *)
(* the documentation on what is a manifest, what is applied and pruned is  *)
(* exactly the objects of one commit, once all of them have passed the     *)
(* guard, and what is published is exactly its configuration, unless the   *)
(* repository's root is rendered.                                          *)
(***************************************************************************)
EXTENDS ConfigTree, FiniteSetTheorems, WellFoundedInduction, TLAPS

(* A non-empty set of numbers has a least one.                             *)
LEMMA LeastNat ==
  ASSUME NEW T \in SUBSET Nat, T # {}
  PROVE  \E n \in T : \A m \in T : n <= m
<1>1. PICK n \in T : \A m \in T : ~(<<m, n>> \in OpToRel(<, Nat))
  BY NatLessThanWellFounded, WFMin
<1>2. \A m \in T : ~(m < n)
  BY <1>1 DEF OpToRel
<1> QED BY <1>2

LEMMA MinIsLeast ==
  ASSUME NEW T \in SUBSET Nat, T # {}
  PROVE  Min(T) \in T /\ \A m \in T : Min(T) <= m
BY LeastNat DEF Min

LEMMA MaxOfOne ==
  ASSUME NEW n \in Nat
  PROVE  Max({n}) = n
BY DEF Max

------------------------------------------------------------------------------
(* The directory.  The entries the walk accepted are no unsafe links, and  *)
(* their documents are sequences.                                          *)
IsDocs(docs) ==
  /\ Len(docs) \in Nat /\ DOMAIN docs = 1 .. Len(docs)
  /\ \A n \in DOMAIN docs :
       docs[n] # None /\ (docs[n].class = "object" => docs[n].name \in Names \cup {None})

LEMMA WalkedType ==
  ASSUME work.tree \subseteq DOMAIN Catalog
  PROVE  Walked(work.tree) \subseteq Nat
BY TreeAssumption DEF Walked, GitDir

LEMMA DocsType ==
  ASSUME work.tree \subseteq DOMAIN Catalog, NEW i \in Walked(work.tree), ~Unsafe(i)
  PROVE  IsDocs(Docs(i))
<1>0. GitDir \notin DOMAIN Catalog
  BY TreeAssumption DEF GitDir
<1>1. \A j \in DOMAIN Catalog \cup {GitDir} : IsDocs(File(j).docs)
  BY <1>0, TreeAssumption DEF IsDocs, File, GitDir
<1>2. IsFile(i) => Real(i) \in DOMAIN Catalog \cup {GitDir}
  <2>1. CASE IsLink(i) /\ IsFile(i)
    <3>1. i \in work.tree
      BY <2>1 DEF IsLink, File, Walked
    <3>2. \E j \in work.tree : File(j).path = File(i).to
      BY <2>1, <3>1 DEF Unsafe, Resolves, Within, IsFile, IsLink
    <3>3. QED  BY <2>1, <3>2 DEF Real
  <2>2. CASE ~IsLink(i)
    BY <2>2 DEF Real, Walked
  <2>3. QED  BY <2>1, <2>2
<1>3. IsDocs(<<>>)
  BY DEF IsDocs
<1>4. QED  BY <1>1, <1>2, <1>3 DEF Docs

------------------------------------------------------------------------------
(* The two decoders.                                                       *)

(* The Kubernetes decoder finds the objects before the first document it   *)
(* cannot take.                                                            *)
LEMMA ParsedDocs ==
  ASSUME NEW docs, IsDocs(docs)
  PROVE  ParseFile(docs) = {n \in DOMAIN docs :
           docs[n].class = "object" /\ \A k \in 1 .. n : docs[k].class # "list"}
<1> DEFINE stop == {n \in DOMAIN docs : FailsKube(docs[n])}
<1>0. stop \in SUBSET Nat /\ \A n \in stop : docs[n].class = "list"
  BY DEF IsDocs, FailsKube
<1>1. ASSUME NEW n \in DOMAIN docs, TypedKube(docs[n])
      PROVE  (stop = {} \/ n < Min(stop)) <=> \A k \in 1 .. n : docs[k].class # "list"
  <2>0. n \in Nat /\ 1 .. n \subseteq DOMAIN docs
    BY DEF IsDocs
  <2>1. CASE stop = {}
    BY <2>0, <2>1 DEF FailsKube
  <2>2. CASE stop # {}
    <3>1. Min(stop) \in stop /\ \A m \in stop : Min(stop) <= m
      BY <1>0, <2>2, MinIsLeast
    <3>2. PICK m \in stop : m = Min(stop)
      BY <3>1
    <3>3. m \in Nat /\ 1 <= m /\ docs[m].class = "list"
      BY <1>0, <3>2 DEF IsDocs
    <3>4. n < m => \A k \in 1 .. n : docs[k].class # "list"
      <4>1. SUFFICES ASSUME n < m, NEW k \in 1 .. n, docs[k].class = "list" PROVE FALSE
        OBVIOUS
      <4>2. k \in stop
        BY <2>0, <4>1 DEF FailsKube
      <4>3. m <= k
        BY <3>1, <3>2, <4>2
      <4>4. k \in Nat
        BY <2>0
      <4>5. QED  BY <2>0, <3>3, <4>1, <4>3, <4>4
    <3>5. (\A k \in 1 .. n : docs[k].class # "list") => n < m
      BY <2>0, <3>3
    <3>6. QED  BY <2>2, <3>2, <3>4, <3>5
  <2>3. QED  BY <2>1, <2>2
<1> QED BY <1>1 DEF ParseFile, TypedKube

(* Of a clear file the Kubernetes decoder finds all objects, and the       *)
(* renderer keeps it exactly if it has none and is not reserved.           *)
LEMMA ClearParsed ==
  ASSUME NEW i, IsDocs(Docs(i)), ClearDocs(Docs(i))
  PROVE  /\ ObjectsIn(i) = {Docs(i)[n] : n \in IF File(i).ext /\ IsFile(i) THEN ParseFile(Docs(i)) ELSE {}}
         /\ IsFile(i) => (~Excluded(i) <=> IsConfig(i))
<1> DEFINE docs == Docs(i)
           objects == {n \in DOMAIN docs : docs[n].class = "object"}
<1>1. \A n \in DOMAIN docs : n \in Nat /\ 1 .. n \subseteq DOMAIN docs /\ n \in 1 .. n
  BY DEF IsDocs
<1>2. \A n \in objects : \A k \in 1 .. n : docs[k].class # "list"
  <2>1. TAKE n \in objects
  <2>2. TAKE k \in 1 .. n
  <2>3. CASE k = n
    BY <2>3
  <2>4. CASE k # n
    <3>1. k \in 1 .. n - 1
      BY <1>1, <2>4
    <3>2. QED  BY <3>1 DEF ClearDocs
  <2>5. QED  BY <2>3, <2>4
<1>3. ParseFile(docs) = objects
  BY <1>2, ParsedDocs
<1>4. \A n \in DOMAIN docs : docs[n].class \in {"object", "odd", "nested"} <=> n \in objects
  BY DEF ClearDocs
<1>5. ObjectsIn(i) = {docs[n] : n \in IF File(i).ext /\ IsFile(i) THEN objects ELSE {}}
  BY <1>4 DEF ObjectsIn
<1>6. IsKubernetesManifest(docs) <=> objects # {}
  <2>1. \A n \in DOMAIN docs : TypedYaml(docs[n]) <=> n \in objects
    BY DEF ClearDocs, TypedYaml
  <2>2. \A n \in objects : \A k \in 1 .. n - 1 : ~FailsYaml(docs[k])
    <3>1. TAKE n \in objects
    <3>2. TAKE k \in 1 .. n - 1
    <3>3. k \in 1 .. n /\ k \in DOMAIN docs
      BY <1>1
    <3>4. QED  BY <1>2, <3>3 DEF ClearDocs, FailsYaml
  <2>3. QED  BY <2>1, <2>2 DEF IsKubernetesManifest
<1>7. ObjectsIn(i) = {} <=> ~(File(i).ext /\ IsFile(i) /\ objects # {})
  BY <1>5
<1> QED BY <1>3, <1>5, <1>6, <1>7 DEF Excluded, IsConfig

------------------------------------------------------------------------------
(* The walk of the renderer: every entry it has left behind is safe, it    *)
(* has kept exactly the files that are not excluded, and no two of them    *)
(* have one key.                                                           *)
Kept(i) == IsFile(i) /\ ~Excluded(i)

TreeInv ==
  /\ head.tree \in Trees /\ work.tree \in Trees \cup {{}}
  /\ head.tree \subseteq DOMAIN Catalog /\ work.tree \subseteq DOMAIN Catalog

Left == Walked(work.tree) \ (IF phase = "collect" THEN todo ELSE {})

WalkInv ==
  phase # "idle" =>
    /\ phase = "collect" => todo \subseteq Walked(work.tree)
    /\ \A i \in Left : ~Unsafe(i)
    /\ \A i \in Left : i \in out <=> Kept(i)
    /\ out \subseteq Left
    /\ \A i, j \in out : Key(i) = Key(j) => i = j

PublishInv ==
  phase \in {"load", "apply"} => cm.rev = work.rev /\ cm.data = Rendered

Phases == {"idle", "collect", "publish", "load", "apply"}

RenderInv == TreeInv /\ phase \in Phases /\ WalkInv /\ PublishInv

(* The operators on the directory depend on the checked-out commit only.   *)
LEMMA SameWork ==
  ASSUME UNCHANGED work
  PROVE  /\ \A i : Unsafe(i)' <=> Unsafe(i)
         /\ \A i : Kept(i)' <=> Kept(i)
         /\ \A i : IsFile(i)' <=> IsFile(i)
         /\ \A i : Docs(i)' = Docs(i)
         /\ \A i : Content(i)' = Content(i)
         /\ \A i : Key(i)' = Key(i)
BY DEF Unsafe, Kept, Excluded, Docs, Content, Key, Real, Resolves, Within, IsFile, IsLink, File, Entry

LEMMA SameRendered ==
  ASSUME UNCHANGED <<work, out>>
  PROVE  Rendered' = Rendered
BY DEF Rendered, Key, Content, File, Real, IsLink, Entry

LEMMA RenderInit == Init => RenderInv
BY TreeAssumption DEF Init, RenderInv, TreeInv, WalkInv, PublishInv, Phases

LEMMA RenderStep ==
  ASSUME RenderInv, [Next]_vars
  PROVE  RenderInv'
<1> USE DEF RenderInv, Phases, EndWith, Goto
<1>1. CASE Push
  BY <1>1, TreeAssumption DEF Push, TreeInv, WalkInv, PublishInv
<1>2. CASE Fetch
  BY <1>2 DEF Fetch, TreeInv, WalkInv, PublishInv, Left
<1>3. CASE RejectLink \/ RejectKey \/ Oversize \/ Interrupt
  BY <1>3 DEF RejectLink, RejectKey, Oversize, Interrupt, TreeInv, WalkInv, PublishInv
<1>4. CASE Skip
  <2>1. PICK i \in todo : /\ phase = "collect" /\ ~Unsafe(i) /\ ~Kept(i)
                          /\ todo' = todo \ {i} /\ UNCHANGED <<phase, head, work, out, cm>>
    BY <1>4 DEF Skip, Walk, Kept
  <2>2. Left' = Left \cup {i} /\ i \notin Left
    BY <2>1 DEF Left, WalkInv
  <2>3. WalkInv'
    BY <2>1, <2>2, SameWork DEF WalkInv, Left
  <2>4. QED  BY <2>1, <2>3 DEF TreeInv, PublishInv
<1>5. CASE Include
  <2>1. PICK i \in todo : /\ phase = "collect" /\ ~Unsafe(i) /\ Kept(i) /\ ~Taken(i)
                          /\ todo' = todo \ {i} /\ out' = out \cup {i}
                          /\ UNCHANGED <<phase, head, work, cm>>
    BY <1>5 DEF Include, Walk, Kept
  <2>2. Left' = Left \cup {i} /\ i \notin Left
    BY <2>1 DEF Left, WalkInv
  <2>3. \A j \in out : Key(j) # Key(i)
    BY <2>1 DEF Taken
  <2>4. WalkInv'
    BY <2>1, <2>2, <2>3, SameWork DEF WalkInv, Left
  <2>5. QED  BY <2>1, <2>4 DEF TreeInv, PublishInv
<1>6. CASE Render
  <2>1. Left' = Left
    BY <1>6 DEF Render, Left
  <2>2. WalkInv'
    BY <1>6, <2>1, SameWork DEF Render, WalkInv
  <2>3. QED  BY <1>6, <2>2 DEF Render, TreeInv, PublishInv
<1>7. CASE Publish
  <2>1. Left' = Left
    BY <1>7 DEF Publish, Left
  <2>2. WalkInv'
    BY <1>7, <2>1, SameWork DEF Publish, WalkInv
  <2>3. Rendered' = Rendered
    BY <1>7, SameRendered DEF Publish
  <2>4. QED  BY <1>7, <2>2, <2>3 DEF Publish, TreeInv, PublishInv
<1>8. CASE Load \/ Guard \/ Apply \/ Prune \/ UNCHANGED vars
  <2>1. /\ UNCHANGED <<head, work, out, cm>>
        /\ \/ phase' = phase
           \/ phase = "load" /\ phase' = "apply"
           \/ phase' = "idle"
    BY <1>8 DEF Load, Guard, Apply, Prune, vars, Walk
  <2>2. phase' # "idle" => /\ phase' = "collect" => UNCHANGED todo
                           /\ phase = "collect" <=> phase' = "collect"
    BY <1>8, <2>1 DEF Load, Guard, Apply, Prune, vars
  <2>3. phase' # "idle" => Left' = Left
    BY <2>1, <2>2 DEF Left
  <2>4. WalkInv'
    BY <2>1, <2>2, <2>3, SameWork DEF WalkInv
  <2>5. Rendered' = Rendered
    BY <2>1, SameRendered
  <2>6. QED  BY <2>1, <2>4, <2>5 DEF TreeInv, PublishInv
<1> QED BY <1>1, <1>2, <1>3, <1>4, <1>5, <1>6, <1>7, <1>8 DEF Next

(* The inductive invariant of the renderer's walk.                         *)
THEOREM RenderInvariance == Spec => []RenderInv
<1>1. RenderInv /\ [Next]_vars => RenderInv'
  BY RenderStep
<1> QED BY RenderInit, <1>1, PTL DEF Spec

(* In a commit of clear files, an entry that is no unsafe link is clear.   *)
LEMMA ClearEntry ==
  ASSUME ClearTrees, TreeInv, NEW i \in work.tree, ~Unsafe(i)
  PROVE  IsDocs(Docs(i)) /\ ClearDocs(Docs(i))
<1>1. i \in Walked(work.tree) /\ work.tree \in Trees
  BY DEF Walked, TreeInv
<1>2. IsDocs(Docs(i))
  BY <1>1, DocsType DEF TreeInv
<1>3. \A j \in work.tree : File(j) = Entry(j) /\ ClearDocs(File(j).docs)
  <2>1. GitDir \notin work.tree
    BY TreeAssumption DEF GitDir, TreeInv
  <2>2. QED  BY <1>1, <2>1 DEF ClearTrees, File
<1>4. ASSUME IsFile(i) PROVE Real(i) \in work.tree
  <2>1. CASE IsLink(i)
    <3>1. \E j \in work.tree : File(j).path = File(i).to
      BY <1>4, <2>1 DEF Unsafe, Resolves, Within, IsFile, IsLink
    <3>2. QED  BY <2>1, <3>1 DEF Real
  <2>2. CASE ~IsLink(i)
    BY <2>2 DEF Real
  <2>3. QED  BY <2>1, <2>2
<1>5. ClearDocs(<<>>)
  BY DEF ClearDocs
<1> QED BY <1>2, <1>3, <1>4, <1>5 DEF Docs

(* R7.4, R7.6: a commit of clear files whose root is not rendered is       *)
(* published with exactly one key for each of its config files, with that  *)
(* file's content.                                                         *)
THEOREM RendersExactly ==
  ASSUME ClearTrees, ~Root
  PROVE  Spec => []RenderExact
<1>1. ASSUME RenderInv PROVE RenderExact
  <2> DEFINE config == {i \in work.tree : IsConfig(i)}
  <2>0. SUFFICES ASSUME phase \in {"load", "apply"}
                 PROVE  /\ cm.rev = work.rev
                        /\ DOMAIN cm.data = {Key(i) : i \in config}
                        /\ \A i \in config : cm.data[Key(i)] = Content(i)
                        /\ \A i, j \in config : Key(i) = Key(j) => i = j
    BY DEF RenderExact
  <2>1. cm.rev = work.rev /\ cm.data = Rendered
    BY <1>1, <2>0 DEF RenderInv, PublishInv
  <2>2. Left = work.tree /\ work.tree \subseteq Nat
    BY <1>1, <2>0, WalkedType DEF Left, RenderInv, TreeInv, Walked
  <2>3. \A i \in work.tree : ~Unsafe(i) /\ (i \in out <=> Kept(i))
    BY <1>1, <2>0, <2>2 DEF RenderInv, WalkInv
  <2>4. /\ out \subseteq work.tree
        /\ \A i, j \in out : Key(i) = Key(j) => i = j
    BY <1>1, <2>0, <2>2 DEF RenderInv, WalkInv
  <2>5. \A i \in work.tree : Kept(i) <=> IsConfig(i)
    <3>1. TAKE i \in work.tree
    <3>2. IsDocs(Docs(i)) /\ ClearDocs(Docs(i))
      BY <1>1, <2>3, ClearEntry DEF RenderInv
    <3>3. IsFile(i) => (~Excluded(i) <=> IsConfig(i))
      BY <3>2, ClearParsed
    <3>4. QED  BY <3>3 DEF Kept, IsConfig
  <2>6. \A i \in out : Key(i) \in DOMAIN Rendered /\ Rendered[Key(i)] = Content(i)
    <3>1. TAKE i \in out
    <3>2. {j \in out : Key(j) = Key(i)} = {i}
      BY <2>4
    <3>3. Max({j \in out : Key(j) = Key(i)}) = i
      BY <2>2, <2>4, <3>2, MaxOfOne
    <3>4. QED  BY <3>3 DEF Rendered
  <2>7. DOMAIN Rendered = {Key(i) : i \in out}
    BY DEF Rendered
  <2>8. config = out
    BY <2>3, <2>4, <2>5
  <2> HIDE DEF config
  <2>9. QED  BY <2>1, <2>4, <2>6, <2>7, <2>8
<1> QED BY RenderInvariance, <1>1, PTL

------------------------------------------------------------------------------
(* Data that has exactly the files the renderer keeps: there is only one   *)
(* such ConfigMap for a commit, if only the commit is walked.              *)
KeptFiles == {i \in work.tree : Kept(i)}

Exactly(data) ==
  /\ data = [k \in {Key(i) : i \in KeptFiles} |-> data[k]]
  /\ \A i \in KeptFiles : data[Key(i)] = Content(i)

(* A revision has one tree, and the ConfigMap is not ahead of the reconcile. *)
RevInv ==
  /\ head.rev \in Nat /\ head.rev # 0 /\ work.rev \in Nat /\ cm.rev \in Nat
  /\ cm.rev <= work.rev /\ work.rev <= head.rev
  /\ work.rev = head.rev => work.tree = head.tree
  /\ cm.rev # 0 /\ cm.rev = work.rev => Exactly(cm.data)

LEMMA ExactlyOne ==
  ASSUME NEW d, NEW e, Exactly(d), Exactly(e)
  PROVE  d = e
<1>1. \A k \in {Key(i) : i \in KeptFiles} : d[k] = e[k]
  BY DEF Exactly
<1> QED BY <1>1 DEF Exactly

LEMMA SameTree ==
  ASSUME work'.tree = work.tree, GitDir \notin work.tree, NEW data, Exactly(data)
  PROVE  Exactly(data)'
<1>1. \A i : Key(i)' = Key(i) /\ (Kept(i)' <=> Kept(i))
  BY DEF Kept, Excluded, Docs, Key, Real, IsFile, IsLink, File, Entry
<1>2. ASSUME NEW i \in work.tree PROVE Content(i)' = Content(i)
  <2>1. i # GitDir
    OBVIOUS
  <2>2. \A j : File(j)' = File(j)
    BY DEF File, Entry
  <2>3. Real(i)' = Real(i)
    BY <2>2 DEF Real, IsLink
  <2>4. QED  BY <2>1, <2>2, <2>3 DEF Content
<1>3. KeptFiles' = KeptFiles /\ KeptFiles \subseteq work.tree
  BY <1>1 DEF KeptFiles
<1>4. {Key(i) : i \in KeptFiles}' = {Key(i) : i \in KeptFiles}
  BY <1>1, <1>3
<1> QED BY <1>1, <1>2, <1>3, <1>4 DEF Exactly

LEMMA RenderedExactly ==
  ASSUME RenderInv, phase = "publish", ~Root
  PROVE  Exactly(Rendered)
<1>1. Left = work.tree /\ work.tree \subseteq Nat
  BY WalkedType DEF Left, RenderInv, TreeInv, Walked
<1>2. /\ out = KeptFiles
      /\ \A i, j \in out : Key(i) = Key(j) => i = j
  BY <1>1 DEF RenderInv, WalkInv, KeptFiles
<1>3. ASSUME NEW i \in out PROVE Rendered[Key(i)] = Content(i)
  <2>1. {j \in out : Key(j) = Key(i)} = {i}
    BY <1>2
  <2>2. i \in Nat
    BY <1>1, <1>2 DEF KeptFiles
  <2>3. Max({j \in out : Key(j) = Key(i)}) = i
    BY <2>1, <2>2, MaxOfOne
  <2>4. QED  BY <2>3 DEF Rendered
<1>4. Rendered = [k \in {Key(i) : i \in out} |-> Rendered[k]]
  BY DEF Rendered
<1> QED BY <1>2, <1>3, <1>4 DEF Exactly

LEMMA RevStep ==
  ASSUME ~Root, RenderInv, RevInv, [Next]_vars
  PROVE  RevInv'
<1>0. GitDir \notin work.tree
  BY TreeAssumption DEF RenderInv, TreeInv, GitDir
<1>1. CASE Push
  <2>1. UNCHANGED <<work, cm>> /\ head'.rev = head.rev + 1
    BY <1>1 DEF Push
  <2>2. cm.rev # 0 /\ cm.rev = work.rev => Exactly(cm.data)'
    BY <1>0, <2>1, SameTree DEF RevInv
  <2>3. work.rev # head'.rev
    BY <2>1 DEF RevInv
  <2>4. QED  BY <2>1, <2>2, <2>3 DEF RevInv
<1>2. CASE Fetch
  <2>1. UNCHANGED <<head, cm>> /\ work'.rev = head.rev /\ work'.tree = head.tree
    BY <1>2 DEF Fetch
  <2>2. cm.rev = head.rev => work.rev = head.rev
    BY DEF RevInv
  <2>3. cm.rev = head.rev => Exactly(cm.data)'
    BY <1>0, <2>1, <2>2, SameTree DEF RevInv
  <2>4. QED  BY <2>1, <2>3 DEF RevInv
<1>3. CASE Publish
  <2>1. /\ phase = "publish" /\ UNCHANGED <<head, work>>
        /\ cm'.rev = work.rev /\ cm'.data = Rendered
    BY <1>3 DEF Publish
  <2>2. PICK d : d = Rendered
    OBVIOUS
  <2>3. Exactly(d)'
    BY <1>0, <2>1, <2>2, RenderedExactly, SameTree
  <2>4. QED  BY <2>1, <2>2, <2>3 DEF RevInv
<1>4. CASE UNCHANGED <<head, work, cm>>
  <2>1. cm.rev # 0 /\ cm.rev = work.rev => Exactly(cm.data)'
    BY <1>0, <1>4, SameTree DEF RevInv
  <2>2. QED  BY <1>4, <2>1 DEF RevInv
<1> QED BY <1>1, <1>2, <1>3, <1>4
  DEF Next, RejectLink, Skip, RejectKey, Include, Oversize, Render, Load, Guard, Apply, Prune,
      Interrupt, vars

(* T9: unless the repository's root is rendered, a commit is always        *)
(* published as the same data, whichever clone the fetch gets.             *)
THEOREM RendersDeterministically ==
  ASSUME ~Root
  PROVE  Spec => Deterministic
<1>1. Init => RevInv
  BY DEF Init, RevInv
<1>2. RenderInv /\ RevInv /\ [Next]_vars => RevInv'
  BY RevStep
<1>3. RenderInv /\ RevInv /\ [Next]_vars =>
        [cm.rev # 0 /\ cm'.rev = cm.rev => cm'.data = cm.data]_vars
  <2>1. SUFFICES ASSUME RenderInv, RevInv, [Next]_vars, cm.rev # 0, cm'.rev = cm.rev
                 PROVE  cm'.data = cm.data
    OBVIOUS
  <2>2. CASE Publish
    <3>1. phase = "publish" /\ cm'.rev = work.rev /\ cm'.data = Rendered
      BY <2>2 DEF Publish
    <3>2. Exactly(cm.data) /\ Exactly(Rendered)
      BY <2>1, <3>1, RenderedExactly DEF RevInv
    <3>3. QED  BY <3>1, <3>2, ExactlyOne
  <2>3. CASE ~Publish
    BY <2>1, <2>3
    DEF Next, Push, Fetch, RejectLink, Skip, RejectKey, Include, Oversize, Render, Load, Guard, Apply,
        Prune, Interrupt, vars
  <2>4. QED  BY <2>2, <2>3
<1> QED BY RenderInvariance, <1>1, <1>2, <1>3, PTL DEF Spec, Deterministic

------------------------------------------------------------------------------
(* The loader's walk and the apply: what has been loaded are the objects   *)
(* of the entries left behind; nothing is applied unless all have passed   *)
(* the guard; what has been applied is there.                              *)
Parsed(i) == IF File(i).ext /\ IsFile(i) THEN ParseFile(Docs(i)) ELSE {}

LoadedFrom(entries) ==
  /\ \A p \in objs : p = <<p[1], p[2]>> /\ p[1] \in entries /\ p[2] \in Parsed(p[1])
  /\ \A i \in entries : \A n \in Parsed(i) : <<i, n>> \in objs

LoadInv ==
  /\ phase \in {"collect", "publish"} => objs = {}
  /\ phase = "load" => /\ todo \subseteq Walked(work.tree)
                       /\ LoadedFrom(Walked(work.tree) \ todo)
  /\ phase = "apply" => /\ todo \subseteq objs
                        /\ LoadedFrom(Walked(work.tree))

GuardInv == phase = "apply" => \A p \in objs : Check(Loaded(p))

AppliedInv ==
  /\ es = [x \in Names |-> es[x]]
  /\ phase = "apply" => \A p \in objs \ todo : es[Loaded(p).name] # None

ApplyInv == LoadInv /\ GuardInv /\ AppliedInv /\ PrunedToTree

LEMMA SameDirectory ==
  ASSUME UNCHANGED work
  PROVE  /\ \A i : Parsed(i)' = Parsed(i)
         /\ \A i : ObjectsIn(i)' = ObjectsIn(i)
         /\ \A p : Loaded(p)' = Loaded(p)
BY SameWork DEF Parsed, ObjectsIn, Loaded, File, Entry

(* The objects of a clear file that is no unsafe link.                     *)
LEMMA ObjectsParsed ==
  ASSUME ClearTrees, TreeInv, NEW i \in work.tree, ~Unsafe(i)
  PROVE  ObjectsIn(i) = {Docs(i)[n] : n \in Parsed(i)}
BY ClearEntry, ClearParsed DEF Parsed

(* Once everything is loaded, the objects are those of the commit.         *)
LEMMA LoadedAll ==
  ASSUME ClearTrees, TreeInv, \A i \in Walked(work.tree) : ~Unsafe(i), LoadedFrom(Walked(work.tree))
  PROVE  {Loaded(p) : p \in objs} = UNION {ObjectsIn(i) : i \in work.tree}
<1>1. Parsed(GitDir) = {}
  BY DEF Parsed, File
<1>2. ASSUME NEW p \in objs
      PROVE  \E i \in work.tree : Loaded(p) \in ObjectsIn(i)
  <2>1. p[1] \in Walked(work.tree) /\ p[2] \in Parsed(p[1])
    BY DEF LoadedFrom
  <2>2. p[1] \in work.tree
    BY <1>1, <2>1 DEF Walked
  <2>3. ~Unsafe(p[1])
    BY <2>1
  <2>4. QED  BY <2>1, <2>2, <2>3, ObjectsParsed DEF Loaded
<1>3. ASSUME NEW i \in work.tree, NEW d \in ObjectsIn(i)
      PROVE  \E p \in objs : d = Loaded(p)
  <2>1. i \in Walked(work.tree)
    BY DEF Walked
  <2>2. PICK n \in Parsed(i) : d = Docs(i)[n]
    BY <2>1, ObjectsParsed
  <2>3. <<i, n>> \in objs
    BY <2>1 DEF LoadedFrom
  <2>4. QED  BY <2>2, <2>3 DEF Loaded
<1> QED BY <1>2, <1>3

(* A loaded object that has passed the guard has a name, one of Names.     *)
LEMMA CheckedName ==
  ASSUME TreeInv, \A i \in Walked(work.tree) : ~Unsafe(i), LoadedFrom(Walked(work.tree)),
         NEW p \in objs, Check(Loaded(p))
  PROVE  Loaded(p).name \in Names /\ Loaded(p) # None
<1>1. p[1] \in Walked(work.tree) /\ p[2] \in Parsed(p[1])
  BY DEF LoadedFrom
<1>2. PICK i \in Walked(work.tree) : p[1] = i
  BY <1>1
<1> DEFINE n == p[2]
<1>3. IsDocs(Docs(i))
  BY DocsType DEF TreeInv
<1>4. n \in DOMAIN Docs(i) /\ Docs(i)[n].class = "object"
  BY <1>1, <1>2, <1>3, ParsedDocs DEF Parsed
<1>5. Loaded(p) = Docs(i)[n]
  BY <1>2 DEF Loaded
<1> QED BY <1>3, <1>4, <1>5 DEF IsDocs, Check

LEMMA ApplyInit == Init => ApplyInv
BY DEF Init, ApplyInv, LoadInv, GuardInv, AppliedInv, PrunedToTree

LEMMA AllSafe ==
  ASSUME RenderInv, phase \in {"load", "apply"}
  PROVE  TreeInv /\ \A i \in Walked(work.tree) : ~Unsafe(i)
BY DEF RenderInv, WalkInv, Left

LEMMA ApplyStep ==
  ASSUME ClearTrees, RenderInv, ApplyInv, [Next]_vars
  PROVE  ApplyInv'
<1> USE DEF ApplyInv, EndWith, Goto
<1>1. CASE Push \/ UNCHANGED vars
  <2>1. UNCHANGED <<work, phase, todo, objs, es, reason>>
    BY <1>1 DEF Push, vars
  <2>2. LoadInv' /\ GuardInv' /\ AppliedInv'
    BY <2>1, SameDirectory, ZenonT(40) DEF LoadInv, GuardInv, AppliedInv, LoadedFrom, Check, HasGenerator,
                                CollectStoreRefs
  <2>3. PrunedToTree'
    BY <2>1, SameDirectory DEF PrunedToTree
  <2>4. QED  BY <2>2, <2>3
<1>2. CASE Fetch
  BY <1>2 DEF Fetch, LoadInv, GuardInv, AppliedInv, PrunedToTree
<1>3. CASE RejectLink \/ RejectKey \/ Oversize \/ Interrupt
  BY <1>3 DEF RejectLink, RejectKey, Oversize, Interrupt, LoadInv, GuardInv, AppliedInv,
              PrunedToTree
<1>4. CASE Skip \/ Include \/ Render
  BY <1>4 DEF Skip, Include, Render, Walk, LoadInv, GuardInv, AppliedInv, PrunedToTree
<1>5. CASE Publish
  BY <1>5 DEF Publish, LoadInv, LoadedFrom, GuardInv, AppliedInv, PrunedToTree
<1>6. CASE Load
  <2>1. PICK i \in todo : /\ phase = "load" /\ todo' = todo \ {i}
                          /\ objs' = objs \cup ({i} \X Parsed(i))
                          /\ UNCHANGED <<phase, reason, work, es>>
    BY <1>6 DEF Load, Walk, Parsed
  <2>2. LoadInv'
    <3>1. Walked(work.tree) \ todo' = (Walked(work.tree) \ todo) \cup {i}
      BY <2>1 DEF LoadInv
    <3>2. LoadedFrom(Walked(work.tree) \ todo)'
      <4>1. ASSUME NEW p \in objs'
            PROVE  /\ p = <<p[1], p[2]>> /\ p[1] \in Walked(work.tree) \ todo'
                   /\ p[2] \in Parsed(p[1])
        BY <2>1, <3>1 DEF LoadInv, LoadedFrom
      <4>2. ASSUME NEW j \in Walked(work.tree) \ todo', NEW n \in Parsed(j)
            PROVE  <<j, n>> \in objs'
        BY <2>1, <3>1 DEF LoadInv, LoadedFrom
      <4>3. QED  BY <2>1, <4>1, <4>2, SameDirectory DEF LoadedFrom
    <3>3. QED  BY <2>1, <3>2 DEF LoadInv
  <2>3. QED  BY <2>1, <2>2 DEF GuardInv, AppliedInv, PrunedToTree
<1>7. CASE Guard
  <2>1. /\ phase = "load" /\ todo = {} /\ UNCHANGED <<work, objs, es>>
        /\ \/ phase' = "apply" /\ todo' = objs /\ \A p \in objs : Check(Loaded(p))
           \/ phase' = "idle" /\ reason' = "Guard"
    BY <1>7 DEF Guard
  <2>2. LoadInv'
    BY <2>1, SameDirectory DEF LoadInv, LoadedFrom
  <2>3. GuardInv'
    BY <2>1, SameDirectory DEF GuardInv, Check, HasGenerator, CollectStoreRefs
  <2>4. QED  BY <2>1, <2>2, <2>3 DEF AppliedInv, PrunedToTree
<1>8. CASE Apply
  <2>1. PICK p \in todo : /\ phase = "apply" /\ todo' = todo \ {p}
                          /\ es' = [es EXCEPT ![Loaded(p).name] = Loaded(p)]
                          /\ UNCHANGED <<phase, reason, work, objs>>
    BY <1>8 DEF Apply, Walk
  <2>2. LoadInv' /\ GuardInv'
    BY <2>1, SameDirectory DEF LoadInv, LoadedFrom, GuardInv, Check, HasGenerator,
                                CollectStoreRefs
  <2>3. p \in objs /\ Loaded(p).name \in Names /\ Loaded(p) # None
    BY <2>1, AllSafe, CheckedName DEF LoadInv, GuardInv
  <2>4. AppliedInv'
    <3>1. es' = [x \in Names |-> es'[x]]
      BY <2>1 DEF AppliedInv
    <3>2. \A q \in objs : Loaded(q).name \in Names
      BY <2>1, AllSafe, CheckedName DEF LoadInv, GuardInv
    <3>3. ASSUME NEW q \in objs \ todo' PROVE es'[Loaded(q).name] # None
      BY <2>1, <2>3, <3>2 DEF AppliedInv
    <3>4. QED  BY <2>1, <3>1, <3>3, SameDirectory DEF AppliedInv
  <2>5. QED  BY <2>1, <2>2, <2>4 DEF PrunedToTree
<1>9. CASE Prune
  <2> DEFINE applied == {Loaded(p).name : p \in objs}
  <2>1. /\ phase = "apply" /\ todo = {} /\ phase' = "idle" /\ UNCHANGED work
        /\ es' = [x \in Names |-> IF x \in applied THEN es[x] ELSE None]
    BY <1>9 DEF Prune
  <2>2. TreeInv /\ (\A i \in Walked(work.tree) : ~Unsafe(i)) /\ LoadedFrom(Walked(work.tree))
    BY <2>1, AllSafe DEF LoadInv
  <2>3. \A p \in objs : Loaded(p).name \in Names /\ es[Loaded(p).name] # None
    BY <2>1, <2>2, CheckedName DEF GuardInv, AppliedInv
  <2>4. {x \in Names : es'[x] # None} = applied
    BY <2>1, <2>3
  <2>5. applied = {d.name : d \in {Loaded(p) : p \in objs}}
    OBVIOUS
  <2>6. applied = {d.name : d \in UNION {ObjectsIn(i) : i \in work.tree}}
    BY <2>2, <2>5, LoadedAll
  <2>7. PrunedToTree'
    <3>1. {ObjectsIn(i) : i \in work.tree}' = {ObjectsIn(i) : i \in work.tree}
      BY <2>1, SameDirectory
    <3>2. {x \in Names : es'[x] # None} =
            {d.name : d \in UNION ({ObjectsIn(i) : i \in work.tree}')}
      BY <2>4, <2>6, <3>1
    <3>3. QED  BY <3>2 DEF PrunedToTree
  <2>8. AppliedInv'
    BY <2>1 DEF AppliedInv
  <2>9. QED  BY <2>1, <2>7, <2>8 DEF LoadInv, GuardInv
<1> QED BY <1>1, <1>2, <1>3, <1>4, <1>5, <1>6, <1>7, <1>8, <1>9 DEF Next

(* The inductive invariant of load, guard, apply and prune.                *)
THEOREM ApplyInvariance ==
  ASSUME ClearTrees
  PROVE  Spec => []ApplyInv
<1>1. RenderInv /\ ApplyInv /\ [Next]_vars => ApplyInv'
  BY ApplyStep
<1> QED BY RenderInvariance, ApplyInit, <1>1, PTL DEF Spec

(* R8.8: for commits of clear files, after a successful reconcile exactly  *)
(* the commit's objects are there, whatever interrupted reconciles of      *)
(* other commits had applied.                                              *)
THEOREM PrunesToTree ==
  ASSUME ClearTrees
  PROVE  Spec => []PrunedToTree
<1>1. ApplyInv => PrunedToTree
  BY DEF ApplyInv
<1> QED BY ApplyInvariance, <1>1, PTL

(* R-AUTH.4, R-AUTH.5: for commits of clear files, nothing is applied or   *)
(* pruned unless every object of the commit has passed the guard.          *)
THEOREM AppliesAllOrNothing ==
  ASSUME ClearTrees
  PROVE  Spec => AllOrNothing
<1> DEFINE Allowed(d) == /\ d.kind = "ExternalSecret" /\ d.ns # "other"
                         /\ Allow = {} \/ Stores(d) \subseteq Allow
<1>1. ASSUME RenderInv, ApplyInv, [Next]_vars, es' # es
      PROVE  \A i \in work.tree : \A d \in ObjectsIn(i) : Allowed(d)
  <2>1. phase = "apply"
    BY <1>1 DEF Next, Push, Fetch, RejectLink, Skip, RejectKey, Include, Oversize, Render,
                Publish, Load, Guard, Apply, Prune, Interrupt, vars
  <2>2. {Loaded(p) : p \in objs} = UNION {ObjectsIn(i) : i \in work.tree}
    BY <1>1, <2>1, AllSafe, LoadedAll DEF ApplyInv, LoadInv
  <2>3. \A p \in objs : Check(Loaded(p))
    BY <1>1, <2>1 DEF ApplyInv, GuardInv
  <2>4. ASSUME NEW d, Check(d) PROVE Allowed(d)
    BY <2>4 DEF Check, Stores, CollectStoreRefs, HasGenerator
  <2>5. QED  BY <2>2, <2>3, <2>4
<1>2. RenderInv /\ ApplyInv /\ [Next]_vars =>
        [es' # es => \A i \in work.tree : \A d \in ObjectsIn(i) : Allowed(d)]_vars
  BY <1>1
<1> QED BY RenderInvariance, ApplyInvariance, <1>2, PTL DEF Spec, AllOrNothing

------------------------------------------------------------------------------
(* Sums over finite sets.  A sum is taken by choosing an element and going *)
(* on with the others; it is the same whichever is taken first.            *)
Chosen(s) == CHOOSE x \in s : TRUE

IsIteration(g, w, D) ==
  g = [s \in D |-> IF s = {} THEN 0 ELSE w[Chosen(s)] + g[s \ {Chosen(s)}]]

IsSum(F, w, S) ==
  /\ F \in [SUBSET S -> Nat]
  /\ F[{}] = 0
  /\ \A s \in SUBSET S : \A x \in s : F[s] = w[x] + F[s \ {x}]

(* A property of the finite sets that fails has a smallest failure.        *)
LEMMA SmallestBad ==
  ASSUME NEW S, IsFiniteSet(S), NEW B \in SUBSET SUBSET S, B # {}
  PROVE  \E s \in B : \A x \in s : s \ {x} \notin B
<1>1. \A s \in B : IsFiniteSet(s) /\ Cardinality(s) \in Nat
  BY FS_Subset, FS_CardinalityType
<1> DEFINE T == {n \in Nat : \E s \in B : Cardinality(s) = n}
<1>2. T \in SUBSET Nat /\ T # {}
  BY <1>1
<1>3. PICK n \in T : \A m \in T : n <= m
  BY <1>2, LeastNat
<1>4. PICK s \in B : Cardinality(s) = n
  BY <1>3
<1>5. ASSUME NEW x \in s, s \ {x} \in B PROVE FALSE
  <2>1. Cardinality(s \ {x}) = n - 1
    BY <1>1, <1>4, FS_RemoveElement
  <2>2. n - 1 \in T
    BY <1>1, <1>5, <2>1
  <2>3. n <= n - 1
    BY <1>3, <2>2
  <2>4. QED  BY <1>1, <1>4, <2>3
<1> QED BY <1>5

(* The iteration is well defined.                                          *)
LEMMA IterationExists ==
  ASSUME NEW S, IsFiniteSet(S), NEW w
  PROVE  \E g : IsIteration(g, w, SUBSET S)
<1>0. \A s \in SUBSET S : IsFiniteSet(s) /\ Cardinality(s) \in Nat
  BY FS_Subset, FS_CardinalityType
<1> DEFINE Upto(n) == {s \in SUBSET S : Cardinality(s) <= n}
           T == {n \in Nat : ~ \E g : IsIteration(g, w, Upto(n))}
<1>1. T = {}
  <2>1. SUFFICES ASSUME T # {} PROVE FALSE
    OBVIOUS
  <2>2. PICK n \in T : \A m \in T : n <= m
    BY <2>1, LeastNat
  <2>3. n # 0
    <3>1. \A s \in Upto(0) : s = {}
      BY <1>0, FS_EmptySet
    <3>2. IsIteration([s \in Upto(0) |-> 0], w, Upto(0))
      BY <3>1 DEF IsIteration
    <3>3. QED  BY <3>2
  <2>4. PICK g : IsIteration(g, w, Upto(n - 1))
    <3>1. n - 1 \in Nat /\ ~(n <= n - 1)
      BY <2>3
    <3>2. n - 1 \notin T
      BY <2>2, <3>1
    <3>3. QED  BY <3>1, <3>2
  <2> DEFINE h == [s \in Upto(n) |-> IF s = {} THEN 0 ELSE w[Chosen(s)] + g[s \ {Chosen(s)}]]
  <2>5. \A s \in Upto(n - 1) : s \in Upto(n) /\ h[s] = g[s]
    <3>1. TAKE s \in Upto(n - 1)
    <3>2. s \in Upto(n)
      BY <1>0, <2>2
    <3> HIDE DEF Upto
    <3>3. g[s] = IF s = {} THEN 0 ELSE w[Chosen(s)] + g[s \ {Chosen(s)}]
      BY <2>4 DEF IsIteration
    <3>4. QED  BY <3>2, <3>3
  <2>6. \A s \in Upto(n) : s # {} => s \ {Chosen(s)} \in Upto(n - 1)
    <3>1. TAKE s \in Upto(n)
    <3>2. HAVE s # {}
    <3>3. Chosen(s) \in s
      BY <3>2 DEF Chosen
    <3>4. Cardinality(s \ {Chosen(s)}) = Cardinality(s) - 1
      BY <1>0, <3>3, FS_RemoveElement
    <3>5. QED  BY <1>0, <3>4
  <2>7. IsIteration(h, w, Upto(n))
    <3>1. \A s \in Upto(n) : s # {} => h[s \ {Chosen(s)}] = g[s \ {Chosen(s)}]
      BY <2>5, <2>6
    <3> HIDE DEF Upto
    <3>2. QED  BY <3>1 DEF IsIteration
  <2>8. QED  BY <2>7
<1>2. Upto(Cardinality(S)) = SUBSET S
  BY FS_Subset
<1>3. Cardinality(S) \in Nat
  BY FS_CardinalityType
<1> QED BY <1>1, <1>2, <1>3

(* The order in which the elements are taken does not matter.              *)
LEMMA IterationIsSum ==
  ASSUME NEW S, IsFiniteSet(S), NEW w, \A x \in S : w[x] \in Nat,
         NEW g, IsIteration(g, w, SUBSET S)
  PROVE  IsSum(g, w, S)
<1>1. \A s \in SUBSET S : s # {} =>
        Chosen(s) \in s /\ g[s] = w[Chosen(s)] + g[s \ {Chosen(s)}] /\ s \ {Chosen(s)} \in SUBSET S
  BY DEF IsIteration, Chosen
<1>2. g[{}] = 0
  BY DEF IsIteration
<1>3. \A s \in SUBSET S : g[s] \in Nat
  <2> DEFINE B == {s \in SUBSET S : g[s] \notin Nat}
  <2>1. SUFFICES ASSUME B # {} PROVE FALSE
    OBVIOUS
  <2>2. PICK s \in B : \A x \in s : s \ {x} \notin B
    BY <2>1, SmallestBad
  <2>3. s # {}
    BY <1>2
  <2>4. g[s \ {Chosen(s)}] \in Nat /\ w[Chosen(s)] \in Nat
    BY <1>1, <2>2, <2>3
  <2>5. g[s] = w[Chosen(s)] + g[s \ {Chosen(s)}]
    BY <1>1, <2>3
  <2>6. g[s] \in Nat
    BY <2>4, <2>5
  <2>7. QED  BY <2>6
<1>4. \A s \in SUBSET S : \A x \in s : g[s] = w[x] + g[s \ {x}]
  <2> DEFINE B == {s \in SUBSET S : \E x \in s : g[s] # w[x] + g[s \ {x}]}
  <2>1. SUFFICES ASSUME B # {} PROVE FALSE
    OBVIOUS
  <2>2. PICK s \in B : \A x \in s : s \ {x} \notin B
    BY <2>1, SmallestBad
  <2>3. PICK x \in s : g[s] # w[x] + g[s \ {x}]
    OBVIOUS
  <2>4. PICK c \in s : g[s] = w[c] + g[s \ {c}]
    BY <1>1, <2>3
  <2>5. x # c
    BY <2>3, <2>4
  <2>6. g[s \ {c}] = w[x] + g[(s \ {c}) \ {x}]
    BY <2>2, <2>5
  <2>7. g[s \ {x}] = w[c] + g[(s \ {x}) \ {c}]
    BY <2>2, <2>5
  <2>8. (s \ {x}) \ {c} = (s \ {c}) \ {x}
    OBVIOUS
  <2>9. w[x] \in Nat /\ w[c] \in Nat /\ g[(s \ {c}) \ {x}] \in Nat
    BY <1>3
  <2>10. PICK rest \in Nat : rest = g[(s \ {c}) \ {x}]
    BY <2>9
  <2>11. g[s] = w[c] + (w[x] + rest) /\ g[s \ {x}] = w[c] + rest
    BY <2>4, <2>6, <2>7, <2>8, <2>10
  <2>12. w[c] + (w[x] + rest) = w[x] + (w[c] + rest)
    BY <2>9
  <2>13. QED  BY <2>3, <2>11, <2>12
<1> QED BY <1>2, <1>3, <1>4 DEF IsIteration, IsSum

(* Larger terms have a larger sum.                                         *)
LEMMA SumMonotone ==
  ASSUME NEW S, IsFiniteSet(S), NEW v, NEW w,
         \A x \in S : v[x] \in Nat /\ w[x] \in Nat /\ v[x] <= w[x],
         NEW F, IsSum(F, v, S), NEW G, IsSum(G, w, S)
  PROVE  F[S] <= G[S]
<1> DEFINE B == {s \in SUBSET S : ~(F[s] <= G[s])}
<1>1. SUFFICES ASSUME B # {} PROVE FALSE
  OBVIOUS
<1>2. PICK s \in B : \A x \in s : s \ {x} \notin B
  BY <1>1, SmallestBad
<1>3. s # {}
  <2>1. F[{}] = 0 /\ G[{}] = 0
    BY DEF IsSum
  <2>2. F[{}] <= G[{}]
    BY <2>1
  <2>3. QED  BY <2>2
<1>4. PICK x \in s : TRUE
  BY <1>3
<1>5. F[s] = v[x] + F[s \ {x}] /\ G[s] = w[x] + G[s \ {x}]
  BY <1>4 DEF IsSum
<1>6. /\ F[s \ {x}] \in Nat /\ G[s \ {x}] \in Nat /\ F[s \ {x}] <= G[s \ {x}]
      /\ v[x] \in Nat /\ w[x] \in Nat /\ v[x] <= w[x]
  BY <1>2, <1>4 DEF IsSum
<1>7. F[s] <= G[s]
  BY <1>5, <1>6
<1> QED BY <1>7

(* Renaming the elements does not change the sum.                          *)
IsRenaming(h, S, T, v, w) ==
  /\ T = {h[x] : x \in S}
  /\ \A x, y \in S : h[x] = h[y] => x = y
  /\ \A x \in S : v[x] = w[h[x]]

LEMMA SumRenamed ==
  ASSUME NEW S, IsFiniteSet(S), NEW h, NEW T, NEW v, NEW w, IsRenaming(h, S, T, v, w),
         NEW F, IsSum(F, v, S), NEW G, IsSum(G, w, T)
  PROVE  F[S] = G[T]
<1> USE DEF IsRenaming
<1> DEFINE Image(s) == {h[x] : x \in s}
           B == {s \in SUBSET S : F[s] # G[Image(s)]}
<1>1. SUFFICES ASSUME B # {} PROVE FALSE
  OBVIOUS
<1>2. PICK s \in B : \A x \in s : s \ {x} \notin B
  BY <1>1, SmallestBad
<1>3. s # {}
  <2>1. Image({}) = {}
    OBVIOUS
  <2>2. F[{}] = G[Image({})]
    BY <2>1 DEF IsSum
  <2> HIDE DEF Image
  <2>3. QED  BY <2>2
<1>4. PICK x \in s : TRUE
  BY <1>3
<1>5. Image(s \ {x}) = Image(s) \ {h[x]} /\ Image(s) \in SUBSET T /\ h[x] \in Image(s)
  OBVIOUS
<1>6. F[s] = v[x] + F[s \ {x}]
  BY DEF IsSum
<1>7. G[Image(s)] = w[h[x]] + G[Image(s) \ {h[x]}]
  BY <1>5 DEF IsSum
<1>8. F[s \ {x}] = G[Image(s \ {x})]
  BY <1>2
<1> QED BY <1>5, <1>6, <1>7, <1>8

------------------------------------------------------------------------------
(* The limits.  The three sums of the renderer and of LimitsExact: the raw *)
(* bytes and the encoded sizes of the candidates, and the footprint of the *)
(* data by its keys.                                                       *)
EntrySize(i) == KeyLen(Key(i)) + Size(Content(i))
KeySize(data, k) ==
  KeyLen(k) + (IF data[k].text THEN data[k].size ELSE 4 * ((data[k].size + 2) \div 3))

LEMMA RawTotalSum ==
  ASSUME IsFiniteSet(out), \A i \in out : Content(i).size \in Nat
  PROVE  \E F : IsSum(F, [i \in out |-> Content(i).size], out) /\ RawTotal = F[out]
<1> DEFINE w == [i \in out |-> Content(i).size]
           Is(g) == g = [s \in SUBSET out |-> IF s = {} THEN 0
                           ELSE Content(Chosen(s)).size + g[s \ {Chosen(s)}]]
           f == CHOOSE g : Is(g)
<1>1. \A s \in SUBSET out : s # {} => w[Chosen(s)] = Content(Chosen(s)).size
  BY DEF Chosen
<1>2. \A g : IsIteration(g, w, SUBSET out) <=> Is(g)
  BY <1>1 DEF IsIteration
<1>3. Is(f)
  BY <1>2, IterationExists
<1>4. RawTotal = f[out]
  BY DEF RawTotal, MapThenSumSet, MapThenFoldSet, Chosen
<1>5. IsSum(f, w, out)
  BY <1>2, <1>3, IterationIsSum
<1> QED BY <1>4, <1>5

LEMMA TotalSum ==
  ASSUME IsFiniteSet(out), \A i \in out : EntrySize(i) \in Nat
  PROVE  \E F : IsSum(F, [i \in out |-> EntrySize(i)], out) /\ Total = F[out]
<1> DEFINE w == [i \in out |-> EntrySize(i)]
           Is(g) == g = [s \in SUBSET out |-> IF s = {} THEN 0
                           ELSE EntrySize(Chosen(s)) + g[s \ {Chosen(s)}]]
           f == CHOOSE g : Is(g)
<1>1. \A s \in SUBSET out : s # {} => w[Chosen(s)] = EntrySize(Chosen(s))
  BY DEF Chosen
<1>2. \A g : IsIteration(g, w, SUBSET out) <=> Is(g)
  BY <1>1 DEF IsIteration
<1>3. Is(f)
  BY <1>2, IterationExists
<1>4. Total = f[out]
  BY DEF Total, EntrySize, MapThenSumSet, MapThenFoldSet, Chosen
<1>5. IsSum(f, w, out)
  BY <1>2, <1>3, IterationIsSum
<1> QED BY <1>4, <1>5

LEMMA FootprintSum ==
  ASSUME NEW data, IsFiniteSet(DOMAIN data), \A k \in DOMAIN data : KeySize(data, k) \in Nat
  PROVE  \E F : /\ IsSum(F, [k \in DOMAIN data |-> KeySize(data, k)], DOMAIN data)
                /\ Footprint(data) = F[DOMAIN data]
<1> DEFINE w == [k \in DOMAIN data |-> KeySize(data, k)]
           Is(g) == g = [s \in SUBSET DOMAIN data |-> IF s = {} THEN 0
                           ELSE KeySize(data, Chosen(s)) + g[s \ {Chosen(s)}]]
           f == CHOOSE g : Is(g)
<1>1. \A s \in SUBSET DOMAIN data : s # {} => w[Chosen(s)] = KeySize(data, Chosen(s))
  BY DEF Chosen
<1>2. \A g : IsIteration(g, w, SUBSET DOMAIN data) <=> Is(g)
  BY <1>1 DEF IsIteration
<1>3. Is(f)
  BY <1>2, IterationExists
<1>4. Footprint(data) = f[DOMAIN data]
  BY DEF Footprint, KeySize, MapThenSumSet, MapThenFoldSet, Chosen
<1>5. IsSum(f, w, DOMAIN data)
  BY <1>2, <1>3, IterationIsSum
<1> QED BY <1>4, <1>5

(* Base64 never shrinks content.                                           *)
LEMMA SizeType ==
  ASSUME NEW c, c.size \in Nat
  PROVE  Size(c) \in Nat /\ c.size <= Size(c)
BY DEF Size, EncodedLen

(* The candidates of the renderer: finitely many, with sizes and keys.     *)
LEMMA CandidateTypes ==
  ASSUME RenderInv, phase # "idle"
  PROVE  /\ IsFiniteSet(out) /\ out \subseteq Nat
         /\ \A i, j \in out : Key(i) = Key(j) => i = j
         /\ \A i \in out : Content(i).size \in Nat /\ KeyLen(Key(i)) \in Nat
<1>0. /\ out \subseteq Walked(work.tree) /\ work.tree \subseteq DOMAIN Catalog
      /\ \A i \in out : ~Unsafe(i) /\ IsFile(i)
      /\ \A i, j \in out : Key(i) = Key(j) => i = j
  BY DEF RenderInv, TreeInv, WalkInv, Left, Kept
<1>1. IsFiniteSet(out)
  <2>1. IsFiniteSet(0 .. Len(Catalog))
    BY TreeAssumption, FS_Interval
  <2>2. out \in SUBSET (0 .. Len(Catalog))
    BY <1>0, TreeAssumption DEF Walked, GitDir
  <2>3. QED  BY <2>1, <2>2, FS_Subset
<1>2. out \subseteq Nat
  BY <1>0, WalkedType
<1>3. ASSUME NEW i \in out PROVE Content(i).size \in Nat
  <2>1. Real(i) \in DOMAIN Catalog \cup {GitDir}
    <3>1. CASE IsLink(i)
      <4>1. i \in work.tree
        BY <1>0, <3>1 DEF IsLink, File, Walked
      <4>2. \E j \in work.tree : File(j).path = File(i).to
        BY <1>0, <3>1, <4>1 DEF Unsafe, Resolves, Within, IsFile, IsLink
      <4>3. QED  BY <1>0, <3>1, <4>2 DEF Real
    <3>2. CASE ~IsLink(i)
      BY <1>0, <3>2 DEF Real, Walked
    <3>3. QED  BY <3>1, <3>2
  <2>2. File(Real(i)).size \in Nat
    BY <2>1, TreeAssumption DEF File
  <2>3. QED  BY <2>2 DEF Content
<1>4. ASSUME NEW i \in out PROVE KeyLen(Key(i)) \in Nat
  <2>1. i \in DOMAIN Catalog \cup {GitDir}
    BY <1>0 DEF Walked
  <2>2. Len(Key(i)) \in Nat \ {0}
    BY <2>1, KeyAssumption
  <2>3. QED  BY <2>2 DEF KeyLen
<1> QED BY <1>0, <1>1, <1>2, <1>3, <1>4

(* What Render computes from the candidates is what the ConfigMap will     *)
(* take, and no less than the raw bytes.                                   *)
LEMMA TotalIsFootprint ==
  ASSUME RenderInv, phase # "idle"
  PROVE  /\ Footprint(Rendered) = Total /\ Total \in Nat
         /\ RawTotal \in Nat /\ RawTotal <= Total
<1>0. /\ IsFiniteSet(out) /\ out \subseteq Nat
      /\ \A i, j \in out : Key(i) = Key(j) => i = j
      /\ \A i \in out : Content(i).size \in Nat /\ KeyLen(Key(i)) \in Nat
  BY CandidateTypes
<1>1. \A i \in out : EntrySize(i) \in Nat /\ Content(i).size <= EntrySize(i)
  <2>1. TAKE i \in out
  <2>2. Size(Content(i)) \in Nat /\ Content(i).size <= Size(Content(i))
    BY <1>0, SizeType
  <2>3. QED  BY <1>0, <2>2 DEF EntrySize
<1> DEFINE raw == [i \in out |-> Content(i).size]
           enc == [i \in out |-> EntrySize(i)]
<1>2. PICK R : IsSum(R, raw, out) /\ RawTotal = R[out]
  BY <1>0, RawTotalSum
<1>3. PICK E : IsSum(E, enc, out) /\ Total = E[out]
  BY <1>0, <1>1, TotalSum
<1>4. RawTotal \in Nat /\ Total \in Nat
  BY <1>2, <1>3 DEF IsSum
<1>5. RawTotal <= Total
  <2>1. \A i \in out : raw[i] \in Nat /\ enc[i] \in Nat /\ raw[i] <= enc[i]
    BY <1>0, <1>1
  <2> HIDE DEF raw, enc
  <2>2. R[out] <= E[out]
    BY <1>0, <1>2, <1>3, <2>1, SumMonotone
  <2>3. QED  BY <1>2, <1>3, <2>2
<1> DEFINE key == [i \in out |-> Key(i)]
<1>6. DOMAIN Rendered = {key[i] : i \in out}
  BY DEF Rendered
<1>7. \A i \in out : Rendered[Key(i)] = Content(i)
  <2>1. TAKE i \in out
  <2>2. {j \in out : Key(j) = Key(i)} = {i}
    BY <1>0
  <2>3. Max({j \in out : Key(j) = Key(i)}) = i
    BY <1>0, <2>2, MaxOfOne
  <2>4. QED  BY <2>3 DEF Rendered
<1>8. \A i \in out : KeySize(Rendered, Key(i)) = EntrySize(i)
  <2>1. TAKE i \in out
  <2>2. Rendered[Key(i)] = Content(i) /\ Content(i).size \in Nat
    BY <1>0, <1>7
  <2>3. QED  BY <2>2 DEF KeySize, EntrySize, Size, EncodedLen
<1>9. PICK G : /\ IsSum(G, [k \in DOMAIN Rendered |-> KeySize(Rendered, k)], DOMAIN Rendered)
               /\ Footprint(Rendered) = G[DOMAIN Rendered]
  <2>1. IsFiniteSet(DOMAIN Rendered)
    <3>1. key \in Surjection(out, DOMAIN Rendered)
      BY <1>6 DEF Surjection
    <3>2. QED  BY <1>0, <3>1, FS_Surjection
  <2>2. \A k \in DOMAIN Rendered : KeySize(Rendered, k) \in Nat
    BY <1>1, <1>6, <1>8
  <2>3. QED  BY <2>1, <2>2, FootprintSum
<1>10. E[out] = G[DOMAIN Rendered]
  <2> DEFINE size == [k \in DOMAIN Rendered |-> KeySize(Rendered, k)]
  <2>1. \A i \in out : enc[i] = size[key[i]]
    BY <1>6, <1>8
  <2>2. \A i, j \in out : key[i] = key[j] => i = j
    BY <1>0
  <2>3. IsSum(G, size, DOMAIN Rendered) /\ IsSum(E, enc, out)
    BY <1>3, <1>9
  <2> HIDE DEF enc, size, key
  <2>4. IsRenaming(key, out, DOMAIN Rendered, enc, size)
    BY <1>6, <2>1, <2>2 DEF IsRenaming
  <2>5. QED  BY <1>0, <2>3, <2>4, SumRenamed
<1> QED BY <1>3, <1>4, <1>5, <1>9, <1>10

(* What is published, is about to be, or was refused.                      *)
Room == HardLimit - Margin

LimitsInv ==
  /\ Footprint(cm.data) <= Room
  /\ phase = "publish" => Footprint(Rendered) <= Room
  /\ phase = "idle" /\ reason = "Oversize" => Footprint(Rendered) > Room

LEMMA LimitsInit ==
  ASSUME Margin < HardLimit, Init
  PROVE  LimitsInv
<1>1. cm.data = <<>>
  BY DEF Init
<1>2. DOMAIN cm.data = {}
  BY <1>1
<1>3. IsFiniteSet(DOMAIN cm.data)
  BY <1>2, FS_EmptySet
<1>4. PICK F : /\ IsSum(F, [k \in DOMAIN cm.data |-> KeySize(cm.data, k)], DOMAIN cm.data)
               /\ Footprint(cm.data) = F[DOMAIN cm.data]
  BY <1>2, <1>3, FootprintSum
<1>5. Footprint(cm.data) = 0
  BY <1>2, <1>4 DEF IsSum
<1> QED BY <1>5, TreeAssumption DEF Init, LimitsInv, Room

LEMMA LimitsStep ==
  ASSUME Margin < HardLimit, RenderInv, LimitsInv, [Next]_vars
  PROVE  LimitsInv'
<1> USE DEF EndWith, Goto
<1>0. Room \in Nat /\ Room <= HardLimit /\ HardLimit \in Nat /\ EffectiveLimit = Room
  BY TreeAssumption DEF Room, EffectiveLimit
<1>1. CASE Oversize
  <2>1. /\ Footprint(Rendered) = Total /\ Total \in Nat
        /\ RawTotal \in Nat /\ RawTotal <= Total
    BY <1>1, TotalIsFootprint DEF Oversize
  <2>2. RawTotal > HardLimit \/ Total > Room
    BY <1>0, <1>1 DEF Oversize
  <2>3. Footprint(Rendered) > Room
    BY <1>0, <2>1, <2>2
  <2>4. UNCHANGED <<work, out, cm>> /\ phase' = "idle"
    BY <1>1 DEF Oversize
  <2>5. QED  BY <2>3, <2>4, SameRendered DEF LimitsInv, Room
<1>2. CASE Render
  <2>1. Footprint(Rendered) = Total /\ Total \in Nat
    BY <1>2, TotalIsFootprint DEF Render
  <2>2. ~(Total > Room)
    BY <1>0, <1>2 DEF Render
  <2>3. Footprint(Rendered) <= Room
    BY <1>0, <2>1, <2>2
  <2>4. UNCHANGED <<work, out, cm>> /\ phase' = "publish"
    BY <1>2 DEF Render
  <2>5. QED  BY <2>3, <2>4, SameRendered DEF LimitsInv, Room
<1>3. CASE Publish
  BY <1>3 DEF Publish, LimitsInv, Room
<1>4. CASE Fetch \/ Skip \/ Include
  BY <1>4 DEF Fetch, Skip, Include, Walk, LimitsInv, Room
<1>5. CASE RejectLink \/ RejectKey \/ Interrupt \/ Guard \/ Prune
  BY <1>5 DEF RejectLink, RejectKey, Interrupt, Guard, Prune, LimitsInv, Room
<1>6. CASE Load \/ Apply
  BY <1>6 DEF Load, Apply, Walk, LimitsInv, Room
<1>7. CASE Push \/ UNCHANGED vars
  <2>1. UNCHANGED <<work, out, cm, phase, reason>>
    BY <1>7 DEF Push, vars
  <2>2. QED  BY <2>1, SameRendered DEF LimitsInv, Room
<1> QED BY <1>1, <1>2, <1>3, <1>4, <1>5, <1>6, <1>7 DEF Next

(* R7.7: with a margin below the hard limit, what is published leaves the  *)
(* margin, with binary content as it is encoded, and what is refused as    *)
(* too large would not.                                                    *)
THEOREM LimitsAreExact ==
  ASSUME Margin < HardLimit
  PROVE  Spec => []LimitsExact
<1>1. Init => LimitsInv
  BY LimitsInit
<1>2. RenderInv /\ LimitsInv /\ [Next]_vars => LimitsInv'
  BY LimitsStep
<1>3. LimitsInv => LimitsExact
  BY DEF LimitsInv, LimitsExact, Room
<1> QED BY RenderInvariance, <1>1, <1>2, <1>3, PTL DEF Spec
==============================================================================
