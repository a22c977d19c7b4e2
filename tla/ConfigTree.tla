------------------------------ MODULE ConfigTree ------------------------------
(***************************************************************************)
(* What one commit's directory becomes: internal/render turns its files    *)
(* into ConfigMap data, internal/manifest loads the Kubernetes objects in  *)
(* it and guards them, and applyManifests applies and prunes them.  Both   *)
(* walk the same directory and decide for themselves, with two different   *)
(* YAML decoders, what each file is.                                       *)
(*                                                                         *)
(* A file name is the sequence of its parts between "__", a path the       *)
(* sequence of its names, so that replacing "/" by "__" flattens a path.   *)
(* The content of a file is its identity, its size and its documents.      *)
(***************************************************************************)
EXTENDS Naturals, FiniteSets, FiniteSetsExt, Sequences, SequencesExt

CONSTANTS
  Catalog,      \* the files commits are made of, in walk order
  Trees,        \* the commits: sets of positions in the catalogue
  Root,         \* whether spec.source.path is the repository's root
  Allow,        \* the operator's secret-store allow-list
  Names,        \* names of ExternalSecrets
  HardLimit, Margin, MaxKeyLen, \* the limits of render.go
  MaxPushes,    \* bound on commits
  Clones,       \* the clones a fetch may get
  None

(* A file: its path, whether it is a regular file, a link or something     *)
(* else, where a link leads, whether its name ends in .yaml, .yml or .json,*)
(* begins with "kohen." and has only the characters of a key, whether its  *)
(* content is UTF-8, and its size.  A document is plain, null, a "list" or *)
(* anything else no mapping can be decoded from, an "object", or has type  *)
(* metadata only one decoder accepts: "odd" (a number, or an apiVersion    *)
(* that is no group and version) or "nested" (a mapping).                  *)
Entry(i) == Catalog[i]

ASSUME TreeAssumption ==
  /\ Len(Catalog) \in Nat /\ DOMAIN Catalog = 1 .. Len(Catalog)
  /\ \A i, j \in DOMAIN Catalog : Entry(i).path = Entry(j).path => i = j
  /\ \A i \in DOMAIN Catalog :
       /\ Entry(i).type \in {"file", "link", "special"} /\ Entry(i).size \in Nat
       /\ Len(Entry(i).docs) \in Nat /\ DOMAIN Entry(i).docs = 1 .. Len(Entry(i).docs)
       /\ \A n \in DOMAIN Entry(i).docs :
            /\ Entry(i).docs[n] # None
            /\ Entry(i).docs[n].class = "object" => Entry(i).docs[n].name \in Names \cup {None}
  /\ HardLimit \in Nat /\ Margin \in Nat /\ MaxKeyLen \in Nat
  /\ Trees \subseteq SUBSET DOMAIN Catalog
  /\ Root \in BOOLEAN /\ MaxPushes \in Nat

VARIABLES
  head,   \* [rev, tree]: the commit the ref names
  work,   \* [rev, tree, clone]: the checked-out commit the reconcile reads
  phase,  \* where the reconcile is
  todo,   \* entries the walk has not come to
  out,    \* candidates of the renderer
  objs,   \* loaded objects: <<file, document>>, in that order
  cm,     \* the ConfigMap: [rev, data]
  es,     \* [Names -> the ExternalSecret last applied, or None]
  reason  \* why the last reconcile ended

vars == <<head, work, phase, todo, out, objs, cm, es, reason>>

------------------------------------------------------------------------------
(* The directory that is walked.  A clone has git's own files beside the   *)
(* commit's, and their content differs from clone to clone (index times).  *)
GitDir == 0
File(i) ==
  IF i = GitDir
  THEN [path |-> <<<<".git">>, <<"index">>>>, type |-> "file", to |-> None, ext |-> FALSE,
        reserved |-> FALSE, clean |-> TRUE, text |-> FALSE, size |-> 1, docs |-> <<>>]
  ELSE Entry(i)

Walked(tree) == IF Root THEN tree \cup {GitDir} ELSE tree

Key(i) == FlattenSeq(File(i).path)
KeyLen(k) == Len(k) + 2 * (Len(k) - 1)

(* Every path has a name, and every name a part.                           *)
ASSUME KeyAssumption == \A i \in DOMAIN Catalog \cup {GitDir} : Len(Key(i)) \in Nat \ {0}

IsLink(i) == File(i).type = "link"
Outside == <<<<"..">>>>  \* where a link may lead besides a file of the tree:
SomeDir == <<<<".">>>>   \* out of it, or to one of its directories
Resolves(i) == File(i).to \in {Outside, SomeDir} \cup {File(j).path : j \in work.tree}
Within(i) == File(i).to # Outside
IsFile(i) == File(i).type = "file" \/ (IsLink(i) /\ File(i).to # SomeDir)

(* What reading entry i yields: links are followed.                        *)
Real(i) == IF IsLink(i) THEN CHOOSE j \in work.tree : File(j).path = File(i).to ELSE i
Content(i) ==
  [of |-> File(Real(i)).path, text |-> File(Real(i)).text, size |-> File(Real(i)).size,
   clone |-> IF i = GitDir THEN work.clone ELSE None]
Docs(i) == IF IsFile(i) THEN File(Real(i)).docs ELSE <<>>

------------------------------------------------------------------------------
(* The two decoders.  yaml.v3 fails on nested type metadata, which the     *)
(* Kubernetes decoder passes over; neither goes on after a failure.        *)
TypedYaml(d) == d.class \in {"object", "odd"}
FailsYaml(d) == d.class \in {"list", "nested"}
TypedKube(d) == d.class = "object"
FailsKube(d) == d.class = "list"

IsKubernetesManifest(docs) ==
  \E n \in DOMAIN docs : TypedYaml(docs[n]) /\ \A k \in 1 .. n - 1 : ~FailsYaml(docs[k])

ParseFile(docs) ==
  LET stop == {n \in DOMAIN docs : FailsKube(docs[n])}
  IN  {n \in DOMAIN docs : TypedKube(docs[n]) /\ (stop = {} \/ n < Min(stop))}

------------------------------------------------------------------------------
(* render.go.                                                              *)
Excluded(i) == File(i).reserved \/ (File(i).ext /\ IsKubernetesManifest(Docs(i)))
ValidKey(i) == File(i).clean /\ KeyLen(Key(i)) <= MaxKeyLen

(* Slip: two files of one key are not told apart.                          *)
BugTaken(i) == FALSE
Taken(i) == \E j \in out : Key(j) = Key(i)

EncodedLen(n) == ((n + 2) \div 3) * 4

(* Slip: binary content is counted as it is.                               *)
BugSize(c) == c.size
Size(c) == IF c.text THEN c.size ELSE EncodedLen(c.size)

RawTotal == MapThenSumSet(LAMBDA i : Content(i).size, out)
Total == MapThenSumSet(LAMBDA i : KeyLen(Key(i)) + Size(Content(i)), out)
EffectiveLimit == IF Margin >= HardLimit THEN HardLimit ELSE HardLimit - Margin

(* A later candidate of a key would replace an earlier one in the map.     *)
Rendered ==
  [k \in {Key(i) : i \in out} |-> Content(Max({i \in out : Key(i) = k}))]

------------------------------------------------------------------------------
(* guard.go.                                                               *)

(* Slip: only the top-level store reference is collected.                  *)
BugCollectStoreRefs(d) == d.store
CollectStoreRefs(d) == d.store \cup {s.store : s \in {s \in d.sources : s.store # None}}
HasGenerator(d) == \E s \in d.sources : s.generator

Check(d) ==
  /\ d.kind = "ExternalSecret"
  /\ d.name # None
  /\ d.ns \in {"", "own"}
  /\ Allow # {} => /\ ~HasGenerator(d)
                   /\ CollectStoreRefs(d) # {} /\ CollectStoreRefs(d) \subseteq Allow

------------------------------------------------------------------------------
Init ==
  /\ \E T \in Trees : head = [rev |-> 1, tree |-> T]
  /\ work = [rev |-> 0, tree |-> {}, clone |-> None]
  /\ phase = "idle" /\ todo = {} /\ out = {} /\ objs = {}
  /\ cm = [rev |-> 0, data |-> <<>>] /\ es = [n \in Names |-> None]
  /\ reason = "None"

(* A reconcile reads the commit it fetched: a push during it is a push     *)
(* after it.                                                               *)
Push ==
  /\ phase = "idle" /\ head.rev <= MaxPushes
  /\ \E T \in Trees : head' = [rev |-> head.rev + 1, tree |-> T]
  /\ UNCHANGED <<work, phase, todo, out, objs, cm, es, reason>>

EndWith(r) == phase' = "idle" /\ reason' = r
Goto(p) == phase' = p /\ UNCHANGED reason

(* A fetch of the head, from a clone in the cache or a new one.            *)
Fetch ==
  /\ phase = "idle"
  /\ Goto("collect")
  /\ \E c \in Clones : work' = [rev |-> head.rev, tree |-> head.tree, clone |-> c]
  /\ todo' = Walked(head.tree)
  /\ out' = {} /\ objs' = {}
  /\ UNCHANGED <<head, cm, es>>

(* collect and consider, one entry at a time in lexical order.             *)
At(i) == todo # {} /\ i = Min(todo)
Walk(i) == todo' = todo \ {i} /\ UNCHANGED <<phase, reason>>

Unsafe(i) == IsLink(i) /\ ~(Resolves(i) /\ Within(i))

RejectLink ==
  /\ phase = "collect" /\ \E i \in todo : At(i) /\ Unsafe(i)
  /\ EndWith("TreeSafetyViolation")
  /\ UNCHANGED <<head, work, todo, out, objs, cm, es>>

Skip ==
  /\ phase = "collect"
  /\ \E i \in todo : At(i) /\ ~Unsafe(i) /\ (~IsFile(i) \/ Excluded(i)) /\ Walk(i)
  /\ UNCHANGED <<head, work, out, objs, cm, es>>

RejectKey ==
  /\ phase = "collect"
  /\ \E i \in todo :
       /\ At(i) /\ ~Unsafe(i) /\ IsFile(i) /\ ~Excluded(i)
       /\ \/ ~ValidKey(i) /\ EndWith("InvalidKey")
          \/ ValidKey(i) /\ Taken(i) /\ EndWith("KeyConflict")
  /\ UNCHANGED <<head, work, todo, out, objs, cm, es>>

Include ==
  /\ phase = "collect"
  /\ \E i \in todo :
       /\ At(i) /\ ~Unsafe(i) /\ IsFile(i) /\ ~Excluded(i) /\ ValidKey(i) /\ ~Taken(i)
       /\ Walk(i) /\ out' = out \cup {i}
  /\ UNCHANGED <<head, work, objs, cm, es>>

(* Render after collect: the sizes of the files, then of what is rendered. *)
Oversize ==
  /\ phase = "collect" /\ todo = {}
  /\ RawTotal > HardLimit \/ Total > EffectiveLimit
  /\ EndWith("Oversize")
  /\ UNCHANGED <<head, work, todo, out, objs, cm, es>>

Render ==
  /\ phase = "collect" /\ todo = {}
  /\ ~(RawTotal > HardLimit \/ Total > EffectiveLimit)
  /\ Goto("publish")
  /\ UNCHANGED <<head, work, todo, out, objs, cm, es>>

Publish ==
  /\ phase = "publish"
  /\ cm' = [rev |-> work.rev, data |-> Rendered]
  /\ Goto("load") /\ todo' = Walked(work.tree)
  /\ UNCHANGED <<head, work, out, objs, es>>

(* manifest.Load, one entry at a time.  Its own check of links cannot fail *)
(* any more: Render has rejected every unsafe link of the same directory.  *)
Load ==
  /\ phase = "load"
  /\ \E i \in todo :
       /\ At(i) /\ Walk(i)
       /\ objs' = IF File(i).ext /\ IsFile(i) THEN objs \cup ({i} \X ParseFile(Docs(i))) ELSE objs
  /\ UNCHANGED <<head, work, out, cm, es>>

Loaded(p) == Docs(p[1])[p[2]]
Before(p, q) == p[1] < q[1] \/ (p[1] = q[1] /\ p[2] < q[2])

(* applyManifests: every object is checked before the first is applied.    *)
Guard ==
  /\ phase = "load" /\ todo = {}
  /\ IF \E p \in objs : ~Check(Loaded(p)) THEN EndWith("Guard") ELSE Goto("apply")
  /\ todo' = IF phase' = "apply" THEN objs ELSE {}
  /\ UNCHANGED <<head, work, out, objs, cm, es>>

Apply ==
  /\ phase = "apply"
  /\ \E p \in todo :
       /\ \A q \in todo \ {p} : Before(p, q)
       /\ Walk(p) /\ es' = [es EXCEPT ![Loaded(p).name] = Loaded(p)]
  /\ UNCHANGED <<head, work, out, objs, cm>>

(* Slip: nothing is pruned when no object is left.                         *)
BugPrune ==
  /\ phase = "apply" /\ todo = {}
  /\ LET applied == {Loaded(p).name : p \in objs}
     IN  es' = IF applied = {} THEN es ELSE [n \in Names |-> IF n \in applied THEN es[n] ELSE None]
  /\ EndWith("Synced")
  /\ UNCHANGED <<head, work, todo, out, objs, cm>>

Prune ==
  /\ phase = "apply" /\ todo = {}
  /\ LET applied == {Loaded(p).name : p \in objs}
     IN  es' = [n \in Names |-> IF n \in applied THEN es[n] ELSE None]
  /\ EndWith("Synced")
  /\ UNCHANGED <<head, work, todo, out, objs, cm>>

(* A call to the API server fails or the operator is restarted.            *)
Interrupt ==
  /\ phase # "idle"
  /\ EndWith("Interrupted")
  /\ UNCHANGED <<head, work, todo, out, objs, cm, es>>

Next ==
  \/ Push \/ Fetch
  \/ RejectLink \/ Skip \/ RejectKey \/ Include \/ Oversize \/ Render \/ Publish
  \/ Load \/ Guard \/ Apply \/ Prune
  \/ Interrupt

Spec == Init /\ [][Next]_vars

------------------------------------------------------------------------------
(* A manifest, as the documentation has it: a .yaml, .yml or .json file    *)
(* with a document, any of its documents, that sets an apiVersion and a    *)
(* kind, whatever they are; a document that does not decode is skipped.    *)
ObjectsIn(i) ==
  {Docs(i)[n] : n \in {n \in DOMAIN Docs(i) :
     File(i).ext /\ IsFile(i) /\ Docs(i)[n].class \in {"object", "odd", "nested"}}}

(* A regular file that is config: neither reserved nor a manifest.         *)
IsConfig(i) == IsFile(i) /\ ~File(i).reserved /\ ObjectsIn(i) = {}

(* The files of which the decoders give that answer: their type metadata   *)
(* is such that both take it, and no object follows a document that cannot *)
(* be decoded, where both stop.                                            *)
ClearDocs(docs) ==
  \A n \in DOMAIN docs :
    /\ docs[n].class \notin {"odd", "nested"}
    /\ docs[n].class = "object" => \A k \in 1 .. n - 1 : docs[k].class # "list"
ClearTrees == \A T \in Trees : \A i \in T : ClearDocs(Entry(i).docs)

(* R7.4, R7.6: the published ConfigMap has a key of its own for each       *)
(* config file of the commit, with that file's content, and no other key:  *)
(* none for a manifest, a reserved or a special file, nor for anything the *)
(* directory holds besides the commit, over any order of the walk.         *)
RenderExact ==
  phase \in {"load", "apply"} =>
    LET config == {i \in work.tree : IsConfig(i)}
    IN  /\ cm.rev = work.rev
        /\ DOMAIN cm.data = {Key(i) : i \in config}
        /\ \A i \in config : cm.data[Key(i)] = Content(i)
        /\ \A i, j \in config : Key(i) = Key(j) => i = j

(* T9: a commit is always published as the same bytes, whichever clone of  *)
(* it a fetch gets (git's own files differ from clone to clone).           *)
Deterministic == [][cm.rev # 0 /\ cm'.rev = cm.rev => cm'.data = cm.data]_vars

Footprint(data) ==
  MapThenSumSet(LAMBDA k : KeyLen(k) + (IF data[k].text THEN data[k].size
                                        ELSE 4 * ((data[k].size + 2) \div 3)), DOMAIN data)

(* R7.7: what is published leaves the margin below the limit of an object, *)
(* with binary content as it is encoded, and what is refused as too large  *)
(* would not: the check on raw bytes refuses nothing more.                 *)
LimitsExact ==
  /\ Footprint(cm.data) <= HardLimit - Margin
  /\ phase = "idle" /\ reason = "Oversize" => Footprint(Rendered) > HardLimit - Margin

(* A source with neither a store nor a generator names no store.           *)
Stores(d) == d.store \cup ({s.store : s \in {s \in d.sources : ~s.generator}} \ {None})

(* R-AUTH.4, R-AUTH.5: nothing is applied unless every object of the       *)
(* commit is an ExternalSecret of this namespace whose stores, wherever it *)
(* names them, are all allowed.                                            *)
AllOrNothing ==
  [][es' # es =>
       \A i \in work.tree : \A d \in ObjectsIn(i) :
         /\ d.kind = "ExternalSecret" /\ d.ns # "other"
         /\ Allow = {} \/ Stores(d) \subseteq Allow
    ]_vars

(* R8.8: after a successful reconcile exactly the commit's objects are     *)
(* there, whatever was applied by reconciles that were interrupted.        *)
PrunedToTree ==
  phase = "idle" /\ reason = "Synced" =>
    {x \in Names : es[x] # None} = {d.name : d \in UNION {ObjectsIn(i) : i \in work.tree}}
==============================================================================
