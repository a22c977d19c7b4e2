----------------------------- MODULE MCConfigTree -----------------------------
(***************************************************************************)
(* Instances of ConfigTree for TLC.                                        *)
(***************************************************************************)
EXTENDS ConfigTree

File0 == [path |-> <<>>, type |-> "file", to |-> None, ext |-> FALSE, reserved |-> FALSE,
          clean |-> TRUE, text |-> TRUE, size |-> 1, docs |-> <<>>]

Plain == [class |-> "plain"]
List == [class |-> "list"]
Object(name, stores) ==
  [class |-> "object", kind |-> "ExternalSecret", name |-> name, ns |-> "",
   store |-> stores, sources |-> {}]
Source(store) == [store |-> store, generator |-> store = None]

Conf(path, size) == [File0 EXCEPT !.path = path, !.size = size]
Yaml(path, docs) == [File0 EXCEPT !.path = path, !.docs = docs, !.ext = TRUE]
Link(path, to, ext) == [File0 EXCEPT !.path = path, !.type = "link", !.to = to, !.ext = ext]

(* Keys that collide, a key that is too long, links of every kind, reserved *)
(* files, text and binary content at the limit.                            *)
Files ==
  << Conf(<<<<"a">>, <<"b">>>>, 4),
     Conf(<<<<"a", "b">>>>, 1),
     [Conf(<<<<"bin">>>>, 4) EXCEPT !.text = FALSE],
     Conf(<<<<"c">>, <<"d">>, <<"e">>>>, 1),
     Conf(<<<<"f">>>>, 11),
     [Conf(<<<<"g">>>>, 1) EXCEPT !.clean = FALSE],
     [Conf(<<<<"kohen">>>>, 12) EXCEPT !.reserved = TRUE],
     Link(<<<<"l1">>>>, Outside, FALSE),
     Link(<<<<"l2">>>>, SomeDir, FALSE),
     Link(<<<<"l3">>>>, <<<<"f">>>>, FALSE),
     [Conf(<<<<"s">>>>, 1) EXCEPT !.type = "special"] >>

(* Objects that pass and objects that do not, in files of several          *)
(* documents and behind a link, before and after a document that cannot be *)
(* decoded, and objects whose type metadata only one decoder takes.        *)
Manifests ==
  << Yaml(<<<<"a.yaml">>>>, <<Plain, Object("x", {"s1"})>>),
     Yaml(<<<<"b.yaml">>>>, <<List, Object("x", {"s1"})>>),
     Yaml(<<<<"c.yaml">>>>, <<Object("y", {"s1"}), Object("x", {"s1"})>>),
     Yaml(<<<<"d.yaml">>>>, <<[Object("y", {"s1"}) EXCEPT !.sources = {Source("s2")}]>>),
     Yaml(<<<<"e.yaml">>>>, <<[Object("y", {}) EXCEPT !.kind = "Role"]>>),
     Yaml(<<<<"g.yaml">>>>, <<[Object("y", {"s1"}) EXCEPT !.sources = {Source(None)}]>>),
     Yaml(<<<<"h.yaml">>>>, <<[Object("y", {"s1"}) EXCEPT !.ns = "other"], Plain>>),
     Link(<<<<"l.yaml">>>>, <<<<"a.yaml">>>>, TRUE),
     Yaml(<<<<"n.yaml">>>>, <<[Object("x", {"s1"}) EXCEPT !.class = "nested"], Object("y", {"s1"})>>),
     Yaml(<<<<"o.yaml">>>>, <<[Object("x", {"s1"}) EXCEPT !.class = "odd"]>>),
     Yaml(<<<<"p.yaml">>>>, <<Plain, [class |-> "null"]>>),
     Yaml(<<<<"q.yaml">>>>, <<Object("x", {"s1"}), List>>) >>

(* In walk order; files in subdirectories come where their directory does. *)
AllFiles == Files \o Manifests
SmallTrees ==
  LET config == DOMAIN Files
      rest == DOMAIN AllFiles \ config
  IN  {{}} \cup {{i, j} : i, j \in DOMAIN AllFiles}
        \cup {{i, j, k} : i, j, k \in config} \cup {{i, j, k} : i, j, k \in rest}
SmallClearTrees == {T \in SmallTrees : \A i \in T : ClearDocs(AllFiles[i].docs)}
(* An object behind a document that cannot be decoded, alone in its commit. *)
HiddenObject == {{i \in DOMAIN AllFiles : AllFiles[i].path = <<<<"b.yaml">>>>}}
==============================================================================
