---------------------------- MODULE MCConfigSync ----------------------------
(***************************************************************************)
(* Instances of ConfigSync for TLC.                                        *)
(***************************************************************************)
EXTENDS ConfigSyncProperties

Plain == [wl |-> "w1", cm |-> "a", path |-> "p", mount |-> "m", mode |-> "auto", refs |-> {}]

SecretSpecs == {[Plain EXCEPT !.refs = {"env", "file"}]}
TwoSpecs == {[Plain EXCEPT !.cm = c] : c \in {"a", "b"}}

(* A rename comes with a switch of the rollout mode: alone it leaves the   *)
(* version, and so the workload, as it is.  Mode none takes no env-surfaced *)
(* reference (a rule of the CRD).                                          *)
RenameSpecs ==
  {[Plain EXCEPT !.cm = "a", !.refs = Refs],
   [Plain EXCEPT !.cm = "b", !.refs = Refs \ EnvRefs, !.mode = "none"]}

NoManifests == [c \in Commits |-> {}]
SomeManifests ==
  [c \in Commits |-> CASE c = "c2" -> {"x"} [] c = "c3" -> {"x", "y"} [] OTHER -> {}]

(* Nobody but Kohen labels objects; a user labels "b" as an object of 1.   *)
Unlabelled == [n \in ConfigMaps \cup Manifests |-> None]
LabelledB == [n \in ConfigMaps \cup Manifests |-> IF n = "b" THEN 1 ELSE None]
=============================================================================
