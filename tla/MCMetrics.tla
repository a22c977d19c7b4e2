------------------------------ MODULE MCMetrics ------------------------------
(***************************************************************************)
(* Instances of Metrics, and of the reconcile loop in it, for TLC.         *)
(***************************************************************************)
EXTENDS Metrics

TwoSpecs ==
  {[wl |-> "w1", cm |-> c, path |-> "p", mount |-> "m", mode |-> "auto", refs |-> Refs] :
     c \in ConfigMaps}

NoManifests == [c \in Commits |-> {}]
Unlabelled == [n \in ConfigMaps \cup Manifests |-> None]
==============================================================================
