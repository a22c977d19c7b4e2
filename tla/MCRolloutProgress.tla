-------------------------- MODULE MCRolloutProgress --------------------------
(***************************************************************************)
(* Instances of RolloutProgress for TLC.                                   *)
(***************************************************************************)
EXTENDS RolloutProgress

(* A StatefulSet does not go on from pods that never become ready, also    *)
(* not back to a version that would.                                       *)
OnlyDeploymentsBreak == [k \in Kinds |-> IF k = "Deployment" THEN {"v2"} ELSE {}]

Disturbances ==
  [k \in Kinds |-> {"version", "pod"} \cup (IF k = "Deployment" THEN {"scale"} ELSE {})]
==============================================================================
