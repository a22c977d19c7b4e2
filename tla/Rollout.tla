------------------------------- MODULE Rollout -------------------------------
(***************************************************************************)
(* What the reconcile loop relies on when it asks for the progress of a    *)
(* workload's rollout (rollout.DeploymentProgress, StatefulSetProgress):   *)
(* a summary with three values.  ConfigSync contains exactly this summary  *)
(* per workload; RolloutProgress shows that the progress functions, read   *)
(* against the controllers of Kubernetes, implement it.                    *)
(***************************************************************************)
CONSTANT Templates

VARIABLES
  tmpl,    \* the pod template of the workload at the API server
  rollout  \* what the progress functions say of the workload

Init == tmpl \in Templates /\ rollout \in {"rolling", "done"}

(* A new pod template is never reported as rolled out at once.  A stuck    *)
(* rollout looks stuck until the workload's controller has acted.          *)
Write ==
  /\ tmpl' \in Templates \ {tmpl}
  /\ rollout' = IF rollout = "stuck" THEN "stuck" ELSE "rolling"

Finish == rollout # "done" /\ rollout' = "done" /\ UNCHANGED tmpl

(* Only a rollout in flight passes its deadline, never a finished one.     *)
Stick == rollout = "rolling" /\ rollout' = "stuck" /\ UNCHANGED tmpl

(* Pods fail or are rescaled, or the controller starts over.               *)
Resume == rollout # "rolling" /\ rollout' = "rolling" /\ UNCHANGED tmpl

Next == Write \/ Finish \/ Stick \/ Resume

Spec == Init /\ [][Next]_<<tmpl, rollout>>
==============================================================================
