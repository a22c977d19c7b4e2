------------------------------ MODULE Decisions ------------------------------
(***************************************************************************)
(* The pure decisions of the operator: who owns a shared workload, what    *)
(* the secret-readiness policy says, which version string a commit and its *)
(* env-surfaced secrets give, and how the overall Ready condition follows  *)
(* from the others.  They are shared by the modules that model the         *)
(* reconcile loop (ConfigSync) and the outage clock (SecretOutage).        *)
(***************************************************************************)
EXTENDS Naturals

(***************************************************************************)
(* winsOver: the older ConfigSync wins, ties break on the name.  Names are *)
(* natural numbers here, compared as Go compares the strings.              *)
(***************************************************************************)
WinsOver(a, bornA, b, bornB) ==
  \/ bornA < bornB
  \/ bornA = bornB /\ a < b

(***************************************************************************)
(* secret.Evaluate.  refs is the set of references of the spec, ready      *)
(* those that resolved, est those that were wired before (Established),    *)
(* outage the time since degradedSince and max maxDegradedDuration.        *)
(***************************************************************************)
BugEvaluate(refs, ready, est, outage, max) == \* slip: an outage of established refs is ready
  [allReady |-> refs \ (ready \cup est) = {}, reason |-> "Synced", readyReason |-> "Progressing"]

Evaluate(refs, ready, est, outage, max) ==
  LET unready == refs \ ready
      firstUnready == unready \ est
  IN  IF unready = {}
      THEN [allReady |-> TRUE, reason |-> "Synced", readyReason |-> "Synced"]
      ELSE IF firstUnready # {}
      THEN [allReady |-> FALSE, reason |-> "AwaitingFirstResolution",
            readyReason |-> "Progressing"]
      ELSE IF max > 0 /\ outage > max
      THEN [allReady |-> FALSE, reason |-> "MaxDegradedExceeded",
            readyReason |-> "Degraded"]
      ELSE [allReady |-> FALSE, reason |-> "DegradedServingLastGood",
            readyReason |-> "Degraded"]

(***************************************************************************)
(* rollout.VersionWithSecrets: the commit and the tokens of the            *)
(* env-surfaced references, and nothing else.  The truncated hashes are    *)
(* taken to be injective.                                                  *)
(***************************************************************************)
VersionWithSecrets(commit, envTokens) == <<commit, envTokens>>

(***************************************************************************)
(* computeReady: the reason of the Ready condition, from the set of the    *)
(* conditions that are True and the outcome of RolloutComplete.            *)
(***************************************************************************)
Gates == {"Fetched", "Rendered", "ManifestsApplied", "SecretsReady", "WorkloadWired"}

ComputeReady(conds, complete) ==
  IF ~(Gates \subseteq conds) THEN "Degraded"
  ELSE IF complete = "Complete" THEN "Synced"
  ELSE IF complete = "ProgressDeadlineExceeded" THEN "Degraded"
  ELSE "Progressing"
==============================================================================
