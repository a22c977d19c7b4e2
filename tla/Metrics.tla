------------------------------- MODULE Metrics -------------------------------
(***************************************************************************)
(* The time series internal/metrics keeps per ConfigSync, next to the      *)
(* reconcile loop that sets them: the degraded gauge and the info series   *)
(* of the config version.  They live in the operator's process only.       *)
(***************************************************************************)
EXTENDS ConfigSyncProperties

VARIABLES
  degraded, \* [Syncs -> {0, 1} or None]: kohen_degraded
  version   \* [Syncs -> a version or None]: kohen_configsync_config_version_info

series == <<degraded, version>>
mvars == <<vars, series>>

Gauge(ready) == IF ready \in {"Synced", "Progressing"} THEN 0 ELSE 1

(* Slip: a status that did not change is not recorded again.               *)
BugRecord ==
  /\ degraded' = IF cs[Me].status = job.st THEN degraded
                 ELSE [degraded EXCEPT ![Me] = Gauge(job.st.ready)]
  /\ UNCHANGED version

(* recordReconcileResult runs before the status is written, or refused.    *)
Record ==
  /\ degraded' = [degraded EXCEPT ![Me] = Gauge(job.st.ready)]
  /\ UNCHANGED version

(* The version is set as soon as the secrets are resolved.                 *)
SetConfigVersion ==
  /\ version' = IF pc' = "inspect" THEN [version EXCEPT ![Me] = job'.st.version] ELSE version
  /\ UNCHANGED degraded

(* Slip: only the gauge is dropped.                                        *)
BugClearConfigSync == degraded' = [degraded EXCEPT ![Me] = None] /\ UNCHANGED version

(* finalize drops both before the finalizer, and again on each retry.      *)
ClearConfigSync ==
  /\ degraded' = [degraded EXCEPT ![Me] = None]
  /\ version' = [version EXCEPT ![Me] = None]

NoSeries == [s \in Syncs |-> None]
Restarted == degraded' = NoSeries /\ version' = NoSeries

Recording == UpdateStatus \/ UpdateStatusFails
Clearing ==
  DropFinalizer \/ DropFinalizerConflict \/ (pc = "dropFinalizer" /\ FinalizeFails)

MInit == Init /\ degraded = NoSeries /\ version = NoSeries

MNext ==
  \/ Recording /\ Record
  \/ ResolveSecrets /\ SetConfigVersion
  \/ Clearing /\ ClearConfigSync
  \/ Crash /\ Restarted
  \/ Next /\ ~Recording /\ ~ResolveSecrets /\ ~Clearing /\ ~Crash /\ UNCHANGED series

MSpec == MInit /\ [][MNext]_mvars /\ Fairness

(* A ConfigSync that is gone leaves no series behind, whatever failed or   *)
(* was retried while it was deleted (finalize: "so deleted syncs don't     *)
(* leak time series").                                                     *)
NoSeriesLeft == \A s \in Syncs : ~cs[s].live => degraded[s] = None /\ version[s] = None

(* Once users and failures pause, the degraded gauge says what the status  *)
(* says, also after a restart and after status updates that were refused.  *)
GaugeFollows ==
  <>[](\A s \in Syncs : cs[s].live => degraded[s] = Gauge(cs[s].status.ready))
==============================================================================
