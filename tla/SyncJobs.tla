------------------------------- MODULE SyncJobs -------------------------------
(***************************************************************************)
(* The operational rows of sync_jobs: the helpers of                       *)
(* src/lib/sync-job-lifecycle.ts as the Graph webhook, the Outlook         *)
(* backfill and the attachment backfill call them, and the reconciler of   *)
(* the minute cron that fails rows whose Worker is gone.                   *)
(*                                                                         *)
(* Timestamps are countdowns in ticks: due[j] until timeout_at, aging[j]   *)
(* until started_at is maxAgeMinutes ago.                                  *)
(***************************************************************************)
EXTENDS Integers, FiniteSets

CONSTANTS
  SyncRows,       \* rows of sync_jobs, one per call of openSyncJob
  TimeoutLen,     \* timeoutMinutes and maxAgeMinutes, both 10
  ReconcileLimit, \* the reconciler's LIMIT
  MaxJobMishaps   \* bound on failed statements and killed reconcilers

ASSUME SyncJobsAssumption ==
  /\ IsFiniteSet(SyncRows)
  /\ TimeoutLen \in Nat \ {0}
  /\ ReconcileLimit \in Nat \ {0}
  /\ MaxJobMishaps \in Nat

VARIABLES
  syncJob, due, aging, \* the rows
  runner,              \* the code that opened the row
  ownVerdict,          \* what the runner closed the row with
  picked,              \* rows the reconciler read and has not yet updated
  jobMishaps

syncJobVars == <<syncJob, due, aging, runner, ownVerdict, picked, jobMishaps>>

Verdicts == {"completed", "partial", "paused", "failed"}

SyncJobsTypeOK ==
  /\ syncJob \in [SyncRows -> {"none", "running"} \cup Verdicts]
  /\ due \in [SyncRows -> 0..TimeoutLen]
  /\ aging \in [SyncRows -> 0..TimeoutLen]
  /\ runner \in [SyncRows -> {"idle", "works", "fails", "gone"}]
  /\ ownVerdict \in [SyncRows -> {"none"} \cup Verdicts]
  /\ picked \subseteq SyncRows
  /\ jobMishaps \in 0..MaxJobMishaps

SyncJobsInit ==
  /\ syncJob = [j \in SyncRows |-> "none"]
  /\ due = [j \in SyncRows |-> 0]
  /\ aging = [j \in SyncRows |-> 0]
  /\ runner = [j \in SyncRows |-> "idle"]
  /\ ownVerdict = [j \in SyncRows |-> "none"]
  /\ picked = {}
  /\ jobMishaps = 0

JobMishap ==
  /\ jobMishaps < MaxJobMishaps
  /\ jobMishaps' = jobMishaps + 1

------------------------------------------------------------------------------

OpenSyncJob(j) ==
  /\ runner[j] = "idle"
  /\ syncJob' = [syncJob EXCEPT ![j] = "running"]
  /\ due' = [due EXCEPT ![j] = TimeoutLen]
  /\ aging' = [aging EXCEPT ![j] = TimeoutLen]
  /\ runner' = [runner EXCEPT ![j] = "works"]
  /\ UNCHANGED <<ownVerdict, picked, jobMishaps>>

(* The heartbeat of a phase of processClassifiedItems.                      *)
TouchSyncJob(j) ==
  /\ runner[j] = "works"
  /\ syncJob[j] = "running"
  /\ due' = [due EXCEPT ![j] = TimeoutLen]
  /\ UNCHANGED <<syncJob, aging, runner, ownVerdict, picked, jobMishaps>>

(* By id only, so it also replaces the reconciler's 'failed'.               *)
CloseSyncJob(j) ==
  /\ runner[j] \in {"works", "fails"}
  /\ \E s \in Verdicts :
       /\ runner[j] = "fails" => s = "failed"
       /\ syncJob' = [syncJob EXCEPT ![j] = s]
       /\ ownVerdict' = [ownVerdict EXCEPT ![j] = s]
  /\ due' = [due EXCEPT ![j] = 0]
  /\ runner' = [runner EXCEPT ![j] = "gone"]
  /\ UNCHANGED <<aging, picked, jobMishaps>>

(* The close throws: the webhook's catch closes the row as failed, the      *)
(* others, and the catch itself, give up.                                   *)
CloseFails(j) ==
  /\ runner[j] \in {"works", "fails"}
  /\ JobMishap
  /\ \E next \in {"fails", "gone"} :
       /\ runner[j] = "fails" => next = "gone"
       /\ runner' = [runner EXCEPT ![j] = next]
  /\ UNCHANGED <<syncJob, due, aging, ownVerdict, picked>>

(* The Worker is evicted.                                                   *)
RunnerDies(j) ==
  /\ runner[j] \in {"works", "fails"}
  /\ runner' = [runner EXCEPT ![j] = "gone"]
  /\ UNCHANGED <<syncJob, due, aging, ownVerdict, picked, jobMishaps>>

(* reconcileStaleOperationalSyncJobs: a SELECT, then an UPDATE for each row *)
(* that is still running.                                                   *)

StaleJobs ==
  {j \in SyncRows : syncJob[j] = "running" /\ (due[j] = 0 \/ aging[j] = 0)}

(* ORDER BY started_at LIMIT.                                               *)
ReconcileRead ==
  /\ picked = {}
  /\ StaleJobs # {}
  /\ \E js \in SUBSET StaleJobs :
       /\ js = StaleJobs \/ Cardinality(js) = ReconcileLimit
       /\ Cardinality(js) <= ReconcileLimit
       /\ \A j \in js, k \in StaleJobs \ js : aging[j] <= aging[k]
       /\ picked' = js
  /\ UNCHANGED <<syncJob, due, aging, runner, ownVerdict, jobMishaps>>

(* Mutant: the UPDATE trusts the SELECT.                                    *)
ReconcileRowUnfiltered(j) ==
  /\ j \in picked
  /\ picked' = picked \ {j}
  /\ syncJob' = [syncJob EXCEPT ![j] = "failed"]
  /\ due' = [due EXCEPT ![j] = 0]
  /\ UNCHANGED <<aging, runner, ownVerdict, jobMishaps>>

ReconcileRow(j) ==
  /\ j \in picked
  /\ picked' = picked \ {j}
  /\ IF syncJob[j] = "running"
       THEN /\ syncJob' = [syncJob EXCEPT ![j] = "failed"]
            /\ due' = [due EXCEPT ![j] = 0]
       ELSE UNCHANGED <<syncJob, due>>
  /\ UNCHANGED <<aging, runner, ownVerdict, jobMishaps>>

ReconcilerDies ==
  /\ picked # {}
  /\ JobMishap
  /\ picked' = {}
  /\ UNCHANGED <<syncJob, due, aging, runner, ownVerdict>>

SyncTick ==
  /\ \E j \in SyncRows : due[j] > 0 \/ aging[j] > 0
  /\ due' = [j \in SyncRows |-> IF due[j] > 0 THEN due[j] - 1 ELSE 0]
  /\ aging' = [j \in SyncRows |-> IF aging[j] > 0 THEN aging[j] - 1 ELSE 0]
  /\ UNCHANGED <<syncJob, runner, ownVerdict, picked, jobMishaps>>

SyncJobsNext ==
  \/ \E j \in SyncRows :
       \/ OpenSyncJob(j) \/ TouchSyncJob(j) \/ CloseSyncJob(j)
       \/ CloseFails(j) \/ RunnerDies(j) \/ ReconcileRow(j)
  \/ ReconcileRead \/ ReconcilerDies \/ SyncTick

SyncJobsSpec == SyncJobsInit /\ [][SyncJobsNext]_syncJobVars

(* The cron runs the reconciler and time passes; no runner has to end.      *)
SyncJobsFairness ==
  /\ WF_syncJobVars(SyncTick)
  /\ WF_syncJobVars(ReconcileRead)
  /\ \A j \in SyncRows : WF_syncJobVars(ReconcileRow(j))

------------------------------------------------------------------------------

(* Every row comes to rest whatever happens to its runner, and at the right *)
(* status: the one its runner closed it with, if it did so before or after  *)
(* the reconciler looked, and 'failed' otherwise.                           *)
SyncJobSettles ==
  \A j \in SyncRows :
    syncJob[j] = "running" ~>
      [](syncJob[j] = IF ownVerdict[j] = "none" THEN "failed" ELSE ownVerdict[j])
=============================================================================
