------------------------------- MODULE Ingestion -------------------------------
(***************************************************************************)
(* The ingestion pipeline of one organisation (src/workflows/ingestion.ts, *)
(* ingestion-chunk.ts, ingestion-finalizer.ts): a master workflow opens a  *)
(* row of sync_jobs, fetches the sources and fans out one child workflow   *)
(* for each chunk of items; the child that records the last chunk starts   *)
(* the finalizer, which closes the row.  Rows that outlive their workflow  *)
(* are closed by the next master, by the workflow-state reconciler and by  *)
(* the daily maintenance.                                                  *)
(*                                                                         *)
(* A D1 statement and a workflow creation are atomic; a step whose         *)
(* callback throws is run again from its start.  Times are counted in      *)
(* units of GuardAge: a row is old after one unit (15 minutes), past its   *)
(* timeout_at after two (30 minutes).                                      *)
(***************************************************************************)
EXTENDS Integers, FiniteSets

CONSTANTS
  Masters,     \* instances of IngestionWorkflow
  MaxJobs,     \* bound on the rows of sync_jobs
  MaxChunks,   \* bound on the chunks of one fetch
  BatchSize,   \* FANOUT_BATCH_SIZE
  Overlap,     \* two masters may be in check-concurrency at once
  Manual,      \* an administrator may start a date-range backfill
  Maintains,   \* the daily maintenance runs
  Slow,        \* a run may go on for longer than GuardAge
  Faults,      \* a statement or a creation may throw
  Crashes,     \* the runtime may kill a workflow before its catch block
  NoMaster     \* the instance of a row no workflow opened

ASSUME IngestionAssumption ==
  /\ IsFiniteSet(Masters)
  /\ {MaxJobs, MaxChunks, BatchSize} \subseteq Nat \ {0}
  /\ {Overlap, Manual, Maintains, Slow, Faults, Crashes} \subseteq BOOLEAN
  /\ NoMaster \notin Masters

Jobs == 1..MaxJobs         \* in the order of created_at
Fallback == 0              \* the id getCurrentSyncJobId makes up
Ids == Jobs \cup {Fallback}
Chunks == 1..MaxChunks

GuardAge == 1
TimeoutAge == 2

VARIABLES
  status, age,       \* of the rows of sync_jobs
  total,             \* metadata.chunk_count; 0 while unset
  instance,          \* the master a row was opened by (cf_instance_id)
  recorded,          \* the rows of sync_job_chunks
  triggered,         \* the rows of sync_job_finalizers
  pc, size, target,  \* a master: its step, its chunks, the row they go to
  sent, retried,     \* chunks spawned, and whether the fan-out was retried
  met,               \* masters it was in check-concurrency with (ghost)
  child,             \* the children, by job and chunk
  finalizer,         \* the finalizers, by job
  verdict,           \* what the reconciler is about to make of a row
  doomed             \* the rows the maintenance is about to fail

jobs == <<status, age, total, instance>>
ledger == <<recorded, triggered>>
master == <<pc, size, target, sent, retried, met>>
closers == <<verdict, doomed>>
vars == <<jobs, ledger, master, child, finalizer, closers>>

Closed == {"completed", "partial", "failed"}
Guarding == {"expire", "look", "open"}
FanningOut == {"resolve", "empty", "count", "spawn", "wait"}
Ended == {"done", "dead"}

TypeOK ==
  /\ status \in [Jobs -> {"absent", "running"} \cup Closed]
  /\ age \in [Jobs -> 0..TimeoutAge]
  /\ total \in [Jobs -> 0..MaxChunks]
  /\ instance \in [Jobs -> Masters \cup {NoMaster}]
  /\ recorded \subseteq Ids \X Chunks
  /\ triggered \subseteq Jobs
  /\ pc \in [Masters -> {"idle", "fetch", "catch", "failed"}
                        \cup Guarding \cup FanningOut \cup Ended]
  /\ size \in [Masters -> 0..MaxChunks]
  /\ target \in [Masters -> Ids]
  /\ sent \in [Masters -> 0..MaxChunks]
  /\ retried \in [Masters -> BOOLEAN]
  /\ met \in [Masters -> SUBSET Masters]
  /\ child \in [Ids \X Chunks -> {"none", "process", "record", "check",
                                  "trigger", "create"} \cup Ended]
  /\ finalizer \in [Jobs -> {"none", "running"} \cup Ended]
  /\ verdict \in [Jobs -> {"none", "completed", "failed"}]
  /\ doomed \subseteq Jobs

Init ==
  /\ status = [j \in Jobs |-> "absent"]
  /\ age = [j \in Jobs |-> 0]
  /\ total = [j \in Jobs |-> 0]
  /\ instance = [j \in Jobs |-> NoMaster]
  /\ recorded = {}
  /\ triggered = {}
  /\ pc = [m \in Masters |-> "idle"]
  /\ size = [m \in Masters |-> 0]
  /\ target = [m \in Masters |-> Fallback]
  /\ sent = [m \in Masters |-> 0]
  /\ retried = [m \in Masters |-> FALSE]
  /\ met = [m \in Masters |-> {}]
  /\ child = [x \in Ids \X Chunks |-> "none"]
  /\ finalizer = [j \in Jobs |-> "none"]
  /\ verdict = [j \in Jobs |-> "none"]
  /\ doomed = {}

Running == {j \in Jobs : status[j] = "running"}

(* The row with id j, if there is one, gets status s.                       *)
SetStatus(j, s) ==
  status' = IF j \in Jobs /\ status[j] # "absent"
            THEN [status EXCEPT ![j] = s] ELSE status

Goto(m, step) == pc' = [pc EXCEPT ![m] = step]

------------------------------------------------------------------------------
(* IngestionWorkflow, step check-concurrency.                               *)

(* The hourly cron, or an owner, creates a master.                          *)
StartMaster(m) ==
  /\ pc[m] = "idle"
  /\ ~Overlap => \A n \in Masters : pc[n] \notin Guarding
  /\ Goto(m, "expire")
  /\ met' = [n \in Masters |->
       IF n = m THEN {k \in Masters : pc[k] \in Guarding}
       ELSE IF pc[n] \in Guarding THEN met[n] \cup {m} ELSE met[n]]
  /\ UNCHANGED <<jobs, ledger, size, target, sent, retried, child, finalizer, closers>>

(* Mutant: the age of a running row is not looked at.                       *)
ExpiredAtOnce == Running

Expired == {j \in Running : age[j] >= GuardAge}

(* A date-range row has its timeout_at from datetime(), "2026-05-04 12:30:00", *)
(* which sorts before every time of that day written "2026-05-04T...": until *)
(* midnight lies between the two, the row looks overdue.                    *)
MayLookOverdue == {j \in Running : instance[j] = NoMaster}

ExpireOld(m) ==
  /\ pc[m] = "expire"
  /\ \E early \in SUBSET MayLookOverdue :
       status' = [j \in Jobs |-> IF j \in Expired \cup early THEN "failed" ELSE status[j]]
  /\ Goto(m, "look")
  /\ UNCHANGED <<age, total, instance, ledger, size, target, sent, retried, met,
                 child, finalizer, closers>>

(* Mutant: the SELECT looks at rows past their timeout_at only.             *)
LookForOverdue(m) ==
  /\ pc[m] = "look"
  /\ Goto(m, IF \A j \in Running : age[j] < TimeoutAge THEN "open" ELSE "done")
  /\ UNCHANGED <<jobs, ledger, size, target, sent, retried, met, child, finalizer, closers>>

LookForRunning(m) ==
  /\ pc[m] = "look"
  /\ Goto(m, IF Running = {} THEN "open" ELSE "done")
  /\ UNCHANGED <<jobs, ledger, size, target, sent, retried, met, child, finalizer, closers>>

InsertJob(j, m) ==
  /\ status[j] = "absent"
  /\ \A k \in Jobs : k < j => status[k] # "absent"
  /\ status' = [status EXCEPT ![j] = "running"]
  /\ instance' = [instance EXCEPT ![j] = m]
  /\ UNCHANGED <<age, total>>

(* The INSERT; its answer may be lost, and then the step is run again.      *)
OpenJob(m) ==
  /\ pc[m] = "open"
  /\ \E j \in Jobs : InsertJob(j, m)
  /\ Goto(m, "fetch") \/ (Faults /\ Goto(m, "expire"))
  /\ UNCHANGED <<ledger, size, target, sent, retried, met, child, finalizer, closers>>

(* A throw in the step: it is run again until its retries are used up; no   *)
(* job is known then, and the catch block changes nothing.                  *)
GuardFails(m) ==
  /\ Faults
  /\ pc[m] \in Guarding
  /\ Goto(m, "expire") \/ Goto(m, "failed")
  /\ UNCHANGED <<jobs, ledger, size, target, sent, retried, met, child, finalizer, closers>>

------------------------------------------------------------------------------
(* The four fetch steps, and step write-chunks-and-fanout.                  *)

(* An error of a source is a failure to report, not a throw; the result is  *)
(* kept across retries of the steps after it.                               *)
Fetch(m) ==
  /\ pc[m] = "fetch"
  /\ \E n \in 0..MaxChunks : size' = [size EXCEPT ![m] = n]
  /\ Goto(m, "resolve")
  /\ UNCHANGED <<jobs, ledger, target, sent, retried, met, child, finalizer, closers>>

(* getCurrentSyncJobId: the newest row that is running now.                 *)
IsCurrent(j) ==
  IF Running = {} THEN j = Fallback ELSE j \in Running /\ \A k \in Running : k <= j

Resolve(m) ==
  /\ pc[m] = "resolve"
  /\ \E j \in Ids : IsCurrent(j) /\ target' = [target EXCEPT ![m] = j]
  /\ Goto(m, IF size[m] = 0 THEN "empty" ELSE "count")
  /\ UNCHANGED <<jobs, ledger, size, sent, retried, met, child, finalizer, closers>>

(* Nothing was fetched: the row is closed here and now.                     *)
CloseEmpty(m) ==
  /\ pc[m] = "empty"
  /\ \E s \in {"completed", "partial"} : SetStatus(target[m], s)
  /\ total' = IF target[m] = Fallback THEN total ELSE [total EXCEPT ![target[m]] = 0]
  /\ Goto(m, "done")
  /\ UNCHANGED <<age, instance, ledger, size, target, sent, retried, met,
                 child, finalizer, closers>>

(* chunk_count, set before the first child is spawned.                      *)
SetCount(m) ==
  /\ pc[m] = "count"
  /\ total' = IF target[m] = Fallback THEN total
              ELSE [total EXCEPT ![target[m]] = size[m]]
  /\ sent' = [sent EXCEPT ![m] = 0]
  /\ Goto(m, "spawn")
  /\ UNCHANGED <<status, age, instance, ledger, size, target, retried, met,
                 child, finalizer, closers>>

(* Mutant: without Math.min.                                                *)
BatchEndPast(m) == sent[m] + BatchSize

BatchEnd(m) == IF sent[m] + BatchSize < size[m] THEN sent[m] + BatchSize ELSE size[m]
Batch(m) == {target[m]} \X (sent[m] + 1 .. BatchEnd(m))

(* A child whose id exists already is left as it is.                        *)
Create(S) ==
  child' = [x \in Ids \X Chunks |->
              IF x \in S /\ child[x] = "none" THEN "process" ELSE child[x]]

Spawn(m) ==
  /\ pc[m] = "spawn"
  /\ Create(Batch(m))
  /\ sent' = [sent EXCEPT ![m] = BatchEnd(m)]
  /\ Goto(m, IF BatchEnd(m) = size[m] THEN "done" ELSE "wait")
  /\ UNCHANGED <<jobs, ledger, size, target, retried, met, finalizer, closers>>

(* The batch is recorded, or three minutes have passed.                     *)
Wait(m) ==
  /\ pc[m] = "wait"
  /\ Goto(m, "spawn")
  /\ UNCHANGED <<jobs, ledger, size, target, sent, retried, met, child, finalizer, closers>>

(* A throw in the step, after some children of a batch were created.  It is *)
(* retried once, then the catch block runs.                                 *)
FanOutFails(m) ==
  /\ Faults
  /\ pc[m] \in FanningOut
  /\ IF pc[m] = "spawn" THEN \E S \in SUBSET Batch(m) : Create(S) ELSE UNCHANGED child
  /\ Goto(m, IF retried[m] THEN "catch" ELSE "resolve")
  /\ retried' = [retried EXCEPT ![m] = TRUE]
  /\ UNCHANGED <<jobs, ledger, size, target, sent, met, finalizer, closers>>

FetchFails(m) ==
  /\ Faults
  /\ pc[m] = "fetch"
  /\ Goto(m, "catch")
  /\ UNCHANGED <<jobs, ledger, size, target, sent, retried, met, child, finalizer, closers>>

(* The catch block fails every running row of the organisation.             *)
Catch(m) ==
  /\ pc[m] = "catch"
  /\ status' = [j \in Jobs |-> IF j \in Running THEN "failed" ELSE status[j]]
  /\ Goto(m, "failed")
  /\ UNCHANGED <<age, total, instance, ledger, size, target, sent, retried, met,
                 child, finalizer, closers>>

KillMaster(m) ==
  /\ Crashes
  /\ pc[m] \notin {"idle", "failed"} \cup Ended
  /\ Goto(m, "dead")
  /\ UNCHANGED <<jobs, ledger, size, target, sent, retried, met, child, finalizer, closers>>

------------------------------------------------------------------------------
(* IngestionChunkWorkflow.                                                  *)

Advance(x, step) == child' = [child EXCEPT ![x] = step]

(* Load, classify and process; an error is kept for the end.                *)
Process(x) ==
  /\ child[x] = "process"
  /\ Advance(x, "record")
  /\ UNCHANGED <<jobs, ledger, master, finalizer, closers>>

(* Step decrement-and-finalize: INSERT OR IGNORE INTO sync_job_chunks.      *)
Record(x) ==
  /\ child[x] = "record"
  /\ recorded' = recorded \cup {x}
  /\ Advance(x, "check")
  /\ UNCHANGED <<jobs, triggered, master, finalizer, closers>>

CountRecorded(j) == Cardinality({c \in Chunks : <<j, c>> \in recorded})

(* Mutants: one chunk may still be missing; one too many is waited for.     *)
LastChunkButOne(j) ==
  j \in Jobs /\ total[j] > 0 /\ CountRecorded(j) + 1 >= total[j]
PastLastChunk(j) ==
  j \in Jobs /\ total[j] > 0 /\ CountRecorded(j) > total[j]

IsLastChunk(j) ==
  j \in Jobs /\ total[j] > 0 /\ CountRecorded(j) >= total[j]

Check(x) ==
  /\ child[x] = "check"
  /\ Advance(x, IF IsLastChunk(x[1]) THEN "trigger" ELSE "done")
  /\ UNCHANGED <<jobs, ledger, master, finalizer, closers>>

(* INSERT OR IGNORE INTO sync_job_finalizers; the winner creates.           *)
Trigger(x) ==
  /\ child[x] = "trigger"
  /\ Advance(x, IF x[1] \in triggered THEN "done" ELSE "create")
  /\ triggered' = triggered \cup {x[1]}
  /\ UNCHANGED <<jobs, recorded, master, finalizer, closers>>

CreateFinalizer(x) ==
  /\ child[x] = "create"
  /\ finalizer' = [finalizer EXCEPT ![x[1]] = IF @ = "none" THEN "running" ELSE @]
  /\ Advance(x, "done")
  /\ UNCHANGED <<jobs, ledger, master, closers>>

(* A throw in the step, which is run again; the end of its retries is       *)
(* KillChild.                                                               *)
RecordFails(x) ==
  /\ Faults
  /\ child[x] \in {"record", "check", "trigger", "create"}
  /\ Advance(x, "record")
  /\ UNCHANGED <<jobs, ledger, master, finalizer, closers>>

KillChild(x) ==
  /\ Crashes
  /\ child[x] \notin {"none"} \cup Ended
  /\ Advance(x, "dead")
  /\ UNCHANGED <<jobs, ledger, master, finalizer, closers>>

------------------------------------------------------------------------------
(* IngestionFinalizerWorkflow: the repairs it enqueues are other tables';   *)
(* then mark-job-completed, or the catch block.                             *)

MarkCompleted(j) ==
  /\ finalizer[j] = "running"
  /\ finalizer' = [finalizer EXCEPT ![j] = "done"]
  /\ \E s \in {"completed", "partial"} : SetStatus(j, s)
  /\ UNCHANGED <<age, total, instance, ledger, master, child, closers>>

FinalizerFails(j) ==
  /\ Faults
  /\ finalizer[j] = "running"
  /\ finalizer' = [finalizer EXCEPT ![j] = "dead"]
  /\ SetStatus(j, "partial")
  /\ UNCHANGED <<age, total, instance, ledger, master, child, closers>>

KillFinalizer(j) ==
  /\ Crashes
  /\ finalizer[j] = "running"
  /\ finalizer' = [finalizer EXCEPT ![j] = "dead"]
  /\ UNCHANGED <<jobs, ledger, master, child, closers>>

------------------------------------------------------------------------------
(* Everyone else who writes sync_jobs.                                      *)

(* triggerIngestion with a date range: the backfill has run in the request, *)
(* and a row is inserted for it, then closed if the backfill is complete.   *)
ManualOpen ==
  /\ Manual
  /\ \E j \in Jobs : InsertJob(j, NoMaster)
  /\ UNCHANGED <<ledger, master, child, finalizer, closers>>

ManualClose(j) ==
  /\ Manual
  /\ status[j] # "absent"
  /\ instance[j] = NoMaster
  /\ SetStatus(j, "completed")
  /\ UNCHANGED <<age, total, instance, ledger, master, child, finalizer, closers>>

(* The outcome Cloudflare reports of the instance that opened the row.      *)
Outcome(m) == IF pc[m] = "done" THEN "completed" ELSE "failed"

(* Mutant: only instances that ended well are reconciled.                   *)
InspectCompleted(j) ==
  /\ status[j] = "running"
  /\ age[j] >= TimeoutAge
  /\ instance[j] # NoMaster
  /\ pc[instance[j]] = "done"
  /\ verdict[j] = "none"
  /\ verdict' = [verdict EXCEPT ![j] = "completed"]
  /\ UNCHANGED <<jobs, ledger, master, child, finalizer, doomed>>

(* reconcileWorkflowState finds an overdue row and asks for its instance;   *)
(* an instance that is still going is left alone.                           *)
Inspect(j) ==
  /\ status[j] = "running"
  /\ age[j] >= TimeoutAge
  /\ instance[j] # NoMaster
  /\ pc[instance[j]] \in {"failed"} \cup Ended
  /\ verdict[j] = "none"
  /\ verdict' = [verdict EXCEPT ![j] = Outcome(instance[j])]
  /\ UNCHANGED <<jobs, ledger, master, child, finalizer, doomed>>

(* Mutant: the UPDATE has no filter.                                        *)
ReconcileUnfiltered(j) ==
  /\ verdict[j] # "none"
  /\ verdict' = [verdict EXCEPT ![j] = "none"]
  /\ SetStatus(j, verdict[j])
  /\ UNCHANGED <<age, total, instance, ledger, master, child, finalizer, doomed>>

(* applyReconciliation: the UPDATE is filtered on status = 'running'.       *)
Reconcile(j) ==
  /\ verdict[j] # "none"
  /\ verdict' = [verdict EXCEPT ![j] = "none"]
  /\ SetStatus(j, IF status[j] = "running" THEN verdict[j] ELSE status[j])
  /\ UNCHANGED <<age, total, instance, ledger, master, child, finalizer, doomed>>

(* runStaleOperations: the SELECT, and an UPDATE of the ids it returned.    *)
SelectStale ==
  /\ Maintains
  /\ doomed = {}
  /\ \E early \in SUBSET MayLookOverdue :
       doomed' = {j \in Running : age[j] >= TimeoutAge} \cup early
  /\ UNCHANGED <<jobs, ledger, master, child, finalizer, verdict>>

FailStale ==
  /\ doomed # {}
  /\ status' = [j \in Jobs |-> IF j \in doomed THEN "failed" ELSE status[j]]
  /\ doomed' = {}
  /\ UNCHANGED <<age, total, instance, ledger, master, child, finalizer, verdict>>

Busy ==
  \/ \E m \in Masters : pc[m] \notin {"idle", "failed"} \cup Ended
  \/ \E x \in Ids \X Chunks : child[x] \notin {"none"} \cup Ended
  \/ \E j \in Jobs : finalizer[j] = "running"

(* Time passes, but not during a check-concurrency step.                    *)
Tick ==
  /\ \A m \in Masters : pc[m] \notin Guarding
  /\ Slow \/ ~Busy
  /\ age' = [j \in Jobs |-> IF status[j] = "running" /\ age[j] < TimeoutAge
                              THEN age[j] + 1 ELSE age[j]]
  /\ UNCHANGED <<status, total, instance, ledger, master, child, finalizer, closers>>

------------------------------------------------------------------------------

MasterStep(m) ==
  \/ StartMaster(m) \/ ExpireOld(m) \/ LookForRunning(m) \/ OpenJob(m)
  \/ GuardFails(m) \/ Fetch(m) \/ FetchFails(m) \/ Resolve(m) \/ CloseEmpty(m)
  \/ SetCount(m) \/ Spawn(m) \/ Wait(m) \/ FanOutFails(m) \/ Catch(m)
  \/ KillMaster(m)

ChildStep(x) ==
  \/ Process(x) \/ Record(x) \/ Check(x) \/ Trigger(x) \/ CreateFinalizer(x)
  \/ RecordFails(x) \/ KillChild(x)

JobStep(j) ==
  \/ MarkCompleted(j) \/ FinalizerFails(j) \/ KillFinalizer(j)
  \/ ManualClose(j) \/ Inspect(j) \/ Reconcile(j)

Next ==
  \/ \E m \in Masters : MasterStep(m)
  \/ \E x \in Ids \X Chunks : ChildStep(x)
  \/ \E j \in Jobs : JobStep(j)
  \/ ManualOpen \/ SelectStale \/ FailStale \/ Tick

Spec == Init /\ [][Next]_vars

(* The runtime runs what was created to an end, the hourly cron runs the    *)
(* reconciler, and time passes.                                             *)
Fairness ==
  /\ WF_vars(Tick)
  /\ \A m \in Masters :
       WF_vars(ExpireOld(m) \/ LookForRunning(m) \/ OpenJob(m) \/ GuardFails(m)
               \/ Fetch(m) \/ FetchFails(m) \/ Resolve(m) \/ CloseEmpty(m)
               \/ SetCount(m) \/ Spawn(m) \/ Wait(m) \/ Catch(m))
  /\ \A x \in Ids \X Chunks :
       WF_vars(Process(x) \/ Record(x) \/ Check(x) \/ Trigger(x) \/ CreateFinalizer(x))
  /\ \A j \in Jobs :
       /\ WF_vars(MarkCompleted(j) \/ FinalizerFails(j) \/ KillFinalizer(j))
       /\ WF_vars(Inspect(j))
       /\ WF_vars(Reconcile(j))

FairSpec == Spec /\ Fairness

------------------------------------------------------------------------------

(* The concurrency guard.  Rows of two masters run beside each other only   *)
(* if the two were in the guard at the same time, which the code does not   *)
(* prevent; and never two rows of one master, although its INSERT is        *)
(* repeated when the answer was lost.  So it is whatever is retried, killed *)
(* or closed late.                                                          *)
OneRunning ==
  \A j, k \in Running :
    j # k /\ instance[j] # NoMaster /\ instance[k] # NoMaster
      => instance[j] # instance[k] /\ instance[j] \in met[instance[k]]

(* What the guard is said to do: "if a run is already in progress, the new  *)
(* instance will detect that and exit early without double-processing"      *)
(* (triggerSync).                                                           *)
NeverTwo == Cardinality(Running) <= 1

(* The finalizer of a job starts when every chunk of it is recorded, under  *)
(* retries of every step and any order of the children.                     *)
FinalizerLast ==
  \A j \in Jobs : finalizer[j] # "none" =>
    /\ total[j] > 0
    /\ \A c \in 1..total[j] : <<j, c>> \in recorded

(* A master hands its chunks to the row it opened: the step that fans out   *)
(* asks for the running row again instead of using the one it was given.    *)
OwnTarget ==
  \A m \in Masters :
    pc[m] \in {"empty", "count", "spawn", "wait"} =>
      target[m] \in Jobs /\ instance[target[m]] = m

(* The trigger guarantees "exactly-once spawn" (migration 0054): when every *)
(* chunk of a job is recorded and its children have ended, its finalizer    *)
(* has been started.                                                        *)
SpawnedOnce ==
  \A j \in Jobs :
    /\ total[j] > 0
    /\ \A c \in 1..total[j] : <<j, c>> \in recorded
    /\ \A c \in Chunks : child[<<j, c>>] \in {"none"} \cup Ended
    => finalizer[j] # "none"

(* A row is completed when its chunks are in; the reconciler may complete   *)
(* it before, on its master's word, but not before every chunk has a child  *)
(* to process it: under the row's id, or under the one that a fan-out       *)
(* retried after the row was closed came up with.                           *)
Whole(j) == \A c \in 1..total[j] : <<j, c>> \in recorded

HandedOver(j) ==
  LET m == instance[j]
  IN pc[m] = "done" /\ \A c \in 1..total[j] : child[<<target[m], c>>] # "none"

CompletedIsWhole ==
  \A j \in Jobs : status[j] = "completed" /\ instance[j] # NoMaster
    => Whole(j) \/ HandedOver(j)

(* The same without the reconciler's haste.                                 *)
CompletedIsRecorded ==
  \A j \in Jobs : status[j] = "completed" /\ instance[j] # NoMaster => Whole(j)

(* Who comes late.  A row that was closed is never open again; it becomes   *)
(* completed or partial after that only with all its chunks in (or at the   *)
(* hands of the administrator who opened it), and failed only by a          *)
(* maintenance that had selected it while it ran.                           *)
LateCloseIsWhole ==
  [][\A j \in Jobs : status[j] \in Closed /\ status'[j] # status[j] =>
       \/ status'[j] \in {"completed", "partial"} /\ (Whole(j)' \/ instance[j] = NoMaster)
       \/ status'[j] = "failed" /\ j \in doomed]_vars

(* "running -> completed | partial | failed" (TRD 13.1): a closed row stays *)
(* as it was closed.                                                        *)
ClosedForGood ==
  [][\A j \in Jobs : status[j] \in Closed => status'[j] = status[j]]_vars

(* A row is failed by a master's guard only when it is old: "once past        *)
(* timeout_at, the job is considered abandoned", or after 15 minutes.       *)
ExpiredIsOld ==
  [][\A m \in Masters, j \in Jobs :
       ExpireOld(m) /\ status[j] = "running" /\ status'[j] = "failed"
         => age[j] >= GuardAge]_vars

(* A row never stays 'running', whichever of its workflows is killed.       *)
JobCloses == \A j \in Jobs : status[j] = "running" ~> status[j] \in Closed
================================================================================
