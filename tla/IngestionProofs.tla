--------------------------- MODULE IngestionProofs ---------------------------
(***************************************************************************)
(* Theorems about Ingestion, for any number of masters, rows and chunks    *)
(* and whatever is retried, killed, slow or closed late.                   *)
(***************************************************************************)
EXTENDS Ingestion, FiniteSetTheorems, TLAPS

JobsType ==
  /\ status \in [Jobs -> {"absent", "running"} \cup Closed]
  /\ age \in [Jobs -> 0..TimeoutAge]
  /\ total \in [Jobs -> 0..MaxChunks]
  /\ instance \in [Jobs -> Masters \cup {NoMaster}]

LedgerType ==
  /\ recorded \subseteq Ids \X Chunks
  /\ triggered \subseteq Jobs

MasterType ==
  /\ pc \in [Masters -> {"idle", "fetch", "catch", "failed"}
                        \cup Guarding \cup FanningOut \cup Ended]
  /\ size \in [Masters -> 0..MaxChunks]
  /\ target \in [Masters -> Ids]
  /\ sent \in [Masters -> 0..MaxChunks]
  /\ retried \in [Masters -> BOOLEAN]
  /\ met \in [Masters -> SUBSET Masters]

ChildType ==
  child \in [Ids \X Chunks -> {"none", "process", "record", "check",
                               "trigger", "create"} \cup Ended]

(* Only a child of a row of sync_jobs comes to the trigger: the others find *)
(* no chunk_count.                                                          *)
TriggersJobs ==
  \A x \in Ids \X Chunks : child[x] \in {"trigger", "create"} => x[1] \in Jobs

FinalizerType == finalizer \in [Jobs -> {"none", "running"} \cup Ended]

ClosersType ==
  /\ verdict \in [Jobs -> {"none", "completed", "failed"}]
  /\ doomed \subseteq Jobs

Types ==
  /\ JobsType /\ LedgerType /\ MasterType /\ ChildType
  /\ TriggersJobs /\ FinalizerType /\ ClosersType

LEMMA TypesImplyTypeOK == Types => TypeOK
BY DEF TypeOK, Types, JobsType, LedgerType, MasterType, ChildType, FinalizerType,
   ClosersType

LEMMA Bounds ==
  /\ MaxJobs \in Nat \ {0} /\ MaxChunks \in Nat \ {0} /\ BatchSize \in Nat \ {0}
  /\ GuardAge = 1 /\ TimeoutAge = 2
  /\ Fallback \in Ids /\ Jobs \subseteq Ids /\ Fallback \notin Jobs
BY IngestionAssumption DEF GuardAge, TimeoutAge, Fallback, Ids, Jobs

------------------------------------------------------------------------------
(* Type correctness: the steps by the variables they change.                *)

LEMMA TypeInit == Init => Types
BY Bounds DEF Init, Types, JobsType, LedgerType, MasterType, ChildType,
   TriggersJobs, FinalizerType, ClosersType, Closed, Guarding, FanningOut, Ended

LEMMA BatchEndType ==
  ASSUME MasterType, NEW m \in Masters
  PROVE  BatchEnd(m) \in 0..MaxChunks
<1>1. size[m] \in 0..MaxChunks /\ sent[m] \in 0..MaxChunks
  BY DEF MasterType
<1>2. QED
  BY <1>1, Bounds DEF BatchEnd

LEMMA SetStatusType ==
  ASSUME JobsType, NEW j, NEW s \in Closed \cup {"running"}, SetStatus(j, s)
  PROVE  status' \in [Jobs -> {"absent", "running"} \cup Closed]
BY DEF JobsType, SetStatus, Closed

LEMMA InsertJobType ==
  ASSUME JobsType, NEW j \in Jobs, NEW m \in Masters \cup {NoMaster}, InsertJob(j, m)
  PROVE  JobsType'
BY DEF JobsType, InsertJob

(* A master.                                                                *)
LEMMA MasterStepType ==
  ASSUME Types, NEW m \in Masters, MasterStep(m)
  PROVE  Types'
<1> USE Bounds DEF Types
<1>1. CASE StartMaster(m)
  BY <1>1 DEF StartMaster, Goto, JobsType, LedgerType, MasterType, ChildType,
     TriggersJobs, FinalizerType, ClosersType, jobs, ledger, closers, Guarding
<1>2. CASE ExpireOld(m)
  BY <1>2 DEF ExpireOld, Goto, JobsType, LedgerType, MasterType, ChildType,
     TriggersJobs, FinalizerType, ClosersType, ledger, closers, Guarding, Closed
<1>3. CASE LookForRunning(m)
  BY <1>3 DEF LookForRunning, Goto, JobsType, LedgerType, MasterType, ChildType,
     TriggersJobs, FinalizerType, ClosersType, jobs, ledger, closers, Guarding, Ended
<1>4. CASE OpenJob(m)
  <2>1. JobsType'
    BY <1>4, InsertJobType DEF OpenJob
  <2>2. QED
    BY <1>4, <2>1 DEF OpenJob, Goto, LedgerType, MasterType, ChildType,
       TriggersJobs, FinalizerType, ClosersType, ledger, closers, Guarding
<1>5. CASE GuardFails(m)
  BY <1>5 DEF GuardFails, Goto, JobsType, LedgerType, MasterType, ChildType,
     TriggersJobs, FinalizerType, ClosersType, jobs, ledger, closers, Guarding
<1>6. CASE Fetch(m)
  BY <1>6 DEF Fetch, Goto, JobsType, LedgerType, MasterType, ChildType,
     TriggersJobs, FinalizerType, ClosersType, jobs, ledger, closers, FanningOut
<1>7. CASE FetchFails(m)
  BY <1>7 DEF FetchFails, Goto, JobsType, LedgerType, MasterType, ChildType,
     TriggersJobs, FinalizerType, ClosersType, jobs, ledger, closers
<1>8. CASE Resolve(m)
  BY <1>8 DEF Resolve, Goto, JobsType, LedgerType, MasterType, ChildType,
     TriggersJobs, FinalizerType, ClosersType, jobs, ledger, closers, FanningOut
<1>9. CASE CloseEmpty(m)
  <2>1. status' \in [Jobs -> {"absent", "running"} \cup Closed]
    BY <1>9, SetStatusType DEF CloseEmpty, Closed
  <2>2. total' \in [Jobs -> 0..MaxChunks]
    <3>1. 0 \in 0..MaxChunks
      BY Bounds
    <3>2. QED
      BY <1>9, <3>1 DEF CloseEmpty, JobsType
  <2>3. QED
    BY <1>9, <2>1, <2>2 DEF CloseEmpty, Goto, JobsType, LedgerType, MasterType,
       ChildType, TriggersJobs, FinalizerType, ClosersType, ledger, closers, Ended
<1>10. CASE SetCount(m)
  <2>1. total' \in [Jobs -> 0..MaxChunks]
    BY <1>10 DEF SetCount, JobsType, MasterType
  <2>2. QED
    BY <1>10, <2>1 DEF SetCount, Goto, JobsType, LedgerType, MasterType,
       ChildType, TriggersJobs, FinalizerType, ClosersType, ledger, closers, FanningOut
<1>11. CASE Spawn(m)
  <2>1. ChildType' /\ TriggersJobs'
    BY <1>11 DEF Spawn, Create, ChildType, TriggersJobs
  <2>2. sent' \in [Masters -> 0..MaxChunks]
    BY <1>11, BatchEndType DEF Spawn, MasterType
  <2>3. QED
    BY <1>11, <2>1, <2>2 DEF Spawn, Goto, JobsType, LedgerType, MasterType,
       TriggersJobs, FinalizerType, ClosersType, jobs, ledger, closers, FanningOut, Ended
<1>12. CASE Wait(m)
  BY <1>12 DEF Wait, Goto, JobsType, LedgerType, MasterType, ChildType,
     TriggersJobs, FinalizerType, ClosersType, jobs, ledger, closers, FanningOut
<1>13. CASE FanOutFails(m)
  <2>1. ChildType' /\ TriggersJobs'
    BY <1>13 DEF FanOutFails, Create, ChildType, TriggersJobs
  <2>2. QED
    BY <1>13, <2>1 DEF FanOutFails, Goto, JobsType, LedgerType, MasterType,
       TriggersJobs, FinalizerType, ClosersType, jobs, ledger, closers, FanningOut
<1>14. CASE Catch(m)
  BY <1>14 DEF Catch, Goto, JobsType, LedgerType, MasterType, ChildType,
     TriggersJobs, FinalizerType, ClosersType, ledger, closers, Closed
<1>15. CASE KillMaster(m)
  BY <1>15 DEF KillMaster, Goto, JobsType, LedgerType, MasterType, ChildType,
     TriggersJobs, FinalizerType, ClosersType, jobs, ledger, closers, Ended
<1>16. QED
  BY <1>1, <1>2, <1>3, <1>4, <1>5, <1>6, <1>7, <1>8, <1>9, <1>10, <1>11,
     <1>12, <1>13, <1>14, <1>15 DEF MasterStep

(* A child.                                                                 *)
LEMMA ChildStepType ==
  ASSUME Types, NEW x \in Ids \X Chunks, ChildStep(x)
  PROVE  Types'
<1> USE DEF Types, JobsType, MasterType, ClosersType, jobs, master, closers
<1>1. CASE Process(x) \/ Check(x) \/ RecordFails(x) \/ KillChild(x)
  <2>1. ChildType' /\ TriggersJobs'
    BY <1>1 DEF Process, Check, RecordFails, KillChild,
       Advance, IsLastChunk, ChildType, TriggersJobs, Ended
  <2>2. QED
    BY <1>1, <2>1 DEF Process, Check, RecordFails, KillChild, LedgerType,
       FinalizerType, ledger
<1>2. CASE Record(x)
  <2>1. ChildType' /\ TriggersJobs'
    BY <1>2 DEF Record, Advance, ChildType, TriggersJobs
  <2>2. QED
    BY <1>2, <2>1 DEF Record, LedgerType, FinalizerType
<1>3. CASE Trigger(x)
  <2>1. ChildType' /\ TriggersJobs'
    BY <1>3 DEF Trigger, Advance, ChildType, TriggersJobs, Ended
  <2>2. QED
    BY <1>3, <2>1 DEF Trigger, LedgerType, FinalizerType, TriggersJobs
<1>4. CASE CreateFinalizer(x)
  <2>1. ChildType' /\ TriggersJobs'
    BY <1>4 DEF CreateFinalizer, Advance, ChildType, TriggersJobs, Ended
  <2>2. FinalizerType'
    BY <1>4 DEF CreateFinalizer, FinalizerType
  <2>3. QED
    BY <1>4, <2>1, <2>2 DEF CreateFinalizer, LedgerType, ledger
<1>5. QED
  BY <1>1, <1>2, <1>3, <1>4 DEF ChildStep

(* Finalizers, and the others who write sync_jobs.                          *)
LEMMA JobStepType ==
  ASSUME Types, NEW j \in Jobs, JobStep(j)
  PROVE  Types'
<1> USE DEF Types, LedgerType, MasterType, ChildType, TriggersJobs, ledger, master
<1>1. CASE MarkCompleted(j) \/ FinalizerFails(j)
  <2>1. status' \in [Jobs -> {"absent", "running"} \cup Closed]
    BY <1>1, SetStatusType DEF MarkCompleted, FinalizerFails, Closed
  <2>2. FinalizerType'
    BY <1>1 DEF MarkCompleted, FinalizerFails, FinalizerType, Ended
  <2>3. QED
    BY <1>1, <2>1, <2>2 DEF MarkCompleted, FinalizerFails, JobsType,
       ClosersType, closers
<1>2. CASE KillFinalizer(j)
  BY <1>2 DEF KillFinalizer, FinalizerType, Ended, JobsType, jobs, ClosersType,
     closers
<1>3. CASE ManualClose(j)
  <2>1. status' \in [Jobs -> {"absent", "running"} \cup Closed]
    BY <1>3, SetStatusType DEF ManualClose, Closed
  <2>2. QED
    BY <1>3, <2>1 DEF ManualClose, JobsType, FinalizerType, ClosersType, closers
<1>4. CASE Inspect(j)
  <2>1. ClosersType'
    BY <1>4 DEF Inspect, Outcome, ClosersType
  <2>2. QED
    BY <1>4, <2>1 DEF Inspect, JobsType, jobs, FinalizerType
<1>5. CASE Reconcile(j)
  <2>1. status' \in [Jobs -> {"absent", "running"} \cup Closed]
    BY <1>5 DEF Reconcile, SetStatus, JobsType, ClosersType, Closed
  <2>2. ClosersType'
    BY <1>5 DEF Reconcile, ClosersType
  <2>3. QED
    BY <1>5, <2>1, <2>2 DEF Reconcile, JobsType, FinalizerType
<1>6. QED
  BY <1>1, <1>2, <1>3, <1>4, <1>5 DEF JobStep

LEMMA TypeNext ==
  ASSUME Types, [Next]_vars
  PROVE  Types'
<1>1. ASSUME NEW m \in Masters, MasterStep(m) PROVE Types'
  BY <1>1, MasterStepType
<1>2. ASSUME NEW x \in Ids \X Chunks, ChildStep(x) PROVE Types'
  BY <1>2, ChildStepType
<1>3. ASSUME NEW j \in Jobs, JobStep(j) PROVE Types'
  BY <1>3, JobStepType
<1>4. CASE ManualOpen
  <2>1. JobsType'
    BY <1>4, InsertJobType DEF ManualOpen, Types
  <2>2. QED
    BY <1>4, <2>1 DEF ManualOpen, Types, LedgerType, MasterType, ChildType,
       TriggersJobs, FinalizerType, ClosersType, ledger, master, closers
<1>5. CASE SelectStale
  <2>1. ClosersType'
    BY <1>5 DEF SelectStale, Types, ClosersType, Running, MayLookOverdue
  <2>2. QED
    BY <1>5, <2>1 DEF SelectStale, Types, JobsType, LedgerType, MasterType,
       ChildType, TriggersJobs, FinalizerType, jobs, ledger, master
<1>6. CASE FailStale
  BY <1>6 DEF FailStale, Types, JobsType, LedgerType, MasterType, ChildType,
     TriggersJobs, FinalizerType, ClosersType, ledger, master, Closed
<1>7. CASE Tick
  <2>1. age' \in [Jobs -> 0..TimeoutAge]
    BY <1>7, Bounds DEF Tick, Types, JobsType
  <2>2. QED
    BY <1>7, <2>1 DEF Tick, Types, JobsType, LedgerType, MasterType, ChildType,
       TriggersJobs, FinalizerType, ClosersType, ledger, master, closers
<1>8. CASE UNCHANGED vars
  BY <1>8 DEF vars, jobs, ledger, master, closers, Types, JobsType, LedgerType,
     MasterType, ChildType, TriggersJobs, FinalizerType, ClosersType
<1>9. QED
  BY <1>1, <1>2, <1>3, <1>4, <1>5, <1>6, <1>7, <1>8 DEF Next

(* Every variable of the pipeline keeps its type.                           *)
THEOREM TypeCorrect == Spec => []TypeOK
<1>1. Spec => []Types
  BY TypeInit, TypeNext, PTL DEF Spec
<1>2. QED
  BY <1>1, TypesImplyTypeOK, PTL

------------------------------------------------------------------------------
(* The concurrency guard.  A master about to insert found no row running,   *)
(* so the rows that run now were inserted by masters that were in the guard *)
(* with it; and none of them is its own, unless it looked again since.      *)

MetInGuard ==
  \A m, n \in Masters :
    pc[m] \in Guarding /\ pc[n] \in Guarding /\ m # n => n \in met[m]

IdleHasNone == \A m \in Masters : pc[m] = "idle" => \A j \in Jobs : instance[j] # m

OpensBesideMet ==
  \A m \in Masters, j \in Running :
    pc[m] = "open" /\ instance[j] # NoMaster =>
      instance[j] # m /\ instance[j] \in met[m] /\ m \in met[instance[j]]

GuardInv == Types /\ MetInGuard /\ IdleHasNone /\ OpensBesideMet /\ OneRunning

(* A statement that closes a row, or sets its status to what it was, opens  *)
(* none.                                                                    *)
LEMMA SetStatusOpensNone ==
  ASSUME JobsType, NEW j, NEW s, s # "running" \/ (j \in Running), SetStatus(j, s)
  PROVE  Running' \subseteq Running
BY DEF JobsType, SetStatus, Running

(* Only the guard's INSERT, and an administrator's, makes a row run.        *)
LEMMA OnlyGuardOpens ==
  ASSUME Types, [Next]_vars, ~ManualOpen, \A m \in Masters : ~OpenJob(m)
  PROVE  Running' \subseteq Running
<1> USE DEF Types
<1>1. CASE UNCHANGED status
  BY <1>1 DEF Running
<1>2. ASSUME NEW m \in Masters, ExpireOld(m) PROVE Running' \subseteq Running
  BY <1>2 DEF ExpireOld, Running
<1>3. ASSUME NEW m \in Masters, CloseEmpty(m) PROVE Running' \subseteq Running
  BY <1>3, SetStatusOpensNone DEF CloseEmpty
<1>4. ASSUME NEW m \in Masters, Catch(m) PROVE Running' \subseteq Running
  BY <1>4 DEF Catch, Running
<1>5. ASSUME NEW m \in Masters, MasterStep(m) PROVE Running' \subseteq Running
  <2>1. UNCHANGED status \/ ExpireOld(m) \/ CloseEmpty(m) \/ Catch(m)
    BY <1>5 DEF MasterStep, StartMaster, LookForRunning, GuardFails, Fetch,
       FetchFails, Resolve, SetCount, Spawn, Wait, FanOutFails, KillMaster, jobs
  <2>2. QED
    BY <1>1, <1>2, <1>3, <1>4, <2>1
<1>6. ASSUME NEW x \in Ids \X Chunks, ChildStep(x) PROVE Running' \subseteq Running
  BY <1>1, <1>6 DEF ChildStep, Process, Record, Check, Trigger, CreateFinalizer,
     RecordFails, KillChild, jobs
<1>7. ASSUME NEW j \in Jobs, JobStep(j) PROVE Running' \subseteq Running
  <2>1. CASE MarkCompleted(j) \/ FinalizerFails(j)
    BY <2>1, SetStatusOpensNone DEF MarkCompleted, FinalizerFails
  <2>2. CASE KillFinalizer(j) \/ Inspect(j)
    BY <1>1, <2>2 DEF KillFinalizer, Inspect, jobs
  <2>3. CASE Reconcile(j)
    BY <2>3 DEF Reconcile, SetStatus, Running, JobsType
  <2>4. CASE ManualClose(j)
    BY <2>4, SetStatusOpensNone DEF ManualClose
  <2>5. QED
    BY <1>7, <2>1, <2>2, <2>3, <2>4 DEF JobStep
<1>8. CASE FailStale
  BY <1>8 DEF FailStale, Running
<1>9. CASE SelectStale \/ Tick \/ UNCHANGED vars
  BY <1>1, <1>9 DEF SelectStale, Tick, vars, jobs
<1>10. QED
  BY <1>5, <1>6, <1>7, <1>8, <1>9 DEF Next

(* A master comes into the guard by starting, and to its INSERT by finding  *)
(* no running row.                                                          *)
LEMMA WaysIn ==
  ASSUME Types, [Next]_vars, NEW m \in Masters
  PROVE  /\ pc'[m] \in Guarding => pc[m] \in Guarding \/ StartMaster(m)
         /\ pc'[m] = "open" => pc[m] = "open" \/ LookForRunning(m)
<1> USE DEF Types, MasterType
<1>1. CASE UNCHANGED pc
  BY <1>1
<1>2. ASSUME NEW n \in Masters, MasterStep(n), n # m PROVE pc'[m] = pc[m]
  BY <1>2 DEF MasterStep, StartMaster, ExpireOld, LookForRunning, OpenJob,
     GuardFails, Fetch, FetchFails, Resolve, CloseEmpty, SetCount, Spawn, Wait,
     FanOutFails, Catch, KillMaster, Goto
<1>3. CASE MasterStep(m)
  <2>1. CASE StartMaster(m) \/ LookForRunning(m)
    BY <2>1 DEF StartMaster, LookForRunning, Goto, Guarding
  <2>2. CASE ExpireOld(m) \/ OpenJob(m) \/ GuardFails(m)
    BY <2>2 DEF ExpireOld, OpenJob, GuardFails, Goto, Guarding
  <2>3. pc'[m] \notin Guarding \/ StartMaster(m) \/ LookForRunning(m)
          \/ ExpireOld(m) \/ OpenJob(m) \/ GuardFails(m)
    BY <1>3 DEF MasterStep, Fetch, FetchFails, Resolve, CloseEmpty, SetCount,
       Spawn, Wait, FanOutFails, Catch, KillMaster, Goto, Guarding
  <2>4. QED
    BY <2>1, <2>2, <2>3 DEF Guarding
<1>4. ASSUME NEW x \in Ids \X Chunks, ChildStep(x) PROVE UNCHANGED pc
  BY <1>4 DEF ChildStep, Process, Record, Check, Trigger, CreateFinalizer,
     RecordFails, KillChild, master
<1>5. ASSUME NEW j \in Jobs, JobStep(j) PROVE UNCHANGED pc
  BY <1>5 DEF JobStep, MarkCompleted, FinalizerFails, KillFinalizer, ManualClose,
     Inspect, Reconcile, master
<1>6. CASE ManualOpen \/ SelectStale \/ FailStale \/ Tick \/ UNCHANGED vars
  BY <1>1, <1>6 DEF ManualOpen, SelectStale, FailStale, Tick, vars, master
<1>7. QED
  BY <1>1, <1>2, <1>3, <1>4, <1>5, <1>6 DEF Next

(* A row keeps the instance it was opened by, and a master the masters it   *)
(* met, but for the two INSERTs and for a master that starts.               *)
LEMMA GuardStill ==
  ASSUME Types, [Next]_vars
  PROVE  /\ (\E n \in Masters : OpenJob(n)) \/ ManualOpen \/ UNCHANGED instance
         /\ (\E n \in Masters : StartMaster(n)) \/ UNCHANGED met
         /\ \A m \in Masters : pc'[m] = "idle" => pc[m] = "idle"
<1> USE DEF Types, MasterType
<1>1. CASE UNCHANGED <<instance, met, pc>>
  BY <1>1
<1>2. ASSUME NEW n \in Masters, MasterStep(n)
      PROVE  /\ OpenJob(n) \/ UNCHANGED instance
             /\ StartMaster(n) \/ UNCHANGED met
             /\ \A m \in Masters : pc'[m] = "idle" => pc[m] = "idle"
  BY <1>2 DEF MasterStep, StartMaster, ExpireOld, LookForRunning, OpenJob,
     GuardFails, Fetch, FetchFails, Resolve, CloseEmpty, SetCount, Spawn, Wait,
     FanOutFails, Catch, KillMaster, Goto, jobs, Guarding
<1>3. ASSUME NEW x \in Ids \X Chunks, ChildStep(x) PROVE UNCHANGED <<instance, met, pc>>
  BY <1>3 DEF ChildStep, Process, Record, Check, Trigger, CreateFinalizer,
     RecordFails, KillChild, jobs, master
<1>4. ASSUME NEW j \in Jobs, JobStep(j) PROVE UNCHANGED <<instance, met, pc>>
  BY <1>4 DEF JobStep, MarkCompleted, FinalizerFails, KillFinalizer, ManualClose,
     Inspect, Reconcile, jobs, master
<1>5. CASE SelectStale \/ FailStale \/ Tick \/ UNCHANGED vars
  BY <1>1, <1>5 DEF SelectStale, FailStale, Tick, vars, jobs, master
<1>6. CASE ManualOpen
  BY <1>6 DEF ManualOpen, master
<1>7. QED
  BY <1>1, <1>2, <1>3, <1>4, <1>5, <1>6 DEF Next

LEMMA GuardInvNext ==
  ASSUME GuardInv, [Next]_vars
  PROVE  GuardInv'
<1> USE DEF GuardInv
<1>1. Types'
  BY TypeNext
<1>2. CASE \E m \in Masters : StartMaster(m)
  <2>1. PICK m \in Masters : StartMaster(m)
    BY <1>2
  <2>2. /\ pc[m] = "idle" /\ pc' = [pc EXCEPT ![m] = "expire"]
        /\ met'[m] = {k \in Masters : pc[k] \in Guarding}
        /\ \A n \in Masters \ {m} :
             met'[n] = IF pc[n] \in Guarding THEN met[n] \cup {m} ELSE met[n]
        /\ UNCHANGED <<status, instance>> /\ Running' = Running
    BY <2>1 DEF StartMaster, Goto, jobs, Running
  <2>3. MetInGuard'
    <3> SUFFICES ASSUME NEW a \in Masters, NEW b \in Masters, a # b,
                        pc'[a] \in Guarding, pc'[b] \in Guarding
                 PROVE  b \in met'[a]
      BY DEF MetInGuard
    <3>1. \A n \in Masters \ {m} : pc'[n] = pc[n]
      BY <2>2 DEF Types, MasterType
    <3>2. CASE a = m
      BY <2>2, <3>1, <3>2
    <3>3. CASE b = m
      BY <2>2, <3>1, <3>3
    <3>4. CASE a # m /\ b # m
      BY <2>2, <3>1, <3>4 DEF MetInGuard
    <3>5. QED
      BY <3>2, <3>3, <3>4
  <2>4. IdleHasNone'
    BY <2>2, GuardStill DEF IdleHasNone
  <2>5. \A n \in Masters \ {m} : met[n] \subseteq met'[n]
    BY <2>2
  <2>6. ASSUME NEW j \in Running, instance[j] # NoMaster
        PROVE  instance[j] \in Masters \ {m}
    BY <2>2, <2>6 DEF IdleHasNone, Running, Types, JobsType
  <2>7. OpensBesideMet'
    <3> SUFFICES ASSUME NEW n \in Masters, NEW j \in Running, pc'[n] = "open",
                        instance[j] # NoMaster
                 PROVE  /\ instance[j] # n /\ instance[j] \in met'[n]
                        /\ n \in met'[instance[j]]
      BY <2>2 DEF OpensBesideMet
    <3>1. n # m /\ pc[n] = "open"
      BY <2>2 DEF Types, MasterType
    <3>2. QED
      BY <2>5, <2>6, <3>1 DEF OpensBesideMet
  <2>8. OneRunning'
    BY <2>2, <2>5, <2>6 DEF OneRunning
  <2>9. QED
    BY <1>1, <2>3, <2>4, <2>7, <2>8
<1>3. CASE \A m \in Masters : ~StartMaster(m)
  <2>1. met' = met
    BY <1>3, GuardStill
  <2>2. MetInGuard'
    BY <1>3, <2>1, WaysIn DEF MetInGuard
  <2>3. CASE \E m \in Masters : OpenJob(m)
    <3>1. PICK m \in Masters, j \in Jobs : OpenJob(m) /\ InsertJob(j, m)
      BY <2>3 DEF OpenJob
    <3>2. /\ pc[m] = "open" /\ pc[m] \in Guarding /\ pc'[m] \in {"fetch", "expire"}
          /\ \A n \in Masters \ {m} : pc'[n] = pc[n]
      BY <3>1 DEF OpenJob, Goto, Guarding, Types, MasterType
    <3>3. /\ Running' = Running \cup {j} /\ j \notin Running /\ instance'[j] = m
          /\ \A k \in Jobs \ {j} : instance'[k] = instance[k]
      BY <3>1 DEF InsertJob, Running, Types, JobsType
    <3>4. IdleHasNone'
      BY <3>2, <3>3 DEF IdleHasNone
    <3>5. ASSUME NEW n \in Masters, pc'[n] = "open"
          PROVE  n # m /\ n \in met[m] /\ m \in met[n]
      BY <3>2, <3>5 DEF MetInGuard, Guarding
    <3>6. ASSUME NEW k \in Running
          PROVE  k \in Jobs /\ k # j /\ instance'[k] = instance[k]
      BY <3>3 DEF Running
    <3>7. OpensBesideMet'
      <4> SUFFICES ASSUME NEW n \in Masters, NEW k \in Running', pc'[n] = "open",
                          instance'[k] # NoMaster
                   PROVE  /\ instance'[k] # n /\ instance'[k] \in met[n]
                          /\ n \in met[instance'[k]]
        BY <2>1 DEF OpensBesideMet
      <4>1. CASE k = j
        BY <3>3, <3>5, <4>1
      <4>2. CASE k \in Running
        BY <3>2, <3>5, <3>6, <4>2 DEF OpensBesideMet
      <4>3. QED
        BY <3>3, <4>1, <4>2
    <3>8. OneRunning'
      <4> SUFFICES ASSUME NEW k \in Running', NEW l \in Running', k # l,
                          instance'[k] # NoMaster, instance'[l] # NoMaster
                   PROVE  instance'[k] # instance'[l] /\ instance'[k] \in met[instance'[l]]
        BY <2>1 DEF OneRunning
      <4>1. CASE k = j
        BY <3>2, <3>3, <3>6, <4>1 DEF OpensBesideMet
      <4>2. CASE l = j
        BY <3>2, <3>3, <3>6, <4>2 DEF OpensBesideMet
      <4>3. CASE k # j /\ l # j
        BY <3>3, <3>6, <4>3 DEF OneRunning
      <4>4. QED
        BY <4>1, <4>2, <4>3
    <3>9. QED
      BY <1>1, <2>2, <3>4, <3>7, <3>8
  <2>4. CASE ManualOpen
    <3>1. PICK j \in Jobs : InsertJob(j, NoMaster)
      BY <2>4 DEF ManualOpen
    <3>2. /\ Running' = Running \cup {j} /\ instance'[j] = NoMaster
          /\ \A k \in Jobs \ {j} : instance'[k] = instance[k]
      BY <3>1 DEF InsertJob, Running, Types, JobsType
    <3>3. UNCHANGED pc /\ Running \subseteq Jobs /\ NoMaster \notin Masters
      BY <2>4, IngestionAssumption DEF ManualOpen, master, Running
    <3>4. IdleHasNone'
      BY <3>2, <3>3 DEF IdleHasNone
    <3>5. ASSUME NEW k \in Running', instance'[k] # NoMaster
          PROVE  k \in Running /\ instance'[k] = instance[k]
      BY <3>2, <3>3, <3>5
    <3>6. OpensBesideMet' /\ OneRunning'
      BY <2>1, <3>3, <3>5 DEF OpensBesideMet, OneRunning
    <3>7. QED
      BY <1>1, <2>2, <3>4, <3>6
  <2>5. CASE ~ManualOpen /\ \A m \in Masters : ~OpenJob(m)
    <3>1. Running' \subseteq Running /\ instance' = instance
      BY <2>5, OnlyGuardOpens, GuardStill
    <3>2. IdleHasNone'
      BY <3>1, GuardStill DEF IdleHasNone
    <3>3. ASSUME NEW m \in Masters, pc'[m] = "open" PROVE pc[m] = "open" \/ Running = {}
      BY <3>3, WaysIn DEF LookForRunning, Goto, Types, MasterType
    <3>4. OpensBesideMet' /\ OneRunning'
      BY <2>1, <3>1, <3>3 DEF OpensBesideMet, OneRunning
    <3>5. QED
      BY <1>1, <2>2, <3>2, <3>4
  <2>6. QED
    BY <2>3, <2>4, <2>5
<1>4. QED
  BY <1>2, <1>3

(* OneRunning, with no assumption: rows of two masters run beside each      *)
(* other only if the two were in check-concurrency at once, and no master   *)
(* has two, whatever is retried, killed, slow, closed late or opened by an  *)
(* administrator in between.                                                *)
THEOREM GuardHolds == Spec => []OneRunning
<1>1. Init => GuardInv
  BY TypeInit, IngestionAssumption DEF GuardInv, Init, MetInGuard, IdleHasNone,
     OpensBesideMet, OneRunning, Guarding, Running
<1>2. GuardInv /\ [Next]_vars => GuardInv'
  BY GuardInvNext
<1>3. QED
  BY <1>1, <1>2, PTL DEF Spec, GuardInv

------------------------------------------------------------------------------
(* The finalizer comes last.  With one master the chunk_count of a row,     *)
(* once set, is the number of chunks the master has fetched; children have  *)
(* numbers up to it, so as many recorded chunks are all of them.            *)

OneMaster == \A m, n \in Masters : m = n

Early == {"idle", "fetch"} \cup Guarding

Counted ==
  \A j \in Jobs : total[j] > 0 =>
    \E m \in Masters : total[j] = size[m] /\ pc[m] \notin Early

Created ==
  \A x \in Ids \X Chunks : child[x] # "none" =>
    \E m \in Masters : x[2] <= size[m] /\ pc[m] \notin Early

RecordedCreated == \A x \in recorded : child[x] # "none"

EmptyFetched == \A m \in Masters : pc[m] = "empty" => size[m] = 0

Full(j) == total[j] > 0 /\ \A c \in 1..total[j] : <<j, c>> \in recorded

FullFirst ==
  /\ \A x \in Ids \X Chunks : child[x] \in {"trigger", "create"} => Full(x[1])
  /\ \A j \in Jobs : finalizer[j] # "none" => Full(j)

FanInv ==
  Types /\ Counted /\ Created /\ RecordedCreated /\ EmptyFetched /\ FullFirst

(* As many recorded chunks as chunk_count are all the chunks, and all of    *)
(* them are as many.                                                        *)
LEMMA LastIsAll ==
  ASSUME NEW j \in Jobs, total[j] \in Nat,
         \A c \in Chunks : <<j, c>> \in recorded => c <= total[j]
  PROVE  /\ IsLastChunk(j) => Full(j)
         /\ Full(j) /\ total[j] <= MaxChunks => IsLastChunk(j)
<1> DEFINE S == {c \in Chunks : <<j, c>> \in recorded}
           T == 1..total[j]
<1>1. S \subseteq T
  BY Bounds DEF Chunks
<1>2. IsFiniteSet(T) /\ Cardinality(T) = total[j]
  <2>1. 1 \in Int /\ total[j] \in Int /\ total[j] - 1 + 1 = total[j]
    OBVIOUS
  <2>2. IsFiniteSet(1..total[j])
          /\ Cardinality(1..total[j])
               = IF 1 > total[j] THEN 0 ELSE total[j] - 1 + 1
    BY <2>1, FS_Interval
  <2>3. QED
    BY <2>1, <2>2
<1>3. IsFiniteSet(S) /\ Cardinality(S) <= Cardinality(T) /\ Cardinality(S) \in Nat
  BY <1>1, <1>2, FS_Subset, FS_CardinalityType
<1>4. ASSUME IsLastChunk(j)
      PROVE  Full(j)
  <2>1. Cardinality(S) = Cardinality(T)
    BY <1>2, <1>3, <1>4 DEF IsLastChunk, CountRecorded
  <2>2. S = T
    BY <1>1, <1>2, <2>1, FS_Subset
  <2>3. QED
    BY <1>4, <2>2 DEF Full, IsLastChunk
<1>5. ASSUME Full(j), total[j] <= MaxChunks
      PROVE  IsLastChunk(j)
  <2>1. T \subseteq S
    BY <1>5, Bounds DEF Full, Chunks
  <2>2. Cardinality(S) = total[j]
    BY <1>1, <1>2, <2>1
  <2>3. QED
    BY <1>5, <2>2 DEF IsLastChunk, CountRecorded, Full
<1>6. QED
  BY <1>4, <1>5

LEMMA LastIsFull ==
  ASSUME OneMaster, Types, Counted, Created, RecordedCreated,
         NEW j \in Jobs, IsLastChunk(j)
  PROVE  Full(j)
<1>1. total[j] \in Nat /\ total[j] > 0 /\ j \in Ids
  BY Bounds DEF IsLastChunk, Types, JobsType
<1>2. PICK m \in Masters : total[j] = size[m] /\ pc[m] \notin Early
  BY <1>1 DEF Counted
<1>3. ASSUME NEW c \in Chunks, <<j, c>> \in recorded
      PROVE  c <= total[j]
  <2>1. c \in Nat \ {0} /\ <<j, c>> \in Ids \X Chunks
    BY <1>1 DEF Chunks
  <2>2. child[<<j, c>>] # "none"
    BY <1>3 DEF RecordedCreated
  <2>3. PICK n \in Masters : <<j, c>>[2] <= size[n]
    BY <2>1, <2>2 DEF Created
  <2>4. n = m
    BY DEF OneMaster
  <2>5. QED
    BY <1>2, <2>1, <2>3, <2>4
<1>4. QED
  BY <1>1, <1>3, LastIsAll

(* A master past its fetch stays past it, and keeps what it fetched.        *)
LEMMA Onward ==
  ASSUME Types, [Next]_vars, NEW m \in Masters, pc[m] \notin Early
  PROVE  pc'[m] \notin Early /\ size'[m] = size[m]
<1> USE DEF Types, MasterType
<1>1. CASE UNCHANGED master
  BY <1>1 DEF master
<1>2. ASSUME NEW n \in Masters, MasterStep(n)
      PROVE  pc'[m] \notin Early /\ size'[m] = size[m]
  <2>1. CASE n # m
    BY <1>2, <2>1 DEF MasterStep, StartMaster, ExpireOld, LookForRunning, OpenJob,
       GuardFails, Fetch, FetchFails, Resolve, CloseEmpty, SetCount, Spawn, Wait,
       FanOutFails, Catch, KillMaster, Goto
  <2>2. CASE n = m
    <3>1. ~(StartMaster(m) \/ ExpireOld(m) \/ LookForRunning(m) \/ OpenJob(m)
              \/ GuardFails(m) \/ Fetch(m) \/ FetchFails(m))
      BY DEF StartMaster, ExpireOld, LookForRunning, OpenJob, GuardFails, Fetch,
         FetchFails, Early, Guarding
    <3>2. QED
      BY <1>2, <2>2, <3>1 DEF MasterStep, Resolve, CloseEmpty, SetCount, Spawn, Wait,
         FanOutFails, Catch, KillMaster, Goto, Early, Guarding
  <2>3. QED
    BY <2>1, <2>2
<1>3. ASSUME NEW x \in Ids \X Chunks, ChildStep(x) PROVE UNCHANGED master
  BY <1>3 DEF ChildStep, Process, Record, Check, Trigger, CreateFinalizer,
     RecordFails, KillChild
<1>4. ASSUME NEW j \in Jobs, JobStep(j) PROVE UNCHANGED master
  BY <1>4 DEF JobStep, MarkCompleted, FinalizerFails, KillFinalizer, ManualClose,
     Inspect, Reconcile
<1>5. CASE ManualOpen \/ SelectStale \/ FailStale \/ Tick \/ UNCHANGED vars
  BY <1>1, <1>5 DEF ManualOpen, SelectStale, FailStale, Tick, vars
<1>6. QED
  BY <1>1, <1>2, <1>3, <1>4, <1>5 DEF Next

(* chunk_count is set by a fan-out, to what its master fetched, and taken   *)
(* back only by one that fetched nothing.                                   *)
LEMMA TotalSteps ==
  ASSUME Types, [Next]_vars
  PROVE  \/ UNCHANGED total
         \/ \E m \in Masters : SetCount(m) \/ CloseEmpty(m)
<1>1. ASSUME NEW m \in Masters, MasterStep(m), ~SetCount(m), ~CloseEmpty(m)
      PROVE  UNCHANGED total
  BY <1>1 DEF MasterStep, StartMaster, ExpireOld, LookForRunning, OpenJob,
     InsertJob, GuardFails, Fetch, FetchFails, Resolve, Spawn, Wait, FanOutFails,
     Catch, KillMaster, jobs
<1>2. ASSUME NEW x \in Ids \X Chunks, ChildStep(x) PROVE UNCHANGED total
  BY <1>2 DEF ChildStep, Process, Record, Check, Trigger, CreateFinalizer,
     RecordFails, KillChild, jobs
<1>3. ASSUME NEW j \in Jobs, JobStep(j) PROVE UNCHANGED total
  BY <1>3 DEF JobStep, MarkCompleted, FinalizerFails, KillFinalizer, ManualClose,
     Inspect, Reconcile, jobs
<1>4. CASE ManualOpen \/ SelectStale \/ FailStale \/ Tick \/ UNCHANGED vars
  BY <1>4 DEF ManualOpen, InsertJob, SelectStale, FailStale, Tick, vars, jobs
<1>5. QED
  BY <1>1, <1>2, <1>3, <1>4 DEF Next

LEMMA TotalKept ==
  ASSUME OneMaster, FanInv, [Next]_vars, NEW j \in Jobs, total[j] > 0
  PROVE  total'[j] = total[j]
<1> USE DEF FanInv, Types
<1>1. PICK m \in Masters : total[j] = size[m] /\ pc[m] \notin Early
  BY DEF Counted
<1>2. CASE UNCHANGED total
  BY <1>2
<1>3. ASSUME NEW n \in Masters, SetCount(n) PROVE total'[j] = total[j]
  <2>1. n = m
    BY DEF OneMaster
  <2>2. QED
    BY <1>1, <1>3, <2>1 DEF SetCount, JobsType
<1>4. ASSUME NEW n \in Masters, CloseEmpty(n) PROVE FALSE
  <2>1. n = m /\ size[n] = 0
    BY <1>4 DEF OneMaster, CloseEmpty, EmptyFetched
  <2>2. QED
    BY <1>1, <2>1
<1>5. QED
  BY <1>2, <1>3, <1>4, TotalSteps

(* The ledger of chunks only grows, and with the row of a chunk.            *)
LEMMA RecordedSteps ==
  ASSUME Types, [Next]_vars
  PROVE  \/ UNCHANGED recorded
         \/ \E x \in Ids \X Chunks : Record(x)
<1>1. ASSUME NEW m \in Masters, MasterStep(m) PROVE UNCHANGED recorded
  BY <1>1 DEF MasterStep, StartMaster, ExpireOld, LookForRunning, OpenJob,
     GuardFails, Fetch, FetchFails, Resolve, CloseEmpty, SetCount, Spawn, Wait,
     FanOutFails, Catch, KillMaster, ledger
<1>2. ASSUME NEW x \in Ids \X Chunks, ChildStep(x), ~Record(x)
      PROVE  UNCHANGED recorded
  BY <1>2 DEF ChildStep, Process, Check, Trigger, CreateFinalizer, RecordFails,
     KillChild, ledger
<1>3. ASSUME NEW j \in Jobs, JobStep(j) PROVE UNCHANGED recorded
  BY <1>3 DEF JobStep, MarkCompleted, FinalizerFails, KillFinalizer, ManualClose,
     Inspect, Reconcile, ledger
<1>4. CASE ManualOpen \/ SelectStale \/ FailStale \/ Tick \/ UNCHANGED vars
  BY <1>4 DEF ManualOpen, SelectStale, FailStale, Tick, vars, ledger
<1>5. QED
  BY <1>1, <1>2, <1>3, <1>4 DEF Next

LEMMA FullKept ==
  ASSUME OneMaster, FanInv, [Next]_vars, NEW j \in Jobs, Full(j)
  PROVE  Full(j)'
<1>1. total'[j] = total[j]
  BY TotalKept DEF Full
<1>2. recorded \subseteq recorded'
  BY RecordedSteps DEF FanInv, Record
<1>3. QED
  BY <1>1, <1>2 DEF Full

(* A child is born in a fan-out and never forgotten; it comes to the        *)
(* trigger by the check.                                                    *)
LEMMA ChildSteps ==
  ASSUME Types, [Next]_vars, NEW x \in Ids \X Chunks
  PROVE  /\ child[x] # "none" => child'[x] # "none"
         /\ child[x] = "none" /\ child'[x] # "none" =>
              /\ child'[x] = "process"
              /\ \E m \in Masters : pc[m] = "spawn" /\ x \in Batch(m)
         /\ child'[x] \in {"trigger", "create"} =>
              child[x] \in {"trigger", "create"} \/ (Check(x) /\ IsLastChunk(x[1]))
<1> USE DEF Types, ChildType
<1>1. ASSUME UNCHANGED child PROVE child'[x] = child[x]
  BY <1>1
<1>2. CASE child'[x] = child[x]
  BY <1>2
<1>3. ASSUME NEW m \in Masters, Spawn(m) \/ FanOutFails(m), child'[x] # child[x]
      PROVE  /\ child[x] = "none" /\ child'[x] = "process"
             /\ pc[m] = "spawn" /\ x \in Batch(m)
  BY <1>3 DEF Spawn, FanOutFails, Create
<1>4. ASSUME NEW m \in Masters, MasterStep(m), ~Spawn(m), ~FanOutFails(m)
      PROVE  UNCHANGED child
  BY <1>4 DEF MasterStep, StartMaster, ExpireOld, LookForRunning, OpenJob,
     GuardFails, Fetch, FetchFails, Resolve, CloseEmpty, SetCount, Wait, Catch,
     KillMaster
<1>5. ASSUME NEW y \in Ids \X Chunks, ChildStep(y), y # x PROVE child'[x] = child[x]
  BY <1>5 DEF ChildStep, Process, Record, Check, Trigger, CreateFinalizer,
     RecordFails, KillChild, Advance
<1>6. ASSUME ChildStep(x)
      PROVE  /\ child[x] # "none" /\ child'[x] # "none"
             /\ child'[x] \in {"trigger", "create"} =>
                  child[x] \in {"trigger", "create"} \/ (Check(x) /\ IsLastChunk(x[1]))
  <2>1. CASE Check(x)
    BY <2>1 DEF Check, Advance
  <2>2. CASE Process(x) \/ Record(x) \/ Trigger(x)
    BY <2>2 DEF Process, Record, Trigger, Advance
  <2>3. CASE CreateFinalizer(x) \/ RecordFails(x) \/ KillChild(x)
    BY <2>3 DEF CreateFinalizer, RecordFails, KillChild, Advance
  <2>4. QED
    BY <1>6, <2>1, <2>2, <2>3 DEF ChildStep
<1>7. ASSUME NEW j \in Jobs, JobStep(j) PROVE UNCHANGED child
  BY <1>7 DEF JobStep, MarkCompleted, FinalizerFails, KillFinalizer, ManualClose,
     Inspect, Reconcile
<1>8. CASE ManualOpen \/ SelectStale \/ FailStale \/ Tick \/ UNCHANGED vars
  BY <1>1, <1>2, <1>8 DEF ManualOpen, SelectStale, FailStale, Tick, vars
<1>9. ASSUME NEW m \in Masters, MasterStep(m)
      PROVE  \/ child'[x] = child[x]
             \/ /\ child[x] = "none" /\ child'[x] = "process"
                /\ pc[m] = "spawn" /\ x \in Batch(m)
  BY <1>3, <1>4, <1>9
<1>10. QED
  BY <1>1, <1>2, <1>5, <1>6, <1>7, <1>8, <1>9 DEF Next

(* A finalizer is created by a child at the end of its trigger.             *)
LEMMA FinalizerSteps ==
  ASSUME Types, [Next]_vars, NEW j \in Jobs, finalizer'[j] # "none"
  PROVE  \/ finalizer[j] # "none"
         \/ \E x \in Ids \X Chunks : x[1] = j /\ child[x] = "create"
<1> USE DEF Types, FinalizerType
<1>1. CASE UNCHANGED finalizer
  BY <1>1
<1>2. ASSUME NEW m \in Masters, MasterStep(m) PROVE UNCHANGED finalizer
  BY <1>2 DEF MasterStep, StartMaster, ExpireOld, LookForRunning, OpenJob,
     GuardFails, Fetch, FetchFails, Resolve, CloseEmpty, SetCount, Spawn, Wait,
     FanOutFails, Catch, KillMaster
<1>3. ASSUME NEW x \in Ids \X Chunks, CreateFinalizer(x)
      PROVE  finalizer[j] # "none" \/ (x[1] = j /\ child[x] = "create")
  BY <1>3 DEF CreateFinalizer
<1>4. ASSUME NEW x \in Ids \X Chunks, ChildStep(x), ~CreateFinalizer(x)
      PROVE  UNCHANGED finalizer
  BY <1>4 DEF ChildStep, Process, Record, Check, Trigger, RecordFails, KillChild
<1>5. ASSUME NEW k \in Jobs, JobStep(k) PROVE finalizer[j] # "none"
  BY <1>5 DEF JobStep, MarkCompleted, FinalizerFails, KillFinalizer, ManualClose,
     Inspect, Reconcile
<1>6. CASE ManualOpen \/ SelectStale \/ FailStale \/ Tick \/ UNCHANGED vars
  BY <1>1, <1>6 DEF ManualOpen, SelectStale, FailStale, Tick, vars
<1>7. QED
  BY <1>1, <1>2, <1>3, <1>4, <1>5, <1>6 DEF Next

LEMMA EmptySteps ==
  ASSUME Types, EmptyFetched, [Next]_vars
  PROVE  EmptyFetched'
<1> SUFFICES ASSUME NEW m \in Masters, pc'[m] = "empty" PROVE size'[m] = 0
  BY DEF EmptyFetched
<1> USE DEF Types, MasterType
<1>1. CASE UNCHANGED master
  BY <1>1 DEF master, EmptyFetched
<1>2. ASSUME NEW n \in Masters, MasterStep(n) PROVE size'[m] = 0
  <2>1. CASE Resolve(n)
    BY <2>1 DEF Resolve, Goto, EmptyFetched
  <2>2. CASE n # m
    BY <1>2, <2>2 DEF EmptyFetched, MasterStep, StartMaster, ExpireOld,
       LookForRunning, OpenJob, GuardFails, Fetch, FetchFails, Resolve, CloseEmpty,
       SetCount, Spawn, Wait, FanOutFails, Catch, KillMaster, Goto
  <2>3. CASE n = m /\ ~Resolve(n)
    BY <1>2, <2>3 DEF MasterStep, StartMaster, ExpireOld, LookForRunning, OpenJob,
       GuardFails, Fetch, FetchFails, CloseEmpty, SetCount, Spawn, Wait,
       FanOutFails, Catch, KillMaster, Goto
  <2>4. QED
    BY <2>1, <2>2, <2>3
<1>3. ASSUME NEW x \in Ids \X Chunks, ChildStep(x) PROVE UNCHANGED master
  BY <1>3 DEF ChildStep, Process, Record, Check, Trigger, CreateFinalizer,
     RecordFails, KillChild
<1>4. ASSUME NEW j \in Jobs, JobStep(j) PROVE UNCHANGED master
  BY <1>4 DEF JobStep, MarkCompleted, FinalizerFails, KillFinalizer, ManualClose,
     Inspect, Reconcile
<1>5. CASE ManualOpen \/ SelectStale \/ FailStale \/ Tick \/ UNCHANGED vars
  BY <1>1, <1>5 DEF ManualOpen, SelectStale, FailStale, Tick, vars
<1>6. QED
  BY <1>1, <1>2, <1>3, <1>4, <1>5 DEF Next

LEMMA FanInvNext ==
  ASSUME OneMaster, FanInv, [Next]_vars
  PROVE  FanInv'
<1> USE DEF FanInv
<1>1. Types' /\ EmptyFetched'
  BY TypeNext, EmptySteps
<1>2. Counted'
  <2> SUFFICES ASSUME NEW j \in Jobs, total'[j] > 0
               PROVE  \E m \in Masters : total'[j] = size'[m] /\ pc'[m] \notin Early
    BY DEF Counted
  <2>1. CASE total'[j] = total[j]
    BY <2>1, Onward DEF Counted
  <2>2. ASSUME NEW m \in Masters, SetCount(m), total'[j] # total[j]
        PROVE  total'[j] = size'[m] /\ pc'[m] \notin Early
    BY <2>2 DEF SetCount, Goto, Types, JobsType, MasterType, Early, Guarding
  <2>3. ASSUME NEW m \in Masters, CloseEmpty(m) PROVE total'[j] = total[j]
    BY <2>3 DEF CloseEmpty, Types, JobsType
  <2>4. QED
    BY <2>1, <2>2, <2>3, TotalSteps
<1>3. Created'
  <2> SUFFICES ASSUME NEW x \in Ids \X Chunks, child'[x] # "none"
               PROVE  \E m \in Masters : x[2] <= size'[m] /\ pc'[m] \notin Early
    BY DEF Created
  <2>1. CASE child[x] # "none"
    BY <2>1, Onward DEF Created
  <2>2. CASE child[x] = "none"
    <3>1. PICK m \in Masters : pc[m] = "spawn" /\ x \in Batch(m)
      BY <2>2, ChildSteps
    <3>2. size[m] \in Nat /\ sent[m] \in Nat /\ BatchSize \in Nat
      BY Bounds DEF Types, MasterType
    <3>3. BatchEnd(m) <= size[m] /\ BatchEnd(m) \in Int
      BY <3>2 DEF BatchEnd
    <3>4. x[2] \in sent[m] + 1 .. BatchEnd(m)
      BY <3>1 DEF Batch
    <3>5. x[2] <= size[m] /\ pc[m] \notin Early
      BY <3>1, <3>2, <3>3, <3>4 DEF Early, Guarding
    <3>6. QED
      BY <3>5, Onward
  <2>3. QED
    BY <2>1, <2>2
<1>4. RecordedCreated'
  <2> SUFFICES ASSUME NEW x \in recorded' PROVE child'[x] # "none"
    BY DEF RecordedCreated
  <2>1. x \in Ids \X Chunks
    BY <1>1 DEF Types, LedgerType
  <2>2. x \in recorded \/ child[x] # "none"
    BY RecordedSteps DEF Record
  <2>3. QED
    BY <2>1, <2>2, ChildSteps DEF RecordedCreated
<1>5. FullFirst'
  <2>1. ASSUME NEW x \in Ids \X Chunks, child'[x] \in {"trigger", "create"}
        PROVE  Full(x[1])'
    <3>1. x[1] \in Jobs
      BY <1>1, <2>1 DEF Types, TriggersJobs
    <3>2. Full(x[1])
      BY <2>1, <3>1, ChildSteps, LastIsFull DEF FullFirst
    <3>3. QED
      BY <3>1, <3>2, FullKept
  <2>2. ASSUME NEW j \in Jobs, finalizer'[j] # "none" PROVE Full(j)'
    BY <2>2, FinalizerSteps, FullKept DEF FullFirst
  <2>3. QED
    BY <2>1, <2>2 DEF FullFirst
<1>6. QED
  BY <1>1, <1>2, <1>3, <1>4, <1>5

LEMMA FanInvInit == Init => FanInv
BY TypeInit DEF FanInv, Init, Counted, Created, RecordedCreated, EmptyFetched,
   FullFirst

(* With one master, a finalizer is only ever started for a row all of whose *)
(* chunks are recorded, whatever steps are retried, whichever children are  *)
(* killed and however many there are.                                       *)
THEOREM FinalizerComesLast ==
  ASSUME OneMaster
  PROVE  Spec => []FinalizerLast
<1>1. Init => FanInv
  BY FanInvInit
<1>2. FanInv /\ [Next]_vars => FanInv'
  BY FanInvNext
<1>3. FanInv => FinalizerLast
  BY DEF FanInv, FullFirst, Full, FinalizerLast
<1>4. QED
  BY <1>1, <1>2, <1>3, PTL DEF Spec

------------------------------------------------------------------------------
(* Who closes a row, and when.                                              *)

LEMMA StatusSteps ==
  ASSUME Types, [Next]_vars, NEW j \in Jobs, status'[j] # status[j]
  PROVE  \/ status[j] = "absent" /\ status'[j] = "running"
         \/ status[j] = "running" /\ status'[j] = "failed"
         \/ status[j] = "running" /\ Reconcile(j) /\ status'[j] = verdict[j]
         \/ j \in doomed /\ status'[j] = "failed"
         \/ /\ status'[j] \in {"completed", "partial"}
            /\ \/ \E m \in Masters : CloseEmpty(m) /\ target[m] = j
               \/ MarkCompleted(j) \/ FinalizerFails(j) \/ ManualClose(j)
<1> USE DEF Types, JobsType
<1>0. ASSUME NEW k, NEW s, SetStatus(k, s) PROVE k = j /\ status'[j] = s
  BY <1>0 DEF SetStatus
<1>1. ASSUME NEW m \in Masters, MasterStep(m)
      PROVE  \/ ExpireOld(m) \/ Catch(m) \/ CloseEmpty(m) \/ OpenJob(m)
  BY <1>1 DEF MasterStep, StartMaster, LookForRunning, GuardFails, Fetch,
     FetchFails, Resolve, SetCount, Spawn, Wait, FanOutFails, KillMaster, jobs
<1>2. ASSUME NEW m \in Masters, ExpireOld(m) \/ Catch(m)
      PROVE  status[j] = "running" /\ status'[j] = "failed"
  BY <1>2 DEF ExpireOld, Catch, Expired, MayLookOverdue, Running
<1>3. ASSUME NEW m \in Masters, CloseEmpty(m)
      PROVE  status'[j] \in {"completed", "partial"} /\ target[m] = j
  BY <1>0, <1>3 DEF CloseEmpty
<1>4. ASSUME NEW k \in Jobs, NEW m, InsertJob(k, m)
      PROVE  status[j] = "absent" /\ status'[j] = "running"
  BY <1>4 DEF InsertJob
<1>5. ASSUME NEW x \in Ids \X Chunks, ChildStep(x) PROVE FALSE
  BY <1>5 DEF ChildStep, Process, Record, Check, Trigger, CreateFinalizer,
     RecordFails, KillChild, jobs
<1>6. ASSUME NEW k \in Jobs, JobStep(k)
      PROVE  \/ status[j] = "running" /\ Reconcile(j) /\ status'[j] = verdict[j]
             \/ /\ status'[j] \in {"completed", "partial"}
                /\ MarkCompleted(j) \/ FinalizerFails(j) \/ ManualClose(j)
  <2>1. CASE MarkCompleted(k) \/ FinalizerFails(k) \/ ManualClose(k)
    BY <1>0, <2>1 DEF MarkCompleted, FinalizerFails, ManualClose
  <2>2. CASE Reconcile(k)
    BY <1>0, <2>2 DEF Reconcile
  <2>3. QED
    BY <1>6, <2>1, <2>2 DEF JobStep, KillFinalizer, Inspect, jobs
<1>7. CASE FailStale
  BY <1>7 DEF FailStale
<1>8. CASE SelectStale \/ Tick \/ UNCHANGED vars
  BY <1>8 DEF SelectStale, Tick, vars, jobs
<1>9. QED
  BY <1>1, <1>2, <1>3, <1>4, <1>5, <1>6, <1>7, <1>8 DEF Next, OpenJob, ManualOpen

(* LateCloseIsWhole: whoever closes a row that is closed already - a second *)
(* finalizer's end, a slow fan-out, the reconciler, the maintenance with    *)
(* yesterday's selection - completes it only when it is whole, and fails it *)
(* only if it was selected while it ran; and nobody opens it again.         *)
THEOREM LateCloses ==
  ASSUME OneMaster
  PROVE  Spec => LateCloseIsWhole
<1>1. Init => FanInv
  BY FanInvInit
<1>2. FanInv /\ [Next]_vars => FanInv'
  BY FanInvNext
<1>3. FanInv /\ [Next]_vars =>
        [\A j \in Jobs : status[j] \in Closed /\ status'[j] # status[j] =>
           \/ status'[j] \in {"completed", "partial"} /\ (Whole(j)' \/ instance[j] = NoMaster)
           \/ status'[j] = "failed" /\ j \in doomed]_vars
  <2> SUFFICES ASSUME FanInv, Next, NEW j \in Jobs, status[j] \in Closed,
                      status'[j] # status[j]
               PROVE  \/ /\ status'[j] \in {"completed", "partial"}
                         /\ Whole(j)' \/ instance[j] = NoMaster
                      \/ status'[j] = "failed" /\ j \in doomed
    OBVIOUS
  <2>1. status[j] \notin {"absent", "running"} /\ Types
    BY DEF Closed, FanInv
  <2>2. ASSUME NEW m \in Masters, CloseEmpty(m), target[m] = j
        PROVE  Whole(j)'
    <3>1. total'[j] = 0
      BY <2>1, <2>2, Bounds DEF CloseEmpty, Types, JobsType
    <3>2. QED
      BY <3>1 DEF Whole
  <2>3. ASSUME MarkCompleted(j) \/ FinalizerFails(j)
        PROVE  Whole(j)'
    BY <2>3 DEF MarkCompleted, FinalizerFails, FanInv, FullFirst, Full, Whole, ledger
  <2>4. ManualClose(j) => instance[j] = NoMaster
    BY DEF ManualClose
  <2>5. QED
    BY <2>1, <2>2, <2>3, <2>4, StatusSteps
<1>4. QED
  BY <1>1, <1>2, <1>3, PTL DEF Spec, LateCloseIsWhole

------------------------------------------------------------------------------
(* A completed row.  Its finalizer completed it, and then it is Full; or    *)
(* its master is done, because the row was completed by the master that     *)
(* found nothing or by the reconciler who asked for it: and a master that   *)
(* is done has a child for each of its chunks, for good.                    *)

Unfetched == \A m \in Masters : pc[m] \in Early => size[m] = 0

HasChildren(m, n) == \A c \in 1..n : child[<<target[m], c>>] # "none"

SentOut ==
  \A m \in Masters :
    /\ pc[m] \in {"spawn", "wait"} => HasChildren(m, sent[m])
    /\ pc[m] = "done" => HasChildren(m, size[m])

Done(m) == m \in Masters /\ pc[m] = "done"

AskedWhenDone ==
  \A j \in Jobs : verdict[j] = "completed" => status[j] # "absent" /\ Done(instance[j])

FullOrDone ==
  \A j \in Jobs : status[j] = "completed" /\ instance[j] # NoMaster =>
    Full(j) \/ Done(instance[j])

WholeInv == FanInv /\ Unfetched /\ SentOut /\ AskedWhenDone /\ FullOrDone

LEMMA RowKept ==
  ASSUME Types, [Next]_vars, NEW j \in Jobs, status[j] # "absent"
  PROVE  status'[j] # "absent" /\ instance'[j] = instance[j]
<1>1. status'[j] # "absent"
  BY StatusSteps DEF Types, ClosersType, JobsType, Reconcile
<1>2. ASSUME NEW k \in Jobs, NEW m, InsertJob(k, m) PROVE instance'[j] = instance[j]
  BY <1>2 DEF InsertJob, Types, JobsType
<1>3. instance'[j] = instance[j]
  BY <1>2, GuardStill DEF OpenJob, ManualOpen
<1>4. QED
  BY <1>1, <1>3

(* What the steps of a master do to its fan-out.                            *)
LEMMA SpawnSends ==
  ASSUME Types, SentOut, NEW m \in Masters, Spawn(m)
  PROVE  HasChildren(m, sent[m])' /\ (pc'[m] = "done" => HasChildren(m, size[m])')
<1>1. sent[m] \in Nat /\ size[m] \in 0..MaxChunks /\ target[m] \in Ids /\ MaxChunks \in Nat
  BY Bounds DEF Types, MasterType
<1>2. BatchEnd(m) \in 0..MaxChunks
  BY BatchEndType DEF Types
<1>3. sent'[m] = BatchEnd(m) /\ target'[m] = target[m] /\ size'[m] = size[m]
  BY DEF Spawn, Types, MasterType
<1>4. ASSUME NEW c \in 1..BatchEnd(m)
      PROVE  child'[<<target[m], c>>] # "none"
  <2>1. <<target[m], c>> \in Ids \X Chunks
    BY <1>1, <1>2 DEF Chunks
  <2>2. CASE c <= sent[m]
    <3>1. child[<<target[m], c>>] # "none"
      BY <1>1, <2>2 DEF SentOut, HasChildren, Spawn
    <3>2. QED
      BY <2>1, <3>1 DEF Spawn, Create
  <2>3. CASE ~(c <= sent[m])
    <3>1. <<target[m], c>> \in Batch(m)
      BY <1>1, <1>2, <2>3 DEF Batch
    <3>2. QED
      BY <2>1, <3>1 DEF Spawn, Create
  <2>4. QED
    BY <2>2, <2>3
<1>5. pc'[m] = "done" => BatchEnd(m) = size[m]
  BY DEF Spawn, Goto, Types, MasterType
<1>6. QED
  BY <1>3, <1>4, <1>5 DEF HasChildren

LEMMA SentOutNext ==
  ASSUME FanInv, Unfetched, SentOut, [Next]_vars
  PROVE  Unfetched' /\ SentOut'
<1>0. Types /\ EmptyFetched
  BY DEF FanInv
<1>1. ASSUME NEW x \in Ids \X Chunks, child[x] # "none" PROVE child'[x] # "none"
  BY <1>0, <1>1, ChildSteps
<1>2. ASSUME NEW m \in Masters, NEW n \in 0..MaxChunks, HasChildren(m, n),
             target'[m] = target[m]
      PROVE  \A c \in 1..n : child'[<<target'[m], c>>] # "none"
  <2>1. \A c \in 1..n : <<target[m], c>> \in Ids \X Chunks
    BY <1>0, Bounds DEF Types, MasterType, Chunks
  <2>2. QED
    BY <1>1, <1>2, <2>1 DEF HasChildren
<1>3. ASSUME NEW m \in Masters, UNCHANGED <<pc[m], size[m], target[m], sent[m]>>
      PROVE  /\ pc'[m] \in Early => size'[m] = 0
             /\ pc'[m] \in {"spawn", "wait"} => HasChildren(m, sent[m])'
             /\ pc'[m] = "done" => HasChildren(m, size[m])'
  <2>1. size[m] \in 0..MaxChunks /\ sent[m] \in 0..MaxChunks
    BY <1>0 DEF Types, MasterType
  <2>2. QED
    BY <1>2, <1>3, <2>1 DEF Unfetched, SentOut, HasChildren
<1>4. ASSUME NEW m \in Masters, MasterStep(m)
      PROVE  /\ pc'[m] \in Early => size'[m] = 0
             /\ pc'[m] \in {"spawn", "wait"} => HasChildren(m, sent[m])'
             /\ pc'[m] = "done" => HasChildren(m, size[m])'
  <2> USE <1>0 DEF Types, MasterType
  <2>1. CASE Spawn(m)
    BY <2>1, SpawnSends DEF Spawn, Goto, Early, Guarding
  <2>2. CASE Wait(m)
    <3>1. /\ UNCHANGED <<size, target, sent, child>> /\ pc[m] = "wait" /\ pc'[m] = "spawn"
      BY <2>2 DEF Wait, Goto
    <3>2. QED
      BY <3>1 DEF SentOut, HasChildren, Early, Guarding
  <2>3. CASE SetCount(m)
    <3>1. sent'[m] = 0 /\ pc'[m] = "spawn"
      BY <2>3 DEF SetCount, Goto
    <3>2. QED
      BY <3>1 DEF HasChildren, Early, Guarding
  <2>4. CASE LookForRunning(m)
    <3>1. size'[m] = 0 /\ pc'[m] \in {"open", "done"}
      BY <2>4 DEF LookForRunning, Goto, Unfetched, Early, Guarding
    <3>2. QED
      BY <3>1 DEF HasChildren
  <2>5. CASE CloseEmpty(m)
    <3>1. size'[m] = 0 /\ pc'[m] = "done"
      BY <2>5 DEF CloseEmpty, Goto, EmptyFetched
    <3>2. QED
      BY <3>1 DEF HasChildren
  <2>6. CASE StartMaster(m) \/ ExpireOld(m) \/ OpenJob(m) \/ GuardFails(m)
    <3>1. pc[m] \in Early /\ size'[m] = size[m] /\ pc'[m] \notin {"spawn", "wait", "done"}
      BY <2>6 DEF StartMaster, ExpireOld, OpenJob, GuardFails, Goto, Early, Guarding
    <3>2. QED
      BY <3>1 DEF Unfetched
  <2>7. CASE Fetch(m) \/ FetchFails(m) \/ Resolve(m) \/ FanOutFails(m) \/ Catch(m)
               \/ KillMaster(m)
    BY <2>7 DEF Fetch, FetchFails, Resolve, FanOutFails, Catch, KillMaster, Goto, Early,
       Guarding
  <2>8. QED
    BY <1>4, <2>1, <2>2, <2>3, <2>4, <2>5, <2>6, <2>7 DEF MasterStep
<1>5. ASSUME NEW n \in Masters, MasterStep(n), NEW m \in Masters, m # n
      PROVE  UNCHANGED <<pc[m], size[m], target[m], sent[m]>>
  BY <1>0, <1>5 DEF MasterStep, StartMaster, ExpireOld, LookForRunning, OpenJob,
     GuardFails, Fetch, FetchFails, Resolve, CloseEmpty, SetCount, Spawn, Wait,
     FanOutFails, Catch, KillMaster, Goto, Types, MasterType
<1>6. ASSUME NEW x \in Ids \X Chunks, ChildStep(x) PROVE UNCHANGED master
  BY <1>6 DEF ChildStep, Process, Record, Check, Trigger, CreateFinalizer,
     RecordFails, KillChild
<1>7. ASSUME NEW j \in Jobs, JobStep(j) PROVE UNCHANGED master
  BY <1>7 DEF JobStep, MarkCompleted, FinalizerFails, KillFinalizer, ManualClose,
     Inspect, Reconcile
<1>8. ASSUME NEW m \in Masters
      PROVE  \/ MasterStep(m)
             \/ UNCHANGED <<pc[m], size[m], target[m], sent[m]>>
  BY <1>5, <1>6, <1>7 DEF Next, ManualOpen, SelectStale, FailStale, Tick, vars, master
<1>9. QED
  BY <1>3, <1>4, <1>8 DEF Unfetched, SentOut

(* A master that is done stays done.                                        *)
LEMMA DoneKept ==
  ASSUME Types, [Next]_vars, NEW m, Done(m)
  PROVE  Done(m)'
<1> USE DEF Types, MasterType, Done
<1>1. CASE UNCHANGED master
  BY <1>1 DEF master
<1>2. ASSUME NEW n \in Masters, MasterStep(n) PROVE pc'[m] = "done"
  BY <1>2 DEF MasterStep, StartMaster, ExpireOld, LookForRunning, OpenJob,
     GuardFails, Fetch, FetchFails, Resolve, CloseEmpty, SetCount, Spawn, Wait,
     FanOutFails, Catch, KillMaster, Goto, Guarding, FanningOut, Ended
<1>3. ASSUME NEW x \in Ids \X Chunks, ChildStep(x) PROVE UNCHANGED master
  BY <1>3 DEF ChildStep, Process, Record, Check, Trigger, CreateFinalizer,
     RecordFails, KillChild
<1>4. ASSUME NEW j \in Jobs, JobStep(j) PROVE UNCHANGED master
  BY <1>4 DEF JobStep, MarkCompleted, FinalizerFails, KillFinalizer, ManualClose,
     Inspect, Reconcile
<1>5. CASE ManualOpen \/ SelectStale \/ FailStale \/ Tick \/ UNCHANGED vars
  BY <1>1, <1>5 DEF ManualOpen, SelectStale, FailStale, Tick, vars
<1>6. QED
  BY <1>1, <1>2, <1>3, <1>4, <1>5 DEF Next

LEMMA VerdictSteps ==
  ASSUME Types, [Next]_vars, NEW j \in Jobs, verdict'[j] = "completed"
  PROVE  verdict[j] = "completed" \/ (Inspect(j) /\ Done(instance[j]) /\ UNCHANGED jobs)
<1> USE DEF Types, ClosersType
<1>1. CASE UNCHANGED verdict
  BY <1>1
<1>2. ASSUME NEW m \in Masters, MasterStep(m) PROVE UNCHANGED verdict
  BY <1>2 DEF MasterStep, StartMaster, ExpireOld, LookForRunning, OpenJob,
     GuardFails, Fetch, FetchFails, Resolve, CloseEmpty, SetCount, Spawn, Wait,
     FanOutFails, Catch, KillMaster, closers
<1>3. ASSUME NEW x \in Ids \X Chunks, ChildStep(x) PROVE UNCHANGED verdict
  BY <1>3 DEF ChildStep, Process, Record, Check, Trigger, CreateFinalizer,
     RecordFails, KillChild, closers
<1>4. ASSUME NEW k \in Jobs, JobStep(k)
      PROVE  verdict[j] = "completed" \/ (Inspect(j) /\ Done(instance[j]) /\ UNCHANGED jobs)
  <2>1. CASE Inspect(k)
    BY <2>1 DEF Inspect, Outcome, Done, JobsType
  <2>2. CASE Reconcile(k)
    BY <2>2 DEF Reconcile
  <2>3. QED
    BY <1>4, <2>1, <2>2 DEF JobStep, MarkCompleted, FinalizerFails, KillFinalizer,
       ManualClose, closers
<1>5. CASE ManualOpen \/ SelectStale \/ FailStale \/ Tick \/ UNCHANGED vars
  BY <1>1, <1>5 DEF ManualOpen, SelectStale, FailStale, Tick, vars, closers
<1>6. QED
  BY <1>1, <1>2, <1>3, <1>4, <1>5 DEF Next

LEMMA WholeInvNext ==
  ASSUME OneMaster, WholeInv, [Next]_vars
  PROVE  WholeInv'
<1>0. FanInv /\ Types /\ Unfetched /\ SentOut /\ AskedWhenDone /\ FullOrDone
  BY DEF WholeInv, FanInv
<1>1. FanInv' /\ Unfetched' /\ SentOut'
  BY <1>0, FanInvNext, SentOutNext
<1>2. AskedWhenDone'
  <2> SUFFICES ASSUME NEW j \in Jobs, verdict'[j] = "completed"
               PROVE  status'[j] # "absent" /\ Done(instance[j])'
    BY DEF AskedWhenDone
  <2>1. status[j] # "absent" /\ Done(instance[j])
    BY <1>0, VerdictSteps DEF AskedWhenDone, Inspect
  <2>2. status'[j] # "absent" /\ instance'[j] = instance[j]
    BY <1>0, <2>1, RowKept
  <2>3. Done(instance[j])'
    BY <1>0, <2>1, <2>2, DoneKept DEF Done
  <2>4. QED
    BY <2>2, <2>3
<1>3. FullOrDone'
  <2> SUFFICES ASSUME NEW j \in Jobs, status'[j] = "completed", instance'[j] # NoMaster
               PROVE  Full(j)' \/ Done(instance[j])'
    BY DEF FullOrDone
  <2>1. status[j] # "absent" /\ instance'[j] = instance[j] /\ instance[j] \in Masters
    <3>1. status[j] # "absent"
      BY <1>0, StatusSteps DEF CloseEmpty, MarkCompleted, FinalizerFails, SetStatus,
         ManualClose
    <3>2. QED
      BY <1>0, <3>1, RowKept DEF Types, JobsType
  <2>2. Full(j) => Full(j)'
    BY <1>0, FullKept
  <2>3. Done(instance[j]) => Done(instance[j])'
    BY <1>0, <2>1, DoneKept DEF Done
  <2>4. CASE status[j] = "completed"
    BY <1>0, <2>1, <2>2, <2>3, <2>4 DEF FullOrDone
  <2>5. ASSUME NEW m \in Masters, CloseEmpty(m) PROVE Done(instance[j])'
    <3>1. m = instance[j]
      BY <2>1 DEF OneMaster
    <3>2. QED
      BY <1>0, <2>1, <2>5, <3>1 DEF CloseEmpty, Goto, Done, Types, MasterType
  <2>6. CASE MarkCompleted(j) \/ FinalizerFails(j)
    BY <1>0, <2>2, <2>6 DEF FanInv, FullFirst, MarkCompleted, FinalizerFails
  <2>7. CASE verdict[j] = "completed"
    BY <1>0, <2>3, <2>7 DEF AskedWhenDone
  <2>8. ~ManualClose(j)
    BY <2>1 DEF ManualClose
  <2>9. QED
    BY <1>0, <2>1, <2>4, <2>5, <2>6, <2>7, <2>8, StatusSteps
<1>4. QED
  BY <1>1, <1>2, <1>3 DEF WholeInv

(* CompletedIsWhole: a row its master opened is completed only with every   *)
(* chunk recorded, or, at the reconciler's hands, with a child for each of  *)
(* them; children may be slow, steps retried, workflows killed, rows closed *)
(* and opened beside it.                                                    *)
THEOREM CompletedWhole ==
  ASSUME OneMaster
  PROVE  Spec => []CompletedIsWhole
<1>1. Init => WholeInv
  BY FanInvInit DEF WholeInv, Init, Unfetched, SentOut, AskedWhenDone, FullOrDone, Early
<1>2. WholeInv /\ [Next]_vars => WholeInv'
  BY WholeInvNext
<1>3. WholeInv => CompletedIsWhole
  <2> SUFFICES ASSUME WholeInv, NEW j \in Jobs, status[j] = "completed",
                      instance[j] # NoMaster
               PROVE  Whole(j) \/ HandedOver(j)
    BY DEF CompletedIsWhole
  <2>1. CASE Full(j)
    BY <2>1 DEF Full, Whole
  <2>2. CASE Done(instance[j])
    <3>1. total[j] = size[instance[j]] \/ total[j] = 0
      BY <2>2 DEF WholeInv, FanInv, Counted, OneMaster, Done, Types, JobsType
    <3>2. HasChildren(instance[j], total[j])
      BY <2>2, <3>1 DEF WholeInv, SentOut, Done, HasChildren
    <3>3. QED
      BY <2>2, <3>2 DEF HandedOver, HasChildren, Done
  <2>3. QED
    BY <2>1, <2>2 DEF WholeInv, FullOrDone
<1>4. QED
  BY <1>1, <1>2, <1>3, PTL DEF Spec

------------------------------------------------------------------------------
(* The run nothing goes wrong in: the guards do not overlap, nobody starts  *)
(* a date-range backfill, no statement throws, no workflow is killed, and   *)
(* runs are shorter than the guard's patience.  There may be any number of  *)
(* masters, and every closer of the daily schedule is at work.              *)

Healthy == ~Overlap /\ ~Manual /\ ~Slow /\ ~Faults /\ ~Crashes

(* Guards that do not overlap: a master about to insert knows that no row   *)
(* is running, and only masters in the guard insert rows.                   *)

GuardAlone ==
  \A m, n \in Masters : pc[m] \in Guarding /\ pc[n] \in Guarding => m = n

OpensNone == \A m \in Masters : pc[m] = "open" => Running = {}

AtMostOne == \A j, k \in Running : j = k

AloneInv == Types /\ GuardAlone /\ OpensNone /\ AtMostOne

LEMMA AloneInvNext ==
  ASSUME ~Overlap, ~Manual, AloneInv, [Next]_vars
  PROVE  AloneInv'
<1> USE DEF AloneInv
<1>1. Types'
  BY TypeNext
<1>2. GuardAlone'
  <2> SUFFICES ASSUME NEW m \in Masters, NEW n \in Masters,
                      pc'[m] \in Guarding, pc'[n] \in Guarding, m # n
               PROVE  FALSE
    BY DEF GuardAlone
  <2>1. ASSUME NEW a \in Masters, NEW b \in Masters, a # b, StartMaster(a)
        PROVE  pc'[b] \notin Guarding
    BY <2>1 DEF StartMaster, Goto, Types, MasterType
  <2>2. pc[m] \in Guarding /\ pc[n] \in Guarding
    BY <2>1, WaysIn
  <2>3. QED
    BY <2>2 DEF GuardAlone
<1>3. CASE \E m \in Masters : OpenJob(m)
  <2>1. PICK m \in Masters : OpenJob(m)
    BY <1>3
  <2>2. PICK j \in Jobs : InsertJob(j, m)
    BY <2>1 DEF OpenJob
  <2>3. Running = {} /\ pc[m] = "open" /\ pc[m] \in Guarding
    BY <2>1 DEF OpenJob, OpensNone, Guarding
  <2>4. Running' \subseteq {j}
    BY <2>2, <2>3 DEF InsertJob, Running, Types, JobsType
  <2>5. ASSUME NEW n \in Masters PROVE pc'[n] # "open"
    <3>1. pc'[m] \in {"fetch", "expire"}
      BY <2>1 DEF OpenJob, Goto, Types, MasterType
    <3>2. n # m => pc'[n] = pc[n]
      BY <2>1 DEF OpenJob, Goto, Types, MasterType
    <3>3. n # m => pc[n] \notin Guarding
      BY <2>3 DEF GuardAlone
    <3>4. QED
      BY <3>1, <3>2, <3>3 DEF Guarding
  <2>6. QED
    BY <1>1, <1>2, <2>4, <2>5 DEF OpensNone, AtMostOne
<1>4. CASE \A m \in Masters : ~OpenJob(m)
  <2>1. Running' \subseteq Running
    BY <1>4, OnlyGuardOpens DEF ManualOpen
  <2>2. ASSUME NEW m \in Masters, pc'[m] = "open" PROVE Running = {}
    <3>1. CASE LookForRunning(m)
      BY <2>2, <3>1 DEF LookForRunning, Goto, Types, MasterType
    <3>2. QED
      BY <2>2, <3>1, WaysIn DEF OpensNone
  <2>3. QED
    BY <1>1, <1>2, <2>1, <2>2 DEF OpensNone, AtMostOne
<1>5. QED
  BY <1>3, <1>4

Live == {"fetch", "resolve", "empty", "count"}
Fan == {"spawn", "wait"}

(* No closer has anything to close.                                         *)
Calm ==
  /\ doomed = {}
  /\ \A j \in Jobs : verdict[j] = "none" /\ finalizer[j] # "dead"
  /\ \A m \in Masters : pc[m] \notin {"catch", "failed", "dead"}
  /\ \A x \in Ids \X Chunks : child[x] # "dead"
  /\ \A j \in Jobs : status[j] \in {"absent", "running"} => age[j] = 0

(* A master has one row, the running one, and fans out to it.               *)
Owned ==
  /\ \A j \in Jobs : status[j] = "absent" <=> instance[j] = NoMaster
  /\ \A j, k \in Jobs : instance[j] = instance[k] /\ instance[j] # NoMaster => j = k
  /\ \A m \in Masters :
       /\ pc[m] \in {"idle"} \cup Guarding => \A j \in Jobs : instance[j] # m
       /\ pc[m] \in Live \cup Fan => \E j \in Running : instance[j] = m
       /\ pc[m] \in {"empty", "count"} \cup Fan =>
            target[m] \in Running /\ instance[target[m]] = m
       /\ pc[m] = "empty" => size[m] = 0
       /\ pc[m] = "count" => size[m] > 0

(* A row without a chunk_count has no chunks, and its master is still       *)
(* before the fan-out or has closed it.                                     *)
Uncounted(j) ==
  /\ finalizer[j] = "none"
  /\ \A c \in Chunks : child[<<j, c>>] = "none"
  /\ status[j] = "running" => pc[instance[j]] \in Live

(* A row with a chunk_count has the children sent so far, and is open until *)
(* its finalizer is done.                                                   *)
FannedOut(j) ==
  LET m == instance[j] IN
  /\ m \in Masters
  /\ total[j] = size[m]
  /\ \A c \in Chunks : child[<<j, c>>] # "none" <=> c <= sent[m]
  /\ \/ pc[m] \in Fan /\ sent[m] < size[m]
     \/ pc[m] = "done" /\ sent[m] = size[m]
  /\ status[j] = "running" <=> finalizer[j] # "done"

RowsTold == \A j \in Jobs : IF total[j] = 0 THEN Uncounted(j) ELSE FannedOut(j)

(* The ledger tells the children that have recorded their chunk.            *)
LedgerTold ==
  /\ \A c \in Chunks : child[<<Fallback, c>>] = "none"
  /\ recorded = {x \in Ids \X Chunks : child[x] \in {"check", "trigger", "create", "done"}}

(* When all chunks of a row are recorded, one child is on its way to the    *)
(* trigger, or to the finalizer, or the finalizer is there.                 *)
TriggerTold ==
  \A j \in Jobs :
    /\ Full(j) /\ j \notin triggered =>
         \E c \in Chunks : child[<<j, c>>] \in {"check", "trigger"}
    /\ j \in triggered =>
         finalizer[j] # "none" \/ \E c \in Chunks : child[<<j, c>>] = "create"
    /\ j \in triggered \/ finalizer[j] # "none" => Full(j)
    /\ \A c \in Chunks : child[<<j, c>>] \in {"trigger", "create"} => Full(j)

HealthyInv == AloneInv /\ Calm /\ Owned /\ RowsTold /\ LedgerTold /\ TriggerTold

LEMMA HealthyInit == Init => HealthyInv
<1> SUFFICES ASSUME Init PROVE HealthyInv
  OBVIOUS
<1>1. AloneInv
  BY TypeInit DEF AloneInv, Init, GuardAlone, OpensNone, AtMostOne, Guarding, Running
<1>2. Calm
  BY DEF Init, Calm
<1>3. Owned
  BY IngestionAssumption DEF Init, Owned, Live, Fan
<1>4. RowsTold
  BY Bounds DEF Init, RowsTold, Uncounted
<1>5. LedgerTold
  BY Bounds DEF Init, LedgerTold
<1>6. TriggerTold
  BY Bounds DEF Init, TriggerTold, Full
<1>7. QED
  BY <1>1, <1>2, <1>3, <1>4, <1>5, <1>6 DEF HealthyInv

(* A row whose chunks are all recorded has been fanned out completely.      *)
LEMMA FullIsSent ==
  ASSUME HealthyInv, NEW j \in Jobs, Full(j)
  PROVE  pc[instance[j]] = "done" /\ instance[j] \in Masters
<1>1. Types /\ RowsTold /\ LedgerTold
  BY DEF HealthyInv, AloneInv
<1>2. total[j] \in 1..MaxChunks /\ FannedOut(j)
  BY <1>1, Bounds DEF Full, RowsTold, Types, JobsType
<1>3. <<j, total[j]>> \in recorded /\ total[j] \in Chunks /\ <<j, total[j]>> \in Ids \X Chunks
  BY <1>2, Bounds DEF Full, Chunks
<1>4. child[<<j, total[j]>>] # "none"
  BY <1>1, <1>3 DEF LedgerTold
<1>5. total[j] <= sent[instance[j]] /\ instance[j] \in Masters
  BY <1>2, <1>3, <1>4 DEF FannedOut
<1>6. sent[instance[j]] \in Nat /\ size[instance[j]] \in Nat /\ total[j] = size[instance[j]]
  BY <1>1, <1>2, <1>5 DEF FannedOut, Types, MasterType
<1>7. ~(sent[instance[j]] < size[instance[j]])
  BY <1>5, <1>6
<1>8. QED
  BY <1>2, <1>5, <1>7 DEF FannedOut

(* When nobody is busy, no row is running.                                  *)
LEMMA Quiescent ==
  ASSUME HealthyInv, ~Busy
  PROVE  Running = {}
<1> SUFFICES ASSUME NEW j \in Jobs, status[j] = "running"
             PROVE  FALSE
  BY DEF Running
<1>1. Types /\ Calm /\ Owned /\ RowsTold /\ LedgerTold /\ TriggerTold
  BY DEF HealthyInv, AloneInv
<1>2. instance[j] \in Masters /\ pc[instance[j]] \notin Live \cup Fan
  BY <1>1 DEF Owned, Types, JobsType, Busy, Live, Fan, Ended
<1>3. total[j] \in 1..MaxChunks /\ FannedOut(j)
  BY <1>1, <1>2, Bounds DEF RowsTold, Uncounted, Types, JobsType
<1>4. sent[instance[j]] = total[j]
  BY <1>2, <1>3 DEF FannedOut
<1>5. \A c \in Chunks : c <= total[j] => <<j, c>> \in recorded
  <2> SUFFICES ASSUME NEW c \in Chunks, c <= total[j]
               PROVE  <<j, c>> \in recorded
    OBVIOUS
  <2>1. <<j, c>> \in Ids \X Chunks
    BY Bounds
  <2>2. child[<<j, c>>] # "none" /\ child[<<j, c>>] # "dead"
    BY <1>1, <1>3, <1>4, <2>1 DEF FannedOut, Calm
  <2>3. child[<<j, c>>] = "done"
    BY <2>1, <2>2 DEF Busy, Ended
  <2>4. QED
    BY <1>1, <2>1, <2>3 DEF LedgerTold
<1>6. Full(j)
  BY <1>3, <1>5, Bounds DEF Full, Chunks
<1>7. \A c \in Chunks : child[<<j, c>>] \notin {"check", "trigger", "create"}
  <2>1. \A c \in Chunks : <<j, c>> \in Ids \X Chunks
    BY Bounds
  <2>2. QED
    BY <2>1 DEF Busy, Ended
<1>8. finalizer[j] # "none"
  BY <1>1, <1>6, <1>7 DEF TriggerTold
<1>9. finalizer[j] \in {"none", "running", "done", "dead"}
  BY <1>1 DEF Types, FinalizerType, Ended
<1>10. finalizer[j] # "done" /\ finalizer[j] # "running" /\ finalizer[j] # "dead"
  BY <1>1, <1>3 DEF FannedOut, Busy, Calm
<1>11. QED
  BY <1>8, <1>9, <1>10

(* What is left of Next: the others have nothing to do, or change nothing.  *)
HealthyStep ==
  \/ \E m \in Masters :
       \/ StartMaster(m) \/ LookForRunning(m) \/ OpenJob(m) \/ Fetch(m)
       \/ Resolve(m) \/ CloseEmpty(m) \/ SetCount(m) \/ Spawn(m) \/ Wait(m)
       \/ ExpireOld(m) /\ UNCHANGED status
  \/ \E x \in Ids \X Chunks :
       Process(x) \/ Record(x) \/ Check(x) \/ Trigger(x) \/ CreateFinalizer(x)
  \/ \E j \in Jobs : MarkCompleted(j)
  \/ UNCHANGED vars

LEMMA HealthySteps ==
  ASSUME Healthy, HealthyInv, [Next]_vars
  PROVE  HealthyStep
<1>1. Types /\ Calm /\ Owned
  BY DEF HealthyInv, AloneInv
<1>2. MayLookOverdue = {}
  BY <1>1 DEF MayLookOverdue, Running, Owned
<1>3. Expired = {} /\ {j \in Running : age[j] >= TimeoutAge} = {}
  BY <1>1, Bounds DEF Calm, Expired, Running
<1>4. ASSUME NEW m \in Masters, MasterStep(m)
      PROVE  HealthyStep
  <2>1. ~GuardFails(m) /\ ~FetchFails(m) /\ ~FanOutFails(m) /\ ~KillMaster(m)
    BY DEF Healthy, GuardFails, FetchFails, FanOutFails, KillMaster
  <2>2. ~Catch(m)
    BY <1>1 DEF Catch, Calm
  <2>3. ExpireOld(m) => UNCHANGED status
    BY <1>1, <1>2, <1>3 DEF ExpireOld, Types, JobsType
  <2>4. QED
    BY <1>4, <2>1, <2>2, <2>3 DEF MasterStep, HealthyStep
<1>5. ASSUME NEW x \in Ids \X Chunks, ChildStep(x)
      PROVE  HealthyStep
  BY <1>5 DEF ChildStep, HealthyStep, RecordFails, KillChild, Healthy
<1>6. ASSUME NEW j \in Jobs, JobStep(j)
      PROVE  HealthyStep
  <2>1. ~FinalizerFails(j) /\ ~KillFinalizer(j) /\ ~ManualClose(j)
    BY DEF Healthy, FinalizerFails, KillFinalizer, ManualClose
  <2>2. ~Reconcile(j)
    BY <1>1 DEF Reconcile, Calm
  <2>3. ~Inspect(j)
    BY <1>1, Bounds DEF Inspect, Calm
  <2>4. QED
    BY <1>6, <2>1, <2>2, <2>3 DEF JobStep, HealthyStep
<1>7. ~ManualOpen /\ ~FailStale
  BY <1>1 DEF ManualOpen, Healthy, FailStale, Calm
<1>8. CASE SelectStale
  <2>1. doomed' = doomed
    BY <1>1, <1>2, <1>3, <1>8 DEF SelectStale, Calm
  <2>2. QED
    BY <1>8, <2>1 DEF SelectStale, HealthyStep, vars, closers
<1>9. CASE Tick
  <2>1. Running = {}
    BY <1>9, Quiescent DEF Tick, Healthy
  <2>2. age' = age
    BY <1>1, <1>9, <2>1 DEF Tick, Running, Types, JobsType
  <2>3. QED
    BY <1>9, <2>2 DEF Tick, HealthyStep, vars, jobs
<1>10. QED
  BY <1>4, <1>5, <1>6, <1>7, <1>8, <1>9 DEF Next, HealthyStep

(* What only the masters' own variables say.                                *)
LEMMA LedgerStill ==
  ASSUME LedgerTold, TriggerTold, UNCHANGED <<ledger, child, total, finalizer>>
  PROVE  LedgerTold' /\ TriggerTold'
BY DEF LedgerTold, TriggerTold, ledger, Full

(* The guard, when it opens no row.                                         *)
LEMMA GuardHealthy ==
  ASSUME HealthyInv, NEW m \in Masters,
         \/ StartMaster(m) \/ LookForRunning(m)
         \/ ExpireOld(m) /\ UNCHANGED status
  PROVE  Calm' /\ Owned' /\ RowsTold' /\ LedgerTold' /\ TriggerTold'
<1>0. Types /\ Calm /\ Owned /\ RowsTold /\ LedgerTold /\ TriggerTold
  BY DEF HealthyInv, AloneInv
<1>1. /\ UNCHANGED <<jobs, ledger, size, target, sent, child, finalizer, closers>>
      /\ pc[m] \in {"idle"} \cup Guarding
  BY DEF StartMaster, LookForRunning, ExpireOld, Guarding, jobs
<1>2. PICK s \in {"expire", "look", "open", "done"} : pc' = [pc EXCEPT ![m] = s]
  BY DEF StartMaster, LookForRunning, ExpireOld, Goto
<1>3. pc'[m] = s /\ \A n \in Masters \ {m} : pc'[n] = pc[n]
  BY <1>0, <1>2 DEF Types, MasterType
<1>4. Calm'
  BY <1>0, <1>1, <1>3 DEF Calm, jobs, closers
<1>5. Owned'
  BY <1>0, <1>1, <1>3 DEF Owned, Running, jobs, Guarding, Live, Fan
<1>6. RowsTold'
  <2> SUFFICES ASSUME NEW j \in Jobs
               PROVE  IF total'[j] = 0 THEN Uncounted(j)' ELSE FannedOut(j)'
    BY DEF RowsTold
  <2>1. status[j] # "absent" => instance[j] \in Masters /\ instance[j] # m
    BY <1>0, <1>1 DEF Owned, Types, JobsType
  <2>2. CASE total[j] = 0
    BY <1>0, <1>1, <1>3, <2>1, <2>2 DEF RowsTold, Uncounted, jobs
  <2>3. CASE total[j] # 0
    BY <1>0, <1>1, <1>3, <2>3 DEF RowsTold, FannedOut, Owned, jobs
  <2>4. QED
    BY <2>2, <2>3, <1>1 DEF jobs
<1>7. QED
  BY <1>0, <1>1, <1>4, <1>5, <1>6, LedgerStill DEF jobs

LEMMA OpenHealthy ==
  ASSUME Healthy, HealthyInv, NEW m \in Masters, OpenJob(m)
  PROVE  Calm' /\ Owned' /\ RowsTold' /\ LedgerTold' /\ TriggerTold'
<1>0. Types /\ Calm /\ Owned /\ RowsTold /\ LedgerTold /\ TriggerTold
  BY DEF HealthyInv, AloneInv
<1>1. PICK j \in Jobs : InsertJob(j, m)
  BY DEF OpenJob
<1>2. /\ UNCHANGED <<age, total, ledger, size, target, sent, child, finalizer, closers>>
      /\ pc[m] = "open" /\ pc' = [pc EXCEPT ![m] = "fetch"]
      /\ status[j] = "absent"
      /\ status' = [status EXCEPT ![j] = "running"]
      /\ instance' = [instance EXCEPT ![j] = m]
  BY <1>1 DEF OpenJob, InsertJob, Goto, Healthy
<1>3. /\ pc'[m] = "fetch" /\ \A n \in Masters \ {m} : pc'[n] = pc[n]
      /\ status'[j] = "running" /\ instance'[j] = m
      /\ \A k \in Jobs \ {j} : status'[k] = status[k] /\ instance'[k] = instance[k]
  BY <1>0, <1>2 DEF Types, MasterType, JobsType
<1>4. m # NoMaster /\ \A k \in Jobs : instance[k] # m
  BY <1>0, <1>2, IngestionAssumption DEF Owned, Guarding
<1>5. Calm'
  BY <1>0, <1>2, <1>3 DEF Calm, closers
<1>6. Owned'
  <2>1. \A k \in Jobs : status'[k] = "absent" <=> instance'[k] = NoMaster
    BY <1>0, <1>3, <1>4 DEF Owned
  <2>2. \A i, k \in Jobs : instance'[i] = instance'[k] /\ instance'[i] # NoMaster => i = k
    BY <1>0, <1>3, <1>4 DEF Owned
  <2>3. \A n \in Masters :
          /\ pc'[n] \in {"idle"} \cup Guarding => \A k \in Jobs : instance'[k] # n
          /\ pc'[n] \in Live \cup Fan => \E k \in Running' : instance'[k] = n
          /\ pc'[n] = "empty" => size'[n] = 0
          /\ pc'[n] = "count" => size'[n] > 0
    BY <1>0, <1>2, <1>3 DEF Owned, Running, Guarding
  <2>4. \A n \in Masters : pc'[n] \in {"empty", "count"} \cup Fan =>
          target'[n] \in Running' /\ instance'[target'[n]] = n
    BY <1>0, <1>2, <1>3 DEF Owned, Running, Fan
  <2>5. QED
    BY <2>1, <2>2, <2>3, <2>4 DEF Owned
<1>7. RowsTold'
  <2> SUFFICES ASSUME NEW k \in Jobs
               PROVE  IF total'[k] = 0 THEN Uncounted(k)' ELSE FannedOut(k)'
    BY DEF RowsTold
  <2>1. CASE k = j
    <3>1. total[j] = 0
      BY <1>0, <1>2, IngestionAssumption DEF RowsTold, FannedOut, Owned
    <3>2. QED
      BY <1>0, <1>2, <1>3, <2>1, <3>1 DEF RowsTold, Uncounted, Live
  <2>2. CASE k # j
    <3>1. instance[k] # m
      BY <1>4
    <3>2. CASE total[k] = 0
      BY <1>0, <1>2, <1>3, <2>2, <3>1, <3>2 DEF RowsTold, Uncounted, Owned, Types, JobsType
    <3>3. CASE total[k] # 0
      BY <1>0, <1>2, <1>3, <2>2, <3>1, <3>3 DEF RowsTold, FannedOut
    <3>4. QED
      BY <3>2, <3>3, <1>2
  <2>3. QED
    BY <2>1, <2>2
<1>8. QED
  BY <1>0, <1>2, <1>5, <1>6, <1>7, LedgerStill

(* Fetching, and finding the row.                                           *)
LEMMA FetchHealthy ==
  ASSUME HealthyInv, NEW m \in Masters, Fetch(m) \/ Resolve(m)
  PROVE  Calm' /\ Owned' /\ RowsTold' /\ LedgerTold' /\ TriggerTold'
<1>0. Types /\ AtMostOne /\ Calm /\ Owned /\ RowsTold /\ LedgerTold /\ TriggerTold
  BY DEF HealthyInv, AloneInv
<1>1. /\ UNCHANGED <<jobs, ledger, sent, child, finalizer, closers>>
      /\ pc[m] \in {"fetch", "resolve"}
  BY DEF Fetch, Resolve
<1>2. /\ pc'[m] \in Live
      /\ \A n \in Masters \ {m} :
           pc'[n] = pc[n] /\ size'[n] = size[n] /\ target'[n] = target[n]
  BY <1>0 DEF Fetch, Resolve, Goto, Types, MasterType, Live
<1>3. PICK j \in Running : instance[j] = m
  BY <1>0, <1>1 DEF Owned, Live
<1>4. Running = {j} /\ j \in Jobs
  BY <1>0 DEF AtMostOne, Running
<1>5. Calm'
  BY <1>0, <1>1, <1>2 DEF Calm, jobs, closers, Live
<1>6. Owned'
  <2>1. /\ \A k \in Jobs : status'[k] = "absent" <=> instance'[k] = NoMaster
        /\ \A i, k \in Jobs : instance'[i] = instance'[k] /\ instance'[i] # NoMaster => i = k
    BY <1>0, <1>1 DEF Owned, jobs
  <2>2. ASSUME NEW n \in Masters, n # m
        PROVE  /\ pc'[n] \in {"idle"} \cup Guarding => \A k \in Jobs : instance'[k] # n
               /\ pc'[n] \in Live \cup Fan => \E k \in Running' : instance'[k] = n
               /\ pc'[n] \in {"empty", "count"} \cup Fan =>
                    target'[n] \in Running' /\ instance'[target'[n]] = n
               /\ pc'[n] = "empty" => size'[n] = 0
               /\ pc'[n] = "count" => size'[n] > 0
    BY <1>0, <1>1, <1>2, <2>2 DEF Owned, Running, jobs
  <2>3. Running' = Running /\ instance' = instance
    BY <1>1 DEF Running, jobs
  <2>4. CASE Fetch(m)
    <3>1. pc'[m] = "resolve"
      BY <1>0, <2>4 DEF Fetch, Goto, Types, MasterType
    <3>2. QED
      BY <1>3, <2>1, <2>2, <2>3, <3>1 DEF Owned, Guarding, Fan
  <2>5. CASE Resolve(m)
    <3>1. size' = size /\ size[m] \in Nat /\ pc'[m] = IF size[m] = 0 THEN "empty" ELSE "count"
      BY <1>0, <2>5 DEF Resolve, Goto, Types, MasterType
    <3>2. PICK k \in Ids : IsCurrent(k) /\ target' = [target EXCEPT ![m] = k]
      BY <2>5 DEF Resolve
    <3>3. k = j
      BY <1>4, <3>2 DEF IsCurrent
    <3>4. target'[m] = j
      BY <1>0, <3>2, <3>3 DEF Types, MasterType
    <3>5. pc'[m] \in {"empty", "count"} /\ (pc'[m] = "empty" => size'[m] = 0)
            /\ (pc'[m] = "count" => size'[m] > 0)
      BY <3>1
    <3>6. QED
      BY <1>3, <2>1, <2>2, <2>3, <3>4, <3>5 DEF Owned, Guarding
  <2>6. QED
    BY <2>4, <2>5
<1>7. RowsTold'
  <2> SUFFICES ASSUME NEW k \in Jobs
               PROVE  IF total'[k] = 0 THEN Uncounted(k)' ELSE FannedOut(k)'
    BY DEF RowsTold
  <2>1. CASE total[k] = 0
    BY <1>0, <1>1, <1>2, <2>1 DEF RowsTold, Uncounted, Owned, Types, JobsType, jobs, Live
  <2>2. CASE total[k] # 0
    <3>1. instance[k] \in Masters /\ instance[k] # m
      BY <1>0, <1>1, <2>2 DEF RowsTold, FannedOut, Fan
    <3>2. QED
      BY <1>0, <1>1, <1>2, <2>2, <3>1 DEF RowsTold, FannedOut, jobs
  <2>3. QED
    BY <1>1, <2>1, <2>2 DEF jobs
<1>8. QED
  BY <1>0, <1>1, <1>5, <1>6, <1>7, LedgerStill DEF jobs

(* Nothing was fetched: the row is closed.                                  *)
LEMMA EmptyHealthy ==
  ASSUME HealthyInv, NEW m \in Masters, CloseEmpty(m)
  PROVE  Calm' /\ Owned' /\ RowsTold' /\ LedgerTold' /\ TriggerTold'
<1>0. Types /\ Calm /\ Owned /\ RowsTold /\ LedgerTold /\ TriggerTold
  BY DEF HealthyInv, AloneInv
<1>1. PICK j \in Jobs : j = target[m] /\ status[j] = "running" /\ instance[j] = m
  BY <1>0 DEF CloseEmpty, Owned, Running
<1>2. total[j] = 0
  BY <1>0, <1>1 DEF CloseEmpty, RowsTold, FannedOut, Fan
<1>3. PICK s \in {"completed", "partial"} : SetStatus(j, s)
  BY <1>1 DEF CloseEmpty
<1>4. /\ UNCHANGED <<age, total, instance, ledger, size, target, sent, child, finalizer, closers>>
      /\ pc[m] = "empty" /\ pc' = [pc EXCEPT ![m] = "done"]
      /\ status' = [status EXCEPT ![j] = s]
  BY <1>0, <1>1, <1>2, <1>3, Bounds DEF CloseEmpty, Goto, SetStatus, Types, JobsType
<1>5. /\ pc'[m] = "done" /\ \A n \in Masters \ {m} : pc'[n] = pc[n]
      /\ status'[j] = s /\ \A k \in Jobs \ {j} : status'[k] = status[k]
  BY <1>0, <1>4 DEF Types, MasterType, JobsType
<1>6. Calm'
  BY <1>0, <1>4, <1>5 DEF Calm, closers
<1>7. Owned'
  <2>1. \A k \in Jobs : status'[k] = "absent" <=> instance'[k] = NoMaster
    BY <1>0, <1>1, <1>4, <1>5 DEF Owned
  <2>2. \A n \in Masters \ {m}, k \in Running : instance[k] = n => k \in Running'
    BY <1>1, <1>5 DEF Running
  <2>3. QED
    BY <1>0, <1>4, <1>5, <2>1, <2>2 DEF Owned, Guarding, Live, Fan
<1>8. RowsTold'
  <2> SUFFICES ASSUME NEW k \in Jobs
               PROVE  IF total'[k] = 0 THEN Uncounted(k)' ELSE FannedOut(k)'
    BY DEF RowsTold
  <2>1. CASE k = j
    BY <1>0, <1>2, <1>4, <1>5, <2>1 DEF RowsTold, Uncounted
  <2>2. CASE k # j
    <3>1. instance[k] # m
      BY <1>0, <1>1, <2>2, IngestionAssumption DEF Owned
    <3>2. CASE total[k] = 0
      BY <1>0, <1>4, <1>5, <2>2, <3>1, <3>2 DEF RowsTold, Uncounted, Owned, Types, JobsType
    <3>3. CASE total[k] # 0
      BY <1>0, <1>4, <1>5, <2>2, <3>1, <3>3 DEF RowsTold, FannedOut
    <3>4. QED
      BY <3>2, <3>3, <1>4
  <2>3. QED
    BY <2>1, <2>2
<1>9. QED
  BY <1>0, <1>4, <1>6, <1>7, <1>8, LedgerStill

(* chunk_count is set.                                                      *)
LEMMA CountHealthy ==
  ASSUME HealthyInv, NEW m \in Masters, SetCount(m)
  PROVE  Calm' /\ Owned' /\ RowsTold' /\ LedgerTold' /\ TriggerTold'
<1>0. Types /\ Calm /\ Owned /\ RowsTold /\ LedgerTold /\ TriggerTold
  BY DEF HealthyInv, AloneInv
<1>1. PICK j \in Jobs : j = target[m] /\ status[j] = "running" /\ instance[j] = m
  BY <1>0 DEF SetCount, Owned, Running
<1>2. size[m] \in Nat /\ size[m] > 0 /\ total[j] = 0 /\ Uncounted(j)
  BY <1>0, <1>1 DEF SetCount, RowsTold, FannedOut, Fan, Owned, Types, MasterType
<1>3. /\ UNCHANGED <<status, age, instance, ledger, size, target, child, finalizer, closers>>
      /\ pc[m] = "count" /\ pc' = [pc EXCEPT ![m] = "spawn"]
      /\ total' = [total EXCEPT ![j] = size[m]] /\ sent' = [sent EXCEPT ![m] = 0]
  BY <1>1, Bounds DEF SetCount, Goto
<1>4. /\ pc'[m] = "spawn" /\ sent'[m] = 0 /\ total'[j] = size[m]
      /\ \A n \in Masters \ {m} : pc'[n] = pc[n] /\ sent'[n] = sent[n]
      /\ \A k \in Jobs \ {j} : total'[k] = total[k]
  BY <1>0, <1>3 DEF Types, MasterType, JobsType
<1>5. Calm'
  BY <1>0, <1>3, <1>4 DEF Calm, closers
<1>6. Owned'
  BY <1>0, <1>3, <1>4 DEF Owned, Running, Guarding, Live, Fan
<1>7. RowsTold'
  <2> SUFFICES ASSUME NEW k \in Jobs
               PROVE  IF total'[k] = 0 THEN Uncounted(k)' ELSE FannedOut(k)'
    BY DEF RowsTold
  <2>1. CASE k = j
    <3>1. \A c \in Chunks : child'[<<j, c>>] # "none" <=> c <= sent'[m]
      BY <1>2, <1>3, <1>4, Bounds DEF Uncounted, Chunks
    <3>2. FannedOut(j)'
      BY <1>1, <1>2, <1>3, <1>4, <3>1 DEF FannedOut, Uncounted, Fan
    <3>3. QED
      BY <1>2, <1>4, <2>1, <3>2
  <2>2. CASE k # j
    <3>1. instance[k] # m
      BY <1>0, <1>1, <2>2, IngestionAssumption DEF Owned
    <3>2. CASE total[k] = 0
      BY <1>0, <1>3, <1>4, <2>2, <3>1, <3>2 DEF RowsTold, Uncounted, Owned, Types, JobsType
    <3>3. CASE total[k] # 0
      BY <1>0, <1>3, <1>4, <2>2, <3>1, <3>3 DEF RowsTold, FannedOut
    <3>4. QED
      BY <2>2, <3>2, <3>3, <1>4
  <2>3. QED
    BY <2>1, <2>2
<1>8. LedgerTold'
  BY <1>0, <1>3 DEF LedgerTold, ledger
<1>9. TriggerTold'
  <2>1. ~Full(j) /\ ~Full(j)'
    <3>1. 1 \in 1..size[m] /\ 1 \in Chunks /\ <<j, 1>> \in Ids \X Chunks
      BY <1>2, Bounds DEF Chunks
    <3>2. <<j, 1>> \notin recorded
      BY <1>0, <1>2, <3>1 DEF LedgerTold, Uncounted
    <3>3. QED
      BY <1>2, <1>3, <1>4, <3>1, <3>2 DEF Full, ledger
  <2>2. \A k \in Jobs \ {j} : Full(k)' <=> Full(k)
    BY <1>3, <1>4 DEF Full, ledger
  <2>3. \A k \in Jobs : Full(k)' <=> Full(k)
    BY <2>1, <2>2
  <2>4. QED
    BY <1>0, <1>3, <2>3 DEF TriggerTold, ledger
<1>10. QED
  BY <1>5, <1>6, <1>7, <1>8, <1>9

(* A batch of children is created.                                          *)
LEMMA SpawnHealthy ==
  ASSUME HealthyInv, NEW m \in Masters, Spawn(m) \/ Wait(m)
  PROVE  Calm' /\ Owned' /\ RowsTold' /\ LedgerTold' /\ TriggerTold'
<1>0. Types /\ Calm /\ Owned /\ RowsTold /\ LedgerTold /\ TriggerTold
  BY DEF HealthyInv, AloneInv
<1>1. PICK j \in Jobs : j = target[m] /\ status[j] = "running" /\ instance[j] = m
  BY <1>0 DEF Spawn, Wait, Owned, Running, Fan
<1>2. FannedOut(j) /\ sent[m] < size[m] /\ total[j] = size[m] /\ total[j] # 0 /\ pc[m] \in Fan
  BY <1>0, <1>1 DEF Spawn, Wait, RowsTold, Uncounted, FannedOut, Fan, Live
<1>3. /\ UNCHANGED <<jobs, ledger, size, target, finalizer, closers>>
      /\ \A n \in Masters \ {m} : pc'[n] = pc[n] /\ sent'[n] = sent[n]
      /\ \/ pc'[m] \in Fan /\ sent'[m] < size[m]
         \/ pc'[m] = "done" /\ sent'[m] = size[m]
      /\ \A x \in Ids \X Chunks :
           child'[x] = IF child[x] = "none" /\ x[1] = j /\ x[2] <= sent'[m]
                         THEN "process" ELSE child[x]
  <2>1. size[m] \in Nat /\ sent[m] \in Nat /\ BatchSize \in Nat \ {0}
    BY <1>0, Bounds DEF Types, MasterType
  <2>2. ASSUME NEW x \in Ids \X Chunks
        PROVE  x = <<x[1], x[2]>> /\ x[2] \in Nat \ {0}
    BY Bounds DEF Chunks
  <2>3. CASE Wait(m)
    <3>1. ASSUME NEW x \in Ids \X Chunks, child[x] = "none", x[1] = j
          PROVE  ~(x[2] <= sent[m])
      BY <1>1, <1>2, <2>2, <3>1 DEF FannedOut
    <3>2. QED
      BY <1>0, <1>2, <2>3, <3>1 DEF Wait, Goto, Fan, Types, MasterType
  <2>4. CASE Spawn(m)
    <3>1. BatchEnd(m) \in Nat /\ BatchEnd(m) <= size[m] /\ sent'[m] = BatchEnd(m)
      BY <1>0, <2>1, <2>4 DEF BatchEnd, Spawn, Types, MasterType
    <3>2. /\ pc'[m] = IF BatchEnd(m) = size[m] THEN "done" ELSE "wait"
          /\ \A n \in Masters \ {m} : pc'[n] = pc[n] /\ sent'[n] = sent[n]
      BY <1>0, <2>4 DEF Spawn, Goto, Types, MasterType
    <3>3. \A x \in Ids \X Chunks :
            child'[x] = IF x \in Batch(m) /\ child[x] = "none" THEN "process" ELSE child[x]
      BY <2>4 DEF Spawn, Create
    <3>4. ASSUME NEW x \in Ids \X Chunks, child[x] = "none"
          PROVE  x \in Batch(m) <=> x[1] = j /\ x[2] <= BatchEnd(m)
      <4>1. x[1] = j => ~(x[2] <= sent[m])
        BY <1>1, <1>2, <2>2, <3>4 DEF FannedOut
      <4>2. x \in Batch(m) <=> x[1] = j /\ x[2] \in sent[m] + 1 .. BatchEnd(m)
        BY <1>1, <2>2 DEF Batch
      <4>3. QED
        BY <2>1, <2>2, <3>1, <4>1, <4>2
    <3>5. QED
      BY <2>1, <2>4, <3>1, <3>2, <3>3, <3>4 DEF Spawn, Fan
  <2>5. QED
    BY <2>3, <2>4
<1>4. Calm'
  BY <1>0, <1>3 DEF Calm, closers, jobs, Fan
<1>5. Owned'
  BY <1>0, <1>1, <1>2, <1>3 DEF Owned, Running, Guarding, Live, Fan, jobs
<1>6. \A x \in Ids \X Chunks :
        child'[x] = child[x] \/ (child[x] = "none" /\ child'[x] = "process" /\ x[1] = j)
  BY <1>3
<1>7. RowsTold'
  <2> SUFFICES ASSUME NEW k \in Jobs
               PROVE  IF total'[k] = 0 THEN Uncounted(k)' ELSE FannedOut(k)'
    BY DEF RowsTold
  <2>1. \A c \in Chunks : <<k, c>> \in Ids \X Chunks /\ <<k, c>>[1] = k /\ <<k, c>>[2] = c
    BY Bounds
  <2>2. CASE k = j
    <3>1. sent'[m] \in Nat /\ sent[m] \in Nat /\ sent[m] <= sent'[m]
      <4>1. size[m] \in Nat /\ sent[m] \in Nat /\ BatchSize \in Nat
        BY <1>0, Bounds DEF Types, MasterType
      <4>2. sent'[m] = sent[m] \/ sent'[m] = BatchEnd(m)
        BY <1>0 DEF Spawn, Wait, Types, MasterType
      <4>3. QED
        BY <1>2, <4>1, <4>2 DEF BatchEnd
    <3>2. \A c \in Chunks : child'[<<j, c>>] # "none" <=> c <= sent'[m]
      <4> SUFFICES ASSUME NEW c \in Chunks
                   PROVE  child'[<<j, c>>] # "none" <=> c <= sent'[m]
        OBVIOUS
      <4>1. child[<<j, c>>] # "none" <=> c <= sent[m]
        BY <1>1, <1>2 DEF FannedOut
      <4>2. child'[<<j, c>>] = IF child[<<j, c>>] = "none" /\ c <= sent'[m]
                                 THEN "process" ELSE child[<<j, c>>]
        BY <1>3, <2>1, <2>2
      <4>3. c \in Int
        BY DEF Chunks
      <4>4. QED
        BY <3>1, <4>1, <4>2, <4>3
    <3>3. FannedOut(j)'
      BY <1>1, <1>2, <1>3, <3>2 DEF FannedOut, jobs
    <3>4. QED
      BY <1>2, <1>3, <2>2, <3>3 DEF jobs
  <2>3. CASE k # j
    <3>1. instance[k] # m
      BY <1>0, <1>1, <2>3, IngestionAssumption DEF Owned
    <3>2. \A c \in Chunks : child'[<<k, c>>] = child[<<k, c>>]
      BY <1>6, <2>1, <2>3
    <3>3. CASE total[k] = 0
      BY <1>0, <1>3, <2>3, <3>1, <3>2, <3>3 DEF RowsTold, Uncounted, Owned, Types, JobsType, jobs
    <3>4. CASE total[k] # 0
      BY <1>0, <1>3, <2>3, <3>1, <3>2, <3>4 DEF RowsTold, FannedOut, jobs
    <3>5. QED
      BY <3>3, <3>4, <1>3 DEF jobs
  <2>4. QED
    BY <2>2, <2>3
<1>8. LedgerTold'
  <2>1. \A c \in Chunks : child'[<<Fallback, c>>] = "none"
    <3>1. \A c \in Chunks : <<Fallback, c>> \in Ids \X Chunks /\ <<Fallback, c>>[1] # j
      BY Bounds
    <3>2. QED
      BY <1>0, <1>6, <3>1 DEF LedgerTold
  <2>2. QED
    BY <1>0, <1>3, <1>6, <2>1 DEF LedgerTold, ledger
<1>9. TriggerTold'
  <2>1. ASSUME NEW k \in Jobs, NEW c \in Chunks
        PROVE  /\ child'[<<k, c>>] \in {"check", "trigger"}
                    <=> child[<<k, c>>] \in {"check", "trigger"}
               /\ child'[<<k, c>>] = "create" <=> child[<<k, c>>] = "create"
               /\ child'[<<k, c>>] \in {"trigger", "create"}
                    <=> child[<<k, c>>] \in {"trigger", "create"}
    <3>1. <<k, c>> \in Ids \X Chunks
      BY Bounds
    <3>2. QED
      BY <1>6, <3>1
  <2>2. \A k \in Jobs : Full(k)' <=> Full(k)
    BY <1>3 DEF Full, jobs, ledger
  <2>3. QED
    BY <1>0, <1>3, <2>1, <2>2 DEF TriggerTold, ledger
<1>10. QED
  BY <1>4, <1>5, <1>7, <1>8, <1>9

(* Children.  They change nothing of the masters and the rows.              *)
LEMMA ChildHealthy ==
  ASSUME HealthyInv, NEW x \in Ids \X Chunks,
         Process(x) \/ Record(x) \/ Check(x) \/ Trigger(x) \/ CreateFinalizer(x)
  PROVE  Calm' /\ Owned' /\ RowsTold' /\ LedgerTold' /\ TriggerTold'
<1>0. Types /\ Calm /\ Owned /\ RowsTold /\ LedgerTold /\ TriggerTold
  BY DEF HealthyInv, AloneInv
<1>1. PICK j \in Jobs, c \in Chunks : x = <<j, c>>
  <2>1. child[x] # "none"
    BY DEF Process, Record, Check, Trigger, CreateFinalizer
  <2>2. PICK i \in Ids, c \in Chunks : x = <<i, c>>
    OBVIOUS
  <2>3. i # Fallback
    BY <1>0, <2>1, <2>2 DEF LedgerTold
  <2>4. QED
    BY <2>2, <2>3 DEF Ids, Fallback
<1>2. /\ UNCHANGED <<jobs, pc, size, target, sent, closers>>
      /\ child[x] # "none" /\ child'[x] \in {"record", "check", "trigger", "create", "done"}
      /\ \A y \in Ids \X Chunks : y # x => child'[y] = child[y]
      /\ recorded' = recorded \cup (IF Record(x) THEN {x} ELSE {})
      /\ recorded \subseteq recorded'
      /\ \A k \in Jobs : \/ finalizer'[k] = finalizer[k]
                         \/ finalizer[k] = "none" /\ finalizer'[k] = "running"
  <2>1. \/ child' = [child EXCEPT ![x] = "record"] /\ child[x] = "process" /\ ~Record(x)
        \/ child' = [child EXCEPT ![x] = "check"] /\ Record(x) /\ child[x] = "record"
        \/ /\ \E s \in {"trigger", "create", "done"} : child' = [child EXCEPT ![x] = s]
           /\ child[x] \in {"check", "trigger", "create"} /\ ~Record(x)
    BY DEF Process, Record, Check, Trigger, CreateFinalizer, Advance
  <2>2. child[x] # "none" /\ child'[x] \in {"record", "check", "trigger", "create", "done"}
    BY <1>0, <2>1 DEF Types, ChildType
  <2>3. \A y \in Ids \X Chunks : y # x => child'[y] = child[y]
    BY <1>0, <2>1 DEF Types, ChildType
  <2>4. recorded' = recorded \cup (IF Record(x) THEN {x} ELSE {})
    BY <2>1 DEF Process, Record, Check, Trigger, CreateFinalizer, ledger
  <2>5. \A k \in Jobs : \/ finalizer'[k] = finalizer[k]
                        \/ finalizer[k] = "none" /\ finalizer'[k] = "running"
    BY <1>0 DEF Process, Record, Check, Trigger, CreateFinalizer, Types, FinalizerType
  <2>6. UNCHANGED <<jobs, pc, size, target, sent, closers>>
    BY DEF Process, Record, Check, Trigger, CreateFinalizer, master, jobs
  <2>7. QED
    BY <2>2, <2>3, <2>4, <2>5, <2>6
<1>3. \A y \in Ids \X Chunks : child'[y] # "none" <=> child[y] # "none"
  BY <1>2
<1>4. Calm'
  BY <1>0, <1>2 DEF Calm, jobs, closers
<1>5. Owned'
  BY <1>0, <1>2 DEF Owned, Running, jobs
<1>6. /\ j \in Ids /\ total[j] \in 0..MaxChunks /\ total[j] # 0 /\ FannedOut(j)
      /\ \A d \in Chunks : <<j, d>> \in recorded \cup recorded' => d <= total[j]
  <2>1. j \in Ids /\ total[j] \in 0..MaxChunks
    BY <1>0, Bounds DEF Types, JobsType
  <2>2. total[j] # 0 /\ FannedOut(j)
    BY <1>0, <1>1, <1>2 DEF RowsTold, Uncounted
  <2>3. ASSUME NEW d \in Chunks, <<j, d>> \in recorded \cup recorded'
        PROVE  d <= total[j]
    <3>1. child[<<j, d>>] # "none"
      BY <1>0, <1>1, <1>2, <2>3 DEF LedgerTold
    <3>2. d <= sent[instance[j]] /\ sent[instance[j]] <= total[j]
            /\ sent[instance[j]] \in Nat /\ d \in Nat /\ total[j] \in Nat
      BY <1>0, <2>1, <2>2, <3>1 DEF FannedOut, Types, MasterType, Chunks
    <3>3. QED
      BY <3>2
  <2>4. QED
    BY <2>1, <2>2, <2>3
<1>7. finalizer[j] = "none" => status[j] = "running"
  BY <1>6 DEF FannedOut
<1>8. \A k \in Jobs : k # j => finalizer'[k] = finalizer[k]
  BY <1>0, <1>1 DEF Process, Record, Check, Trigger, CreateFinalizer, Types, FinalizerType
<1>9. RowsTold'
  <2> SUFFICES ASSUME NEW k \in Jobs
               PROVE  IF total'[k] = 0 THEN Uncounted(k)' ELSE FannedOut(k)'
    BY DEF RowsTold
  <2>1. \A d \in Chunks : child'[<<k, d>>] # "none" <=> child[<<k, d>>] # "none"
    BY <1>3, Bounds
  <2>2. CASE k = j
    <3>1. finalizer'[j] # "done" <=> finalizer[j] # "done"
      BY <1>2
    <3>2. FannedOut(j)'
      BY <1>2, <1>6, <2>1, <2>2, <3>1 DEF FannedOut, jobs
    <3>3. QED
      BY <1>2, <1>6, <2>2, <3>2 DEF jobs
  <2>3. CASE k # j /\ total[k] = 0
    BY <1>0, <1>2, <1>8, <2>1, <2>3 DEF RowsTold, Uncounted, jobs
  <2>4. CASE k # j /\ total[k] # 0
    BY <1>0, <1>2, <1>8, <2>1, <2>4 DEF RowsTold, FannedOut, jobs
  <2>5. QED
    BY <2>2, <2>3, <2>4
<1>10. LedgerTold'
  <2>1. \A d \in Chunks : child'[<<Fallback, d>>] = "none"
    BY <1>0, <1>3, Bounds DEF LedgerTold
  <2>2. ASSUME NEW y \in Ids \X Chunks
        PROVE  y \in recorded' <=> child'[y] \in {"check", "trigger", "create", "done"}
    <3>1. CASE y # x
      BY <1>0, <1>2, <2>2, <3>1 DEF LedgerTold
    <3>2. CASE y = x /\ Process(x)
      BY <1>0, <1>2, <3>2 DEF LedgerTold, Process, Record, Advance, Types, ChildType
    <3>3. CASE y = x /\ Record(x)
      BY <1>0, <1>2, <3>3 DEF Record, Advance, Types, ChildType
    <3>4. CASE y = x /\ (Check(x) \/ Trigger(x) \/ CreateFinalizer(x))
      BY <1>0, <1>2, <3>4 DEF LedgerTold, Check, Trigger, CreateFinalizer, Record, Advance,
         Types, ChildType
    <3>5. QED
      BY <3>1, <3>2, <3>3, <3>4
  <2>3. recorded' \subseteq Ids \X Chunks
    BY <1>0, <1>2 DEF Types, LedgerType
  <2>4. QED
    BY <2>1, <2>2, <2>3 DEF LedgerTold
<1>11. TriggerTold'
  <2> SUFFICES ASSUME NEW k \in Jobs
               PROVE  /\ Full(k)' /\ k \notin triggered' =>
                           \E d \in Chunks : child'[<<k, d>>] \in {"check", "trigger"}
                      /\ k \in triggered' =>
                           \/ finalizer'[k] # "none"
                           \/ \E d \in Chunks : child'[<<k, d>>] = "create"
                      /\ k \in triggered' \/ finalizer'[k] # "none" => Full(k)'
                      /\ \A d \in Chunks : child'[<<k, d>>] \in {"trigger", "create"} => Full(k)'
    BY DEF TriggerTold
  <2>1. Full(k) => Full(k)'
    BY <1>2 DEF Full, jobs
  <2>2. CASE k # j
    <3>1. \A d \in Chunks : child'[<<k, d>>] = child[<<k, d>>]
      BY <1>1, <1>2, <2>2, Bounds
    <3>2. \A d \in 1..total[k] : <<k, d>> \in recorded' <=> <<k, d>> \in recorded
      BY <1>1, <1>2, <2>2
    <3>3. Full(k)' <=> Full(k)
      BY <1>2, <3>2 DEF Full, jobs
    <3>4. k \in triggered' <=> k \in triggered
      BY <1>1, <2>2 DEF Process, Record, Check, Trigger, CreateFinalizer, ledger
    <3>5. QED
      BY <1>0, <1>8, <2>2, <3>1, <3>3, <3>4 DEF TriggerTold
  <2>3. CASE k = j
    <3>0. \A d \in Chunks : d # c => child'[<<j, d>>] = child[<<j, d>>]
      BY <1>1, <1>2, <1>6
    <3>1. CASE Process(x)
      <4>1. child[<<j, c>>] = "process" /\ child'[<<j, c>>] = "record"
        BY <1>0, <1>1, <3>1 DEF Process, Advance, Types, ChildType
      <4>2. UNCHANGED <<ledger, finalizer, total>>
        BY <3>1 DEF Process, jobs
      <4>3. QED
        BY <1>0, <2>3, <3>0, <4>1, <4>2 DEF TriggerTold, Full, ledger
    <3>2. CASE Record(x)
      <4>1. child[<<j, c>>] = "record" /\ child'[<<j, c>>] = "check"
        BY <1>0, <1>1, <3>2 DEF Record, Advance, Types, ChildType
      <4>2. UNCHANGED <<triggered, finalizer>>
        BY <3>2 DEF Record
      <4>3. QED
        BY <1>0, <2>1, <2>3, <3>0, <4>1, <4>2 DEF TriggerTold
    <3>3. CASE Check(x)
      <4>1. /\ child[<<j, c>>] = "check"
            /\ child'[<<j, c>>] = IF IsLastChunk(j) THEN "trigger" ELSE "done"
        BY <1>0, <1>1, <3>3 DEF Check, Advance, Types, ChildType
      <4>2. UNCHANGED <<ledger, finalizer, total>>
        BY <3>3 DEF Check, jobs
      <4>3. IsLastChunk(j) <=> Full(j)
        BY <1>6, LastIsAll, Bounds
      <4>4. QED
        BY <1>0, <2>3, <3>0, <4>1, <4>2, <4>3 DEF TriggerTold, Full, ledger
    <3>4. CASE Trigger(x)
      <4>1. /\ child[<<j, c>>] = "trigger"
            /\ child'[<<j, c>>] = IF j \in triggered THEN "done" ELSE "create"
            /\ triggered' = triggered \cup {j}
        BY <1>0, <1>1, <3>4 DEF Trigger, Advance, Types, ChildType
      <4>2. UNCHANGED <<recorded, finalizer, total>>
        BY <3>4 DEF Trigger, jobs
      <4>3. Full(j)
        BY <1>0, <4>1 DEF TriggerTold
      <4>4. QED
        BY <1>0, <2>1, <2>3, <3>0, <4>1, <4>2, <4>3 DEF TriggerTold
    <3>5. CASE CreateFinalizer(x)
      <4>1. child[<<j, c>>] = "create" /\ child'[<<j, c>>] = "done" /\ finalizer'[j] # "none"
        BY <1>0, <1>1, <3>5 DEF CreateFinalizer, Advance, Types, ChildType, FinalizerType
      <4>2. UNCHANGED <<ledger, total>>
        BY <3>5 DEF CreateFinalizer, jobs
      <4>3. Full(j)
        BY <1>0, <4>1 DEF TriggerTold
      <4>4. QED
        BY <1>0, <2>1, <2>3, <3>0, <4>1, <4>2, <4>3 DEF TriggerTold, ledger
    <3>6. QED
      BY <3>1, <3>2, <3>3, <3>4, <3>5
  <2>4. QED
    BY <2>2, <2>3
<1>12. QED
  BY <1>4, <1>5, <1>9, <1>10, <1>11

(* The finalizer closes its row.                                            *)
LEMMA CompletedHealthy ==
  ASSUME HealthyInv, NEW j \in Jobs, MarkCompleted(j)
  PROVE  Calm' /\ Owned' /\ RowsTold' /\ LedgerTold' /\ TriggerTold'
<1>0. Types /\ Calm /\ Owned /\ RowsTold /\ LedgerTold /\ TriggerTold
  BY DEF HealthyInv, AloneInv
<1>1. finalizer[j] = "running" /\ Full(j)
  BY <1>0 DEF MarkCompleted, TriggerTold
<1>2. pc[instance[j]] = "done" /\ instance[j] \in Masters /\ total[j] # 0 /\ FannedOut(j)
  BY <1>0, <1>1, FullIsSent DEF Full, RowsTold, Uncounted
<1>3. status[j] = "running"
  BY <1>1, <1>2 DEF FannedOut
<1>4. PICK s \in {"completed", "partial"} : SetStatus(j, s)
  BY DEF MarkCompleted
<1>5. /\ UNCHANGED <<age, total, instance, ledger, pc, size, target, sent, child, closers>>
      /\ status'[j] = s /\ \A k \in Jobs \ {j} : status'[k] = status[k]
      /\ finalizer'[j] = "done" /\ \A k \in Jobs \ {j} : finalizer'[k] = finalizer[k]
  BY <1>0, <1>3, <1>4 DEF MarkCompleted, SetStatus, master, Types, JobsType, FinalizerType
<1>6. Calm'
  BY <1>0, <1>5 DEF Calm, closers
<1>7. Owned'
  <2>1. \A k \in Jobs : status'[k] = "absent" <=> instance'[k] = NoMaster
    BY <1>0, <1>3, <1>5 DEF Owned
  <2>2. ASSUME NEW n \in Masters, pc[n] \in Live \cup Fan, NEW k \in Running, instance[k] = n
        PROVE  k \in Running'
    BY <1>2, <1>5, <2>2 DEF Running, Live, Fan
  <2>3. ASSUME NEW n \in Masters
        PROVE  /\ pc[n] \in Live \cup Fan => \E k \in Running' : instance[k] = n
               /\ pc[n] \in {"empty", "count"} \cup Fan =>
                    target[n] \in Running' /\ instance[target[n]] = n
    BY <1>0, <2>2 DEF Owned, Live
  <2>4. QED
    BY <1>0, <1>5, <2>1, <2>3 DEF Owned
<1>8. RowsTold'
  <2> SUFFICES ASSUME NEW k \in Jobs
               PROVE  IF total'[k] = 0 THEN Uncounted(k)' ELSE FannedOut(k)'
    BY DEF RowsTold
  <2>1. CASE k = j
    BY <1>2, <1>5, <2>1 DEF FannedOut
  <2>2. CASE k # j /\ total[k] = 0
    BY <1>0, <1>5, <2>2 DEF RowsTold, Uncounted
  <2>3. CASE k # j /\ total[k] # 0
    BY <1>0, <1>5, <2>3 DEF RowsTold, FannedOut
  <2>4. QED
    BY <2>1, <2>2, <2>3
<1>9. LedgerTold'
  BY <1>0, <1>5 DEF LedgerTold, ledger
<1>10. TriggerTold'
  <2>1. \A k \in Jobs : finalizer'[k] # "none" <=> finalizer[k] # "none"
    BY <1>1, <1>5
  <2>2. \A k \in Jobs : Full(k)' <=> Full(k)
    BY <1>5 DEF Full, ledger
  <2>3. QED
    BY <1>0, <1>5, <2>1, <2>2 DEF TriggerTold, ledger
<1>11. QED
  BY <1>6, <1>7, <1>8, <1>9, <1>10

LEMMA HealthyNext ==
  ASSUME Healthy, HealthyInv, [Next]_vars
  PROVE  HealthyInv'
<1>1. AloneInv'
  BY AloneInvNext DEF HealthyInv, Healthy
<1>2. Calm' /\ Owned' /\ RowsTold' /\ LedgerTold' /\ TriggerTold'
  <2>1. CASE UNCHANGED vars
    BY <2>1, LedgerStill DEF HealthyInv, vars, jobs, ledger, master, closers, Calm, Owned, Running,
       RowsTold, Uncounted, FannedOut
  <2>2. QED
    BY <2>1, HealthySteps, GuardHealthy, OpenHealthy, FetchHealthy, EmptyHealthy, CountHealthy,
       SpawnHealthy, ChildHealthy, CompletedHealthy DEF HealthyStep
<1>3. QED
  BY <1>1, <1>2 DEF HealthyInv

(* OwnTarget: getCurrentSyncJobId, which asks for the running row again     *)
(* instead of being told it, finds the row its master opened.               *)
THEOREM TargetIsOwn ==
  ASSUME Healthy
  PROVE  Spec => []OwnTarget
<1>1. HealthyInv => OwnTarget
  BY DEF HealthyInv, Owned, Running, Fan, OwnTarget
<1>2. QED
  BY <1>1, HealthyInit, HealthyNext, PTL DEF Spec

(* SpawnedOnce: when every chunk of a row is recorded and its children have *)
(* ended, its finalizer has been started.                                   *)
THEOREM Spawns ==
  ASSUME Healthy
  PROVE  Spec => []SpawnedOnce
<1>1. HealthyInv => SpawnedOnce
  BY DEF HealthyInv, TriggerTold, SpawnedOnce, Full, Ended
<1>2. QED
  BY <1>1, HealthyInit, HealthyNext, PTL DEF Spec
==============================================================================
