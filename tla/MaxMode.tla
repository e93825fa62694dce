------------------------------- MODULE MaxMode -------------------------------
(***************************************************************************)
(* Durable MAX turns of one chat session: queryAgent reserves a turn and   *)
(* queues its job (src/handlers/agent.ts), the minute driver runs the job  *)
(* (src/lib/max-orchestrator.ts), a stop or a newer prompt cancels it, and *)
(* opening the session repairs what stopped half way.                      *)
(*                                                                         *)
(* A turn is one row in each of four tables that no transaction joins: its *)
(* assistant message, its agent run, its MAX job and its work_queue row.   *)
(***************************************************************************)
EXTENDS WorkQueueRows

CONSTANTS
  Workers,     \* slots for items the minute driver runs
  StaleLen,    \* STALE_AGENT_TURN_MINUTES
  MaxMishaps,  \* bound on kills and failed statements
  Prompt,      \* a statement sent before an artifact is done has landed then
  NoTurn       \* what an idle worker is working on

Turns == Items

ASSUME MaxModeAssumption ==
  /\ StaleLen \in Nat \ {0}
  /\ MaxMishaps \in Nat
  /\ Prompt \in BOOLEAN
  /\ NoTurn \notin Turns

VARIABLES
  msg, age, tools,      \* the assistant message, the time until it is stale,
                        \*   whether its metadata lists tool calls
  run, flag,            \* agent_runs: status, cancel_requested_at
  job, jobFlag, beaten, \* max_mode_jobs: status, cancel_requested_at, the
                        \*   time until its heartbeat is stale
  other,                \* an ordinary answer of the session is running
  shape,                \* the plan's task_shape, "set" for set_builder
  asker, stop, copy,    \* queryAgent and the stop of a turn: their steps,
                        \*   the messages the stop has read
  fix, found,           \* the repair: its step, the jobs it read
  at, phase, verdict,   \* a worker: its turn, its step, the job's outcome
  beats,                \* turns with a heartbeat UPDATE of the job in flight
  made,                 \* artifacts built
  upset, barred,        \* the worker was hurt; a stop came in time
  mishaps

message == <<msg, age, tools>>
agentRun == <<run, flag>>
maxJob == <<job, jobFlag, beaten>>
stops == <<stop, copy>>
repair == <<fix, found>>
worker == <<at, phase, verdict>>
ghosts == <<made, upset, barred>>
vars == <<row, message, other, agentRun, maxJob, shape, asker, stops, repair,
          worker, beats, ghosts, mishaps>>

Shown == {"absent", "running", "done", "error", "cancelled"}
Copies == UNION {[S -> Shown] : S \in SUBSET Turns}
NoCopy == [u \in {} |-> "absent"]
Closed == {"completed", "failed", "cancelled"}
StopStages == {"none", "run", "find", "job", "row", "msg", "read", "put", "done"}
Checks == {"check", "scan", "recheck"}
Closing == {"closeMsg", "closeJob", "closeRun"}
Phases == {"idle", "read", "run", "start", "message", "source",
           "build", "returned", "failing"}
          \cup Checks \cup Closing

TypeOK ==
  /\ RowTypeOK
  /\ msg \in [Turns -> Shown]
  /\ age \in [Turns -> 0..StaleLen]
  /\ run \in [Turns -> {"absent", "running", "cancelling", "cancelled",
                        "completed", "error", "stale_error"}]
  /\ job \in [Turns -> {"absent", "queued", "running"} \cup Closed]
  /\ beaten \in [Turns -> 0..StaleLen]
  /\ other \in BOOLEAN
  /\ shape \in [Turns -> {"set", "report"}]
  /\ \A f \in {tools, flag, jobFlag, upset, barred} : f \in [Turns -> BOOLEAN]
  /\ asker \in [Turns -> {"idle", "run", "job", "row", "queued", "accept", "done"}]
  /\ stop \in [Turns -> StopStages]
  /\ copy \in [Turns -> Copies]
  /\ fix \in {"idle", "find", "job", "row", "msg"}
  /\ found \subseteq Turns
  /\ at \in [Workers -> Turns \cup {NoTurn}]
  /\ phase \in [Workers -> Phases]
  /\ verdict \in [Workers -> {"none", "done", "error", "cancelled", "thrown"}]
  /\ beats \subseteq Turns
  /\ made \in [Turns -> Nat]
  /\ mishaps \in 0..MaxMishaps

Init ==
  /\ RowInit
  /\ msg = [t \in Turns |-> "absent"]
  /\ age = [t \in Turns |-> 0]
  /\ run = [t \in Turns |-> "absent"]
  /\ job = [t \in Turns |-> "absent"]
  /\ beaten = [t \in Turns |-> 0]
  /\ other = FALSE
  /\ shape \in [Turns -> {"set", "report"}]
  /\ flag = [t \in Turns |-> FALSE]
  /\ tools = flag /\ jobFlag = flag /\ upset = flag /\ barred = flag
  /\ asker = [t \in Turns |-> "idle"]
  /\ stop = [t \in Turns |-> "none"]
  /\ copy = [t \in Turns |-> NoCopy]
  /\ fix = "idle" /\ found = {}
  /\ at = [w \in Workers |-> NoTurn]
  /\ phase = [w \in Workers |-> "idle"]
  /\ verdict = [w \in Workers |-> "none"]
  /\ beats = {}
  /\ made = [t \in Turns |-> 0]
  /\ mishaps = 0

Mishap == mishaps < MaxMishaps /\ mishaps' = mishaps + 1

------------------------------------------------------------------------------
(* The statements on the three tables.                                      *)

SetMsg(t, s) == msg' = [msg EXCEPT ![t] = s] /\ UNCHANGED <<age, tools>>

(* The writes that put a list of tool calls into the metadata.              *)
PersistMsg(t, s) ==
  /\ msg' = [msg EXCEPT ![t] = s]
  /\ tools' = [tools EXCEPT ![t] = TRUE]
  /\ UNCHANGED age

(* idx_agent_messages_one_running_assistant_per_session                     *)
OneRuns(m) ==
  \A u \in Turns : m[u] = "running" => ~other /\ \A v \in Turns \ {u} : m[v] # "running"

MayRun(t) == OneRuns([msg EXCEPT ![t] = "running"])

SetRun(t, s) ==
  /\ run' = [run EXCEPT ![t] = IF @ = "absent" THEN @ ELSE s]
  /\ UNCHANGED flag

(* updateMaxModeJobProgress, WHERE id = ? and nothing else.                 *)
SetJob(t, s) ==
  /\ job' = [job EXCEPT ![t] = s]
  /\ beaten' = [beaten EXCEPT ![t] = StaleLen]
  /\ UNCHANGED jobFlag

(* The work_queue row of a cancelled or repaired job.                       *)
CloseRows(S, s) ==
  LET open == {t \in S : status[t] \in {"pending", "in_progress"}}
  IN /\ status' = [t \in Items |-> IF t \in open THEN s ELSE status[t]]
     /\ lease' = [t \in Items |-> IF t \in open THEN NoLease ELSE lease[t]]
     /\ UNCHANGED <<attempt, wait>>

(* Mutant: the check looks at the run's status only, which the start of a   *)
(* job overwrites.                                                          *)
StopSeenInStatus(t) == run[t] \in {"cancelling", "cancelled"}

(* isAgentRunCancellationRequested                                          *)
StopSeen(t) == run[t] \in {"cancelling", "cancelled"} \/ flag[t]

------------------------------------------------------------------------------
(* queryAgent, from the reservation of the turn to its answer.              *)

Ask(t, from, to) ==
  /\ asker[t] = from
  /\ asker' = [asker EXCEPT ![t] = to]

AskerRest == <<other, shape, stops, repair, worker, beats, ghosts>>

(* The session's answers that are no MAX job share the index.               *)
OtherAsks ==
  /\ ~other
  /\ \A t \in Turns : msg[t] # "running"
  /\ other' = TRUE
  /\ UNCHANGED <<row, message, agentRun, maxJob, shape, asker, stops, repair,
                 worker, beats, ghosts, mishaps>>

OtherEnds ==
  /\ other
  /\ other' = FALSE
  /\ UNCHANGED <<row, message, agentRun, maxJob, shape, asker, stops, repair,
                 worker, beats, ghosts, mishaps>>

(* reserveAgentTurn; with another message running the prompt is refused, or *)
(* stops that turn first.                                                   *)
Reserve(t) ==
  /\ Ask(t, "idle", "run")
  /\ MayRun(t)
  /\ msg' = [msg EXCEPT ![t] = "running"]
  /\ age' = [age EXCEPT ![t] = StaleLen]
  /\ UNCHANGED <<row, tools, agentRun, maxJob, mishaps, AskerRest>>

(* createAgentRun, whose errors are only logged.                            *)
CreateRun(t) ==
  /\ Ask(t, "run", "job")
  /\ \/ run' = [run EXCEPT ![t] = "running"] /\ UNCHANGED <<flag, mishaps>>
     \/ Mishap /\ UNCHANGED agentRun
  /\ UNCHANGED <<row, message, maxJob, AskerRest>>

CreateJob(t) ==
  /\ Ask(t, "job", "row")
  /\ SetJob(t, "queued")
  /\ UNCHANGED <<row, message, agentRun, mishaps, AskerRest>>

EnqueueJob(t) ==
  /\ Ask(t, "row", "queued")
  /\ Insert(t, 0)
  /\ UNCHANGED <<message, agentRun, maxJob, mishaps, AskerRest>>

(* The job is 'queued' again, whatever became of it since.                  *)
NoteQueued(t) ==
  /\ Ask(t, "queued", "accept")
  /\ SetJob(t, "queued")
  /\ UNCHANGED <<row, message, agentRun, mishaps, AskerRest>>

(* persistDurableMaxAccepted: the message is 'running' again, whatever      *)
(* became of it since, unless the session has another running message.      *)
Accept(t) ==
  /\ Ask(t, "accept", "done")
  /\ IF MayRun(t) THEN PersistMsg(t, "running") ELSE UNCHANGED message
  /\ UNCHANGED <<row, agentRun, maxJob, mishaps, AskerRest>>

(* A statement throws, or the invocation is killed.                         *)
AskerDies(t) ==
  /\ asker[t] \notin {"idle", "done"}
  /\ asker' = [asker EXCEPT ![t] = "done"]
  /\ Mishap
  /\ UNCHANGED <<row, message, agentRun, maxJob, AskerRest>>

------------------------------------------------------------------------------
(* cancelAgentRequest, and the interrupt by a newer prompt.  Every          *)
(* statement's error is ignored.                                            *)

Stopping(t, from, to) ==
  /\ stop[t] = from
  /\ stop' = [stop EXCEPT ![t] = to]

StopRest == <<other, shape, asker, repair, worker, beats, made, upset>>

(* cancelRequest leaves a marker in KV, unless that fails.                  *)
Stop(t) ==
  /\ Stopping(t, "none", "run")
  /\ msg[t] = "running"
  /\ UNCHANGED <<row, message, agentRun, maxJob, barred, mishaps, copy, StopRest>>

(* A worker that has made its last check before it builds.                  *)
PastCheck(t) ==
  \E w \in Workers : at[w] = t /\ phase[w] \in {"source", "build"}

(* markAgentRunCancelRequested                                              *)
StopRun(t) ==
  /\ Stopping(t, "run", "find")
  /\ \/ /\ run[t] = "running"
        /\ run' = [run EXCEPT ![t] = "cancelling"]
        /\ flag' = [flag EXCEPT ![t] = TRUE]
        /\ barred' = [barred EXCEPT ![t] = ~PastCheck(t)]
        /\ UNCHANGED mishaps
     \/ run[t] # "running" /\ UNCHANGED <<agentRun, barred, mishaps>>
     \/ Mishap /\ UNCHANGED <<agentRun, barred>>
  /\ UNCHANGED <<row, message, maxJob, copy, StopRest>>

(* cancelMaxModeJobs: its SELECT, then one UPDATE on each table.            *)
StopFind(t) ==
  /\ Stopping(t, "find", IF job[t] \in {"queued", "running"} THEN "job" ELSE "msg")
  /\ UNCHANGED <<row, message, agentRun, maxJob, barred, mishaps, copy, StopRest>>

StopJob(t) ==
  /\ \/ /\ Stopping(t, "job", "row")
        /\ job' = [job EXCEPT ![t] = "cancelled"]
        /\ beaten' = [beaten EXCEPT ![t] = StaleLen]
        /\ jobFlag' = [jobFlag EXCEPT ![t] = TRUE]
        /\ UNCHANGED mishaps
     \/ Stopping(t, "job", "msg") /\ Mishap /\ UNCHANGED maxJob
  /\ UNCHANGED <<row, message, agentRun, barred, copy, StopRest>>

StopRow(t) ==
  /\ Stopping(t, "row", "msg")
  /\ \/ CloseRows({t}, "completed") /\ UNCHANGED mishaps
     \/ Mishap /\ UNCHANGED row
  /\ UNCHANGED <<message, agentRun, maxJob, barred, copy, StopRest>>

(* Mutant: a message that no longer runs is cancelled too.                  *)
StopMsgAny(t) ==
  /\ \/ /\ Stopping(t, "msg", "read")
        /\ SetMsg(t, "cancelled") /\ UNCHANGED mishaps
     \/ Stopping(t, "msg", "done") /\ Mishap /\ UNCHANGED message
  /\ UNCHANGED <<row, agentRun, maxJob, barred, copy, StopRest>>

(* markAgentTurnCancelled: when its UPDATE changes the message,             *)
(* markDurableToolCallsCancelled follows.                                   *)
StopMsg(t) ==
  /\ \/ /\ Stopping(t, "msg", IF msg[t] = "running" THEN "read" ELSE "done")
        /\ IF msg[t] = "running" THEN SetMsg(t, "cancelled") ELSE UNCHANGED message
        /\ UNCHANGED mishaps
     \/ Stopping(t, "msg", "done") /\ Mishap /\ UNCHANGED message
  /\ UNCHANGED <<row, agentRun, maxJob, barred, copy, StopRest>>

(* Its SELECT reads the whole metadata, status included, of the message or, *)
(* in a stop by session, of the session's messages; those with tool calls   *)
(* are to be written.                                                       *)
StopRead(t) ==
  /\ \/ /\ \E S \in {{t}, Turns} :
             LET listed == {u \in S : tools[u]} IN
             /\ Stopping(t, "read", IF listed = {} THEN "done" ELSE "put")
             /\ copy' = [copy EXCEPT ![t] = [u \in listed |-> msg[u]]]
        /\ UNCHANGED mishaps
     \/ Stopping(t, "read", "done") /\ Mishap /\ UNCHANGED copy
  /\ UNCHANGED <<row, message, agentRun, maxJob, barred, StopRest>>

Written(t) == [u \in Turns |-> IF u \in DOMAIN copy[t] THEN copy[t][u] ELSE msg[u]]

(* Its batch writes what was read by id, whatever the messages say by now.  *)
(* It writes nothing when one of them would run beside another, which may   *)
(* be one that the batch is to write later.                                 *)
StopPut(t) ==
  /\ Stopping(t, "put", "done")
  /\ \/ OneRuns(Written(t)) /\ msg' = Written(t) /\ UNCHANGED <<age, tools, mishaps>>
     \/ /\ \E u \in DOMAIN copy[t] : copy[t][u] = "running" /\ ~MayRun(u)
        /\ UNCHANGED <<message, mishaps>>
     \/ Mishap /\ UNCHANGED message
  /\ copy' = [copy EXCEPT ![t] = NoCopy]
  /\ UNCHANGED <<row, agentRun, maxJob, barred, StopRest>>

------------------------------------------------------------------------------
(* markStaleRunningAgentTurns, called when a session is listed, opened or   *)
(* queried.  Errors are ignored.                                            *)

RepairRest == <<other, shape, asker, stops, worker, beats, ghosts>>

Alive(t) == job[t] \in {"queued", "running"} /\ beaten[t] > 0

(* Its UPDATE of messages without a live job, when it finds some.           *)
Lost == {t \in Turns : msg[t] = "running" /\ age[t] = 0 /\ ~Alive(t)}

Repair ==
  /\ fix = "idle"
  /\ Lost # {}
  /\ fix' = "find"
  /\ msg' = [t \in Turns |-> IF t \in Lost THEN "error" ELSE msg[t]]
  /\ UNCHANGED <<row, age, tools, agentRun, maxJob, found, mishaps, RepairRest>>

(* Mutant: queued jobs are not looked at.                                   *)
StaleRunning == {t \in Turns : job[t] = "running" /\ beaten[t] = 0}

(* repairStaleMaxModeJobs: its SELECT, also after an UPDATE that found none *)
(* or threw.                                                                *)
StaleJobs == {t \in Turns : job[t] \in {"queued", "running"} /\ beaten[t] = 0}

RepairFind ==
  /\ fix = "find" \/ (fix = "idle" /\ StaleJobs # {})
  /\ found' = StaleJobs
  /\ fix' = IF StaleJobs = {} THEN "idle" ELSE "job"
  /\ UNCHANGED <<row, message, agentRun, maxJob, mishaps, RepairRest>>

RepairJobs ==
  /\ fix = "job"
  /\ fix' = "row"
  /\ \/ job' = [t \in Turns |-> IF t \in found THEN "failed" ELSE job[t]]
        /\ UNCHANGED mishaps
     \/ Mishap /\ UNCHANGED job
  /\ UNCHANGED <<row, message, agentRun, jobFlag, beaten, found, RepairRest>>

RepairRows ==
  /\ fix = "row"
  /\ fix' = "msg"
  /\ \/ CloseRows(found, "dead_letter") /\ UNCHANGED mishaps
     \/ Mishap /\ UNCHANGED row
  /\ UNCHANGED <<message, agentRun, maxJob, found, RepairRest>>

(* The message and the run of each.                                         *)
RepairTurn(t) ==
  /\ fix = "msg"
  /\ t \in found
  /\ \/ SetMsg(t, "error") /\ SetRun(t, "stale_error") /\ UNCHANGED mishaps
     \/ SetMsg(t, "error") /\ Mishap /\ UNCHANGED agentRun
     \/ SetRun(t, "stale_error") /\ Mishap /\ UNCHANGED message
  /\ found' = found \ {t}
  /\ fix' = IF found' = {} THEN "idle" ELSE "msg"
  /\ UNCHANGED <<row, maxJob, RepairRest>>

(* The request that repairs is killed.                                      *)
RepairDies ==
  /\ fix # "idle"
  /\ Mishap
  /\ fix' = "idle" /\ found' = {}
  /\ UNCHANGED <<row, message, agentRun, maxJob, RepairRest>>

------------------------------------------------------------------------------
(* The minute driver around processMaxModeWorkItem.                         *)

DriverRest == <<message, agentRun, maxJob, other, shape, asker, stops,
                repair, beats, ghosts>>

Max == 1  \* the domain

(* sweepStaleClaims, whose two statements WorkQueue tells apart.            *)
SweepRow(t) ==
  /\ t \in StaleClaims
  /\ SweepRelease(t, attempt[t])
  /\ UNCHANGED <<worker, mishaps, DriverRest>>

(* The driver counts, then claims; maxConcurrent is 1.                      *)
Take(w, t) ==
  /\ phase[w] = "idle"
  /\ ActiveCount(Max) < 1
  /\ t \in Claimable(Max, {})
  /\ ClaimRows({t})
  /\ at' = [at EXCEPT ![w] = t]
  /\ phase' = [phase EXCEPT ![w] = "read"]
  /\ UNCHANGED <<verdict, mishaps, DriverRest>>

Rest(w) ==
  /\ at' = [at EXCEPT ![w] = NoTurn]
  /\ phase' = [phase EXCEPT ![w] = "idle"]
  /\ verdict' = [verdict EXCEPT ![w] = "none"]

Complete(w) ==
  /\ phase[w] = "returned"
  /\ \/ CompleteWork(at[w]) /\ Rest(w) /\ UNCHANGED mishaps
     \/ /\ Mishap
        /\ phase' = [phase EXCEPT ![w] = "failing"]
        /\ UNCHANGED <<row, at, verdict>>
  /\ UNCHANGED DriverRest

(* failWork, whose two statements WorkQueue tells apart.                    *)
Fail(w) ==
  /\ phase[w] = "failing"
  /\ \/ FailWork(at[w], attempt[at[w]]) /\ UNCHANGED mishaps
     \/ Mishap /\ UNCHANGED row
  /\ Rest(w)
  /\ UNCHANGED DriverRest

------------------------------------------------------------------------------
(* processMaxModeWorkItem, executeSetBuilderJob, executeEvidenceReportJob.  *)

WorkRest == <<row, other, shape, asker, stops, repair, barred>>

(* What follows each phase when its statement succeeds.                     *)
After(t) ==
  LET set == shape[t] = "set" IN
  [check |-> "run", run |-> "start", start |-> "message", message |-> "scan",
   scan |-> IF set THEN "build" ELSE "source", source |-> "build",
   build |-> IF set THEN "recheck" ELSE "closeMsg", recheck |-> "closeMsg"]

Advance(w) ==
  /\ phase' = [phase EXCEPT ![w] = After(at[w])[phase[w]]]
  /\ UNCHANGED at

Goto(w, p, v) ==
  /\ phase' = [phase EXCEPT ![w] = p]
  /\ verdict' = [verdict EXCEPT ![w] = v]
  /\ UNCHANGED at

(* Mutant: a job that has ended is run again.                               *)
ReadAnyJob(w) ==
  /\ phase[w] = "read"
  /\ LET t == at[w] IN
     Goto(w, IF job[t] = "cancelled" \/ jobFlag[t] THEN "returned" ELSE "check", "none")
  /\ UNCHANGED <<message, agentRun, maxJob, beats, made, upset, mishaps, WorkRest>>

Read(w) ==
  /\ phase[w] = "read"
  /\ LET t == at[w] IN
     Goto(w, IF job[t] \in Closed \/ jobFlag[t] THEN "returned" ELSE "check", "none")
  /\ UNCHANGED <<message, agentRun, maxJob, beats, made, upset, mishaps, WorkRest>>

(* assertNotCancelled; KV may or may not show the marker of a stop.         *)
Check(w) ==
  /\ phase[w] \in Checks
  /\ \/ ~StopSeen(at[w]) /\ Advance(w) /\ UNCHANGED verdict
     \/ (StopSeen(at[w]) \/ stop[at[w]] # "none") /\ Goto(w, "closeJob", "cancelled")
  /\ UNCHANGED <<message, agentRun, maxJob, beats, made, upset, mishaps, WorkRest>>

StartRun(w) ==
  /\ phase[w] = "run"
  /\ \/ SetRun(at[w], "running") /\ UNCHANGED mishaps
     \/ Mishap /\ UNCHANGED agentRun
  /\ Advance(w)
  /\ UNCHANGED <<message, maxJob, verdict, beats, made, upset, WorkRest>>

(* updateMaxModeJobProgress at the start and before the report's artifact.  *)
Progress(w) ==
  /\ phase[w] \in {"start", "source"}
  /\ SetJob(at[w], "running")
  /\ Advance(w)
  /\ UNCHANGED <<message, agentRun, verdict, beats, made, upset, mishaps, WorkRest>>

(* It is also written for each source family, then the next is checked.     *)
NextFamily(w) ==
  /\ phase[w] = "source"
  /\ SetJob(at[w], "running")
  /\ Goto(w, "scan", "none")
  /\ UNCHANGED <<message, agentRun, beats, made, upset, mishaps, WorkRest>>

(* persistAssistantMessage                                                  *)
ShowRunning(w) ==
  /\ phase[w] = "message"
  /\ IF MayRun(at[w])
     THEN PersistMsg(at[w], "running") /\ Advance(w) /\ UNCHANGED verdict
     ELSE Goto(w, "closeJob", "thrown") /\ UNCHANGED message
  /\ UNCHANGED <<agentRun, maxJob, beats, made, upset, mishaps, WorkRest>>

(* buildMaxSetTool or createDocumentArtifactTool: the artifact is stored,   *)
(* the set-builder reports an error, or either throws.                      *)
Build(w) ==
  /\ phase[w] = "build"
  /\ Prompt => asker[at[w]] = "done" /\ at[w] \notin found \cup beats
  /\ \/ /\ made' = [made EXCEPT ![at[w]] = @ + 1]
        /\ Goto(w, After(at[w]).build, "done")
     \/ /\ shape[at[w]] = "set"
        /\ Goto(w, After(at[w]).build, "error")
        /\ UNCHANGED made
     \/ Goto(w, "closeJob", "thrown") /\ UNCHANGED made
  /\ UNCHANGED <<message, agentRun, maxJob, beats, upset, mishaps, WorkRest>>

(* A handler's outcome on the three tables, and the order it is written in: *)
(* the catch block closes the job first.                                    *)
Outcome(v) ==
  [msg |-> CASE v = "done" -> "done" [] v = "cancelled" -> "cancelled" [] OTHER -> "error",
   job |-> CASE v = "done" -> "completed" [] v = "cancelled" -> "cancelled" [] OTHER -> "failed",
   run |-> CASE v = "done" -> "completed" [] v = "cancelled" -> "cancelled" [] OTHER -> "error"]

Caught(w) == verdict[w] \in {"cancelled", "thrown"}

AfterClosing(w) ==
  [closeMsg |-> IF Caught(w) THEN "closeRun" ELSE "closeJob",
   closeJob |-> IF Caught(w) THEN "closeMsg" ELSE "closeRun",
   closeRun |-> IF verdict[w] = "thrown" THEN "failing" ELSE "returned"]

Close(w) ==
  /\ phase[w] \in Closing
  /\ LET t == at[w]
         o == Outcome(verdict[w])
     IN /\ IF phase[w] = "closeMsg" THEN PersistMsg(t, o.msg) ELSE UNCHANGED message
        /\ IF phase[w] = "closeJob" THEN SetJob(t, o.job) ELSE UNCHANGED maxJob
        /\ IF phase[w] = "closeRun" THEN SetRun(t, o.run) ELSE UNCHANGED agentRun
  /\ phase' = [phase EXCEPT ![w] = AfterClosing(w)[phase[w]]]
  /\ UNCHANGED <<at, verdict, beats, made, upset, mishaps, WorkRest>>

(* A statement of the worker throws: in the catch block it is ignored, and  *)
(* anywhere else leads there.                                               *)
WorkFails(w) ==
  /\ Mishap
  /\ \/ phase[w] \in Closing /\ Caught(w) /\ Goto(w, AfterClosing(w)[phase[w]], verdict[w])
     \/ phase[w] \in Closing /\ ~Caught(w) /\ Goto(w, "closeJob", "thrown")
     \/ phase[w] \in Checks \cup {"start", "message", "source"}
        /\ Goto(w, "closeJob", "thrown")
     \/ phase[w] = "read" /\ Goto(w, "failing", "none")
  /\ upset' = [upset EXCEPT ![at[w]] = TRUE]
  /\ UNCHANGED <<message, agentRun, maxJob, beats, made, WorkRest>>

(* Killed in the middle.                                                    *)
Kill(w) ==
  /\ phase[w] # "idle"
  /\ Mishap
  /\ upset' = [upset EXCEPT ![at[w]] = TRUE]
  /\ Rest(w)
  /\ UNCHANGED <<message, agentRun, maxJob, beats, made, WorkRest>>

(* The 45-second timer: recordHeartbeat renews the row's lease, and an      *)
(* UPDATE of the job is sent that nothing waits for.                        *)
Beat(w) ==
  /\ phase[w] \in (Phases \ {"idle", "read", "returned", "failing"})
                  \ (IF Prompt THEN Closing \cup {"recheck"} ELSE {})
  /\ RecordHeartbeat(at[w])
  /\ beats' = beats \cup {at[w]}
  /\ UNCHANGED <<message, agentRun, maxJob, worker, made, upset, mishaps,
                 other, shape, asker, stops, repair, barred>>

BeatLands(t) ==
  /\ t \in beats
  /\ SetJob(t, "running")
  /\ beats' = beats \ {t}
  /\ UNCHANGED <<message, agentRun, worker, made, upset, mishaps, WorkRest>>

------------------------------------------------------------------------------

(* Mutant: countdowns run past zero.                                        *)
LaterPastZero(n) == n - 1

Later(n) == IF n > 0 THEN n - 1 ELSE 0

(* A minute passes.  Only scanning and building last that long, and a       *)
(* worker's heartbeats are never late.                                      *)
Tick ==
  /\ \A t \in Turns :
       asker[t] \in {"idle", "done"} /\ stop[t] \in {"none", "done"}
  /\ fix = "idle"
  /\ \A w \in Workers :
       /\ phase[w] \in {"idle", "scan", "build"}
       /\ at[w] # NoTurn =>
            /\ beaten[at[w]] > 1
            /\ status[at[w]] = "in_progress" => lease[at[w]] > 1
  /\ RunDown
  /\ age' = [t \in Turns |-> Later(age[t])]
  /\ beaten' = [t \in Turns |-> Later(beaten[t])]
  /\ UNCHANGED <<msg, tools, agentRun, job, jobFlag, other, shape, asker, stops, repair,
                 worker, beats, ghosts, mishaps>>

Asking(t) ==
  Reserve(t) \/ CreateRun(t) \/ CreateJob(t) \/ EnqueueJob(t) \/ NoteQueued(t) \/ Accept(t)

StopSteps(t) ==
  \/ StopRun(t) \/ StopFind(t) \/ StopJob(t) \/ StopRow(t)
  \/ StopMsg(t) \/ StopRead(t) \/ StopPut(t)

Repairing ==
  RepairFind \/ RepairJobs \/ RepairRows \/ \E t \in Turns : RepairTurn(t)

Working(w) ==
  \/ Read(w) \/ Check(w) \/ StartRun(w) \/ Progress(w) \/ ShowRunning(w)
  \/ Build(w) \/ Close(w) \/ Complete(w) \/ Fail(w)

Next ==
  \/ \E t \in Turns :
       \/ Asking(t) \/ AskerDies(t) \/ Stop(t) \/ StopSteps(t) \/ SweepRow(t)
       \/ BeatLands(t)
  \/ OtherAsks \/ OtherEnds
  \/ Repair \/ Repairing \/ RepairDies \/ Tick
  \/ \E w \in Workers :
       \/ Working(w) \/ NextFamily(w) \/ WorkFails(w) \/ Kill(w) \/ Beat(w)
       \/ \E t \in Turns : Take(w, t)

Spec == Init /\ [][Next]_vars

(* Invocations make progress, time passes, and the user comes back to the   *)
(* session: nothing else calls the repair.                                  *)
Fairness ==
  /\ SF_vars(Tick)
  /\ WF_vars(Repair) /\ WF_vars(Repairing)
  /\ \A t \in Turns :
       /\ WF_vars(asker[t] # "idle" /\ Asking(t))
       /\ WF_vars(StopSteps(t))
       /\ WF_vars(SweepRow(t))
       /\ WF_vars(BeatLands(t))
  /\ \A w \in Workers :
       /\ WF_vars(Working(w)) /\ WF_vars(Beat(w))
       /\ SF_vars(Progress(w)) /\ SF_vars(Build(w))

FairSpec == Spec /\ Fairness

------------------------------------------------------------------------------

(* Unless its worker was hurt, a turn's artifact is built at most once, by  *)
(* however many attempts of its row ("MAX job ... is resumable through run  *)
(* events and the work queue"): the job's terminal status bars the retry,   *)
(* although any statement that knows its id may write that status.          *)
BuiltOnce == \A t \in Turns : made[t] > 1 => upset[t]

(* A stop recorded before the worker's last check keeps the artifact from   *)
(* being built, whatever the job's start and its retries write over the     *)
(* run's status meanwhile.                                                  *)
StopBars == [][\A t \in Turns : barred[t] => made'[t] = made[t]]_vars

(* A stop writes back what it read of the message before the answer.        *)
TakenBack(t) ==
  \E u \in Turns :
    /\ stop[u] = "put" /\ stop'[u] = "done"
    /\ t \in DOMAIN copy[u] /\ copy[u][t] # "done"

(* The answer the user has seen stays, unless its worker was hurt or a stop *)
(* that found the turn still running is about to write back what it read    *)
(* then: no repair, heartbeat, late part of the request or later stop takes *)
(* the answer back.                                                         *)
AnswerKept ==
  [][\A t \in Turns :
       msg[t] = "done" /\ ~upset'[t] => msg'[t] = "done" \/ TakenBack(t)]_vars

(* In the end no message says 'running' and no job is open, whichever step  *)
(* of the turn was lost.                                                    *)
TurnSettles ==
  \A t \in Turns :
    <>[](msg[t] # "running" /\ job[t] \in Closed \cup {"absent"})
==============================================================================
