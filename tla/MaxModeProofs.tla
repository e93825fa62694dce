---------------------------- MODULE MaxModeProofs ----------------------------
(***************************************************************************)
(* A durable MAX turn (MaxMode): what holds of it for any number of turns  *)
(* and workers, any plan and any number of kills and failed statements.    *)
(***************************************************************************)
EXTENDS MaxMode, WorkQueueRowsProofs, FiniteSetTheorems

------------------------------------------------------------------------------
(* Types.  A worker that is busy has a turn.                                *)

TablesOK ==
  /\ msg \in [Turns -> Shown]
  /\ age \in [Turns -> 0..StaleLen]
  /\ tools \in [Turns -> BOOLEAN]
  /\ run \in [Turns -> {"absent", "running", "cancelling", "cancelled",
                        "completed", "error", "stale_error"}]
  /\ flag \in [Turns -> BOOLEAN]
  /\ job \in [Turns -> {"absent", "queued", "running"} \cup Closed]
  /\ jobFlag \in [Turns -> BOOLEAN]
  /\ beaten \in [Turns -> 0..StaleLen]

PeopleOK ==
  /\ other \in BOOLEAN
  /\ shape \in [Turns -> {"set", "report"}]
  /\ asker \in [Turns -> {"idle", "run", "job", "row", "queued", "accept", "done"}]
  /\ stop \in [Turns -> StopStages]
  /\ copy \in [Turns -> Copies]
  /\ fix \in {"idle", "find", "job", "row", "msg"}
  /\ found \subseteq Turns

WorkOK ==
  /\ at \in [Workers -> Turns \cup {NoTurn}]
  /\ phase \in [Workers -> Phases]
  /\ verdict \in [Workers -> {"none", "done", "error", "cancelled", "thrown"}]
  /\ beats \subseteq Turns
  /\ made \in [Turns -> Nat]
  /\ upset \in [Turns -> BOOLEAN]
  /\ barred \in [Turns -> BOOLEAN]
  /\ mishaps \in 0..MaxMishaps

Assigned == \A w \in Workers : phase[w] = "idle" \/ at[w] \in Turns

TypeInv == RowTypeOK /\ TablesOK /\ PeopleOK /\ WorkOK /\ Assigned

LEMMA TypeInvOK == TypeInv => TypeOK
BY DEF TypeInv, TypeOK, TablesOK, PeopleOK, WorkOK

LEMMA NoCopyType == NoCopy \in Copies
<1>1. NoCopy \in [{} -> Shown]
  BY DEF NoCopy
<1> QED
  BY <1>1 DEF Copies

LEMMA TypeInit == Init => TypeInv
<1> SUFFICES ASSUME Init PROVE TypeInv
  OBVIOUS
<1>1. RowTypeOK /\ TablesOK
  BY MaxModeAssumption DEF Init, RowInit, RowTypeOK, Statuses, NoLease, TablesOK, Shown
<1>2. PeopleOK
  BY NoCopyType DEF Init, PeopleOK, StopStages
<1>3. Assigned
  BY DEF Init, Assigned
<1>4. WorkOK
  <2>1. 0 \in 0..MaxMishaps
    BY MaxModeAssumption
  <2>2. flag \in [Turns -> BOOLEAN] /\ upset = flag /\ barred = flag
    BY DEF Init
  <2> QED
    BY <2>1, <2>2 DEF Init, WorkOK, Phases
<1> QED
  BY <1>1, <1>2, <1>3, <1>4 DEF TypeInv

LEMMA MishapType == WorkOK /\ (Mishap \/ UNCHANGED mishaps) => mishaps' \in 0..MaxMishaps
BY MaxModeAssumption DEF WorkOK, Mishap

LEMMA CloseRowsType ==
  ASSUME RowTypeOK, NEW S, NEW s \in Statuses, CloseRows(S, s)
  PROVE  RowTypeOK'
BY DEF RowTypeOK, CloseRows, NoLease

LEMMA SetJobType ==
  ASSUME TablesOK, NEW t \in Turns,
         NEW s \in {"absent", "queued", "running"} \cup Closed, SetJob(t, s)
  PROVE  /\ job' \in [Turns -> {"absent", "queued", "running"} \cup Closed]
         /\ jobFlag' \in [Turns -> BOOLEAN]
         /\ beaten' \in [Turns -> 0..StaleLen]
BY MaxModeAssumption DEF TablesOK, SetJob

LEMMA SetMsgType ==
  ASSUME TablesOK, NEW t \in Turns, NEW s \in Shown, SetMsg(t, s) \/ PersistMsg(t, s)
  PROVE  /\ msg' \in [Turns -> Shown]
         /\ age' \in [Turns -> 0..StaleLen]
         /\ tools' \in [Turns -> BOOLEAN]
BY DEF TablesOK, SetMsg, PersistMsg

LEMMA SetRunType ==
  ASSUME TablesOK, NEW t \in Turns,
         NEW s \in {"absent", "running", "cancelling", "cancelled", "completed", "error",
                    "stale_error"},
         SetRun(t, s)
  PROVE  /\ run' \in [Turns -> {"absent", "running", "cancelling", "cancelled",
                                "completed", "error", "stale_error"}]
         /\ flag' \in [Turns -> BOOLEAN]
BY DEF TablesOK, SetRun

(* queryAgent.                                                              *)
LEMMA AskingType ==
  ASSUME TypeInv, NEW t \in Turns, Asking(t) \/ AskerDies(t)
  PROVE  TypeInv'
<1>0. RowTypeOK /\ TablesOK /\ PeopleOK /\ WorkOK /\ Assigned
  BY DEF TypeInv
<1>1. UNCHANGED AskerRest /\ (Mishap \/ UNCHANGED mishaps)
  BY DEF Asking, AskerDies, Reserve, CreateRun, CreateJob, EnqueueJob, NoteQueued, Accept
<1>2. PeopleOK'
  <2>1. asker' \in [Turns -> {"idle", "run", "job", "row", "queued", "accept", "done"}]
    BY <1>0 DEF PeopleOK, Asking, AskerDies, Reserve, CreateRun, CreateJob, EnqueueJob,
       NoteQueued, Accept, Ask
  <2> QED
    BY <1>0, <1>1, <2>1 DEF AskerRest, stops, repair, PeopleOK
<1>3. WorkOK' /\ Assigned'
  BY <1>0, <1>1, MishapType DEF AskerRest, worker, ghosts, WorkOK, Assigned
<1>4. RowTypeOK'
  <2>1. CASE EnqueueJob(t)
    BY <1>0, <2>1 DEF EnqueueJob, Insert, RowTypeOK, Statuses
  <2>2. CASE UNCHANGED row
    BY <1>0, <2>2, UnchangedRow
  <2> QED
    BY <2>1, <2>2 DEF Asking, AskerDies, Reserve, CreateRun, CreateJob, NoteQueued, Accept
<1>5. TablesOK'
  <2>1. CASE Reserve(t)
    BY <1>0, <2>1, MaxModeAssumption DEF Reserve, TablesOK, Shown, agentRun, maxJob
  <2>2. CASE CreateRun(t)
    BY <1>0, <2>2 DEF CreateRun, TablesOK, agentRun, maxJob, message
  <2>3. CASE CreateJob(t) \/ NoteQueued(t)
    BY <1>0, <2>3, SetJobType DEF CreateJob, NoteQueued, TablesOK, agentRun, message
  <2>4. CASE EnqueueJob(t) \/ AskerDies(t)
    BY <1>0, <2>4 DEF EnqueueJob, AskerDies, TablesOK, agentRun, maxJob, message
  <2>5. CASE Accept(t)
    <3>1. PersistMsg(t, "running") \/ UNCHANGED message
      BY <2>5 DEF Accept
    <3>2. "running" \in Shown
      BY DEF Shown
    <3> QED
      BY <1>0, <2>5, <3>1, <3>2, SetMsgType DEF Accept, TablesOK, agentRun, maxJob, message
  <2> QED
    BY <2>1, <2>2, <2>3, <2>4, <2>5 DEF Asking
<1> QED
  BY <1>2, <1>3, <1>4, <1>5 DEF TypeInv

(* cancelAgentRequest.                                                      *)
LEMMA CopyType ==
  ASSUME TypeInv, NEW t \in Turns, StopRead(t) \/ StopPut(t)
  PROVE  copy' \in [Turns -> Copies]
<1>0. copy \in [Turns -> Copies] /\ msg \in [Turns -> Shown]
  BY DEF TypeInv, PeopleOK, TablesOK
<1>1. CASE UNCHANGED copy \/ copy' = [copy EXCEPT ![t] = NoCopy]
  BY <1>0, <1>1, NoCopyType
<1>2. ASSUME NEW S \in SUBSET Turns, copy' = [copy EXCEPT ![t] = [u \in S |-> msg[u]]]
      PROVE  copy' \in [Turns -> Copies]
  <2>1. [u \in S |-> msg[u]] \in [S -> Shown]
    BY <1>0
  <2>2. [u \in S |-> msg[u]] \in Copies
    BY <2>1 DEF Copies
  <2> QED
    BY <1>0, <1>2, <2>2
<1>3. CASE StopRead(t)
  <2>1. \/ UNCHANGED copy
        \/ \E S \in SUBSET Turns : copy' = [copy EXCEPT ![t] = [u \in S |-> msg[u]]]
    BY <1>3 DEF StopRead
  <2> QED
    BY <1>1, <1>2, <2>1
<1> QED
  BY <1>1, <1>3 DEF StopPut

LEMMA WrittenType ==
  ASSUME TypeInv, NEW t \in Turns
  PROVE  Written(t) \in [Turns -> Shown]
<1>0. msg \in [Turns -> Shown] /\ copy[t] \in Copies
  BY DEF TypeInv, PeopleOK, TablesOK
<1>1. \A u \in DOMAIN copy[t] : copy[t][u] \in Shown
  BY <1>0 DEF Copies
<1> QED
  BY <1>0, <1>1 DEF Written

LEMMA StopType ==
  ASSUME TypeInv, NEW t \in Turns, Stop(t) \/ StopSteps(t)
  PROVE  TypeInv'
<1> USE DEF Stop, StopSteps
<1>0. RowTypeOK /\ TablesOK /\ PeopleOK /\ WorkOK /\ Assigned
  BY DEF TypeInv
<1>1. UNCHANGED StopRest /\ (Mishap \/ UNCHANGED mishaps)
  BY DEF StopRun, StopFind, StopJob, StopRow, StopMsg, StopRead, StopPut
<1>2. PeopleOK'
  <2>1. stop' \in [Turns -> StopStages]
    <3>1. \E s \in StopStages : stop' = [stop EXCEPT ![t] = s]
      BY DEF StopRun, StopFind, StopJob, StopRow, StopMsg, StopRead, StopPut, Stopping,
         StopStages
    <3> QED
      BY <1>0, <3>1 DEF PeopleOK
  <2>2. copy' \in [Turns -> Copies]
    <3>1. CASE UNCHANGED copy
      BY <1>0, <3>1 DEF PeopleOK
    <3> QED
      BY <3>1, CopyType DEF StopRun, StopFind, StopJob, StopRow, StopMsg, StopRead, StopPut
  <2> QED
    BY <1>0, <1>1, <2>1, <2>2 DEF StopRest, repair, PeopleOK
<1>3. WorkOK' /\ Assigned'
  <2>1. barred' \in [Turns -> BOOLEAN]
    <3>1. CASE StopRun(t)
      BY <1>0, <3>1 DEF StopRun, PastCheck, WorkOK
    <3>2. CASE UNCHANGED barred
      BY <1>0, <3>2 DEF WorkOK
    <3> QED
      BY <3>1, <3>2 DEF StopFind, StopJob, StopRow, StopMsg, StopRead, StopPut
  <2> QED
    BY <1>0, <1>1, <2>1, MishapType DEF StopRest, worker, WorkOK, Assigned
<1>4. RowTypeOK'
  <2>1. CASE StopRow(t)
    <3>1. CloseRows({t}, "completed") \/ UNCHANGED row
      BY <2>1 DEF StopRow
    <3> QED
      BY <1>0, <3>1, CloseRowsType, UnchangedRow DEF Statuses
  <2>2. CASE UNCHANGED row
    BY <1>0, <2>2, UnchangedRow
  <2> QED
    BY <2>1, <2>2 DEF StopRun, StopFind, StopJob, StopMsg, StopRead, StopPut
<1>5. TablesOK'
  <2>1. CASE Stop(t) \/ StopFind(t) \/ StopRow(t) \/ StopRead(t)
    BY <1>0, <2>1 DEF StopFind, StopRow, StopRead, TablesOK, agentRun, maxJob, message
  <2>2. CASE StopRun(t)
    BY <1>0, <2>2 DEF StopRun, TablesOK, agentRun, maxJob, message
  <2>3. CASE StopJob(t)
    <3>1. /\ job' \in [Turns -> {"absent", "queued", "running"} \cup Closed]
          /\ jobFlag' \in [Turns -> BOOLEAN]
          /\ beaten' \in [Turns -> 0..StaleLen]
      <4>1. CASE UNCHANGED maxJob
        BY <1>0, <4>1 DEF TablesOK, maxJob
      <4>2. CASE /\ job' = [job EXCEPT ![t] = "cancelled"]
                 /\ beaten' = [beaten EXCEPT ![t] = StaleLen]
                 /\ jobFlag' = [jobFlag EXCEPT ![t] = TRUE]
        <5>1. StaleLen \in 0..StaleLen /\ "cancelled" \in Closed
          BY MaxModeAssumption DEF Closed
        <5> QED
          BY <1>0, <4>2, <5>1 DEF TablesOK
      <4> QED
        BY <2>3, <4>1, <4>2 DEF StopJob
    <3> QED
      BY <1>0, <2>3, <3>1 DEF StopJob, TablesOK, agentRun, message
  <2>4. CASE StopMsg(t)
    <3>1. SetMsg(t, "cancelled") \/ UNCHANGED message
      BY <2>4 DEF StopMsg
    <3>2. "cancelled" \in Shown
      BY DEF Shown
    <3> QED
      BY <1>0, <2>4, <3>1, <3>2, SetMsgType DEF StopMsg, TablesOK, agentRun, maxJob, message
  <2>5. CASE StopPut(t)
    <3>1. msg' \in [Turns -> Shown]
      BY <1>0, <2>5, WrittenType DEF StopPut, TablesOK, message
    <3> QED
      BY <1>0, <2>5, <3>1 DEF StopPut, TablesOK, agentRun, maxJob, message
  <2> QED
    BY <2>1, <2>2, <2>3, <2>4, <2>5
<1> QED
  BY <1>2, <1>3, <1>4, <1>5 DEF TypeInv

(* markStaleRunningAgentTurns.                                              *)
LEMMA RepairType ==
  ASSUME TypeInv, Repair \/ Repairing \/ RepairDies
  PROVE  TypeInv'
<1>0. RowTypeOK /\ TablesOK /\ PeopleOK /\ WorkOK /\ Assigned
  BY DEF TypeInv
<1>1. UNCHANGED RepairRest /\ (Mishap \/ UNCHANGED mishaps)
  BY DEF Repair, Repairing, RepairDies, RepairFind, RepairJobs, RepairRows, RepairTurn
<1>2. PeopleOK'
  <2>1. fix' \in {"idle", "find", "job", "row", "msg"} /\ found' \subseteq Turns
    <3>1. CASE Repair \/ RepairJobs \/ RepairRows
      BY <1>0, <3>1 DEF Repair, RepairJobs, RepairRows, PeopleOK
    <3>2. CASE RepairFind \/ RepairDies
      BY <1>0, <3>2 DEF RepairFind, RepairDies, StaleJobs, PeopleOK
    <3>3. ASSUME NEW t \in Turns, RepairTurn(t)
          PROVE  fix' \in {"idle", "find", "job", "row", "msg"} /\ found' \subseteq Turns
      BY <1>0, <3>3 DEF RepairTurn, PeopleOK
    <3> QED
      BY <3>1, <3>2, <3>3 DEF Repairing
  <2> QED
    BY <1>0, <1>1, <2>1 DEF RepairRest, stops, PeopleOK
<1>3. WorkOK' /\ Assigned'
  BY <1>0, <1>1, MishapType DEF RepairRest, worker, ghosts, WorkOK, Assigned
<1>4. RowTypeOK'
  <2>1. CASE RepairRows
    <3>1. CloseRows(found, "dead_letter") \/ UNCHANGED row
      BY <2>1 DEF RepairRows
    <3> QED
      BY <1>0, <3>1, CloseRowsType, UnchangedRow DEF Statuses
  <2>2. CASE UNCHANGED row
    BY <1>0, <2>2, UnchangedRow
  <2> QED
    BY <2>1, <2>2 DEF Repair, Repairing, RepairDies, RepairFind, RepairJobs, RepairTurn
<1>5. TablesOK'
  <2>1. CASE RepairFind \/ RepairRows \/ RepairDies
    BY <1>0, <2>1 DEF RepairFind, RepairRows, RepairDies, TablesOK, agentRun, maxJob, message
  <2>2. CASE Repair
    BY <1>0, <2>2 DEF Repair, TablesOK, Shown, agentRun, maxJob
  <2>3. CASE RepairJobs
    <3>1. job' \in [Turns -> {"absent", "queued", "running"} \cup Closed]
      BY <1>0, <2>3 DEF RepairJobs, TablesOK, Closed
    <3> QED
      BY <1>0, <2>3, <3>1 DEF RepairJobs, TablesOK, agentRun, message
  <2>4. ASSUME NEW t \in Turns, RepairTurn(t)
        PROVE  TablesOK'
    <3>1. /\ SetMsg(t, "error") \/ UNCHANGED message
          /\ SetRun(t, "stale_error") \/ UNCHANGED agentRun
          /\ UNCHANGED maxJob
      BY <2>4 DEF RepairTurn
    <3>2. /\ msg' \in [Turns -> Shown]
          /\ age' \in [Turns -> 0..StaleLen]
          /\ tools' \in [Turns -> BOOLEAN]
      BY <1>0, <3>1, SetMsgType DEF message, TablesOK, Shown
    <3>3. /\ run' \in [Turns -> {"absent", "running", "cancelling", "cancelled",
                                "completed", "error", "stale_error"}]
          /\ flag' \in [Turns -> BOOLEAN]
      BY <1>0, <3>1, SetRunType DEF agentRun, TablesOK
    <3> QED
      BY <1>0, <3>1, <3>2, <3>3 DEF TablesOK, maxJob
  <2> QED
    BY <2>1, <2>2, <2>3, <2>4 DEF Repairing
<1> QED
  BY <1>2, <1>3, <1>4, <1>5 DEF TypeInv

(* The minute driver.                                                       *)
LEMMA RestType ==
  ASSUME WorkOK, Assigned, NEW w \in Workers, Rest(w)
  PROVE  /\ at' \in [Workers -> Turns \cup {NoTurn}]
         /\ phase' \in [Workers -> Phases]
         /\ verdict' \in [Workers -> {"none", "done", "error", "cancelled", "thrown"}]
         /\ Assigned'
BY DEF WorkOK, Assigned, Rest, Phases

LEMMA DriverType ==
  ASSUME TypeInv,
         \/ \E t \in Turns : SweepRow(t)
         \/ \E w \in Workers :
              Complete(w) \/ Fail(w) \/ \E t \in Turns : Take(w, t)
  PROVE  TypeInv'
<1>0. RowTypeOK /\ TablesOK /\ PeopleOK /\ WorkOK /\ Assigned
  BY DEF TypeInv
<1>1. UNCHANGED DriverRest /\ (Mishap \/ UNCHANGED mishaps)
  BY DEF SweepRow, Complete, Fail, Take
<1>2. PeopleOK' /\ TablesOK'
  BY <1>0, <1>1 DEF DriverRest, stops, repair, message, agentRun, maxJob, PeopleOK, TablesOK
<1>3. /\ beats' \subseteq Turns /\ made' \in [Turns -> Nat] /\ upset' \in [Turns -> BOOLEAN]
      /\ barred' \in [Turns -> BOOLEAN] /\ mishaps' \in 0..MaxMishaps
  BY <1>0, <1>1, MishapType DEF DriverRest, ghosts, WorkOK
<1>4. ASSUME NEW t \in Turns, SweepRow(t)
      PROVE  RowTypeOK' /\ WorkOK' /\ Assigned'
  <2>1. RowTypeOK'
    <3>1. attempt[t] \in Nat /\ 0 \in Nat /\ SweepRelease(t, attempt[t])
      BY <1>0, <1>4 DEF RowTypeOK, SweepRow, Turns
    <3> QED
      BY <1>0, <3>1, TransitionType DEF Turns
  <2> QED
    BY <1>0, <1>3, <1>4, <2>1 DEF SweepRow, worker, WorkOK, Assigned
<1>5. ASSUME NEW w \in Workers, Complete(w)
      PROVE  RowTypeOK' /\ WorkOK' /\ Assigned'
  <2>1. at[w] \in Items /\ at[w] \in Turns /\ 0 \in Nat
    BY <1>0, <1>5 DEF Complete, Assigned, Turns
  <2>2. CASE CompleteWork(at[w]) /\ Rest(w)
    <3>1. RowTypeOK'
      BY <1>0, <2>1, <2>2, TransitionType
    <3> QED
      BY <1>0, <1>3, <2>2, <3>1, RestType DEF WorkOK
  <2>3. CASE phase' = [phase EXCEPT ![w] = "failing"] /\ UNCHANGED <<row, at, verdict>>
    <3>1. RowTypeOK'
      BY <1>0, <2>3, UnchangedRow
    <3> QED
      BY <1>0, <1>3, <2>1, <2>3, <3>1 DEF WorkOK, Assigned, Phases
  <2> QED
    BY <1>5, <2>2, <2>3 DEF Complete
<1>6. ASSUME NEW w \in Workers, Fail(w)
      PROVE  RowTypeOK' /\ WorkOK' /\ Assigned'
  <2>1. at[w] \in Items /\ attempt[at[w]] \in Nat /\ 0 \in Nat
    BY <1>0, <1>6 DEF Fail, Assigned, RowTypeOK, Turns
  <2>2. FailWork(at[w], attempt[at[w]]) \/ UNCHANGED row
    BY <1>6 DEF Fail
  <2>3. RowTypeOK'
    BY <1>0, <2>1, <2>2, TransitionType, UnchangedRow
  <2>4. Rest(w)
    BY <1>6 DEF Fail
  <2> QED
    BY <1>0, <1>3, <2>3, <2>4, RestType DEF WorkOK
<1>7. ASSUME NEW w \in Workers, NEW t \in Turns, Take(w, t)
      PROVE  RowTypeOK' /\ WorkOK' /\ Assigned'
  <2>1. RowTypeOK'
    BY <1>0, <1>7, WorkQueueRowsAssumption DEF Take, ClaimRows, RowTypeOK, Statuses
  <2> QED
    BY <1>0, <1>3, <1>7, <2>1 DEF Take, WorkOK, Assigned, Phases
<1> QED
  BY <1>2, <1>4, <1>5, <1>6, <1>7 DEF TypeInv

(* processMaxModeWorkItem.                                                  *)
LEMMA GotoType ==
  ASSUME WorkOK, Assigned, NEW w \in Workers, at[w] \in Turns, NEW p \in Phases,
         NEW v \in {"none", "done", "error", "cancelled", "thrown"}, Goto(w, p, v)
  PROVE  /\ at' \in [Workers -> Turns \cup {NoTurn}]
         /\ phase' \in [Workers -> Phases]
         /\ verdict' \in [Workers -> {"none", "done", "error", "cancelled", "thrown"}]
         /\ Assigned'
BY DEF WorkOK, Assigned, Goto

LEMMA AfterType ==
  ASSUME NEW t, NEW p \in Checks \cup {"run", "start", "message", "source", "build"}
  PROVE  /\ After(t)[p] \in Phases
         /\ p \in {"check", "run", "start", "message", "recheck"} =>
              After(t)[p] \in {"run", "start", "message", "scan", "closeMsg"}
BY DEF After, Checks, Phases, Closing

LEMMA ClosingTypes ==
  ASSUME WorkOK, NEW w \in Workers, phase[w] \in Closing
  PROVE  /\ AfterClosing(w)[phase[w]] \in Closing \cup {"failing", "returned"}
         /\ AfterClosing(w)[phase[w]] \in Phases
BY DEF AfterClosing, Closing, Phases

LEMMA OutcomeType ==
  ASSUME NEW v \in {"none", "done", "error", "cancelled", "thrown"}
  PROVE  /\ Outcome(v).msg \in {"done", "cancelled", "error"}
         /\ Outcome(v).job \in Closed
         /\ Outcome(v).run \in {"completed", "cancelled", "error"}
BY DEF Outcome, Closed

LEMMA AdvanceType ==
  ASSUME WorkOK, Assigned, NEW w \in Workers, at[w] \in Turns,
         phase[w] \in Checks \cup {"run", "start", "message", "source", "build"},
         Advance(w), UNCHANGED verdict
  PROVE  /\ at' \in [Workers -> Turns \cup {NoTurn}]
         /\ phase' \in [Workers -> Phases]
         /\ verdict' \in [Workers -> {"none", "done", "error", "cancelled", "thrown"}]
         /\ Assigned'
<1>1. After(at[w])[phase[w]] \in Phases
  BY AfterType
<1> QED
  BY <1>1 DEF WorkOK, Assigned, Advance

LEMMA WorkerType ==
  ASSUME TypeInv, NEW w \in Workers,
         \/ Read(w) \/ Check(w) \/ StartRun(w) \/ Progress(w) \/ NextFamily(w)
         \/ ShowRunning(w) \/ Build(w) \/ Close(w) \/ WorkFails(w) \/ Kill(w) \/ Beat(w)
  PROVE  TypeInv'
<1>0. RowTypeOK /\ TablesOK /\ PeopleOK /\ WorkOK /\ Assigned
  BY DEF TypeInv
<1>1. at[w] \in Turns
  BY <1>0 DEF Read, Check, StartRun, Progress, NextFamily, ShowRunning, Build, Close,
     WorkFails, Kill, Beat, Checks, Closing, Assigned
<1>2. /\ UNCHANGED <<other, shape, asker, stops, repair, barred>>
      /\ UNCHANGED row \/ RecordHeartbeat(at[w])
      /\ Mishap \/ UNCHANGED mishaps
      /\ upset' = upset \/ upset' = [upset EXCEPT ![at[w]] = TRUE]
      /\ beats' = beats \/ beats' = beats \cup {at[w]}
      /\ made' = made \/ made' = [made EXCEPT ![at[w]] = @ + 1]
  BY DEF Read, Check, StartRun, Progress, NextFamily, ShowRunning, Build, Close, WorkFails,
     Kill, Beat, WorkRest
<1>3. RowTypeOK' /\ PeopleOK'
  <2>1. RowTypeOK'
    <3>1. CASE UNCHANGED row
      BY <1>0, <3>1, UnchangedRow
    <3>2. CASE RecordHeartbeat(at[w])
      BY <1>0, <1>1, <3>2, WorkQueueRowsAssumption DEF RecordHeartbeat, RowTypeOK, Turns
    <3> QED
      BY <1>2, <3>1, <3>2
  <2> QED
    BY <1>0, <1>2, <2>1 DEF PeopleOK, stops, repair
<1>4. /\ beats' \subseteq Turns /\ made' \in [Turns -> Nat] /\ upset' \in [Turns -> BOOLEAN]
      /\ barred' \in [Turns -> BOOLEAN] /\ mishaps' \in 0..MaxMishaps
  <2>1. made' \in [Turns -> Nat]
    BY <1>0, <1>1, <1>2 DEF WorkOK
  <2>2. beats' \subseteq Turns /\ upset' \in [Turns -> BOOLEAN] /\ barred' \in [Turns -> BOOLEAN]
    BY <1>0, <1>1, <1>2 DEF WorkOK
  <2>3. mishaps' \in 0..MaxMishaps
    BY <1>0, <1>2, MishapType
  <2> QED
    BY <2>1, <2>2, <2>3
<1> DEFINE Placed ==
      /\ at' \in [Workers -> Turns \cup {NoTurn}]
      /\ phase' \in [Workers -> Phases]
      /\ verdict' \in [Workers -> {"none", "done", "error", "cancelled", "thrown"}]
      /\ Assigned'
<1>5. Placed
  <2>1. CASE Read(w)
    <3>1. PICK p \in {"returned", "check"} : Goto(w, p, "none")
      BY <2>1 DEF Read
    <3>2. p \in Phases
      BY DEF Phases, Checks
    <3> QED
      BY <1>0, <1>1, <3>1, <3>2, GotoType
  <2>2. CASE Check(w)
    <3>1. \/ Advance(w) /\ UNCHANGED verdict
          \/ Goto(w, "closeJob", "cancelled")
      BY <2>2 DEF Check
    <3>2. phase[w] \in Checks /\ "closeJob" \in Phases
      BY <2>2 DEF Check, Phases, Closing
    <3> QED
      BY <1>0, <1>1, <3>1, <3>2, GotoType, AdvanceType
  <2>3. CASE StartRun(w) \/ Progress(w)
    <3>1. Advance(w) /\ UNCHANGED verdict /\ phase[w] \in {"run", "start", "source"}
      BY <2>3 DEF StartRun, Progress
    <3> QED
      BY <1>0, <1>1, <3>1, AdvanceType
  <2>4. CASE NextFamily(w)
    <3>1. Goto(w, "scan", "none") /\ "scan" \in Phases
      BY <2>4 DEF NextFamily, Phases, Checks
    <3> QED
      BY <1>0, <1>1, <3>1, GotoType
  <2>5. CASE ShowRunning(w)
    <3>1. phase[w] = "message" /\ "closeJob" \in Phases
      BY <2>5 DEF ShowRunning, Phases, Closing
    <3>2. \/ Advance(w) /\ UNCHANGED verdict
          \/ Goto(w, "closeJob", "thrown")
      BY <2>5 DEF ShowRunning
    <3> QED
      BY <1>0, <1>1, <3>1, <3>2, GotoType, AdvanceType
  <2>6. CASE Build(w)
    <3>1. After(at[w]).build \in Phases /\ "closeJob" \in Phases
      BY DEF After, Phases, Checks, Closing
    <3>2. PICK v \in {"done", "error", "thrown"} :
            Goto(w, After(at[w]).build, v) \/ Goto(w, "closeJob", v)
      BY <2>6 DEF Build
    <3> QED
      BY <1>0, <1>1, <3>1, <3>2, GotoType
  <2>7. CASE Close(w)
    <3>1. AfterClosing(w)[phase[w]] \in Phases
      BY <1>0, <2>7, ClosingTypes DEF Close
    <3> QED
      BY <1>0, <2>7, <3>1, <1>1 DEF Close, WorkOK, Assigned
  <2>8. CASE WorkFails(w)
    <3>1. \/ /\ phase[w] \in Closing
             /\ Goto(w, AfterClosing(w)[phase[w]], verdict[w])
          \/ Goto(w, "closeJob", "thrown")
          \/ Goto(w, "failing", "none")
      BY <2>8 DEF WorkFails
    <3>2. /\ "closeJob" \in Phases /\ "failing" \in Phases
          /\ verdict[w] \in {"none", "done", "error", "cancelled", "thrown"}
          /\ phase[w] \in Closing => AfterClosing(w)[phase[w]] \in Phases
      BY <1>0, ClosingTypes DEF Phases, Closing, WorkOK
    <3> QED
      BY <1>0, <1>1, <3>1, <3>2, GotoType
  <2>9. CASE Kill(w)
    BY <1>0, <2>9, RestType DEF Kill
  <2>10. CASE Beat(w)
    BY <1>0, <2>10 DEF Beat, worker, WorkOK, Assigned
  <2> QED
    BY <2>1, <2>2, <2>3, <2>4, <2>5, <2>6, <2>7, <2>8, <2>9, <2>10
<1>6. TablesOK'
  <2>1. \/ UNCHANGED message
        \/ \E s \in {"running", "done", "cancelled", "error"} : PersistMsg(at[w], s)
    <3>1. CASE ShowRunning(w)
      BY <3>1 DEF ShowRunning
    <3>2. CASE Close(w)
      <4>1. \/ UNCHANGED message \/ PersistMsg(at[w], Outcome(verdict[w]).msg)
        BY <3>2 DEF Close
      <4> QED
        BY <1>0, <4>1, OutcomeType DEF WorkOK
    <3> QED
      BY <3>1, <3>2 DEF Read, Check, StartRun, Progress, NextFamily, Build, WorkFails, Kill, Beat
  <2>2. \/ UNCHANGED agentRun
        \/ \E s \in {"running", "completed", "cancelled", "error"} : SetRun(at[w], s)
    <3>1. CASE StartRun(w)
      BY <3>1 DEF StartRun
    <3>2. CASE Close(w)
      <4>1. \/ UNCHANGED agentRun \/ SetRun(at[w], Outcome(verdict[w]).run)
        BY <3>2 DEF Close
      <4> QED
        BY <1>0, <4>1, OutcomeType DEF WorkOK
    <3> QED
      BY <3>1, <3>2 DEF Read, Check, ShowRunning, Progress, NextFamily, Build, WorkFails, Kill,
         Beat
  <2>3. UNCHANGED maxJob \/ \E s \in {"running"} \cup Closed : SetJob(at[w], s)
    <3>1. CASE Progress(w) \/ NextFamily(w)
      BY <3>1 DEF Progress, NextFamily
    <3>2. CASE Close(w)
      <4>1. \/ UNCHANGED maxJob \/ SetJob(at[w], Outcome(verdict[w]).job)
        BY <3>2 DEF Close
      <4> QED
        BY <1>0, <4>1, OutcomeType DEF WorkOK
    <3> QED
      BY <3>1, <3>2 DEF Read, Check, ShowRunning, StartRun, Build, WorkFails, Kill, Beat
  <2>4. /\ msg' \in [Turns -> Shown]
        /\ age' \in [Turns -> 0..StaleLen]
        /\ tools' \in [Turns -> BOOLEAN]
    BY <1>0, <1>1, <2>1, SetMsgType DEF message, TablesOK, Shown
  <2>5. /\ run' \in [Turns -> {"absent", "running", "cancelling", "cancelled",
                               "completed", "error", "stale_error"}]
        /\ flag' \in [Turns -> BOOLEAN]
    BY <1>0, <1>1, <2>2, SetRunType DEF agentRun, TablesOK
  <2>6. /\ job' \in [Turns -> {"absent", "queued", "running"} \cup Closed]
        /\ jobFlag' \in [Turns -> BOOLEAN]
        /\ beaten' \in [Turns -> 0..StaleLen]
    BY <1>0, <1>1, <2>3, SetJobType DEF maxJob, TablesOK
  <2> QED
    BY <2>4, <2>5, <2>6 DEF TablesOK
<1> QED
  BY <1>3, <1>4, <1>5, <1>6 DEF TypeInv, WorkOK

LEMMA ClockType ==
  ASSUME TypeInv,
         \/ Tick \/ OtherAsks \/ OtherEnds \/ UNCHANGED vars
         \/ \E t \in Turns : BeatLands(t)
  PROVE  TypeInv'
<1>0. RowTypeOK /\ TablesOK /\ PeopleOK /\ WorkOK /\ Assigned
  BY DEF TypeInv
<1>1. CASE OtherAsks \/ OtherEnds
  BY <1>0, <1>1 DEF OtherAsks, OtherEnds, TypeInv, row, RowTypeOK, message, agentRun, maxJob,
     TablesOK, stops, repair, PeopleOK, worker, ghosts, WorkOK, Assigned
<1>2. CASE UNCHANGED vars
  BY <1>0, <1>2 DEF vars, TypeInv, row, RowTypeOK, message, agentRun, maxJob,
     TablesOK, stops, repair, PeopleOK, worker, ghosts, WorkOK, Assigned
<1>3. ASSUME NEW t \in Turns, BeatLands(t)
      PROVE  TypeInv'
  <2>1. TablesOK'
    BY <1>0, <1>3, SetJobType DEF BeatLands, message, agentRun, TablesOK
  <2>2. RowTypeOK' /\ PeopleOK'
    BY <1>0, <1>3 DEF BeatLands, WorkRest, row, RowTypeOK, stops, repair, PeopleOK
  <2>3. WorkOK' /\ Assigned'
    BY <1>0, <1>3 DEF BeatLands, WorkRest, worker, WorkOK, Assigned
  <2> QED
    BY <2>1, <2>2, <2>3 DEF TypeInv
<1>4. CASE Tick
  <2>1. RowTypeOK'
    BY <1>0, <1>4 DEF Tick, RunDown, RowTypeOK, NoLease
  <2>2. \A n \in 0..StaleLen : Later(n) \in 0..StaleLen
    BY MaxModeAssumption DEF Later
  <2>3. TablesOK'
    BY <1>0, <1>4, <2>2 DEF Tick, TablesOK, agentRun
  <2>4. PeopleOK' /\ WorkOK' /\ Assigned'
    BY <1>0, <1>4 DEF Tick, stops, repair, PeopleOK, worker, ghosts, WorkOK, Assigned
  <2> QED
    BY <2>1, <2>3, <2>4 DEF TypeInv
<1> QED
  BY <1>1, <1>2, <1>3, <1>4

LEMMA TypeStep ==
  ASSUME TypeInv, [Next]_vars
  PROVE  TypeInv'
BY AskingType, StopType, RepairType, DriverType, WorkerType, ClockType DEF Next, Working

(* Type correctness.                                                        *)
THEOREM TypeCorrect == Spec => []TypeOK
BY TypeInit, TypeStep, TypeInvOK, PTL DEF Spec

------------------------------------------------------------------------------
(* What moves a worker.                                                     *)

Acts(w) ==
  \/ Working(w) \/ NextFamily(w) \/ WorkFails(w) \/ Kill(w)
  \/ \E t \in Turns : Take(w, t)

Same(w) == at'[w] = at[w] /\ phase'[w] = phase[w] /\ verdict'[w] = verdict[w]

LEMMA OthersSame ==
  ASSUME WorkOK, NEW w \in Workers, Acts(w)
  PROVE  \A v \in Workers \ {w} : Same(v)
<1>1. CASE Read(w) \/ NextFamily(w) \/ WorkFails(w)
  BY <1>1 DEF Read, NextFamily, WorkFails, Goto, Same, WorkOK
<1>2. CASE Check(w) \/ ShowRunning(w)
  BY <1>2 DEF Check, ShowRunning, Advance, Goto, Same, WorkOK
<1>3. CASE StartRun(w) \/ Progress(w) \/ Close(w)
  BY <1>3 DEF StartRun, Progress, Close, Advance, Same, WorkOK
<1>4. CASE Build(w)
  BY <1>4 DEF Build, Goto, Same, WorkOK
<1>5. CASE Complete(w) \/ Fail(w) \/ Kill(w)
  BY <1>5 DEF Complete, Fail, Kill, Rest, Same, WorkOK
<1>6. CASE \E t \in Turns : Take(w, t)
  BY <1>6 DEF Take, Same, WorkOK
<1> QED
  BY <1>1, <1>2, <1>3, <1>4, <1>5, <1>6 DEF Acts, Working

LEMMA WorkersStill ==
  ASSUME [Next]_vars, \A w \in Workers : ~Acts(w)
  PROVE  UNCHANGED worker
BY DEF Next, Acts, vars, Asking, Reserve, CreateRun, CreateJob, EnqueueJob, NoteQueued, Accept,
   AskerDies, AskerRest, Stop, StopSteps, StopRun, StopFind, StopJob, StopRow, StopMsg,
   StopRead, StopPut, StopRest,
   SweepRow, BeatLands, OtherAsks, OtherEnds, Repair, Repairing, RepairFind, RepairJobs,
   RepairRows, RepairTurn, RepairDies, RepairRest, Tick, Beat

LEMMA WorkerStill ==
  ASSUME WorkOK, [Next]_vars, NEW w \in Workers, ~Acts(w)
  PROVE  Same(w)
<1>1. CASE \E v \in Workers : Acts(v)
  BY <1>1, OthersSame
<1>2. CASE \A v \in Workers : ~Acts(v)
  BY <1>2, WorkersStill DEF Same, worker
<1> QED
  BY <1>1, <1>2

------------------------------------------------------------------------------
(* StopBars.  A stop that is recorded shows in agent_runs for ever, by its  *)
(* column cancel_requested_at if no longer by the status.                   *)

Barring == \A t \in Turns : barred[t] => flag[t] /\ ~PastCheck(t)

LEMMA FlagStays ==
  ASSUME TypeInv, [Next]_vars
  PROVE  \A t \in Turns : flag[t] => flag'[t]
<1>1. ASSUME NEW t \in Turns, StopRun(t)
      PROVE  \A u \in Turns : flag[u] => flag'[u]
  BY <1>1 DEF StopRun, agentRun, TypeInv, TablesOK
<1>2. ASSUME \A t \in Turns : ~StopRun(t)
      PROVE  UNCHANGED flag
  BY <1>2 DEF Next, vars, Asking, Reserve, CreateRun, CreateJob, EnqueueJob, NoteQueued, Accept,
     AskerDies, Stop, StopSteps, StopFind, StopJob, StopRow, StopMsg, StopRead, StopPut,
     SweepRow, BeatLands, OtherAsks, OtherEnds, Repair, Repairing, RepairFind, RepairJobs,
     RepairRows, RepairTurn, RepairDies, Tick, Beat, Working, Read, Check, StartRun, Progress,
     ShowRunning, Build, Close, Complete, Fail, NextFamily, WorkFails, Kill, Take, DriverRest,
     SetRun, agentRun
<1> QED
  BY <1>1, <1>2

(* Only a check that sees no stop takes a worker to its artifact.           *)
LEMMA PastByCheck ==
  ASSUME TypeInv, [Next]_vars, NEW w \in Workers, phase'[w] \in {"source", "build"}
  PROVE  \/ at'[w] = at[w] /\ phase[w] \in {"source", "build"}
         \/ at'[w] = at[w] /\ ~StopSeen(at[w])
<1>0. WorkOK
  BY DEF TypeInv
<1>1. CASE ~Acts(w)
  BY <1>0, <1>1, WorkerStill DEF Same
<1>2. CASE Check(w)
  BY <1>0, <1>2 DEF Check, Advance, Goto, WorkOK
<1>3. CASE Read(w) \/ NextFamily(w) \/ WorkFails(w)
  <2>1. phase'[w] \notin {"source", "build"} \/ phase'[w] = AfterClosing(w)[phase[w]]
    BY <1>0, <1>3 DEF Read, NextFamily, WorkFails, Goto, WorkOK
  <2>2. phase'[w] = AfterClosing(w)[phase[w]] /\ phase[w] \in Closing
    BY <1>0, <1>3, <2>1 DEF Read, NextFamily, WorkFails, Goto, WorkOK
  <2> QED
    BY <1>0, <2>2, ClosingTypes DEF Closing
<1>4. CASE StartRun(w) \/ Progress(w)
  BY <1>0, <1>4 DEF StartRun, Progress, Advance, After, WorkOK
<1>5. CASE ShowRunning(w) \/ Build(w)
  BY <1>0, <1>5 DEF ShowRunning, Build, Advance, Goto, After, WorkOK
<1>6. CASE Close(w)
  BY <1>0, <1>6, ClosingTypes DEF Close, Closing, WorkOK
<1>7. CASE Complete(w) \/ Fail(w) \/ Kill(w) \/ \E t \in Turns : Take(w, t)
  BY <1>0, <1>7 DEF Complete, Fail, Kill, Take, Rest, WorkOK
<1> QED
  BY <1>1, <1>2, <1>3, <1>4, <1>5, <1>6, <1>7 DEF Acts, Working

LEMMA BarringStep ==
  ASSUME TypeInv, Barring, [Next]_vars
  PROVE  Barring'
<1> SUFFICES ASSUME NEW t \in Turns, barred'[t]
             PROVE  flag'[t] /\ ~PastCheck(t)'
  BY DEF Barring
<1>0. WorkOK /\ TablesOK
  BY DEF TypeInv
<1>1. CASE barred[t]
  <2>1. flag[t] /\ flag'[t] /\ ~PastCheck(t)
    BY <1>1, FlagStays DEF Barring
  <2>2. ~PastCheck(t)'
    BY <2>1, PastByCheck DEF PastCheck, StopSeen
  <2> QED
    BY <2>1, <2>2
<1>2. CASE ~barred[t]
  <2>1. PICK u \in Turns : StopRun(u) /\ barred' # barred
    BY <1>2 DEF Next, vars, Asking, Reserve, CreateRun, CreateJob, EnqueueJob, NoteQueued,
       Accept, AskerDies, AskerRest, Stop, StopSteps, StopFind, StopJob, StopRow, StopMsg,
       StopRead, StopPut,
       SweepRow, BeatLands, OtherAsks, OtherEnds, Repair, Repairing, RepairFind, RepairJobs,
       RepairRows, RepairTurn, RepairDies, RepairRest, Tick, Beat, Working, Read, Check,
       StartRun, Progress, ShowRunning, Build, Close, Complete, Fail, NextFamily, WorkFails,
       Kill, Take, DriverRest, WorkRest, ghosts
  <2>2. /\ flag' = [flag EXCEPT ![u] = TRUE]
        /\ barred' = [barred EXCEPT ![u] = ~PastCheck(u)]
        /\ UNCHANGED worker
    BY <2>1 DEF StopRun, StopRest
  <2>3. t = u /\ ~PastCheck(t)
    BY <1>0, <1>2, <2>2 DEF WorkOK
  <2>4. ~PastCheck(t)'
    BY <2>2, <2>3 DEF PastCheck, worker
  <2> QED
    BY <1>0, <2>2, <2>3, <2>4 DEF TablesOK
<1> QED
  BY <1>1, <1>2

(* StopBars: a stop recorded before the worker's last check keeps the       *)
(* artifact from being built, whatever else is written meanwhile.           *)
THEOREM StopHolds == Spec => StopBars
<1>1. Init => Barring
  BY DEF Init, Barring
<1>2. TypeInv /\ Barring /\ [Next]_vars => TypeInv' /\ Barring'
  BY TypeStep, BarringStep
<1>3. TypeInv /\ Barring /\ [Next]_vars =>
        [\A t \in Turns : barred[t] => made'[t] = made[t]]_vars
  <2> SUFFICES ASSUME TypeInv, Barring, Next, NEW t \in Turns, barred[t]
               PROVE  made'[t] = made[t]
    BY DEF vars, ghosts
  <2>1. CASE \E w \in Workers : Build(w)
    <3>1. PICK w \in Workers : Build(w)
      BY <2>1
    <3>2. at[w] # t
      BY <3>1 DEF Build, Barring, PastCheck
    <3> QED
      BY <3>1, <3>2 DEF Build, TypeInv, WorkOK
  <2>2. CASE \A w \in Workers : ~Build(w)
    BY <2>2 DEF Next, Asking, Reserve, CreateRun, CreateJob, EnqueueJob, NoteQueued,
       Accept, AskerDies, AskerRest, Stop, StopSteps, StopRun, StopFind, StopJob, StopRow,
       StopMsg, StopRead, StopPut, StopRest, SweepRow, BeatLands, OtherAsks, OtherEnds, Repair,
       Repairing,
       RepairFind, RepairJobs, RepairRows, RepairTurn, RepairDies, RepairRest, Tick, Beat,
       Working, Read, Check, StartRun, Progress, ShowRunning, Close, Complete, Fail,
       NextFamily, WorkFails, Kill, Take, DriverRest, ghosts
  <2> QED
    BY <2>1, <2>2
<1> QED
  BY <1>1, <1>2, <1>3, TypeInit, PTL DEF Spec, StopBars

------------------------------------------------------------------------------
(* A worker has its turn for itself: the row it claimed cannot be claimed   *)
(* again before it lets go, for its lease lies ahead or the row is closed.  *)

Kept(t) == status[t] \in Terminal \/ (status[t] = "in_progress" /\ lease[t] > 0)

KeptRows == {t \in Items : Kept(t)}

Holding ==
  \A w \in Workers : phase[w] # "idle" =>
    /\ at[w] \in KeptRows
    /\ \A v \in Workers : phase[v] # "idle" /\ at[v] = at[w] => v = w

(* Steps of the rows that leave a kept row kept.                            *)
LEMMA KeptStays ==
  ASSUME RowTypeOK, NEW t \in Items, Kept(t),
         \/ UNCHANGED row
         \/ \E u \in Items : \E n : Insert(u, n)
         \/ \E S, s : s \in Terminal /\ CloseRows(S, s)
         \/ \E u \in Items : RecordHeartbeat(u)
         \/ \E u \in Items : \E a, s, n :
              IfInProgress(u, Leave(u, s, a, n)) /\ (u = t => status[t] \in Terminal)
         \/ \E u \in StaleClaims : \E a, s, n : IfInProgress(u, Leave(u, s, a, n))
  PROVE  Kept(t)'
<1>0. Terminal = {"completed", "dead_letter"} /\ status[t] # "absent" /\ status[t] # "pending"
  BY DEF Terminal, Kept
<1>1. CASE UNCHANGED row
  BY <1>1 DEF Kept, row
<1>2. ASSUME NEW u \in Items, NEW n, Insert(u, n)
      PROVE  Kept(t)'
  BY <1>0, <1>2 DEF Insert, Kept, RowTypeOK
<1>3. ASSUME NEW S, NEW s, s \in Terminal, CloseRows(S, s)
      PROVE  Kept(t)'
  <2>1. CASE status'[t] = s
    BY <1>3, <2>1 DEF Kept
  <2>2. CASE status'[t] = status[t] /\ lease'[t] = lease[t]
    BY <2>2 DEF Kept
  <2> QED
    BY <1>3, <2>1, <2>2 DEF CloseRows
<1>4. ASSUME NEW u \in Items, RecordHeartbeat(u)
      PROVE  Kept(t)'
  BY <1>4, WorkQueueRowsAssumption DEF RecordHeartbeat, Kept, RowTypeOK
<1>5. ASSUME NEW u \in Items, NEW a, NEW s, NEW n, IfInProgress(u, Leave(u, s, a, n)),
             u = t => status[t] \in Terminal
      PROVE  Kept(t)'
  <2>1. CASE status[u] = "in_progress"
    <3>1. u # t
      BY <1>0, <1>5, <2>1
    <3> QED
      BY <1>5, <2>1, <3>1 DEF IfInProgress, Leave, Kept, RowTypeOK
  <2>2. CASE status[u] # "in_progress"
    BY <1>5, <2>2 DEF IfInProgress, Kept, row
  <2> QED
    BY <2>1, <2>2
<1>6. ASSUME NEW u \in StaleClaims, NEW a, NEW s, NEW n, IfInProgress(u, Leave(u, s, a, n))
      PROVE  Kept(t)'
  <2>1. u # t \/ status[t] \in Terminal
    BY DEF StaleClaims, Kept
  <2> QED
    BY <1>5, <1>6, <2>1 DEF StaleClaims
<1> QED
  BY <1>1, <1>2, <1>3, <1>4, <1>5, <1>6

LEMMA HoldingStep ==
  ASSUME TypeInv, Holding, [Next]_vars
  PROVE  Holding'
<1>0. /\ RowTypeOK /\ WorkOK /\ Assigned
      /\ \A w \in Workers : phase[w] # "idle" => at[w] \in Items /\ at[w] \in KeptRows
  BY DEF TypeInv, Assigned, Turns, Holding
<1>1. ASSUME UNCHANGED worker, \A w \in Workers : phase[w] # "idle" => at[w] \in KeptRows'
      PROVE  Holding'
  <2>1. \A w \in Workers : phase[w] # "idle" => at'[w] \in KeptRows'
    BY <1>1 DEF worker
  <2> QED
    BY <1>1, <2>1 DEF Holding, worker
<1>2. ASSUME UNCHANGED worker,
             \/ UNCHANGED row
             \/ \E u \in Items : \E n : Insert(u, n)
             \/ \E S, s : s \in Terminal /\ CloseRows(S, s)
             \/ \E u \in Items : RecordHeartbeat(u)
             \/ \E u \in StaleClaims : \E a, s, n : IfInProgress(u, Leave(u, s, a, n))
      PROVE  Holding'
  <2>1. KeptRows \subseteq KeptRows'
    BY <1>0, <1>2, KeptStays DEF KeptRows
  <2>2. \A w \in Workers : phase[w] # "idle" => /\ at'[w] = at[w] /\ at[w] \in Items
                                                /\ at[w] \in KeptRows
    BY <1>0, <1>2 DEF worker
  <2>3. UNCHANGED <<at, phase>>
    BY <1>2 DEF worker
  <2> QED
    BY <2>1, <2>2, <2>3 DEF Holding
<1>3. ASSUME NEW t \in Turns, Asking(t) \/ AskerDies(t) \/ Stop(t) \/ StopSteps(t) \/ BeatLands(t)
      PROVE  Holding'
  <2>1. UNCHANGED worker
    BY <1>3 DEF Asking, Reserve, CreateRun, CreateJob, EnqueueJob, NoteQueued, Accept, AskerDies,
       AskerRest, Stop, StopSteps, StopRun, StopFind, StopJob, StopRow, StopMsg, StopRead,
       StopPut, StopRest, BeatLands
  <2>2. CASE EnqueueJob(t)
    BY <1>2, <2>1, <2>2 DEF EnqueueJob, Turns
  <2>3. CASE StopRow(t)
    BY <1>2, <2>1, <2>3 DEF StopRow, Terminal
  <2>4. CASE UNCHANGED row
    BY <1>2, <2>1, <2>4
  <2> QED
    BY <1>3, <2>2, <2>3, <2>4 DEF Asking, Reserve, CreateRun, CreateJob, NoteQueued, Accept,
       AskerDies, Stop, StopSteps, StopRun, StopFind, StopJob, StopMsg, StopRead, StopPut,
       BeatLands, WorkRest
<1>4. CASE Repair \/ Repairing \/ RepairDies \/ OtherAsks \/ OtherEnds \/ UNCHANGED vars
  <2>1. UNCHANGED worker
    BY <1>4 DEF Repair, Repairing, RepairFind, RepairJobs, RepairRows, RepairTurn, RepairDies,
       RepairRest, OtherAsks, OtherEnds, vars
  <2>2. CASE RepairRows
    BY <1>2, <2>1, <2>2 DEF RepairRows, Terminal
  <2>3. CASE UNCHANGED row
    BY <1>2, <2>1, <2>3
  <2> QED
    BY <1>4, <2>2, <2>3 DEF Repair, Repairing, RepairFind, RepairJobs, RepairTurn, RepairDies,
       OtherAsks, OtherEnds, vars
<1>5. ASSUME NEW t \in Turns, SweepRow(t)
      PROVE  Holding'
  BY <1>2, <1>5 DEF SweepRow, SweepRelease
<1>6. ASSUME NEW w \in Workers, Beat(w)
      PROVE  Holding'
  <2>1. at[w] \in Items
    BY <1>0, <1>6 DEF Beat
  <2> QED
    BY <1>2, <1>6, <2>1 DEF Beat
<1>7. CASE Tick
  <2>1. \A w \in Workers : phase[w] # "idle" => at[w] \in KeptRows'
    <3> SUFFICES ASSUME NEW w \in Workers, phase[w] # "idle"
                 PROVE  at[w] \in KeptRows'
      OBVIOUS
    <3>1. at[w] # NoTurn /\ at[w] \in Items /\ at[w] \in KeptRows
      BY <1>0, MaxModeAssumption DEF Turns
    <3>2. /\ status[at[w]] = "in_progress" => lease[at[w]] > 1
          /\ status'[at[w]] = status[at[w]]
          /\ lease'[at[w]] = IF lease[at[w]] > 0 THEN lease[at[w]] - 1 ELSE lease[at[w]]
      BY <1>7, <3>1 DEF Tick, RunDown
    <3>3. lease[at[w]] \in Int
      BY <1>0, <3>1 DEF RowTypeOK, NoLease
    <3> QED
      BY <3>1, <3>2, <3>3 DEF KeptRows, Kept
  <2> QED
    BY <1>1, <1>7, <2>1 DEF Tick
<1>8. ASSUME NEW w \in Workers, \A v \in Workers \ {w} : Same(v),
             /\ phase'[w] # "idle" => at'[w] = at[w] /\ phase[w] # "idle" /\ at[w] \in KeptRows',
             \A v \in Workers \ {w} : phase[v] # "idle" => at[v] \in KeptRows'
      PROVE  Holding'
  <2>1. \A v \in Workers : phase'[v] # "idle" =>
          at'[v] = at[v] /\ phase[v] # "idle" /\ at[v] \in KeptRows'
    BY <1>8 DEF Same
  <2>2. \A v \in Workers : phase'[v] # "idle" => at'[v] \in KeptRows'
    BY <2>1
  <2>3. \A v, u \in Workers :
          phase'[v] # "idle" /\ phase'[u] # "idle" /\ at'[v] = at'[u] => v = u
    BY <2>1 DEF Holding
  <2> QED
    BY <2>2, <2>3 DEF Holding
<1>9. ASSUME NEW w \in Workers,
             \/ Read(w) \/ Check(w) \/ StartRun(w) \/ Progress(w) \/ NextFamily(w)
             \/ ShowRunning(w) \/ Build(w) \/ Close(w) \/ WorkFails(w) \/ Kill(w)
      PROVE  Holding'
  <2>1. \A v \in Workers \ {w} : Same(v)
    BY <1>0, <1>9, OthersSame DEF Acts, Working
  <2>2. UNCHANGED row /\ phase[w] # "idle"
    BY <1>9 DEF Read, Check, StartRun, Progress, NextFamily, ShowRunning, Build, Close,
       WorkFails, Kill, WorkRest, Checks, Closing
  <2>3. phase'[w] # "idle" => at'[w] = at[w]
    <3>1. CASE Kill(w)
      BY <1>0, <3>1 DEF Kill, Rest, WorkOK
    <3> QED
      BY <1>0, <1>9, <3>1 DEF Read, Check, StartRun, Progress, NextFamily, ShowRunning, Build,
         Close, WorkFails, Goto, Advance
  <2>4. KeptRows' = KeptRows
    BY <2>2 DEF row, KeptRows, Kept
  <2> QED
    BY <1>0, <1>8, <2>1, <2>2, <2>3, <2>4
<1>10. ASSUME NEW w \in Workers, Complete(w) \/ Fail(w)
       PROVE  Holding'
  <2>1. \A v \in Workers \ {w} : Same(v)
    BY <1>0, <1>10, OthersSame DEF Acts, Working
  <2>2. at[w] \in Items /\ phase[w] # "idle"
    BY <1>0, <1>10 DEF Complete, Fail
  <2>3. \/ UNCHANGED row
        \/ /\ phase'[w] = "idle"
           /\ \E a, s, n : IfInProgress(at[w], Leave(at[w], s, a, n))
    BY <1>0, <1>10 DEF Complete, Fail, CompleteWork, FailWork, Rest, WorkOK
  <2>4. phase'[w] # "idle" => at'[w] = at[w] /\ UNCHANGED row
    BY <1>0, <1>10 DEF Complete, Fail, Rest, WorkOK
  <2>5. ASSUME NEW v \in Workers \ {w}, phase[v] # "idle"
        PROVE  at[v] \in KeptRows'
    <3>1. at[v] \in Items /\ at[v] \in KeptRows /\ at[v] # at[w]
      BY <1>0, <2>2, <2>5 DEF Holding
    <3>2. PICK t \in Items : t = at[v]
      BY <3>1
    <3>3. PICK u \in Items : u = at[w]
      BY <2>2
    <3>4. Kept(t) /\ t # u
      BY <3>1, <3>2, <3>3 DEF KeptRows
    <3>5. \/ UNCHANGED row
          \/ \E a, s, n : IfInProgress(u, Leave(u, s, a, n))
      BY <2>3, <3>3
    <3>6. Kept(t)'
      BY <1>0, <3>4, <3>5, KeptStays
    <3> QED
      BY <3>2, <3>6 DEF KeptRows
  <2>6. phase'[w] # "idle" => at[w] \in KeptRows'
    BY <1>0, <2>2, <2>4 DEF KeptRows, Kept, row
  <2> QED
    BY <1>8, <2>1, <2>2, <2>4, <2>5, <2>6
<1>11. ASSUME NEW w \in Workers, NEW t \in Turns, Take(w, t)
       PROVE  Holding'
  <2>1. /\ t \in Items /\ status[t] = "pending" /\ phase[w] = "idle"
        /\ at'[w] = t /\ \A v \in Workers \ {w} : at'[v] = at[v] /\ phase'[v] = phase[v]
        /\ ClaimRows({t})
    BY <1>0, <1>11 DEF Take, Claimable, WorkOK
  <2>2. KeptRows \subseteq KeptRows' /\ t \notin KeptRows
    BY <2>1, WorkQueueRowsAssumption DEF ClaimRows, KeptRows, Kept, Terminal
  <2>3. t \in KeptRows'
    BY <2>1, WorkQueueRowsAssumption DEF ClaimRows, KeptRows, Kept
  <2>4. \A v \in Workers \ {w} : phase'[v] # "idle" =>
          at'[v] \in Items /\ at[v] \in KeptRows /\ at'[v] = at[v] /\ at[v] # t
    BY <1>0, <2>1, <2>2
  <2>5. \A v \in Workers : phase'[v] # "idle" => at'[v] \in KeptRows'
    BY <2>1, <2>2, <2>3, <2>4
  <2>6. \A v, u \in Workers :
          phase'[v] # "idle" /\ phase'[u] # "idle" /\ at'[v] = at'[u] => v = u
    BY <2>1, <2>4 DEF Holding
  <2> QED
    BY <2>5, <2>6 DEF Holding
<1> QED
  BY <1>3, <1>4, <1>5, <1>6, <1>7, <1>9, <1>10, <1>11 DEF Next, Working

------------------------------------------------------------------------------
(* From its first progress report to the end of a job that goes well, the   *)
(* job's heartbeat is not stale: the repair does not take it for lost.      *)

Warm(w) ==
  \/ phase[w] \in {"message", "scan", "source", "build", "recheck"}
  \/ phase[w] \in {"closeMsg", "closeJob"} /\ verdict[w] = "done"

Warmed == \A w \in Workers : Warm(w) => beaten[at[w]] > 0

LEMMA BeatenSteps ==
  ASSUME TypeInv, [Next]_vars, ~Tick, NEW t \in Turns
  PROVE  beaten'[t] \in {beaten[t], StaleLen}
<1>0. beaten \in [Turns -> 0..StaleLen]
  BY DEF TypeInv, TablesOK
<1>1. ASSUME NEW u, NEW j, SetJob(u, j)
      PROVE  beaten'[t] \in {beaten[t], StaleLen}
  BY <1>0, <1>1 DEF SetJob
<1>2. ASSUME NEW u \in Turns, StopJob(u)
      PROVE  beaten'[t] \in {beaten[t], StaleLen}
  BY <1>0, <1>2 DEF StopJob, maxJob
<1>3. CASE UNCHANGED beaten
  BY <1>3
<1>4. \/ UNCHANGED beaten
      \/ \E u, j : SetJob(u, j)
      \/ \E u \in Turns : StopJob(u)
  BY DEF Next, vars, Asking, Reserve, CreateRun, CreateJob, EnqueueJob, NoteQueued, Accept,
     AskerDies, Stop, StopSteps, StopRun, StopFind, StopRow, StopMsg, StopRead, StopPut,
     SweepRow, BeatLands,
     OtherAsks, OtherEnds, Repair, Repairing, RepairFind, RepairJobs, RepairRows, RepairTurn,
     RepairDies, Beat, Working, Read, Check, StartRun, Progress, ShowRunning, Build, Close,
     Complete, Fail, NextFamily, WorkFails, Kill, Take, DriverRest, maxJob
<1> QED
  BY <1>1, <1>2, <1>3, <1>4

LEMMA WarmSteps ==
  ASSUME TypeInv, [Next]_vars, NEW w \in Workers, Warm(w)'
  PROVE  /\ at'[w] = at[w] /\ at[w] \in Turns
         /\ Warm(w) \/ Progress(w)
<1>0. WorkOK /\ Assigned
  BY DEF TypeInv
<1>1. CASE ~Acts(w)
  BY <1>0, <1>1, WorkerStill DEF Same, Warm, Assigned
<1>2. CASE Read(w)
  BY <1>0, <1>2 DEF Read, Goto, Warm, WorkOK
<1>3. CASE Check(w)
  <2>1. at[w] \in Turns /\ at'[w] = at[w]
    BY <1>0, <1>3 DEF Check, Checks, Advance, Goto, Assigned
  <2>2. CASE phase[w] = "check"
    BY <1>0, <1>3, <2>2 DEF Check, Advance, Goto, After, Warm, WorkOK
  <2>3. CASE phase[w] \in {"scan", "recheck"}
    BY <2>1, <2>3 DEF Warm
  <2> QED
    BY <1>3, <2>1, <2>2, <2>3 DEF Check, Checks
<1>4. CASE StartRun(w)
  BY <1>0, <1>4 DEF StartRun, Advance, After, Warm, WorkOK
<1>5. CASE Progress(w)
  BY <1>0, <1>5 DEF Progress, Advance, Assigned
<1>6. CASE NextFamily(w) \/ ShowRunning(w) \/ Build(w)
  BY <1>0, <1>6 DEF NextFamily, ShowRunning, Build, Advance, Goto, Warm, Assigned
<1>7. CASE Close(w)
  <2>1. at[w] \in Turns /\ at'[w] = at[w] /\ verdict'[w] = verdict[w]
    BY <1>0, <1>7 DEF Close, Closing, Assigned
  <2>2. phase'[w] = AfterClosing(w)[phase[w]]
    BY <1>0, <1>7 DEF Close, WorkOK
  <2>3. CASE phase[w] = "closeMsg"
    BY <2>1, <2>2, <2>3 DEF AfterClosing, Caught, Warm
  <2>4. CASE phase[w] = "closeJob"
    BY <2>1, <2>2, <2>4 DEF AfterClosing, Caught, Warm
  <2>5. CASE phase[w] = "closeRun"
    BY <2>2, <2>5 DEF AfterClosing, Warm
  <2> QED
    BY <1>7, <2>1, <2>3, <2>4, <2>5 DEF Close, Closing
<1>8. CASE WorkFails(w)
  <2>1. /\ verdict'[w] # "done"
        /\ \/ phase'[w] \in {"closeJob", "failing"}
           \/ phase[w] \in Closing /\ phase'[w] = AfterClosing(w)[phase[w]]
    BY <1>0, <1>8 DEF WorkFails, Goto, Caught, WorkOK
  <2>2. phase'[w] \in Closing \cup {"failing", "returned"}
    BY <1>0, <2>1, ClosingTypes DEF Closing
  <2> QED
    BY <2>1, <2>2 DEF Warm, Closing
<1>9. CASE Complete(w) \/ Fail(w) \/ Kill(w) \/ \E t \in Turns : Take(w, t)
  BY <1>0, <1>9 DEF Complete, Fail, Kill, Take, Rest, Warm, WorkOK
<1> QED
  BY <1>1, <1>2, <1>3, <1>4, <1>5, <1>6, <1>7, <1>8, <1>9 DEF Acts, Working

LEMMA WarmedStep ==
  ASSUME TypeInv, Warmed, [Next]_vars
  PROVE  Warmed'
<1> SUFFICES ASSUME NEW w \in Workers, Warm(w)'
             PROVE  beaten'[at[w]] > 0
  BY WarmSteps DEF Warmed
<1>0. beaten \in [Turns -> 0..StaleLen] /\ StaleLen \in Nat \ {0}
  BY MaxModeAssumption DEF TypeInv, TablesOK
<1>1. at[w] \in Turns /\ beaten[at[w]] \in 0..StaleLen
  BY <1>0, WarmSteps
<1>2. CASE Tick
  <2>1. at[w] # NoTurn /\ beaten[at[w]] > 1
    BY <1>1, <1>2, MaxModeAssumption DEF Tick
  <2> QED
    BY <1>0, <1>1, <1>2, <2>1 DEF Tick, Later
<1>3. CASE Progress(w)
  BY <1>0, <1>1, <1>3 DEF Progress, SetJob
<1>4. CASE ~Tick /\ Warm(w)
  <2>1. beaten'[at[w]] \in {beaten[at[w]], StaleLen}
    BY <1>1, <1>4, BeatenSteps
  <2> QED
    BY <1>0, <1>1, <1>4, <2>1 DEF Warmed
<1> QED
  BY <1>2, <1>3, <1>4, WarmSteps

------------------------------------------------------------------------------
(* What a turn's own worker does, and what everybody else can do to it.     *)

Runs(w, t) == phase[w] # "idle" /\ at[w] = t

(* queryAgent is through with the turn and no heartbeat of it is in flight. *)
Quiet(t) == asker[t] = "done" /\ t \notin beats

LEMMA UpsetStays ==
  ASSUME TypeInv, [Next]_vars, NEW t \in Turns, ~upset'[t]
  PROVE  ~upset[t]
<1>1. CASE \E w \in Workers : WorkFails(w) \/ Kill(w)
  BY <1>1 DEF WorkFails, Kill, TypeInv, WorkOK
<1>2. CASE \A w \in Workers : ~WorkFails(w) /\ ~Kill(w)
  BY <1>2 DEF Next, vars, Asking, Reserve, CreateRun, CreateJob, EnqueueJob, NoteQueued, Accept,
     AskerDies, AskerRest, Stop, StopSteps, StopRun, StopFind, StopJob, StopRow, StopMsg,
     StopRead, StopPut, StopRest,
     SweepRow, BeatLands, OtherAsks, OtherEnds, Repair, Repairing, RepairFind, RepairJobs,
     RepairRows, RepairTurn, RepairDies, RepairRest, Tick, Beat, Working, Read, Check, StartRun,
     Progress, ShowRunning, Build, Close, Complete, Fail, NextFamily, Take, DriverRest, WorkRest,
     ghosts
<1> QED
  BY <1>1, <1>2

Untouched(t) == \A w \in Workers : Runs(w, t) \/ Runs(w, t)' => Same(w)

LEMMA WhoMoves ==
  ASSUME TypeInv, [Next]_vars, NEW t \in Turns
  PROVE  \/ \E w \in Workers : /\ Runs(w, t)
                               /\ Working(w) \/ NextFamily(w) \/ WorkFails(w) \/ Kill(w)
         \/ \E w \in Workers : Take(w, t)
         \/ Untouched(t)
<1>0. WorkOK
  BY DEF TypeInv
<1> SUFFICES ASSUME NEW w \in Workers, Runs(w, t) \/ Runs(w, t)', ~Same(w)
             PROVE  \/ /\ Runs(w, t)
                       /\ Working(w) \/ NextFamily(w) \/ WorkFails(w) \/ Kill(w)
                    \/ Take(w, t)
  BY DEF Untouched
<1>1. Acts(w)
  BY <1>0, WorkerStill
<1>2. CASE \E u \in Turns : Take(w, u)
  <2>1. PICK u \in Turns : Take(w, u)
    BY <1>2
  <2>2. phase[w] = "idle" /\ at'[w] = u
    BY <1>0, <2>1 DEF Take, WorkOK
  <2> QED
    BY <2>1, <2>2 DEF Runs
<1>3. CASE Working(w) \/ NextFamily(w) \/ WorkFails(w) \/ Kill(w)
  <2>1. phase[w] # "idle"
    BY <1>3 DEF Working, Read, Check, StartRun, Progress, ShowRunning, Build, Close, Complete,
       Fail, NextFamily, WorkFails, Kill, Checks, Closing
  <2>2. phase'[w] = "idle" \/ at'[w] = at[w]
    <3>1. CASE Complete(w) \/ Fail(w) \/ Kill(w)
      BY <1>0, <3>1 DEF Complete, Fail, Kill, Rest, WorkOK
    <3> QED
      BY <1>3, <3>1 DEF Working, Read, Check, StartRun, Progress, ShowRunning, Build, Close,
         NextFamily, WorkFails, Goto, Advance
  <2> QED
    BY <1>3, <2>1, <2>2 DEF Runs
<1> QED
  BY <1>1, <1>2, <1>3 DEF Acts

(* The worker at a turn is the only one, before and after its step.         *)
LEMMA Sole ==
  ASSUME TypeInv, Holding, NEW w \in Workers, NEW t \in Turns, Runs(w, t)
  PROVE  /\ \A v \in Workers : Runs(v, t) => v = w
         /\ Acts(w) => \A v \in Workers : Runs(v, t)' => v = w
<1>1. \A v \in Workers : Runs(v, t) => v = w
  BY DEF Holding, Runs
<1>2. ASSUME Acts(w), NEW v \in Workers, Runs(v, t)'
      PROVE  v = w
  <2>1. v # w => Same(v)
    BY <1>2, OthersSame DEF TypeInv
  <2> QED
    BY <1>1, <1>2, <2>1 DEF Same, Runs
<1> QED
  BY <1>1, <1>2

(* A turn that is claimed had no worker.                                    *)
LEMMA TakenAlone ==
  ASSUME TypeInv, Holding, NEW w \in Workers, NEW t \in Turns, Take(w, t)
  PROVE  /\ \A v \in Workers : ~Runs(v, t)
         /\ \A v \in Workers : Runs(v, t)' => v = w
         /\ phase'[w] = "read"
         /\ UNCHANGED <<msg, job, made, asker, found, beats>>
<1>1. t \notin KeptRows
  BY DEF Take, Claimable, KeptRows, Kept, Terminal
<1>2. \A v \in Workers : ~Runs(v, t)
  BY <1>1 DEF Holding, Runs
<1>3. \A v \in Workers \ {w} : Same(v)
  BY OthersSame DEF TypeInv, Acts
<1>4. phase'[w] = "read"
  BY DEF Take, TypeInv, WorkOK
<1>5. UNCHANGED <<msg, job, made, asker, found, beats>>
  BY DEF Take, DriverRest, message, maxJob, repair, ghosts
<1> QED
  BY <1>2, <1>3, <1>4, <1>5 DEF Same, Runs

(* The message says 'done', or a stop is about to write that it does.       *)
Visible(t) ==
  \/ msg[t] = "done"
  \/ \E u \in Turns : t \in DOMAIN copy[u] /\ copy[u][t] = "done"

(* Nobody else builds the turn's artifact or says it is done.  Once         *)
(* queryAgent is through and no heartbeat is in flight, the job can only be *)
(* closed, and 'done' goes only if the repair has read the job as stale or  *)
(* a stop writes back what it read before.                                  *)
LEMMA TurnAlone ==
  ASSUME TypeInv, [Next]_vars, NEW t \in Turns, Untouched(t)
  PROVE  /\ made'[t] = made[t]
         /\ Visible(t)' => Visible(t)
         /\ Quiet(t) /\ (\A w \in Workers : Runs(w, t) => ~Beat(w)) => Quiet(t)'
         /\ Quiet(t) => job'[t] \in {job[t]} \cup Closed
         /\ Quiet(t) /\ t \notin found /\ msg[t] = "done" => msg'[t] = "done" \/ TakenBack(t)
         /\ t \in found' => t \in found \/ t \in StaleJobs
<1>0. WorkOK /\ TablesOK /\ PeopleOK /\ Assigned
  BY DEF TypeInv
<1> DEFINE Facts ==
         /\ made'[t] = made[t]
         /\ Visible(t)' => Visible(t)
         /\ Quiet(t) /\ (\A w \in Workers : Runs(w, t) => ~Beat(w)) => Quiet(t)'
         /\ Quiet(t) => job'[t] \in {job[t]} \cup Closed
         /\ Quiet(t) /\ t \notin found /\ msg[t] = "done" => msg'[t] = "done" \/ TakenBack(t)
         /\ t \in found' => t \in found \/ t \in StaleJobs
<1>1. ASSUME NEW u \in Turns, Asking(u) \/ AskerDies(u)
      PROVE  Facts
  <2>1. UNCHANGED <<made, beats, found, copy>>
    BY <1>1 DEF Asking, Reserve, CreateRun, CreateJob, EnqueueJob, NoteQueued, Accept, AskerDies,
       AskerRest, ghosts, stops, repair
  <2>2. asker[u] # "done" /\ \E s : asker' = [asker EXCEPT ![u] = s]
    BY <1>1 DEF Asking, Reserve, CreateRun, CreateJob, EnqueueJob, NoteQueued, Accept,
       AskerDies, Ask
  <2>3. UNCHANGED job \/ job' = [job EXCEPT ![u] = "queued"]
    BY <1>1 DEF Asking, Reserve, CreateRun, CreateJob, EnqueueJob, NoteQueued, Accept, AskerDies,
       SetJob, maxJob
  <2>4. UNCHANGED msg \/ msg' = [msg EXCEPT ![u] = "running"]
    BY <1>1 DEF Asking, Reserve, CreateRun, CreateJob, EnqueueJob, NoteQueued, Accept, AskerDies,
       PersistMsg, message
  <2> QED
    BY <1>0, <2>1, <2>2, <2>3, <2>4 DEF Quiet, Visible, TablesOK, PeopleOK
<1>2. ASSUME NEW u \in Turns, Stop(u) \/ StopSteps(u)
      PROVE  Facts
  <2>1. UNCHANGED <<made, beats, found, asker>>
    BY <1>2 DEF Stop, StopSteps, StopRun, StopFind, StopJob, StopRow, StopMsg, StopRead, StopPut,
       StopRest, repair
  <2>2. UNCHANGED job \/ job' = [job EXCEPT ![u] = "cancelled"]
    BY <1>2 DEF Stop, StopSteps, StopRun, StopFind, StopJob, StopRow, StopMsg, StopRead, StopPut,
       maxJob
  <2>3. CASE StopRead(u)
    <3>1. msg' = msg
      BY <2>3 DEF StopRead, message
    <3>2. Visible(t)' => Visible(t)
      <4>1. \/ UNCHANGED copy
            \/ \E S \in SUBSET Turns : copy' = [copy EXCEPT ![u] = [v \in S |-> msg[v]]]
        BY <2>3 DEF StopRead
      <4> QED
        BY <1>0, <3>1, <4>1 DEF Visible, PeopleOK
    <3> QED
      BY <1>0, <2>1, <2>2, <3>1, <3>2 DEF Quiet, TablesOK, Closed
  <2>4. CASE StopPut(u)
    <3>1. msg' = msg \/ msg' = Written(u)
      BY <2>4 DEF StopPut, message
    <3>2. copy' = [copy EXCEPT ![u] = NoCopy] /\ stop[u] = "put" /\ stop'[u] = "done"
      BY <1>0, <2>4 DEF StopPut, Stopping, PeopleOK
    <3>3. msg'[t] = "done" => Visible(t)
      BY <3>1 DEF Written, Visible
    <3>4. Visible(t)' => Visible(t)
      BY <1>0, <3>2, <3>3 DEF Visible, PeopleOK, NoCopy
    <3>5. msg[t] = "done" => msg'[t] = "done" \/ TakenBack(t)
      BY <3>1, <3>2 DEF Written, TakenBack
    <3> QED
      BY <1>0, <2>1, <2>2, <3>4, <3>5 DEF Quiet, TablesOK, Closed
  <2>5. CASE ~StopRead(u) /\ ~StopPut(u)
    <3>1. /\ UNCHANGED copy
          /\ UNCHANGED msg \/ (msg[u] = "running" /\ msg' = [msg EXCEPT ![u] = "cancelled"])
      BY <1>2, <2>5 DEF Stop, StopSteps, StopRun, StopFind, StopJob, StopRow, StopMsg, SetMsg,
         message
    <3> QED
      BY <1>0, <2>1, <2>2, <3>1 DEF Quiet, Visible, TablesOK, Closed
  <2> QED
    BY <2>3, <2>4, <2>5
<1>3. CASE Repair \/ RepairJobs \/ RepairRows \/ RepairFind \/ RepairDies
  <2>1. UNCHANGED <<made, beats, asker, copy>>
    BY <1>3 DEF Repair, RepairJobs, RepairRows, RepairFind, RepairDies, RepairRest, stops, ghosts
  <2>2. found' \subseteq found \cup StaleJobs
    BY <1>3 DEF Repair, RepairJobs, RepairRows, RepairFind, RepairDies
  <2>3. job'[t] \in {job[t]} \cup Closed
    BY <1>3 DEF Repair, RepairJobs, RepairRows, RepairFind, RepairDies, maxJob, Closed
  <2>4. msg'[t] = msg[t] \/ (msg[t] = "running" /\ msg'[t] = "error")
    BY <1>3 DEF Repair, RepairJobs, RepairRows, RepairFind, RepairDies, message, Lost
  <2> QED
    BY <2>1, <2>2, <2>3, <2>4 DEF Quiet, Visible
<1>4. ASSUME NEW u \in Turns, RepairTurn(u)
      PROVE  Facts
  <2>1. UNCHANGED <<made, beats, asker, copy, job>> /\ found' \subseteq found /\ u \in found
    BY <1>4 DEF RepairTurn, RepairRest, stops, ghosts, maxJob
  <2>2. UNCHANGED msg \/ msg' = [msg EXCEPT ![u] = "error"]
    BY <1>4 DEF RepairTurn, SetMsg, message
  <2> QED
    BY <1>0, <2>1, <2>2 DEF Quiet, Visible, TablesOK
<1>5. ASSUME NEW u \in Turns, BeatLands(u)
      PROVE  Facts
  <2>1. UNCHANGED <<made, asker, found, copy, msg>> /\ u \in beats /\ beats' = beats \ {u}
    BY <1>5 DEF BeatLands, WorkRest, stops, repair, message
  <2>2. job' = [job EXCEPT ![u] = "running"]
    BY <1>5 DEF BeatLands, SetJob
  <2> QED
    BY <1>0, <2>1, <2>2 DEF Quiet, Visible, TablesOK
<1>6. ASSUME NEW w \in Workers, Beat(w)
      PROVE  Facts
  <2>1. UNCHANGED <<made, asker, found, copy, msg, job>> /\ beats' = beats \cup {at[w]}
    BY <1>6 DEF Beat, stops, repair, message, maxJob
  <2>2. at[w] = t => Runs(w, t)
    BY <1>6 DEF Beat, Runs
  <2> QED
    BY <1>6, <2>1, <2>2 DEF Quiet, Visible
<1>7. CASE \/ OtherAsks \/ OtherEnds \/ Tick \/ UNCHANGED vars
           \/ \E u \in Turns : SweepRow(u)
           \/ \E w \in Workers, u \in Turns : Take(w, u)
           \/ \E w \in Workers : Complete(w) \/ Fail(w)
  <2>1. UNCHANGED <<made, asker, beats, found, copy, msg, job>>
    BY <1>7 DEF OtherAsks, OtherEnds, Tick, vars, SweepRow, Take, Complete, Fail, DriverRest,
       message, maxJob, stops, repair, ghosts
  <2> QED
    BY <2>1 DEF Quiet, Visible
<1>8. ASSUME NEW w \in Workers,
             \/ Read(w) \/ Check(w) \/ StartRun(w) \/ Progress(w) \/ ShowRunning(w) \/ Build(w)
             \/ Close(w) \/ NextFamily(w) \/ WorkFails(w) \/ Kill(w)
      PROVE  Facts
  <2>1. UNCHANGED <<asker, beats, found, copy>> /\ phase[w] # "idle"
    BY <1>8 DEF Read, Check, StartRun, Progress, ShowRunning, Build, Close, NextFamily, WorkFails,
       Kill, WorkRest, stops, repair, Checks, Closing
  <2>2. /\ made' = made \/ made' = [made EXCEPT ![at[w]] = @ + 1]
        /\ job' = job \/ \E s : job' = [job EXCEPT ![at[w]] = s]
        /\ msg' = msg \/ \E s : msg' = [msg EXCEPT ![at[w]] = s]
    BY <1>8 DEF Read, Check, StartRun, Progress, ShowRunning, Build, Close, NextFamily, WorkFails,
       Kill, SetJob, PersistMsg, message, maxJob
  <2>3. CASE at[w] # t
    <3>1. made'[t] = made[t] /\ job'[t] = job[t] /\ msg'[t] = msg[t]
      BY <1>0, <2>2, <2>3 DEF WorkOK, TablesOK
    <3> QED
      BY <2>1, <3>1 DEF Quiet, Visible
  <2>4. CASE at[w] = t
    <3>1. Same(w)
      BY <2>1, <2>4 DEF Untouched, Runs
    <3>2. UNCHANGED <<made, job, msg>>
      <4>1. ~Progress(w) /\ ~ShowRunning(w)
        BY <1>0, <3>1 DEF Progress, ShowRunning, Advance, After, Goto, Same, WorkOK
      <4>2. ~Build(w) /\ ~NextFamily(w)
        BY <1>0, <3>1 DEF Build, NextFamily, Goto, After, Same, WorkOK
      <4>3. ~Close(w)
        BY <1>0, <3>1 DEF Close, Closing, AfterClosing, Same, WorkOK
      <4> QED
        BY <1>8, <4>1, <4>2, <4>3 DEF Read, Check, StartRun, WorkFails, Kill, message, maxJob
    <3> QED
      BY <2>1, <3>2 DEF Quiet, Visible
  <2> QED
    BY <2>3, <2>4
<1> QED
  BY <1>1, <1>2, <1>3, <1>4, <1>5, <1>6, <1>7, <1>8 DEF Next, Repairing, Working

------------------------------------------------------------------------------
(* BuiltOnce and AnswerKept hold if what was sent before an artifact is     *)
(* done has landed by then (Prompt).  From the artifact on, the job is      *)
(* closed, or its one worker is about to close it; and whoever could open   *)
(* it again, or take the answer back, is through or finds it alive.         *)

(* The worker has an artifact to show.                                      *)
Delivering(w) == phase[w] \in {"recheck", "closeMsg", "closeJob"} /\ verdict[w] = "done"

Delivery ==
  \A w \in Workers : Delivering(w) /\ ~upset[at[w]] => Quiet(at[w]) /\ at[w] \notin found

Over == {"read", "returned", "failing"}

ToClose(w) ==
  phase[w] = "closeJob" \/ (phase[w] \in {"recheck", "closeMsg"} /\ ~Caught(w))

Settled ==
  \A t \in Turns : made[t] > 0 /\ ~upset[t] =>
    /\ made[t] = 1 /\ Quiet(t)
    /\ \/ /\ job[t] \in Closed
          /\ \A w \in Workers : Runs(w, t) => phase[w] \in Over \cup Closing
       \/ \E w \in Workers : Runs(w, t) /\ ToClose(w)

Answered ==
  \A t \in Turns : Visible(t) /\ ~upset[t] =>
    /\ Quiet(t) /\ t \notin found
    /\ \/ /\ job[t] \in Closed
          /\ \A w \in Workers : Runs(w, t) => phase[w] \in Over \cup {"closeRun"}
       \/ \E w \in Workers : Runs(w, t) /\ phase[w] = "closeJob" /\ verdict[w] = "done"

IInv == TypeInv /\ Holding /\ Warmed /\ Delivery /\ Settled /\ Answered

LEMMA InitIInv == Init => IInv
BY TypeInit DEF Init, IInv, Holding, Warmed, Warm, Delivery, Delivering, Settled, Answered,
   Visible,
   NoCopy

(* The worker's own statements leave the others' state alone.               *)
LEMMA OwnStep ==
  ASSUME TypeInv, NEW w \in Workers, NEW t \in Turns, Runs(w, t), Working(w) \/ NextFamily(w)
  PROVE  /\ UNCHANGED <<asker, beats, found, upset>>
         /\ phase'[w] = "idle" \/ at'[w] = t
<1>1. UNCHANGED <<asker, beats, found, upset>>
  BY DEF Working, Read, Check, StartRun, Progress, ShowRunning, Build, Close, Complete, Fail,
     NextFamily, WorkRest, DriverRest, repair, ghosts
<1>2. CASE Complete(w) \/ Fail(w)
  BY <1>1, <1>2 DEF Complete, Fail, Rest, Runs, TypeInv, WorkOK
<1> QED
  BY <1>1, <1>2 DEF Working, Read, Check, StartRun, Progress, ShowRunning, Build, Close,
     NextFamily, Goto, Advance, Runs

(* No heartbeat is sent once there is an artifact.                          *)
LEMMA BeatsEarly ==
  ASSUME Prompt, NEW w \in Workers, phase[w] \in Over \cup Closing \cup {"recheck"}
  PROVE  ~Beat(w)
BY DEF Beat, Over

LEMMA HurtStep ==
  ASSUME TypeInv, NEW w \in Workers, NEW t \in Turns, Runs(w, t), WorkFails(w) \/ Kill(w)
  PROVE  upset'[t]
BY DEF WorkFails, Kill, Runs, TypeInv, WorkOK

LEMMA DeliveryStep ==
  ASSUME Prompt, IInv, [Next]_vars
  PROVE  Delivery'
<1>0. TypeInv /\ WorkOK /\ Assigned /\ Holding /\ Warmed /\ Delivery
  BY DEF IInv, TypeInv
<1> SUFFICES ASSUME NEW w \in Workers, NEW t \in Turns, at'[w] = t, Delivering(w)', ~upset'[t]
             PROVE  Quiet(t)' /\ t \notin found'
  <2>1. TypeInv'
    BY <1>0, TypeStep
  <2>2. \A w \in Workers : Delivering(w)' => at'[w] \in Turns
    BY <2>1 DEF TypeInv, Assigned, Delivering
  <2>3. ASSUME NEW w \in Workers, Delivering(w)', ~upset'[at'[w]]
        PROVE  /\ asker'[at'[w]] = "done" /\ at'[w] \notin beats' /\ at'[w] \notin found'
    <3>1. PICK t \in Turns : t = at'[w]
      BY <2>2, <2>3
    <3> QED
      BY <2>3, <3>1 DEF Quiet
  <2> QED
    BY <2>3 DEF Delivery, Quiet
<1>1. ~upset[t]
  BY <1>0, UpsetStays
<1>2. CASE Untouched(t)
  <2>1. Runs(w, t) /\ Delivering(w) /\ at[w] = t
    BY <1>2 DEF Untouched, Runs, Delivering, Same
  <2>2. Quiet(t) /\ t \notin found
    BY <1>0, <1>1, <2>1 DEF Delivery
  <2>3. \A v \in Workers : Runs(v, t) => ~Beat(v)
    BY <1>0, <2>1, Sole, BeatsEarly DEF Delivering, Closing
  <2>4. t \notin StaleJobs
    <3>1. beaten[t] > 0 /\ beaten[t] \in 0..StaleLen
      BY <1>0, <2>1 DEF Warmed, Warm, Delivering, TypeInv, TablesOK
    <3> QED
      BY <3>1, MaxModeAssumption DEF StaleJobs
  <2> QED
    BY <1>0, <1>2, <2>2, <2>3, <2>4, TurnAlone
<1>3. ASSUME NEW v \in Workers, Take(v, t)
      PROVE  FALSE
  BY <1>0, <1>3, TakenAlone DEF Delivering, Runs
<1>4. ASSUME NEW v \in Workers, Runs(v, t), Working(v) \/ NextFamily(v)
      PROVE  Quiet(t)' /\ t \notin found'
  <2>1. v = w
    BY <1>0, <1>4, Sole DEF Acts, Delivering, Runs
  <2>2. UNCHANGED <<asker, beats, found>> /\ at[w] = t
    BY <1>0, <1>4, <2>1, OwnStep DEF Runs
  <2>3. CASE Delivering(w)
    BY <1>0, <1>1, <2>2, <2>3 DEF Delivery, Quiet
  <2>4. CASE Build(w)
    BY <2>2, <2>4 DEF Build, Quiet
  <2>5. CASE ~Delivering(w) /\ ~Build(w)
    <3>1. ~Read(w) /\ ~NextFamily(w)
      BY <1>0 DEF Read, NextFamily, Goto, Delivering, WorkOK
    <3>2. ~Check(w)
      <4>1. ASSUME Check(w)
            PROVE  FALSE
        <5>1. phase[w] \in Checks /\ verdict[w] = "done" /\ phase'[w] = After(at[w])[phase[w]]
          BY <1>0, <4>1 DEF Check, Advance, Goto, Delivering, WorkOK
        <5>2. phase[w] \in {"check", "scan"}
          BY <2>5, <5>1 DEF Checks, Delivering
        <5> QED
          BY <5>1, <5>2 DEF After, Delivering
      <4> QED
        BY <4>1
    <3>3. ~StartRun(w) /\ ~Progress(w) /\ ~ShowRunning(w)
      BY <1>0 DEF StartRun, Progress, ShowRunning, Advance, Goto, After, Delivering, WorkOK
    <3>4. ~Close(w)
      <4>1. ASSUME Close(w)
            PROVE  FALSE
        <5>1. phase[w] = "closeRun" /\ phase'[w] = AfterClosing(w)[phase[w]]
          BY <1>0, <2>5, <4>1 DEF Close, Closing, Delivering, WorkOK
        <5> QED
          BY <5>1 DEF AfterClosing, Delivering
      <4> QED
        BY <4>1
    <3>5. ~Complete(w) /\ ~Fail(w)
      BY <1>0 DEF Complete, Fail, Rest, Delivering, WorkOK
    <3> QED
      BY <1>4, <2>1, <2>5, <3>1, <3>2, <3>3, <3>4, <3>5 DEF Working
  <2> QED
    BY <2>3, <2>4, <2>5
<1>5. ASSUME NEW v \in Workers, Runs(v, t), WorkFails(v) \/ Kill(v)
      PROVE  FALSE
  BY <1>0, <1>5, HurtStep
<1> QED
  BY <1>0, <1>2, <1>3, <1>4, <1>5, WhoMoves

LEMMA SettledStep ==
  ASSUME Prompt, IInv, [Next]_vars
  PROVE  Settled'
<1>0. TypeInv /\ WorkOK /\ TablesOK /\ Holding /\ Settled
  BY DEF IInv, TypeInv
<1> SUFFICES ASSUME NEW t \in Turns, made'[t] > 0, ~upset'[t]
             PROVE  /\ made'[t] = 1 /\ Quiet(t)'
                    /\ \/ /\ job'[t] \in Closed
                          /\ \A w \in Workers : Runs(w, t)' => phase'[w] \in Over \cup Closing
                       \/ \E w \in Workers : Runs(w, t)' /\ ToClose(w)'
  BY DEF Settled
<1> DEFINE Goal ==
         /\ made'[t] = 1 /\ Quiet(t)'
         /\ \/ /\ job'[t] \in Closed
               /\ \A w \in Workers : Runs(w, t)' => phase'[w] \in Over \cup Closing
            \/ \E w \in Workers : Runs(w, t)' /\ ToClose(w)'
<1>1. ~upset[t]
  BY <1>0, UpsetStays
<1>2. made[t] > 0 =>
        /\ made[t] = 1 /\ Quiet(t)
        /\ \/ /\ job[t] \in Closed
              /\ \A w \in Workers : Runs(w, t) => phase[w] \in Over \cup Closing
           \/ \E w \in Workers : Runs(w, t) /\ ToClose(w)
  BY <1>0, <1>1 DEF Settled
<1>3. CASE Untouched(t)
  <2>1. made'[t] = made[t] /\ made[t] > 0
    BY <1>0, <1>3, TurnAlone
  <2>2. \A w \in Workers : Runs(w, t) => phase[w] \in Over \cup Closing \cup {"recheck"}
    BY <1>0, <1>2, <2>1, Sole DEF ToClose, Closing
  <2>3. \A w \in Workers : Runs(w, t) => ~Beat(w)
    BY <2>2, BeatsEarly
  <2>4. Quiet(t)' /\ job'[t] \in {job[t]} \cup Closed
    BY <1>0, <1>2, <1>3, <2>1, <2>3, TurnAlone
  <2>5. CASE /\ job[t] \in Closed
             /\ \A w \in Workers : Runs(w, t) => phase[w] \in Over \cup Closing
    BY <1>2, <1>3, <2>1, <2>4, <2>5 DEF Untouched, Same, Runs
  <2>6. CASE \E w \in Workers : Runs(w, t) /\ ToClose(w)
    BY <1>2, <1>3, <2>1, <2>4, <2>6 DEF Untouched, Same, Runs, ToClose, Caught
  <2> QED
    BY <1>2, <2>1, <2>5, <2>6
<1>4. ASSUME NEW v \in Workers, Take(v, t)
      PROVE  Goal
  BY <1>0, <1>2, <1>4, TakenAlone DEF Over, Quiet
<1>5. ASSUME NEW w \in Workers, Runs(w, t), Working(w) \/ NextFamily(w)
      PROVE  Goal
  <2>1. /\ UNCHANGED <<asker, beats>> /\ at[w] = t
        /\ phase'[w] = "idle" \/ Runs(w, t)'
        /\ \A v \in Workers : Runs(v, t) => v = w
        /\ \A v \in Workers : Runs(v, t)' => v = w
    BY <1>0, <1>5, OwnStep, Sole DEF Acts, Runs
  <2>2. CASE Build(w)
    <3>1. Quiet(t)' /\ phase[w] = "build"
      BY <2>1, <2>2 DEF Build, Quiet
    <3>2. ~(made[t] > 0)
      BY <1>2, <1>5, <2>1, <3>1 DEF ToClose, Over, Closing
    <3>3. made[t] = 0
      BY <1>0, <3>2 DEF WorkOK
    <3>4. /\ made' = [made EXCEPT ![t] = @ + 1]
          /\ Goto(w, After(t).build, "done")
      BY <2>1, <2>2, <3>3 DEF Build
    <3>5. made'[t] = 1
      BY <1>0, <3>3, <3>4 DEF WorkOK
    <3>6. phase'[w] \in {"recheck", "closeMsg"} /\ verdict'[w] = "done" /\ Runs(w, t)'
      BY <1>0, <2>1, <3>4 DEF Goto, After, WorkOK
    <3> QED
      BY <3>1, <3>5, <3>6 DEF ToClose, Caught
  <2>3. CASE ~Build(w)
    <3>1. made' = made
      BY <1>5, <2>3 DEF Working, Read, Check, StartRun, Progress, ShowRunning, Close, Complete,
         Fail, NextFamily, DriverRest, ghosts
    <3>2. made'[t] = 1 /\ made[t] > 0 /\ Quiet(t)'
      BY <1>2, <2>1, <3>1 DEF Quiet
    <3>3. phase[w] \in Over \cup Closing \cup {"recheck"}
      BY <1>2, <2>1, <3>2, <1>5 DEF ToClose, Closing
    <3>4. \/ ToClose(w)
          \/ job[t] \in Closed /\ phase[w] \in Over \cup Closing
      BY <1>2, <1>5, <2>1, <3>2
    <3>5. \/ job'[t] \in Closed /\ (phase'[w] = "idle" \/ phase'[w] \in Over \cup Closing)
          \/ Runs(w, t)' /\ ToClose(w)'
      <4>1. CASE Read(w)
        <5>1. phase[w] = "read" /\ job[t] \in Closed
          BY <3>4, <4>1 DEF Read, ToClose
        <5>2. phase'[w] = "returned" /\ job' = job
          BY <1>0, <2>1, <4>1, <5>1 DEF Read, Goto, maxJob, WorkOK
        <5> QED
          BY <5>1, <5>2 DEF Over
      <4>2. CASE Check(w)
        <5>1. phase[w] = "recheck" /\ ~Caught(w)
          BY <3>4, <4>2 DEF Check, Checks, ToClose, Over, Closing
        <5>2. \/ phase'[w] = "closeMsg" /\ verdict'[w] = verdict[w]
              \/ phase'[w] = "closeJob"
          BY <1>0, <4>2, <5>1 DEF Check, Advance, After, Goto, WorkOK
        <5>3. Runs(w, t)'
          BY <2>1, <5>2
        <5> QED
          BY <5>1, <5>2, <5>3 DEF ToClose, Caught
      <4>3. CASE StartRun(w) \/ Progress(w) \/ ShowRunning(w) \/ NextFamily(w)
        BY <3>3, <4>3 DEF StartRun, Progress, ShowRunning, NextFamily, Over, Closing
      <4>4. CASE Close(w)
        <5>1. phase'[w] = AfterClosing(w)[phase[w]] /\ verdict'[w] = verdict[w]
          BY <1>0, <4>4 DEF Close, WorkOK
        <5>2. CASE phase[w] = "closeMsg" /\ ~Caught(w)
          <6>1. phase'[w] = "closeJob"
            BY <5>1, <5>2 DEF AfterClosing
          <6> QED
            BY <2>1, <6>1 DEF ToClose
        <5>3. CASE phase[w] = "closeMsg" /\ Caught(w)
          <6>1. phase'[w] = "closeRun" /\ job[t] \in Closed
            BY <3>4, <5>1, <5>3 DEF AfterClosing, ToClose
          <6>2. job' = job
            BY <4>4, <5>3 DEF Close, maxJob
          <6> QED
            BY <6>1, <6>2 DEF Closing
        <5>4. CASE phase[w] = "closeJob"
          <6>1. phase'[w] \in Closing
            BY <5>1, <5>4 DEF AfterClosing, Closing
          <6>2. job'[t] = Outcome(verdict[w]).job
            BY <1>0, <2>1, <4>4, <5>4 DEF Close, SetJob, TablesOK
          <6>3. job'[t] \in Closed
            BY <1>0, <6>2, OutcomeType DEF WorkOK
          <6> QED
            BY <6>1, <6>3
        <5>5. CASE phase[w] = "closeRun"
          <6>1. phase'[w] \in Over /\ job[t] \in Closed
            BY <3>4, <5>1, <5>5 DEF AfterClosing, ToClose, Over
          <6>2. job' = job
            BY <4>4, <5>5 DEF Close, maxJob
          <6> QED
            BY <6>1, <6>2
        <5> QED
          BY <4>4, <5>2, <5>3, <5>4, <5>5 DEF Close, Closing
      <4>5. CASE Complete(w) \/ Fail(w)
        <5>1. phase[w] \in {"returned", "failing"} /\ job' = job
          BY <4>5 DEF Complete, Fail, DriverRest, maxJob
        <5>2. job[t] \in Closed
          BY <3>4, <5>1 DEF ToClose
        <5>3. phase'[w] \in {"idle", "failing"}
          BY <1>0, <4>5 DEF Complete, Fail, Rest, WorkOK
        <5> QED
          BY <5>1, <5>2, <5>3 DEF Over
      <4> QED
        BY <1>5, <2>3, <4>1, <4>2, <4>3, <4>4, <4>5 DEF Working
    <3> QED
      BY <2>1, <3>2, <3>5 DEF Runs
  <2> QED
    BY <2>2, <2>3
<1>6. ASSUME NEW v \in Workers, Runs(v, t), WorkFails(v) \/ Kill(v)
      PROVE  FALSE
  BY <1>0, <1>6, HurtStep
<1> QED
  BY <1>0, <1>3, <1>4, <1>5, <1>6, WhoMoves

LEMMA AnsweredStep ==
  ASSUME Prompt, IInv, [Next]_vars, NEW t \in Turns, ~upset'[t]
  PROVE  /\ msg[t] = "done" => msg'[t] = "done" \/ TakenBack(t)
         /\ Visible(t)' =>
              /\ Quiet(t)' /\ t \notin found'
              /\ \/ /\ job'[t] \in Closed
                    /\ \A w \in Workers : Runs(w, t)' => phase'[w] \in Over \cup {"closeRun"}
                 \/ \E w \in Workers : /\ Runs(w, t)'
                                       /\ phase'[w] = "closeJob" /\ verdict'[w] = "done"
<1>0. TypeInv /\ WorkOK /\ TablesOK /\ Holding /\ Warmed /\ Delivery /\ Answered
  BY DEF IInv, TypeInv
<1> DEFINE Place ==
         \/ /\ job'[t] \in Closed
            /\ \A w \in Workers : Runs(w, t)' => phase'[w] \in Over \cup {"closeRun"}
         \/ \E w \in Workers : Runs(w, t)' /\ phase'[w] = "closeJob" /\ verdict'[w] = "done"
<1> DEFINE Goal ==
         /\ msg[t] = "done" => msg'[t] = "done" \/ TakenBack(t)
         /\ Visible(t)' => Quiet(t)' /\ t \notin found' /\ Place
<1>1. ~upset[t]
  BY <1>0, UpsetStays
<1>2. Visible(t) =>
        /\ Quiet(t) /\ t \notin found
        /\ \/ /\ job[t] \in Closed
              /\ \A w \in Workers : Runs(w, t) => phase[w] \in Over \cup {"closeRun"}
           \/ \E w \in Workers : Runs(w, t) /\ phase[w] = "closeJob" /\ verdict[w] = "done"
  BY <1>0, <1>1 DEF Answered
<1>3. CASE Untouched(t)
  <2>1. (Visible(t)' => Visible(t)) /\ (msg[t] = "done" => Visible(t))
    BY <1>0, <1>3, TurnAlone DEF Visible
  <2>2. SUFFICES ASSUME Visible(t)
                 PROVE  /\ msg[t] = "done" => msg'[t] = "done" \/ TakenBack(t)
                        /\ Quiet(t)' /\ t \notin found' /\ Place
    BY <2>1
  <2>3. \A w \in Workers : Runs(w, t) => phase[w] \in Over \cup Closing \cup {"recheck"}
    BY <1>0, <1>2, <2>2, Sole DEF Closing
  <2>4. \A w \in Workers : Runs(w, t) => ~Beat(w)
    BY <2>3, BeatsEarly
  <2>5. /\ Quiet(t)' /\ job'[t] \in {job[t]} \cup Closed
        /\ msg[t] = "done" => msg'[t] = "done" \/ TakenBack(t)
    BY <1>0, <1>2, <1>3, <2>2, <2>4, TurnAlone
  <2>6. CASE /\ job[t] \in Closed
             /\ \A w \in Workers : Runs(w, t) => phase[w] \in Over \cup {"closeRun"}
    <3>1. t \notin StaleJobs
      BY <2>6 DEF StaleJobs, Closed
    <3>2. t \notin found'
      BY <1>0, <1>2, <1>3, <2>2, <3>1, TurnAlone
    <3> QED
      BY <1>3, <2>5, <2>6, <3>2 DEF Untouched, Same, Runs
  <2>7. CASE \E w \in Workers : Runs(w, t) /\ phase[w] = "closeJob" /\ verdict[w] = "done"
    <3>1. PICK w \in Workers : Runs(w, t) /\ phase[w] = "closeJob" /\ verdict[w] = "done"
      BY <2>7
    <3>2. beaten[t] > 0 /\ beaten[t] \in 0..StaleLen
      BY <1>0, <3>1 DEF Warmed, Warm, Runs, TablesOK
    <3>3. t \notin StaleJobs
      BY <3>2, MaxModeAssumption DEF StaleJobs
    <3>4. t \notin found'
      BY <1>0, <1>2, <1>3, <2>2, <3>3, TurnAlone
    <3> QED
      BY <1>3, <2>5, <3>1, <3>4 DEF Untouched, Same, Runs
  <2> QED
    BY <1>2, <2>2, <2>5, <2>6, <2>7
<1>4. ASSUME NEW v \in Workers, Take(v, t)
      PROVE  Goal
  <2>1. UNCHANGED <<msg, copy>>
    BY <1>4 DEF Take, DriverRest, message, stops
  <2> QED
    BY <1>0, <1>2, <1>4, <2>1, TakenAlone DEF Over, Quiet, Visible
<1>5. ASSUME NEW w \in Workers, Runs(w, t), Working(w) \/ NextFamily(w)
      PROVE  Goal
  <2>0. UNCHANGED copy
    BY <1>5 DEF Working, Read, Check, StartRun, Progress, ShowRunning, Build, Close, Complete,
       Fail,
       NextFamily, WorkRest, DriverRest, stops
  <2>1. /\ UNCHANGED <<asker, beats, found>> /\ at[w] = t
        /\ phase'[w] = "idle" \/ Runs(w, t)'
        /\ \A v \in Workers : Runs(v, t) => v = w
        /\ \A v \in Workers : Runs(v, t)' => v = w
    BY <1>0, <1>5, OwnStep, Sole DEF Acts, Runs
  <2>2. CASE Close(w) /\ phase[w] = "closeMsg"
    <3>1. ~Visible(t)
      BY <1>2, <2>1, <2>2, <1>5 DEF Over
    <3>2. /\ msg'[t] = Outcome(verdict[w]).msg
          /\ phase'[w] = AfterClosing(w)[phase[w]] /\ verdict' = verdict
      BY <1>0, <2>1, <2>2 DEF Close, PersistMsg, TablesOK, WorkOK
    <3>3. SUFFICES ASSUME msg'[t] = "done"
                   PROVE  Quiet(t)' /\ t \notin found' /\ Place
      BY <2>0, <3>1 DEF Visible
    <3>4. verdict[w] = "done"
      BY <3>2, <3>3 DEF Outcome
    <3>5. Quiet(t) /\ t \notin found
      BY <1>0, <1>1, <2>1, <2>2, <3>4 DEF Delivery, Delivering
    <3>6. phase'[w] = "closeJob" /\ Runs(w, t)'
      BY <2>1, <2>2, <3>2, <3>4 DEF AfterClosing, Caught
    <3> QED
      BY <2>1, <3>2, <3>4, <3>5, <3>6 DEF Quiet
  <2>3. CASE ShowRunning(w)
    <3>1. ~Visible(t)
      BY <1>2, <2>1, <2>3, <1>5 DEF ShowRunning, Over
    <3>2. msg' = msg \/ msg'[t] = "running"
      BY <1>0, <2>1, <2>3 DEF ShowRunning, PersistMsg, message, TablesOK
    <3> QED
      BY <2>0, <3>1, <3>2 DEF Visible
  <2>4. CASE ~ShowRunning(w) /\ ~(Close(w) /\ phase[w] = "closeMsg")
    <3>1. msg' = msg
      BY <1>5, <2>4 DEF Working, Read, Check, StartRun, Progress, Build, Close, Complete,
         Fail, NextFamily, DriverRest, message
    <3>2. SUFFICES ASSUME Visible(t)
                   PROVE  Place
      BY <1>2, <2>0, <2>1, <3>1 DEF Quiet, Visible
    <3>3. \/ phase[w] = "closeJob" /\ verdict[w] = "done"
          \/ job[t] \in Closed /\ phase[w] \in Over \cup {"closeRun"}
      BY <1>2, <1>5, <2>1, <3>2
    <3>4. job'[t] \in Closed /\ (phase'[w] = "idle" \/ phase'[w] \in Over \cup {"closeRun"})
      <4>1. CASE Read(w)
        <5>1. phase[w] = "read" /\ job[t] \in Closed
          BY <3>3, <4>1 DEF Read
        <5>2. phase'[w] = "returned" /\ job' = job
          BY <1>0, <2>1, <4>1, <5>1 DEF Read, Goto, maxJob, WorkOK
        <5> QED
          BY <5>1, <5>2 DEF Over
      <4>2. ~(Check(w) \/ StartRun(w) \/ Progress(w) \/ NextFamily(w) \/ Build(w))
        BY <3>3 DEF Check, Checks, StartRun, Progress, NextFamily, Build, Over
      <4>3. CASE Close(w)
        <5>1. phase'[w] = AfterClosing(w)[phase[w]]
          BY <1>0, <4>3 DEF Close, WorkOK
        <5>2. CASE phase[w] = "closeJob"
          <6>1. phase'[w] = "closeRun"
            BY <3>3, <5>1, <5>2 DEF AfterClosing, Caught, Over
          <6>2. job'[t] = Outcome(verdict[w]).job
            BY <1>0, <2>1, <4>3, <5>2 DEF Close, SetJob, TablesOK
          <6>3. job'[t] \in Closed
            BY <1>0, <6>2, OutcomeType DEF WorkOK
          <6> QED
            BY <6>1, <6>3
        <5>3. CASE phase[w] = "closeRun"
          <6>1. phase'[w] \in Over /\ job[t] \in Closed
            BY <3>3, <5>1, <5>3 DEF AfterClosing, Over
          <6>2. job' = job
            BY <4>3, <5>3 DEF Close, maxJob
          <6> QED
            BY <6>1, <6>2
        <5> QED
          BY <2>4, <4>3, <5>2, <5>3 DEF Close, Closing
      <4>4. CASE Complete(w) \/ Fail(w)
        <5>1. phase[w] \in {"returned", "failing"} /\ job' = job
          BY <4>4 DEF Complete, Fail, DriverRest, maxJob
        <5>2. job[t] \in Closed
          BY <3>3, <5>1
        <5>3. phase'[w] \in {"idle", "failing"}
          BY <1>0, <4>4 DEF Complete, Fail, Rest, WorkOK
        <5> QED
          BY <5>1, <5>2, <5>3 DEF Over
      <4> QED
        BY <1>5, <2>4, <4>1, <4>2, <4>3, <4>4 DEF Working
    <3> QED
      BY <2>1, <3>4 DEF Runs
  <2> QED
    BY <2>2, <2>3, <2>4
<1>6. ASSUME NEW v \in Workers, Runs(v, t), WorkFails(v) \/ Kill(v)
      PROVE  FALSE
  BY <1>0, <1>6, HurtStep
<1> QED
  BY <1>0, <1>3, <1>4, <1>5, <1>6, WhoMoves

LEMMA IInvStep ==
  ASSUME Prompt, IInv, [Next]_vars
  PROVE  IInv'
<1>1. TypeInv' /\ Holding' /\ Warmed'
  BY TypeStep, HoldingStep, WarmedStep DEF IInv
<1>2. Delivery' /\ Settled'
  BY DeliveryStep, SettledStep
<1>3. Answered'
  BY AnsweredStep DEF Answered
<1> QED
  BY <1>1, <1>2, <1>3 DEF IInv

(* BuiltOnce: however often a job's row is retried, swept and taken again,  *)
(* and whoever stops or repairs the turn meanwhile, an artifact is built at *)
(* most once unless the worker itself was hurt.                             *)
THEOREM BuildsOnce ==
  ASSUME Prompt
  PROVE  Spec => []BuiltOnce
<1>1. IInv => BuiltOnce
  <2> SUFFICES ASSUME IInv, NEW t \in Turns, made[t] > 1, ~upset[t]
               PROVE  FALSE
    BY DEF BuiltOnce, IInv, TypeInv, WorkOK
  <2>1. made[t] \in Nat
    BY DEF IInv, TypeInv, WorkOK
  <2>2. made[t] = 1
    BY <2>1 DEF IInv, Settled
  <2> QED
    BY <2>2
<1> QED
  BY <1>1, InitIInv, IInvStep, PTL DEF Spec

(* AnswerKept: no repair, heartbeat, late part of the request or later stop *)
(* takes back the answer the user has seen; only a stop that had read the   *)
(* turn as running, and writes that back, does.                             *)
THEOREM AnswerStays ==
  ASSUME Prompt
  PROVE  Spec => AnswerKept
<1>1. IInv /\ [Next]_vars =>
        [\A t \in Turns :
           msg[t] = "done" /\ ~upset'[t] => msg'[t] = "done" \/ TakenBack(t)]_vars
  BY AnsweredStep
<1> QED
  BY <1>1, InitIInv, IInvStep, PTL DEF Spec, AnswerKept
==============================================================================
