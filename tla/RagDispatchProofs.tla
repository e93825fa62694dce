-------------------------- MODULE RagDispatchProofs --------------------------
(***************************************************************************)
(* Theorems about RagDispatch, for every value of its constants: the table *)
(* keeps its promise with a second drainer, whatever the Cloudflare queue  *)
(* does with the messages.                                                 *)
(*                                                                         *)
(* Every step but the sweep's and the clock's runs one statement on the    *)
(* table and leaves what the sweeps have read alone (StepKinds); the       *)
(* budget and the refinement are proved statement by statement.  The caps  *)
(* rest on what each of the two claimers has still to add (RoomKept).      *)
(***************************************************************************)
EXTENDS RagDispatch, WorkQueueRowsProofs, FiniteSetTheorems

MailType ==
  /\ fresh \in [Items -> 0..MaxCopies]
  /\ stale \subseteq Items

DispatcherType ==
  /\ due \subseteq Dispatchers
  /\ pc \in [Dispatchers -> {"idle", "sweep", "claim", "send", "undo"}]
  /\ room \in [Dispatchers -> Nat]
  /\ out \in [Dispatchers -> [Items -> {"none", "stale", "claimed", "sent"}]]

RunnerType ==
  /\ at \in [Runners -> Items \cup {NoItem}]
  /\ phase \in [Runners -> {"idle", "counted", "running", "returned", "failing", "failed"}]
  /\ letter \in [Runners -> {"none", "fresh", "stale"}]

SeenType == seen \in [Dispatchers \cup Runners -> [Items -> Nat]]

(* A runner that has got beyond its claim has a row.                        *)
Busy == \A r \in Runners : phase[r] \notin {"idle", "counted"} => at[r] \in Items

Types == RowTypeOK /\ MailType /\ DispatcherType /\ RunnerType /\ SeenType /\ Busy

LEMMA TypesImplyTypeOK == Types => TypeOK
BY DEF Types, TypeOK, RowTypeOK, MailType, DispatcherType, RunnerType, SeenType

------------------------------------------------------------------------------
(* Type correctness: the steps by the variables they change.                *)

LEMMA TypeInit == Init => Types
BY RagDispatchAssumption
DEF Init, RowInit, Types, RowTypeOK, MailType, DispatcherType, RunnerType, SeenType,
    Busy, Statuses, NoLease

LEMMA NewHeartbeatType ==
  ASSUME MailType, NEW S \in SUBSET Items, NewHeartbeat(S)
  PROVE  MailType'
<1>1. 0 \in 0..MaxCopies
  BY RagDispatchAssumption
<1>2. QED
  BY <1>1 DEF MailType, NewHeartbeat

LEMMA OutdatedType ==
  ASSUME RunnerType, NEW S
  PROVE  Outdated(S) \in [Runners -> {"none", "fresh", "stale"}]
BY DEF RunnerType, Outdated

LEMMA ClaimRowsType ==
  ASSUME RowTypeOK, NEW batch \in SUBSET Items, ClaimRows(batch)
  PROVE  RowTypeOK'
<1>1. LeaseLen \in Nat
  BY WorkQueueRowsAssumption
<1>2. QED
  BY <1>1 DEF RowTypeOK, ClaimRows, Statuses

LEMMA InsertType ==
  ASSUME RowTypeOK, NEW i \in Items, Insert(i, 0)
  PROVE  RowTypeOK'
BY DEF RowTypeOK, Insert, Statuses

LEMMA HeartbeatType ==
  ASSUME RowTypeOK, NEW i \in Items, RecordHeartbeat(i)
  PROVE  RowTypeOK'
<1>1. LeaseLen \in Nat
  BY WorkQueueRowsAssumption
<1>2. QED
  BY <1>1 DEF RowTypeOK, RecordHeartbeat

(* One more, or one less, message of a row.                                 *)
LEMMA CopiesType ==
  ASSUME MailType, NEW i \in Items
  PROVE  /\ fresh[i] > 0 => [fresh EXCEPT ![i] = fresh[i] - 1] \in [Items -> 0..MaxCopies]
         /\ fresh[i] < MaxCopies =>
              [fresh EXCEPT ![i] = fresh[i] + 1] \in [Items -> 0..MaxCopies]
<1>1. MaxCopies \in Nat /\ fresh[i] \in 0..MaxCopies
  BY RagDispatchAssumption DEF MailType
<1>2. fresh[i] > 0 => fresh[i] - 1 \in 0..MaxCopies
  BY <1>1
<1>3. fresh[i] < MaxCopies => fresh[i] + 1 \in 0..MaxCopies
  BY <1>1
<1>4. QED
  BY <1>2, <1>3 DEF MailType

LEMMA DeliverType ==
  ASSUME MailType, NEW S \in SUBSET Items, Deliver(S)
  PROVE  MailType'
<1>1. \A i \in Items : fresh[i] < MaxCopies => fresh[i] + 1 \in 0..MaxCopies
  BY RagDispatchAssumption DEF MailType
<1>2. QED
  BY <1>1 DEF MailType, Deliver

LEMMA ReturnType ==
  ASSUME MailType, NEW r \in Runners, at[r] \in Items, Return(r)
  PROVE  MailType'
BY CopiesType DEF MailType, Return

LEMMA RoomType ==
  ASSUME ~(Room <= 0)
  PROVE  Room \in Nat
<1>1. ActiveCount(Rag) \in Nat
  BY WorkQueueRowsAssumption, FS_Subset, FS_CardinalityType DEF ActiveCount
<1>2. MaxActive \in Nat /\ DispatchBatch \in Nat
  BY RagDispatchAssumption
<1>3. QED
  BY <1>1, <1>2 DEF Room

OutStates == {"none", "stale", "claimed", "sent"}

LEMMA OutType ==
  ASSUME DispatcherType, NEW d \in Dispatchers, NEW o \in [Items -> OutStates],
         out' = [out EXCEPT ![d] = o]
  PROVE  out' \in [Dispatchers -> [Items -> {"none", "stale", "claimed", "sent"}]]
BY DEF DispatcherType, OutStates

(* A dispatcher.                                                            *)
LEMMA DispatchType ==
  ASSUME Types, NEW d \in Dispatchers, Dispatch(d)
  PROVE  Types'
<1> USE DEF Types
<1>a. d \in Dispatchers \cup Runners
  OBVIOUS
<1>1. CASE StartDispatch(d)
  <2>1. \A i \in Items : attempt[i] \in Nat
    BY DEF RowTypeOK
  <2>2. [i \in Items |-> IF i \in StaleClaims THEN attempt[i] ELSE 0] \in [Items -> Nat]
    BY <2>1
  <2>3. SeenType'
    BY <1>1, <1>a, <2>2 DEF StartDispatch, SeenType
  <2>4. DispatcherType'
    BY <1>1 DEF StartDispatch, DispatcherType
  <2>5. QED
    BY <1>1, <2>3, <2>4 DEF StartDispatch, row, mail, runner, RowTypeOK, MailType,
       RunnerType, Busy
<1>2. CASE SweepFails(d) \/ CrashDispatcher(d)
  <2>1. [i \in Items |-> 0] \in [Items -> Nat]
    OBVIOUS
  <2>2. SeenType'
    BY <1>2, <1>a, <2>1 DEF SweepFails, CrashDispatcher, SeenType
  <2>3. out' \in [Dispatchers -> [Items -> {"none", "stale", "claimed", "sent"}]]
    BY <1>2, OutType DEF SweepFails, CrashDispatcher, OutStates
  <2>4. /\ \/ pc' = [pc EXCEPT ![d] = "idle"] /\ room' = [room EXCEPT ![d] = 0]
           \/ UNCHANGED <<pc, room>>
        /\ UNCHANGED due
    BY <1>2 DEF SweepFails, CrashDispatcher
  <2>5. DispatcherType' /\ SeenType'
    BY <2>2, <2>3, <2>4 DEF DispatcherType
  <2>6. QED
    BY <1>2, <2>5 DEF SweepFails, CrashDispatcher, row, mail, runner, RowTypeOK,
       MailType, RunnerType, Busy
<1>3. CASE Count(d)
  <2>1. DispatcherType'
    <3>1. CASE Room <= 0
      BY <1>3, <3>1 DEF Count, DispatcherType
    <3>2. CASE ~(Room <= 0)
      <4>1. Room \in Nat
        BY <3>2, RoomType
      <4> HIDE DEF Types
      <4>2. pc' = [pc EXCEPT ![d] = "claim"] /\ room' = [room EXCEPT ![d] = Room]
        BY <1>3, <3>2 DEF Count
      <4>3. UNCHANGED <<due, out>>
        BY <1>3 DEF Count
      <4>4. QED
        BY <4>1, <4>2, <4>3 DEF DispatcherType, Types
    <3>3. QED
      BY <3>1, <3>2
  <2>2. QED
    BY <1>3, <2>1 DEF Count, row, mail, runner, RowTypeOK, MailType, RunnerType,
       SeenType, Busy
<1>4. CASE Claim(d)
  <2>1. PICK batch \in SUBSET Claimable(Rag, {}) :
          /\ ClaimRows(batch) /\ NewHeartbeat(batch) /\ letter' = Outdated(batch)
          /\ out' = [out EXCEPT ![d] =
               [i \in Items |-> IF i \in batch THEN "claimed" ELSE "none"]]
          /\ pc' = [pc EXCEPT ![d] = IF batch = {} THEN "idle" ELSE "send"]
    BY <1>4 DEF Claim
  <2>2. batch \in SUBSET Items
    BY DEF Claimable
  <2>3. RowTypeOK' /\ MailType' /\ letter' \in [Runners -> {"none", "fresh", "stale"}]
    BY <2>1, <2>2, ClaimRowsType, NewHeartbeatType, OutdatedType
  <2>4. DispatcherType'
    BY <1>4, <2>1 DEF Claim, DispatcherType
  <2>5. QED
    BY <1>4, <2>3, <2>4 DEF Claim, RunnerType, SeenType, Busy
<1>5. CASE DispatchFails(d)
  BY <1>5 DEF DispatchFails, row, mail, runner, RowTypeOK, MailType, DispatcherType,
     RunnerType, SeenType, Busy
<1>6. CASE SendBatch(d)
  <2>1. PICK S \in SUBSET Items : Deliver(S)
    BY <1>6 DEF SendBatch, Unsent
  <2>2. MailType'
    BY <2>1, DeliverType
  <2>3. DispatcherType'
    <3>1. PICK T \in SUBSET Items :
            \/ /\ pc' = [pc EXCEPT ![d] = "idle"]
               /\ out' = [out EXCEPT ![d] = [i \in Items |-> "none"]]
            \/ /\ UNCHANGED pc
               /\ out' = [out EXCEPT ![d] =
                    [i \in Items |-> IF i \in T THEN "sent" ELSE out[d][i]]]
      BY <1>6 DEF SendBatch, Unsent
    <3>2. /\ [i \in Items |-> "none"] \in [Items -> OutStates]
          /\ [i \in Items |-> IF i \in T THEN "sent" ELSE out[d][i]] \in [Items -> OutStates]
      BY DEF DispatcherType, OutStates
    <3>3. out' \in [Dispatchers -> [Items -> {"none", "stale", "claimed", "sent"}]]
      BY <3>1, <3>2, OutType
    <3>4. pc' \in [Dispatchers -> {"idle", "sweep", "claim", "send", "undo"}]
      BY <3>1 DEF DispatcherType
    <3>5. QED
      BY <1>6, <3>3, <3>4 DEF SendBatch, DispatcherType
  <2>4. QED
    BY <1>6, <2>2, <2>3 DEF SendBatch, row, runner, RowTypeOK, RunnerType, SeenType, Busy
<1>7. CASE SendFails(d)
  <2>1. MailType'
    <3>1. CASE UNCHANGED mail
      BY <3>1 DEF mail, MailType
    <3>2. CASE ~UNCHANGED mail
      <4>1. PICK S \in SUBSET Items : Deliver(S)
        BY <1>7, <3>2 DEF SendFails, Unsent
      <4>2. QED
        BY <4>1, DeliverType
    <3>3. QED
      BY <3>1, <3>2
  <2>2. QED
    BY <1>7, <2>1 DEF SendFails, row, runner, RowTypeOK, DispatcherType, RunnerType,
       SeenType, Busy
<1>8. ASSUME NEW i \in Items, SweepRow(d, i) PROVE Types'
  <2>1. RowTypeOK'
    BY <1>8, <1>a, TransitionType DEF SweepRow, SeenType
  <2>2. DispatcherType' /\ SeenType'
    BY <1>8, <1>a DEF SweepRow, DispatcherType, SeenType
  <2>3. QED
    BY <1>8, <2>1, <2>2 DEF SweepRow, mail, runner, MailType, RunnerType, Busy
<1>9. ASSUME NEW i \in Items, Undo(d, i) PROVE Types'
  <2>1. RowTypeOK'
    BY <1>9, TransitionType, UnchangedRow DEF Undo
  <2>2. DispatcherType'
    BY <1>9 DEF Undo, DispatcherType
  <2>3. QED
    BY <1>9, <2>1, <2>2 DEF Undo, mail, runner, MailType, RunnerType, SeenType, Busy
<1>10. QED
  BY <1>1, <1>2, <1>3, <1>4, <1>5, <1>6, <1>7, <1>8, <1>9 DEF Dispatch

(* A runner at rest has no row and needs none.                              *)
LEMMA RestType ==
  ASSUME RunnerType, Busy, NEW r \in Runners, Rest(r)
  PROVE  RunnerType' /\ Busy'
BY DEF RunnerType, Busy, Rest

LEMMA BecomeType ==
  ASSUME RunnerType, Busy, NEW r \in Runners, at[r] \in Items,
         NEW p \in {"returned", "failing", "failed"}, Become(r, p)
  PROVE  RunnerType' /\ Busy'
BY DEF RunnerType, Busy, Become

(* A consumer or a driver slot with a row.                                  *)
LEMMA RunType ==
  ASSUME Types, NEW r \in Runners, Run(r)
  PROVE  Types'
<1> USE DEF Types
<1>1. r \in Dispatchers \cup Runners /\ 0 \in Nat
  OBVIOUS
<1>2. at[r] \in Items
  BY DEF Run, Heartbeat, HandlerReturns, HandlerThrows, Complete, CompleteFails,
     FailRead, Fail, FailFails, CrashRunner, Busy
<1>3. attempt[at[r]] \in Nat /\ seen[r][at[r]] \in Nat
  BY <1>1, <1>2 DEF RowTypeOK, SeenType
<1>4. CASE Heartbeat(r)
  <2>1. RowTypeOK'
    BY <1>2, <1>4, HeartbeatType DEF Heartbeat
  <2>2. MailType' /\ RunnerType'
    <3>1. CASE status[at[r]] = "in_progress"
      BY <1>2, <1>4, <3>1, NewHeartbeatType, OutdatedType DEF Heartbeat, RunnerType
    <3>2. CASE status[at[r]] # "in_progress"
      BY <1>4, <3>2 DEF Heartbeat, mail, MailType, RunnerType
    <3>3. QED
      BY <3>1, <3>2
  <2>3. QED
    BY <1>4, <2>1, <2>2 DEF Heartbeat, dispatcher, DispatcherType, SeenType, Busy
<1>5. CASE HandlerReturns(r) \/ HandlerThrows(r) \/ CompleteFails(r)
  <2>1. RunnerType' /\ Busy'
    BY <1>2, <1>5, BecomeType DEF HandlerReturns, HandlerThrows, CompleteFails
  <2>2. QED
    BY <1>5, <2>1 DEF HandlerReturns, HandlerThrows, CompleteFails, row, mail,
       dispatcher, RowTypeOK, MailType, DispatcherType, SeenType
<1>6. CASE Complete(r)
  <2>1. RowTypeOK'
    BY <1>2, <1>6, <1>1, TransitionType DEF Complete
  <2>2. QED
    BY <1>6, <2>1, RestType DEF Complete, mail, dispatcher, MailType, DispatcherType,
       SeenType
<1>7. CASE FailRead(r)
  <2>1. RunnerType' /\ Busy'
    BY <1>2, <1>7, BecomeType DEF FailRead
  <2>2. SeenType'
    BY <1>1, <1>2, <1>3, <1>7 DEF FailRead, SeenType
  <2>3. QED
    BY <1>7, <2>1, <2>2 DEF FailRead, row, mail, dispatcher, RowTypeOK, MailType,
       DispatcherType
<1>8. CASE Fail(r)
  <2>1. RowTypeOK'
    BY <1>2, <1>3, <1>8, <1>1, TransitionType DEF Fail
  <2>2. SeenType'
    BY <1>1, <1>2, <1>8 DEF Fail, SeenType
  <2>3. QED
    BY <1>8, <2>1, <2>2, RestType DEF Fail, mail, dispatcher, MailType, DispatcherType
<1>9. CASE FailFails(r) \/ CrashRunner(r)
  <2>1. MailType'
    BY <1>2, <1>9, ReturnType DEF FailFails, CrashRunner
  <2>2. SeenType'
    BY <1>1, <1>2, <1>9 DEF FailFails, CrashRunner, SeenType
  <2>3. RunnerType' /\ Busy'
    BY <1>9, RestType DEF FailFails, CrashRunner
  <2>4. QED
    BY <1>9, <2>1, <2>2, <2>3 DEF FailFails, CrashRunner, row, dispatcher, RowTypeOK,
       DispatcherType
<1>10. QED
  BY <1>4, <1>5, <1>6, <1>7, <1>8, <1>9 DEF Run

LEMMA TypeNext ==
  ASSUME Types, [Next]_vars
  PROVE  Types'
<1> USE DEF Types
<1>1. ASSUME NEW i \in Items, Enqueue(i) PROVE Types'
  BY <1>1, InsertType DEF Enqueue, mail, dispatcher, runner, MailType, DispatcherType,
     RunnerType, SeenType, Busy
<1>2. ASSUME NEW i \in Items, Duplicate(i) \/ Lose(i) PROVE Types'
  <2>1. MailType'
    BY <1>2, CopiesType DEF Duplicate, Lose, MailType
  <2>2. QED
    BY <1>2, <2>1 DEF Duplicate, Lose, row, dispatcher, runner, RowTypeOK,
       DispatcherType, RunnerType, SeenType, Busy
<1>3. ASSUME NEW d \in Dispatchers, Dispatch(d) PROVE Types'
  BY <1>3, DispatchType
<1>4. ASSUME NEW c \in Consumers, NEW i \in Items, NEW l \in {"fresh", "stale"},
             Receive(c, i, l)
      PROVE  Types'
  <2>1. c \in Runners
    BY DEF Runners
  <2>2. MailType'
    BY <1>4, CopiesType DEF Receive, Waiting, Taken, MailType
  <2>3. RunnerType' /\ Busy'
    BY <1>4, <2>1 DEF Receive, Start, runner, RunnerType, Busy
  <2>4. QED
    BY <1>4, <2>2, <2>3 DEF Receive, row, dispatcher, RowTypeOK, DispatcherType, SeenType
<1>5. ASSUME NEW d \in DriverSlots, DriverCount(d) \/ DriverPasses(d) PROVE Types'
  <2>1. d \in Runners
    BY DEF Runners
  <2>2. QED
    BY <1>5, <2>1 DEF DriverCount, DriverPasses, row, mail, dispatcher, RowTypeOK,
       MailType, DispatcherType, RunnerType, SeenType, Busy
<1>6. ASSUME NEW d \in DriverSlots, NEW i \in Items, DriverTake(d, i) PROVE Types'
  <2>1. d \in Runners /\ {i} \in SUBSET Items
    BY DEF Runners
  <2>2. RowTypeOK' /\ MailType' /\ letter' \in [Runners -> {"none", "fresh", "stale"}]
    BY <1>6, <2>1, ClaimRowsType, NewHeartbeatType, OutdatedType DEF DriverTake
  <2>3. RunnerType' /\ Busy'
    BY <1>6, <2>1, <2>2 DEF DriverTake, RunnerType, Busy
  <2>4. QED
    BY <1>6, <2>2, <2>3 DEF DriverTake, dispatcher, DispatcherType, SeenType
<1>7. ASSUME NEW r \in Runners, Run(r) PROVE Types'
  BY <1>7, RunType
<1>8. CASE Tick
  <2>1. RowTypeOK'
    BY <1>8 DEF Tick, RunDown, RowTypeOK, NoLease
  <2>2. QED
    BY <1>8, <2>1 DEF Tick, mail, runner, MailType, DispatcherType, RunnerType,
       SeenType, Busy
<1>9. CASE UNCHANGED vars
  BY <1>9 DEF vars, row, mail, dispatcher, runner, RowTypeOK, MailType, DispatcherType,
     RunnerType, SeenType, Busy
<1>10. QED
  BY <1>1, <1>2, <1>3, <1>4, <1>5, <1>6, <1>7, <1>8, <1>9 DEF Next

(* Every reachable state of the table, the queue and the invocations is     *)
(* well typed, and whoever runs a handler knows its row.                    *)
THEOREM TypeCorrect == Spec => []TypeOK
<1>1. Init => Types
  BY TypeInit
<1>2. Types /\ [Next]_vars => Types'
  BY TypeNext
<1>3. Types => TypeOK
  BY TypesImplyTypeOK
<1>4. QED
  BY <1>1, <1>2, <1>3, PTL DEF Spec

------------------------------------------------------------------------------
(* What a step does to the table.                                           *)

(* One statement of work-queue.ts, or none that changes status, attempt or  *)
(* wait; the sweep's is apart, since it depends on what was read.           *)
Statement ==
  \/ UNCHANGED <<status, attempt, wait>>
  \/ \E i \in Items : Insert(i, 0)
  \/ \E batch \in SUBSET Claimable(Rag, {}) : ClaimRows(batch)
  \/ \E i \in Items, n \in Nat :
       CompleteWork(i) \/ DeferWork(i, n) \/ FailWork(i, n)

(* What a sweep has read stays as it was, or is dropped.                    *)
Held ==
  \A d \in Dispatchers, i \in Items : out'[d][i] = "stale" =>
    /\ out[d][i] = "stale"
    /\ seen'[d][i] = seen[d][i]
    /\ pc[d] = "sweep" => pc'[d] = "sweep"

LEMMA DispatchKinds ==
  ASSUME Types, NEW d \in Dispatchers, Dispatch(d)
  PROVE  \/ StartDispatch(d)
         \/ Held /\ (Statement \/ \E i \in Items : SweepRow(d, i))
<1>0. /\ out \in [Dispatchers -> [Items -> {"none", "stale", "claimed", "sent"}]]
      /\ pc \in [Dispatchers -> {"idle", "sweep", "claim", "send", "undo"}]
      /\ seen \in [Dispatchers \cup Runners -> [Items -> Nat]]
      /\ d \in Dispatchers \cup Runners
  BY DEF Types, DispatcherType, SeenType
<1>1. CASE SweepFails(d) \/ CrashDispatcher(d)
  <2>1. \A i \in Items : out'[d][i] = "none"
    BY <1>0, <1>1 DEF SweepFails, CrashDispatcher
  <2>2. \A e \in Dispatchers : e # d =>
          out'[e] = out[e] /\ seen'[e] = seen[e] /\ pc'[e] = pc[e]
    BY <1>0, <1>1 DEF SweepFails, CrashDispatcher
  <2>3. Held
    BY <2>1, <2>2 DEF Held
  <2>4. QED
    BY <1>1, <2>3 DEF SweepFails, CrashDispatcher, Statement, row
<1>2. CASE Count(d) \/ DispatchFails(d)
  <2>1. Held
    BY <1>0, <1>2 DEF Count, DispatchFails, Held
  <2>2. QED
    BY <1>2, <2>1 DEF Count, DispatchFails, Statement, row
<1>3. CASE Claim(d)
  <2>1. PICK batch \in SUBSET Claimable(Rag, {}) :
          /\ ClaimRows(batch)
          /\ out' = [out EXCEPT ![d] =
               [i \in Items |-> IF i \in batch THEN "claimed" ELSE "none"]]
    BY <1>3 DEF Claim
  <2>2. \A i \in Items : out'[d][i] # "stale"
    BY <1>0, <2>1
  <2>3. \A e \in Dispatchers : e # d =>
          out'[e] = out[e] /\ seen'[e] = seen[e] /\ pc'[e] = pc[e]
    BY <1>0, <1>3, <2>1 DEF Claim
  <2>4. Held
    BY <2>2, <2>3 DEF Held
  <2>5. QED
    BY <2>1, <2>4 DEF Statement
<1>4. CASE SendBatch(d) \/ SendFails(d)
  <2>1. pc[d] # "sweep" /\ UNCHANGED <<row, seen>>
    BY <1>4 DEF SendBatch, SendFails
  <2>2. \A e \in Dispatchers : e # d => out'[e] = out[e] /\ pc'[e] = pc[e]
    BY <1>0, <1>4 DEF SendBatch, SendFails
  <2>3. \A i \in Items : out'[d][i] = "stale" => out[d][i] = "stale"
    <3>1. CASE SendBatch(d)
      <4>1. PICK T \in SUBSET Items :
              \/ out' = [out EXCEPT ![d] = [i \in Items |-> "none"]]
              \/ out' = [out EXCEPT ![d] =
                   [i \in Items |-> IF i \in T THEN "sent" ELSE out[d][i]]]
        BY <3>1 DEF SendBatch, Unsent
      <4>2. QED
        BY <1>0, <4>1
    <3>2. CASE SendFails(d)
      BY <3>2 DEF SendFails
    <3>3. QED
      BY <1>4, <3>1, <3>2
  <2>4. QED
    BY <2>1, <2>2, <2>3 DEF Held, Statement, row
<1>5. ASSUME NEW i \in Items, SweepRow(d, i)
      PROVE  Held
  BY <1>0, <1>5 DEF SweepRow, Held
<1>6. ASSUME NEW i \in Items, Undo(d, i)
      PROVE  Held /\ Statement
  <2>1. Held
    BY <1>0, <1>6 DEF Undo, Held
  <2>2. Statement
    BY <1>6 DEF Undo, Statement, row
  <2>3. QED
    BY <2>1, <2>2
<1>7. QED
  BY <1>1, <1>2, <1>3, <1>4, <1>5, <1>6 DEF Dispatch

LEMMA RunKinds ==
  ASSUME Types, NEW r \in Runners, Run(r)
  PROVE  Held /\ Statement
<1>1. /\ at[r] \in Items /\ seen[r][at[r]] \in Nat
      /\ seen \in [Dispatchers \cup Runners -> [Items -> Nat]]
  BY DEF Types, SeenType, Busy, Run, Heartbeat, HandlerReturns, HandlerThrows,
     Complete, CompleteFails, FailRead, Fail, FailFails, CrashRunner
<1>2. \A d \in Dispatchers : d # r
  BY RagDispatchAssumption
<1>3. \A d \in Dispatchers : seen'[d] = seen[d]
  BY <1>1, <1>2 DEF Run, Heartbeat, HandlerReturns, HandlerThrows,
     Complete, CompleteFails, FailRead, Fail, FailFails, CrashRunner
<1>4. UNCHANGED dispatcher
  BY DEF Run, Heartbeat, HandlerReturns, HandlerThrows,
     Complete, CompleteFails, FailRead, Fail, FailFails, CrashRunner
<1>5. Held
  BY <1>3, <1>4 DEF Held, dispatcher
<1>6. Statement
  BY <1>1 DEF Run, Heartbeat, HandlerReturns, HandlerThrows, Complete, CompleteFails,
     FailRead, Fail, FailFails, CrashRunner, Statement, RecordHeartbeat, row
<1>7. QED
  BY <1>5, <1>6

LEMMA StepKinds ==
  ASSUME Types, [Next]_vars
  PROVE  \/ \E d \in Dispatchers : StartDispatch(d)
         \/ Tick
         \/ Held /\ (Statement \/ \E d \in Dispatchers, i \in Items : SweepRow(d, i))
<1>1. ASSUME NEW i \in Items, Enqueue(i) \/ Duplicate(i) \/ Lose(i)
      PROVE  Held /\ Statement
  BY <1>1 DEF Enqueue, Duplicate, Lose, Held, Statement, row, dispatcher
<1>2. ASSUME NEW c \in Consumers, NEW i \in Items, NEW l \in {"fresh", "stale"},
             Receive(c, i, l)
      PROVE  Held /\ Statement
  BY <1>2 DEF Receive, Held, Statement, row, dispatcher
<1>3. ASSUME NEW d \in DriverSlots, DriverCount(d) \/ DriverPasses(d)
      PROVE  Held /\ Statement
  BY <1>3 DEF DriverCount, DriverPasses, Held, Statement, row, dispatcher
<1>4. ASSUME NEW d \in DriverSlots, NEW i \in Items, DriverTake(d, i)
      PROVE  Held /\ Statement
  <2>1. {i} \in SUBSET Claimable(Rag, {})
    BY <1>4 DEF DriverTake
  <2>2. QED
    BY <1>4, <2>1 DEF DriverTake, Held, Statement, dispatcher
<1>5. CASE UNCHANGED vars
  BY <1>5 DEF vars, Held, Statement, row, dispatcher
<1>6. QED
  BY <1>1, <1>2, <1>3, <1>4, <1>5, DispatchKinds, RunKinds DEF Next

------------------------------------------------------------------------------
(* The retry budget.                                                        *)

(* A sweep under way has read an attempt below the row's max_attempts.      *)
ReadBound ==
  \A d \in Dispatchers, i \in Items :
    out[d][i] = "stale" => seen[d][i] < MaxAttempts[i]

BudgetInv == Types /\ AttemptBudget /\ ReadBound

LEMMA StatementBudget ==
  ASSUME RowTypeOK, AttemptBudget, Statement
  PROVE  AttemptBudget'
<1>1. CASE UNCHANGED <<status, attempt, wait>>
  BY <1>1, UnchangedBudget
<1>2. ASSUME NEW i \in Items, Insert(i, 0) PROVE AttemptBudget'
  <2>1. MaxAttempts[i] \in Nat /\ 0 < MaxAttempts[i]
    BY WorkQueueRowsAssumption
  <2>2. QED
    BY <1>2, <2>1 DEF Insert, AttemptBudget, RowTypeOK
<1>3. ASSUME NEW batch \in SUBSET Claimable(Rag, {}), ClaimRows(batch)
      PROVE  AttemptBudget'
  BY <1>3 DEF ClaimRows, Claimable, AttemptBudget, RowTypeOK
<1>4. ASSUME NEW i \in Items, NEW n \in Nat,
             CompleteWork(i) \/ DeferWork(i, n) \/ FailWork(i, n)
      PROVE  AttemptBudget'
  BY <1>4, TransitionBudget
<1>5. QED
  BY <1>1, <1>2, <1>3, <1>4 DEF Statement

LEMMA BudgetStep ==
  ASSUME BudgetInv, [Next]_vars
  PROVE  AttemptBudget' /\ ReadBound'
<1>0. Types /\ RowTypeOK /\ AttemptBudget /\ ReadBound
  BY DEF BudgetInv, Types
<1>1. Held => ReadBound'
  BY <1>0 DEF Held, ReadBound
<1>2. ASSUME NEW d \in Dispatchers, StartDispatch(d)
      PROVE  AttemptBudget' /\ ReadBound'
  <2>1. AttemptBudget'
    BY <1>0, <1>2, UnchangedBudget DEF StartDispatch, row
  <2>2. \A i \in StaleClaims : attempt[i] < MaxAttempts[i]
    BY <1>0 DEF StaleClaims, AttemptBudget
  <2>3. ReadBound'
    BY <1>0, <1>2, <2>2
    DEF StartDispatch, ReadBound, Types, DispatcherType, SeenType
  <2>4. QED
    BY <2>1, <2>3
<1>3. CASE Tick
  BY <1>0, <1>3, UnchangedBudget DEF Tick, RunDown, ReadBound
<1>4. ASSUME NEW d \in Dispatchers, NEW i \in Items, SweepRow(d, i)
      PROVE  AttemptBudget'
  BY <1>0, <1>4, TransitionBudget DEF SweepRow, ReadBound, Types, SeenType
<1>5. QED
  BY <1>0, <1>1, <1>2, <1>3, <1>4, StepKinds, StatementBudget

(* The retry budget of a row is never overdrawn with a dispatcher, its      *)
(* consumers and the minute driver on one table: sweepStaleClaims and       *)
(* failWork agree on the outcome, however late or twice a message comes.    *)
THEOREM BudgetKept == Spec => []AttemptBudget
<1>1. Init => BudgetInv
  <2> SUFFICES ASSUME Init PROVE BudgetInv
    OBVIOUS
  <2>1. AttemptBudget
    BY WorkQueueRowsAssumption DEF Init, RowInit, AttemptBudget
  <2>2. ReadBound
    BY DEF Init, ReadBound
  <2>3. QED
    BY <2>1, <2>2, TypeInit DEF BudgetInv
<1>2. BudgetInv /\ [Next]_vars => BudgetInv'
  BY TypeNext, BudgetStep DEF BudgetInv
<1>3. BudgetInv => AttemptBudget
  BY DEF BudgetInv
<1>4. QED
  BY <1>1, <1>2, <1>3, PTL DEF Spec

------------------------------------------------------------------------------
(* The table implements JobQueue.  As in WorkQueueProofs, a sweep is a      *)
(* charge of exactly one because a row that leaves 'in_progress' with a new *)
(* attempt waits at least a minute, and no minute passes during the sweep.  *)

ReadFresh ==
  \A d \in Dispatchers, i \in Items : out[d][i] = "stale" =>
    pc[d] = "sweep" /\ AsRead(status[i], attempt[i], wait[i], seen[d][i])

LEMMA ReadFreshKept ==
  ASSUME SeenType, ReadFresh, KeepsFresh, Held
  PROVE  ReadFresh'
<1> SUFFICES ASSUME NEW d \in Dispatchers, NEW i \in Items, out'[d][i] = "stale"
             PROVE  pc'[d] = "sweep" /\ AsRead(status'[i], attempt'[i], wait'[i], seen'[d][i])
  BY DEF ReadFresh
<1>1. seen[d][i] \in Nat
  BY DEF SeenType
<1>2. QED
  BY <1>1 DEF ReadFresh, KeepsFresh, Held

LEMMA StatementFresh ==
  ASSUME RowTypeOK, Statement
  PROVE  KeepsFresh
<1>1. CASE UNCHANGED <<status, attempt, wait>>
  BY <1>1, UnchangedFresh
<1>2. ASSUME NEW i \in Items, Insert(i, 0) PROVE KeepsFresh
  BY <1>2 DEF Insert, KeepsFresh, AsRead, RowTypeOK
<1>3. ASSUME NEW batch \in SUBSET Claimable(Rag, {}), ClaimRows(batch)
      PROVE  KeepsFresh
  BY <1>3 DEF ClaimRows, Claimable, KeepsFresh, AsRead, RowTypeOK
<1>4. ASSUME NEW i \in Items, NEW n \in Nat,
             CompleteWork(i) \/ DeferWork(i, n) \/ FailWork(i, n)
      PROVE  KeepsFresh
  BY <1>4, TransitionFresh
<1>5. QED
  BY <1>1, <1>2, <1>3, <1>4 DEF Statement

LEMMA FreshStep ==
  ASSUME Types, ReadFresh, [Next]_vars
  PROVE  ReadFresh'
<1>0. RowTypeOK /\ DispatcherType /\ SeenType
  BY DEF Types
<1>1. ASSUME NEW d \in Dispatchers, StartDispatch(d)
      PROVE  ReadFresh'
  <2> SUFFICES ASSUME NEW e \in Dispatchers, NEW i \in Items, out'[e][i] = "stale"
               PROVE  /\ pc'[e] = "sweep"
                      /\ AsRead(status'[i], attempt'[i], wait'[i], seen'[e][i])
    BY DEF ReadFresh
  <2>1. UNCHANGED <<status, attempt, wait>>
    BY <1>1 DEF StartDispatch, row
  <2>2. CASE e = d
    <3>1. status[i] = "in_progress" /\ seen'[d][i] = attempt[i] /\ pc'[d] = "sweep"
      BY <1>0, <1>1, <2>2 DEF StartDispatch, StaleClaims, DispatcherType, SeenType
    <3>2. QED
      BY <2>1, <2>2, <3>1 DEF AsRead
  <2>3. CASE e # d
    BY <1>0, <1>1, <2>1, <2>3 DEF StartDispatch, DispatcherType, SeenType, ReadFresh
  <2>4. QED
    BY <2>2, <2>3
<1>2. CASE Tick
  BY <1>2 DEF Tick, ReadFresh
<1>3. ASSUME NEW d \in Dispatchers, NEW i \in Items, SweepRow(d, i)
      PROVE  KeepsFresh
  BY <1>0, <1>3, TransitionFresh DEF SweepRow, SeenType
<1>4. QED
  BY <1>0, <1>1, <1>2, <1>3, StepKinds, StatementFresh, ReadFreshKept

LEMMA StatementMapped ==
  ASSUME RowTypeOK, AttemptBudget, Statement
  PROVE  Mapped
<1>1. CASE UNCHANGED <<status, attempt, wait>>
  BY <1>1, UnchangedMapped
<1>2. ASSUME NEW i \in Items, Insert(i, 0) PROVE Mapped
  <2>1. Jobs!Submit(i)
    BY <1>2 DEF Insert, Jobs!Submit
  <2>2. QED
    BY <2>1 DEF Mapped, Jobs!Next
<1>3. ASSUME NEW batch \in SUBSET Claimable(Rag, {}), ClaimRows(batch)
      PROVE  Mapped
  <2>1. batch \in SUBSET Items /\ Jobs!Take(batch)
    BY <1>3 DEF ClaimRows, Claimable, Jobs!Take
  <2>2. QED
    BY <2>1 DEF Mapped, Jobs!Next
<1>4. ASSUME NEW i \in Items, NEW n \in Nat,
             CompleteWork(i) \/ DeferWork(i, n) \/ FailWork(i, n)
      PROVE  Mapped
  BY <1>4, TransitionMapped
<1>5. QED
  BY <1>1, <1>2, <1>3, <1>4 DEF Statement

LEMMA StepMapped ==
  ASSUME BudgetInv, ReadFresh, [Next]_vars
  PROVE  Mapped
<1>0. Types /\ RowTypeOK /\ AttemptBudget /\ SeenType
  BY DEF BudgetInv, Types
<1>1. ASSUME NEW d \in Dispatchers, StartDispatch(d) PROVE Mapped
  BY <1>1, UnchangedMapped DEF StartDispatch, row
<1>2. CASE Tick
  BY <1>2, UnchangedMapped DEF Tick, RunDown
<1>3. ASSUME NEW d \in Dispatchers, NEW i \in Items, SweepRow(d, i) PROVE Mapped
  <2>1. seen[d][i] \in Nat /\ 0 \in Nat
    BY <1>0 DEF SeenType
  <2>2. status[i] = "in_progress" => seen[d][i] = attempt[i]
    BY <1>3 DEF SweepRow, ReadFresh, AsRead
  <2>3. QED
    BY <1>0, <1>3, <2>1, <2>2, TransitionMapped DEF SweepRow
<1>4. QED
  BY <1>0, <1>1, <1>2, <1>3, StepKinds, StatementMapped

(* With dispatchers, consumers, the driver and a queue that loses, repeats  *)
(* and reorders, each row still lives the life JobQueue describes: one      *)
(* charge per failed or lost claim, and nothing after it is completed or    *)
(* dead.                                                                    *)
THEOREM Implements == Spec => JobQueueSpec
<1>1. Init => BudgetInv /\ ReadFresh /\ Jobs!Init
  <2> SUFFICES ASSUME Init PROVE BudgetInv /\ ReadFresh /\ Jobs!Init
    OBVIOUS
  <2>1. AttemptBudget
    BY WorkQueueRowsAssumption DEF Init, RowInit, AttemptBudget
  <2>2. ReadBound /\ ReadFresh
    BY DEF Init, ReadBound, ReadFresh
  <2>3. Jobs!Init
    BY DEF Init, RowInit, Jobs!Init
  <2>4. QED
    BY <2>1, <2>2, <2>3, TypeInit DEF BudgetInv
<1>2. BudgetInv /\ ReadFresh /\ [Next]_vars => BudgetInv' /\ ReadFresh'
  BY TypeNext, BudgetStep, FreshStep DEF BudgetInv
<1>3. BudgetInv /\ ReadFresh /\ [Next]_vars => [Jobs!Next]_Jobs!jobVars
  BY StepMapped DEF Mapped
<1>4. QED
  BY <1>1, <1>2, <1>3, PTL DEF Spec, JobQueueSpec, Jobs!Spec

------------------------------------------------------------------------------
(* One runner at a time.  A row in progress has at most one owner: the      *)
(* dispatcher that claimed it, the one fresh message about it, or a runner; *)
(* a watchdog only has in its hands rows that have none.                    *)

Live(i) == status[i] = "in_progress" /\ lease[i] > 0

Holds(r, i) == phase[r] \notin {"idle", "counted"} /\ at[r] = i

NotClaimed(i) == \A d \in Dispatchers : out[d][i] # "claimed"

RunnersOwn ==
  \A r \in Runners, i \in Items : Holds(r, i) =>
    /\ Live(i)
    /\ fresh[i] = 0
    /\ NotClaimed(i)
    /\ \A q \in Runners : Holds(q, i) => q = r

MailOwns ==
  \A i \in Items : fresh[i] > 0 => Live(i) /\ fresh[i] = 1 /\ NotClaimed(i)

ClaimOwns ==
  \A d \in Dispatchers, i \in Items : out[d][i] = "claimed" =>
    /\ pc[d] = "send"
    /\ Live(i)
    /\ \A e \in Dispatchers : out[e][i] = "claimed" => e = d

SweepSees ==
  \A d \in Dispatchers, i \in Items : out[d][i] = "stale" =>
    /\ pc[d] = "sweep"
    /\ ~Live(i)
    /\ status[i] # "absent"
    /\ status[i] = "pending" => wait[i] > 0

NothingUndone == \A d \in Dispatchers : pc[d] # "undo"

Owned == RunnersOwn /\ MailOwns /\ ClaimOwns /\ SweepSees /\ NothingUndone

LEMMA OwnedIsSingle == Types /\ Owned => SingleRun
BY DEF Types, RunnerType, Busy, Owned, RunnersOwn, SingleRun, Holds, Live

LEMMA OwnedInit == Init => Owned
BY DEF Init, RowInit, Owned, RunnersOwn, MailOwns, ClaimOwns, SweepSees, NothingUndone,
   Holds, Live, NotClaimed

(* Steps that only look, or that drop what a dispatcher or a runner has.    *)
LEMMA OwnedDrops ==
  ASSUME Types, Owned, UNCHANGED row,
         \A r \in Runners, i \in Items : Holds(r, i)' => Holds(r, i),
         \A i \in Items : fresh'[i] > 0 => fresh'[i] = fresh[i],
         \A d \in Dispatchers, i \in Items :
           /\ out'[d][i] = "claimed" => out[d][i] = "claimed" /\ pc'[d] = pc[d]
           /\ out'[d][i] = "stale" => out[d][i] = "stale" /\ pc'[d] = pc[d],
         NothingUndone', fresh' \in [Items -> 0..MaxCopies]
  PROVE  Owned'
<1> USE DEF Owned, row
<1>0. \A i \in Items : (Live(i) <=> Live(i)') /\ (NotClaimed(i) => NotClaimed(i)')
  BY DEF Live, NotClaimed
<1>1. RunnersOwn'
  BY <1>0, RagDispatchAssumption DEF RunnersOwn, MailOwns, Types, MailType
<1>2. MailOwns'
  BY <1>0 DEF MailOwns
<1>3. ClaimOwns'
  BY <1>0 DEF ClaimOwns
<1>4. SweepSees'
  BY <1>0 DEF SweepSees
<1>5. QED
  BY <1>1, <1>2, <1>3, <1>4

(* A claim takes rows that nobody owns and no watchdog has read.            *)
LEMMA ClaimableIsFree ==
  ASSUME Types, Owned, NEW i \in Claimable(Rag, {})
  PROVE  /\ i \in Items /\ fresh[i] = 0 /\ NotClaimed(i)
         /\ \A r \in Runners : ~Holds(r, i)
         /\ \A d \in Dispatchers : out[d][i] # "stale"
<1>1. i \in Items /\ status[i] = "pending" /\ wait[i] = 0
  BY DEF Claimable
<1>2. fresh[i] \in 0..MaxCopies /\ MaxCopies \in Nat /\ ~(fresh[i] > 0)
  BY <1>1, RagDispatchAssumption DEF Owned, MailOwns, Live, Types, MailType
<1>3. QED
  BY <1>1, <1>2 DEF Owned, RunnersOwn, ClaimOwns, SweepSees, Live, NotClaimed

LEMMA DispatchOwned ==
  ASSUME Types, Owned, "send" \notin Faults, NEW d \in Dispatchers, Dispatch(d)
  PROVE  Owned'
<1>0. /\ out \in [Dispatchers -> [Items -> {"none", "stale", "claimed", "sent"}]]
      /\ pc \in [Dispatchers -> {"idle", "sweep", "claim", "send", "undo"}]
      /\ fresh \in [Items -> 0..MaxCopies]
      /\ NothingUndone
  BY DEF Types, DispatcherType, MailType, Owned
<1>1. CASE StartDispatch(d)
  <2>1. \A i \in Items : out[d][i] \notin {"claimed", "stale"}
    BY <1>1 DEF StartDispatch, Owned, ClaimOwns, SweepSees
  <2>2. /\ UNCHANGED <<row, mail, runner>>
        /\ pc' = [pc EXCEPT ![d] = "sweep"]
        /\ out' = [out EXCEPT ![d] =
             [i \in Items |-> IF i \in StaleClaims THEN "stale" ELSE "none"]]
    BY <1>1 DEF StartDispatch
  <2>3. \A e \in Dispatchers : e # d => out'[e] = out[e] /\ pc'[e] = pc[e]
    BY <1>0, <2>2
  <2>4. \A i \in Items : out'[d][i] = IF i \in StaleClaims THEN "stale" ELSE "none"
    BY <1>0, <2>2
  <2>5. \A i \in Items : /\ Live(i) <=> Live(i)'
                         /\ NotClaimed(i) => NotClaimed(i)'
                         /\ \A r \in Runners : Holds(r, i) <=> Holds(r, i)'
    BY <2>2, <2>3, <2>4 DEF Live, NotClaimed, Holds, row, runner
  <2>6. RunnersOwn' /\ MailOwns'
    BY <2>2, <2>5 DEF Owned, RunnersOwn, MailOwns, mail
  <2>7. ClaimOwns'
    BY <2>3, <2>4, <2>5 DEF Owned, ClaimOwns
  <2>8. SweepSees'
    <3>1. \A i \in StaleClaims : status[i] = "in_progress" /\ ~Live(i)
      BY DEF StaleClaims, Live
    <3>2. pc'[d] = "sweep"
      BY <1>0, <2>2
    <3>3. QED
      BY <2>2, <2>3, <2>4, <2>5, <3>1, <3>2 DEF Owned, SweepSees, row
  <2>9. NothingUndone'
    BY <1>0, <2>2 DEF NothingUndone
  <2>10. QED
    BY <2>6, <2>7, <2>8, <2>9 DEF Owned
<1>2. CASE Count(d) \/ CrashDispatcher(d) \/ SweepFails(d) \/ DispatchFails(d)
  <2>1. UNCHANGED <<row, mail, runner>> /\ NothingUndone'
    BY <1>0, <1>2 DEF Count, CrashDispatcher, SweepFails, DispatchFails, NothingUndone
  <2>2. \A i \in Items : out'[d][i] \notin {"stale", "claimed"}
    <3>1. \A i \in Items : pc[d] = "claim" => out[d][i] \notin {"stale", "claimed"}
      BY DEF Owned, ClaimOwns, SweepSees
    <3>2. QED
      BY <1>0, <1>2, <3>1 DEF Count, CrashDispatcher, SweepFails, DispatchFails
  <2>3. \A e \in Dispatchers : e # d => out'[e] = out[e] /\ pc'[e] = pc[e]
    BY <1>0, <1>2 DEF Count, CrashDispatcher, SweepFails, DispatchFails
  <2>4. QED
    BY <1>0, <2>1, <2>2, <2>3, OwnedDrops DEF mail, runner, Holds
<1>3. CASE Claim(d)
  <2>1. PICK batch \in SUBSET Claimable(Rag, {}) :
          /\ ClaimRows(batch) /\ NewHeartbeat(batch)
          /\ out' = [out EXCEPT ![d] =
               [i \in Items |-> IF i \in batch THEN "claimed" ELSE "none"]]
          /\ pc' = [pc EXCEPT ![d] = IF batch = {} THEN "idle" ELSE "send"]
    BY <1>3 DEF Claim
  <2>2. /\ pc[d] = "claim" /\ UNCHANGED <<at, phase>>
    BY <1>3 DEF Claim
  <2>3. \A i \in batch : /\ i \in Items /\ fresh[i] = 0 /\ NotClaimed(i)
                         /\ \A r \in Runners : ~Holds(r, i)
                         /\ \A e \in Dispatchers : out[e][i] # "stale"
    BY ClaimableIsFree
  <2>4. \A e \in Dispatchers : e # d => out'[e] = out[e] /\ pc'[e] = pc[e]
    BY <1>0, <2>1
  <2>5. \A i \in Items : /\ out'[d][i] = IF i \in batch THEN "claimed" ELSE "none"
                         /\ out[d][i] # "stale" /\ out[d][i] # "claimed"
    BY <1>0, <2>1, <2>2 DEF Owned, ClaimOwns, SweepSees
  <2>6. \A i \in Items : fresh'[i] = fresh[i]
    BY <1>0, <2>1, <2>3 DEF NewHeartbeat
  <2>7. \A i \in Items : IF i \in batch
          THEN Live(i)'
          ELSE /\ Live(i) <=> Live(i)'
               /\ status'[i] = status[i] /\ wait'[i] = wait[i]
               /\ NotClaimed(i) => NotClaimed(i)'
    BY <2>1, <2>4, <2>5, WorkQueueRowsAssumption DEF ClaimRows, Live, NotClaimed
  <2>8. \A r \in Runners, i \in Items : Holds(r, i) <=> Holds(r, i)'
    BY <2>2 DEF Holds
  <2>9. RunnersOwn'
    BY <2>3, <2>6, <2>7, <2>8 DEF Owned, RunnersOwn
  <2>10. MailOwns'
    BY <1>0, <2>3, <2>6, <2>7 DEF Owned, MailOwns
  <2>11. ClaimOwns'
    <3>1. batch # {} => pc'[d] = "send"
      BY <1>0, <2>1
    <3>2. QED
      BY <2>3, <2>4, <2>5, <2>7, <3>1 DEF Owned, ClaimOwns, NotClaimed
  <2>12. SweepSees'
    BY <2>3, <2>4, <2>5, <2>7 DEF Owned, SweepSees
  <2>13. NothingUndone'
    BY <1>0, <2>1 DEF NothingUndone
  <2>14. QED
    BY <2>9, <2>10, <2>11, <2>12, <2>13 DEF Owned
<1>4. CASE SendBatch(d)
  <2>1. PICK S \in SUBSET Unsent(d) :
          /\ Deliver(S)
          /\ \/ /\ S = Unsent(d)
                /\ pc' = [pc EXCEPT ![d] = "idle"]
                /\ out' = [out EXCEPT ![d] = [i \in Items |-> "none"]]
             \/ /\ UNCHANGED pc
                /\ out' = [out EXCEPT ![d] =
                     [i \in Items |-> IF i \in S THEN "sent" ELSE out[d][i]]]
    BY <1>4 DEF SendBatch
  <2>2. pc[d] = "send" /\ UNCHANGED <<row, at, phase>>
    BY <1>4 DEF SendBatch, runner
  <2>3. \A i \in S : /\ i \in Items /\ out[d][i] = "claimed" /\ Live(i) /\ ~(fresh[i] > 0)
                     /\ \A e \in Dispatchers : out[e][i] = "claimed" => e = d
                     /\ \A r \in Runners : ~Holds(r, i)
    BY DEF Unsent, Owned, ClaimOwns, MailOwns, RunnersOwn, NotClaimed
  <2>4. \A e \in Dispatchers : e # d => out'[e] = out[e] /\ pc'[e] = pc[e]
    BY <1>0, <2>1
  <2>5. \A i \in Items : /\ out'[d][i] = "claimed" => /\ out[d][i] = "claimed"
                                                      /\ i \notin S /\ pc'[d] = "send"
                         /\ out'[d][i] # "stale"
    <3>1. \A i \in Items : out[d][i] # "stale"
      BY <2>2 DEF Owned, SweepSees
    <3>2. QED
      BY <1>0, <2>1, <2>2, <3>1
  <2>6. \A i \in Items : IF i \in S THEN fresh'[i] = 1 ELSE fresh'[i] = fresh[i]
    BY <1>0, <2>1, <2>3, RagDispatchAssumption DEF Deliver
  <2>7. \A i \in Items : /\ Live(i) <=> Live(i)'
                         /\ status'[i] = status[i] /\ wait'[i] = wait[i]
                         /\ NotClaimed(i) => NotClaimed(i)'
                         /\ \A r \in Runners : Holds(r, i) <=> Holds(r, i)'
    BY <2>2, <2>4, <2>5 DEF row, Live, NotClaimed, Holds
  <2>8. RunnersOwn'
    BY <2>3, <2>6, <2>7 DEF Owned, RunnersOwn
  <2>9. MailOwns'
    <3>1. \A i \in S : NotClaimed(i)'
      BY <2>3, <2>4, <2>5 DEF NotClaimed
    <3>2. QED
      BY <2>3, <2>6, <2>7, <3>1 DEF Owned, MailOwns
  <2>10. ClaimOwns'
    BY <2>4, <2>5, <2>7 DEF Owned, ClaimOwns
  <2>11. SweepSees'
    BY <2>4, <2>5, <2>7 DEF Owned, SweepSees
  <2>12. NothingUndone'
    BY <1>0, <2>1 DEF NothingUndone
  <2>13. QED
    BY <2>8, <2>9, <2>10, <2>11, <2>12 DEF Owned
<1>5. ASSUME NEW i \in Items, SweepRow(d, i)
      PROVE  Owned'
  <2>1. /\ out[d][i] = "stale" /\ pc[d] = "sweep" /\ ~Live(i)
        /\ SweepRelease(i, seen[d][i])
        /\ out' = [out EXCEPT ![d][i] = "none"]
        /\ UNCHANGED <<mail, pc, runner>>
    BY <1>5 DEF SweepRow, Owned, SweepSees
  <2>2. /\ seen[d][i] \in Nat /\ RowTypeOK
        /\ Backoff(seen[d][i]) > 0
    BY BackoffType DEF Types, SeenType
  <2>3. \A j \in Items : /\ Live(j) <=> Live(j)'
                         /\ j # i => status'[j] = status[j] /\ wait'[j] = wait[j]
    BY <2>1, <2>2 DEF SweepRelease, IfInProgress, Leave, Live, row, RowTypeOK
  <2>4. /\ status[i] # "absent" => status'[i] # "absent"
        /\ status'[i] = "pending" /\ (status[i] = "pending" => wait[i] > 0) => wait'[i] > 0
    BY <2>1, <2>2 DEF SweepRelease, IfInProgress, Leave, row, RowTypeOK
  <2>5. \A e \in Dispatchers, j \in Items :
          out'[e][j] \in {"claimed", "stale"} => out'[e][j] = out[e][j]
    BY <1>0, <2>1
  <2>6. \A j \in Items : /\ NotClaimed(j) => NotClaimed(j)'
                         /\ \A r \in Runners : Holds(r, j) <=> Holds(r, j)'
    BY <2>1, <2>5 DEF NotClaimed, Holds, runner
  <2>7. RunnersOwn' /\ MailOwns'
    BY <2>1, <2>3, <2>6 DEF Owned, RunnersOwn, MailOwns, mail
  <2>8. ClaimOwns'
    BY <2>1, <2>3, <2>5 DEF Owned, ClaimOwns
  <2>9. SweepSees'
    BY <2>1, <2>3, <2>4, <2>5 DEF Owned, SweepSees
  <2>10. NothingUndone'
    BY <1>0, <2>1 DEF NothingUndone
  <2>11. QED
    BY <2>7, <2>8, <2>9, <2>10 DEF Owned
<1>6. QED
  BY <1>0, <1>1, <1>2, <1>3, <1>4, <1>5
  DEF Dispatch, SendFails, Undo, NothingUndone

(* The owner of a row releases it: nobody owns it then.                     *)
LEMMA ReleaseOwned ==
  ASSUME Types, Owned, NEW r \in Runners, NEW i \in Items, Holds(r, i),
         NEW s \in Statuses, NEW a, NEW w \in Nat, Leave(i, s, a, w),
         s = "pending" => w > 0, s \notin {"absent", "in_progress"},
         Rest(r), UNCHANGED <<mail, dispatcher>>
  PROVE  Owned'
<1>1. /\ Live(i) /\ fresh[i] = 0 /\ NotClaimed(i)
      /\ \A q \in Runners : Holds(q, i) => q = r
  BY DEF Owned, RunnersOwn
<1>2. /\ status \in [Items -> Statuses] /\ wait \in [Items -> Nat]
      /\ lease \in [Items -> Nat \cup {NoLease}]
      /\ at \in [Runners -> Items \cup {NoItem}]
      /\ phase \in [Runners -> {"idle", "counted", "running", "returned", "failing", "failed"}]
  BY DEF Types, RowTypeOK, RunnerType
<1>3. \A j \in Items : j # i => /\ Live(j) <=> Live(j)'
                                /\ status'[j] = status[j] /\ wait'[j] = wait[j]
  BY <1>2 DEF Leave, Live
<1>4. status'[i] = s /\ (s = "pending" => wait'[i] > 0) /\ ~Live(i)'
  BY <1>2 DEF Leave, Live
<1>5. \A q \in Runners, j \in Items : Holds(q, j)' => Holds(q, j) /\ q # r
  BY <1>2 DEF Rest, Holds
<1>6. \A j \in Items : NotClaimed(j) <=> NotClaimed(j)'
  BY DEF NotClaimed, dispatcher
<1>7. RunnersOwn' /\ MailOwns'
  BY <1>1, <1>3, <1>5, <1>6 DEF Owned, RunnersOwn, MailOwns, mail
<1>8. ClaimOwns'
  BY <1>1, <1>3 DEF Owned, ClaimOwns, NotClaimed, dispatcher
<1>9. SweepSees'
  BY <1>1, <1>3, <1>4 DEF Owned, SweepSees, dispatcher
<1>10. QED
  BY <1>7, <1>8, <1>9 DEF Owned, NothingUndone, dispatcher

LEMMA RunOwned ==
  ASSUME Types, Owned, "send" \notin Faults, NEW r \in Runners, Run(r)
  PROVE  Owned'
<1>0. /\ at[r] \in Items /\ Holds(r, at[r])
      /\ Live(at[r]) /\ fresh[at[r]] = 0 /\ NotClaimed(at[r])
      /\ \A q \in Runners : Holds(q, at[r]) => q = r
  <2>1. at[r] \in Items /\ Holds(r, at[r])
    BY DEF Types, Busy, Holds, Run, Heartbeat, HandlerReturns, HandlerThrows, Complete,
       CompleteFails, FailRead, Fail, FailFails, CrashRunner
  <2>2. QED
    BY <2>1 DEF Owned, RunnersOwn
<1>a. /\ status \in [Items -> Statuses] /\ wait \in [Items -> Nat]
      /\ attempt \in [Items -> Nat]
      /\ lease \in [Items -> Nat \cup {NoLease}]
      /\ at \in [Runners -> Items \cup {NoItem}]
      /\ phase \in [Runners -> {"idle", "counted", "running", "returned", "failing", "failed"}]
      /\ fresh \in [Items -> 0..MaxCopies]
      /\ seen[r][at[r]] \in Nat
  BY <1>0 DEF Types, RowTypeOK, RunnerType, MailType, SeenType
<1>1. CASE Heartbeat(r)
  <2>1. RecordHeartbeat(at[r]) /\ UNCHANGED <<dispatcher, at, phase>>
    BY <1>1 DEF Heartbeat
  <2>2. \A i \in Items : fresh'[i] = fresh[i]
    BY <1>0, <1>1, <1>a DEF Heartbeat, NewHeartbeat, Live
  <2>3. \A i \in Items : /\ Live(i) <=> Live(i)'
                         /\ status'[i] = status[i] /\ wait'[i] = wait[i]
                         /\ NotClaimed(i) <=> NotClaimed(i)'
                         /\ \A q \in Runners : Holds(q, i) <=> Holds(q, i)'
    BY <1>0, <1>a, <2>1, WorkQueueRowsAssumption
    DEF RecordHeartbeat, Live, NotClaimed, Holds, dispatcher
  <2>4. RunnersOwn' /\ MailOwns'
    BY <2>2, <2>3 DEF Owned, RunnersOwn, MailOwns
  <2>5. ClaimOwns' /\ SweepSees' /\ NothingUndone'
    BY <2>1, <2>3 DEF Owned, ClaimOwns, SweepSees, NothingUndone, dispatcher
  <2>6. QED
    BY <2>4, <2>5 DEF Owned
<1>2. CASE HandlerReturns(r) \/ HandlerThrows(r) \/ CompleteFails(r) \/ FailRead(r)
  <2>1. UNCHANGED <<row, mail, dispatcher, at>>
    BY <1>2 DEF HandlerReturns, HandlerThrows, CompleteFails, FailRead, Become
  <2>2. \A q \in Runners, i \in Items : Holds(q, i)' => Holds(q, i)
    BY <1>0, <1>2, <1>a, <2>1
    DEF HandlerReturns, HandlerThrows, CompleteFails, FailRead, Become, Holds
  <2>3. QED
    BY <1>a, <2>1, <2>2, OwnedDrops DEF mail, dispatcher, NothingUndone, Owned
<1>3. CASE Complete(r)
  <2>1. Leave(at[r], "completed", attempt[at[r]], 0)
    BY <1>0, <1>3 DEF Complete, CompleteWork, IfInProgress, Live
  <2>2. QED
    BY <1>0, <1>3, <2>1, ReleaseOwned DEF Complete, Statuses
<1>4. CASE Fail(r)
  <2>1. PICK s \in {"pending", "dead_letter"} :
          Leave(at[r], s, attempt[at[r]] + 1, Backoff(seen[r][at[r]]))
    BY <1>0, <1>4 DEF Fail, FailWork, IfInProgress, Live
  <2>2. Backoff(seen[r][at[r]]) \in Nat \ {0}
    BY <1>a, BackoffType
  <2>3. QED
    BY <1>0, <1>4, <2>1, <2>2, ReleaseOwned DEF Fail, Statuses
<1>5. CASE CrashRunner(r) \/ FailFails(r)
  <2>1. Return(r) /\ Rest(r) /\ UNCHANGED <<row, dispatcher>>
    BY <1>5 DEF CrashRunner, FailFails
  <2>2. \A q \in Runners, i \in Items :
          Holds(q, i)' => Holds(q, i) /\ i # at[r]
    BY <1>0, <1>a, <2>1 DEF Rest, Holds
  <2>3. /\ \A i \in Items : i # at[r] => fresh'[i] = fresh[i]
        /\ fresh'[at[r]] \in {0, 1}
    BY <1>0, <1>a, <2>1 DEF Return
  <2>4. \A i \in Items : /\ Live(i) <=> Live(i)'
                         /\ NotClaimed(i) <=> NotClaimed(i)'
    BY <2>1 DEF Live, NotClaimed, row, dispatcher
  <2>5. RunnersOwn'
    BY <2>2, <2>3, <2>4 DEF Owned, RunnersOwn
  <2>6. MailOwns'
    BY <1>0, <2>3, <2>4 DEF Owned, MailOwns
  <2>7. ClaimOwns' /\ SweepSees' /\ NothingUndone'
    BY <2>1, <2>4 DEF Owned, ClaimOwns, SweepSees, NothingUndone, dispatcher, row
  <2>8. QED
    BY <2>5, <2>6, <2>7 DEF Owned
<1>6. QED
  BY <1>1, <1>2, <1>3, <1>4, <1>5 DEF Run

LEMMA OwnedNext ==
  ASSUME Quick, ~Duplicates, "send" \notin Faults, Types, Owned, [Next]_vars
  PROVE  Owned'
<1>0. /\ status \in [Items -> Statuses] /\ wait \in [Items -> Nat]
      /\ lease \in [Items -> Nat \cup {NoLease}]
      /\ fresh \in [Items -> 0..MaxCopies]
      /\ at \in [Runners -> Items \cup {NoItem}]
      /\ phase \in [Runners -> {"idle", "counted", "running", "returned", "failing", "failed"}]
      /\ NothingUndone
  BY DEF Types, RowTypeOK, MailType, RunnerType, Owned
<1>1. ASSUME NEW i \in Items, Enqueue(i) PROVE Owned'
  <2>1. UNCHANGED <<mail, dispatcher, runner>> /\ Insert(i, 0)
    BY <1>1 DEF Enqueue
  <2>2. \A j \in Items : /\ Live(j) <=> Live(j)'
                         /\ j # i => status'[j] = status[j] /\ wait'[j] = wait[j]
    BY <1>0, <2>1 DEF Insert, Live
  <2>3. \A d \in Dispatchers : out[d][i] # "stale"
    BY <2>1 DEF Insert, Owned, SweepSees
  <2>4. RunnersOwn' /\ MailOwns'
    BY <2>1, <2>2 DEF Owned, RunnersOwn, MailOwns, NotClaimed, Holds, mail, dispatcher, runner
  <2>5. ClaimOwns' /\ SweepSees' /\ NothingUndone'
    BY <2>1, <2>2, <2>3 DEF Owned, ClaimOwns, SweepSees, NothingUndone, dispatcher
  <2>6. QED
    BY <2>4, <2>5 DEF Owned
<1>2. ASSUME NEW i \in Items, Lose(i) PROVE Owned'
  <2>1. fresh[i] = 1
    BY <1>2 DEF Lose, Owned, MailOwns
  <2>2. fresh' \in [Items -> 0..MaxCopies]
    BY <1>0, <1>2, CopiesType DEF Lose, Types
  <2>3. QED
    BY <1>0, <1>2, <2>1, <2>2, OwnedDrops
    DEF Lose, dispatcher, runner, Holds, NothingUndone
<1>3. ASSUME NEW d \in Dispatchers, Dispatch(d) PROVE Owned'
  BY <1>3, DispatchOwned
<1>4. ASSUME NEW c \in Consumers, NEW i \in Items, NEW l \in {"fresh", "stale"},
             Receive(c, i, l)
      PROVE  Owned'
  <2>0. c \in Runners
    BY DEF Runners
  <2>1. CASE l = "fresh"
    <3>1. /\ fresh[i] > 0 /\ fresh' = [fresh EXCEPT ![i] = fresh[i] - 1]
          /\ UNCHANGED <<row, dispatcher>>
      BY <1>4, <2>1 DEF Receive, Waiting, Taken
    <3>2. Live(i) /\ fresh[i] = 1 /\ NotClaimed(i) /\ \A r \in Runners : ~Holds(r, i)
      BY <3>1 DEF Owned, MailOwns, RunnersOwn
    <3>3. fresh'[i] = 0 /\ \A j \in Items : j # i => fresh'[j] = fresh[j]
      BY <1>0, <3>1, <3>2
    <3>4. Start(c, i, l) /\ phase[c] = "idle"
      BY <1>4, <2>1, <3>2 DEF Receive, Live
    <3>5. \A r \in Runners, j \in Items : Holds(r, j)' =>
            IF j = i THEN r = c ELSE Holds(r, j)
      BY <1>0, <2>0, <3>2, <3>4 DEF Start, Holds
    <3>6. \A j \in Items : /\ Live(j) <=> Live(j)'
                           /\ NotClaimed(j) <=> NotClaimed(j)'
      BY <3>1 DEF Live, NotClaimed, row, dispatcher
    <3>7. RunnersOwn'
      BY <3>2, <3>3, <3>5, <3>6 DEF Owned, RunnersOwn
    <3>8. MailOwns'
      BY <3>3, <3>6 DEF Owned, MailOwns
    <3>9. ClaimOwns' /\ SweepSees' /\ NothingUndone'
      BY <3>1, <3>6 DEF Owned, ClaimOwns, SweepSees, NothingUndone, dispatcher, row
    <3>10. QED
      BY <3>7, <3>8, <3>9 DEF Owned
  <2>2. CASE l = "stale"
    BY <1>0, <1>4, <2>2, OwnedDrops
    DEF Receive, Taken, dispatcher, runner, Holds, NothingUndone
  <2>3. QED
    BY <2>1, <2>2
<1>5. ASSUME NEW d \in DriverSlots, DriverCount(d) \/ DriverPasses(d) PROVE Owned'
  <2>1. UNCHANGED <<row, mail, dispatcher, at>> /\ d \in Runners
    BY <1>5 DEF DriverCount, DriverPasses, Runners
  <2>2. \A r \in Runners, i \in Items : Holds(r, i)' => Holds(r, i)
    BY <1>0, <1>5, <2>1 DEF DriverCount, DriverPasses, Holds
  <2>3. QED
    BY <1>0, <2>1, <2>2, OwnedDrops DEF mail, dispatcher, NothingUndone
<1>6. ASSUME NEW d \in DriverSlots, NEW i \in Items, DriverTake(d, i) PROVE Owned'
  <2>1. /\ ClaimRows({i}) /\ NewHeartbeat({i}) /\ UNCHANGED dispatcher
        /\ at' = [at EXCEPT ![d] = i] /\ phase' = [phase EXCEPT ![d] = "running"]
        /\ phase[d] = "counted" /\ d \in Runners
    BY <1>6 DEF DriverTake, Runners
  <2>2. /\ fresh[i] = 0 /\ NotClaimed(i) /\ \A r \in Runners : ~Holds(r, i)
        /\ \A e \in Dispatchers : out[e][i] # "stale"
    BY <1>6, ClaimableIsFree DEF DriverTake
  <2>3. \A j \in Items : fresh'[j] = fresh[j]
    BY <1>0, <2>1, <2>2 DEF NewHeartbeat
  <2>4. \A j \in Items : /\ NotClaimed(j) <=> NotClaimed(j)'
                         /\ j # i => /\ Live(j) <=> Live(j)'
                                     /\ status'[j] = status[j] /\ wait'[j] = wait[j]
    BY <2>1 DEF ClaimRows, Live, NotClaimed, dispatcher
  <2>5. Live(i)'
    BY <2>1, WorkQueueRowsAssumption DEF ClaimRows, Live
  <2>6. \A r \in Runners, j \in Items : Holds(r, j)' =>
          IF j = i THEN r = d ELSE Holds(r, j)
    BY <1>0, <2>1, <2>2 DEF Holds
  <2>7. RunnersOwn' /\ MailOwns'
    BY <2>2, <2>3, <2>4, <2>5, <2>6 DEF Owned, RunnersOwn, MailOwns
  <2>8. ClaimOwns' /\ SweepSees' /\ NothingUndone'
    BY <2>1, <2>2, <2>4, <2>5 DEF Owned, ClaimOwns, SweepSees, NothingUndone, NotClaimed, dispatcher
  <2>9. QED
    BY <2>7, <2>8 DEF Owned
<1>7. ASSUME NEW r \in Runners, Run(r) PROVE Owned'
  BY <1>7, RunOwned
<1>8. CASE Tick
  <2>1. /\ \A d \in Dispatchers : pc[d] = "idle"
        /\ \A r \in Runners : phase[r] \in {"idle", "running"}
        /\ \A r \in Runners :
             phase[r] = "running" /\ status[at[r]] = "in_progress" => lease[at[r]] > 1
        /\ \A i \in Items : fresh[i] > 0 /\ status[i] = "in_progress" => lease[i] > 1
        /\ UNCHANGED <<fresh, pc, out, at, phase>> /\ RunDown
    BY <1>8 DEF Tick, mail, runner
  <2>2. \A d \in Dispatchers, i \in Items : out[d][i] \notin {"stale", "claimed"}
    BY <2>1 DEF Owned, ClaimOwns, SweepSees
  <2>3. \A i \in Items : status[i] = "in_progress" /\ lease[i] > 1 => Live(i)'
    BY <1>0, <2>1 DEF RunDown, Live, NoLease
  <2>4. \A r \in Runners, i \in Items : (Holds(r, i) <=> Holds(r, i)') /\ (Holds(r, i) => Live(i)')
    BY <2>1, <2>3 DEF Holds, Owned, RunnersOwn, Live
  <2>5. \A i \in Items : fresh[i] > 0 => Live(i)'
    BY <2>1, <2>3 DEF Owned, MailOwns, Live
  <2>6. \A i \in Items : NotClaimed(i)'
    BY <2>1, <2>2 DEF NotClaimed
  <2>7. RunnersOwn' /\ MailOwns'
    BY <2>1, <2>4, <2>5, <2>6 DEF Owned, RunnersOwn, MailOwns
  <2>8. ClaimOwns' /\ SweepSees' /\ NothingUndone'
    BY <1>0, <2>1, <2>2 DEF ClaimOwns, SweepSees, NothingUndone
  <2>9. QED
    BY <2>7, <2>8 DEF Owned
<1>9. CASE UNCHANGED vars
  BY <1>0, <1>9, OwnedDrops DEF vars, mail, dispatcher, runner, Holds, NothingUndone
<1>10. QED
  BY <1>1, <1>2, <1>3, <1>4, <1>5, <1>6, <1>7, <1>8, <1>9 DEF Next, Duplicate

(* A row is run by one runner at a time and is 'in_progress' meanwhile: for *)
(* every number of dispatchers, consumers and driver slots, and whichever   *)
(* are killed or messages lost, as long as no message is delivered twice or *)
(* waits for a lease, and no sendBatch throws; any D1 statement may.        *)
THEOREM RunsAlone ==
  ASSUME Quick, ~Duplicates, "send" \notin Faults
  PROVE  Spec => []SingleRun
<1>1. Init => Types /\ Owned
  BY TypeInit, OwnedInit
<1>2. Types /\ Owned /\ [Next]_vars => Types' /\ Owned'
  BY Quick, ~Duplicates, "send" \notin Faults, TypeNext, OwnedNext
<1>3. Types /\ Owned => SingleRun
  BY OwnedIsSingle
<1>4. QED
  BY <1>1, <1>2, <1>3, PTL DEF Spec

------------------------------------------------------------------------------
(* The caps.  A dispatcher and the driver each count the rows in progress   *)
(* and claim in a later statement.  What the one may still add when the     *)
(* other claims is promised room (RoomKept): a burst's claim was limited to *)
(* what MaxActive left at its count, and the driver's single row needed one *)
(* place under DirectCap at its own.                                        *)

Bound == MaxActive + DirectCap

RoomKept ==
  /\ \A d \in Dispatchers : pc[d] = "claim" => ActiveCount(Rag) + room[d] <= Bound
  /\ \A s \in DriverSlots : phase[s] = "counted" => ActiveCount(Rag) + 1 <= Bound
  /\ \A d \in Dispatchers, s \in DriverSlots :
       pc[d] = "claim" /\ phase[s] = "counted" => ActiveCount(Rag) + room[d] + 1 <= Bound
  /\ \A d \in Dispatchers : pc[d] = "claim" => room[d] <= MaxActive

(* One burst at a time, and one row at a time of the driver's.              *)
OneOfEach ==
  /\ \A d, e \in Dispatchers : d = e
  /\ \A r, s \in DriverSlots : r = s

(* Only the two claims put a row in progress.                               *)
LEMMA OnlyClaimsAdd ==
  ASSUME Types, [Next]_vars,
         \A d \in Dispatchers : ~Claim(d),
         \A s \in DriverSlots, i \in Items : ~DriverTake(s, i)
  PROVE  \A j \in Items : status'[j] = "in_progress" => status[j] = "in_progress"
<1>0. status \in [Items -> Statuses]
  BY DEF Types, RowTypeOK
<1>1. ASSUME NEW i \in Items, NEW w, DeferWork(i, w) \/ SweepRelease(i, w)
      PROVE  \A j \in Items : status'[j] = "in_progress" => status[j] = "in_progress"
  BY <1>0, <1>1 DEF DeferWork, SweepRelease, IfInProgress, Leave, row
<1>2. ASSUME NEW i \in Items, NEW a, CompleteWork(i) \/ FailWork(i, a)
      PROVE  \A j \in Items : status'[j] = "in_progress" => status[j] = "in_progress"
  BY <1>0, <1>2 DEF CompleteWork, FailWork, IfInProgress, Leave, row
<1>3. ASSUME NEW i \in Items, Enqueue(i) \/ Duplicate(i) \/ Lose(i)
      PROVE  \A j \in Items : status'[j] = "in_progress" => status[j] = "in_progress"
  BY <1>0, <1>3 DEF Enqueue, Insert, Duplicate, Lose, row
<1>4. ASSUME NEW d \in Dispatchers, Dispatch(d)
      PROVE  \A j \in Items : status'[j] = "in_progress" => status[j] = "in_progress"
  <2>1. CASE UNCHANGED row
    BY <2>1 DEF row
  <2>2. ASSUME NEW i \in Items, SweepRow(d, i)
        PROVE  \A j \in Items : status'[j] = "in_progress" => status[j] = "in_progress"
    BY <1>1, <2>2 DEF SweepRow
  <2>3. ASSUME NEW i \in Items, Undo(d, i)
        PROVE  \A j \in Items : status'[j] = "in_progress" => status[j] = "in_progress"
    BY <1>1, <2>1, <2>3 DEF Undo
  <2> QED
    BY <1>4, <2>1, <2>2, <2>3
    DEF Dispatch, StartDispatch, SweepFails, Count, DispatchFails, SendBatch, SendFails,
        CrashDispatcher
<1>5. ASSUME NEW r \in Runners, Run(r)
      PROVE  \A j \in Items : status'[j] = "in_progress" => status[j] = "in_progress"
  <2>1. at[r] \in Items
    BY <1>5 DEF Types, Busy, Run, Heartbeat, HandlerReturns, HandlerThrows, Complete,
       CompleteFails, FailRead, Fail, FailFails, CrashRunner
  <2> QED
    BY <1>2, <1>5, <2>1 DEF Run, Heartbeat, RecordHeartbeat, HandlerReturns, HandlerThrows,
       Complete, CompleteFails, FailRead, Fail, FailFails, CrashRunner, row
<1>6. CASE Tick \/ UNCHANGED vars
  BY <1>6 DEF Tick, RunDown, vars, row
<1>7. ASSUME NEW c \in Consumers, NEW i \in Items, NEW l \in {"fresh", "stale"},
             Receive(c, i, l)
      PROVE  UNCHANGED row
  BY <1>7 DEF Receive
<1>8. ASSUME NEW s \in DriverSlots, DriverCount(s) \/ DriverPasses(s)
      PROVE  UNCHANGED row
  BY <1>8 DEF DriverCount, DriverPasses
<1> QED
  BY <1>3, <1>4, <1>5, <1>6, <1>7, <1>8 DEF Next, row

(* Only its count takes a burst to its claim with room ...                  *)
LEMMA RoomSteps ==
  ASSUME Types, [Next]_vars, NEW d \in Dispatchers, pc'[d] = "claim"
  PROVE  \/ Count(d)
         \/ pc[d] = "claim" /\ room'[d] = room[d]
<1>0. pc \in [Dispatchers -> {"idle", "sweep", "claim", "send", "undo"}]
  BY DEF Types, DispatcherType
<1>1. CASE UNCHANGED <<pc, room>>
  BY <1>1
<1>2. ASSUME NEW e \in Dispatchers, Dispatch(e)
      PROVE  \/ Count(d)
             \/ pc[d] = "claim" /\ room'[d] = room[d]
  <2>1. CASE e = d
    <3>1. ASSUME NEW i \in Items, SweepRow(d, i) \/ Undo(d, i)
          PROVE  pc[d] = "claim" /\ room'[d] = room[d]
      BY <1>0, <3>1 DEF SweepRow, Undo
    <3> QED
      BY <1>0, <1>2, <2>1, <3>1 DEF Dispatch, StartDispatch, SweepFails, Claim,
         DispatchFails, SendBatch, SendFails, CrashDispatcher
  <2>2. CASE e # d
    <3>1. room \in [Dispatchers -> Nat]
      BY DEF Types, DispatcherType
    <3>2. pc'[d] = pc[d] /\ room'[d] = room[d]
      BY <1>0, <1>2, <2>2, <3>1 DEF Dispatch, StartDispatch, SweepFails, Count, Claim,
         DispatchFails, SendBatch, SendFails, CrashDispatcher, SweepRow, Undo
    <3> QED
      BY <3>2
  <2> QED
    BY <2>1, <2>2
<1>3. ASSUME NEW i \in Items, Enqueue(i) \/ Duplicate(i) \/ Lose(i)
      PROVE  UNCHANGED <<pc, room>>
  BY <1>3 DEF Enqueue, Duplicate, Lose, dispatcher
<1>4. ASSUME NEW c \in Consumers, NEW i \in Items, NEW l \in {"fresh", "stale"},
             Receive(c, i, l)
      PROVE  UNCHANGED <<pc, room>>
  BY <1>4 DEF Receive, dispatcher
<1>5. ASSUME NEW s \in DriverSlots, NEW i \in Items,
             DriverCount(s) \/ DriverPasses(s) \/ DriverTake(s, i)
      PROVE  UNCHANGED <<pc, room>>
  BY <1>5 DEF DriverCount, DriverPasses, DriverTake, dispatcher
<1>6. ASSUME NEW r \in Runners, Run(r)
      PROVE  UNCHANGED <<pc, room>>
  BY <1>6 DEF Run, Heartbeat, HandlerReturns, HandlerThrows, Complete, CompleteFails,
     FailRead, Fail, FailFails, CrashRunner, dispatcher
<1>7. CASE Tick \/ UNCHANGED vars
  BY <1>7 DEF Tick, vars, dispatcher
<1>8. ASSUME NEW s \in DriverSlots, DriverCount(s) \/ DriverPasses(s)
      PROVE  UNCHANGED <<pc, room>>
  BY <1>8 DEF DriverCount, DriverPasses, dispatcher
<1> QED
  BY <1>1, <1>2, <1>3, <1>4, <1>5, <1>6, <1>7, <1>8 DEF Next

(* ... and only its own count makes the driver ready to claim.              *)
LEMMA SlotSteps ==
  ASSUME Types, [Next]_vars, NEW s \in DriverSlots, phase'[s] = "counted"
  PROVE  DriverCount(s) \/ phase[s] = "counted"
<1>0. /\ phase \in [Runners -> {"idle", "counted", "running", "returned", "failing", "failed"}]
      /\ s \in Runners
  BY DEF Types, RunnerType, Runners
<1>1. ASSUME NEW r \in Runners, Run(r)
      PROVE  phase[s] = "counted"
  BY <1>0, <1>1 DEF Run, Heartbeat, HandlerReturns, HandlerThrows, Complete, CompleteFails,
     FailRead, Fail, FailFails, CrashRunner, Become, Rest
<1>2. ASSUME NEW d \in Dispatchers, Dispatch(d)
      PROVE  UNCHANGED phase
  BY <1>2 DEF Dispatch, StartDispatch, SweepFails, Count, Claim, DispatchFails, SendBatch,
     SendFails, CrashDispatcher, SweepRow, Undo, runner
<1>3. ASSUME NEW i \in Items, Enqueue(i) \/ Duplicate(i) \/ Lose(i)
      PROVE  UNCHANGED phase
  BY <1>3 DEF Enqueue, Duplicate, Lose, runner
<1>4. ASSUME NEW c \in Consumers, NEW i \in Items, NEW l \in {"fresh", "stale"},
             Receive(c, i, l)
      PROVE  phase[s] = "counted"
  <2>1. c \in Runners
    BY DEF Runners
  <2> QED
    BY <1>0, <1>4, <2>1 DEF Receive, Start, runner
<1>5. ASSUME NEW t \in DriverSlots, DriverCount(t) \/ DriverPasses(t)
      PROVE  DriverCount(s) \/ phase[s] = "counted"
  <2>1. t \in Runners
    BY DEF Runners
  <2> QED
    BY <1>0, <1>5, <2>1 DEF DriverCount, DriverPasses
<1>6. ASSUME NEW t \in DriverSlots, NEW i \in Items, DriverTake(t, i)
      PROVE  phase[s] = "counted"
  <2>1. t \in Runners
    BY DEF Runners
  <2> QED
    BY <1>0, <1>6, <2>1 DEF DriverTake
<1>7. CASE Tick \/ UNCHANGED vars
  BY <1>7 DEF Tick, vars, runner
<1> QED
  BY <1>1, <1>2, <1>3, <1>4, <1>5, <1>6, <1>7 DEF Next

LEMMA CapNext ==
  ASSUME OneOfEach, Types, RoomKept, ActiveCap, [Next]_vars
  PROVE  RoomKept' /\ ActiveCap'
<1>0. /\ ActiveCount(Rag) \in Nat /\ ActiveCount(Rag)' \in Nat /\ ActiveCount(Rag) <= Bound
      /\ MaxActive \in Nat /\ DirectCap \in Nat /\ DispatchBatch \in Nat /\ 1 <= DirectCap
      /\ Bound = MaxActive + DirectCap /\ Bound \in Nat
      /\ Bound' = Bound
  <2>1. ActiveCount(Rag) \in Nat /\ ActiveCount(Rag)' \in Nat
    BY ActiveFinite, ActiveFiniteNext
  <2> QED
    BY <2>1, RagDispatchAssumption DEF Bound, ActiveCap
<1>r. \A d \in Dispatchers : room[d] \in Nat
  BY DEF Types, DispatcherType
<1>t. /\ pc \in [Dispatchers -> {"idle", "sweep", "claim", "send", "undo"}]
      /\ phase \in [Runners -> {"idle", "counted", "running", "returned", "failing", "failed"}]
      /\ \A s \in DriverSlots : s \in Runners
  BY DEF Types, DispatcherType, RunnerType, Runners
<1>1. ASSUME NEW d \in Dispatchers, Claim(d)
      PROVE  RoomKept' /\ ActiveCap'
  <2>1. PICK batch \in SUBSET Claimable(Rag, {}) :
          IsFirst(batch, Claimable(Rag, {}), room[d]) /\ ClaimRows(batch)
    BY <1>1 DEF Claim
  <2>2. batch \in SUBSET Items
    BY DEF Claimable
  <2>3. ActiveCount(Rag)' <= ActiveCount(Rag) + room[d]
    BY <1>r, <2>1, <2>2, ActiveGrows
  <2>4. /\ pc[d] = "claim" /\ pc'[d] # "claim" /\ UNCHANGED phase
    BY <1>1, <1>t DEF Claim
  <2>5. \A e \in Dispatchers : pc'[e] # "claim"
    BY <2>4 DEF OneOfEach
  <2>6. ActiveCount(Rag) + room[d] <= Bound
    BY <2>4 DEF RoomKept
  <2>7. \A s \in DriverSlots : phase[s] = "counted" => ActiveCount(Rag) + room[d] + 1 <= Bound
    BY <2>4 DEF RoomKept
  <2>8. ActiveCount(Rag)' <= Bound
    BY <1>0, <1>r, <2>3, <2>6
  <2>9. \A s \in DriverSlots : phase'[s] = "counted" => ActiveCount(Rag)' + 1 <= Bound
    BY <1>0, <1>r, <2>3, <2>4, <2>7
  <2> QED
    BY <1>0, <2>5, <2>8, <2>9 DEF RoomKept, ActiveCap, Bound
<1>2. ASSUME NEW s \in DriverSlots, NEW i \in Items, DriverTake(s, i)
      PROVE  RoomKept' /\ ActiveCap'
  <2>1. /\ phase[s] = "counted" /\ phase'[s] = "running"
        /\ i \in Claimable(Rag, {}) /\ ClaimRows({i}) /\ UNCHANGED <<pc, room>>
    BY <1>2, <1>t DEF DriverTake, dispatcher
  <2>2. ActiveCount(Rag)' <= ActiveCount(Rag) + 1
    BY <2>1, OneGrows
  <2>3. \A r \in DriverSlots : phase'[r] # "counted"
    BY <2>1 DEF OneOfEach
  <2>4. ActiveCount(Rag) + 1 <= Bound
    BY <2>1 DEF RoomKept
  <2>5. \A d \in Dispatchers : pc[d] = "claim" => ActiveCount(Rag) + room[d] + 1 <= Bound
    BY <2>1 DEF RoomKept
  <2>6. ActiveCount(Rag)' <= Bound
    BY <1>0, <2>2, <2>4
  <2>7. \A d \in Dispatchers : pc'[d] = "claim" => ActiveCount(Rag)' + room'[d] <= Bound
    BY <1>0, <1>r, <2>1, <2>2, <2>5
  <2>8. \A d \in Dispatchers : pc'[d] = "claim" => room'[d] <= MaxActive
    BY <2>1 DEF RoomKept
  <2> QED
    BY <1>0, <2>3, <2>6, <2>7, <2>8 DEF RoomKept, ActiveCap, Bound
<1>3. ASSUME \A d \in Dispatchers : ~Claim(d),
             \A s \in DriverSlots, i \in Items : ~DriverTake(s, i)
      PROVE  RoomKept' /\ ActiveCap'
  <2>1. ActiveCount(Rag)' <= ActiveCount(Rag)
    <3>1. \A j \in Items : status'[j] = "in_progress" => status[j] = "in_progress"
      BY <1>3, OnlyClaimsAdd
    <3>2. ActiveRows(Rag)' \subseteq ActiveRows(Rag)
      BY <3>1 DEF ActiveRows
    <3> QED
      BY <3>2, ActiveDrops
  <2>2. ActiveCount(Rag)' <= Bound
    BY <1>0, <2>1
  <2>3. ASSUME NEW d \in Dispatchers, Count(d), pc'[d] = "claim"
        PROVE  room'[d] \in Nat /\ ActiveCount(Rag)' + room'[d] <= MaxActive /\ UNCHANGED phase
    <3>1. pc[d] = "sweep" /\ UNCHANGED phase
      BY <2>3 DEF Count, runner
    <3>2. ~(Room <= 0) /\ room' = [room EXCEPT ![d] = Room]
      BY <1>t, <2>3, <3>1 DEF Count
    <3>3. Room \in Nat
      BY <3>2, RoomType
    <3>4. ActiveCount(Rag) + Room <= MaxActive
      BY <1>0 DEF Room
    <3>5. room'[d] = Room
      BY <3>2 DEF Types, DispatcherType
    <3> QED
      BY <1>0, <2>1, <3>1, <3>3, <3>4, <3>5
  <2>4. ASSUME NEW s \in DriverSlots, DriverCount(s)
        PROVE  ActiveCount(Rag)' + 1 <= DirectCap /\ UNCHANGED <<pc, room>>
    BY <1>0, <2>1, <2>4 DEF DriverCount, dispatcher
  <2>5. ASSUME NEW d \in Dispatchers, pc'[d] = "claim"
        PROVE  ActiveCount(Rag)' + room'[d] <= Bound /\ room'[d] <= MaxActive
    <3>1. CASE Count(d)
      BY <1>0, <2>3, <2>5, <3>1
    <3>2. CASE pc[d] = "claim" /\ room'[d] = room[d]
      <4>1. ActiveCount(Rag) + room[d] <= Bound /\ room[d] <= MaxActive
        BY <3>2 DEF RoomKept
      <4> QED
        BY <1>0, <1>r, <2>1, <3>2, <4>1
    <3> QED
      BY <2>5, <3>1, <3>2, RoomSteps
  <2>6. ASSUME NEW s \in DriverSlots, phase'[s] = "counted"
        PROVE  ActiveCount(Rag)' + 1 <= Bound
    <3>1. CASE DriverCount(s)
      BY <1>0, <2>4, <3>1
    <3>2. CASE phase[s] = "counted"
      <4>1. ActiveCount(Rag) + 1 <= Bound
        BY <3>2 DEF RoomKept
      <4> QED
        BY <1>0, <2>1, <4>1
    <3> QED
      BY <2>6, <3>1, <3>2, SlotSteps
  <2>7. ASSUME NEW d \in Dispatchers, NEW s \in DriverSlots,
               pc'[d] = "claim", phase'[s] = "counted"
        PROVE  ActiveCount(Rag)' + room'[d] + 1 <= Bound
    <3>1. CASE Count(d)
      BY <1>0, <2>3, <2>7, <3>1
    <3>2. CASE DriverCount(s)
      <4>1. pc[d] = "claim" /\ room'[d] = room[d] /\ ActiveCount(Rag)' + 1 <= DirectCap
        BY <2>4, <2>7, <3>2
      <4>2. room[d] <= MaxActive
        BY <4>1 DEF RoomKept
      <4> QED
        BY <1>0, <1>r, <4>1, <4>2
    <3>3. CASE pc[d] = "claim" /\ room'[d] = room[d] /\ phase[s] = "counted"
      <4>1. ActiveCount(Rag) + room[d] + 1 <= Bound
        BY <3>3 DEF RoomKept
      <4> QED
        BY <1>0, <1>r, <2>1, <3>3, <4>1
    <3> QED
      BY <2>7, <3>1, <3>2, <3>3, RoomSteps, SlotSteps
  <2> QED
    BY <1>0, <2>2, <2>5, <2>6, <2>7 DEF RoomKept, ActiveCap, Bound
<1> QED
  BY <1>1, <1>2, <1>3

(* With one burst a minute and one row at a time of the driver's, no more   *)
(* rows of the domain are in progress than the two caps together, though    *)
(* each is counted in one statement and claimed against in another, the two *)
(* drainers know nothing of each other, and any of them may be killed.      *)
THEOREM CapsAdd ==
  ASSUME OneOfEach
  PROVE  Spec => []ActiveCap
<1>1. Init => Types /\ RoomKept /\ ActiveCap
  <2> SUFFICES ASSUME Init PROVE Types /\ RoomKept /\ ActiveCap
    OBVIOUS
  <2>1. ActiveRows(Rag) = {}
    BY DEF Init, RowInit, ActiveRows
  <2>2. ActiveCount(Rag) = 0
    BY <2>1, ActiveFinite, FS_EmptySet
  <2>3. ActiveCap
    BY <2>2, RagDispatchAssumption DEF ActiveCap
  <2>4. RoomKept
    BY DEF Init, RoomKept, Runners
  <2> QED
    BY <2>3, <2>4, TypeInit
<1>2. Types /\ RoomKept /\ ActiveCap /\ [Next]_vars => Types' /\ RoomKept' /\ ActiveCap'
  BY OneOfEach, TypeNext, CapNext
<1>3. QED
  BY <1>1, <1>2, PTL DEF Spec
==============================================================================
