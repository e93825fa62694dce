----------------------------- MODULE RagDispatch -----------------------------
(***************************************************************************)
(* The RAG reindex domain of work_queue, drained through a Cloudflare      *)
(* queue (src/lib/rag-v2-queue-drain.ts): a dispatcher claims rows and     *)
(* sends one message a row; a consumer runs the row of a message if the    *)
(* heartbeat_at the message carries is still the row's.  The minute driver *)
(* has a handler for the same domain and claims rows beside the dispatcher.*)
(*                                                                         *)
(* A claim or a heartbeat gives the row a new heartbeat_at, so a message   *)
(* is either fresh, carrying the row's present one, or stale; messages are *)
(* kept as the number of fresh ones of each row and the set of rows that   *)
(* have a stale one.                                                       *)
(***************************************************************************)
EXTENDS WorkQueueRows

CONSTANTS
  Dispatchers,    \* slots for invocations of dispatchRagV2QueueBurst
  Consumers,      \* slots for concurrent invocations of the queue consumer
  DriverSlots,    \* slots for items the minute driver runs itself
  MaxActive,      \* RAG_V2_QUEUE_MAX_ACTIVE
  DispatchBatch,  \* RAG_V2_QUEUE_DISPATCH_BATCH
  Chunk,          \* messages in one sendBatch
  DirectCap,      \* maxConcurrent of ragReindexV2Handler
  MaxCopies,      \* bound on the fresh messages of a row
  Duplicates,     \* the queue may deliver a message twice
  Losses,         \* the queue drops a message after its last retry
  Faults,         \* what may throw: a D1 statement, a sendBatch
  Crashes,        \* which invocations may be killed
  Quick,          \* no message waits in the queue for a whole lease
  NoItem          \* what an idle runner is working on

Runners == Consumers \cup DriverSlots

ASSUME RagDispatchAssumption ==
  /\ Dispatchers \cap Runners = {}
  /\ Consumers \cap DriverSlots = {}
  /\ {MaxActive, DispatchBatch, Chunk, DirectCap, MaxCopies} \subseteq Nat \ {0}
  /\ {Duplicates, Losses, Quick} \subseteq BOOLEAN
  /\ Faults \subseteq {"statement", "send"}
  /\ Crashes \in {"never", "runner", "any"}
  /\ NoItem \notin Items

VARIABLES
  fresh, stale,       \* the messages in the queue
  due,                \* dispatchers the cron has yet to start this minute
  pc, room, out,      \* a dispatcher: its step, its claim limit, its rows
  at, phase, letter,  \* a runner: its row, its step, the message it holds
  seen                \* the attempt read in the sweep and in failWork

mail == <<fresh, stale>>
dispatcher == <<due, pc, room, out>>
runner == <<at, phase, letter>>
vars == <<row, mail, dispatcher, runner, seen>>

TypeOK ==
  /\ RowTypeOK
  /\ fresh \in [Items -> 0..MaxCopies]
  /\ stale \subseteq Items
  /\ due \subseteq Dispatchers
  /\ pc \in [Dispatchers -> {"idle", "sweep", "claim", "send", "undo"}]
  /\ room \in [Dispatchers -> Nat]
  /\ out \in [Dispatchers -> [Items -> {"none", "stale", "claimed", "sent"}]]
  /\ at \in [Runners -> Items \cup {NoItem}]
  /\ phase \in [Runners -> {"idle", "counted", "running", "returned", "failing", "failed"}]
  /\ letter \in [Runners -> {"none", "fresh", "stale"}]
  /\ seen \in [Dispatchers \cup Runners -> [Items -> Nat]]

Init ==
  /\ RowInit
  /\ fresh = [i \in Items |-> 0]
  /\ stale = {}
  /\ due = Dispatchers
  /\ pc = [d \in Dispatchers |-> "idle"]
  /\ room = [d \in Dispatchers |-> 0]
  /\ out = [d \in Dispatchers |-> [i \in Items |-> "none"]]
  /\ at = [r \in Runners |-> NoItem]
  /\ phase = [r \in Runners |-> "idle"]
  /\ letter = [r \in Runners |-> "none"]
  /\ seen = [a \in Dispatchers \cup Runners |-> [i \in Items |-> 0]]

(* heartbeat_at of the rows in S changes: every message about one of them,  *)
(* in the queue or in a consumer's hands, is stale now.                     *)
NewHeartbeat(S) ==
  /\ fresh' = [i \in Items |-> IF i \in S THEN 0 ELSE fresh[i]]
  /\ stale' = stale \cup {i \in S : fresh[i] > 0}

Outdated(S) ==
  [r \in Runners |-> IF at[r] \in S /\ letter[r] = "fresh" THEN "stale" ELSE letter[r]]

Enqueue(i) == Insert(i, 0) /\ UNCHANGED <<mail, dispatcher, runner, seen>>

------------------------------------------------------------------------------
(* dispatchRagV2QueueBurst.                                                 *)

(* sweepStaleClaims: its SELECT, then an UPDATE for each candidate.         *)
StartDispatch(d) ==
  /\ pc[d] = "idle"
  /\ d \in due
  /\ due' = due \ {d}
  /\ pc' = [pc EXCEPT ![d] = "sweep"]
  /\ out' = [out EXCEPT ![d] =
       [i \in Items |-> IF i \in StaleClaims THEN "stale" ELSE "none"]]
  /\ seen' = [seen EXCEPT ![d] =
       [i \in Items |-> IF i \in StaleClaims THEN attempt[i] ELSE 0]]
  /\ UNCHANGED <<row, mail, room, runner>>

SweepRow(d, i) ==
  /\ out[d][i] = "stale"
  /\ SweepRelease(i, seen[d][i])
  /\ out' = [out EXCEPT ![d][i] = "none"]
  /\ seen' = [seen EXCEPT ![d][i] = 0]
  /\ UNCHANGED <<mail, due, pc, room, runner>>

SweepFails(d) ==
  /\ "statement" \in Faults
  /\ \E i \in Items : out[d][i] = "stale"
  /\ out' = [out EXCEPT ![d] = [i \in Items |-> "none"]]
  /\ seen' = [seen EXCEPT ![d] = [i \in Items |-> 0]]
  /\ UNCHANGED <<row, mail, due, pc, room, runner>>

Rag == 1  \* the domain

(* Mutant: the active rows are not subtracted from the cap.                 *)
RoomNotCounted == IF MaxActive < DispatchBatch THEN MaxActive ELSE DispatchBatch

(* claimLimit of the burst.                                                 *)
Room ==
  LET available == MaxActive - ActiveCount(Rag)
  IN IF available < DispatchBatch THEN available ELSE DispatchBatch

(* Mutant: a burst without room goes on to claim.                           *)
CountAnyway(d) ==
  /\ pc[d] = "sweep"
  /\ \A i \in Items : out[d][i] = "none"
  /\ pc' = [pc EXCEPT ![d] = "claim"]
  /\ room' = [room EXCEPT ![d] = Room]
  /\ UNCHANGED <<row, mail, due, out, runner, seen>>

(* activeRagV2Count, and the end of the burst when there is no room.        *)
Count(d) ==
  /\ pc[d] = "sweep"
  /\ \A i \in Items : out[d][i] = "none"
  /\ IF Room <= 0
     THEN pc' = [pc EXCEPT ![d] = "idle"] /\ UNCHANGED room
     ELSE /\ pc' = [pc EXCEPT ![d] = "claim"]
          /\ room' = [room EXCEPT ![d] = Room]
  /\ UNCHANGED <<row, mail, due, out, runner, seen>>

(* claimRagV2BatchForOrg.                                                   *)
Claim(d) ==
  /\ pc[d] = "claim"
  /\ \E batch \in SUBSET Claimable(Rag, {}) :
       /\ IsFirst(batch, Claimable(Rag, {}), room[d])
       /\ ClaimRows(batch)
       /\ NewHeartbeat(batch)
       /\ letter' = Outdated(batch)
       /\ out' = [out EXCEPT ![d] =
            [i \in Items |-> IF i \in batch THEN "claimed" ELSE "none"]]
       /\ pc' = [pc EXCEPT ![d] = IF batch = {} THEN "idle" ELSE "send"]
  /\ room' = [room EXCEPT ![d] = 0]
  /\ UNCHANGED <<due, at, phase, seen>>

(* The count, the circuits or the claim throws.                             *)
DispatchFails(d) ==
  /\ "statement" \in Faults
  /\ \/ pc[d] = "sweep" /\ \A i \in Items : out[d][i] = "none"
     \/ pc[d] = "claim"
  /\ pc' = [pc EXCEPT ![d] = "idle"]
  /\ room' = [room EXCEPT ![d] = 0]
  /\ UNCHANGED <<row, mail, due, out, runner, seen>>

Unsent(d) == {i \in Items : out[d][i] = "claimed"}

IsChunk(S, d) ==
  /\ S \subseteq Unsent(d)
  /\ \/ S = Unsent(d) /\ Cardinality(S) <= Chunk
     \/ Cardinality(S) = Chunk

Deliver(S) ==
  /\ fresh' = [i \in Items |-> IF i \in S /\ fresh[i] < MaxCopies
                                 THEN fresh[i] + 1 ELSE fresh[i]]
  /\ UNCHANGED stale

SendBatch(d) ==
  /\ pc[d] = "send"
  /\ \E S \in SUBSET Unsent(d) :
       /\ IsChunk(S, d)
       /\ Deliver(S)
       /\ IF S = Unsent(d)
          THEN /\ pc' = [pc EXCEPT ![d] = "idle"]
               /\ out' = [out EXCEPT ![d] = [i \in Items |-> "none"]]
          ELSE /\ UNCHANGED pc
               /\ out' = [out EXCEPT ![d] =
                    [i \in Items |-> IF i \in S THEN "sent" ELSE out[d][i]]]
  /\ UNCHANGED <<row, due, room, runner, seen>>

(* A sendBatch throws, whether or not the queue accepted it.                *)
SendFails(d) ==
  /\ "send" \in Faults
  /\ pc[d] = "send"
  /\ \/ UNCHANGED mail
     \/ \E S \in SUBSET Unsent(d) : IsChunk(S, d) /\ Deliver(S)
  /\ pc' = [pc EXCEPT ![d] = "undo"]
  /\ UNCHANGED <<row, due, room, out, runner, seen>>

(* Then every row of the claim is deferred by a minute, sent or not; a      *)
(* deferWork that throws is ignored.                                        *)
Undo(d, i) ==
  /\ pc[d] = "undo"
  /\ out[d][i] # "none"
  /\ DeferWork(i, 1) \/ UNCHANGED row
  /\ out' = [out EXCEPT ![d][i] = "none"]
  /\ pc' = [pc EXCEPT ![d] =
       IF \A j \in Items \ {i} : out[d][j] = "none" THEN "idle" ELSE "undo"]
  /\ UNCHANGED <<mail, due, room, runner, seen>>

------------------------------------------------------------------------------
(* handleRagV2QueueBatch and processClaimedWorkItem.                        *)

Start(r, i, l) ==
  /\ at' = [at EXCEPT ![r] = i]
  /\ phase' = [phase EXCEPT ![r] = "running"]
  /\ letter' = [letter EXCEPT ![r] = l]

Waiting(i, l) ==
  \/ l = "fresh" /\ fresh[i] > 0
  \/ l = "stale" /\ i \in stale

Taken(i, l) ==
  /\ fresh' = IF l = "fresh" THEN [fresh EXCEPT ![i] = fresh[i] - 1] ELSE fresh
  /\ stale' = IF l = "stale" THEN stale \ {i} ELSE stale

(* Mutant: heartbeat_at is not compared.                                    *)
ReceiveUnfenced(c, i, l) ==
  /\ phase[c] = "idle"
  /\ Waiting(i, l)
  /\ Taken(i, l)
  /\ IF status[i] = "in_progress" THEN Start(c, i, l) ELSE UNCHANGED runner
  /\ UNCHANGED <<row, dispatcher, seen>>

(* A message is delivered: its row is read and its handler called, or the   *)
(* message is acknowledged because the row moved on.                        *)
Receive(c, i, l) ==
  /\ phase[c] = "idle"
  /\ Waiting(i, l)
  /\ Taken(i, l)
  /\ IF status[i] = "in_progress" /\ l = "fresh"
     THEN Start(c, i, l) ELSE UNCHANGED runner
  /\ UNCHANGED <<row, dispatcher, seen>>

(* The driver's tick counts the active rows of the domain, claims a row if  *)
(* there is room, and runs it; its other steps are in WorkQueue.            *)
DriverCount(d) ==
  /\ phase[d] = "idle"
  /\ ActiveCount(Rag) < DirectCap
  /\ phase' = [phase EXCEPT ![d] = "counted"]
  /\ UNCHANGED <<row, mail, dispatcher, at, letter, seen>>

(* The claim finds no row, throws, or the tick ends before it.              *)
DriverPasses(d) ==
  /\ phase[d] = "counted"
  /\ phase' = [phase EXCEPT ![d] = "idle"]
  /\ UNCHANGED <<row, mail, dispatcher, at, letter, seen>>

DriverTake(d, i) ==
  /\ phase[d] = "counted"
  /\ i \in Claimable(Rag, {})
  /\ ClaimRows({i})
  /\ NewHeartbeat({i})
  /\ at' = [at EXCEPT ![d] = i]
  /\ phase' = [phase EXCEPT ![d] = "running"]
  /\ letter' = Outdated({i})
  /\ UNCHANGED <<dispatcher, seen>>

Heartbeat(r) ==
  /\ phase[r] = "running"
  /\ RecordHeartbeat(at[r])
  /\ IF status[at[r]] = "in_progress"
     THEN NewHeartbeat({at[r]}) /\ letter' = Outdated({at[r]})
     ELSE UNCHANGED <<mail, letter>>
  /\ UNCHANGED <<dispatcher, at, phase, seen>>

Become(r, p) ==
  /\ phase' = [phase EXCEPT ![r] = p]
  /\ UNCHANGED <<at, letter>>

Rest(r) ==
  /\ at' = [at EXCEPT ![r] = NoItem]
  /\ phase' = [phase EXCEPT ![r] = "idle"]
  /\ letter' = [letter EXCEPT ![r] = "none"]

HandlerReturns(r) ==
  /\ phase[r] = "running"
  /\ Become(r, "returned")
  /\ UNCHANGED <<row, mail, dispatcher, seen>>

(* A partial index, a rate limit or any other error.                        *)
HandlerThrows(r) ==
  /\ phase[r] = "running"
  /\ Become(r, "failing")
  /\ UNCHANGED <<row, mail, dispatcher, seen>>

Complete(r) ==
  /\ phase[r] = "returned"
  /\ CompleteWork(at[r])
  /\ Rest(r)
  /\ UNCHANGED <<mail, dispatcher, seen>>

CompleteFails(r) ==
  /\ "statement" \in Faults
  /\ phase[r] = "returned"
  /\ Become(r, "failing")
  /\ UNCHANGED <<row, mail, dispatcher, seen>>

FailRead(r) ==
  /\ phase[r] = "failing"
  /\ seen' = [seen EXCEPT ![r][at[r]] = attempt[at[r]]]
  /\ Become(r, "failed")
  /\ UNCHANGED <<row, mail, dispatcher>>

Fail(r) ==
  /\ phase[r] = "failed"
  /\ FailWork(at[r], seen[r][at[r]])
  /\ seen' = [seen EXCEPT ![r][at[r]] = 0]
  /\ Rest(r)
  /\ UNCHANGED <<mail, dispatcher>>

(* The message goes back to the queue.                                      *)
Return(r) ==
  /\ fresh' = IF letter[r] = "fresh" /\ fresh[at[r]] < MaxCopies
              THEN [fresh EXCEPT ![at[r]] = fresh[at[r]] + 1] ELSE fresh
  /\ stale' = IF letter[r] = "stale" THEN stale \cup {at[r]} ELSE stale

(* failWork throws: message.retry, or nothing in the driver.                *)
FailFails(r) ==
  /\ "statement" \in Faults
  /\ phase[r] \in {"failing", "failed"}
  /\ Return(r)
  /\ seen' = [seen EXCEPT ![r][at[r]] = 0]
  /\ Rest(r)
  /\ UNCHANGED <<row, dispatcher>>

------------------------------------------------------------------------------
(* The platform.                                                            *)

CrashRunner(r) ==
  /\ Crashes \in {"runner", "any"}
  /\ phase[r] \notin {"idle", "counted"}
  /\ Return(r)
  /\ seen' = [seen EXCEPT ![r][at[r]] = 0]
  /\ Rest(r)
  /\ UNCHANGED <<row, dispatcher>>

CrashDispatcher(d) ==
  /\ Crashes = "any"
  /\ pc[d] # "idle"
  /\ pc' = [pc EXCEPT ![d] = "idle"]
  /\ room' = [room EXCEPT ![d] = 0]
  /\ out' = [out EXCEPT ![d] = [i \in Items |-> "none"]]
  /\ seen' = [seen EXCEPT ![d] = [i \in Items |-> 0]]
  /\ UNCHANGED <<row, mail, due, runner>>

(* At least once: a message in the queue, or one a consumer holds, is       *)
(* delivered again.                                                         *)
Duplicate(i) ==
  /\ Duplicates
  /\ fresh[i] > 0 \/ \E c \in Consumers : at[c] = i /\ letter[c] = "fresh"
  /\ fresh[i] < MaxCopies
  /\ fresh' = [fresh EXCEPT ![i] = fresh[i] + 1]
  /\ UNCHANGED <<row, stale, dispatcher, runner, seen>>

(* max_retries deliveries failed, and the queue has no dead-letter queue.   *)
Lose(i) ==
  /\ Losses
  /\ fresh[i] > 0
  /\ fresh' = [fresh EXCEPT ![i] = fresh[i] - 1]
  /\ UNCHANGED <<row, stale, dispatcher, runner, seen>>

(* A minute passes.  No invocation takes one between two statements, and a  *)
(* running handler's heartbeat is never a lease late.                       *)
Tick ==
  /\ \A d \in Dispatchers : pc[d] = "idle"
  /\ \A r \in Runners :
       /\ phase[r] \in {"idle", "running"}
       /\ phase[r] = "running" /\ status[at[r]] = "in_progress" => lease[at[r]] > 1
  /\ Quick => \A i \in Items :
       fresh[i] > 0 /\ status[i] = "in_progress" => lease[i] > 1
  /\ RunDown
  /\ due' = Dispatchers
  /\ UNCHANGED <<mail, pc, room, out, runner, seen>>

Dispatch(d) ==
  \/ StartDispatch(d) \/ SweepFails(d) \/ Count(d) \/ Claim(d)
  \/ DispatchFails(d) \/ SendBatch(d) \/ SendFails(d) \/ CrashDispatcher(d)
  \/ \E i \in Items : SweepRow(d, i) \/ Undo(d, i)

Run(r) ==
  \/ Heartbeat(r) \/ HandlerReturns(r) \/ HandlerThrows(r)
  \/ Complete(r) \/ CompleteFails(r) \/ FailRead(r) \/ Fail(r) \/ FailFails(r)
  \/ CrashRunner(r)

Next ==
  \/ \E i \in Items : Enqueue(i) \/ Duplicate(i) \/ Lose(i)
  \/ \E d \in Dispatchers : Dispatch(d)
  \/ \E c \in Consumers, i \in Items, l \in {"fresh", "stale"} : Receive(c, i, l)
  \/ \E d \in DriverSlots :
       DriverCount(d) \/ DriverPasses(d) \/ \E i \in Items : DriverTake(d, i)
  \/ \E r \in Runners : Run(r)
  \/ Tick

Spec == Init /\ [][Next]_vars

(* The cron starts the dispatcher every minute, invocations make progress,  *)
(* handlers end and time passes, though a minute waits for the statements   *)
(* and heartbeats due in it.  Nothing is assumed of the queue, but a        *)
(* sendBatch tried again and again is accepted, and a row delivered again   *)
(* and again gets its heartbeat: not every delivery is killed before it.    *)
Fairness ==
  /\ SF_vars(Tick)
  /\ \A d \in Dispatchers :
       /\ WF_vars(StartDispatch(d) \/ Count(d) \/ Claim(d))
       /\ SF_vars(SendBatch(d))
       /\ \A i \in Items : WF_vars(SweepRow(d, i)) /\ WF_vars(Undo(d, i))
  /\ \A d \in DriverSlots : WF_vars(DriverPasses(d))
  /\ \A r \in Runners :
       /\ SF_vars(Heartbeat(r))
       /\ WF_vars(HandlerReturns(r) \/ HandlerThrows(r))
       /\ WF_vars(Complete(r) \/ FailRead(r) \/ Fail(r))

FairSpec == Spec /\ Fairness

------------------------------------------------------------------------------

(* A row is run by one runner at a time and is 'in_progress' meanwhile,     *)
(* whatever became of the messages of its earlier claims: the comparison of *)
(* heartbeat_at in handleRagV2QueueBatch, and the heartbeats, by which      *)
(* "long RAG jobs do not get reclaimed while they are still actively        *)
(* writing" (processClaimedWorkItem).                                       *)
SingleRun ==
  \A r \in Runners : phase[r] = "running" =>
    /\ status[at[r]] = "in_progress"
    /\ \A q \in Runners : phase[q] = "running" /\ at[q] = at[r] => q = r

(* The dispatcher's count and the driver's race for the same rows; together *)
(* they keep no more in progress than their caps added up.                  *)
ActiveCap == ActiveCount(Rag) <= MaxActive + DirectCap

(* A row that enters the queue is finished or given up in the end, even if  *)
(* the Cloudflare queue loses every message: the sweep takes the row back.  *)
Settles == \A i \in Items : status[i] = "pending" ~> status[i] \in Terminal

(* "Watchdog only catches crashed handlers, hardware restarts, etc."        *)
(* (sweepStaleClaims): when nothing crashes, throws or is lost, it finds    *)
(* nothing.                                                                 *)
WatchdogOnlyCatchesCrashes == StaleClaims = {}
=============================================================================
