------------------------------ MODULE WorkQueue ------------------------------
(***************************************************************************)
(* The driver that drains work_queue (src/lib/work-queue-driver.ts).       *)
(*                                                                         *)
(* A D1 statement is atomic; everything between two awaits interleaves.    *)
(* Several invocations of processWorkQueueTick may be alive at once: the   *)
(* cron starts one a minute and does not wait for the previous one, and an *)
(* administrator can start one at any time.                                *)
(***************************************************************************)
EXTENDS WorkQueueRows

CONSTANTS
  Crons, Admins,  \* slots for invocations started by the cron, by a person
  Upstreams,      \* upstreams with a circuit in upstream_budget_ledger
  Spends,         \* Spends[i]: the ledger upstream that i's handler charges
  Limit,          \* Limit[k]: min(batchSize, claimBatchCap)
  Concurrency,    \* Concurrency[k]: processConcurrency
  Capped,         \* the domains that declare maxConcurrent
  MaxConcurrent,  \* MaxConcurrent[k]: its value, for k \in Capped
  EnqueueDelays,  \* delays enqueueWork is called with
  DeferDelays,    \* DeferDelays[k]: delays k's handler defers its rows by, in
                  \*   minutes: 0 when the row is ready again within this one
  Faults,         \* a D1 statement may throw
  Crashes,        \* where an invocation may be killed
  Prompt,         \* no minute passes between two statements of a driver
  Timely          \* the heartbeat of a running handler is never a lease late

Drivers == Crons \cup Admins

ASSUME WorkQueueAssumption ==
  /\ Crons \cap Admins = {}
  /\ IsFiniteSet(Drivers)
  /\ Limit \in [1..NumDomains -> Nat \ {0}]
  /\ Concurrency \in [1..NumDomains -> Nat \ {0}]
  /\ Capped \subseteq 1..NumDomains
  /\ MaxConcurrent \in [Capped -> Nat \ {0}]
  /\ EnqueueDelays \subseteq Nat
  /\ DeferDelays \in [1..NumDomains -> SUBSET Nat]
  /\ Faults \in BOOLEAN
  /\ Crashes \in {"never", "handler", "anywhere"}
  /\ Prompt \in BOOLEAN
  /\ Timely \in BOOLEAN

VARIABLES
  circuit,   \* upstreams whose circuit_open_until lies ahead
  ran,       \* task_runs holds this minute's work_queue_tick key
  pc,        \* where each invocation stands in processWorkQueueTick
  pos,       \* the handler it has reached
  room,      \* the claim limit its COUNT left
  shut,      \* the open circuits it read
  work,      \* what it is doing with each row
  seen,      \* the attempt it read, in the sweep and in failWork
  finished   \* items whose handler has returned with the work done (ghost)

driver == <<pc, pos, room, shut, work, seen>>
vars == <<row, circuit, ran, driver, finished>>

Phases == {"none", "stale", "queued", "running", "returned", "failing", "failed"}

TypeOK ==
  /\ RowTypeOK
  /\ circuit \subseteq Upstreams
  /\ ran \in BOOLEAN
  /\ pc \in [Drivers -> {"idle", "sweep", "domain", "claim", "work"}]
  /\ pos \in [Drivers -> 1..NumDomains]
  /\ room \in [Drivers -> Nat]
  /\ shut \in [Drivers -> SUBSET Upstreams]
  /\ work \in [Drivers -> [Items -> Phases]]
  /\ seen \in [Drivers -> [Items -> Nat]]
  /\ finished \subseteq Items

Init ==
  /\ RowInit
  /\ circuit = {}
  /\ ran = FALSE
  /\ pc = [d \in Drivers |-> "idle"]
  /\ pos = [d \in Drivers |-> 1]
  /\ room = [d \in Drivers |-> 0]
  /\ shut = [d \in Drivers |-> {}]
  /\ work = [d \in Drivers |-> [i \in Items |-> "none"]]
  /\ seen = [d \in Drivers |-> [i \in Items |-> 0]]
  /\ finished = {}

------------------------------------------------------------------------------
(* The producer.                                                            *)

Enqueue(i, w) == Insert(i, w) /\ UNCHANGED <<circuit, ran, driver, finished>>

------------------------------------------------------------------------------
(* One invocation of processWorkQueueTick.                                  *)

Phase(d, i, p) == work' = [work EXCEPT ![d][i] = p]

(* The cron's invocation runs under withTaskRun, whose INSERT OR IGNORE of  *)
(* the minute's key lets one delivery through; an administrator's does not. *)
(* Then the SELECT of sweepStaleClaims.                                     *)
StartTick(d) ==
  /\ pc[d] = "idle"
  /\ d \in Crons => ~ran
  /\ ran' = (ran \/ d \in Crons)
  /\ pc' = [pc EXCEPT ![d] = "sweep"]
  /\ work' = [work EXCEPT ![d] =
       [i \in Items |-> IF i \in StaleClaims THEN "stale" ELSE "none"]]
  /\ seen' = [seen EXCEPT ![d] =
       [i \in Items |-> IF i \in StaleClaims THEN attempt[i] ELSE 0]]
  /\ UNCHANGED <<row, circuit, pos, room, shut, finished>>

SweepRow(d, i) ==
  /\ work[d][i] = "stale"
  /\ SweepRelease(i, seen[d][i])
  /\ Phase(d, i, "none")
  /\ seen' = [seen EXCEPT ![d][i] = 0]
  /\ UNCHANGED <<circuit, ran, pc, pos, room, shut, finished>>

(* A statement of the sweep throws; the driver logs it and goes on.         *)
SweepFails(d) ==
  /\ Faults
  /\ \E i \in Items : work[d][i] = "stale"
  /\ work' = [work EXCEPT ![d] = [i \in Items |-> "none"]]
  /\ seen' = [seen EXCEPT ![d] = [i \in Items |-> 0]]
  /\ UNCHANGED <<row, circuit, ran, pc, pos, room, shut, finished>>

(* getOpenCircuits, once per tick; an error leaves the set empty.           *)
ReadCircuits(d) ==
  /\ pc[d] = "sweep"
  /\ \A i \in Items : work[d][i] = "none"
  /\ pc' = [pc EXCEPT ![d] = "domain"]
  /\ \E open \in {circuit} \cup (IF Faults THEN {{}} ELSE {}) :
       shut' = [shut EXCEPT ![d] = open]
  /\ UNCHANGED <<row, circuit, ran, pos, room, work, seen, finished>>

(* Mutant: the loop runs past the end of the registry.                      *)
NextHandlerPastEnd(d) ==
  /\ pos' = [pos EXCEPT ![d] = pos[d] + 1]
  /\ pc' = [pc EXCEPT ![d] = "domain"]
  /\ UNCHANGED shut

(* The for loop over WORK_QUEUE_HANDLERS takes its next step or ends.       *)
NextHandler(d) ==
  IF pos[d] < NumDomains
  THEN /\ pos' = [pos EXCEPT ![d] = pos[d] + 1]
       /\ pc' = [pc EXCEPT ![d] = "domain"]
       /\ UNCHANGED shut
  ELSE /\ pos' = [pos EXCEPT ![d] = 1]
       /\ pc' = [pc EXCEPT ![d] = "idle"]
       /\ shut' = [shut EXCEPT ![d] = {}]

(* SELECT COUNT of a domain that declares maxConcurrent.                    *)
CountActive(d) ==
  /\ pc[d] = "domain"
  /\ pos[d] \in Capped
  /\ LET k == pos[d]
         available == MaxConcurrent[k] - ActiveCount(k)
     IN IF available <= 0
        THEN NextHandler(d) /\ UNCHANGED room
        ELSE /\ pc' = [pc EXCEPT ![d] = "claim"]
             /\ room' = [room EXCEPT ![d] =
                  IF available < Limit[k] THEN available ELSE Limit[k]]
             /\ UNCHANGED <<pos, shut>>
  /\ UNCHANGED <<row, circuit, ran, work, seen, finished>>

ReadyToClaim(d) ==
  \/ pc[d] = "claim"
  \/ pc[d] = "domain" /\ pos[d] \notin Capped

(* Mutant: the claim ignores the room the COUNT left.                       *)
ClaimLimitFull(d) == Limit[pos[d]]

ClaimLimit(d) == IF pc[d] = "claim" THEN room[d] ELSE Limit[pos[d]]

(* claimNextBatch: one UPDATE ... RETURNING.                                *)
Claim(d) ==
  /\ ReadyToClaim(d)
  /\ \E batch \in SUBSET Claimable(pos[d], shut[d]) :
       /\ IsFirst(batch, Claimable(pos[d], shut[d]), ClaimLimit(d))
       /\ ClaimRows(batch)
       /\ work' = [work EXCEPT ![d] =
            [i \in Items |-> IF i \in batch THEN "queued" ELSE "none"]]
  /\ pc' = [pc EXCEPT ![d] = "work"]
  /\ room' = [room EXCEPT ![d] = 0]
  /\ UNCHANGED <<circuit, ran, pos, shut, seen, finished>>

(* The COUNT or the claim throws; the driver goes to the next handler.      *)
ClaimFails(d) ==
  /\ Faults
  /\ pc[d] \in {"domain", "claim"}
  /\ NextHandler(d)
  /\ room' = [room EXCEPT ![d] = 0]
  /\ UNCHANGED <<row, circuit, ran, work, seen, finished>>

Queued(d) == {i \in Items : work[d][i] = "queued"}
Active(d) == {i \in Items : work[d][i] \in {"running", "returned", "failing", "failed"}}

(* The next slice of processConcurrency items, when the last one settled.   *)
(* The row's status is not read again before its handler is called.         *)
StartGroup(d) ==
  /\ pc[d] = "work"
  /\ Active(d) = {}
  /\ Queued(d) # {}
  /\ \E group \in SUBSET Queued(d) :
       /\ \/ group = Queued(d) /\ Cardinality(group) <= Concurrency[pos[d]]
          \/ Cardinality(group) = Concurrency[pos[d]]
       /\ work' = [work EXCEPT ![d] =
            [i \in Items |-> IF i \in group THEN "running" ELSE work[d][i]]]
  /\ UNCHANGED <<row, circuit, ran, pc, pos, room, shut, seen, finished>>

(* withHeartbeat's loop, alive while the handler runs.                      *)
Heartbeat(d, i) ==
  /\ work[d][i] = "running"
  /\ RecordHeartbeat(i)
  /\ UNCHANGED <<circuit, ran, driver, finished>>

HandlerReturns(d, i) ==
  /\ work[d][i] = "running"
  /\ Phase(d, i, "returned")
  /\ finished' = finished \cup {i}
  /\ UNCHANGED <<row, circuit, ran, pc, pos, room, shut, seen>>

HandlerThrows(d, i) ==
  /\ work[d][i] = "running"
  /\ Phase(d, i, "failing")
  /\ UNCHANGED <<row, circuit, ran, pc, pos, room, shut, seen, finished>>

(* deferWork, after which the handler returns or still throws.              *)
HandlerDefers(d, i, w) ==
  /\ work[d][i] = "running"
  /\ DeferWork(i, w)
  /\ \E p \in {"returned", "failing"} : Phase(d, i, p)
  /\ UNCHANGED <<circuit, ran, pc, pos, room, shut, seen, finished>>

HandlerDeadLetters(d, i) ==
  /\ work[d][i] = "running"
  /\ DeadLetterWork(i)
  /\ Phase(d, i, "returned")
  /\ UNCHANGED <<circuit, ran, pc, pos, room, shut, seen, finished>>

Complete(d, i) ==
  /\ work[d][i] = "returned"
  /\ CompleteWork(i)
  /\ Phase(d, i, "none")
  /\ UNCHANGED <<circuit, ran, pc, pos, room, shut, seen, finished>>

(* completeWork throws and is caught by the same catch as the handler's     *)
(* errors: the finished item goes through failWork.                         *)
CompleteFails(d, i) ==
  /\ Faults
  /\ work[d][i] = "returned"
  /\ Phase(d, i, "failing")
  /\ UNCHANGED <<row, circuit, ran, pc, pos, room, shut, seen, finished>>

FailRead(d, i) ==
  /\ work[d][i] = "failing"
  /\ seen' = [seen EXCEPT ![d][i] = attempt[i]]
  /\ Phase(d, i, "failed")
  /\ UNCHANGED <<row, circuit, ran, pc, pos, room, shut, finished>>

Fail(d, i) ==
  /\ work[d][i] = "failed"
  /\ FailWork(i, seen[d][i])
  /\ Phase(d, i, "none")
  /\ seen' = [seen EXCEPT ![d][i] = 0]
  /\ UNCHANGED <<circuit, ran, pc, pos, room, shut, finished>>

(* failWork itself throws: the row stays 'in_progress' for the watchdog.    *)
FailFails(d, i) ==
  /\ Faults
  /\ work[d][i] \in {"failing", "failed"}
  /\ Phase(d, i, "none")
  /\ seen' = [seen EXCEPT ![d][i] = 0]
  /\ UNCHANGED <<row, circuit, ran, pc, pos, room, shut, finished>>

NextDomain(d) ==
  /\ pc[d] = "work"
  /\ \A i \in Items : work[d][i] = "none"
  /\ NextHandler(d)
  /\ UNCHANGED <<row, circuit, ran, room, work, seen, finished>>

------------------------------------------------------------------------------
(* The environment.                                                         *)

(* The Worker running the invocation is killed: CPU or memory limit,        *)
(* deployment, eviction.                                                    *)
Crash(d) ==
  /\ \/ Crashes = "anywhere" /\ pc[d] # "idle"
     \/ Crashes = "handler" /\ \E i \in Items : work[d][i] = "running"
  /\ pc' = [pc EXCEPT ![d] = "idle"]
  /\ pos' = [pos EXCEPT ![d] = 1]
  /\ room' = [room EXCEPT ![d] = 0]
  /\ shut' = [shut EXCEPT ![d] = {}]
  /\ work' = [work EXCEPT ![d] = [i \in Items |-> "none"]]
  /\ seen' = [seen EXCEPT ![d] = [i \in Items |-> 0]]
  /\ UNCHANGED <<row, circuit, ran, finished>>

OpenCircuit(u) ==
  /\ u \notin circuit
  /\ circuit' = circuit \cup {u}
  /\ UNCHANGED <<row, ran, driver, finished>>

CloseCircuit(u) ==
  /\ u \in circuit
  /\ circuit' = circuit \ {u}
  /\ UNCHANGED <<row, ran, driver, finished>>

(* The next statement of d does not wait for a handler.                     *)
Between(d) ==
  \/ pc[d] \in {"sweep", "domain", "claim"}
  \/ pc[d] = "work" /\ Active(d) = {}
  \/ \E i \in Items : work[d][i] \in {"returned", "failing", "failed"}

(* A minute passes: locks and backoffs run down, and the cron has a new key. *)
Tick ==
  /\ Prompt => \A d \in Drivers : ~Between(d)
  /\ Timely => \A d \in Drivers, i \in Items :
                 work[d][i] = "running" /\ status[i] = "in_progress" => lease[i] > 1
  /\ RunDown
  /\ ran' = FALSE
  /\ UNCHANGED <<circuit, driver, finished>>

------------------------------------------------------------------------------

Step(d) ==
  \/ StartTick(d) \/ SweepFails(d) \/ ReadCircuits(d)
  \/ CountActive(d) \/ Claim(d) \/ ClaimFails(d)
  \/ StartGroup(d) \/ NextDomain(d)
  \/ \E i \in Items :
       \/ SweepRow(d, i)
       \/ Heartbeat(d, i)
       \/ HandlerReturns(d, i) \/ HandlerThrows(d, i) \/ HandlerDeadLetters(d, i)
       \/ \E w \in DeferDelays[Domain[i]] : HandlerDefers(d, i, w)
       \/ Complete(d, i) \/ CompleteFails(d, i)
       \/ FailRead(d, i) \/ Fail(d, i) \/ FailFails(d, i)

Next ==
  \/ \E i \in Items, w \in EnqueueDelays : Enqueue(i, w)
  \/ \E d \in Drivers : Step(d)
  \/ \E d \in Drivers : Crash(d)
  \/ \E u \in Upstreams : OpenCircuit(u) \/ CloseCircuit(u)
  \/ Tick

Spec == Init /\ [][Next]_vars

(* Fairness: a Worker that is not killed makes progress, time passes, the   *)
(* cron fires, heartbeats arrive, and a handler ends one way or another; it *)
(* does not put its row off for ever, since the quotas it defers to are     *)
(* renewed.                                                                 *)
Fairness ==
  /\ WF_vars(Tick)
  /\ WF_vars(\E d \in Crons : StartTick(d))
  /\ \A d \in Drivers :
       /\ WF_vars(ReadCircuits(d))
       /\ WF_vars(CountActive(d))
       /\ WF_vars(Claim(d))
       /\ WF_vars(StartGroup(d))
       /\ WF_vars(NextDomain(d))
       /\ \A i \in Items :
            /\ WF_vars(SweepRow(d, i))
            /\ WF_vars(Heartbeat(d, i))
            /\ SF_vars(HandlerReturns(d, i) \/ HandlerThrows(d, i))
            /\ WF_vars(Complete(d, i))
            /\ WF_vars(FailRead(d, i))
            /\ WF_vars(Fail(d, i))

FairSpec == Spec /\ Fairness

------------------------------------------------------------------------------
(* What the queue promises.                                                 *)

(* A claim of a slim domain fits into one slice of processConcurrency rows, *)
(* by its limit or by its cap: no row of it waits, without a heartbeat, for *)
(* other rows' handlers.  A steady one besides does not hand a row back to  *)
(* be claimed before its own completeWork.                                  *)
Slim(k) ==
  \/ Limit[k] <= Concurrency[k]
  \/ k \in Capped /\ MaxConcurrent[k] <= Concurrency[k]

Steady(k) == Slim(k) /\ 0 \notin DeferDelays[k]

SteadyItems == {i \in Items : Steady(Domain[i])}

RunAlone(S) ==
  \A d \in Drivers, i \in S : work[d][i] = "running" =>
    /\ status[i] = "in_progress"
    /\ \A e \in Drivers : work[e][i] = "running" => e = d

DoneIsFinished(S) == \A i \in S : status[i] = "completed" => i \in finished

(* A row of a steady domain is run by one invocation at a time and is       *)
(* 'in_progress' while it is run, whatever the other domains of the         *)
(* registry do: the claim, the heartbeat and the watchdog together.         *)
SingleExecution == RunAlone(SteadyItems)

(* A row of a steady domain is 'completed' only if some handler finished    *)
(* its work: the filter of completeWork keeps it from closing a row that    *)
(* its handler dead-lettered or put off.                                    *)
NoGhostCompletion == DoneIsFinished(SteadyItems)

(* The same of every domain.  It is what the comment on the deferral of     *)
(* firefly-window.ts relies on ("completeWork (filtered to in_progress) is  *)
(* a no-op once this transitions out of in_progress"), and what a claim of  *)
(* more rows than are processed at once does not keep to.                   *)
AllRunAlone == RunAlone(Items)
AllDoneFinished == DoneIsFinished(Items)

(* Ticks that count the rows of a domain together, each before the others   *)
(* claim, overrun its maxConcurrent, but by no more than it allows each of  *)
(* them; in the domain the registry names first, the cron's ticks keep it.  *)
ConcurrencyCap ==
  /\ 1 \in Capped /\ Admins = {} => ActiveCount(1) <= MaxConcurrent[1]
  /\ \A k \in Capped : ActiveCount(k) <= MaxConcurrent[k] * Cardinality(Drivers)

(* No more rows of a domain are 'in_progress' than its maxConcurrent, as    *)
(* the driver's comment on the field has it.                                *)
EveryCapKept == \A k \in Capped : ActiveCount(k) <= MaxConcurrent[k]

(* While no statement fails, a handler of a steady domain that finished is  *)
(* not run again; a Worker killed in a handler takes none with it that has  *)
(* returned, if handlers of that domain run one at a time.                  *)
OnceItems ==
  {i \in SteadyItems : Crashes = "never" \/ Concurrency[Domain[i]] = 1}

NoRepeat ==
  [][\A d \in Drivers, i \in OnceItems :
       work[d][i] # "running" /\ work'[d][i] = "running" => i \notin finished]_vars

(* Every item that enters the queue is eventually completed or dead, even   *)
(* if its handler keeps crashing the Worker: the watchdog charges it an     *)
(* attempt each time.                                                       *)
Settles ==
  \A i \in Items : status[i] = "pending" ~> status[i] \in Terminal

(* A row released by the watchdog can be claimed at once, as the comment on *)
(* sweepStaleClaims has it ("so a just-released row is eligible for         *)
(* re-claim in the same tick").                                             *)
ReleasedIsClaimable ==
  [][\A d \in Drivers, i \in Items :
       SweepRow(d, i) /\ status'[i] = "pending" => wait'[i] = 0]_vars

(* An item is not claimed while the breaker of the upstream its handler     *)
(* charges was open when the tick looked: recordRateLimit opens a circuit   *)
(* under the ledger's name, claimNextBatch compares the row's.              *)
ClaimsRespectBreaker ==
  [][\A d \in Drivers, i \in Items :
       work[d][i] = "none" /\ work'[d][i] = "queued"
         => Spends[i] \notin shut[d]]_vars
=============================================================================
