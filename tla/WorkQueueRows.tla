----------------------------- MODULE WorkQueueRows -----------------------------
(***************************************************************************)
(* The rows of work_queue and the statements that src/lib/work-queue.ts    *)
(* runs on them.  A D1 statement is atomic, so each is one formula; the    *)
(* modules of the programs that issue them say in which order.             *)
(*                                                                         *)
(* Timestamps are countdowns in minutes: wait[i] is the time left until    *)
(* next_attempt_at, lease[i] the time left until the watchdog may take the *)
(* row back (locked_until plus STALE_CLAIM_GRACE_MS).                      *)
(***************************************************************************)
EXTENDS Integers, FiniteSets

CONSTANTS
  Items,         \* work items, each a (domain, idempotency_key) pair
  NumDomains,    \* length of WORK_QUEUE_HANDLERS; a domain is its index
  Domain,        \* Domain[i]: the domain column
  Priority,      \* Priority[i]: the priority column
  MaxAttempts,   \* MaxAttempts[i]: the max_attempts column
  Upstream,      \* Upstream[i]: the upstream column
  LeaseLen,      \* DEFAULT_LOCK_TTL_MS + STALE_CLAIM_GRACE_MS
  FirstBackoff,  \* RETRY_BACKOFF_MS[0]
  LaterBackoff   \* RETRY_BACKOFF_MS[1]

NoLease == -1

ASSUME WorkQueueRowsAssumption ==
  /\ IsFiniteSet(Items)
  /\ NumDomains \in Nat \ {0}
  /\ Domain \in [Items -> 1..NumDomains]
  /\ Priority \in [Items -> Int]
  /\ MaxAttempts \in [Items -> Nat \ {0}]
  /\ LeaseLen \in Nat \ {0}
  /\ FirstBackoff \in Nat \ {0}
  /\ LaterBackoff \in Nat \ {0}

VARIABLES
  status, attempt, wait, lease   \* the columns of work_queue

row == <<status, attempt, wait, lease>>

Statuses == {"absent", "pending", "in_progress", "completed", "dead_letter"}
Terminal == {"completed", "dead_letter"}

RowTypeOK ==
  /\ status \in [Items -> Statuses]
  /\ attempt \in [Items -> Nat]
  /\ wait \in [Items -> Nat]
  /\ lease \in [Items -> Nat \cup {NoLease}]

RowInit ==
  /\ status = [i \in Items |-> "absent"]
  /\ attempt = [i \in Items |-> 0]
  /\ wait = [i \in Items |-> 0]
  /\ lease = [i \in Items |-> NoLease]

------------------------------------------------------------------------------

(* The row transitions of work-queue.ts, each one statement.               *)

Backoff(a) == IF a = 0 THEN FirstBackoff ELSE LaterBackoff

(* The row leaves 'in_progress' for s, with attempt a and, if it goes back *)
(* to the queue, delay w.                                                  *)
Leave(i, s, a, w) ==
  /\ status' = [status EXCEPT ![i] = s]
  /\ attempt' = [attempt EXCEPT ![i] = a]
  /\ wait' = [wait EXCEPT ![i] = IF s = "pending" THEN w ELSE 0]
  /\ lease' = [lease EXCEPT ![i] = NoLease]

(* Every transition but the claim is filtered on status = 'in_progress',   *)
(* and by nothing that tells one claim of the row from another.            *)
IfInProgress(i, Transition) ==
  IF status[i] = "in_progress" THEN Transition ELSE UNCHANGED row

(* Mutant: completeWork without its filter on status.                       *)
CompleteWorkUnfiltered(i) == Leave(i, "completed", attempt[i], 0)

CompleteWork(i) ==
  IfInProgress(i, Leave(i, "completed", attempt[i], 0))

DeferWork(i, w) ==
  IfInProgress(i, Leave(i, "pending", attempt[i], w))

DeadLetterWork(i) ==
  IfInProgress(i, Leave(i, "dead_letter", attempt[i] + 1, 0))

(* Mutant: failWork allows one attempt too many.                            *)
FailWorkOffByOne(i, read) ==
  IfInProgress(i,
    Leave(i,
          IF attempt[i] + 1 > MaxAttempts[i] THEN "dead_letter" ELSE "pending",
          attempt[i] + 1,
          Backoff(read)))

(* failWork's UPDATE: the outcome is decided by the attempt of the row now, *)
(* the backoff by the attempt its SELECT read.                              *)
FailWork(i, read) ==
  IfInProgress(i,
    Leave(i,
          IF attempt[i] + 1 >= MaxAttempts[i] THEN "dead_letter" ELSE "pending",
          attempt[i] + 1,
          Backoff(read)))

(* Mutant: the watchdog's UPDATE without its filter on status.              *)
SweepReleaseUnfiltered(i, read) ==
  Leave(i,
        IF read + 1 >= MaxAttempts[i] THEN "dead_letter" ELSE "pending",
        read + 1,
        Backoff(read))

(* One UPDATE of sweepStaleClaims: outcome, attempt and backoff all come    *)
(* from the attempt its SELECT read, and the lock is not looked at again.   *)
SweepRelease(i, read) ==
  IfInProgress(i,
    Leave(i,
          IF read + 1 >= MaxAttempts[i] THEN "dead_letter" ELSE "pending",
          read + 1,
          Backoff(read)))

RecordHeartbeat(i) ==
  /\ lease' = [lease EXCEPT ![i] = IF status[i] = "in_progress"
                                     THEN LeaseLen ELSE lease[i]]
  /\ UNCHANGED <<status, attempt, wait>>

(* Mutants: the watchdog ignores locked_until; it finds nothing.            *)
StaleClaimsAnyLock == {i \in Items : status[i] = "in_progress"}
StaleClaimsNone == {}

StaleClaims == {i \in Items : status[i] = "in_progress" /\ lease[i] = 0}

ActiveCount(k) ==
  Cardinality({i \in Items : Domain[i] = k /\ status[i] = "in_progress"})

Claimable(k, closed) ==
  {i \in Items : /\ Domain[i] = k
                 /\ status[i] = "pending"
                 /\ wait[i] = 0
                 /\ Upstream[i] \notin closed}

(* ORDER BY priority DESC, created_at ASC LIMIT n; rows of one priority are *)
(* taken in any order.                                                      *)
IsFirst(batch, candidates, n) ==
  /\ batch \subseteq candidates
  /\ \/ batch = candidates /\ Cardinality(batch) <= n
     \/ Cardinality(batch) = n
  /\ \A i \in batch, j \in candidates \ batch : Priority[i] >= Priority[j]

ClaimRows(batch) ==
  /\ status' = [i \in Items |-> IF i \in batch THEN "in_progress" ELSE status[i]]
  /\ lease' = [i \in Items |-> IF i \in batch THEN LeaseLen ELSE lease[i]]
  /\ UNCHANGED <<attempt, wait>>

(* enqueueWork; on a conflict with an existing row it changes nothing.      *)
Insert(i, w) ==
  /\ status[i] = "absent"
  /\ status' = [status EXCEPT ![i] = "pending"]
  /\ attempt' = [attempt EXCEPT ![i] = 0]
  /\ wait' = [wait EXCEPT ![i] = w]
  /\ UNCHANGED lease

(* A minute passes.                                                         *)
RunDown ==
  /\ wait' = [i \in Items |-> IF wait[i] > 0 THEN wait[i] - 1 ELSE 0]
  /\ lease' = [i \in Items |-> IF lease[i] > 0 THEN lease[i] - 1 ELSE lease[i]]
  /\ UNCHANGED <<status, attempt>>

------------------------------------------------------------------------------

(* The retry budget is never overdrawn, and a row that can still be run has *)
(* some of it left: failWork's and sweepStaleClaims' "attempt + 1 >=        *)
(* max_attempts" decisions, taken by two parties on possibly stale reads.   *)
AttemptBudget ==
  \A i \in Items :
    /\ attempt[i] <= MaxAttempts[i]
    /\ status[i] \in {"pending", "in_progress"} => attempt[i] < MaxAttempts[i]

(* The queue as its producers see it.                                       *)
Jobs == INSTANCE JobQueue
  WITH Jobs <- Items, Budget <- MaxAttempts, state <- status, tries <- attempt

(* Whatever its drainers do, the table keeps the promise of JobQueue.       *)
JobQueueSpec == Jobs!Spec
=============================================================================
