-------------------------- MODULE WorkQueueRowsProofs --------------------------
(***************************************************************************)
(* What the statements of WorkQueueRows do to a row, for whoever issues    *)
(* them: the columns stay typed, the retry budget is kept, a snapshot read *)
(* by a sweep stays usable, each is one step of JobQueue or none, and only *)
(* a claim raises the number of a domain's rows in progress, by its LIMIT. *)
(***************************************************************************)
EXTENDS WorkQueueRows, FiniteSetTheorems, TLAPS

(* A transition of one row keeps the columns typed.                         *)
LEMMA LeaveType ==
  ASSUME RowTypeOK, NEW i \in Items, NEW s \in Statuses, NEW a \in Nat, NEW w \in Nat,
         Leave(i, s, a, w)
  PROVE  RowTypeOK'
BY DEF RowTypeOK, Leave, Statuses, NoLease

LEMMA BackoffType ==
  ASSUME NEW a \in Nat
  PROVE  Backoff(a) \in Nat \ {0}
BY WorkQueueRowsAssumption DEF Backoff

LEMMA UnchangedRow == RowTypeOK /\ UNCHANGED row => RowTypeOK'
BY DEF RowTypeOK, row

(* The five guarded transitions keep the columns typed.                     *)
LEMMA TransitionType ==
  ASSUME RowTypeOK, NEW i \in Items, NEW a \in Nat, NEW w \in Nat
  PROVE  /\ CompleteWork(i) => RowTypeOK'
         /\ DeferWork(i, w) => RowTypeOK'
         /\ DeadLetterWork(i) => RowTypeOK'
         /\ FailWork(i, a) => RowTypeOK'
         /\ SweepRelease(i, a) => RowTypeOK'
<1>1. attempt[i] \in Nat /\ attempt[i] + 1 \in Nat /\ a + 1 \in Nat
  BY DEF RowTypeOK
<1>2. Backoff(a) \in Nat
  BY BackoffType
<1>3. {"pending", "completed", "dead_letter"} \subseteq Statuses
  BY DEF Statuses
<1>4. CompleteWork(i) => RowTypeOK'
  BY <1>1, <1>3, LeaveType, UnchangedRow DEF CompleteWork, IfInProgress
<1>5. DeferWork(i, w) => RowTypeOK'
  BY <1>1, <1>3, LeaveType, UnchangedRow DEF DeferWork, IfInProgress
<1>6. DeadLetterWork(i) => RowTypeOK'
  BY <1>1, <1>3, LeaveType, UnchangedRow DEF DeadLetterWork, IfInProgress
<1>7. FailWork(i, a) => RowTypeOK'
  BY <1>1, <1>2, <1>3, LeaveType, UnchangedRow DEF FailWork, IfInProgress
<1>8. SweepRelease(i, a) => RowTypeOK'
  BY <1>1, <1>2, <1>3, LeaveType, UnchangedRow DEF SweepRelease, IfInProgress
<1>9. QED
  BY <1>4, <1>5, <1>6, <1>7, <1>8

------------------------------------------------------------------------------
(* The retry budget.                                                        *)

(* What AttemptBudget says of a row with status s, attempt a, maximum m.    *)
RowBudget(s, a, m) ==
  /\ a <= m
  /\ s \in {"pending", "in_progress"} => a < m

(* A transition of one row touches no other row's budget.                   *)
LEMMA LeaveBudget ==
  ASSUME RowTypeOK, AttemptBudget, NEW i \in Items, NEW s, NEW a, NEW w,
         Leave(i, s, a, w), RowBudget(s, a, MaxAttempts[i])
  PROVE  AttemptBudget'
BY DEF RowTypeOK, AttemptBudget, RowBudget, Leave

LEMMA UnchangedBudget ==
  AttemptBudget /\ UNCHANGED <<status, attempt>> => AttemptBudget'
BY DEF AttemptBudget

(* Each guarded transition keeps the budget, the sweep's provided that the  *)
(* attempt it read is below max_attempts.                                   *)
LEMMA TransitionBudget ==
  ASSUME RowTypeOK, AttemptBudget, NEW i \in Items, NEW a \in Nat, NEW w \in Nat
  PROVE  /\ CompleteWork(i) => AttemptBudget'
         /\ DeferWork(i, w) => AttemptBudget'
         /\ DeadLetterWork(i) => AttemptBudget'
         /\ FailWork(i, a) => AttemptBudget'
         /\ a < MaxAttempts[i] /\ SweepRelease(i, a) => AttemptBudget'
<1>1. attempt[i] \in Nat /\ MaxAttempts[i] \in Nat
  BY WorkQueueRowsAssumption DEF RowTypeOK
<1>2. UNCHANGED row => AttemptBudget'
  BY UnchangedBudget DEF row
<1>3. status[i] = "in_progress" => attempt[i] < MaxAttempts[i]
  BY DEF AttemptBudget
<1>4. CompleteWork(i) => AttemptBudget'
  BY <1>1, <1>2, <1>3, LeaveBudget DEF CompleteWork, IfInProgress, RowBudget
<1>5. DeferWork(i, w) => AttemptBudget'
  BY <1>1, <1>2, <1>3, LeaveBudget DEF DeferWork, IfInProgress, RowBudget
<1>6. DeadLetterWork(i) => AttemptBudget'
  BY <1>1, <1>2, <1>3, LeaveBudget DEF DeadLetterWork, IfInProgress, RowBudget
<1>7. FailWork(i, a) => AttemptBudget'
  BY <1>1, <1>2, <1>3, LeaveBudget DEF FailWork, IfInProgress, RowBudget
<1>8. a < MaxAttempts[i] /\ SweepRelease(i, a) => AttemptBudget'
  BY <1>1, <1>2, <1>3, LeaveBudget DEF SweepRelease, IfInProgress, RowBudget
<1>9. QED
  BY <1>4, <1>5, <1>6, <1>7, <1>8

------------------------------------------------------------------------------
(* Snapshots.                                                               *)

(* What a sweep that read attempt r knows of a row.                         *)
AsRead(s, a, w, r) ==
  /\ s # "absent"
  /\ s \in {"pending", "in_progress"} => a = r \/ (s = "pending" /\ w > 0)

(* A step that leaves every row as fresh as it was.                         *)
KeepsFresh ==
  \A i \in Items : \A r \in Nat :
    AsRead(status[i], attempt[i], wait[i], r) => AsRead(status'[i], attempt'[i], wait'[i], r)

LEMMA UnchangedFresh == UNCHANGED <<status, attempt, wait>> => KeepsFresh
BY DEF KeepsFresh

LEMMA LeaveFresh ==
  ASSUME RowTypeOK, NEW i \in Items, NEW s \in Statuses, NEW a \in Nat, NEW w \in Nat,
         Leave(i, s, a, w), status[i] = "in_progress",
         \/ s \in Terminal
         \/ s = "pending" /\ (w > 0 \/ a = attempt[i])
  PROVE  KeepsFresh
BY DEF RowTypeOK, KeepsFresh, AsRead, Leave, Terminal

LEMMA TransitionFresh ==
  ASSUME RowTypeOK, NEW i \in Items, NEW a \in Nat, NEW w \in Nat
  PROVE  /\ CompleteWork(i) => KeepsFresh
         /\ DeferWork(i, w) => KeepsFresh
         /\ DeadLetterWork(i) => KeepsFresh
         /\ FailWork(i, a) => KeepsFresh
         /\ SweepRelease(i, a) => KeepsFresh
<1>1. /\ attempt[i] \in Nat /\ attempt[i] + 1 \in Nat /\ a + 1 \in Nat
      /\ Backoff(a) \in Nat /\ Backoff(a) > 0
      /\ {"pending", "completed", "dead_letter"} \subseteq Statuses
  BY BackoffType DEF RowTypeOK, Statuses
<1>2. UNCHANGED row => KeepsFresh
  BY UnchangedFresh DEF row
<1>3. CompleteWork(i) => KeepsFresh
  BY <1>1, <1>2, LeaveFresh DEF CompleteWork, IfInProgress, Terminal
<1>4. DeferWork(i, w) => KeepsFresh
  BY <1>1, <1>2, LeaveFresh DEF DeferWork, IfInProgress, Terminal
<1>5. DeadLetterWork(i) => KeepsFresh
  BY <1>1, <1>2, LeaveFresh DEF DeadLetterWork, IfInProgress, Terminal
<1>6. FailWork(i, a) => KeepsFresh
  BY <1>1, <1>2, LeaveFresh DEF FailWork, IfInProgress, Terminal
<1>7. SweepRelease(i, a) => KeepsFresh
  BY <1>1, <1>2, LeaveFresh DEF SweepRelease, IfInProgress, Terminal
<1>8. QED
  BY <1>3, <1>4, <1>5, <1>6, <1>7

------------------------------------------------------------------------------
(* JobQueue.                                                                *)

Mapped == [Jobs!Next]_Jobs!jobVars

LEMMA UnchangedMapped == UNCHANGED <<status, attempt>> => Mapped
BY DEF Mapped, Jobs!jobVars

(* Each transition of work-queue.ts is one action of JobQueue or none.      *)
LEMMA TransitionMapped ==
  ASSUME RowTypeOK, AttemptBudget, NEW i \in Items, NEW a \in Nat, NEW w \in Nat
  PROVE  /\ CompleteWork(i) => Mapped
         /\ DeferWork(i, w) => Mapped
         /\ DeadLetterWork(i) => Mapped
         /\ FailWork(i, a) => Mapped
         /\ (status[i] = "in_progress" => a = attempt[i]) /\ SweepRelease(i, a) => Mapped
<1>1. attempt[i] \in Nat /\ MaxAttempts[i] \in Nat
  BY WorkQueueRowsAssumption DEF RowTypeOK
<1>2. UNCHANGED row => Mapped
  BY UnchangedMapped DEF row
<1>3. status[i] = "in_progress" => attempt[i] + 1 <= MaxAttempts[i]
  BY <1>1 DEF AttemptBudget
<1>4. CompleteWork(i) => Mapped
  <2>1. CompleteWork(i) /\ status[i] = "in_progress" => Jobs!Finish(i)
    BY <1>1 DEF CompleteWork, IfInProgress, Leave, Jobs!Finish, RowTypeOK
  <2>2. QED
    BY <1>2, <2>1 DEF CompleteWork, IfInProgress, Mapped, Jobs!Next
<1>5. DeferWork(i, w) => Mapped
  <2>1. DeferWork(i, w) /\ status[i] = "in_progress" => Jobs!Release(i)
    BY <1>1 DEF DeferWork, IfInProgress, Leave, Jobs!Release, RowTypeOK
  <2>2. QED
    BY <1>2, <2>1 DEF DeferWork, IfInProgress, Mapped, Jobs!Next
<1>6. DeadLetterWork(i) => Mapped
  <2>1. DeadLetterWork(i) /\ status[i] = "in_progress" => Jobs!GiveUp(i)
    BY <1>1, <1>3 DEF DeadLetterWork, IfInProgress, Leave, Jobs!GiveUp
  <2>2. QED
    BY <1>2, <2>1 DEF DeadLetterWork, IfInProgress, Mapped, Jobs!Next
<1>7. FailWork(i, a) => Mapped
  <2>1. FailWork(i, a) /\ status[i] = "in_progress" => Jobs!Charge(i)
    BY <1>1, <1>3 DEF FailWork, IfInProgress, Leave, Jobs!Charge
  <2>2. QED
    BY <1>2, <2>1 DEF FailWork, IfInProgress, Mapped, Jobs!Next
<1>8. (status[i] = "in_progress" => a = attempt[i]) /\ SweepRelease(i, a) => Mapped
  <2>1. (a = attempt[i]) /\ SweepRelease(i, a) /\ status[i] = "in_progress" => Jobs!Charge(i)
    BY <1>1, <1>3 DEF SweepRelease, IfInProgress, Leave, Jobs!Charge
  <2>2. QED
    BY <1>2, <2>1 DEF SweepRelease, IfInProgress, Mapped, Jobs!Next
<1>9. QED
  BY <1>4, <1>5, <1>6, <1>7, <1>8

------------------------------------------------------------------------------
(* The rows of a domain in progress, and what a step does to their number.  *)

ActiveRows(k) == {i \in Items : Domain[i] = k /\ status[i] = "in_progress"}

LEMMA ActiveFinite ==
  \A k : /\ IsFiniteSet(ActiveRows(k)) /\ ActiveCount(k) = Cardinality(ActiveRows(k))
         /\ ActiveCount(k) \in Nat
<1> TAKE k
<1>1. IsFiniteSet(ActiveRows(k))
  BY WorkQueueRowsAssumption, FS_Subset DEF ActiveRows
<1>2. ActiveCount(k) = Cardinality(ActiveRows(k))
  BY Zenon DEF ActiveCount, ActiveRows
<1> QED
  BY <1>1, <1>2, FS_CardinalityType

LEMMA ActiveFiniteNext ==
  \A k : /\ IsFiniteSet(ActiveRows(k)') /\ ActiveCount(k)' = Cardinality(ActiveRows(k)')
         /\ ActiveCount(k)' \in Nat
<1> TAKE k
<1>1. IsFiniteSet(ActiveRows(k)')
  BY WorkQueueRowsAssumption, FS_Subset DEF ActiveRows
<1>2. ActiveCount(k)' = Cardinality(ActiveRows(k)')
  BY Zenon DEF ActiveCount, ActiveRows
<1> QED
  BY <1>1, <1>2, FS_CardinalityType

LEMMA ActiveDrops ==
  ASSUME NEW k, ActiveRows(k)' \subseteq ActiveRows(k)
  PROVE  ActiveCount(k)' <= ActiveCount(k)
<1>1. Cardinality(ActiveRows(k)') <= Cardinality(ActiveRows(k))
  BY ActiveFinite, FS_Subset
<1> QED
  BY <1>1, ActiveFinite, ActiveFiniteNext

(* A claim of at most n rows adds at most n.                                *)
LEMMA ActiveGrows ==
  ASSUME NEW k, NEW closed, NEW n \in Nat, NEW batch \in SUBSET Items,
         IsFirst(batch, Claimable(k, closed), n), ClaimRows(batch)
  PROVE  ActiveCount(k)' <= ActiveCount(k) + n
<1>1. IsFiniteSet(batch)
  BY WorkQueueRowsAssumption, FS_Subset
<1>2. Cardinality(batch) \in Nat /\ Cardinality(batch) <= n
  BY <1>1, FS_CardinalityType DEF IsFirst
<1>3. ActiveRows(k)' \subseteq ActiveRows(k) \cup batch
  BY DEF ClaimRows, ActiveRows
<1>4. IsFiniteSet(ActiveRows(k)) /\ IsFiniteSet(ActiveRows(k) \cap batch)
  BY <1>1, ActiveFinite, FS_Subset
<1>5. /\ IsFiniteSet(ActiveRows(k) \cup batch)
      /\ Cardinality(ActiveRows(k) \cup batch) =
           Cardinality(ActiveRows(k)) + Cardinality(batch)
             - Cardinality(ActiveRows(k) \cap batch)
      /\ Cardinality(ActiveRows(k) \cap batch) \in Nat
  BY <1>1, <1>4, FS_Union, FS_CardinalityType
<1>6. Cardinality(ActiveRows(k)') <= Cardinality(ActiveRows(k) \cup batch)
  BY <1>3, <1>5, FS_Subset
<1> QED
  BY <1>2, <1>5, <1>6, ActiveFinite, ActiveFiniteNext

LEMMA OneGrows ==
  ASSUME NEW k, NEW i \in Items, ClaimRows({i})
  PROVE  ActiveCount(k)' <= ActiveCount(k) + 1
<1>1. ActiveRows(k)' \subseteq ActiveRows(k) \cup {i}
  BY DEF ClaimRows, ActiveRows
<1>2. /\ IsFiniteSet(ActiveRows(k) \cup {i})
      /\ \/ Cardinality(ActiveRows(k) \cup {i}) = Cardinality(ActiveRows(k))
         \/ Cardinality(ActiveRows(k) \cup {i}) = Cardinality(ActiveRows(k)) + 1
  BY ActiveFinite, FS_AddElement
<1>3. Cardinality(ActiveRows(k)') <= Cardinality(ActiveRows(k) \cup {i})
  BY <1>1, <1>2, FS_Subset
<1> QED
  BY <1>2, <1>3, ActiveFinite, ActiveFiniteNext
=============================================================================
