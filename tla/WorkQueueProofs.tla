--------------------------- MODULE WorkQueueProofs ---------------------------
(***************************************************************************)
(* Theorems about WorkQueue, for every value of its constants.             *)
(*                                                                         *)
(* The retry budget: AttemptBudget is inductive once it is known that the  *)
(* attempt a sweep has read is below the row's max_attempts (ReadBound),   *)
(* because the sweep writes the attempt it read plus one, whatever the row *)
(* has become meanwhile.                                                   *)
(***************************************************************************)
EXTENDS WorkQueue, WorkQueueRowsProofs, FiniteSetTheorems

DriverType ==
  /\ pc \in [Drivers -> {"idle", "sweep", "domain", "claim", "work"}]
  /\ pos \in [Drivers -> 1..NumDomains]
  /\ room \in [Drivers -> Nat]
  /\ shut \in [Drivers -> SUBSET Upstreams]
  /\ work \in [Drivers -> [Items -> Phases]]
  /\ seen \in [Drivers -> [Items -> Nat]]

RestType ==
  /\ circuit \subseteq Upstreams
  /\ ran \in BOOLEAN
  /\ finished \subseteq Items

------------------------------------------------------------------------------
(* Type correctness.                                                        *)

LEMMA TypeParts == TypeOK <=> RowTypeOK /\ DriverType /\ RestType
BY DEF TypeOK, RowTypeOK, DriverType, RestType

LEMMA DefersType == \A i \in Items : \A w \in DeferDelays[Domain[i]] : w \in Nat
BY WorkQueueRowsAssumption, WorkQueueAssumption

LEMMA TypeInit == Init => TypeOK
<1> SUFFICES ASSUME Init PROVE TypeOK
  OBVIOUS
<1>1. RowTypeOK /\ RestType
  BY DEF Init, RowInit, RowTypeOK, RestType, Statuses, NoLease
<1>2. DriverType
  BY WorkQueueRowsAssumption, WorkQueueAssumption DEF Init, RowInit, DriverType, Phases
<1>3. QED
  BY <1>1, <1>2, TypeParts

(* The loop over the handlers stays within the registry.                    *)
LEMMA NextHandlerType ==
  ASSUME DriverType, NEW d \in Drivers, NextHandler(d)
  PROVE  /\ pos' \in [Drivers -> 1..NumDomains]
         /\ pc' \in [Drivers -> {"idle", "sweep", "domain", "claim", "work"}]
         /\ shut' \in [Drivers -> SUBSET Upstreams]
<1>1. pos[d] \in 1..NumDomains /\ NumDomains \in Nat \ {0}
  BY WorkQueueRowsAssumption, WorkQueueAssumption DEF DriverType
<1>2. CASE pos[d] < NumDomains
  <2>1. pos[d] + 1 \in 1..NumDomains
    BY <1>1, <1>2
  <2>2. QED
    BY <1>2, <2>1 DEF DriverType, NextHandler
<1>3. CASE ~(pos[d] < NumDomains)
  <2>1. 1 \in 1..NumDomains
    BY <1>1
  <2>2. QED
    BY <1>3, <2>1 DEF DriverType, NextHandler
<1>4. QED
  BY <1>2, <1>3

LEMMA PhaseType ==
  ASSUME DriverType, NEW d \in Drivers, NEW i \in Items, NEW p \in Phases,
         Phase(d, i, p)
  PROVE  work' \in [Drivers -> [Items -> Phases]]
BY DEF DriverType, Phase

LEMMA TypeStep ==
  ASSUME TypeOK, [Next]_vars
  PROVE  TypeOK'
<1> SUFFICES RowTypeOK' /\ DriverType' /\ RestType'
  BY DEF TypeOK, RowTypeOK, DriverType, RestType
<1>0. RowTypeOK /\ DriverType /\ RestType
  BY TypeParts
<1>1. ASSUME NEW i \in Items, NEW w \in EnqueueDelays, Enqueue(i, w)
      PROVE  RowTypeOK' /\ DriverType' /\ RestType'
  <2>1. w \in Nat
    BY WorkQueueRowsAssumption, WorkQueueAssumption
  <2>2. QED
    BY <1>0, <1>1, <2>1
    DEF Enqueue, Insert, driver, RowTypeOK, DriverType, RestType, Statuses
<1>2. ASSUME NEW d \in Drivers, StartTick(d)
      PROVE  RowTypeOK' /\ DriverType' /\ RestType'
  BY <1>0, <1>2
  DEF StartTick, StaleClaims, row, RowTypeOK, DriverType, RestType, Phases
<1>3. ASSUME NEW d \in Drivers, SweepFails(d)
      PROVE  RowTypeOK' /\ DriverType' /\ RestType'
  BY <1>0, <1>3 DEF SweepFails, row, RowTypeOK, DriverType, RestType, Phases
<1>4. ASSUME NEW d \in Drivers, ReadCircuits(d)
      PROVE  RowTypeOK' /\ DriverType' /\ RestType'
  BY <1>0, <1>4 DEF ReadCircuits, row, RowTypeOK, DriverType, RestType
<1>5. ASSUME NEW d \in Drivers, CountActive(d)
      PROVE  RowTypeOK' /\ DriverType' /\ RestType'
  <2>1. ActiveCount(pos[d]) \in Nat
    BY WorkQueueRowsAssumption, WorkQueueAssumption, FS_Subset, FS_CardinalityType DEF ActiveCount
  <2>2. /\ pos[d] \in 1..NumDomains
        /\ Limit[pos[d]] \in Nat
        /\ MaxConcurrent[pos[d]] \in Nat
    BY <1>0, <1>5, WorkQueueRowsAssumption, WorkQueueAssumption DEF DriverType, CountActive
  <2>3. RowTypeOK' /\ RestType' /\ UNCHANGED <<work, seen>>
    BY <1>0, <1>5 DEF CountActive, row, RowTypeOK, RestType
  <2>4. CASE MaxConcurrent[pos[d]] - ActiveCount(pos[d]) <= 0
    <3>1. NextHandler(d) /\ UNCHANGED room
      BY <1>5, <2>4 DEF CountActive
    <3>2. QED
      BY <1>0, <2>3, <3>1, NextHandlerType DEF DriverType
  <2>5. CASE ~(MaxConcurrent[pos[d]] - ActiveCount(pos[d]) <= 0)
    <3> DEFINE available == MaxConcurrent[pos[d]] - ActiveCount(pos[d])
               n == IF available < Limit[pos[d]] THEN available ELSE Limit[pos[d]]
    <3>1. n \in Nat
      BY <2>1, <2>2, <2>5
    <3>2. /\ pc' = [pc EXCEPT ![d] = "claim"]
          /\ room' = [room EXCEPT ![d] = n]
          /\ UNCHANGED <<pos, shut>>
      BY <1>5, <2>5 DEF CountActive
    <3> HIDE DEF n
    <3>3. QED
      BY <1>0, <2>3, <3>1, <3>2 DEF DriverType
  <2>6. QED
    BY <2>3, <2>4, <2>5
<1>6. ASSUME NEW d \in Drivers, Claim(d)
      PROVE  RowTypeOK' /\ DriverType' /\ RestType'
  <2>1. PICK batch \in SUBSET Claimable(pos[d], shut[d]) :
          /\ ClaimRows(batch)
          /\ work' = [work EXCEPT ![d] =
               [i \in Items |-> IF i \in batch THEN "queued" ELSE "none"]]
    BY <1>6 DEF Claim
  <2>2. RowTypeOK'
    BY <1>0, <2>1, WorkQueueRowsAssumption, WorkQueueAssumption DEF ClaimRows, RowTypeOK, Statuses
  <2>3. work' \in [Drivers -> [Items -> Phases]]
    BY <1>0, <2>1 DEF DriverType, Phases
  <2>4. QED
    BY <1>0, <1>6, <2>2, <2>3 DEF Claim, DriverType, RestType
<1>7. ASSUME NEW d \in Drivers, ClaimFails(d)
      PROVE  RowTypeOK' /\ DriverType' /\ RestType'
  <2>1. RowTypeOK' /\ RestType'
    BY <1>0, <1>7 DEF ClaimFails, row, RowTypeOK, RestType
  <2>2. NextHandler(d)
    BY <1>7 DEF ClaimFails
  <2>3. QED
    BY <1>0, <1>7, <2>1, <2>2, NextHandlerType DEF ClaimFails, DriverType
<1>8. ASSUME NEW d \in Drivers, StartGroup(d)
      PROVE  RowTypeOK' /\ DriverType' /\ RestType'
  BY <1>0, <1>8 DEF StartGroup, row, RowTypeOK, DriverType, RestType, Phases
<1>9. ASSUME NEW d \in Drivers, NextDomain(d)
      PROVE  RowTypeOK' /\ DriverType' /\ RestType'
  <2>1. RowTypeOK' /\ RestType'
    BY <1>0, <1>9 DEF NextDomain, row, RowTypeOK, RestType
  <2>2. NextHandler(d)
    BY <1>9 DEF NextDomain
  <2>3. QED
    BY <1>0, <1>9, <2>1, <2>2, NextHandlerType DEF NextDomain, DriverType
<1>10. ASSUME NEW d \in Drivers, NEW i \in Items, SweepRow(d, i)
      PROVE  RowTypeOK' /\ DriverType' /\ RestType'
  <2>0. seen[d][i] \in Nat /\ 0 \in Nat
    BY <1>0 DEF DriverType
  <2>1. RowTypeOK'
    BY <1>0, <1>10, TransitionType, <2>0 DEF SweepRow
  <2>2. work' \in [Drivers -> [Items -> Phases]]
    BY <1>0, <1>10, PhaseType DEF SweepRow, Phases
  <2>3. QED
    BY <1>0, <1>10, <2>1, <2>2 DEF SweepRow, DriverType, RestType
<1>11. ASSUME NEW d \in Drivers, NEW i \in Items, Complete(d, i)
      PROVE  RowTypeOK' /\ DriverType' /\ RestType'
  <2>1. RowTypeOK'
    BY <1>0, <1>11, TransitionType, 0 \in Nat DEF Complete
  <2>2. work' \in [Drivers -> [Items -> Phases]]
    BY <1>0, <1>11, PhaseType DEF Complete, Phases
  <2>3. QED
    BY <1>0, <1>11, <2>1, <2>2 DEF Complete, DriverType, RestType
<1>12. ASSUME NEW d \in Drivers, NEW i \in Items, HandlerDeadLetters(d, i)
      PROVE  RowTypeOK' /\ DriverType' /\ RestType'
  <2>1. RowTypeOK'
    BY <1>0, <1>12, TransitionType, 0 \in Nat DEF HandlerDeadLetters
  <2>2. work' \in [Drivers -> [Items -> Phases]]
    BY <1>0, <1>12, PhaseType DEF HandlerDeadLetters, Phases
  <2>3. QED
    BY <1>0, <1>12, <2>1, <2>2 DEF HandlerDeadLetters, DriverType, RestType
<1>13. ASSUME NEW d \in Drivers, NEW i \in Items, NEW w \in DeferDelays[Domain[i]],
              HandlerDefers(d, i, w)
      PROVE  RowTypeOK' /\ DriverType' /\ RestType'
  <2>1. RowTypeOK'
    BY <1>0, <1>13, TransitionType, 0 \in Nat, WorkQueueRowsAssumption,
       WorkQueueAssumption DEF HandlerDefers
  <2>2. work' \in [Drivers -> [Items -> Phases]]
    BY <1>0, <1>13, PhaseType DEF HandlerDefers, Phases
  <2>3. QED
    BY <1>0, <1>13, <2>1, <2>2 DEF HandlerDefers, DriverType, RestType
<1>14. ASSUME NEW d \in Drivers, NEW i \in Items, Fail(d, i)
      PROVE  RowTypeOK' /\ DriverType' /\ RestType'
  <2>0. seen[d][i] \in Nat /\ 0 \in Nat
    BY <1>0 DEF DriverType
  <2>1. RowTypeOK'
    BY <1>0, <1>14, TransitionType, <2>0 DEF Fail
  <2>2. work' \in [Drivers -> [Items -> Phases]]
    BY <1>0, <1>14, PhaseType DEF Fail, Phases
  <2>3. QED
    BY <1>0, <1>14, <2>1, <2>2 DEF Fail, DriverType, RestType
<1>15. ASSUME NEW d \in Drivers, NEW i \in Items, Heartbeat(d, i)
      PROVE  RowTypeOK' /\ DriverType' /\ RestType'
  BY <1>0, <1>15, WorkQueueRowsAssumption, WorkQueueAssumption
  DEF Heartbeat, RecordHeartbeat, driver, RowTypeOK, DriverType, RestType
<1>16. ASSUME NEW d \in Drivers, NEW i \in Items, HandlerReturns(d, i)
      PROVE  RowTypeOK' /\ DriverType' /\ RestType'
  <2>1. work' \in [Drivers -> [Items -> Phases]]
    BY <1>0, <1>16, PhaseType DEF HandlerReturns, Phases
  <2>2. QED
    BY <1>0, <1>16, <2>1 DEF HandlerReturns, row, RowTypeOK, DriverType, RestType
<1>17. ASSUME NEW d \in Drivers, NEW i \in Items, HandlerThrows(d, i)
      PROVE  RowTypeOK' /\ DriverType' /\ RestType'
  <2>1. work' \in [Drivers -> [Items -> Phases]]
    BY <1>0, <1>17, PhaseType DEF HandlerThrows, Phases
  <2>2. QED
    BY <1>0, <1>17, <2>1 DEF HandlerThrows, row, RowTypeOK, DriverType, RestType
<1>18. ASSUME NEW d \in Drivers, NEW i \in Items, CompleteFails(d, i)
      PROVE  RowTypeOK' /\ DriverType' /\ RestType'
  <2>1. work' \in [Drivers -> [Items -> Phases]]
    BY <1>0, <1>18, PhaseType DEF CompleteFails, Phases
  <2>2. QED
    BY <1>0, <1>18, <2>1 DEF CompleteFails, row, RowTypeOK, DriverType, RestType
<1>19. ASSUME NEW d \in Drivers, NEW i \in Items, FailRead(d, i)
      PROVE  RowTypeOK' /\ DriverType' /\ RestType'
  <2>1. work' \in [Drivers -> [Items -> Phases]]
    BY <1>0, <1>19, PhaseType DEF FailRead, Phases
  <2>2. QED
    BY <1>0, <1>19, <2>1 DEF FailRead, row, RowTypeOK, DriverType, RestType
<1>20. ASSUME NEW d \in Drivers, NEW i \in Items, FailFails(d, i)
      PROVE  RowTypeOK' /\ DriverType' /\ RestType'
  <2>1. work' \in [Drivers -> [Items -> Phases]]
    BY <1>0, <1>20, PhaseType DEF FailFails, Phases
  <2>2. QED
    BY <1>0, <1>20, <2>1 DEF FailFails, row, RowTypeOK, DriverType, RestType
<1>21. ASSUME NEW d \in Drivers, Crash(d)
      PROVE  RowTypeOK' /\ DriverType' /\ RestType'
  <2>1. 1 \in 1..NumDomains
    BY WorkQueueRowsAssumption, WorkQueueAssumption
  <2>2. QED
    BY <1>0, <1>21, <2>1 DEF Crash, row, RowTypeOK, DriverType, RestType, Phases
<1>22. ASSUME NEW u \in Upstreams, OpenCircuit(u) \/ CloseCircuit(u)
      PROVE  RowTypeOK' /\ DriverType' /\ RestType'
  BY <1>0, <1>22 DEF OpenCircuit, CloseCircuit, row, driver, RowTypeOK, DriverType, RestType
<1>23. ASSUME Tick
      PROVE  RowTypeOK' /\ DriverType' /\ RestType'
  <2>1. \A i \in Items : wait[i] \in Nat /\ lease[i] \in Nat \cup {NoLease}
    BY <1>0 DEF RowTypeOK
  <2>2. \A i \in Items : (IF wait[i] > 0 THEN wait[i] - 1 ELSE 0) \in Nat
    BY <2>1
  <2>3. \A i \in Items :
          (IF lease[i] > 0 THEN lease[i] - 1 ELSE lease[i]) \in Nat \cup {NoLease}
    BY <2>1 DEF NoLease
  <2>4. wait' \in [Items -> Nat] /\ lease' \in [Items -> Nat \cup {NoLease}]
    BY <1>23, <2>2, <2>3 DEF Tick, RunDown
  <2>5. QED
    BY <1>0, <1>23, <2>4 DEF Tick, RunDown, driver, RowTypeOK, DriverType, RestType
<1>24. ASSUME UNCHANGED vars
      PROVE  RowTypeOK' /\ DriverType' /\ RestType'
  BY <1>0, <1>24 DEF vars, row, driver, RowTypeOK, DriverType, RestType
<1>25. QED
  BY <1>1, <1>2, <1>3, <1>4, <1>5, <1>6, <1>7, <1>8, <1>9, <1>10, <1>11, <1>12, <1>13, <1>14,
     <1>15, <1>16, <1>17, <1>18, <1>19, <1>20, <1>21, <1>22, <1>23, <1>24 DEF Next, Step

(* Every reachable state of the table and the invocations is well typed.    *)
THEOREM TypeCorrect == Spec => []TypeOK
<1>1. Init => TypeOK
  BY TypeInit
<1>2. TypeOK /\ [Next]_vars => TypeOK'
  BY TypeStep
<1>3. QED
  BY <1>1, <1>2, PTL DEF Spec

------------------------------------------------------------------------------
(* The retry budget.                                                        *)

Stale(d, i) == work[d][i] = "stale"

(* A sweep under way has read an attempt below the row's max_attempts.      *)
ReadBound ==
  \A d \in Drivers, i \in Items : Stale(d, i) => seen[d][i] < MaxAttempts[i]

BudgetInv == TypeOK /\ AttemptBudget /\ ReadBound

(* Once read, a sweep's snapshot only disappears.                           *)
LEMMA ReadBoundKept ==
  ASSUME ReadBound,
         \A d \in Drivers, i \in Items :
           Stale(d, i)' => Stale(d, i) /\ seen'[d][i] = seen[d][i]
  PROVE  ReadBound'
BY DEF ReadBound, Stale

LEMMA BudgetStep ==
  ASSUME BudgetInv, [Next]_vars
  PROVE  AttemptBudget' /\ ReadBound'
<1>0. /\ TypeOK /\ RowTypeOK /\ DriverType /\ RestType
      /\ AttemptBudget /\ ReadBound
  BY TypeParts DEF BudgetInv
<1>1. ASSUME NEW i \in Items, NEW w \in EnqueueDelays, Enqueue(i, w)
      PROVE  AttemptBudget' /\ ReadBound'
  <2>1. MaxAttempts[i] \in Nat /\ 0 < MaxAttempts[i]
    BY WorkQueueRowsAssumption, WorkQueueAssumption
  <2>2. AttemptBudget'
    BY <1>0, <1>1, <2>1 DEF Enqueue, Insert, AttemptBudget, RowTypeOK
  <2>3. ReadBound'
    BY <1>0, <1>1, ReadBoundKept DEF Enqueue, Insert, driver, Stale
  <2>4. QED
    BY <2>2, <2>3
<1>2. ASSUME NEW d \in Drivers, StartTick(d)
      PROVE  AttemptBudget' /\ ReadBound'
  <2>1. AttemptBudget'
    BY <1>0, <1>2, UnchangedBudget DEF StartTick, row
  <2>2. \A i \in StaleClaims : i \in Items /\ attempt[i] < MaxAttempts[i]
    BY <1>0 DEF StaleClaims, AttemptBudget
  <2>3. ReadBound'
    BY <1>0, <1>2, <2>2 DEF StartTick, ReadBound, Stale, DriverType
  <2>4. QED
    BY <2>1, <2>3
<1>3. ASSUME NEW d \in Drivers, SweepFails(d)
      PROVE  AttemptBudget' /\ ReadBound'
  BY <1>0, <1>3, UnchangedBudget, ReadBoundKept
  DEF SweepFails, row, Stale, DriverType
<1>4. ASSUME NEW d \in Drivers, ReadCircuits(d)
      PROVE  AttemptBudget' /\ ReadBound'
  BY <1>0, <1>4, UnchangedBudget, ReadBoundKept
  DEF ReadCircuits, row, Stale, DriverType
<1>5. ASSUME NEW d \in Drivers, CountActive(d)
      PROVE  AttemptBudget' /\ ReadBound'
  BY <1>0, <1>5, UnchangedBudget, ReadBoundKept
  DEF CountActive, row, Stale, DriverType
<1>6. ASSUME NEW d \in Drivers, ClaimFails(d)
      PROVE  AttemptBudget' /\ ReadBound'
  BY <1>0, <1>6, UnchangedBudget, ReadBoundKept
  DEF ClaimFails, row, Stale, DriverType
<1>7. ASSUME NEW d \in Drivers, StartGroup(d)
      PROVE  AttemptBudget' /\ ReadBound'
  BY <1>0, <1>7, UnchangedBudget, ReadBoundKept
  DEF StartGroup, row, Stale, DriverType
<1>8. ASSUME NEW d \in Drivers, NextDomain(d)
      PROVE  AttemptBudget' /\ ReadBound'
  BY <1>0, <1>8, UnchangedBudget, ReadBoundKept
  DEF NextDomain, row, Stale, DriverType
<1>9. ASSUME NEW d \in Drivers, Crash(d)
      PROVE  AttemptBudget' /\ ReadBound'
  BY <1>0, <1>9, UnchangedBudget, ReadBoundKept
  DEF Crash, row, Stale, DriverType
<1>10. ASSUME NEW d \in Drivers, Claim(d)
      PROVE  AttemptBudget' /\ ReadBound'
  <2>1. PICK batch \in SUBSET Claimable(pos[d], shut[d]) :
          /\ ClaimRows(batch)
          /\ work' = [work EXCEPT ![d] =
               [i \in Items |-> IF i \in batch THEN "queued" ELSE "none"]]
    BY <1>10 DEF Claim
  <2>2. AttemptBudget'
    BY <1>0, <2>1 DEF ClaimRows, Claimable, AttemptBudget, RowTypeOK
  <2>3. ReadBound'
    BY <1>0, <1>10, <2>1, ReadBoundKept DEF Claim, Stale, DriverType
  <2>4. QED
    BY <2>2, <2>3
<1>11. ASSUME NEW d \in Drivers, NEW i \in Items, SweepRow(d, i)
      PROVE  AttemptBudget' /\ ReadBound'
  <2>1. seen[d][i] \in Nat /\ 0 \in Nat /\ seen[d][i] < MaxAttempts[i]
    BY <1>0, <1>11 DEF DriverType, ReadBound, Stale, SweepRow
  <2>2. AttemptBudget'
    BY <1>0, <1>11, <2>1, TransitionBudget DEF SweepRow
  <2>3. ReadBound'
    BY <1>0, <1>11, ReadBoundKept DEF SweepRow, Phase, Stale, DriverType
  <2>4. QED
    BY <2>2, <2>3
<1>12. ASSUME NEW d \in Drivers, NEW i \in Items, Complete(d, i)
      PROVE  AttemptBudget' /\ ReadBound'
  <2>1. seen[d][i] \in Nat /\ 0 \in Nat
    BY <1>0, WorkQueueRowsAssumption, WorkQueueAssumption DEF DriverType
  <2>2. AttemptBudget'
    BY <1>0, <1>12, <2>1, TransitionBudget DEF Complete
  <2>3. ReadBound'
    BY <1>0, <1>12, ReadBoundKept DEF Complete, Phase, Stale, DriverType
  <2>4. QED
    BY <2>2, <2>3
<1>13. ASSUME NEW d \in Drivers, NEW i \in Items, HandlerDeadLetters(d, i)
      PROVE  AttemptBudget' /\ ReadBound'
  <2>1. seen[d][i] \in Nat /\ 0 \in Nat
    BY <1>0, WorkQueueRowsAssumption, WorkQueueAssumption DEF DriverType
  <2>2. AttemptBudget'
    BY <1>0, <1>13, <2>1, TransitionBudget DEF HandlerDeadLetters
  <2>3. ReadBound'
    BY <1>0, <1>13, ReadBoundKept DEF HandlerDeadLetters, Phase, Stale, DriverType
  <2>4. QED
    BY <2>2, <2>3
<1>14. ASSUME NEW d \in Drivers, NEW i \in Items, NEW w \in DeferDelays[Domain[i]],
              HandlerDefers(d, i, w)
      PROVE  AttemptBudget' /\ ReadBound'
  <2>1. seen[d][i] \in Nat /\ 0 \in Nat /\ w \in Nat
    BY <1>0, WorkQueueRowsAssumption, WorkQueueAssumption DEF DriverType
  <2>2. AttemptBudget'
    BY <1>0, <1>14, <2>1, TransitionBudget DEF HandlerDefers
  <2>3. ReadBound'
    BY <1>0, <1>14, ReadBoundKept DEF HandlerDefers, Phase, Stale, DriverType
  <2>4. QED
    BY <2>2, <2>3
<1>15. ASSUME NEW d \in Drivers, NEW i \in Items, Fail(d, i)
      PROVE  AttemptBudget' /\ ReadBound'
  <2>1. seen[d][i] \in Nat /\ 0 \in Nat
    BY <1>0, WorkQueueRowsAssumption, WorkQueueAssumption DEF DriverType
  <2>2. AttemptBudget'
    BY <1>0, <1>15, <2>1, TransitionBudget DEF Fail
  <2>3. ReadBound'
    BY <1>0, <1>15, ReadBoundKept DEF Fail, Phase, Stale, DriverType
  <2>4. QED
    BY <2>2, <2>3
<1>16. ASSUME NEW d \in Drivers, NEW i \in Items, Heartbeat(d, i)
      PROVE  AttemptBudget' /\ ReadBound'
  BY <1>0, <1>16, UnchangedBudget, ReadBoundKept
  DEF Heartbeat, RecordHeartbeat, driver, Stale
<1>17. ASSUME NEW d \in Drivers, NEW i \in Items, HandlerReturns(d, i)
      PROVE  AttemptBudget' /\ ReadBound'
  BY <1>0, <1>17, UnchangedBudget, ReadBoundKept
  DEF HandlerReturns, Phase, row, Stale, DriverType
<1>18. ASSUME NEW d \in Drivers, NEW i \in Items, HandlerThrows(d, i)
      PROVE  AttemptBudget' /\ ReadBound'
  BY <1>0, <1>18, UnchangedBudget, ReadBoundKept
  DEF HandlerThrows, Phase, row, Stale, DriverType
<1>19. ASSUME NEW d \in Drivers, NEW i \in Items, CompleteFails(d, i)
      PROVE  AttemptBudget' /\ ReadBound'
  BY <1>0, <1>19, UnchangedBudget, ReadBoundKept
  DEF CompleteFails, Phase, row, Stale, DriverType
<1>20. ASSUME NEW d \in Drivers, NEW i \in Items, FailRead(d, i)
      PROVE  AttemptBudget' /\ ReadBound'
  BY <1>0, <1>20, UnchangedBudget, ReadBoundKept
  DEF FailRead, Phase, row, Stale, DriverType
<1>21. ASSUME NEW d \in Drivers, NEW i \in Items, FailFails(d, i)
      PROVE  AttemptBudget' /\ ReadBound'
  BY <1>0, <1>21, UnchangedBudget, ReadBoundKept
  DEF FailFails, Phase, row, Stale, DriverType
<1>22. ASSUME NEW u \in Upstreams, OpenCircuit(u) \/ CloseCircuit(u)
      PROVE  AttemptBudget' /\ ReadBound'
  BY <1>0, <1>22, UnchangedBudget, ReadBoundKept
  DEF OpenCircuit, CloseCircuit, row, driver, Stale
<1>23. ASSUME Tick
      PROVE  AttemptBudget' /\ ReadBound'
  BY <1>0, <1>23, UnchangedBudget, ReadBoundKept DEF Tick, RunDown, driver, Stale
<1>24. ASSUME UNCHANGED vars
      PROVE  AttemptBudget' /\ ReadBound'
  BY <1>0, <1>24, UnchangedBudget, ReadBoundKept DEF vars, row, driver, Stale
<1>25. QED
  BY <1>1, <1>2, <1>3, <1>4, <1>5, <1>6, <1>7, <1>8, <1>9, <1>10, <1>11, <1>12, <1>13, <1>14,
     <1>15, <1>16, <1>17, <1>18, <1>19, <1>20, <1>21, <1>22, <1>23, <1>24, <1>0 DEF Next, Step

(* The retry budget of a row is never overdrawn, and a row that may still   *)
(* be run has some left: failWork and the watchdog agree on the outcome,    *)
(* however their statements interleave and however late they come.          *)
THEOREM BudgetKept == Spec => []AttemptBudget
<1>1. Init => BudgetInv
  <2> SUFFICES ASSUME Init PROVE BudgetInv
    OBVIOUS
  <2>1. AttemptBudget
    BY WorkQueueRowsAssumption, WorkQueueAssumption DEF Init, RowInit, AttemptBudget
  <2>2. ReadBound
    BY DEF Init, RowInit, ReadBound, Stale
  <2>3. QED
    BY <2>1, <2>2, TypeInit DEF BudgetInv
<1>2. BudgetInv /\ [Next]_vars => BudgetInv'
  BY TypeStep, BudgetStep DEF BudgetInv
<1>3. BudgetInv => AttemptBudget
  BY DEF BudgetInv
<1>4. QED
  BY <1>1, <1>2, <1>3, PTL DEF Spec

------------------------------------------------------------------------------
(* The table implements JobQueue.  The watchdog writes an absolute attempt, *)
(* so its step is a charge of exactly one only if the attempt it read is    *)
(* still the row's whenever the row is 'in_progress'.  With Prompt it is: a *)
(* row that leaves 'in_progress' with a new attempt has a backoff ahead,    *)
(* and no time passes while the sweep is under way.                         *)

ReadFresh ==
  \A d \in Drivers, i \in Items : Stale(d, i) =>
    pc[d] = "sweep" /\ AsRead(status[i], attempt[i], wait[i], seen[d][i])

LEMMA ReadFreshKept ==
  ASSUME DriverType, ReadFresh, KeepsFresh,
         \A d \in Drivers, i \in Items :
           Stale(d, i)' => /\ Stale(d, i)
                           /\ seen'[d][i] = seen[d][i]
                           /\ pc[d] = "sweep" => pc'[d] = "sweep"
  PROVE  ReadFresh'
<1> SUFFICES ASSUME NEW d \in Drivers, NEW i \in Items, Stale(d, i)'
             PROVE  pc'[d] = "sweep" /\ AsRead(status'[i], attempt'[i], wait'[i], seen'[d][i])
  BY DEF ReadFresh
<1>1. seen[d][i] \in Nat
  BY DEF DriverType
<1>2. QED
  BY <1>1 DEF ReadFresh, KeepsFresh

LEMMA FreshStep ==
  ASSUME Prompt, TypeOK, ReadFresh, [Next]_vars
  PROVE  ReadFresh'
<1>0. RowTypeOK /\ DriverType /\ RestType /\ ReadFresh
  BY TypeParts
<1>1. ASSUME NEW i \in Items, NEW w \in EnqueueDelays, Enqueue(i, w)
      PROVE  ReadFresh'
  <2>1. KeepsFresh
    BY <1>0, <1>1 DEF Enqueue, Insert, KeepsFresh, AsRead, RowTypeOK
  <2>2. QED
    BY <1>0, <1>1, <2>1, ReadFreshKept DEF Enqueue, Insert, driver, Stale
<1>2. ASSUME NEW d \in Drivers, StartTick(d)
      PROVE  ReadFresh'
  <2> SUFFICES ASSUME NEW e \in Drivers, NEW i \in Items, Stale(e, i)'
               PROVE  /\ pc'[e] = "sweep"
                      /\ AsRead(status'[i], attempt'[i], wait'[i], seen'[e][i])
    BY DEF ReadFresh
  <2>1. UNCHANGED <<status, attempt, wait>>
    BY <1>2 DEF StartTick, row
  <2>2. CASE e = d
    <3>1. status[i] = "in_progress" /\ seen'[d][i] = attempt[i] /\ pc'[d] = "sweep"
      BY <1>0, <1>2, <2>2 DEF StartTick, Stale, StaleClaims, DriverType
    <3>2. QED
      BY <2>1, <2>2, <3>1 DEF AsRead
  <2>3. CASE e # d
    BY <1>0, <1>2, <2>1, <2>3 DEF StartTick, Stale, DriverType, ReadFresh
  <2>4. QED
    BY <2>2, <2>3
<1>3. ASSUME NEW d \in Drivers, SweepFails(d)
      PROVE  ReadFresh'
  BY <1>0, <1>3, UnchangedFresh, ReadFreshKept
  DEF SweepFails, row, Stale, DriverType
<1>4. ASSUME NEW d \in Drivers, Crash(d)
      PROVE  ReadFresh'
  BY <1>0, <1>4, UnchangedFresh, ReadFreshKept
  DEF Crash, row, Stale, DriverType
<1>5. ASSUME NEW d \in Drivers, ReadCircuits(d)
      PROVE  ReadFresh'
  BY <1>0, <1>5, UnchangedFresh, ReadFreshKept
  DEF ReadCircuits, row, Stale, DriverType
<1>6. ASSUME NEW d \in Drivers, CountActive(d)
      PROVE  ReadFresh'
  <2>1. pc[d] # "sweep" /\ (\A e \in Drivers : e # d => pc'[e] = pc[e])
    BY <1>0, <1>6 DEF CountActive, NextHandler, DriverType
  <2>2. \A i \in Items : ~Stale(d, i)
    BY <1>0, <2>1 DEF ReadFresh
  <2>3. KeepsFresh
    BY <1>6, UnchangedFresh DEF CountActive, row
  <2>4. \A e \in Drivers, i \in Items :
          Stale(e, i)' => Stale(e, i) /\ seen'[e][i] = seen[e][i]
    BY <1>0, <1>6 DEF CountActive, Stale, DriverType
  <2>5. QED
    BY <1>0, <2>1, <2>2, <2>3, <2>4, ReadFreshKept
<1>7. ASSUME NEW d \in Drivers, ClaimFails(d)
      PROVE  ReadFresh'
  <2>1. pc[d] # "sweep" /\ (\A e \in Drivers : e # d => pc'[e] = pc[e])
    BY <1>0, <1>7 DEF ClaimFails, NextHandler, DriverType
  <2>2. \A i \in Items : ~Stale(d, i)
    BY <1>0, <2>1 DEF ReadFresh
  <2>3. KeepsFresh
    BY <1>7, UnchangedFresh DEF ClaimFails, row
  <2>4. \A e \in Drivers, i \in Items :
          Stale(e, i)' => Stale(e, i) /\ seen'[e][i] = seen[e][i]
    BY <1>0, <1>7 DEF ClaimFails, Stale, DriverType
  <2>5. QED
    BY <1>0, <2>1, <2>2, <2>3, <2>4, ReadFreshKept
<1>8. ASSUME NEW d \in Drivers, NextDomain(d)
      PROVE  ReadFresh'
  <2>1. pc[d] # "sweep" /\ (\A e \in Drivers : e # d => pc'[e] = pc[e])
    BY <1>0, <1>8 DEF NextDomain, NextHandler, DriverType
  <2>2. \A i \in Items : ~Stale(d, i)
    BY <1>0, <2>1 DEF ReadFresh
  <2>3. KeepsFresh
    BY <1>8, UnchangedFresh DEF NextDomain, row
  <2>4. \A e \in Drivers, i \in Items :
          Stale(e, i)' => Stale(e, i) /\ seen'[e][i] = seen[e][i]
    BY <1>0, <1>8 DEF NextDomain, Stale, DriverType
  <2>5. QED
    BY <1>0, <2>1, <2>2, <2>3, <2>4, ReadFreshKept
<1>9. ASSUME NEW d \in Drivers, StartGroup(d)
      PROVE  ReadFresh'
  <2>1. pc[d] # "sweep" /\ (\A e \in Drivers : e # d => pc'[e] = pc[e])
    BY <1>0, <1>9 DEF StartGroup, DriverType
  <2>2. \A i \in Items : ~Stale(d, i)
    BY <1>0, <2>1 DEF ReadFresh
  <2>3. KeepsFresh
    BY <1>9, UnchangedFresh DEF StartGroup, row
  <2>4. \A e \in Drivers, i \in Items :
          Stale(e, i)' => Stale(e, i) /\ seen'[e][i] = seen[e][i]
    BY <1>0, <1>9 DEF StartGroup, Stale, DriverType
  <2>5. QED
    BY <1>0, <2>1, <2>2, <2>3, <2>4, ReadFreshKept
<1>10. ASSUME NEW d \in Drivers, Claim(d)
      PROVE  ReadFresh'
  <2>1. PICK batch \in SUBSET Claimable(pos[d], shut[d]) :
          /\ ClaimRows(batch)
          /\ work' = [work EXCEPT ![d] =
               [i \in Items |-> IF i \in batch THEN "queued" ELSE "none"]]
    BY <1>10 DEF Claim
  <2>2. KeepsFresh
    BY <1>0, <2>1 DEF ClaimRows, Claimable, KeepsFresh, AsRead, RowTypeOK
  <2>3. QED
    BY <1>0, <1>10, <2>1, <2>2, ReadFreshKept DEF Claim, Stale, DriverType
<1>11. ASSUME NEW d \in Drivers, NEW i \in Items, SweepRow(d, i)
      PROVE  ReadFresh'
  <2>1. seen[d][i] \in Nat /\ 0 \in Nat
    BY <1>0, WorkQueueRowsAssumption, WorkQueueAssumption DEF DriverType
  <2>2. KeepsFresh
    BY <1>0, <1>11, <2>1, TransitionFresh DEF SweepRow
  <2>3. QED
    BY <1>0, <1>11, <2>2, ReadFreshKept DEF SweepRow, Phase, Stale, DriverType
<1>12. ASSUME NEW d \in Drivers, NEW i \in Items, Complete(d, i)
      PROVE  ReadFresh'
  <2>1. seen[d][i] \in Nat /\ 0 \in Nat
    BY <1>0, WorkQueueRowsAssumption, WorkQueueAssumption DEF DriverType
  <2>2. KeepsFresh
    BY <1>0, <1>12, <2>1, TransitionFresh DEF Complete
  <2>3. QED
    BY <1>0, <1>12, <2>2, ReadFreshKept DEF Complete, Phase, Stale, DriverType
<1>13. ASSUME NEW d \in Drivers, NEW i \in Items, HandlerDeadLetters(d, i)
      PROVE  ReadFresh'
  <2>1. seen[d][i] \in Nat /\ 0 \in Nat
    BY <1>0, WorkQueueRowsAssumption, WorkQueueAssumption DEF DriverType
  <2>2. KeepsFresh
    BY <1>0, <1>13, <2>1, TransitionFresh DEF HandlerDeadLetters
  <2>3. QED
    BY <1>0, <1>13, <2>2, ReadFreshKept DEF HandlerDeadLetters, Phase, Stale, DriverType
<1>14. ASSUME NEW d \in Drivers, NEW i \in Items, NEW w \in DeferDelays[Domain[i]],
              HandlerDefers(d, i, w)
      PROVE  ReadFresh'
  <2>1. seen[d][i] \in Nat /\ 0 \in Nat /\ w \in Nat
    BY <1>0, WorkQueueRowsAssumption, WorkQueueAssumption DEF DriverType
  <2>2. KeepsFresh
    BY <1>0, <1>14, <2>1, TransitionFresh DEF HandlerDefers
  <2>3. QED
    BY <1>0, <1>14, <2>2, ReadFreshKept DEF HandlerDefers, Phase, Stale, DriverType
<1>15. ASSUME NEW d \in Drivers, NEW i \in Items, Fail(d, i)
      PROVE  ReadFresh'
  <2>1. seen[d][i] \in Nat /\ 0 \in Nat
    BY <1>0, WorkQueueRowsAssumption, WorkQueueAssumption DEF DriverType
  <2>2. KeepsFresh
    BY <1>0, <1>15, <2>1, TransitionFresh DEF Fail
  <2>3. QED
    BY <1>0, <1>15, <2>2, ReadFreshKept DEF Fail, Phase, Stale, DriverType
<1>16. ASSUME NEW d \in Drivers, NEW i \in Items, Heartbeat(d, i)
      PROVE  ReadFresh'
  BY <1>0, <1>16, UnchangedFresh, ReadFreshKept
  DEF Heartbeat, RecordHeartbeat, driver, Stale
<1>17. ASSUME NEW d \in Drivers, NEW i \in Items, HandlerReturns(d, i)
      PROVE  ReadFresh'
  BY <1>0, <1>17, UnchangedFresh, ReadFreshKept
  DEF HandlerReturns, Phase, row, Stale, DriverType
<1>18. ASSUME NEW d \in Drivers, NEW i \in Items, HandlerThrows(d, i)
      PROVE  ReadFresh'
  BY <1>0, <1>18, UnchangedFresh, ReadFreshKept
  DEF HandlerThrows, Phase, row, Stale, DriverType
<1>19. ASSUME NEW d \in Drivers, NEW i \in Items, CompleteFails(d, i)
      PROVE  ReadFresh'
  BY <1>0, <1>19, UnchangedFresh, ReadFreshKept
  DEF CompleteFails, Phase, row, Stale, DriverType
<1>20. ASSUME NEW d \in Drivers, NEW i \in Items, FailRead(d, i)
      PROVE  ReadFresh'
  BY <1>0, <1>20, UnchangedFresh, ReadFreshKept
  DEF FailRead, Phase, row, Stale, DriverType
<1>21. ASSUME NEW d \in Drivers, NEW i \in Items, FailFails(d, i)
      PROVE  ReadFresh'
  BY <1>0, <1>21, UnchangedFresh, ReadFreshKept
  DEF FailFails, Phase, row, Stale, DriverType
<1>22. ASSUME NEW u \in Upstreams, OpenCircuit(u) \/ CloseCircuit(u)
      PROVE  ReadFresh'
  BY <1>0, <1>22, UnchangedFresh, ReadFreshKept
  DEF OpenCircuit, CloseCircuit, row, driver, Stale
<1>23. ASSUME Tick
      PROVE  ReadFresh'
  <2>1. \A d \in Drivers, i \in Items : ~Stale(d, i)
    BY <1>0, <1>23, Prompt DEF Tick, RunDown, Between, ReadFresh
  <2>2. QED
    BY <1>23, <2>1 DEF Tick, RunDown, driver, Stale, ReadFresh
<1>24. ASSUME UNCHANGED vars
      PROVE  ReadFresh'
  BY <1>0, <1>24, UnchangedFresh, ReadFreshKept DEF vars, row, driver, Stale
<1>25. QED
  BY <1>1, <1>2, <1>3, <1>4, <1>5, <1>6, <1>7, <1>8, <1>9, <1>10, <1>11, <1>12, <1>13, <1>14,
     <1>15, <1>16, <1>17, <1>18, <1>19, <1>20, <1>21, <1>22, <1>23, <1>24 DEF Next, Step

LEMMA StepMapped ==
  ASSUME BudgetInv, ReadFresh, [Next]_vars
  PROVE  Mapped
<1>0. TypeOK /\ RowTypeOK /\ DriverType /\ AttemptBudget /\ ReadFresh
  BY TypeParts DEF BudgetInv
<1>1. ASSUME NEW i \in Items, NEW w \in EnqueueDelays, Enqueue(i, w)
      PROVE  Mapped
  <2>1. Jobs!Submit(i)
    BY <1>1 DEF Enqueue, Insert, Jobs!Submit
  <2>2. QED
    BY <2>1 DEF Mapped, Jobs!Next
<1>2. ASSUME NEW d \in Drivers, StartTick(d)
      PROVE  Mapped
  BY <1>2, UnchangedMapped DEF StartTick, row
<1>3. ASSUME NEW d \in Drivers, SweepFails(d)
      PROVE  Mapped
  BY <1>3, UnchangedMapped DEF SweepFails, row
<1>4. ASSUME NEW d \in Drivers, ReadCircuits(d)
      PROVE  Mapped
  BY <1>4, UnchangedMapped DEF ReadCircuits, row
<1>5. ASSUME NEW d \in Drivers, CountActive(d)
      PROVE  Mapped
  BY <1>5, UnchangedMapped DEF CountActive, row
<1>6. ASSUME NEW d \in Drivers, ClaimFails(d)
      PROVE  Mapped
  BY <1>6, UnchangedMapped DEF ClaimFails, row
<1>7. ASSUME NEW d \in Drivers, StartGroup(d)
      PROVE  Mapped
  BY <1>7, UnchangedMapped DEF StartGroup, row
<1>8. ASSUME NEW d \in Drivers, NextDomain(d)
      PROVE  Mapped
  BY <1>8, UnchangedMapped DEF NextDomain, row
<1>9. ASSUME NEW d \in Drivers, Crash(d)
      PROVE  Mapped
  BY <1>9, UnchangedMapped DEF Crash, row
<1>10. ASSUME NEW d \in Drivers, Claim(d)
      PROVE  Mapped
  <2>1. PICK batch \in SUBSET Claimable(pos[d], shut[d]) : ClaimRows(batch)
    BY <1>10 DEF Claim
  <2>2. batch \in SUBSET Items /\ Jobs!Take(batch)
    BY <2>1 DEF ClaimRows, Claimable, Jobs!Take
  <2>3. QED
    BY <2>2 DEF Mapped, Jobs!Next
<1>11. ASSUME NEW d \in Drivers, NEW i \in Items, SweepRow(d, i)
      PROVE  Mapped
  <2>1. seen[d][i] \in Nat /\ 0 \in Nat
    BY <1>0 DEF DriverType
  <2>2. status[i] = "in_progress" => seen[d][i] = attempt[i]
    BY <1>0, <1>11 DEF SweepRow, Stale, ReadFresh, AsRead
  <2>3. QED
    BY <1>0, <1>11, <2>1, <2>2, TransitionMapped DEF SweepRow
<1>12. ASSUME NEW d \in Drivers, NEW i \in Items, Complete(d, i)
      PROVE  Mapped
  <2>1. seen[d][i] \in Nat /\ 0 \in Nat
    BY <1>0, WorkQueueRowsAssumption, WorkQueueAssumption DEF DriverType
  <2>2. QED
    BY <1>0, <1>12, <2>1, TransitionMapped DEF Complete
<1>13. ASSUME NEW d \in Drivers, NEW i \in Items, HandlerDeadLetters(d, i)
      PROVE  Mapped
  <2>1. seen[d][i] \in Nat /\ 0 \in Nat
    BY <1>0, WorkQueueRowsAssumption, WorkQueueAssumption DEF DriverType
  <2>2. QED
    BY <1>0, <1>13, <2>1, TransitionMapped DEF HandlerDeadLetters
<1>14. ASSUME NEW d \in Drivers, NEW i \in Items, NEW w \in DeferDelays[Domain[i]],
              HandlerDefers(d, i, w)
      PROVE  Mapped
  <2>1. seen[d][i] \in Nat /\ 0 \in Nat /\ w \in Nat
    BY <1>0, WorkQueueRowsAssumption, WorkQueueAssumption DEF DriverType
  <2>2. QED
    BY <1>0, <1>14, <2>1, TransitionMapped DEF HandlerDefers
<1>15. ASSUME NEW d \in Drivers, NEW i \in Items, Fail(d, i)
      PROVE  Mapped
  <2>1. seen[d][i] \in Nat /\ 0 \in Nat
    BY <1>0, WorkQueueRowsAssumption, WorkQueueAssumption DEF DriverType
  <2>2. QED
    BY <1>0, <1>15, <2>1, TransitionMapped DEF Fail
<1>16. ASSUME NEW d \in Drivers, NEW i \in Items, Heartbeat(d, i)
      PROVE  Mapped
  BY <1>16, UnchangedMapped DEF Heartbeat, RecordHeartbeat
<1>17. ASSUME NEW d \in Drivers, NEW i \in Items, HandlerReturns(d, i)
      PROVE  Mapped
  BY <1>17, UnchangedMapped DEF HandlerReturns, row
<1>18. ASSUME NEW d \in Drivers, NEW i \in Items, HandlerThrows(d, i)
      PROVE  Mapped
  BY <1>18, UnchangedMapped DEF HandlerThrows, row
<1>19. ASSUME NEW d \in Drivers, NEW i \in Items, CompleteFails(d, i)
      PROVE  Mapped
  BY <1>19, UnchangedMapped DEF CompleteFails, row
<1>20. ASSUME NEW d \in Drivers, NEW i \in Items, FailRead(d, i)
      PROVE  Mapped
  BY <1>20, UnchangedMapped DEF FailRead, row
<1>21. ASSUME NEW d \in Drivers, NEW i \in Items, FailFails(d, i)
      PROVE  Mapped
  BY <1>21, UnchangedMapped DEF FailFails, row
<1>22. ASSUME NEW u \in Upstreams, OpenCircuit(u) \/ CloseCircuit(u)
      PROVE  Mapped
  BY <1>22, UnchangedMapped DEF OpenCircuit, CloseCircuit, row
<1>23. ASSUME Tick
      PROVE  Mapped
  BY <1>23, UnchangedMapped DEF Tick, RunDown
<1>24. ASSUME UNCHANGED vars
      PROVE  Mapped
  BY <1>24, UnchangedMapped DEF vars, row
<1>25. QED
  BY <1>1, <1>2, <1>3, <1>4, <1>5, <1>6, <1>7, <1>8, <1>9, <1>10, <1>11, <1>12, <1>13, <1>14,
     <1>15, <1>16, <1>17, <1>18, <1>19, <1>20, <1>21, <1>22, <1>23, <1>24 DEF Next, Step

(* Whatever the invocations do, crash or fail at, each row lives the life   *)
(* JobQueue describes: one charge per failed or lost claim, none for a      *)
(* deferral, and nothing after it is completed or dead.                     *)
THEOREM Implements ==
  ASSUME Prompt
  PROVE  Spec => JobQueueSpec
<1>1. Init => BudgetInv /\ ReadFresh /\ Jobs!Init
  <2> SUFFICES ASSUME Init PROVE BudgetInv /\ ReadFresh /\ Jobs!Init
    OBVIOUS
  <2>1. AttemptBudget
    BY WorkQueueRowsAssumption, WorkQueueAssumption DEF Init, RowInit, AttemptBudget
  <2>2. ReadBound /\ ReadFresh
    BY DEF Init, RowInit, ReadBound, ReadFresh, Stale
  <2>3. Jobs!Init
    BY DEF Init, RowInit, Jobs!Init
  <2>4. QED
    BY <2>1, <2>2, <2>3, TypeInit DEF BudgetInv
<1>2. BudgetInv /\ ReadFresh /\ [Next]_vars => BudgetInv' /\ ReadFresh'
  BY Prompt, TypeStep, BudgetStep, FreshStep DEF BudgetInv
<1>3. BudgetInv /\ ReadFresh /\ [Next]_vars => [Jobs!Next]_Jobs!jobVars
  BY StepMapped DEF Mapped
<1>4. QED
  BY <1>1, <1>2, <1>3, PTL DEF Spec, JobQueueSpec, Jobs!Spec

------------------------------------------------------------------------------
(* Who runs a row.  A row that an invocation has claimed is its own until   *)
(* it lets go of it: its lease lies ahead, or it sleeps until a minute      *)
(* passes, or it is over; and no minute passes meanwhile.  That holds of    *)
(* the steady domains: their rows do not wait, without a heartbeat, for     *)
(* other rows' handlers, and sleep when a handler has put them off.         *)

Live(i) == status[i] = "in_progress" /\ lease[i] > 0
Asleep(i) == (status[i] = "pending" /\ wait[i] > 0) \/ status[i] \in Terminal

Going == {"running", "returned", "failing", "failed"}
Holds(d, i) == work[d][i] \in Going \cup {"queued"}

(* The row of a held item, by what its holder is doing with it ...          *)
HeldRow(p, i) == Live(i) \/ (p \in {"returned", "failing", "failed"} /\ Asleep(i))

(* ... and of one that a sweep has read.                                    *)
SweptRow(i) == ~Live(i) /\ (status[i] = "in_progress" \/ Asleep(i))

Places ==
  \A d \in Drivers, i \in Items :
    /\ Holds(d, i) => pc[d] = "work" /\ pos[d] = Domain[i]
    /\ Stale(d, i) => pc[d] = "sweep"

HoldersOwn ==
  \A d \in Drivers, i \in SteadyItems : Holds(d, i) =>
    /\ HeldRow(work[d][i], i)
    /\ \A e \in Drivers : Holds(e, i) => e = d

SweepSees ==
  \A d \in Drivers, i \in SteadyItems : Stale(d, i) =>
    /\ SweptRow(i)
    /\ \A e \in Drivers : ~Holds(e, i)

InSlice ==
  \A d \in Drivers :
    /\ pc[d] = "claim" => pos[d] \in Capped
    /\ Slim(pos[d]) /\ pc[d] = "claim" => room[d] <= Concurrency[pos[d]]
    /\ Slim(pos[d]) /\ Queued(d) # {} =>
         Active(d) = {} /\ Cardinality(Queued(d)) <= Concurrency[pos[d]]

(* A handler that returned with its row still in progress has finished.     *)
ReturnedDone ==
  \A d \in Drivers, i \in SteadyItems : work[d][i] = "returned" /\ Live(i) => i \in finished

Owned == Places /\ HoldersOwn /\ SweepSees /\ InSlice /\ ReturnedDone

LEMMA OwnedInit == Init => Owned
BY DEF Init, Owned, Places, HoldersOwn, SweepSees, InSlice, ReturnedDone, Holds, Stale, Going,
   SteadyItems, Queued

(* Neither holding nor sweeping.                                            *)
LEMMA NotAtWork ==
  ASSUME TypeOK, Owned, NEW d \in Drivers, pc[d] \notin {"work", "sweep"}
  PROVE  \A i \in Items : work[d][i] = "none"
<1>1. \A i \in Items : work[d][i] \in Phases /\ ~Holds(d, i) /\ ~Stale(d, i)
  BY DEF TypeOK, Owned, Places
<1> QED
  BY <1>1 DEF Phases, Holds, Stale, Going

(* Invocations that stand still or drop what they have disturb nothing.     *)
LEMMA OwnedDrops ==
  ASSUME TypeOK, Owned, UNCHANGED <<status, wait, lease, finished>>,
         \A d \in Drivers :
           \/ /\ work'[d] = work[d] /\ pc'[d] = pc[d]
              /\ pos'[d] = pos[d] /\ room'[d] = room[d]
           \/ /\ \A i \in Items : work'[d][i] = "none"
              /\ pc'[d] = "claim" => /\ pos'[d] \in Capped
                                     /\ Slim(pos'[d]) => room'[d] <= Concurrency[pos'[d]]
  PROVE  Owned'
<1>1. \A d \in Drivers, i \in Items :
        work'[d][i] # "none" =>
          /\ work'[d][i] = work[d][i] /\ pc'[d] = pc[d] /\ pos'[d] = pos[d]
  OBVIOUS
<1>2. \A i \in Items : (Live(i) <=> Live(i)') /\ (Asleep(i) <=> Asleep(i)')
  BY DEF Live, Asleep
<1>3. SteadyItems \subseteq Items
  BY DEF SteadyItems
<1>4. Places'
  BY <1>1 DEF Owned, Places, Holds, Stale, Going
<1>5. HoldersOwn'
  BY <1>1, <1>2, <1>3 DEF Owned, HoldersOwn, HeldRow, Holds, Going
<1>6. SweepSees'
  BY <1>1, <1>2, <1>3 DEF Owned, SweepSees, SweptRow, Holds, Stale, Going
<1>7. ReturnedDone'
  BY <1>1, <1>2, <1>3 DEF Owned, ReturnedDone
<1>8. InSlice'
  <2> SUFFICES ASSUME NEW d \in Drivers
               PROVE  /\ pc'[d] = "claim" => pos'[d] \in Capped
                      /\ Slim(pos'[d]) /\ pc'[d] = "claim" => room'[d] <= Concurrency[pos'[d]]
                      /\ Slim(pos'[d]) /\ Queued(d)' # {} =>
                           Active(d)' = {} /\ Cardinality(Queued(d)') <= Concurrency[pos'[d]]
    BY DEF InSlice, Slim
  <2>1. CASE /\ work'[d] = work[d] /\ pc'[d] = pc[d]
             /\ pos'[d] = pos[d] /\ room'[d] = room[d]
    <3>1. Queued(d)' = Queued(d) /\ Active(d)' = Active(d)
      BY <2>1 DEF Queued, Active
    <3> QED
      BY <2>1, <3>1 DEF Owned, InSlice
  <2>2. CASE \A i \in Items : work'[d][i] = "none"
    <3>1. Queued(d)' = {}
      BY <2>2 DEF Queued
    <3>2. /\ pc'[d] = "claim" => pos'[d] \in Capped
          /\ Slim(pos'[d]) /\ pc'[d] = "claim" => room'[d] <= Concurrency[pos'[d]]
      <4>1. CASE pc'[d] = pc[d] /\ pos'[d] = pos[d] /\ room'[d] = room[d]
        BY <4>1 DEF Owned, InSlice
      <4> QED
        BY <4>1
    <3> QED
      BY <3>1, <3>2
  <2> QED
    BY <2>1, <2>2
<1> QED
  BY <1>4, <1>5, <1>6, <1>7, <1>8 DEF Owned

(* What the holder of a row does with it concerns nobody else.              *)
LEMMA HolderActs ==
  ASSUME TypeOK, Owned, NEW d \in Drivers, NEW i \in Items, work[d][i] \in Going,
         NEW p \in Going \cup {"none"}, work' = [work EXCEPT ![d][i] = p],
         UNCHANGED <<pc, pos, room>>, finished \subseteq finished',
         \A j \in Items \ {i} :
           status'[j] = status[j] /\ wait'[j] = wait[j] /\ lease'[j] = lease[j],
         i \in SteadyItems /\ p # "none" => HeldRow(p, i)',
         i \in SteadyItems /\ p = "returned" /\ Live(i)' => i \in finished'
  PROVE  Owned'
<1>1. /\ work'[d][i] = p
      /\ \A e \in Drivers, j \in Items : (e # d \/ j # i) => work'[e][j] = work[e][j]
  BY DEF TypeOK
<1>2. \A j \in Items \ {i} :
        (Live(j) <=> Live(j)') /\ (Asleep(j) <=> Asleep(j)') /\ status'[j] = status[j]
  BY DEF Live, Asleep
<1>3. /\ SteadyItems \subseteq Items
      /\ "none" \notin Going /\ "queued" \notin Going /\ "stale" \notin Going
  BY DEF SteadyItems, Going
<1>4. /\ Holds(d, i)
      /\ i \in SteadyItems =>
           \A e \in Drivers : ~Stale(e, i) /\ (Holds(e, i) => e = d)
  BY DEF Owned, HoldersOwn, SweepSees, Holds
<1>5. \A e \in Drivers, j \in Items : Holds(e, j)' => Holds(e, j)
  BY <1>1, <1>4 DEF Holds
<1>6. \A e \in Drivers, j \in Items : Stale(e, j)' => Stale(e, j) /\ (e # d \/ j # i)
  BY <1>1, <1>3 DEF Stale
<1>7. Places'
  BY <1>5, <1>6 DEF Owned, Places
<1>8. HoldersOwn'
  <2> SUFFICES ASSUME NEW e \in Drivers, NEW j \in SteadyItems, Holds(e, j)'
               PROVE  HeldRow(work[e][j], j)' /\ \A f \in Drivers : Holds(f, j)' => f = e
    BY DEF HoldersOwn
  <2>1. Holds(e, j) /\ \A f \in Drivers : Holds(f, j)' => f = e
    BY <1>3, <1>5 DEF Owned, HoldersOwn
  <2>2. CASE j = i
    <3>1. e = d /\ work'[e][j] = p /\ p # "none"
      BY <1>1, <1>3, <1>4, <2>1, <2>2 DEF Holds, Going
    <3> QED
      BY <2>1, <2>2, <3>1
  <2>3. CASE j # i
    <3>1. work'[e][j] = work[e][j] /\ HeldRow(work[e][j], j)
      BY <1>1, <1>3, <2>1, <2>3 DEF Owned, HoldersOwn
    <3> QED
      BY <1>2, <1>3, <2>1, <2>3, <3>1 DEF HeldRow
  <2> QED
    BY <2>2, <2>3
<1>9. SweepSees'
  <2> SUFFICES ASSUME NEW e \in Drivers, NEW j \in SteadyItems, Stale(e, j)'
               PROVE  SweptRow(j)' /\ \A f \in Drivers : ~Holds(f, j)'
    BY DEF SweepSees
  <2>1. Stale(e, j) /\ j # i
    BY <1>3, <1>4, <1>6
  <2>2. SweptRow(j) /\ \A f \in Drivers : ~Holds(f, j)
    BY <2>1 DEF Owned, SweepSees
  <2> QED
    BY <1>2, <1>3, <1>5, <2>1, <2>2 DEF SweptRow
<1>10. InSlice'
  <2> SUFFICES ASSUME NEW e \in Drivers
               PROVE  /\ pc'[e] = "claim" => pos'[e] \in Capped
                      /\ Slim(pos'[e]) /\ pc'[e] = "claim" => room'[e] <= Concurrency[pos'[e]]
                      /\ Slim(pos'[e]) /\ Queued(e)' # {} =>
                           Active(e)' = {} /\ Cardinality(Queued(e)') <= Concurrency[pos'[e]]
    BY DEF InSlice, Slim
  <2>1. Queued(e)' = Queued(e)
    BY <1>1, <1>3 DEF Queued
  <2>2. Active(e)' \subseteq Active(e)
    BY <1>1 DEF Active, Going
  <2> QED
    BY <2>1, <2>2 DEF Owned, InSlice
<1>11. ReturnedDone'
  <2> SUFFICES ASSUME NEW e \in Drivers, NEW j \in SteadyItems,
                      work'[e][j] = "returned", Live(j)'
               PROVE  j \in finished'
    BY DEF ReturnedDone
  <2>1. CASE j = i
    <3>1. Holds(e, j)'
      BY DEF Holds, Going
    <3>2. e = d /\ p = "returned"
      BY <1>1, <1>3, <1>4, <1>5, <2>1, <3>1
    <3> QED
      BY <2>1, <3>2
  <2>2. CASE j # i
    <3>1. work[e][j] = "returned" /\ Live(j)
      BY <1>1, <1>2, <1>3, <2>2
    <3> QED
      BY <3>1 DEF Owned, ReturnedDone
  <2> QED
    BY <2>1, <2>2
<1> QED
  BY <1>7, <1>8, <1>9, <1>10, <1>11 DEF Owned

(* A guarded transition that the holder of a live row makes leaves it       *)
(* asleep or over; of a row that is not in progress, it leaves it alone.    *)
LEMMA LeftAsleep ==
  ASSUME RowTypeOK, NEW i \in Items, NEW a \in Nat, NEW w \in Nat \ {0},
         \/ CompleteWork(i) \/ DeferWork(i, w) \/ DeadLetterWork(i)
         \/ FailWork(i, a) \/ SweepRelease(i, a)
  PROVE  /\ status[i] = "in_progress" => Asleep(i)' /\ ~Live(i)'
         /\ Asleep(i) => Asleep(i)'
         /\ ~Live(i) => ~Live(i)'
         /\ \A j \in Items \ {i} :
              status'[j] = status[j] /\ wait'[j] = wait[j] /\ lease'[j] = lease[j]
<1>1. Backoff(a) \in Nat \ {0}
  BY BackoffType
<1>2. CASE status[i] = "in_progress"
  <2>1. PICK s \in {"pending", "completed", "dead_letter"} :
          \E b : \E v \in Nat \ {0} :
            /\ status' = [status EXCEPT ![i] = s]
            /\ wait' = [wait EXCEPT ![i] = IF s = "pending" THEN v ELSE 0]
            /\ lease' = [lease EXCEPT ![i] = NoLease]
    <3>1. CASE CompleteWork(i)
      BY <1>2, <3>1, 1 \in Nat \ {0} DEF CompleteWork, IfInProgress, Leave
    <3>2. CASE DeferWork(i, w)
      BY <1>2, <3>2 DEF DeferWork, IfInProgress, Leave
    <3>3. CASE DeadLetterWork(i)
      BY <1>2, <3>3, 1 \in Nat \ {0} DEF DeadLetterWork, IfInProgress, Leave
    <3>4. CASE FailWork(i, a)
      BY <1>1, <1>2, <3>4 DEF FailWork, IfInProgress, Leave
    <3>5. CASE SweepRelease(i, a)
      BY <1>1, <1>2, <3>5 DEF SweepRelease, IfInProgress, Leave
    <3> QED
      BY <3>1, <3>2, <3>3, <3>4, <3>5
  <2> QED
    BY <1>2, <2>1 DEF RowTypeOK, Asleep, Live, Terminal
<1>3. CASE status[i] # "in_progress"
  BY <1>3 DEF CompleteWork, DeferWork, DeadLetterWork, FailWork, SweepRelease, IfInProgress,
     row, Asleep, Live
<1> QED
  BY <1>2, <1>3

(* A handler, and what follows it.                                          *)
LEMMA HandlerOwned ==
  ASSUME TypeOK, Owned, NEW d \in Drivers, NEW i \in Items,
         \/ Heartbeat(d, i) \/ HandlerReturns(d, i) \/ HandlerThrows(d, i)
         \/ HandlerDeadLetters(d, i) \/ \E w \in DeferDelays[Domain[i]] : HandlerDefers(d, i, w)
         \/ Complete(d, i) \/ CompleteFails(d, i) \/ FailRead(d, i) \/ Fail(d, i)
         \/ FailFails(d, i)
  PROVE  Owned'
<1>0. /\ RowTypeOK /\ work \in [Drivers -> [Items -> Phases]]
      /\ seen[d][i] \in Nat /\ 1 \in Nat \ {0} /\ 0 \in Nat
  BY DEF TypeOK, RowTypeOK
<1>1. work[d][i] \in Going
  BY DEF Heartbeat, HandlerReturns, HandlerThrows, HandlerDeadLetters, HandlerDefers,
     Complete, CompleteFails, FailRead, Fail, FailFails, Going
<1>2. /\ Holds(d, i)
      /\ i \in SteadyItems => HeldRow(work[d][i], i)
      /\ i \in SteadyItems /\ work[d][i] = "running" => Live(i)
  BY <1>1 DEF Owned, HoldersOwn, Holds, HeldRow
<1>3. UNCHANGED <<pc, pos, room>> /\ finished \subseteq finished'
  BY DEF Heartbeat, HandlerReturns, HandlerThrows, HandlerDeadLetters, HandlerDefers,
     Complete, CompleteFails, FailRead, Fail, FailFails, driver
<1>4. CASE Heartbeat(d, i)
  <2>1. work' = [work EXCEPT ![d][i] = "running"]
    BY <1>0, <1>4 DEF Heartbeat, driver
  <2>2. \A j \in Items \ {i} :
          status'[j] = status[j] /\ wait'[j] = wait[j] /\ lease'[j] = lease[j]
    BY <1>0, <1>4 DEF Heartbeat, RecordHeartbeat, RowTypeOK
  <2>3. Live(i) => Live(i)'
    BY <1>0, <1>4, WorkQueueRowsAssumption DEF Heartbeat, RecordHeartbeat, RowTypeOK, Live
  <2>4. work[d][i] = "running" /\ "running" \in Going
    BY <1>4 DEF Heartbeat, Going
  <2> QED
    BY <1>1, <1>2, <1>3, <2>1, <2>2, <2>3, <2>4, HolderActs DEF HeldRow
<1>5. CASE HandlerReturns(d, i) \/ HandlerThrows(d, i) \/ CompleteFails(d, i) \/ FailRead(d, i)
  <2>1. PICK p \in {"returned", "failing", "failed"} :
          /\ work' = [work EXCEPT ![d][i] = p]
          /\ p = "returned" => i \in finished'
    BY <1>5 DEF HandlerReturns, HandlerThrows, CompleteFails, FailRead, Phase
  <2>2. UNCHANGED row
    BY <1>5 DEF HandlerReturns, HandlerThrows, CompleteFails, FailRead
  <2>3. (Live(i) <=> Live(i)') /\ (Asleep(i) <=> Asleep(i)')
    BY <2>2 DEF Live, Asleep, row
  <2>4. i \in SteadyItems => HeldRow(p, i)'
    BY <1>2, <2>3 DEF HeldRow
  <2> QED
    BY <1>1, <1>3, <2>1, <2>2, <2>4, HolderActs DEF row, Going
<1>6. CASE FailFails(d, i)
  <2>1. work' = [work EXCEPT ![d][i] = "none"] /\ UNCHANGED row
    BY <1>6 DEF FailFails, Phase
  <2> QED
    BY <1>1, <1>3, <2>1, HolderActs DEF row
<1>7. ASSUME NEW p \in {"none", "returned", "failing"}, Phase(d, i, p),
             NEW a \in Nat, NEW w \in Nat \ {0},
             \/ CompleteWork(i) \/ DeferWork(i, w) \/ DeadLetterWork(i) \/ FailWork(i, a),
             p # "none" => work[d][i] = "running"
      PROVE  Owned'
  <2>1. /\ status[i] = "in_progress" => Asleep(i)' /\ ~Live(i)'
        /\ \A j \in Items \ {i} :
             status'[j] = status[j] /\ wait'[j] = wait[j] /\ lease'[j] = lease[j]
    BY <1>0, <1>7, LeftAsleep
  <2>2. i \in SteadyItems /\ p # "none" => HeldRow(p, i)' /\ ~Live(i)'
    BY <1>2, <1>7, <2>1 DEF HeldRow, Live
  <2>3. work' = [work EXCEPT ![d][i] = p] /\ p \in Going \cup {"none"}
    BY <1>7 DEF Phase, Going
  <2> QED
    BY <1>1, <1>3, <2>1, <2>2, <2>3, HolderActs
<1>8. CASE HandlerDeadLetters(d, i)
  BY <1>0, <1>7, <1>8 DEF HandlerDeadLetters
<1>9. CASE Complete(d, i)
  BY <1>0, <1>7, <1>9 DEF Complete
<1>10. CASE Fail(d, i)
  BY <1>0, <1>7, <1>10 DEF Fail
<1>11. ASSUME NEW w \in DeferDelays[Domain[i]], HandlerDefers(d, i, w)
       PROVE  Owned'
  <2>1. w \in Nat
    BY DefersType
  <2>2. PICK p \in {"returned", "failing"} : Phase(d, i, p)
    BY <1>11 DEF HandlerDefers
  <2>3. CASE i \in SteadyItems
    <3>1. w # 0
      BY <2>3 DEF SteadyItems, Steady
    <3> QED
      BY <1>0, <1>7, <1>11, <2>1, <2>2, <3>1 DEF HandlerDefers
  <2>4. CASE i \notin SteadyItems
    <3>1. \A j \in Items \ {i} :
            status'[j] = status[j] /\ wait'[j] = wait[j] /\ lease'[j] = lease[j]
      BY <1>0, <1>11 DEF HandlerDefers, DeferWork, IfInProgress, Leave, row, RowTypeOK
    <3>2. work' = [work EXCEPT ![d][i] = p] /\ p \in Going \cup {"none"}
      BY <2>2 DEF Phase, Going
    <3> QED
      BY <1>1, <1>3, <2>4, <3>1, <3>2, HolderActs
  <2> QED
    BY <2>3, <2>4
<1> QED
  BY <1>4, <1>5, <1>6, <1>8, <1>9, <1>10, <1>11

LEMMA SweepOwned ==
  ASSUME TypeOK, Owned, NEW d \in Drivers, NEW i \in Items, SweepRow(d, i)
  PROVE  Owned'
<1>0. /\ RowTypeOK /\ work \in [Drivers -> [Items -> Phases]]
      /\ seen[d][i] \in Nat /\ 1 \in Nat \ {0}
      /\ SteadyItems \subseteq Items
  BY DEF TypeOK, RowTypeOK, SteadyItems
<1>1. /\ Stale(d, i) /\ SweepRelease(i, seen[d][i])
      /\ work' = [work EXCEPT ![d][i] = "none"]
      /\ UNCHANGED <<pc, pos, room, finished>>
  BY DEF SweepRow, Phase, Stale
<1>2. /\ \A e \in Drivers, j \in Items : Holds(e, j)' <=> Holds(e, j)
      /\ \A e \in Drivers, j \in Items : Holds(e, j)' => work'[e][j] = work[e][j]
      /\ \A e \in Drivers, j \in Items : Stale(e, j)' => Stale(e, j)
      /\ \A e \in Drivers, j \in Items : work'[e][j] = "returned" => work[e][j] = "returned"
  BY <1>0, <1>1 DEF Holds, Stale, Going
<1>3. i \in SteadyItems => SweptRow(i) /\ \A e \in Drivers : ~Holds(e, i)
  BY <1>1 DEF Owned, SweepSees
<1>4. /\ i \in SteadyItems => SweptRow(i)'
      /\ \A j \in Items \ {i} : status'[j] = status[j] /\ wait'[j] = wait[j] /\ lease'[j] = lease[j]
  BY <1>0, <1>1, <1>3, LeftAsleep DEF SweptRow
<1>5. \A j \in Items \ {i} :
        (Live(j) <=> Live(j)') /\ (Asleep(j) <=> Asleep(j)') /\ status'[j] = status[j]
  BY <1>4 DEF Live, Asleep
<1>6. Places'
  BY <1>1, <1>2 DEF Owned, Places
<1>7. HoldersOwn'
  BY <1>0, <1>2, <1>3, <1>5 DEF Owned, HoldersOwn, HeldRow
<1>8. SweepSees'
  <2> SUFFICES ASSUME NEW e \in Drivers, NEW j \in SteadyItems, Stale(e, j)'
               PROVE  SweptRow(j)' /\ \A f \in Drivers : ~Holds(f, j)'
    BY DEF SweepSees
  <2>1. SweptRow(j) /\ \A f \in Drivers : ~Holds(f, j)
    BY <1>0, <1>2 DEF Owned, SweepSees
  <2>2. SweptRow(j)'
    BY <1>0, <1>4, <1>5, <2>1 DEF SweptRow
  <2> QED
    BY <1>0, <1>2, <2>1, <2>2
<1>9. InSlice'
  <2>1. \A e \in Drivers : Queued(e)' = Queued(e) /\ Active(e)' = Active(e)
    BY <1>0, <1>1 DEF Queued, Active, Stale
  <2> QED
    BY <1>1, <2>1 DEF Owned, InSlice, Slim
<1>10. ReturnedDone'
  BY <1>0, <1>1, <1>2, <1>3, <1>5 DEF Owned, ReturnedDone, Holds, Going
<1> QED
  BY <1>6, <1>7, <1>8, <1>9, <1>10 DEF Owned

LEMMA StartTickOwned ==
  ASSUME TypeOK, Owned, NEW d \in Drivers, StartTick(d)
  PROVE  Owned'
<1>0. /\ pc \in [Drivers -> {"idle", "sweep", "domain", "claim", "work"}]
      /\ work \in [Drivers -> [Items -> Phases]]
      /\ lease \in [Items -> Nat \cup {NoLease}]
      /\ SteadyItems \subseteq Items
  BY DEF TypeOK, RowTypeOK, SteadyItems
<1>1. /\ pc[d] = "idle" /\ pc' = [pc EXCEPT ![d] = "sweep"]
      /\ work' = [work EXCEPT ![d] =
           [i \in Items |-> IF i \in StaleClaims THEN "stale" ELSE "none"]]
      /\ UNCHANGED <<status, wait, lease, pos, room, finished>>
  BY DEF StartTick, row
<1>2. \A i \in Items : work[d][i] = "none"
  BY <1>1, NotAtWork
<1>3. \A i \in Items : (Live(i) <=> Live(i)') /\ (Asleep(i) <=> Asleep(i)')
  BY <1>1 DEF Live, Asleep
<1>4. \A e \in Drivers \ {d} : work'[e] = work[e] /\ pc'[e] = pc[e]
  BY <1>0, <1>1
<1>5. /\ pc'[d] = "sweep"
      /\ \A i \in Items : ~Holds(d, i)' /\ (Stale(d, i)' => i \in StaleClaims)
  BY <1>0, <1>1 DEF Holds, Stale, Going
<1>6. \A i \in StaleClaims \cap SteadyItems : SweptRow(i) /\ \A e \in Drivers : ~Holds(e, i)
  <2> SUFFICES ASSUME NEW i \in StaleClaims \cap SteadyItems
               PROVE  SweptRow(i) /\ \A e \in Drivers : ~Holds(e, i)
    OBVIOUS
  <2>1. status[i] = "in_progress" /\ ~Live(i) /\ ~Asleep(i)
    BY DEF StaleClaims, Live, Asleep, Terminal
  <2> QED
    BY <2>1 DEF SweptRow, Owned, HoldersOwn, HeldRow
<1>7. Places'
  BY <1>1, <1>4, <1>5 DEF Owned, Places, Holds, Stale
<1>8. HoldersOwn'
  <2>1. \A e \in Drivers, i \in Items : Holds(e, i)' => Holds(e, i) /\ work'[e][i] = work[e][i]
    BY <1>4, <1>5 DEF Holds
  <2> QED
    BY <1>0, <1>3, <2>1 DEF Owned, HoldersOwn, HeldRow
<1>9. SweepSees'
  <2>1. \A e \in Drivers, i \in SteadyItems : Holds(e, i)' => Holds(e, i)
    BY <1>0, <1>4, <1>5 DEF Holds
  <2>2. \A e \in Drivers, i \in SteadyItems : Stale(e, i)' => Stale(e, i) \/ i \in StaleClaims
    BY <1>0, <1>4, <1>5 DEF Stale
  <2>3. \A e \in Drivers, i \in SteadyItems : Stale(e, i)' =>
          SweptRow(i) /\ \A f \in Drivers : ~Holds(f, i)
    BY <1>6, <2>2 DEF Owned, SweepSees
  <2> QED
    BY <1>0, <1>1, <1>3, <2>1, <2>3 DEF SweepSees, SweptRow
<1>10. InSlice'
  <2>1. Queued(d)' = {}
    BY <1>5 DEF Holds, Queued
  <2>2. \A e \in Drivers \ {d} : Queued(e)' = Queued(e) /\ Active(e)' = Active(e)
    BY <1>4 DEF Queued, Active
  <2>3. \A e \in Drivers \ {d} : pc'[e] = pc[e] /\ pos'[e] = pos[e] /\ room'[e] = room[e]
    BY <1>1, <1>4
  <2> QED
    BY <1>5, <2>1, <2>2, <2>3 DEF Owned, InSlice, Slim
<1>11. ReturnedDone'
  <2>1. \A i \in Items : work'[d][i] # "returned"
    BY <1>0, <1>1
  <2> QED
    BY <1>0, <1>1, <1>3, <1>4, <2>1 DEF Owned, ReturnedDone
<1> QED
  BY <1>7, <1>8, <1>9, <1>10, <1>11 DEF Owned

(* What may be claimed is nobody's.                                         *)
LEMMA ClaimableIsFree ==
  ASSUME Owned, NEW k, NEW closed, NEW i \in Claimable(k, closed)
  PROVE  /\ i \in Items /\ Domain[i] = k
         /\ i \in SteadyItems => \A e \in Drivers : ~Holds(e, i) /\ ~Stale(e, i)
<1>1. i \in Items /\ Domain[i] = k /\ status[i] = "pending" /\ wait[i] = 0
  BY DEF Claimable
<1>2. ~Live(i) /\ ~Asleep(i) /\ status[i] # "in_progress"
  BY <1>1 DEF Live, Asleep, Terminal
<1> QED
  BY <1>1, <1>2 DEF Owned, HoldersOwn, HeldRow, SweepSees, SweptRow

LEMMA ClaimOwned ==
  ASSUME TypeOK, Owned, NEW d \in Drivers, Claim(d)
  PROVE  Owned'
<1>0. /\ pc \in [Drivers -> {"idle", "sweep", "domain", "claim", "work"}]
      /\ work \in [Drivers -> [Items -> Phases]]
      /\ room \in [Drivers -> Nat] /\ pos[d] \in 1..NumDomains
      /\ lease \in [Items -> Nat \cup {NoLease}]
      /\ SteadyItems \subseteq Items
  BY DEF TypeOK, RowTypeOK, SteadyItems
<1>1. PICK batch \in SUBSET Claimable(pos[d], shut[d]) :
        /\ IsFirst(batch, Claimable(pos[d], shut[d]), ClaimLimit(d))
        /\ ClaimRows(batch)
        /\ work' = [work EXCEPT ![d] =
             [i \in Items |-> IF i \in batch THEN "queued" ELSE "none"]]
  BY DEF Claim
<1>2. /\ pc' = [pc EXCEPT ![d] = "work"] /\ UNCHANGED <<pos, finished>>
      /\ room' = [room EXCEPT ![d] = 0]
      /\ pc[d] \in {"domain", "claim"} /\ ReadyToClaim(d)
  BY DEF Claim, ReadyToClaim
<1>3. \A i \in batch :
        /\ i \in Items /\ Domain[i] = pos[d]
        /\ i \in SteadyItems => \A e \in Drivers : ~Holds(e, i) /\ ~Stale(e, i)
  BY ClaimableIsFree
<1>4. \A i \in batch : Live(i)'
  BY <1>1, <1>3, WorkQueueRowsAssumption DEF ClaimRows, Live
<1>5. \A i \in Items \ batch :
        (Live(i) <=> Live(i)') /\ (Asleep(i) <=> Asleep(i)') /\ status'[i] = status[i]
  BY <1>1 DEF ClaimRows, Live, Asleep
<1>6. \A e \in Drivers \ {d} : /\ work'[e] = work[e] /\ pc'[e] = pc[e] /\ pos'[e] = pos[e]
                               /\ room'[e] = room[e]
  BY <1>0, <1>1, <1>2
<1>7. /\ pc'[d] = "work"
      /\ \A i \in Items : /\ ~Stale(d, i)'
                          /\ Holds(d, i)' => i \in batch /\ work'[d][i] = "queued"
                          /\ i \notin batch => ~Holds(d, i)'
  BY <1>0, <1>1, <1>2 DEF Holds, Stale, Going
<1>8. \A e \in Drivers \ {d}, i \in Items :
        (Holds(e, i)' <=> Holds(e, i)) /\ (Stale(e, i)' <=> Stale(e, i))
  BY <1>6 DEF Holds, Stale
<1>9. Places'
  BY <1>2, <1>3, <1>6, <1>7, <1>8 DEF Owned, Places
<1>10. HoldersOwn'
  <2> SUFFICES ASSUME NEW e \in Drivers, NEW i \in SteadyItems, Holds(e, i)'
               PROVE  HeldRow(work[e][i], i)' /\ \A f \in Drivers : Holds(f, i)' => f = e
    BY DEF HoldersOwn
  <2>1. CASE i \in batch
    <3>1. \A f \in Drivers : Holds(f, i)' => f = d
      BY <1>3, <1>8, <2>1
    <3> QED
      BY <1>4, <2>1, <3>1 DEF HeldRow
  <2>2. CASE i \notin batch
    <3>1. e # d /\ Holds(e, i) /\ work'[e][i] = work[e][i]
      BY <1>0, <1>6, <1>7, <1>8, <2>2
    <3>2. HeldRow(work[e][i], i) /\ \A f \in Drivers : Holds(f, i) => f = e
      BY <3>1 DEF Owned, HoldersOwn
    <3>3. \A f \in Drivers : Holds(f, i)' => Holds(f, i)
      BY <1>0, <1>7, <1>8, <2>2
    <3> QED
      BY <1>0, <1>5, <2>2, <3>1, <3>2, <3>3 DEF HeldRow
  <2> QED
    BY <2>1, <2>2
<1>11. SweepSees'
  <2> SUFFICES ASSUME NEW e \in Drivers, NEW i \in SteadyItems, Stale(e, i)'
               PROVE  SweptRow(i)' /\ \A f \in Drivers : ~Holds(f, i)'
    BY DEF SweepSees
  <2>1. e # d /\ Stale(e, i)
    BY <1>0, <1>7, <1>8
  <2>2. i \notin batch
    BY <1>3, <2>1
  <2>3. SweptRow(i) /\ \A f \in Drivers : ~Holds(f, i)
    BY <2>1 DEF Owned, SweepSees
  <2> QED
    BY <1>0, <1>5, <1>7, <1>8, <2>2, <2>3 DEF SweptRow
<1>12. InSlice'
  <2>1. \A e \in Drivers \ {d} : Queued(e)' = Queued(e) /\ Active(e)' = Active(e)
    BY <1>6 DEF Queued, Active
  <2>2. Queued(d)' = batch /\ Active(d)' = {}
    <3>1. \A i \in Items : work'[d][i] = IF i \in batch THEN "queued" ELSE "none"
      BY <1>0, <1>1
    <3> QED
      BY <1>3, <3>1 DEF Queued, Active
  <2>3. Slim(pos[d]) => Cardinality(batch) <= Concurrency[pos[d]]
    <3> SUFFICES ASSUME Slim(pos[d])
                 PROVE  Cardinality(batch) <= Concurrency[pos[d]]
      OBVIOUS
    <3>1. ClaimLimit(d) \in Nat /\ Concurrency[pos[d]] \in Nat
      BY <1>0, WorkQueueAssumption DEF ClaimLimit
    <3>2. ClaimLimit(d) <= Concurrency[pos[d]]
      BY <1>2, WorkQueueAssumption DEF ReadyToClaim, ClaimLimit, Owned, InSlice, Slim
    <3>3. IsFiniteSet(batch) /\ Cardinality(batch) \in Nat
      BY <1>3, WorkQueueRowsAssumption, FS_Subset, FS_CardinalityType
    <3>4. Cardinality(batch) <= ClaimLimit(d)
      BY <1>1, <3>1, <3>3 DEF IsFirst
    <3> QED
      BY <3>1, <3>2, <3>3, <3>4
  <2> SUFFICES ASSUME NEW e \in Drivers
               PROVE  /\ pc'[e] = "claim" => pos'[e] \in Capped
                      /\ Slim(pos'[e]) /\ pc'[e] = "claim" => room'[e] <= Concurrency[pos'[e]]
                      /\ Slim(pos'[e]) /\ Queued(e)' # {} =>
                           Active(e)' = {} /\ Cardinality(Queued(e)') <= Concurrency[pos'[e]]
    BY DEF InSlice, Slim
  <2>4. CASE e = d
    <3>1. Cardinality(Queued(d)') = Cardinality(batch)
      BY <2>2, Zenon
    <3> QED
      BY <1>2, <1>7, <2>2, <2>3, <2>4, <3>1
  <2>5. CASE e # d
    <3>1. Queued(e)' = Queued(e) /\ Active(e)' = Active(e)
      BY <2>1, <2>5
    <3> QED
      BY <1>6, <2>5, <3>1 DEF Owned, InSlice
  <2> QED
    BY <2>4, <2>5
<1>13. ReturnedDone'
  <2> SUFFICES ASSUME NEW e \in Drivers, NEW i \in SteadyItems,
                      work'[e][i] = "returned", Live(i)'
               PROVE  i \in finished'
    BY DEF ReturnedDone
  <2>1. Holds(e, i)'
    BY DEF Holds, Going
  <2>2. e # d /\ work[e][i] = "returned" /\ Holds(e, i)
    BY <1>0, <1>6, <1>7, <1>8, <2>1
  <2>3. i \notin batch
    BY <1>3, <2>2
  <2> QED
    BY <1>0, <1>2, <1>5, <2>2, <2>3 DEF Owned, ReturnedDone
<1> QED
  BY <1>9, <1>10, <1>11, <1>12, <1>13 DEF Owned

(* The slice of a slim domain is all that was claimed.                      *)
LEMMA StartGroupOwned ==
  ASSUME TypeOK, Owned, NEW d \in Drivers, StartGroup(d)
  PROVE  Owned'
<1>0. /\ work \in [Drivers -> [Items -> Phases]]
      /\ pos[d] \in 1..NumDomains
      /\ SteadyItems \subseteq Items
  BY DEF TypeOK, SteadyItems
<1>1. PICK group \in SUBSET Queued(d) :
        /\ \/ group = Queued(d) /\ Cardinality(group) <= Concurrency[pos[d]]
           \/ Cardinality(group) = Concurrency[pos[d]]
        /\ work' = [work EXCEPT ![d] =
             [i \in Items |-> IF i \in group THEN "running" ELSE work[d][i]]]
  BY DEF StartGroup
<1>2. UNCHANGED <<status, wait, lease, pc, pos, room, finished>> /\ Active(d) = {}
  BY DEF StartGroup, row
<1>3. \A i \in Items : (Live(i) <=> Live(i)') /\ (Asleep(i) <=> Asleep(i)')
  BY <1>2 DEF Live, Asleep
<1>4. \A e \in Drivers, i \in Items :
        \/ work'[e][i] = work[e][i]
        \/ e = d /\ i \in group /\ work'[e][i] = "running" /\ work[e][i] = "queued"
  BY <1>0, <1>1 DEF Queued
<1>5. \A e \in Drivers, i \in Items :
        (Holds(e, i)' <=> Holds(e, i)) /\ (Stale(e, i)' <=> Stale(e, i))
  BY <1>4 DEF Holds, Stale, Going
<1>6. Places' /\ SweepSees'
  BY <1>0, <1>2, <1>3, <1>5 DEF Owned, Places, SweepSees, SweptRow
<1>7. HoldersOwn'
  BY <1>0, <1>3, <1>4, <1>5 DEF Owned, HoldersOwn, HeldRow
<1>8. ReturnedDone'
  BY <1>0, <1>2, <1>3, <1>4 DEF Owned, ReturnedDone
<1>9. InSlice'
  <2>1. \A e \in Drivers \ {d} : Queued(e)' = Queued(e) /\ Active(e)' = Active(e)
    BY <1>0, <1>1 DEF Queued, Active
  <2>2. Slim(pos[d]) => Queued(d)' = {}
    <3> SUFFICES ASSUME Slim(pos[d])
                 PROVE  Queued(d)' = {}
      OBVIOUS
    <3>1. Queued(d) # {}
      BY DEF StartGroup
    <3>2. Cardinality(Queued(d)) <= Concurrency[pos[d]]
      BY <3>1 DEF Owned, InSlice
    <3>3. IsFiniteSet(Queued(d)) /\ IsFiniteSet(group)
      BY WorkQueueRowsAssumption, FS_Subset DEF Queued
    <3>4. Cardinality(Queued(d)) \in Nat /\ Concurrency[pos[d]] \in Nat
      BY <1>0, <3>3, FS_CardinalityType, WorkQueueAssumption
    <3>5. group = Queued(d)
      <4>1. CASE Cardinality(group) = Concurrency[pos[d]]
        <5>1. Cardinality(group) <= Cardinality(Queued(d))
          BY <3>3, FS_Subset
        <5>2. Cardinality(group) = Cardinality(Queued(d))
          BY <3>2, <3>4, <4>1, <5>1
        <5> QED
          BY <3>3, <5>2, FS_Subset
      <4> QED
        BY <1>1, <4>1
    <3> QED
      BY <1>0, <1>1, <3>5 DEF Queued
  <2> SUFFICES ASSUME NEW e \in Drivers
               PROVE  /\ pc'[e] = "claim" => pos'[e] \in Capped
                      /\ Slim(pos'[e]) /\ pc'[e] = "claim" => room'[e] <= Concurrency[pos'[e]]
                      /\ Slim(pos'[e]) /\ Queued(e)' # {} =>
                           Active(e)' = {} /\ Cardinality(Queued(e)') <= Concurrency[pos'[e]]
    BY DEF InSlice, Slim
  <2>3. CASE e = d
    BY <1>2, <2>2, <2>3 DEF Owned, InSlice
  <2>4. CASE e # d
    <3>1. Queued(e)' = Queued(e) /\ Active(e)' = Active(e)
      BY <2>1, <2>4
    <3> QED
      BY <1>2, <3>1 DEF Owned, InSlice
  <2> QED
    BY <2>3, <2>4
<1> QED
  BY <1>6, <1>7, <1>8, <1>9 DEF Owned

(* Steps that take no row up and let none go but by forgetting it.          *)
LEMMA QuietOwned ==
  ASSUME TypeOK, Owned, NEW d \in Drivers,
         \/ SweepFails(d) \/ ReadCircuits(d) \/ CountActive(d)
         \/ ClaimFails(d) \/ NextDomain(d) \/ Crash(d)
  PROVE  Owned'
<1>0. /\ pc \in [Drivers -> {"idle", "sweep", "domain", "claim", "work"}]
      /\ pos \in [Drivers -> 1..NumDomains]
      /\ room \in [Drivers -> Nat]
      /\ shut \in [Drivers -> SUBSET Upstreams]
      /\ work \in [Drivers -> [Items -> Phases]]
  BY DEF TypeOK
<1> DEFINE Drops ==
      /\ \A e \in Drivers \ {d} : /\ work'[e] = work[e] /\ pc'[e] = pc[e]
                                  /\ pos'[e] = pos[e] /\ room'[e] = room[e]
      /\ \A i \in Items : work'[d][i] = "none"
      /\ pc'[d] = "claim" => /\ pos'[d] \in Capped
                             /\ Slim(pos'[d]) => room'[d] <= Concurrency[pos'[d]]
<1>1. UNCHANGED <<status, wait, lease, finished>>
  BY DEF SweepFails, ReadCircuits, CountActive, ClaimFails, NextDomain, Crash, row
<1>2. ASSUME Drops PROVE Owned'
  BY <1>1, <1>2, OwnedDrops
<1>3. ASSUME NextHandler(d)
      PROVE  /\ \A e \in Drivers \ {d} : pc'[e] = pc[e] /\ pos'[e] = pos[e]
             /\ pc'[d] # "claim"
  BY <1>0, <1>3 DEF NextHandler
<1>4. CASE SweepFails(d)
  <2>1. pc[d] = "sweep"
    BY <1>4 DEF SweepFails, Owned, Places, Stale
  <2> QED
    BY <1>0, <1>2, <1>4, <2>1 DEF SweepFails
<1>5. CASE ReadCircuits(d)
  BY <1>0, <1>2, <1>5 DEF ReadCircuits
<1>6. CASE CountActive(d)
  <2>1. /\ \A i \in Items : work[d][i] = "none"
        /\ pos[d] \in Capped /\ UNCHANGED work
    BY <1>6, NotAtWork DEF CountActive
  <2> DEFINE k == pos[d]
             available == MaxConcurrent[k] - ActiveCount(k)
             n == IF available < Limit[k] THEN available ELSE Limit[k]
  <2>2. CASE available <= 0
    <3>1. NextHandler(d) /\ UNCHANGED room
      BY <1>6, <2>2 DEF CountActive
    <3> QED
      BY <1>2, <1>3, <2>1, <3>1
  <2>3. CASE ~(available <= 0)
    <3>1. /\ pc' = [pc EXCEPT ![d] = "claim"] /\ room' = [room EXCEPT ![d] = n]
          /\ UNCHANGED <<pos, shut>>
      BY <1>6, <2>3 DEF CountActive
    <3>2. /\ ActiveCount(k) \in Nat
          /\ Limit[k] \in Nat /\ MaxConcurrent[k] \in Nat /\ Concurrency[k] \in Nat
      <4>1. ActiveCount(k) \in Nat
        BY WorkQueueRowsAssumption, FS_Subset, FS_CardinalityType DEF ActiveCount
      <4> QED
        BY <1>0, <2>1, <4>1, WorkQueueAssumption
    <3>3. Slim(k) => n <= Concurrency[k]
      BY <3>2 DEF Slim
    <3> HIDE DEF n
    <3> QED
      BY <1>0, <1>2, <2>1, <3>1, <3>3
  <2> QED
    BY <2>2, <2>3
<1>7. CASE ClaimFails(d)
  <2>1. \A i \in Items : work[d][i] = "none"
    BY <1>7, NotAtWork DEF ClaimFails
  <2>2. NextHandler(d) /\ room' = [room EXCEPT ![d] = 0] /\ UNCHANGED work
    BY <1>7 DEF ClaimFails
  <2> QED
    BY <1>0, <1>2, <1>3, <2>1, <2>2
<1>8. CASE NextDomain(d)
  BY <1>2, <1>3, <1>8 DEF NextDomain
<1>9. CASE Crash(d)
  BY <1>0, <1>2, <1>9 DEF Crash
<1> QED
  BY <1>4, <1>5, <1>6, <1>7, <1>8, <1>9

(* A new row is nobody's.                                                   *)
LEMMA EnqueueOwned ==
  ASSUME TypeOK, Owned, NEW i \in Items, NEW w \in EnqueueDelays, Enqueue(i, w)
  PROVE  Owned'
<1>0. /\ status \in [Items -> Statuses] /\ wait \in [Items -> Nat]
      /\ SteadyItems \subseteq Items
  BY DEF TypeOK, RowTypeOK, SteadyItems
<1>1. /\ status[i] = "absent" /\ status' = [status EXCEPT ![i] = "pending"]
      /\ wait' = [wait EXCEPT ![i] = w]
      /\ UNCHANGED <<lease, pc, pos, room, work, finished>>
  BY DEF Enqueue, Insert, driver
<1>2. /\ \A j \in Items \ {i} : /\ (Live(j) <=> Live(j)') /\ (Asleep(j) <=> Asleep(j)')
                                /\ status'[j] = status[j]
      /\ ~Live(i) /\ ~Asleep(i) /\ status[i] # "in_progress" /\ ~Live(i)'
  BY <1>0, <1>1 DEF Live, Asleep, Terminal
<1>3. \A d \in Drivers, j \in Items :
        (Holds(d, j)' <=> Holds(d, j)) /\ (Stale(d, j)' <=> Stale(d, j))
  BY <1>1 DEF Holds, Stale
<1>4. \A d \in Drivers, j \in SteadyItems : Holds(d, j) \/ Stale(d, j) => j # i
  BY <1>2 DEF Owned, HoldersOwn, HeldRow, SweepSees, SweptRow
<1>5. Places' /\ InSlice'
  BY <1>1, <1>3 DEF Owned, Places, InSlice, Slim, Queued, Active
<1>6. HoldersOwn'
  BY <1>0, <1>1, <1>2, <1>3, <1>4 DEF Owned, HoldersOwn, HeldRow
<1>7. SweepSees'
  BY <1>0, <1>1, <1>2, <1>3, <1>4 DEF Owned, SweepSees, SweptRow
<1>8. ReturnedDone'
  BY <1>0, <1>1, <1>2 DEF Owned, ReturnedDone
<1> QED
  BY <1>5, <1>6, <1>7, <1>8 DEF Owned

(* A minute finds every held row of a slim domain with its handler, whose   *)
(* heartbeat has renewed the lease.                                         *)
LEMMA TickOwned ==
  ASSUME TypeOK, Owned, Prompt, Timely, Tick
  PROVE  Owned'
<1>0. /\ pc \in [Drivers -> {"idle", "sweep", "domain", "claim", "work"}]
      /\ work \in [Drivers -> [Items -> Phases]]
      /\ lease \in [Items -> Nat \cup {NoLease}]
      /\ SteadyItems \subseteq Items
  BY DEF TypeOK, RowTypeOK, SteadyItems
<1>1. /\ \A d \in Drivers : ~Between(d)
      /\ \A d \in Drivers, i \in Items :
           work[d][i] = "running" /\ status[i] = "in_progress" => lease[i] > 1
      /\ lease' = [i \in Items |-> IF lease[i] > 0 THEN lease[i] - 1 ELSE lease[i]]
      /\ UNCHANGED <<status, pc, pos, room, work, finished>>
  BY DEF Tick, RunDown, driver
<1>2. \A d \in Drivers, i \in Items :
        /\ ~Stale(d, i)
        /\ work[d][i] \notin {"returned", "failing", "failed"}
  BY <1>1 DEF Between, Owned, Places
<1>3. ASSUME NEW d \in Drivers, NEW i \in SteadyItems, Holds(d, i)
      PROVE  work[d][i] = "running"
  <2>1. pc[d] = "work" /\ pos[d] = Domain[i]
    BY <1>0, <1>3 DEF Owned, Places
  <2>2. Active(d) # {}
    BY <1>1, <2>1 DEF Between
  <2>3. Queued(d) = {}
    BY <2>1, <2>2 DEF Owned, InSlice, SteadyItems, Steady
  <2> QED
    BY <1>0, <1>2, <1>3, <2>3 DEF Holds, Going, Queued
<1>4. \A d \in Drivers, i \in SteadyItems : Holds(d, i) => Live(i)'
  <2> SUFFICES ASSUME NEW d \in Drivers, NEW i \in SteadyItems, Holds(d, i)
               PROVE  Live(i)'
    OBVIOUS
  <2>1. work[d][i] = "running" /\ i \in Items
    BY <1>0, <1>3
  <2>2. Live(i)
    BY <2>1 DEF Owned, HoldersOwn, HeldRow
  <2>3. status[i] = "in_progress" /\ lease[i] > 1 /\ lease[i] \in Int
    BY <1>0, <1>1, <2>1, <2>2 DEF Live, NoLease
  <2> QED
    BY <1>1, <2>1, <2>3 DEF Live
<1>5. \A d \in Drivers, i \in Items :
        (Holds(d, i)' <=> Holds(d, i)) /\ (Stale(d, i)' <=> Stale(d, i))
  BY <1>1 DEF Holds, Stale
<1>6. Places' /\ InSlice'
  BY <1>1, <1>5 DEF Owned, Places, InSlice, Slim, Queued, Active
<1>7. HoldersOwn'
  BY <1>0, <1>4, <1>5 DEF Owned, HoldersOwn, HeldRow
<1>8. SweepSees'
  BY <1>0, <1>2, <1>5 DEF SweepSees
<1>9. ReturnedDone'
  BY <1>0, <1>1, <1>2 DEF ReturnedDone
<1> QED
  BY <1>6, <1>7, <1>8, <1>9 DEF Owned

LEMMA OwnedStep ==
  ASSUME Prompt, Timely, TypeOK, Owned, [Next]_vars
  PROVE  Owned'
<1>1. ASSUME NEW i \in Items, NEW w \in EnqueueDelays, Enqueue(i, w)
      PROVE  Owned'
  BY <1>1, EnqueueOwned
<1>2. ASSUME NEW d \in Drivers, Step(d)
      PROVE  Owned'
  <2>1. CASE StartTick(d)
    BY <2>1, StartTickOwned
  <2>2. CASE \/ SweepFails(d) \/ ReadCircuits(d) \/ CountActive(d)
             \/ ClaimFails(d) \/ NextDomain(d)
    BY <2>2, QuietOwned
  <2>3. CASE Claim(d)
    BY <2>3, ClaimOwned
  <2>4. CASE StartGroup(d)
    BY <2>4, StartGroupOwned
  <2>5. ASSUME NEW i \in Items, SweepRow(d, i)
        PROVE  Owned'
    BY <2>5, SweepOwned
  <2>6. ASSUME NEW i \in Items,
               \/ Heartbeat(d, i)
               \/ HandlerReturns(d, i) \/ HandlerThrows(d, i) \/ HandlerDeadLetters(d, i)
               \/ \E w \in DeferDelays[Domain[i]] : HandlerDefers(d, i, w)
               \/ Complete(d, i) \/ CompleteFails(d, i)
               \/ FailRead(d, i) \/ Fail(d, i) \/ FailFails(d, i)
        PROVE  Owned'
    BY <2>6, HandlerOwned
  <2> QED
    BY <1>2, <2>1, <2>2, <2>3, <2>4, <2>5, <2>6 DEF Step
<1>3. ASSUME NEW d \in Drivers, Crash(d)
      PROVE  Owned'
  BY <1>3, QuietOwned
<1>4. ASSUME NEW u \in Upstreams, OpenCircuit(u) \/ CloseCircuit(u)
      PROVE  Owned'
  BY <1>4, OwnedDrops DEF OpenCircuit, CloseCircuit, row, driver
<1>5. CASE Tick
  BY <1>5, TickOwned
<1>6. CASE UNCHANGED vars
  BY <1>6, OwnedDrops DEF vars, row, driver
<1> QED
  BY <1>1, <1>2, <1>3, <1>4, <1>5, <1>6 DEF Next

LEMMA OwnedAlways ==
  ASSUME Prompt, Timely
  PROVE  Spec => [](TypeOK /\ Owned)
<1>1. Init => TypeOK /\ Owned
  BY TypeInit, OwnedInit
<1>2. TypeOK /\ Owned /\ [Next]_vars => TypeOK' /\ Owned'
  BY Prompt, Timely, TypeStep, OwnedStep
<1> QED
  BY <1>1, <1>2, PTL DEF Spec

(* SingleExecution.  In any registry, with failing statements, killed       *)
(* Workers and people who start ticks of their own, a row of a steady       *)
(* domain is run by one invocation at a time and is 'in_progress' while it  *)
(* is run: whatever the other domains claim, run together or put off.       *)
THEOREM RunsAlone ==
  ASSUME Prompt, Timely
  PROVE  Spec => []SingleExecution
<1>1. Owned => SingleExecution
  BY DEF Owned, HoldersOwn, SingleExecution, RunAlone, HeldRow, Live, Holds, Going
<1> QED
  BY <1>1, OwnedAlways, PTL

------------------------------------------------------------------------------
(* What a step does to a row, to an item that waits for completeWork, and   *)
(* to the set of items that are done.                                       *)

RowMoves(i) ==
  \/ status'[i] = status[i]
  \/ status[i] = "absent" /\ status'[i] = "pending"
  \/ /\ status[i] = "pending" /\ status'[i] = "in_progress"
     /\ \E d \in Drivers : Claim(d) /\ pos[d] = Domain[i]
  \/ /\ status[i] = "in_progress" /\ status'[i] = "completed"
     /\ \E d \in Drivers : work[d][i] = "returned"
  \/ /\ status[i] = "in_progress" /\ status'[i] \in {"pending", "dead_letter"}
     /\ \E d \in Drivers : work[d][i] \in {"stale", "running", "failed"}

LEMMA RowSteps ==
  ASSUME TypeOK, [Next]_vars, NEW i \in Items
  PROVE  RowMoves(i)
<1>0. status \in [Items -> Statuses]
  BY DEF TypeOK, RowTypeOK
<1>1. ASSUME NEW j \in Items, NEW w \in EnqueueDelays, Enqueue(j, w)
      PROVE  RowMoves(i)
  BY <1>0, <1>1 DEF Enqueue, Insert, RowMoves
<1>2. ASSUME NEW d \in Drivers, Claim(d)
      PROVE  RowMoves(i)
  <2>1. \/ status'[i] = status[i]
        \/ /\ status[i] = "pending" /\ status'[i] = "in_progress"
           /\ pos[d] = Domain[i]
    BY <1>0, <1>2 DEF Claim, ClaimRows, Claimable
  <2> QED
    BY <1>2, <2>1 DEF RowMoves
<1>3. ASSUME NEW d \in Drivers, NEW j \in Items, NEW p \in Phases, work[d][j] = p,
             NEW s, NEW a, NEW w, IfInProgress(j, Leave(j, s, a, w)),
             \/ s = "completed" /\ p = "returned"
             \/ s \in {"pending", "dead_letter"} /\ p \in {"stale", "running", "failed"}
      PROVE  RowMoves(i)
  <2>1. CASE status[j] = "in_progress"
    BY <1>0, <1>3, <2>1 DEF IfInProgress, Leave, RowMoves
  <2>2. CASE status[j] # "in_progress"
    BY <1>3, <2>2 DEF IfInProgress, row, RowMoves
  <2> QED
    BY <2>1, <2>2
<1>4. ASSUME NEW d \in Drivers, NEW j \in Items, SweepRow(d, j)
      PROVE  RowMoves(i)
  BY <1>3, <1>4 DEF SweepRow, SweepRelease, Phases
<1>5. ASSUME NEW d \in Drivers, NEW j \in Items, NEW w \in DeferDelays[Domain[j]],
             HandlerDefers(d, j, w)
      PROVE  RowMoves(i)
  BY <1>3, <1>5 DEF HandlerDefers, DeferWork, Phases
<1>6. ASSUME NEW d \in Drivers, NEW j \in Items, HandlerDeadLetters(d, j)
      PROVE  RowMoves(i)
  BY <1>3, <1>6 DEF HandlerDeadLetters, DeadLetterWork, Phases
<1>7. ASSUME NEW d \in Drivers, NEW j \in Items, Complete(d, j)
      PROVE  RowMoves(i)
  BY <1>3, <1>7 DEF Complete, CompleteWork, Phases
<1>8. ASSUME NEW d \in Drivers, NEW j \in Items, Fail(d, j)
      PROVE  RowMoves(i)
  BY <1>3, <1>8 DEF Fail, FailWork, Phases
<1>9. CASE UNCHANGED status
  BY <1>9 DEF RowMoves
<1>10. ASSUME NEW d \in Drivers, NEW j \in Items,
              \/ Heartbeat(d, j) \/ HandlerReturns(d, j) \/ HandlerThrows(d, j)
              \/ CompleteFails(d, j) \/ FailRead(d, j) \/ FailFails(d, j)
       PROVE  UNCHANGED status
  BY <1>10 DEF Heartbeat, RecordHeartbeat, HandlerReturns, HandlerThrows, CompleteFails,
     FailRead, FailFails, row
<1>11. ASSUME NEW d \in Drivers,
              \/ StartTick(d) \/ SweepFails(d) \/ ReadCircuits(d) \/ CountActive(d)
              \/ ClaimFails(d) \/ StartGroup(d) \/ NextDomain(d) \/ Crash(d)
       PROVE  UNCHANGED status
  BY <1>11 DEF StartTick, SweepFails, ReadCircuits, CountActive, ClaimFails, StartGroup,
     NextDomain, Crash, row
<1>12. ASSUME \/ Tick \/ UNCHANGED vars
              \/ \E u \in Upstreams : OpenCircuit(u) \/ CloseCircuit(u)
       PROVE  UNCHANGED status
  BY <1>12 DEF Tick, RunDown, vars, OpenCircuit, CloseCircuit, row
<1> QED
  BY <1>1, <1>2, <1>4, <1>5, <1>6, <1>7, <1>8, <1>9, <1>10, <1>11, <1>12 DEF Next, Step

LEMMA FinishedSteps ==
  ASSUME [Next]_vars
  PROVE  \/ finished' = finished
         \/ \E d \in Drivers, i \in Items :
              HandlerReturns(d, i) /\ finished' = finished \cup {i}
BY DEF Next, Step, vars, driver, Enqueue, StartTick, SweepRow, SweepFails, ReadCircuits,
   CountActive, Claim, ClaimFails, StartGroup, Heartbeat, HandlerReturns, HandlerThrows,
   HandlerDefers, HandlerDeadLetters, Complete, CompleteFails, FailRead, Fail, FailFails,
   NextDomain, Crash, OpenCircuit, CloseCircuit, Tick

(* Nothing but its own invocation takes an item out of its place.           *)
LEMMA PlaceKept ==
  ASSUME TypeOK, Places, NEW d \in Drivers, NEW i \in Items, work[d][i] \in Going,
         [Next]_vars, work'[d][i] # work[d][i]
  PROVE  \/ HandlerReturns(d, i) \/ HandlerThrows(d, i) \/ HandlerDeadLetters(d, i)
         \/ \E w \in DeferDelays[Domain[i]] : HandlerDefers(d, i, w)
         \/ Complete(d, i) \/ CompleteFails(d, i) \/ FailRead(d, i) \/ Fail(d, i)
         \/ FailFails(d, i) \/ Crash(d)
<1>0. /\ work \in [Drivers -> [Items -> Phases]]
      /\ pc[d] = "work" /\ \A j \in Items : work[d][j] # "stale"
      /\ work[d][i] \notin {"none", "queued", "stale"}
  BY DEF TypeOK, Places, Holds, Stale, Going
<1>1. \A e \in Drivers :
        /\ ~(e = d /\ StartTick(e)) /\ ~(e = d /\ SweepFails(e)) /\ ~(e = d /\ Claim(e))
        /\ ~(e = d /\ StartGroup(e))
        /\ \A j \in Items : ~(e = d /\ SweepRow(e, j))
  BY <1>0 DEF StartTick, SweepFails, Claim, ReadyToClaim, StartGroup, SweepRow, Active, Going
<1>2. ASSUME NEW e \in Drivers,
             StartTick(e) \/ SweepFails(e) \/ Claim(e) \/ StartGroup(e) \/ Crash(e)
      PROVE  e # d => work'[d] = work[d]
  BY <1>0, <1>2 DEF StartTick, SweepFails, Claim, StartGroup, Crash
<1>3. ASSUME NEW e \in Drivers, NEW j \in Items,
             \/ SweepRow(e, j) \/ HandlerReturns(e, j) \/ HandlerThrows(e, j)
             \/ HandlerDeadLetters(e, j) \/ \E w \in DeferDelays[Domain[j]] : HandlerDefers(e, j, w)
             \/ Complete(e, j) \/ CompleteFails(e, j) \/ FailRead(e, j) \/ Fail(e, j)
             \/ FailFails(e, j)
      PROVE  e # d \/ j # i => work'[d][i] = work[d][i]
  <2>1. \E p : work' = [work EXCEPT ![e][j] = p]
    BY <1>3 DEF SweepRow, HandlerReturns, HandlerThrows, HandlerDeadLetters, HandlerDefers,
       Complete, CompleteFails, FailRead, Fail, FailFails, Phase
  <2> QED
    BY <1>0, <2>1
<1>4. ASSUME \/ \E j \in Items, w \in EnqueueDelays : Enqueue(j, w)
             \/ \E e \in Drivers :
                  \/ ReadCircuits(e) \/ CountActive(e) \/ ClaimFails(e) \/ NextDomain(e)
                  \/ \E j \in Items : Heartbeat(e, j)
             \/ \E u \in Upstreams : OpenCircuit(u) \/ CloseCircuit(u)
             \/ Tick \/ UNCHANGED vars
      PROVE  UNCHANGED work
  BY <1>4 DEF Enqueue, ReadCircuits, CountActive, ClaimFails, NextDomain, Heartbeat,
     OpenCircuit, CloseCircuit, Tick, driver, vars
<1> QED
  BY <1>1, <1>2, <1>3, <1>4 DEF Next, Step

------------------------------------------------------------------------------
(* Completion.                                                              *)

LEMMA DoneStep ==
  ASSUME TypeOK, Owned, NoGhostCompletion, [Next]_vars
  PROVE  NoGhostCompletion'
<1> SUFFICES ASSUME NEW i \in SteadyItems, status'[i] = "completed"
             PROVE  i \in finished'
  BY DEF NoGhostCompletion, DoneIsFinished, SteadyItems
<1>0. i \in Items
  BY DEF SteadyItems
<1>1. finished \subseteq finished'
  BY FinishedSteps
<1>2. CASE status[i] = "completed"
  BY <1>1, <1>2 DEF NoGhostCompletion, DoneIsFinished
<1>3. CASE status[i] # "completed"
  <2>1. PICK d \in Drivers : work[d][i] = "returned" /\ status[i] = "in_progress"
    BY <1>0, <1>3, RowSteps DEF RowMoves
  <2>2. Live(i)
    BY <2>1 DEF Owned, HoldersOwn, HeldRow, Holds, Going, Asleep, Terminal
  <2> QED
    BY <1>1, <2>1, <2>2 DEF Owned, ReturnedDone
<1> QED
  BY <1>2, <1>3

(* NoGhostCompletion: a row of a steady domain is 'completed' only if a     *)
(* handler finished it, in any registry and whatever fails.                 *)
THEOREM NoGhosts ==
  ASSUME Prompt, Timely
  PROVE  Spec => []NoGhostCompletion
<1>1. Init => NoGhostCompletion
  BY DEF Init, RowInit, NoGhostCompletion, DoneIsFinished, SteadyItems
<1>2. NoGhostCompletion /\ TypeOK /\ Owned /\ [Next]_vars => NoGhostCompletion'
  BY DoneStep
<1> QED
  BY <1>1, <1>2, Prompt, Timely, OwnedAlways, PTL DEF Spec

------------------------------------------------------------------------------
(* An item that was finished is not run again.  Between the handler's       *)
(* return and completeWork its row is 'in_progress' still: a statement that *)
(* throws, or a Worker killed there, would have it run again.  A Worker     *)
(* killed in a handler that runs alone loses no such item.                  *)

RunsOnce == ~Faults /\ Crashes # "anywhere"

OneActive ==
  \A d \in Drivers : Concurrency[pos[d]] = 1 => \A i, j \in Active(d) : i = j

FinishedStays ==
  \A i \in OnceItems \cap finished :
    \/ status[i] = "completed"
    \/ status[i] = "in_progress" /\ \E d \in Drivers : work[d][i] = "returned"

LEMMA SmallSet ==
  ASSUME NEW S, IsFiniteSet(S), Cardinality(S) <= 1
  PROVE  \A i, j \in S : i = j
<1>1. Cardinality(S) \in Nat
  BY FS_CardinalityType
<1>2. CASE Cardinality(S) = 0
  BY <1>2, FS_EmptySet
<1>3. CASE Cardinality(S) = 1
  BY <1>3, FS_Singleton
<1> QED
  BY <1>1, <1>2, <1>3

(* Only a slice makes more rows active.                                     *)
LEMMA NotGoingStays ==
  ASSUME TypeOK, NEW d \in Drivers, NEW i \in Items, [Next]_vars, ~StartGroup(d),
         work'[d][i] \in Going
  PROVE  work[d][i] \in Going
<1>0. work \in [Drivers -> [Items -> Phases]]
  BY DEF TypeOK
<1> SUFFICES ASSUME work'[d][i] # work[d][i]
             PROVE  work[d][i] \in Going
  OBVIOUS
<1>1. ASSUME NEW e \in Drivers,
             StartTick(e) \/ SweepFails(e) \/ Claim(e) \/ StartGroup(e) \/ Crash(e)
      PROVE  FALSE
  <2>1. CASE StartTick(e)
    BY <1>0, <2>1 DEF StartTick, Going
  <2>2. CASE SweepFails(e) \/ Crash(e)
    BY <1>0, <2>2 DEF SweepFails, Crash, Going
  <2>3. CASE Claim(e)
    BY <1>0, <2>3 DEF Claim, Going
  <2>4. CASE StartGroup(e)
    BY <1>0, <2>4 DEF StartGroup, Going
  <2> QED
    BY <1>1, <2>1, <2>2, <2>3, <2>4
<1>2. ASSUME NEW e \in Drivers, NEW j \in Items,
             \/ HandlerReturns(e, j) \/ HandlerThrows(e, j)
             \/ HandlerDeadLetters(e, j) \/ \E w \in DeferDelays[Domain[j]] : HandlerDefers(e, j, w)
             \/ CompleteFails(e, j) \/ FailRead(e, j)
      PROVE  work[d][i] \in Going
  <2>1. work[e][j] \in Going
    BY <1>2 DEF HandlerReturns, HandlerThrows, HandlerDeadLetters, HandlerDefers,
       CompleteFails, FailRead, Going
  <2>2. \E p : work' = [work EXCEPT ![e][j] = p]
    BY <1>2 DEF HandlerReturns, HandlerThrows, HandlerDeadLetters, HandlerDefers,
       CompleteFails, FailRead, Phase
  <2> QED
    BY <1>0, <2>1, <2>2
<1>3. ASSUME NEW e \in Drivers, NEW j \in Items,
             SweepRow(e, j) \/ Complete(e, j) \/ Fail(e, j) \/ FailFails(e, j)
      PROVE  FALSE
  <2>1. work' = [work EXCEPT ![e][j] = "none"]
    BY <1>3 DEF SweepRow, Complete, Fail, FailFails, Phase
  <2> QED
    BY <1>0, <2>1 DEF Going
<1>4. ASSUME \/ \E j \in Items, w \in EnqueueDelays : Enqueue(j, w)
             \/ \E e \in Drivers :
                  \/ ReadCircuits(e) \/ CountActive(e) \/ ClaimFails(e) \/ NextDomain(e)
                  \/ \E j \in Items : Heartbeat(e, j)
             \/ \E u \in Upstreams : OpenCircuit(u) \/ CloseCircuit(u)
             \/ Tick \/ UNCHANGED vars
      PROVE  UNCHANGED work
  BY <1>4 DEF Enqueue, ReadCircuits, CountActive, ClaimFails, NextDomain, Heartbeat,
     OpenCircuit, CloseCircuit, Tick, driver, vars
<1> QED
  BY <1>1, <1>2, <1>3, <1>4 DEF Next, Step

LEMMA OneActiveStep ==
  ASSUME TypeOK, Owned, Owned', OneActive, [Next]_vars
  PROVE  OneActive'
<1>0. /\ work \in [Drivers -> [Items -> Phases]] /\ pos \in [Drivers -> 1..NumDomains]
      /\ TypeOK'
  BY TypeStep DEF TypeOK
<1> SUFFICES ASSUME NEW d \in Drivers, Concurrency[pos'[d]] = 1,
                    NEW i \in Active(d)', NEW j \in Active(d)'
             PROVE  i = j
  BY DEF OneActive
<1>2. i \in Items /\ j \in Items /\ work'[d][i] \in Going /\ work'[d][j] \in Going
  BY DEF Active, Going
<1>3. CASE StartGroup(d)
  <2>1. PICK group \in SUBSET Queued(d) :
          /\ \/ group = Queued(d) /\ Cardinality(group) <= Concurrency[pos[d]]
             \/ Cardinality(group) = Concurrency[pos[d]]
          /\ work' = [work EXCEPT ![d] =
               [l \in Items |-> IF l \in group THEN "running" ELSE work[d][l]]]
    BY <1>3 DEF StartGroup
  <2>2. Active(d) = {}
    BY <1>3 DEF StartGroup
  <2>3. \A l \in Items : work'[d][l] \in Going => l \in group
    BY <1>0, <2>1, <2>2 DEF Active, Going
  <2>4. Cardinality(group) <= 1
    <3>1. pos'[d] = pos[d]
      BY <1>3 DEF StartGroup
    <3> QED
      BY <1>0, <2>1, <3>1
  <2>5. IsFiniteSet(group)
    BY WorkQueueRowsAssumption, FS_Subset DEF Queued
  <2> QED
    BY <1>2, <2>3, <2>4, <2>5, SmallSet
<1>4. CASE ~StartGroup(d)
  <2>1. ASSUME NEW l \in Items, work'[d][l] \in Going
        PROVE  work[d][l] \in Going
    BY <1>0, <1>4, <2>1, NotGoingStays
  <2>2. work[d][i] \in Going /\ work[d][j] \in Going
    BY <1>2, <2>1
  <2>3. pos[d] = Domain[i] /\ pos'[d] = Domain[i]
    BY <1>2, <2>2 DEF Owned, Places, Holds
  <2>4. \A l \in Active(d) : \A m \in Active(d) : l = m
    BY <2>3 DEF OneActive
  <2> QED
    BY <1>2, <2>2, <2>4 DEF Active, Going
<1> QED
  BY <1>3, <1>4

LEMMA FinishedStep ==
  ASSUME TypeOK, Owned, RunsOnce, FinishedStays, OneActive, [Next]_vars
  PROVE  FinishedStays'
<1> SUFFICES ASSUME NEW i \in OnceItems, i \in finished'
             PROVE  \/ status'[i] = "completed"
                    \/ status'[i] = "in_progress" /\ \E d \in Drivers : work'[d][i] = "returned"
  BY DEF FinishedStays, OnceItems, SteadyItems
<1>0. /\ i \in Items /\ i \in SteadyItems /\ RowMoves(i)
      /\ work \in [Drivers -> [Items -> Phases]]
  BY RowSteps DEF OnceItems, SteadyItems, TypeOK
<1>1. CASE i \notin finished
  <2>1. PICK d \in Drivers : HandlerReturns(d, i)
    BY <1>1, FinishedSteps
  <2>2. Live(i)
    BY <1>0, <2>1 DEF HandlerReturns, Owned, HoldersOwn, HeldRow, Holds, Going
  <2>3. UNCHANGED status /\ work'[d][i] = "returned"
    BY <1>0, <2>1 DEF HandlerReturns, Phase, row
  <2> QED
    BY <2>2, <2>3 DEF Live
<1>2. CASE i \in finished /\ status[i] = "completed"
  BY <1>0, <1>2 DEF RowMoves
<1>3. CASE i \in finished /\ status[i] # "completed"
  <2>1. PICK d \in Drivers : work[d][i] = "returned" /\ status[i] = "in_progress"
    BY <1>3 DEF FinishedStays
  <2>2. Holds(d, i) /\ \A e \in Drivers : ~Stale(e, i) /\ (Holds(e, i) => e = d)
    BY <1>0, <2>1 DEF Owned, HoldersOwn, SweepSees, Holds, Going
  <2>3. status'[i] \in {"in_progress", "completed"}
    BY <1>0, <2>1, <2>2 DEF RowMoves, Holds, Stale, Going
  <2>4. CASE work'[d][i] = "returned"
    BY <2>3, <2>4
  <2>5. CASE work'[d][i] # "returned"
    <3>1. \/ Complete(d, i) \/ CompleteFails(d, i) \/ Crash(d)
      <4>1. \/ HandlerReturns(d, i) \/ HandlerThrows(d, i) \/ HandlerDeadLetters(d, i)
            \/ \E w \in DeferDelays[Domain[i]] : HandlerDefers(d, i, w)
            \/ Complete(d, i) \/ CompleteFails(d, i) \/ FailRead(d, i) \/ Fail(d, i)
            \/ FailFails(d, i) \/ Crash(d)
        BY <1>0, <2>1, <2>5, PlaceKept DEF Owned, Going
      <4> QED
        BY <2>1, <4>1 DEF HandlerReturns, HandlerThrows, HandlerDeadLetters, HandlerDefers,
           FailRead, Fail, FailFails
    <3>2. ~CompleteFails(d, i)
      BY DEF CompleteFails, RunsOnce
    <3>3. ~Crash(d)
      <4> SUFFICES ASSUME Crash(d) PROVE FALSE
        OBVIOUS
      <4>1. Concurrency[Domain[i]] = 1 /\ Crashes = "handler"
        BY WorkQueueAssumption DEF Crash, RunsOnce, OnceItems
      <4>2. PICK j \in Items : work[d][j] = "running"
        BY <4>1 DEF Crash
      <4>3. i \in Active(d) /\ j \in Active(d) /\ i # j
        BY <1>0, <2>1, <4>2 DEF Active
      <4>4. Concurrency[pos[d]] = 1
        BY <1>0, <2>2, <4>1 DEF Owned, Places
      <4> QED
        BY <4>3, <4>4 DEF OneActive
    <3>4. status'[i] = "completed"
      BY <1>0, <2>1, <3>1, <3>2, <3>3
      DEF Complete, CompleteWork, IfInProgress, Leave, TypeOK, RowTypeOK
    <3> QED
      BY <3>4
  <2> QED
    BY <2>4, <2>5
<1> QED
  BY <1>1, <1>2, <1>3

(* Neither is an item queued that was finished.                             *)
LEMMA OnceStep ==
  ASSUME TypeOK, Owned, FinishedStays, [Next]_vars,
         NEW d \in Drivers, NEW i \in OnceItems,
         work[d][i] # "running", work'[d][i] = "running"
  PROVE  i \notin finished
<1>0. work \in [Drivers -> [Items -> Phases]] /\ i \in SteadyItems /\ i \in Items
  BY DEF TypeOK, OnceItems, SteadyItems
<1>1. work[d][i] = "queued"
  <2>1. CASE StartGroup(d)
    BY <1>0, <2>1 DEF StartGroup, Queued
  <2>2. CASE ~StartGroup(d)
    <3>1. work[d][i] \in Going
      BY <1>0, <2>2, NotGoingStays DEF Going
    <3>2. \/ HandlerReturns(d, i) \/ HandlerThrows(d, i) \/ HandlerDeadLetters(d, i)
          \/ \E w \in DeferDelays[Domain[i]] : HandlerDefers(d, i, w)
          \/ Complete(d, i) \/ CompleteFails(d, i) \/ FailRead(d, i) \/ Fail(d, i)
          \/ FailFails(d, i) \/ Crash(d)
      BY <1>0, <3>1, PlaceKept DEF Owned
    <3>3. work'[d][i] \in {"none", "returned", "failing", "failed"}
      BY <1>0, <3>2 DEF HandlerReturns, HandlerThrows, HandlerDeadLetters, HandlerDefers,
         Complete, CompleteFails, FailRead, Fail, FailFails, Crash, Phase
    <3> QED
      BY <3>3
  <2> QED
    BY <2>1, <2>2
<1>2. Holds(d, i) /\ Live(i) /\ \A e \in Drivers : Holds(e, i) => e = d
  BY <1>0, <1>1 DEF Owned, HoldersOwn, HeldRow, Holds
<1>3. \A e \in Drivers : work[e][i] # "returned"
  BY <1>1, <1>2 DEF Holds, Going
<1> QED
  BY <1>0, <1>2, <1>3 DEF FinishedStays, Live

(* NoRepeat: while no statement fails, a handler of a steady domain that    *)
(* finished is not run again, though Workers are killed in handlers, if the *)
(* domain runs them one at a time.                                          *)
THEOREM RunsNoRepeat ==
  ASSUME Prompt, Timely, RunsOnce
  PROVE  Spec => NoRepeat
<1>1. Init => OneActive /\ FinishedStays
  BY DEF Init, OneActive, Active, FinishedStays, OnceItems, SteadyItems
<1>2. TypeOK /\ Owned /\ OneActive /\ [Next]_vars => OneActive'
  BY Prompt, Timely, OwnedStep, OneActiveStep
<1>3. TypeOK /\ Owned /\ OneActive /\ FinishedStays /\ [Next]_vars => FinishedStays'
  BY RunsOnce, FinishedStep
<1>4. TypeOK /\ Owned /\ FinishedStays /\ [Next]_vars =>
        [\A d \in Drivers, i \in OnceItems :
           work[d][i] # "running" /\ work'[d][i] = "running" => i \notin finished]_vars
  BY OnceStep
<1>5. Spec => [](TypeOK /\ Owned)
  BY Prompt, Timely, OwnedAlways
<1> QED
  BY <1>1, <1>2, <1>3, <1>4, <1>5, PTL DEF Spec, NoRepeat

------------------------------------------------------------------------------
(* The cap.  COUNT and claim are two statements, so the cap rests on there  *)
(* being one invocation between them: the cron's of this minute, before it  *)
(* has come past the first handler.                                         *)

Early(d) == pc[d] = "sweep" \/ (pc[d] \in {"domain", "claim"} /\ pos[d] = 1)

OneEarly ==
  /\ \A d \in Drivers : pc[d] \in {"idle", "sweep"} => pos[d] = 1
  /\ \A d \in Drivers : pc[d] = "claim" => pos[d] \in Capped
  /\ \A d \in Drivers : Early(d) => ran /\ \A e \in Drivers : Early(e) => e = d

RoomLeft ==
  \A d \in Drivers : pc[d] = "claim" /\ pos[d] = 1 =>
    ActiveCount(1) + room[d] <= MaxConcurrent[1]

FirstCap == 1 \in Capped => ActiveCount(1) <= MaxConcurrent[1]

Moves(d) ==
  \/ pc'[d] = pc[d] /\ pos'[d] = pos[d]
  \/ Early(d) /\ pc'[d] = "domain" /\ pos'[d] = 1
  \/ Early(d) /\ pc'[d] = "claim" /\ pos'[d] = 1 /\ 1 \in Capped
  \/ pc'[d] = "domain" /\ pos'[d] > 1
  \/ pc'[d] = "claim" /\ pos'[d] > 1 /\ pos'[d] \in Capped
  \/ pc'[d] = "idle" /\ pos'[d] = 1
  \/ pc'[d] = "work"

(* An invocation walks the registry forwards.                               *)
LEMMA Walks ==
  ASSUME TypeOK, OneEarly, [Next]_vars, NEW d \in Drivers, ~StartTick(d)
  PROVE  Moves(d)
<1>0. /\ pc \in [Drivers -> {"idle", "sweep", "domain", "claim", "work"}]
      /\ pos \in [Drivers -> 1..NumDomains] /\ NumDomains \in Nat
  BY WorkQueueRowsAssumption DEF TypeOK
<1>1. ASSUME NEW e \in Drivers, NextHandler(e)
      PROVE  Moves(d)
  <2>1. CASE e = d
    BY <1>0, <1>1, <2>1 DEF NextHandler, Moves
  <2>2. CASE e # d
    BY <1>0, <1>1, <2>2 DEF NextHandler, Moves
  <2> QED
    BY <2>1, <2>2
<1>2. ASSUME NEW e \in Drivers, ReadCircuits(e)
      PROVE  Moves(d)
  BY <1>0, <1>2 DEF ReadCircuits, Moves, Early, OneEarly
<1>3. ASSUME NEW e \in Drivers, CountActive(e)
      PROVE  Moves(d)
  <2>1. CASE NextHandler(e)
    BY <1>1, <2>1
  <2>2. CASE pc' = [pc EXCEPT ![e] = "claim"] /\ UNCHANGED pos
    <3>1. pc[e] = "domain" /\ pos[e] \in Capped /\ pos[e] \in 1..NumDomains
      BY <1>0, <1>3 DEF CountActive
    <3>2. CASE pos[e] = 1
      BY <1>0, <2>2, <3>1, <3>2 DEF Moves, Early
    <3>3. CASE pos[e] > 1
      BY <1>0, <2>2, <3>1, <3>3 DEF Moves
    <3> QED
      BY <1>0, <3>1, <3>2, <3>3
  <2> QED
    BY <1>3, <2>1, <2>2 DEF CountActive
<1>4. ASSUME NEW e \in Drivers, ClaimFails(e) \/ NextDomain(e)
      PROVE  Moves(d)
  BY <1>1, <1>4 DEF ClaimFails, NextDomain
<1>5. ASSUME NEW e \in Drivers, Claim(e) \/ Crash(e)
      PROVE  Moves(d)
  BY <1>0, <1>5 DEF Claim, Crash, Moves
<1>6. ASSUME NEW e \in Drivers, StartTick(e)
      PROVE  Moves(d)
  BY <1>0, <1>6 DEF StartTick, Moves
<1>7. ASSUME UNCHANGED <<pc, pos>>
      PROVE  Moves(d)
  BY <1>7 DEF Moves
<1>8. ASSUME NEW e \in Drivers,
             \/ SweepFails(e) \/ StartGroup(e)
             \/ \E i \in Items :
                  \/ SweepRow(e, i) \/ Heartbeat(e, i)
                  \/ HandlerReturns(e, i) \/ HandlerThrows(e, i) \/ HandlerDeadLetters(e, i)
                  \/ \E w \in DeferDelays[Domain[i]] : HandlerDefers(e, i, w)
                  \/ Complete(e, i) \/ CompleteFails(e, i)
                  \/ FailRead(e, i) \/ Fail(e, i) \/ FailFails(e, i)
      PROVE  Moves(d)
  BY <1>7, <1>8 DEF SweepFails, StartGroup, SweepRow, Heartbeat, HandlerReturns, HandlerThrows,
     HandlerDeadLetters, HandlerDefers, Complete, CompleteFails, FailRead, Fail, FailFails, driver
<1>9. ASSUME \/ \E i \in Items, w \in EnqueueDelays : Enqueue(i, w)
             \/ \E u \in Upstreams : OpenCircuit(u) \/ CloseCircuit(u)
             \/ Tick \/ UNCHANGED vars
      PROVE  Moves(d)
  BY <1>7, <1>9 DEF Enqueue, OpenCircuit, CloseCircuit, Tick, vars, driver
<1> QED
  BY <1>2, <1>3, <1>4, <1>5, <1>6, <1>8, <1>9 DEF Next, Step

LEMMA RanKept ==
  ASSUME [Next]_vars, ~Tick
  PROVE  ran => ran'
BY DEF Next, Step, vars, driver, Enqueue, StartTick, SweepRow, SweepFails, ReadCircuits,
   CountActive, Claim, ClaimFails, StartGroup, Heartbeat, HandlerReturns, HandlerThrows,
   HandlerDefers, HandlerDeadLetters, Complete, CompleteFails, FailRead, Fail, FailFails,
   NextDomain, Crash, OpenCircuit, CloseCircuit

LEMMA EarlyStep ==
  ASSUME Prompt, Admins = {}, TypeOK, OneEarly, [Next]_vars
  PROVE  OneEarly'
<1>0. /\ pc \in [Drivers -> {"idle", "sweep", "domain", "claim", "work"}]
      /\ pos \in [Drivers -> 1..NumDomains]
  BY DEF TypeOK
<1>1. ASSUME NEW d \in Drivers, StartTick(d)
      PROVE  OneEarly'
  <2>1. ~ran /\ ran' /\ pc[d] = "idle" /\ pos[d] = 1
    BY <1>1 DEF StartTick, Drivers, OneEarly
  <2>2. pc' = [pc EXCEPT ![d] = "sweep"] /\ UNCHANGED pos
    BY <1>1 DEF StartTick
  <2>3. \A e \in Drivers : ~Early(e)
    BY <2>1 DEF OneEarly
  <2>4. \A e \in Drivers : Early(e)' => e = d
    BY <1>0, <2>2, <2>3 DEF Early
  <2> QED
    BY <1>0, <2>1, <2>2, <2>4 DEF OneEarly
<1>2. CASE Tick
  <2>1. \A e \in Drivers : ~Early(e)
    BY <1>2 DEF Tick, Between, Early
  <2>2. UNCHANGED <<pc, pos>>
    BY <1>2 DEF Tick, driver
  <2> QED
    BY <2>1, <2>2 DEF OneEarly, Early
<1>3. CASE ~Tick /\ \A d \in Drivers : ~StartTick(d)
  <2>1. \A d \in Drivers : Moves(d)
    BY <1>3, Walks
  <2>2. \A d \in Drivers : Early(d)' => Early(d)
    BY <1>0, <2>1 DEF Moves, Early
  <2>3. ran => ran'
    BY <1>3, RanKept
  <2>4. \A d \in Drivers : /\ pc'[d] \in {"idle", "sweep"} => pos'[d] = 1
                           /\ pc'[d] = "claim" => pos'[d] \in Capped
    BY <1>0, <2>1 DEF Moves, OneEarly
  <2> QED
    BY <2>2, <2>3, <2>4 DEF OneEarly
<1> QED
  BY <1>1, <1>2, <1>3

------------------------------------------------------------------------------

(* The count of a domain grows by its claims only ...                       *)
LEMMA CountsDrop ==
  ASSUME TypeOK, [Next]_vars, NEW k, \A d \in Drivers : Claim(d) => pos[d] # k
  PROVE  ActiveCount(k)' <= ActiveCount(k)
<1>1. ActiveRows(k)' \subseteq ActiveRows(k)
  BY RowSteps DEF ActiveRows, RowMoves
<1> QED
  BY <1>1, ActiveDrops

(* ... and by no more than what a claim takes.                              *)
LEMMA ClaimCounts ==
  ASSUME TypeOK, NEW d \in Drivers, NEW k, Claim(d), pos[d] = k
  PROVE  ActiveCount(k)' <= ActiveCount(k) + ClaimLimit(d)
<1>1. ClaimLimit(d) \in Nat
  BY WorkQueueAssumption DEF TypeOK, ClaimLimit
<1>2. PICK batch \in SUBSET Claimable(pos[d], shut[d]) :
        /\ IsFirst(batch, Claimable(pos[d], shut[d]), ClaimLimit(d))
        /\ ClaimRows(batch)
  BY DEF Claim
<1>3. batch \in SUBSET Items
  BY DEF Claimable
<1> QED
  BY <1>1, <1>2, <1>3, ActiveGrows

(* Only its COUNT takes an invocation to a claim with room.                 *)
LEMMA RoomSteps ==
  ASSUME TypeOK, [Next]_vars, NEW d \in Drivers, pc'[d] = "claim"
  PROVE  \/ CountActive(d)
         \/ pc[d] = "claim" /\ pos'[d] = pos[d] /\ room'[d] = room[d]
<1>0. /\ pc \in [Drivers -> {"idle", "sweep", "domain", "claim", "work"}]
      /\ pos \in [Drivers -> 1..NumDomains] /\ room \in [Drivers -> Nat]
  BY DEF TypeOK
<1> DEFINE Same == pc[d] = "claim" /\ pos'[d] = pos[d] /\ room'[d] = room[d]
<1>1. ASSUME NEW e \in Drivers, NextHandler(e), UNCHANGED room \/ room' = [room EXCEPT ![e] = 0]
      PROVE  Same
  BY <1>0, <1>1 DEF NextHandler
<1>2. ASSUME NEW e \in Drivers, CountActive(e), e # d
      PROVE  Same
  <2>1. CASE NextHandler(e) /\ UNCHANGED room
    BY <1>1, <2>1
  <2>2. CASE /\ pc' = [pc EXCEPT ![e] = "claim"] /\ UNCHANGED pos
             /\ \E n : room' = [room EXCEPT ![e] = n]
    BY <1>0, <1>2, <2>2
  <2> QED
    BY <1>2, <2>1, <2>2 DEF CountActive
<1>3. ASSUME NEW e \in Drivers, ClaimFails(e) \/ NextDomain(e)
      PROVE  Same
  BY <1>1, <1>3 DEF ClaimFails, NextDomain
<1>4. ASSUME NEW e \in Drivers, Claim(e) \/ Crash(e) \/ StartTick(e) \/ ReadCircuits(e)
      PROVE  Same
  BY <1>0, <1>4 DEF Claim, Crash, StartTick, ReadCircuits
<1>5. ASSUME UNCHANGED <<pc, pos, room>>
      PROVE  Same
  BY <1>5
<1>6. ASSUME NEW e \in Drivers,
             \/ SweepFails(e) \/ StartGroup(e)
             \/ \E i \in Items :
                  \/ SweepRow(e, i) \/ Heartbeat(e, i)
                  \/ HandlerReturns(e, i) \/ HandlerThrows(e, i) \/ HandlerDeadLetters(e, i)
                  \/ \E w \in DeferDelays[Domain[i]] : HandlerDefers(e, i, w)
                  \/ Complete(e, i) \/ CompleteFails(e, i)
                  \/ FailRead(e, i) \/ Fail(e, i) \/ FailFails(e, i)
      PROVE  Same
  BY <1>5, <1>6 DEF SweepFails, StartGroup, SweepRow, Heartbeat, HandlerReturns, HandlerThrows,
     HandlerDeadLetters, HandlerDefers, Complete, CompleteFails, FailRead, Fail, FailFails, driver
<1>7. ASSUME \/ \E i \in Items, w \in EnqueueDelays : Enqueue(i, w)
             \/ \E u \in Upstreams : OpenCircuit(u) \/ CloseCircuit(u)
             \/ Tick \/ UNCHANGED vars
      PROVE  Same
  BY <1>5, <1>7 DEF Enqueue, OpenCircuit, CloseCircuit, Tick, vars, driver
<1> QED
  BY <1>2, <1>3, <1>4, <1>6, <1>7 DEF Next, Step

(* Whoever claims from the first domain is the one that counted.            *)
LEMMA ClaimsAlone ==
  ASSUME TypeOK, OneEarly, NEW d \in Drivers, pc[d] = "claim", pos[d] = 1
  PROVE  \A e \in Drivers : pc[e] = "claim" /\ pos[e] = 1 => e = d
BY DEF Early, OneEarly

(* A claim from a capped domain takes no more than the room counted.        *)
LEMMA ClaimsInRoom ==
  ASSUME 1 \in Capped, NEW d \in Drivers, Claim(d), pos[d] = 1
  PROVE  pc[d] = "claim" /\ ClaimLimit(d) = room[d]
BY DEF Claim, ReadyToClaim, ClaimLimit

LEMMA CapStep ==
  ASSUME 1 \in Capped, TypeOK, OneEarly, RoomLeft, FirstCap, [Next]_vars
  PROVE  RoomLeft' /\ FirstCap'
<1>0. /\ pc \in [Drivers -> {"idle", "sweep", "domain", "claim", "work"}]
      /\ pos \in [Drivers -> 1..NumDomains] /\ room \in [Drivers -> Nat]
      /\ Limit \in [1..NumDomains -> Nat \ {0}]
      /\ MaxConcurrent[1] \in Nat /\ ActiveCount(1) <= MaxConcurrent[1]
      /\ ActiveCount(1) \in Nat /\ ActiveCount(1)' \in Nat
  BY WorkQueueAssumption, ActiveFinite, ActiveFiniteNext DEF TypeOK, FirstCap
<1>1. ASSUME NEW d \in Drivers, Claim(d), pos[d] = 1
      PROVE  RoomLeft' /\ FirstCap'
  <2>1. ActiveCount(1) + room[d] <= MaxConcurrent[1]
    BY <1>1, ClaimsInRoom DEF RoomLeft
  <2>2. ActiveCount(1)' <= ActiveCount(1) + room[d]
    BY <1>1, ClaimsInRoom, ClaimCounts
  <2>3. FirstCap'
    BY <1>0, <2>1, <2>2 DEF FirstCap
  <2>4. pc[d] = "claim" /\ pc' = [pc EXCEPT ![d] = "work"] /\ UNCHANGED pos
    BY <1>1, ClaimsInRoom DEF Claim
  <2>5. \A e \in Drivers : ~(pc'[e] = "claim" /\ pos'[e] = 1)
    BY <1>0, <1>1, <2>4, ClaimsAlone
  <2> QED
    BY <2>3, <2>5 DEF RoomLeft
<1>2. ASSUME \A d \in Drivers : Claim(d) => pos[d] # 1
      PROVE  RoomLeft' /\ FirstCap'
  <2>1. ActiveCount(1)' <= ActiveCount(1)
    BY <1>2, CountsDrop
  <2>2. FirstCap'
    BY <1>0, <2>1 DEF FirstCap
  <2>3. ASSUME NEW d \in Drivers, pc'[d] = "claim", pos'[d] = 1
        PROVE  ActiveCount(1)' + room'[d] <= MaxConcurrent[1]
    <3>1. CASE CountActive(d)
      <4> DEFINE available == MaxConcurrent[1] - ActiveCount(1)
                 n == IF available < Limit[1] THEN available ELSE Limit[1]
      <4>1. pos[d] = 1 /\ room'[d] = n
        <5>1. CASE NextHandler(d)
          BY <1>0, <2>3, <5>1 DEF NextHandler
        <5>2. CASE ~NextHandler(d)
          BY <1>0, <2>3, <3>1, <5>2 DEF CountActive
        <5> QED
          BY <5>1, <5>2
      <4>2. Limit[1] \in Nat
        BY <1>0, <4>1
      <4> QED
        BY <1>0, <2>1, <4>1, <4>2
    <3>2. CASE pc[d] = "claim" /\ pos'[d] = pos[d] /\ room'[d] = room[d]
      <4>1. ActiveCount(1) + room[d] <= MaxConcurrent[1]
        BY <2>3, <3>2 DEF RoomLeft
      <4> QED
        BY <1>0, <2>1, <3>2, <4>1
    <3> QED
      BY <2>3, <3>1, <3>2, RoomSteps
  <2> QED
    BY <2>2, <2>3 DEF RoomLeft
<1> QED
  BY <1>1, <1>2

(* The cap of the first domain of the registry, whatever other domains are  *)
(* capped and whatever fails, without administrators: COUNT and claim are   *)
(* not torn apart because the next cron's invocation finds this one past    *)
(* them.                                                                    *)
THEOREM FirstCapKept ==
  ASSUME Prompt, Admins = {}
  PROVE  Spec => []FirstCap
<1>1. Init => OneEarly /\ RoomLeft /\ FirstCap
  <2> SUFFICES ASSUME Init
               PROVE  OneEarly /\ RoomLeft /\ FirstCap
    OBVIOUS
  <2>1. OneEarly /\ RoomLeft
    BY DEF Init, OneEarly, RoomLeft, Early
  <2>2. ActiveRows(1) = {}
    BY DEF Init, RowInit, ActiveRows
  <2>3. ActiveCount(1) = 0
    BY <2>2, ActiveFinite, FS_EmptySet
  <2> QED
    BY <2>1, <2>3, WorkQueueAssumption DEF FirstCap
<1>2. TypeOK /\ OneEarly /\ [Next]_vars => OneEarly'
  BY Prompt, Admins = {}, EarlyStep
<1>3. TypeOK /\ OneEarly /\ RoomLeft /\ FirstCap /\ [Next]_vars =>
        RoomLeft' /\ FirstCap'
  <2>1. CASE 1 \in Capped
    BY <2>1, CapStep
  <2>2. CASE 1 \notin Capped
    <3>1. TypeOK /\ OneEarly /\ [Next]_vars => RoomLeft'
      <4> SUFFICES ASSUME TypeOK, OneEarly, [Next]_vars, NEW d \in Drivers,
                          pc'[d] = "claim", pos'[d] = 1
                   PROVE  FALSE
        BY DEF RoomLeft
      <4> QED
        BY <1>2, <2>2 DEF OneEarly
    <3> QED
      BY <2>2, <3>1 DEF FirstCap
  <2> QED
    BY <2>1, <2>2
<1> QED
  BY <1>1, <1>2, <1>3, TypeCorrect, PTL DEF Spec

(* The other domains.  An invocation that has counted may take the room it *)
(* was left: a token for each row of it.  The rows of the domain and the    *)
(* tokens together are at most maxConcurrent for each invocation.           *)
Tokens(k) ==
  {t \in Drivers \X (1..MaxConcurrent[k]) :
     pc[t[1]] = "claim" /\ pos[t[1]] = k /\ t[2] <= room[t[1]]}

RoomWithin ==
  \A d \in Drivers : pc[d] = "claim" =>
    pos[d] \in Capped /\ room[d] <= MaxConcurrent[pos[d]]

Together(k) ==
  ActiveCount(k) + Cardinality(Tokens(k)) <= MaxConcurrent[k] * Cardinality(Drivers)

LEMMA TokensFinite ==
  ASSUME NEW k \in Capped
  PROVE  /\ IsFiniteSet(Tokens(k)) /\ IsFiniteSet(Tokens(k)')
         /\ Cardinality(Tokens(k)) \in Nat /\ Cardinality(Tokens(k)') \in Nat
         /\ IsFiniteSet(Drivers \X (1..MaxConcurrent[k]))
         /\ Cardinality(Drivers \X (1..MaxConcurrent[k])) =
              Cardinality(Drivers) * MaxConcurrent[k]
<1>1. MaxConcurrent[k] \in Nat
  BY WorkQueueAssumption
<1>2. /\ IsFiniteSet(1..MaxConcurrent[k]) /\ Cardinality(1..MaxConcurrent[k]) = MaxConcurrent[k]
  BY <1>1, FS_Interval
<1>3. /\ IsFiniteSet(Drivers \X (1..MaxConcurrent[k]))
      /\ Cardinality(Drivers \X (1..MaxConcurrent[k])) = Cardinality(Drivers) * MaxConcurrent[k]
  BY <1>2, WorkQueueAssumption, FS_Product
<1>4. /\ Tokens(k) \subseteq Drivers \X (1..MaxConcurrent[k])
      /\ Tokens(k)' \subseteq Drivers \X (1..MaxConcurrent[k])
  BY DEF Tokens
<1> QED
  BY <1>3, <1>4, FS_Subset, FS_CardinalityType

LEMMA CountedRoom ==
  ASSUME TypeOK, NEW d \in Drivers, CountActive(d), pc'[d] = "claim"
  PROVE  /\ pos[d] \in Capped /\ UNCHANGED pos /\ room'[d] \in Nat
         /\ ActiveCount(pos[d]) + room'[d] <= MaxConcurrent[pos[d]]
<1>0. /\ pc \in [Drivers -> {"idle", "sweep", "domain", "claim", "work"}]
      /\ pos \in [Drivers -> 1..NumDomains] /\ room \in [Drivers -> Nat]
      /\ pos[d] \in Capped
  BY DEF TypeOK, CountActive
<1> DEFINE available == MaxConcurrent[pos[d]] - ActiveCount(pos[d])
           n == IF available < Limit[pos[d]] THEN available ELSE Limit[pos[d]]
<1>1. /\ ActiveCount(pos[d]) \in Nat /\ Limit[pos[d]] \in Nat
      /\ MaxConcurrent[pos[d]] \in Nat
  BY <1>0, ActiveFinite, WorkQueueAssumption
<1>2. ~NextHandler(d)
  BY <1>0 DEF NextHandler
<1>3. available > 0 /\ room' = [room EXCEPT ![d] = n] /\ UNCHANGED pos
  BY <1>1, <1>2 DEF CountActive
<1> QED
  BY <1>0, <1>1, <1>3

LEMMA RoomWithinStep ==
  ASSUME TypeOK, RoomWithin, [Next]_vars
  PROVE  RoomWithin'
<1> SUFFICES ASSUME NEW d \in Drivers, pc'[d] = "claim"
             PROVE  pos'[d] \in Capped /\ room'[d] <= MaxConcurrent[pos'[d]]
  BY DEF RoomWithin
<1>1. CASE CountActive(d)
  <2>1. /\ pos[d] \in Capped /\ UNCHANGED pos /\ room'[d] \in Nat
        /\ ActiveCount(pos[d]) + room'[d] <= MaxConcurrent[pos[d]]
    BY <1>1, CountedRoom
  <2>2. ActiveCount(pos[d]) \in Nat /\ MaxConcurrent[pos[d]] \in Nat
    BY <2>1, ActiveFinite, WorkQueueAssumption
  <2> QED
    BY <2>1, <2>2
<1>2. CASE pc[d] = "claim" /\ pos'[d] = pos[d] /\ room'[d] = room[d]
  BY <1>2 DEF RoomWithin
<1> QED
  BY <1>1, <1>2, RoomSteps

(* The tokens of one invocation.                                            *)
LEMMA OwnTokens ==
  ASSUME NEW d \in Drivers, NEW n \in Nat
  PROVE  IsFiniteSet({d} \X (1..n)) /\ Cardinality({d} \X (1..n)) = n
<1>1. IsFiniteSet(1..n) /\ Cardinality(1..n) = n
  BY FS_Interval
<1>2. IsFiniteSet({d}) /\ Cardinality({d}) = 1
  BY FS_Singleton
<1>3. /\ IsFiniteSet({d} \X (1..n))
      /\ Cardinality({d} \X (1..n)) = Cardinality({d}) * Cardinality(1..n)
  BY <1>1, <1>2, FS_Product
<1> QED
  BY <1>1, <1>2, <1>3

LEMMA OthersTokens ==
  ASSUME NEW d \in Drivers, NEW m \in Nat
  PROVE  /\ IsFiniteSet((Drivers \ {d}) \X (1..m))
         /\ Cardinality((Drivers \ {d}) \X (1..m)) = m * Cardinality(Drivers) - m
<1>1. IsFiniteSet(1..m) /\ Cardinality(1..m) = m
  BY FS_Interval
<1>2. /\ IsFiniteSet(Drivers \ {d}) /\ Cardinality(Drivers) \in Nat
      /\ Cardinality(Drivers \ {d}) = Cardinality(Drivers) - 1
  BY WorkQueueAssumption, FS_RemoveElement, FS_CardinalityType
<1>3. /\ IsFiniteSet((Drivers \ {d}) \X (1..m))
      /\ Cardinality((Drivers \ {d}) \X (1..m)) =
           Cardinality(Drivers \ {d}) * Cardinality(1..m)
  BY <1>1, <1>2, FS_Product
<1>4. \A x \in Nat : (x - 1) * m = m * x - m
  OBVIOUS
<1> QED
  BY <1>1, <1>2, <1>3, <1>4

LEMMA TogetherStep ==
  ASSUME TypeOK, RoomWithin, NEW k \in Capped, Together(k), [Next]_vars
  PROVE  Together(k)'
<1> DEFINE M == MaxConcurrent[k]
           N == Cardinality(Drivers)
<1>0. /\ pc \in [Drivers -> {"idle", "sweep", "domain", "claim", "work"}]
      /\ pos \in [Drivers -> 1..NumDomains] /\ room \in [Drivers -> Nat]
      /\ M \in Nat /\ N \in Nat /\ M * N \in Nat
      /\ ActiveCount(k) \in Nat /\ ActiveCount(k)' \in Nat
  BY WorkQueueAssumption, FS_CardinalityType, ActiveFinite, ActiveFiniteNext DEF TypeOK
<1>1. /\ IsFiniteSet(Tokens(k)) /\ IsFiniteSet(Tokens(k)')
      /\ Cardinality(Tokens(k)) \in Nat /\ Cardinality(Tokens(k)') \in Nat
  BY TokensFinite
<1>2. ASSUME NEW d \in Drivers, Claim(d), pos[d] = k
      PROVE  Together(k)'
  <2>1. pc[d] = "claim" /\ ClaimLimit(d) = room[d] /\ room[d] \in Nat /\ room[d] <= M
    BY <1>0, <1>2 DEF Claim, ReadyToClaim, ClaimLimit, RoomWithin
  <2>2. ActiveCount(k)' <= ActiveCount(k) + room[d]
    BY <1>2, <2>1, ClaimCounts
  <2>3. pc' = [pc EXCEPT ![d] = "work"] /\ UNCHANGED pos /\ room' = [room EXCEPT ![d] = 0]
    BY <1>2 DEF Claim
  <2> DEFINE own == {d} \X (1..room[d])
  <2>4. own \subseteq Tokens(k)
    BY <1>0, <1>2, <2>1 DEF Tokens
  <2>5. Tokens(k)' \subseteq Tokens(k) \ own
    BY <1>0, <2>3 DEF Tokens
  <2>6. IsFiniteSet(own) /\ Cardinality(own) = room[d] /\ Tokens(k) \cap own = own
    BY <2>1, <2>4, OwnTokens
  <2>7. /\ IsFiniteSet(Tokens(k) \ own)
        /\ Cardinality(Tokens(k) \ own) = Cardinality(Tokens(k)) - room[d]
    <3> HIDE DEF own
    <3>1. /\ IsFiniteSet(Tokens(k) \ own)
          /\ Cardinality(Tokens(k) \ own) =
               Cardinality(Tokens(k)) - Cardinality(Tokens(k) \cap own)
      BY <1>1, FS_Difference
    <3> QED
      BY <2>6, <3>1
  <2>8. Cardinality(Tokens(k)') <= Cardinality(Tokens(k)) - room[d]
    BY <2>5, <2>7, FS_Subset
  <2>9. Cardinality(Drivers)' = N /\ MaxConcurrent[k]' = M
    OBVIOUS
  <2> QED
    BY <1>0, <1>1, <2>1, <2>2, <2>8 DEF Together
<1>3. ASSUME \A d \in Drivers : Claim(d) => pos[d] # k,
             NEW d \in Drivers, CountActive(d), pc'[d] = "claim", pos[d] = k
      PROVE  Together(k)'
  <2>1. /\ UNCHANGED pos /\ room'[d] \in Nat
        /\ ActiveCount(k) + room'[d] <= M
    BY <1>3, CountedRoom
  <2>2. ActiveCount(k)' <= ActiveCount(k)
    BY <1>3, CountsDrop
  <2> DEFINE own == {d} \X (1..room'[d])
             others == (Drivers \ {d}) \X (1..M)
  <2>3. Tokens(k)' \subseteq own \cup others
    BY <2>1 DEF Tokens
  <2>4. IsFiniteSet(own) /\ Cardinality(own) = room'[d]
    BY <2>1, OwnTokens
  <2>5. IsFiniteSet(others) /\ Cardinality(others) = M * N - M
    BY <1>0, OthersTokens
  <2>6. /\ IsFiniteSet(own \cup others)
        /\ Cardinality(own \cup others) <= Cardinality(own) + Cardinality(others)
    <3>1. /\ IsFiniteSet(own \cup others)
          /\ Cardinality(own \cup others) =
               Cardinality(own) + Cardinality(others) - Cardinality(own \cap others)
      BY <2>4, <2>5, FS_Union
    <3>2. Cardinality(own \cap others) \in Nat
      BY <2>4, FS_Subset, FS_CardinalityType
    <3> QED
      BY <1>0, <2>1, <2>4, <2>5, <3>1, <3>2
  <2>7. Cardinality(Tokens(k)') <= Cardinality(own \cup others)
    BY <2>3, <2>6, FS_Subset
  <2>8. Cardinality(own \cup others) \in Nat
    BY <2>6, FS_CardinalityType
  <2> HIDE DEF own, others
  <2> QED
    BY <1>0, <1>1, <2>1, <2>2, <2>4, <2>5, <2>6, <2>7, <2>8 DEF Together
<1>4. ASSUME \A d \in Drivers : Claim(d) => pos[d] # k,
             \A d \in Drivers : CountActive(d) /\ pc'[d] = "claim" => pos[d] # k
      PROVE  Together(k)'
  <2>1. ActiveCount(k)' <= ActiveCount(k)
    BY <1>4, CountsDrop
  <2>2. ASSUME NEW d \in Drivers, pc'[d] = "claim", pos'[d] = k
        PROVE  pc[d] = "claim" /\ pos[d] = k /\ room'[d] = room[d]
    <3>1. ~CountActive(d)
      BY <1>4, <2>2, CountedRoom
    <3> QED
      BY <2>2, <3>1, RoomSteps
  <2>3. Tokens(k)' \subseteq Tokens(k)
    BY <2>2 DEF Tokens
  <2>4. Cardinality(Tokens(k)') <= Cardinality(Tokens(k))
    BY <1>1, <2>3, FS_Subset
  <2> QED
    BY <1>0, <1>1, <2>1, <2>4 DEF Together
<1> QED
  BY <1>2, <1>3, <1>4

EachTogether == \A k \in Capped : Together(k)

(* ConcurrencyCap.  However many domains are capped, whoever starts ticks   *)
(* and whatever fails, the invocations that counted together overrun a cap  *)
(* by no more than it allows each of them, and the cron's alone keep that   *)
(* of the first domain, if no minute passes between its statements.         *)
THEOREM CapsHold ==
  ASSUME Prompt \/ Admins # {}
  PROVE  Spec => []ConcurrencyCap
<1>1. Init => RoomWithin
  BY DEF Init, RoomWithin
<1>2. Init => EachTogether
  <2> SUFFICES ASSUME Init, NEW k \in Capped
               PROVE  Together(k)
    BY DEF EachTogether
  <2>1. Tokens(k) = {}
    BY DEF Init, Tokens
  <2>2. ActiveRows(k) = {}
    BY DEF Init, RowInit, ActiveRows
  <2>3. ActiveCount(k) = 0 /\ Cardinality(Tokens(k)) = 0
    BY <2>1, <2>2, ActiveFinite, FS_EmptySet
  <2>4. 0 <= MaxConcurrent[k] * Cardinality(Drivers)
    <3>1. MaxConcurrent[k] \in Nat /\ Cardinality(Drivers) \in Nat
      BY WorkQueueAssumption, FS_CardinalityType
    <3> QED
      BY <3>1
  <2> QED
    BY <2>1, <2>3, <2>4 DEF Together
<1>3. TypeOK /\ RoomWithin /\ [Next]_vars => RoomWithin'
  BY RoomWithinStep
<1>4. TypeOK /\ RoomWithin /\ EachTogether /\ [Next]_vars => EachTogether'
  BY TogetherStep DEF EachTogether
<1>5. EachTogether =>
        \A k \in Capped : ActiveCount(k) <= MaxConcurrent[k] * Cardinality(Drivers)
  <2> SUFFICES ASSUME EachTogether, NEW k \in Capped
               PROVE  ActiveCount(k) <= MaxConcurrent[k] * Cardinality(Drivers)
    OBVIOUS
  <2>1. MaxConcurrent[k] \in Nat /\ Cardinality(Drivers) \in Nat
    BY WorkQueueAssumption, FS_CardinalityType
  <2>2. MaxConcurrent[k] * Cardinality(Drivers) \in Nat
    BY <2>1
  <2>3. ActiveCount(k) \in Nat /\ Cardinality(Tokens(k)) \in Nat
    BY ActiveFinite, TokensFinite
  <2> QED
    BY <2>2, <2>3 DEF EachTogether, Together
<1>6. ASSUME Admins = {}
      PROVE  Spec => []FirstCap
  BY <1>6, FirstCapKept
<1>7. Spec => [](Admins = {} => FirstCap)
  <2>1. CASE Admins = {}
    <3>1. FirstCap => (Admins = {} => FirstCap)
      OBVIOUS
    <3> QED
      BY <1>6, <2>1, <3>1, PTL
  <2>2. CASE Admins # {}
    <3>1. Admins = {} => FirstCap
      BY <2>2
    <3> QED
      BY <3>1, PTL
  <2> QED
    BY <2>1, <2>2
<1>8. EachTogether /\ (Admins = {} => FirstCap) => ConcurrencyCap
  BY <1>5 DEF ConcurrencyCap, FirstCap
<1> QED
  BY <1>1, <1>2, <1>3, <1>4, <1>7, <1>8, TypeCorrect, PTL DEF Spec
=============================================================================
