------------------------- MODULE UpstreamBudgetProofs -------------------------
(***************************************************************************)
(* Theorems about UpstreamBudget, for any number of callers.               *)
(*                                                                         *)
(* The cap needs only its own range.  The overshoot needs a count: used    *)
(* plus the callers let through that have yet to reserve stays below       *)
(* DefaultCap plus the number of callers, since checkBudget lets a caller  *)
(* through only while used < cap.                                          *)
(***************************************************************************)
EXTENDS UpstreamBudget, FiniteSetTheorems, TLAPS

LEMMA LoweredRange ==
  ASSUME cap \in 1..DefaultCap
  PROVE  Lowered \in 1..DefaultCap /\ Lowered <= cap
<1>1. DefaultCap \in Nat
  BY UpstreamBudgetAssumption
<1>2. (cap * 9) \div 10 \in Int /\ (cap * 9) \div 10 <= cap
  BY <1>1
<1>3. QED
  BY <1>1, <1>2 DEF Lowered

(* The cap moves only in recordRateLimit.                                   *)
LEMMA CapStep ==
  ASSUME CapRange, [Next]_vars
  PROVE  CapRange' /\ cap' <= cap
<1>0. DefaultCap \in Nat /\ cap \in 1..DefaultCap
  BY UpstreamBudgetAssumption DEF CapRange
<1>1. UNCHANGED cap => CapRange' /\ cap' <= cap
  BY <1>0 DEF CapRange
<1>2. RecordRateLimit => CapRange' /\ cap' <= cap
  BY <1>0, LoweredRange DEF RecordRateLimit, CapRange
<1>3. ASSUME NEW c \in Callers, Step(c)
      PROVE  CapRange' /\ cap' <= cap
  <2>1. CASE Check(c) \/ Claim(c) \/ Go(c) \/ Respond(c)
    BY <2>1, <1>1 DEF Check, Claim, Go, Respond, ledger
  <2>2. CASE ClearCircuit(c) \/ Reserve(c) \/ GraphRecord(c)
    BY <2>2, <1>1 DEF ClearCircuit, Reserve, ReserveBudget, GraphRecord, RecordUsage, AddUnit
  <2>3. CASE Settle(c)
    BY <2>3, <1>1, <1>2
    DEF Settle, RecordBudgetSuccess, RecordUsage, AddUnit, ledger
  <2>4. CASE GraphRetry(c)
    BY <2>4, <1>2 DEF GraphRetry
  <2>5. QED
    BY <1>3, <2>1, <2>2, <2>3, <2>4 DEF Step
<1>4. CASE Tick
  BY <1>4, <1>1 DEF Tick
<1>5. CASE UNCHANGED vars
  BY <1>5, <1>1 DEF vars, ledger
<1>6. QED
  BY <1>3, <1>4, <1>5 DEF Next

LEMMA CapInit == Init => CapRange
BY UpstreamBudgetAssumption DEF Init, CapRange

(* The cap stays between 1 and the configured one.                          *)
THEOREM CapInRange == Spec => []CapRange
BY CapInit, CapStep, PTL DEF Spec

(* No interleaving of callers ever raises the cap.                          *)
THEOREM CapOnlyFalls == Spec => CapNeverRaised
<1>1. CapRange /\ [Next]_vars => CapRange' /\ [cap' <= cap]_vars
  BY CapStep
<1>2. QED
  BY <1>1, CapInit, PTL DEF Spec, CapNeverRaised

------------------------------------------------------------------------------
(* Types.                                                                   *)

(* What the five statements on the row do to its columns.                   *)
LEMMA AddUnitTypes ==
  ASSUME TypeOK, AddUnit
  PROVE  known' \in BOOLEAN /\ used' \in Nat /\ cap' \in Nat /\ age' \in Nat
         /\ open' \in Nat \cup {NoCircuit}
<1>1. used \in Nat /\ age \in Nat /\ cap \in Nat /\ open \in Nat \cup {NoCircuit}
  BY DEF TypeOK
<1>2. known' \in BOOLEAN
  BY DEF AddUnit
<1>3. used' \in Nat
  BY <1>1 DEF AddUnit
<1>4. age' \in Nat
  BY <1>1 DEF AddUnit
<1>5. cap' \in Nat /\ open' \in Nat \cup {NoCircuit}
  BY <1>1 DEF AddUnit
<1>6. QED
  BY <1>2, <1>3, <1>4, <1>5

LEMMA RateLimitTypes ==
  ASSUME TypeOK, CapRange, RecordRateLimit
  PROVE  known' \in BOOLEAN /\ used' \in Nat /\ cap' \in Nat /\ streak' \in Nat
         /\ age' \in Nat /\ open' \in Nat \cup {NoCircuit}
<1>1. /\ used \in Nat /\ age \in Nat /\ streak \in Nat /\ cap \in Nat
      /\ open \in Nat \cup {NoCircuit}
  BY DEF TypeOK
<1>2. Lowered \in Nat
  BY LoweredRange, UpstreamBudgetAssumption DEF CapRange
<1>3. known' \in BOOLEAN
  BY DEF RecordRateLimit
<1>4. used' \in Nat
  BY <1>1 DEF RecordRateLimit
<1>5. cap' \in Nat
  BY <1>1, <1>2 DEF RecordRateLimit
<1>6. streak' \in Nat
  BY <1>1 DEF RecordRateLimit
<1>7. age' \in Nat
  BY <1>1 DEF RecordRateLimit
<1>8. open' \in Nat \cup {NoCircuit}
  BY <1>1, UpstreamBudgetAssumption DEF RecordRateLimit
<1>9. QED
  BY <1>3, <1>4, <1>5, <1>6, <1>7, <1>8

(* A ledger row stays with its upstream.                                    *)
LEMMA StyleStep ==
  ASSUME [Next]_vars
  PROVE  style' = style
<1>1. ASSUME NEW c \in Callers, Step(c)
      PROVE  style' = style
  BY <1>1 DEF Step, Check, ClearCircuit, Reserve, Claim, Go, Respond, Settle,
     GraphRecord, GraphRetry, Goto
<1>2. QED
  BY <1>1 DEF Next, Tick, vars

RowOK ==
  /\ known \in BOOLEAN
  /\ used \in Nat
  /\ cap \in Nat
  /\ streak \in Nat
  /\ open \in Nat \cup {NoCircuit}
  /\ age \in Nat

CallerOK ==
  /\ pc \in [Callers -> Steps]
  /\ tries \in [Callers -> Nat]
  /\ rejects \in Nat

LEMMA TypeParts == TypeOK <=> style \in Disciplines /\ RowOK /\ CallerOK
BY DEF TypeOK, RowOK, CallerOK

LEMMA GotoTypes ==
  ASSUME TypeOK, NEW c \in Callers, NEW s \in Steps, Goto(c, s)
  PROVE  pc' \in [Callers -> Steps]
BY DEF TypeOK, Goto

LEMMA StepNames ==
  /\ "idle" \in Steps /\ "clear" \in Steps /\ "refused" \in Steps
  /\ "admitted" \in Steps /\ "calling" \in Steps /\ "succeeded" \in Steps
  /\ "limited" \in Steps /\ "broken" \in Steps /\ "retry" \in Steps
BY DEF Steps

LEMMA RowStep ==
  ASSUME TypeOK, CapRange, [Next]_vars
  PROVE  RowOK'
<1>1. UNCHANGED ledger => RowOK'
  BY DEF TypeOK, RowOK, ledger
<1>2. AddUnit /\ streak' \in Nat => RowOK'
  BY AddUnitTypes DEF RowOK
<1>3. RecordRateLimit => RowOK'
  BY RateLimitTypes DEF RowOK
<1>4. RecordUsage => RowOK'
  BY <1>2 DEF RecordUsage
<1>5. streak \in Nat
  BY DEF TypeOK
<1>6. ASSUME NEW c \in Callers, Step(c)
      PROVE  RowOK'
  <2>1. CASE Check(c) \/ Claim(c) \/ Go(c) \/ Respond(c)
    BY <2>1, <1>1 DEF Check, Claim, Go, Respond
  <2>2. CASE ClearCircuit(c)
    BY <2>2 DEF ClearCircuit, TypeOK, RowOK
  <2>3. CASE Reserve(c)
    BY <2>3, <1>2, <1>5 DEF Reserve, ReserveBudget
  <2>4. CASE GraphRecord(c)
    BY <2>4, <1>4 DEF GraphRecord
  <2>5. CASE GraphRetry(c)
    BY <2>5, <1>3 DEF GraphRetry
  <2>6. CASE Settle(c)
    <3>1. RecordBudgetSuccess => RowOK'
      BY <1>5 DEF RecordBudgetSuccess, TypeOK, RowOK
    <3>2. QED
      BY <2>6, <3>1, <1>1, <1>3, <1>4 DEF Settle
  <2>7. QED
    BY <1>6, <2>1, <2>2, <2>3, <2>4, <2>5, <2>6 DEF Step
<1>7. CASE Tick
  <2>1. open' \in Nat \cup {NoCircuit} /\ age' \in Nat
    BY <1>7 DEF Tick, TypeOK
  <2>2. QED
    BY <2>1, <1>7 DEF Tick, TypeOK, RowOK
<1>8. CASE UNCHANGED vars
  BY <1>8, <1>1 DEF vars
<1>9. QED
  BY <1>6, <1>7, <1>8 DEF Next

LEMMA CallerStep ==
  ASSUME TypeOK, [Next]_vars
  PROVE  CallerOK'
<1>1. UNCHANGED <<pc, tries, rejects>> => CallerOK'
  BY DEF TypeOK, CallerOK
<1>2. tries \in [Callers -> Nat] /\ rejects \in Nat
  BY DEF TypeOK
<1>3. ASSUME NEW c \in Callers, Step(c)
      PROVE  CallerOK'
  <2>1. ASSUME NEW s \in Steps, Goto(c, s)
        PROVE  pc' \in [Callers -> Steps]
    BY <2>1, GotoTypes
  <2>2. CASE Check(c)
    BY <2>2, <2>1, <1>2, StepNames DEF Check, CallerOK
  <2>3. CASE ClearCircuit(c)
    BY <2>3, <2>1, <1>2, StepNames DEF ClearCircuit, CallerOK
  <2>4. CASE Reserve(c)
    BY <2>4, <2>1, <1>2, StepNames DEF Reserve, CallerOK
  <2>5. CASE Claim(c) \/ Go(c)
    BY <2>5, <2>1, <1>2, StepNames DEF Claim, Go, CallerOK
  <2>6. CASE Respond(c)
    <3>1. rejects' \in Nat
      BY <2>6, <1>2 DEF Respond
    <3>2. QED
      BY <2>6, <3>1, <2>1, <1>2, StepNames DEF Respond, CallerOK
  <2>7. CASE Settle(c)
    <3>1. rejects' \in Nat
      BY <2>7, <1>2 DEF Settle
    <3>2. QED
      BY <2>7, <3>1, <2>1, <1>2, StepNames DEF Settle, CallerOK
  <2>8. CASE GraphRecord(c)
    <3>1. tries' \in [Callers -> Nat]
      BY <2>8, <1>2 DEF GraphRecord
    <3>2. QED
      BY <2>8, <3>1, <2>1, <1>2, StepNames DEF GraphRecord, CallerOK
  <2>9. CASE GraphRetry(c)
    <3>1. rejects' \in Nat
      BY <2>9, <1>2 DEF GraphRetry
    <3>2. QED
      BY <2>9, <3>1, <2>1, <1>2, StepNames DEF GraphRetry, CallerOK
  <2>10. QED
    BY <1>3, <2>2, <2>3, <2>4, <2>5, <2>6, <2>7, <2>8, <2>9 DEF Step
<1>4. CASE Tick
  BY <1>4, <1>1 DEF Tick
<1>5. CASE UNCHANGED vars
  BY <1>5, <1>1 DEF vars
<1>6. QED
  BY <1>3, <1>4, <1>5 DEF Next

LEMMA TypeInit == Init => TypeOK
<1> SUFFICES ASSUME Init
             PROVE  TypeOK
  OBVIOUS
<1>1. RowOK
  BY UpstreamBudgetAssumption DEF Init, RowOK
<1>2. CallerOK
  <2>1. pc \in [Callers -> Steps]
    BY StepNames DEF Init
  <2>2. tries \in [Callers -> Nat] /\ rejects \in Nat
    BY DEF Init
  <2>3. QED
    BY <2>1, <2>2 DEF CallerOK
<1>3. QED
  BY <1>1, <1>2, TypeParts DEF Init

LEMMA TypeStep == TypeOK /\ CapRange /\ [Next]_vars => TypeOK'
<1>1. style' \in Disciplines /\ RowOK' /\ CallerOK' => TypeOK'
  BY DEF TypeOK, RowOK, CallerOK
<1>2. TypeOK /\ [Next]_vars => style' \in Disciplines
  BY StyleStep DEF TypeOK
<1>3. QED
  BY <1>1, <1>2, RowStep, CallerStep

(* Every variable keeps its type.                                           *)
THEOREM TypeCorrect == Spec => []TypeOK
<1>1. TypeOK /\ CapRange /\ [Next]_vars => (TypeOK /\ CapRange)'
  BY TypeStep, CapStep
<1>2. QED
  BY <1>1, TypeInit, CapInit, PTL DEF Spec

------------------------------------------------------------------------------
(* The overshoot.                                                           *)

(* The callers that passed the check and have not reserved their unit.      *)
Passed == {c \in Callers : pc[c] \in {"clear", "admitted"}}

(* What the next reservation adds to.                                       *)
Current == IF age = WindowLen THEN 0 ELSE used

Ceiling == DefaultCap + Cardinality(Callers) - 1

OvershootInv ==
  /\ TypeOK
  /\ CapRange
  /\ ~known => age = WindowLen
  /\ used <= Ceiling
  /\ Current + Cardinality(Passed) <= Ceiling

LEMMA PassedFinite ==
  /\ IsFiniteSet(Passed) /\ Cardinality(Passed) \in Nat
  /\ IsFiniteSet(Passed') /\ Cardinality(Passed') \in Nat
  /\ Cardinality(Callers) \in Nat
  /\ Cardinality(Passed') <= Cardinality(Callers)
  /\ Ceiling \in Int
<1>1. IsFiniteSet(Callers) /\ DefaultCap \in Nat
  BY UpstreamBudgetAssumption
<1>2. Passed \subseteq Callers /\ Passed' \subseteq Callers
  BY DEF Passed
<1>3. IsFiniteSet(Passed) /\ IsFiniteSet(Passed')
      /\ Cardinality(Passed') <= Cardinality(Callers)
  BY <1>1, <1>2, FS_Subset
<1>4. QED
  BY <1>1, <1>3, FS_CardinalityType DEF Ceiling

LEMMA CurrentType == TypeOK => Current \in Nat
BY DEF TypeOK, Current

LEMMA PassedSame ==
  ASSUME TypeOK, NEW c \in Callers, NEW s \in Steps, Goto(c, s),
         pc[c] \in {"clear", "admitted"} <=> s \in {"clear", "admitted"}
  PROVE  Passed' = Passed
<1>1. \A e \in Callers : pc'[e] = IF e = c THEN s ELSE pc[e]
  BY DEF Goto, TypeOK
<1>2. QED
  BY <1>1 DEF Passed

(* Nothing that leaves the count of let-through callers alone and does not  *)
(* raise the usage can break the bound.                                     *)
LEMMA OvershootQuiet ==
  ASSUME OvershootInv, TypeOK', CapRange', Passed' = Passed,
         ~known' => age' = WindowLen, used' <= used, Current' <= Current
  PROVE  OvershootInv'
<1>1. used \in Nat /\ used' \in Nat
  BY DEF OvershootInv, TypeOK
<1>2. Current \in Nat /\ Current' \in Nat
  BY <1>1, CurrentType DEF OvershootInv, Current
<1>3. Ceiling' = Ceiling
  BY DEF Ceiling
<1>4. used' <= Ceiling
  BY <1>1, PassedFinite DEF OvershootInv, TypeOK
<1>5. Current' + Cardinality(Passed) <= Ceiling
  BY <1>2, PassedFinite DEF OvershootInv
<1>6. QED
  BY <1>3, <1>4, <1>5 DEF OvershootInv

LEMMA OvershootCheck ==
  ASSUME OvershootInv, TypeOK', CapRange', NEW c \in Callers, Check(c)
  PROVE  OvershootInv'
<1>1. known' = known /\ age' = age /\ used' = used /\ Current' = Current
  BY DEF Check, ledger, Current
<1>2. Current \in Nat /\ used \in Nat /\ cap \in Nat /\ DefaultCap \in Nat /\ cap <= DefaultCap
  BY CurrentType, UpstreamBudgetAssumption DEF OvershootInv, TypeOK, CapRange
<1>3. CASE Admits(c)
  <2>1. Current < cap
    BY <1>2, <1>3 DEF Admits, Current
  <2>2. Current + Cardinality(Passed') <= Ceiling
    BY <1>2, <2>1, PassedFinite DEF Ceiling
  <2>3. Ceiling' = Ceiling
    BY DEF Ceiling
  <2>4. QED
    BY <1>1, <2>2, <2>3 DEF OvershootInv
<1>4. CASE ~Admits(c)
  <2>1. Goto(c, "refused") /\ pc[c] = "idle"
    BY <1>4 DEF Check
  <2>2. Passed' = Passed
    BY <2>1, PassedSame, StepNames DEF OvershootInv
  <2>3. QED
    BY <1>1, <1>2, <2>2, OvershootQuiet DEF OvershootInv
<1>5. QED
  BY <1>3, <1>4

LEMMA OvershootReserve ==
  ASSUME OvershootInv, TypeOK', CapRange', NEW c \in Callers, Reserve(c)
  PROVE  OvershootInv'
<1>1. Current \in Nat /\ used \in Nat
  BY CurrentType DEF OvershootInv, TypeOK
<1>2. c \in Passed /\ Passed' = Passed \ {c}
  <2>1. pc[c] = "admitted" /\ \A e \in Callers : pc'[e] = IF e = c THEN "calling" ELSE pc[e]
    BY DEF Reserve, Goto, OvershootInv, TypeOK
  <2>2. QED
    BY <2>1 DEF Passed
<1>3. Cardinality(Passed') = Cardinality(Passed) - 1
  BY <1>2, PassedFinite, FS_RemoveElement
<1>4. AddUnit
  BY DEF Reserve, ReserveBudget
<1>5. used' = Current + 1 /\ known' = TRUE
  <2>1. ~known => age = WindowLen
    BY DEF OvershootInv
  <2>2. QED
    BY <1>1, <1>4, <2>1 DEF AddUnit, Current
<1>6. Current' <= used'
  BY <1>1, <1>5 DEF Current
<1>7. Current' \in Nat
  BY CurrentType DEF TypeOK, Current
<1>8. Current + Cardinality(Passed) <= Ceiling /\ Ceiling' = Ceiling
  BY DEF OvershootInv, Ceiling
<1>9. used' <= Ceiling' /\ Current' + Cardinality(Passed') <= Ceiling'
  BY <1>1, <1>3, <1>5, <1>6, <1>7, <1>8, PassedFinite
<1>10. QED
  BY <1>5, <1>9 DEF OvershootInv

LEMMA RateLimitUsage ==
  ASSUME OvershootInv, RecordRateLimit
  PROVE  known' /\ used' <= used /\ Current' <= Current
<1>1. used \in Nat
  BY DEF OvershootInv, TypeOK
<1>2. known'
  BY DEF RecordRateLimit
<1>3. CASE known
  BY <1>1, <1>2, <1>3 DEF RecordRateLimit, Current
<1>4. CASE ~known
  <2>1. used' = 0 /\ Current' = 0
    BY <1>4 DEF RecordRateLimit, Current
  <2>2. Current \in Nat
    BY CurrentType DEF OvershootInv
  <2>3. QED
    BY <1>1, <1>2, <2>1, <2>2
<1>5. QED
  BY <1>3, <1>4

LEMMA OvershootStep ==
  ASSUME style = "reserve", OvershootInv, [Next]_vars
  PROVE  OvershootInv'
<1>1. TypeOK' /\ CapRange'
  BY TypeStep, CapStep DEF OvershootInv
<1>2. /\ TypeOK /\ used \in Nat /\ Current \in Nat
      /\ ~known => age = WindowLen
  BY CurrentType DEF OvershootInv, TypeOK
<1>3. ASSUME Passed' = Passed, known' = known, age' = age, used' = used
      PROVE  OvershootInv'
  BY <1>1, <1>2, <1>3, OvershootQuiet DEF Current
<1>4. ASSUME Passed' = Passed, RecordRateLimit
      PROVE  OvershootInv'
  BY <1>1, <1>2, <1>4, RateLimitUsage, OvershootQuiet
<1>5. ASSUME NEW c \in Callers, Step(c)
      PROVE  OvershootInv'
  <2>1. ASSUME NEW s \in Steps, Goto(c, s), s \notin {"clear", "admitted"},
               pc[c] \notin {"clear", "admitted"}
        PROVE  Passed' = Passed
    BY <1>2, <2>1, PassedSame
  <2>2. CASE Check(c)
    BY <2>2, <1>1, OvershootCheck
  <2>3. CASE Reserve(c)
    BY <2>3, <1>1, OvershootReserve
  <2>4. CASE ClearCircuit(c)
    <3>1. CASE pc[c] = "clear"
      <4>1. Passed' = Passed
        BY <2>4, <3>1, <1>2, PassedSame, StepNames DEF ClearCircuit
      <4>2. QED
        BY <4>1, <2>4, <1>3 DEF ClearCircuit
    <3>2. CASE pc[c] = "refused"
      <4>1. Passed' = Passed
        BY <2>4, <3>2, <2>1, StepNames DEF ClearCircuit
      <4>2. QED
        BY <4>1, <2>4, <1>3 DEF ClearCircuit
    <3>3. QED
      BY <2>4, <3>1, <3>2 DEF ClearCircuit
  <2>5. CASE Claim(c) \/ Go(c)
    BY <2>5 DEF Claim, Go
  <2>6. CASE Respond(c)
    <3>1. Passed' = Passed
      BY <2>6, <2>1, StepNames DEF Respond
    <3>2. QED
      BY <3>1, <2>6, <1>3 DEF Respond, ledger
  <2>7. CASE Settle(c)
    <3>1. Passed' = Passed
      BY <2>7, <2>1, StepNames DEF Settle
    <3>2. QED
      BY <3>1, <2>7, <1>3, <1>4 DEF Settle, RecordBudgetSuccess, ledger
  <2>8. CASE GraphRecord(c)
    BY <2>8 DEF GraphRecord
  <2>9. CASE GraphRetry(c)
    <3>1. Passed' = Passed
      BY <2>9, <2>1, StepNames DEF GraphRetry
    <3>2. QED
      BY <3>1, <2>9, <1>4 DEF GraphRetry
  <2>10. QED
    BY <1>5, <2>2, <2>3, <2>4, <2>5, <2>6, <2>7, <2>8, <2>9 DEF Step
<1>6. CASE Tick
  <2>1. Passed' = Passed /\ known' = known /\ used' = used
    BY <1>6 DEF Tick, Passed
  <2>2. age = WindowLen => age' = WindowLen
    <3>1. age' = IF age < WindowLen THEN age + 1 ELSE age
      BY <1>6 DEF Tick
    <3>2. WindowLen \in Nat
      BY UpstreamBudgetAssumption
    <3>3. QED
      BY <3>1, <3>2
  <2>3. Current' <= Current
    BY <1>2, <2>1, <2>2 DEF Current
  <2>4. QED
    BY <1>1, <1>2, <2>1, <2>2, <2>3, OvershootQuiet
<1>7. CASE UNCHANGED vars
  <2>1. Passed' = Passed
    BY <1>7 DEF vars, Passed
  <2>2. QED
    BY <2>1, <1>7, <1>3 DEF vars, ledger
<1>8. QED
  BY <1>5, <1>6, <1>7 DEF Next

LEMMA OvershootInit == Init => OvershootInv
<1> SUFFICES ASSUME Init
             PROVE  OvershootInv
  OBVIOUS
<1>1. TypeOK /\ CapRange
  BY TypeInit, CapInit
<1>2. Passed = {}
  BY DEF Init, Passed
<1>3. Cardinality(Passed) = 0
  BY <1>2, FS_EmptySet
<1>4. Cardinality(Callers) >= 1
  <2>1. IsFiniteSet(Callers) /\ Callers # {}
    BY UpstreamBudgetAssumption
  <2>2. Cardinality(Callers) # 0
    BY <2>1, FS_EmptySet
  <2>3. QED
    BY <2>2, PassedFinite
<1>5. 0 <= Ceiling
  BY <1>4, UpstreamBudgetAssumption, PassedFinite DEF Ceiling
<1>6. used = 0 /\ Current = 0 /\ age = WindowLen
  BY DEF Init, Current
<1>7. QED
  BY <1>1, <1>3, <1>5, <1>6 DEF OvershootInv

(* Where callers reserve before they call, they overshoot the configured    *)
(* cap by at most their number less one, whatever their interleaving, the   *)
(* clock and the trips of the breaker.                                      *)
THEOREM OvershootBounded == Spec => []BoundedOvershoot
<1> DEFINE Inv == style = "reserve" => OvershootInv
<1>1. Inv => BoundedOvershoot
  BY DEF OvershootInv, BoundedOvershoot, Ceiling
<1>2. Inv /\ [Next]_vars => Inv'
  BY OvershootStep, StyleStep
<1>3. Init => Inv
  BY OvershootInit
<1> HIDE DEF Inv
<1>4. QED
  BY <1>1, <1>2, <1>3, PTL DEF Spec
==============================================================================
