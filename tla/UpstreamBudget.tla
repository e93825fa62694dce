---------------------------- MODULE UpstreamBudget ----------------------------
(***************************************************************************)
(* One row of upstream_budget_ledger (src/lib/upstream-budget.ts): the     *)
(* usage window, the self-lowering cap and the circuit breaker of one      *)
(* (org, user, upstream, window), shared by concurrent callers.            *)
(*                                                                         *)
(* The callers of an upstream follow one of four disciplines:              *)
(*   "reserve"  Claude and Gemini: check, reserve, call, then record the   *)
(*              success or the 429;                                        *)
(*   "graph"    Microsoft Graph: check once, then up to MaxTries fetches,  *)
(*              each one recorded as usage before its status is looked at; *)
(*   "after"    embeddings: their work_queue rows are tagged 'bge', so an  *)
(*              open circuit keeps them from being claimed; usage or 429   *)
(*              recorded after the call;                                   *)
(*   "free"     Firefly: the same, but its rows are tagged 'firefly_api'   *)
(*              and its ledger row is 'firefly', so nothing looks at the   *)
(*              circuit.                                                   *)
(* Times are countdowns: open to circuit_open_until, age up from           *)
(* bucket_start.  The exact millisecond at which a window ends, where      *)
(* checkBudget and the upserts disagree, is below this model's clock.      *)
(***************************************************************************)
EXTENDS Integers, FiniteSets

CONSTANTS
  Callers,
  Disciplines,  \* those considered
  Low,          \* callers with priority 'low'
  DefaultCap,   \* DEFAULT_CAPS of the pair
  WindowLen,    \* WINDOW_LENGTH_MS
  CircuitLen,   \* CIRCUIT_OPEN_MS
  MaxTries,     \* maxAttempts of graphFetchWithRetry
  MaxUsed       \* bound on used, which nothing in the code limits

Threshold == 3  \* CIRCUIT_TRIP_THRESHOLD
NoCircuit == -1

ASSUME UpstreamBudgetAssumption ==
  /\ IsFiniteSet(Callers)
  /\ Callers # {}
  /\ Disciplines \subseteq {"reserve", "graph", "after", "free"}
  /\ Low \subseteq Callers
  /\ DefaultCap \in Nat \ {0}
  /\ WindowLen \in Nat \ {0}
  /\ CircuitLen \in Nat \ {0}
  /\ MaxTries \in Nat \ {0}
  /\ MaxUsed \in Nat

VARIABLES
  style,     \* the discipline of the upstream of this row
  known,     \* the row exists
  used, cap, \* its columns
  streak,    \* consecutive_429s
  open,      \* time to circuit_open_until; 0 once past, NoCircuit when NULL
  age,       \* time since bucket_start, WindowLen once the window is over
  pc,        \* what each caller is doing
  tries,     \* fetches of a "graph" caller so far
  rejects    \* 429s answered since the last success or trip (ghost)

ledger == <<known, used, cap, streak, open, age>>
vars == <<style, ledger, pc, tries, rejects>>

Steps == {"idle", "clear", "refused", "admitted", "calling",
          "succeeded", "limited", "broken", "retry"}

TypeOK ==
  /\ style \in Disciplines
  /\ known \in BOOLEAN
  /\ used \in Nat
  /\ cap \in Nat
  /\ streak \in Nat
  /\ open \in Nat \cup {NoCircuit}
  /\ age \in Nat
  /\ pc \in [Callers -> Steps]
  /\ tries \in [Callers -> Nat]
  /\ rejects \in Nat

Init ==
  /\ style \in Disciplines
  /\ known = FALSE
  /\ used = 0
  /\ cap = DefaultCap
  /\ streak = 0
  /\ open = NoCircuit
  /\ age = WindowLen
  /\ pc = [c \in Callers |-> "idle"]
  /\ tries = [c \in Callers |-> 0]
  /\ rejects = 0

------------------------------------------------------------------------------
(* The statements of upstream-budget.ts.                                    *)

(* The upsert that recordUsage and reserveBudget share: insert the row, or  *)
(* roll the window over, or add one unit.                                   *)
AddUnit ==
  /\ known' = TRUE
  /\ used' = IF ~known \/ age = WindowLen THEN 1 ELSE used + 1
  /\ age' = IF ~known \/ age = WindowLen THEN 0 ELSE age
  /\ UNCHANGED <<cap, open>>

RecordUsage == AddUnit /\ streak' = 0

ReserveBudget == AddUnit /\ streak' = IF known THEN streak ELSE 0

RecordBudgetSuccess ==
  /\ streak' = IF known THEN 0 ELSE streak
  /\ UNCHANGED <<known, used, cap, open, age>>

(* Mutant: without the floor of MAX(1, ...).                                *)
LoweredNoFloor == (cap * 9) \div 10

(* Mutant: a cap at its floor is tuned up again.                            *)
LoweredOrRestored ==
  IF (cap * 9) \div 10 > 1 THEN (cap * 9) \div 10 ELSE DefaultCap

Lowered == IF (cap * 9) \div 10 > 1 THEN (cap * 9) \div 10 ELSE 1

Trips == known /\ streak + 1 >= Threshold

(* The third 429 in a row lowers the cap and opens the circuit; the row it  *)
(* inserts on a first 429 has an empty window starting now.                 *)
RecordRateLimit ==
  /\ known' = TRUE
  /\ cap' = IF Trips THEN Lowered ELSE cap
  /\ open' = IF Trips THEN CircuitLen ELSE open
  /\ streak' = IF Trips THEN 0 ELSE IF known THEN streak + 1 ELSE 1
  /\ used' = IF known THEN used ELSE 0
  /\ age' = IF known THEN age ELSE 0

(* What checkBudget makes of the row it read, for a caller of priority low  *)
(* or high (checkClaudeRateLimit, checkGeminiRateLimit).                    *)
(* Mutant: the deadline is read with a circuit's length too much taken off. *)
CircuitOpenLate == open > CircuitLen

CircuitOpen == open > 0

(* Mutant: a window that has reached the cap still lets a call through.     *)
AdmitsAtCap(c) ==
  /\ ~CircuitOpen
  /\ (IF age = WindowLen THEN 0 ELSE used)
       <= (IF c \in Low THEN cap - (cap \div 3) ELSE cap)

Admits(c) ==
  /\ ~CircuitOpen
  /\ (IF age = WindowLen THEN 0 ELSE used)
       < (IF c \in Low THEN cap - (cap \div 3) ELSE cap)

------------------------------------------------------------------------------
(* The callers.                                                             *)

Goto(c, step) == pc' = [pc EXCEPT ![c] = step] /\ UNCHANGED style

(* checkBudget: a SELECT, and when it shows an expired circuit an UPDATE    *)
(* after it, whatever the verdict, which rests on the row as it was read.   *)
Check(c) ==
  /\ pc[c] = "idle"
  /\ style \in {"reserve", "graph"}
  /\ \/ Admits(c) /\ Goto(c, IF open = 0 THEN "clear" ELSE "admitted")
     \/ open = 0 /\ ~Admits(c) /\ Goto(c, "refused")
  /\ UNCHANGED <<ledger, tries, rejects>>

(* The UPDATE clears whatever circuit_open_until the row has by now.        *)
ClearCircuit(c) ==
  /\ pc[c] \in {"clear", "refused"}
  /\ open' = NoCircuit
  /\ Goto(c, IF pc[c] = "clear" THEN "admitted" ELSE "idle")
  /\ UNCHANGED <<known, used, cap, streak, age, tries, rejects>>

Reserve(c) ==
  /\ pc[c] = "admitted"
  /\ style = "reserve"
  /\ ReserveBudget
  /\ Goto(c, "calling")
  /\ UNCHANGED <<tries, rejects>>

(* getOpenCircuits, once for a tick or a drain: claimNextBatch leaves an    *)
(* item alone whose upstream was open then, and claims it later otherwise.  *)
Claim(c) ==
  /\ pc[c] = "idle"
  /\ style = "after"
  /\ ~CircuitOpen
  /\ Goto(c, "admitted")
  /\ UNCHANGED <<ledger, tries, rejects>>

(* The call: a Graph caller's fetch, or the handler of a claimed item.      *)
Go(c) ==
  /\ \/ style \in {"graph", "after"} /\ pc[c] = "admitted"
     \/ style = "free" /\ pc[c] = "idle"
  /\ Goto(c, "calling")
  /\ UNCHANGED <<ledger, tries, rejects>>

(* The upstream answers: 2xx, 429, or another error.                        *)
Respond(c) ==
  /\ pc[c] = "calling"
  /\ \/ Goto(c, "succeeded") /\ rejects' = 0
     \/ Goto(c, "limited") /\ rejects' = IF rejects < 4 THEN rejects + 1 ELSE 4
     \/ Goto(c, "broken") /\ UNCHANGED rejects
  /\ UNCHANGED <<ledger, tries>>

(* All but Graph's callers record the outcome once and are done.            *)
Settle(c) ==
  /\ style # "graph"
  /\ \/ /\ pc[c] = "succeeded"
        /\ style = "reserve"
        /\ RecordBudgetSuccess
        /\ UNCHANGED rejects
     \/ /\ pc[c] = "succeeded"
        /\ style # "reserve"
        /\ used < MaxUsed
        /\ RecordUsage
        /\ UNCHANGED rejects
     \/ /\ pc[c] = "limited"
        /\ RecordRateLimit
        /\ rejects' = IF Trips THEN 0 ELSE rejects
     \/ /\ pc[c] = "broken"
        /\ UNCHANGED <<ledger, rejects>>
  /\ Goto(c, "idle")
  /\ UNCHANGED tries

(* graphFetchWithRetry: recordGraphApiCall comes before resp.ok is tested.  *)
(* The last try returns whatever it got; only an earlier 429 goes on to     *)
(* recordRateLimit.                                                         *)
GraphRecord(c) ==
  /\ style = "graph"
  /\ pc[c] \in {"succeeded", "limited", "broken"}
  /\ used < MaxUsed
  /\ RecordUsage
  /\ IF pc[c] = "succeeded" \/ tries[c] + 1 = MaxTries
     THEN Goto(c, "idle") /\ tries' = [tries EXCEPT ![c] = 0]
     ELSE /\ Goto(c, IF pc[c] = "limited" THEN "retry" ELSE "calling")
          /\ tries' = [tries EXCEPT ![c] = tries[c] + 1]
  /\ UNCHANGED rejects

GraphRetry(c) ==
  /\ pc[c] = "retry"
  /\ RecordRateLimit
  /\ rejects' = IF Trips THEN 0 ELSE rejects
  /\ Goto(c, "calling")
  /\ UNCHANGED tries

(* Mutant: a circuit goes on counting after it has expired.                 *)
TickPastZero ==
  /\ open' = open - 1
  /\ age' = IF age < WindowLen THEN age + 1 ELSE age
  /\ UNCHANGED <<style, known, used, cap, streak, pc, tries, rejects>>

Tick ==
  /\ open' = IF open > 0 THEN open - 1 ELSE open
  /\ age' = IF age < WindowLen THEN age + 1 ELSE age
  /\ UNCHANGED <<style, known, used, cap, streak, pc, tries, rejects>>

Step(c) ==
  \/ Check(c) \/ ClearCircuit(c) \/ Reserve(c) \/ Claim(c) \/ Go(c)
  \/ Respond(c) \/ Settle(c) \/ GraphRecord(c) \/ GraphRetry(c)

Next == (\E c \in Callers : Step(c)) \/ Tick

Spec == Init /\ [][Next]_vars

(* Time passes, and a caller that has begun ends its call: fetch has a      *)
(* timeout.  Nobody has to begin one.                                       *)
FairSpec ==
  /\ Spec
  /\ WF_vars(Tick)
  /\ \A c \in Callers : WF_vars(pc[c] # "idle" /\ Step(c))

------------------------------------------------------------------------------

(* "Auto-tune DOWN ONLY": the cap starts at the configured one, is never    *)
(* raised, and never reaches 0, which would refuse every call for ever.     *)
CapRange == cap \in 1..DefaultCap

CapNeverRaised == [][cap' <= cap]_vars

(* checkBudget reserves nothing, so callers may pass it together; but those *)
(* that reserve before they call overshoot the window by at most one unit   *)
(* for each caller but the first.                                           *)
(* (recordUsage and reserveBudget, "the slight check-then-record race is    *)
(* bounded".)                                                               *)
BoundedOvershoot ==
  style = "reserve" => used <= DefaultCap + Cardinality(Callers) - 1

(* Three 429s with no success between them open the circuit: when no call   *)
(* is under way, fewer than three are unaccounted for.                      *)
TripsOnThird == (\A c \in Callers : pc[c] = "idle") => rejects < Threshold

(* The circuit of callers who look at it does not stay open for ever: those *)
(* already let through can trip it again, but no new ones are.  Firefly's   *)
(* may: new calls trip it again for as long as they are answered with 429s. *)
CircuitRecovers == style # "free" /\ open > 0 ~> open <= 0

(* An open circuit stays open for its 30 minutes.                           *)
CircuitHolds == [][open > 0 => open' >= open - 1]_vars
==============================================================================
