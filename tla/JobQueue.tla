------------------------------- MODULE JobQueue -------------------------------
(***************************************************************************)
(* What work_queue promises of each row, whoever drains it and whatever    *)
(* happens to them: a row is taken, and every time it is let go it is      *)
(* finished, released free of charge, charged one attempt, or given up.    *)
(* A finished or dead job never moves again.                               *)
(***************************************************************************)
EXTENDS Integers

CONSTANTS
  Jobs,
  Budget    \* the attempts each job may be charged, a positive number

VARIABLES state, tries

jobVars == <<state, tries>>

Init ==
  /\ state = [j \in Jobs |-> "absent"]
  /\ tries = [j \in Jobs |-> 0]

Submit(j) ==
  /\ state[j] = "absent"
  /\ state' = [state EXCEPT ![j] = "pending"]
  /\ tries' = [tries EXCEPT ![j] = 0]

Take(S) ==
  /\ \A j \in S : state[j] = "pending"
  /\ state' = [j \in Jobs |-> IF j \in S THEN "in_progress" ELSE state[j]]
  /\ UNCHANGED tries

Finish(j) ==
  /\ state[j] = "in_progress"
  /\ state' = [state EXCEPT ![j] = "completed"]
  /\ UNCHANGED tries

Release(j) ==
  /\ state[j] = "in_progress"
  /\ state' = [state EXCEPT ![j] = "pending"]
  /\ UNCHANGED tries

Charge(j) ==
  /\ state[j] = "in_progress"
  /\ tries[j] + 1 <= Budget[j]
  /\ tries' = [tries EXCEPT ![j] = tries[j] + 1]
  /\ state' = [state EXCEPT ![j] =
       IF tries[j] + 1 = Budget[j] THEN "dead_letter" ELSE "pending"]

GiveUp(j) ==
  /\ state[j] = "in_progress"
  /\ tries[j] + 1 <= Budget[j]
  /\ tries' = [tries EXCEPT ![j] = tries[j] + 1]
  /\ state' = [state EXCEPT ![j] = "dead_letter"]

Next ==
  \/ \E j \in Jobs :
       Submit(j) \/ Finish(j) \/ Release(j) \/ Charge(j) \/ GiveUp(j)
  \/ \E S \in SUBSET Jobs : Take(S)

Spec == Init /\ [][Next]_jobVars
=============================================================================
