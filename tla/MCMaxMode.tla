------------------------------ MODULE MCMaxMode ------------------------------
(* Values for the constants of MaxMode.                                     *)
EXTENDS MaxMode

CONSTANTS t1, t2, w1, w2

OneDomain == [i \in Items |-> 1]
EqualPriority == [i \in Items |-> 50]
TwoAttempts == [i \in Items |-> 2]
NoUpstreams == [i \in Items |-> "none"]
==============================================================================
