---------------------------- MODULE MCRagDispatch ----------------------------
(* Values for the constants of RagDispatch.                                 *)
EXTENDS RagDispatch

CONSTANTS i1, i2, i3, d1, d2, c1, c2, s1

OneDomain == [i \in Items |-> 1]
EqualPriority == [i \in Items |-> 0]
OneAttempt == [i \in Items |-> 1]
TwoAttempts == [i \in Items |-> 2]
NoUpstreams == [i \in Items |-> "none"]
==============================================================================
