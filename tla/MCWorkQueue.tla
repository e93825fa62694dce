----------------------------- MODULE MCWorkQueue -----------------------------
(* Values for the constants of WorkQueue.                                   *)
EXTENDS WorkQueue

CONSTANTS i1, i2, i3, d1, d2, u1, NoUpstream

TwoItems == {i1, i2}
OneItem == {i1}
ThreeItems == {i1, i2, i3}

(* All items in one domain, or the first in an earlier one than the rest,   *)
(* or the last in a later one.                                              *)
SameDomain == [i \in Items |-> 1]
LastLater == [i \in Items |-> IF i = i3 THEN 2 ELSE 1]
FirstEarlier == [i \in Items |-> IF i = i1 THEN 1 ELSE 2]

EqualPriority == [i \in Items |-> 0]
FirstHigher == [i \in Items |-> IF i = i1 THEN 1 ELSE 0]

(* Every item may be run twice, or only the second one.                     *)
TwoAttempts == [i \in Items |-> 2]
OneRetried == [i \in Items |-> IF i = i2 THEN 2 ELSE 1]
NoUpstreams == [i \in Items |-> NoUpstream]
FirstUsesU1 == [i \in Items |-> IF i = i1 THEN u1 ELSE NoUpstream]

OneEach == [k \in 1..NumDomains |-> 1]
TwoEach == [k \in 1..NumDomains |-> 2]
(* Every domain puts its rows off by a minute, or the last one by none.     *)
ByOne == [k \in 1..NumDomains |-> {1}]
AtOnce == [k \in 1..NumDomains |-> {0}]
LastAtOnce == [k \in 1..NumDomains |-> IF k = NumDomains THEN {0} ELSE {1}]

NoCap == [k \in {} |-> 1]
CapOne == [k \in Capped |-> 1]
==============================================================================
