------------------------------- MODULE MCScoring -------------------------------
(* ScoringCycle on a small instance: two nodes, two services, and two pods *)
(* of the one that ask for the same in different ways.                     *)
EXTENDS ScoringCycle

CONSTANTS n1, n2, s1, s2, p1, p2, p3

Of(c, m) == [r \in Resources |-> IF r = "cpu" THEN c ELSE m]

ByName == [x \in Nodes \cup Services |-> IF x \in {n1, s1} THEN 1 ELSE 2]

MyService == [p \in Pods |-> IF p = p2 THEN s2 ELSE s1]
MyContainers == [p \in Pods |-> IF p = p3 THEN <<Of(2, 1), Of(1, 1)>> ELSE <<Of(2, 2)>>]
MyInits == [p \in Pods |-> IF p = p1 THEN <<Of(1, 1), Of(3, 1)>> ELSE <<>>]
SmallAsk == Of(1, 1)

Worker(t) == [ready |-> TRUE, schedulable |-> TRUE, tainted |-> t, alloc |-> Of(8, 8)]
TwoStatuses == {Worker(FALSE), Worker(TRUE)}
AllWell == [n \in Nodes |-> Worker(FALSE)]

OneEach == [p \in Pods |-> IF p = p2 THEN n2 ELSE n1]

Of12(x, y) == [q \in {s1, s2} |-> IF q = s1 THEN x ELSE y]
NoPrefs == {[s \in Services |-> None]}
OnePref == NoPrefs \cup {[s \in Services |-> IF s = s1 THEN n1 ELSE None]}

SomeMetrics ==
  {NoMetrics,
   [NoMetrics EXCEPT !.out = Of12(5, 1), !.in = [q \in {s2} |-> 2],
      !.rank = Of12(1, 2), !.between = Of12(3, 3),
      !.catalog = Of12(1000, 1000), !.own = [q \in {s2} |-> 500]]}
================================================================================
