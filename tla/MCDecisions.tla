------------------------------ MODULE MCDecisions ------------------------------
(* Decisions on a small instance: two nodes, ranked one way.               *)
EXTENDS Decisions

CONSTANTS n1, n2, q1, q2, q3

N1First == {[n \in Nodes |-> IF n = n1 THEN 1 ELSE 2]}
SomeCandidates == {{n2}, {n1, n2}}
================================================================================
