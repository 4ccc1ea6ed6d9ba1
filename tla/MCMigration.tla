------------------------------ MODULE MCMigration ------------------------------
(* Migration on small instances: workers n1 and n2, control-plane node n3. *)
EXTENDS MigrationRefinement, TLC

CONSTANTS n1, n2, n3, c1, c2

MCSymmetry == Permutations({c1, c2}) \cup Permutations({n1, n2})

ControlPlaneTaint ==
  [key |-> "node-role.kubernetes.io/control-plane", value |-> "", effect |-> "NoSchedule"]

NodesAsUsual ==
  [n \in Nodes |-> [unschedulable |-> FALSE, ready |-> TRUE, controlPlane |-> n = n3,
                    taints |-> IF n = n3 THEN {ControlPlaneTaint} ELSE {}]]

(* Pods that ask for nothing may go anywhere.                              *)
Nothing == [r \in Resources |-> 0]
Plenty == [n \in Nodes |-> [r \in Resources |-> 4]]
================================================================================
