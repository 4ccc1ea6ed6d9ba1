----------------------------- MODULE MCRebalancing -----------------------------
(* Rebalancing on small instances: worker n1, worker n2 with a taint that  *)
(* the pods tolerate or need not, and control-plane node n3.    *)
EXTENDS Rebalancing

CONSTANTS n1, n2, n3

TaintOf(k, e) == [key |-> k, value |-> "", effect |-> e]
ControlPlane == "node-role.kubernetes.io/control-plane"

Spotted(effect) ==
  [n \in Nodes |->
     [unschedulable |-> FALSE, ready |-> TRUE, controlPlane |-> n = n3,
      taints |-> CASE n = n1 -> {}
                   [] n = n2 -> {TaintOf("spot", effect)}
                   [] n = n3 -> {TaintOf(ControlPlane, "NoSchedule")}]]

OneTainted == Spotted("NoSchedule")
OneAvoided == Spotted("PreferNoSchedule")

ToleratesSpot == {[key |-> "spot", op |-> "Exists", value |-> "", effect |-> ""]}

One == [r \in Resources |-> 1]
Two == [r \in Resources |-> 2]
LessRoom == [n \in Nodes |-> IF n = n2 THEN One ELSE Two]

At(load) == [ready |-> TRUE, cpu |-> load, mem |-> load]

(* Both workers full and the control plane free; n1 full; nothing to do.   *)
SomeRecords ==
  {[n \in {n1, n2, n3} |-> IF n = n3 THEN At(10) ELSE At(100)],
   [n \in {n1, n3} |-> IF n = n1 THEN At(100) ELSE At(50)],
   [n \in {n1} |-> At(50)]}
================================================================================
