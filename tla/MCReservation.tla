----------------------------- MODULE MCReservation -----------------------------
(***************************************************************************)
(* Reservation on small instances: two nodes, one resource, and the pods   *)
(* and requests each configuration asks for.                               *)
(***************************************************************************)
EXTENDS ReservationRefinement, TLC

CONSTANTS n1, n2, p1, p2, p3, r1, r2, r3

Arm == [ready |-> TRUE, arch |-> "arm64", labels |-> {"ssd"}, taints |-> {}]
Amd == [ready |-> TRUE, arch |-> "amd64", labels |-> {"ssd"}, taints |-> {}]
Down == [ready |-> FALSE, arch |-> "arm64", labels |-> {"ssd"}, taints |-> {}]

ViewsArm == {Arm}
ViewsArmAmd == {Arm, Amd}
ViewsArmDown == {Arm, Down}
ArmEverywhere == [n \in Nodes |-> Arm]
ArmAndAmd == [n \in Nodes |-> IF n = n1 THEN Arm ELSE Amd]

Share(k) == [x \in Resources |-> k]
Wants(k) ==
  [req |-> Share(k), arch |-> "arm64", selector |-> {"ssd"}, tolerations |-> {}]

(* Room for one pod of two units and one of one, or for two small ones.    *)
SmallAlloc == [n \in Nodes |-> Share(3)]
TwoPodsEach == [n \in Nodes |-> 2]

OwnPod == [r \in Requests |-> CASE r = r1 -> p1 [] r = r2 -> p2 [] OTHER -> p3]
Mixed == [p \in Pods |-> IF p = p1 THEN Wants(2) ELSE Wants(1)]
Big == [p \in Pods |-> Wants(2)]
AllNodes == {Nodes}
SomeNodes == {{}, {n1}, Nodes}
================================================================================
