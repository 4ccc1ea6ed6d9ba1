------------------------------ MODULE Eligibility ------------------------------
(***************************************************************************)
(* Which nodes the custom scheduler considers for a pod.  A node is a      *)
(* record of whether it is unschedulable, whether its Ready condition is   *)
(* true, whether a label or its name marks it as a control-plane node, and *)
(* its taints.  Keys and values are whatever they are; "" is an empty one. *)
(***************************************************************************)
EXTENDS FiniteSets

CONSTANTS Keys, Values

ControlPlaneKeys == {"node-role.kubernetes.io/control-plane", "node-role.kubernetes.io/master"}

Effects == {"NoSchedule", "NoExecute", "PreferNoSchedule"}

Taint == [key : Keys, value : Values, effect : Effects]

Toleration == [key : Keys \cup {""}, op : {"", "Equal", "Exists"}, value : Values,
               effect : Effects \cup {""}]

NodeObject == [unschedulable : BOOLEAN, ready : BOOLEAN, controlPlane : BOOLEAN,
               taints : SUBSET Taint]

(* The API server takes no toleration of an empty key unless it is for all *)
(* keys, and no value with Exists; the latter makes no difference here.    *)
Valid(tols) == \A t \in tols : t.key = "" => t.op = "Exists"

Hard(taint) == taint.effect \in {"NoSchedule", "NoExecute"}

(* Exists does not look at the effect.                                     *)
HasToleration(tols, taint) ==
  \E t \in tols :
    \/ t.op = "Exists" /\ t.key \in {"", taint.key}
    \/ /\ t.op \in {"Equal", ""}
       /\ t.key = taint.key /\ t.value = taint.value
       /\ t.effect \in {"", taint.effect}

PodToleratesControlPlaneTaints(tols, node) ==
  \A taint \in node.taints : taint.key \in ControlPlaneKeys => HasToleration(tols, taint)

PodToleratesAllTaints(tols, node) ==
  \A taint \in node.taints : Hard(taint) => HasToleration(tols, taint)

(* buildEligibleNodeMap, of one node.                                      *)
EligibleNode(tols, node) ==
  /\ ~node.unschedulable
  /\ node.ready
  /\ node.controlPlane => PodToleratesControlPlaneTaints(tols, node)
  /\ PodToleratesAllTaints(tols, node)

--------------------------------------------------------------------------------
(* What Kubernetes makes of a toleration.                                  *)
KubernetesTolerates(tols, taint) ==
  \E t \in tols :
    /\ t.effect \in {"", taint.effect}
    /\ t.key \in {"", taint.key}
    /\ t.op = "Exists" \/ t.value = taint.value

KubernetesSchedulable(tols, node) ==
  /\ ~node.unschedulable /\ node.ready
  /\ \A taint \in node.taints : Hard(taint) => KubernetesTolerates(tols, taint)
================================================================================
