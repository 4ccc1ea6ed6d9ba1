-------------------------- MODULE EligibilityTheorems --------------------------
(***************************************************************************)
(* The custom scheduler's reading of taints and tolerations against that   *)
(* of Kubernetes.                                                          *)
(***************************************************************************)
EXTENDS Eligibility, TLAPS

(* A taint that Kubernetes lets a pod tolerate hasToleration lets it       *)
(* tolerate as well.                                                       *)
LEMMA HonoursTolerations ==
  ASSUME NEW tols \in SUBSET Toleration, Valid(tols), NEW taint \in Taint,
         KubernetesTolerates(tols, taint)
  PROVE  HasToleration(tols, taint)
<1>1. PICK t \in tols : /\ t.effect \in {"", taint.effect}
                        /\ t.key \in {"", taint.key}
                        /\ t.op = "Exists" \/ t.value = taint.value
  BY DEF KubernetesTolerates
<1>2. t.op \in {"", "Equal", "Exists"} /\ (t.key = "" => t.op = "Exists")
  BY DEF Toleration, Valid
<1> QED
  BY <1>1, <1>2 DEF HasToleration

(* It tolerates more only because Exists ignores the effect.               *)
LEMMA ToleratesOnlyByExists ==
  ASSUME NEW tols \in SUBSET Toleration, NEW taint \in Taint,
         \A t \in tols : t.op = "Exists" => t.effect = "",
         HasToleration(tols, taint)
  PROVE  KubernetesTolerates(tols, taint)
  BY DEF HasToleration, KubernetesTolerates

(* buildEligibleNodeMap never leaves out a worker node that Kubernetes     *)
(* would schedule the pod on, and keeps no other node if each toleration   *)
(* with Exists is for all effects.                                         *)
THEOREM EligibleIsSchedulable ==
  ASSUME NEW tols \in SUBSET Toleration, Valid(tols), NEW node \in NodeObject
  PROVE  /\ ~node.controlPlane /\ KubernetesSchedulable(tols, node)
              => EligibleNode(tols, node)
         /\ (\A t \in tols : t.op = "Exists" => t.effect = "") /\ EligibleNode(tols, node)
              => KubernetesSchedulable(tols, node)
<1>0. node.taints \subseteq Taint
  BY DEF NodeObject
<1>1. ASSUME ~node.controlPlane, KubernetesSchedulable(tols, node)
      PROVE  EligibleNode(tols, node)
  BY <1>0, <1>1, HonoursTolerations
     DEF KubernetesSchedulable, EligibleNode, PodToleratesAllTaints
<1>2. ASSUME \A t \in tols : t.op = "Exists" => t.effect = "", EligibleNode(tols, node)
      PROVE  KubernetesSchedulable(tols, node)
  BY <1>0, <1>2, ToleratesOnlyByExists
     DEF KubernetesSchedulable, EligibleNode, PodToleratesAllTaints
<1> QED
  BY <1>1, <1>2
================================================================================
