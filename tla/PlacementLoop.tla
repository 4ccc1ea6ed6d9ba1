----------------------------- MODULE PlacementLoop -----------------------------
(***************************************************************************)
(* The custom scheduler: one goroutine that lists the unbound pods, asks   *)
(* the extender for the optimal node of each, and binds the pod there or,  *)
(* when there is no answer it can use, to the node it scores highest.  The *)
(* extender's side, GetOptimalNode, is the step that consumes an override. *)
(***************************************************************************)
EXTENDS ChangeNode

CONSTANTS
  Tolerations,        \* of the pods of the service
  MainReq, InitReq,   \* what one asks for: its containers, its init container
  Decided             \* nodes a preference or a decision may name

ASSUME PlacementAssumption ==
  /\ Tolerations \subseteq Toleration
  /\ MainReq \in [Resources -> Nat] /\ InitReq \in [Resources -> Nat]
  /\ Decided \subseteq Nodes

VARIABLES
  spc, queue, pod, choice

placement == <<spc, queue, pod, choice>>

PlacementInit ==
  /\ spc = "list"
  /\ queue = {}
  /\ pod = 0
  /\ choice = None

ListPods ==
  /\ spc = "list"
  /\ NotBound # {}
  /\ queue' = NotBound
  /\ spc' = "next"
  /\ UNCHANGED <<cluster, changeVars, pod, choice>>

(* schedulePod reads the pod again: one that is bound or gone, or that     *)
(* cannot be read, is skipped.                                             *)
SchedulePod ==
  /\ spc = "next"
  /\ \E p \in queue :
       /\ queue' = queue \ {p}
       /\ \/ place[p] = Pending /\ pod' = p /\ spc' = "ask"
          \/ (place[p] # Pending \/ "api" \in Faults) /\ UNCHANGED <<pod, spc>>
  /\ UNCHANGED <<cluster, changeVars, choice>>

(* The loop stops after a pass.                                            *)
FaultyPassDone ==
  /\ spc = "next" /\ queue = {}
  /\ UNCHANGED <<cluster, changeVars, placement>>

(* ... and after two seconds the next pass begins.                         *)
PassDone ==
  /\ spc = "next" /\ queue = {}
  /\ spc' = "list"
  /\ UNCHANGED <<cluster, changeVars, queue, pod, choice>>

(* GET and DEL in one script.                                              *)
ConsumeNodeOverride(n) == override = n /\ override' = None

(* What the extender answers: the override, or else the preference or the  *)
(* decision, if any.  When its own Redis call fails it looks no further    *)
(* for an override, even if the script has consumed one.                   *)
GetOptimalNode(answer) ==
  \/ answer \in Nodes /\ ConsumeNodeOverride(answer)
  \/ /\ answer \in Decided \cup {None}
     /\ \/ override = None /\ UNCHANGED override
        \/ "redis" \in Faults /\ UNCHANGED override
        \/ "lost" \in Faults /\ override' = None

Eligible == {n \in Nodes : EligibleNode(Tolerations, Specs[n])}

(* The answer is taken whether it is eligible or not.                      *)
FaultyAskOptimalNode ==
  /\ spc = "ask"
  /\ \E answer \in Nodes \cup {None} :
       /\ GetOptimalNode(answer)
       /\ IF answer = None THEN UNCHANGED choice /\ spc' = "score"
                            ELSE choice' = answer /\ spc' = "bind"
  /\ UNCHANGED <<cluster, changeLock, cpc, clocals, queue, pod>>

(* One GET /optimal.  Without an answer, or with a node that is not        *)
(* eligible, the scheduler scores the nodes itself.                        *)
AskOptimalNode ==
  /\ spc = "ask"
  /\ \E answer \in Nodes \cup {None} :
       /\ \/ GetOptimalNode(answer)
          \/ /\ answer = None
             /\ \/ "api" \in Faults /\ UNCHANGED override
                \/ "lost" \in Faults /\ override' = None
       /\ IF answer \in Eligible THEN choice' = answer /\ spc' = "bind"
                                 ELSE UNCHANGED choice /\ spc' = "score"
  /\ UNCHANGED <<cluster, changeLock, cpc, clocals, queue, pod>>

Larger(a, b) == IF a >= b THEN a ELSE b

(* What the scheduler adds up for k pods of the service on a node.  The    *)
(* init container is held against the sum so far, not against its pod.     *)
Accounted(r) ==
  LET sum[k \in Nat] == IF k = 0 THEN 0 ELSE Larger(sum[k - 1] + MainReq[r], InitReq[r])
  IN  sum

(* Pods that do not run yet are not counted.                               *)
FaultyUsed(n, r) == Accounted(r)[Cardinality(On(n) \cap ready)] + MainReq[r]

Used(n, r) == Accounted(r)[Cardinality(On(n))] + MainReq[r]

Fitting == {n \in Eligible : \A r \in Resources : Used(n, r) <= Alloc[n][r]}

(* LeastRequested + BalancedResourceAllocation, as a fraction.             *)
Score(n) ==
  LET a == Alloc[n]["cpu"]  u == Used(n, "cpu")
      b == Alloc[n]["mem"]  v == Used(n, "mem")
      apart == Larger(u * b, v * a) - (IF u * b >= v * a THEN v * a ELSE u * b)
  IN  [num |-> (a - u) * b + (b - v) * a + 2 * (a * b - apart), den |-> 2 * a * b]

Highest ==
  {n \in Fitting : \A m \in Fitting :
     Score(m).num * Score(n).den <= Score(n).num * Score(m).den}

(* The pods of all nodes are listed and one of the best nodes is taken; a  *)
(* pod that fits on none is left for the next pass.                        *)
ScoreAndSelectNode ==
  /\ spc = "score"
  /\ \/ choice' \in Highest /\ spc' = "bind" /\ UNCHANGED pod
     \/ (Fitting = {} \/ "api" \in Faults) /\ spc' = "next" /\ pod' = 0 /\ UNCHANGED choice
  /\ UNCHANGED <<cluster, changeVars, queue>>

BindPod ==
  /\ spc = "bind"
  /\ \/ Bind(pod, choice)
     \/ ("api" \in Faults \/ place[pod] # Pending) /\ UNCHANGED cluster
  /\ spc' = "next" /\ pod' = 0 /\ choice' = None
  /\ UNCHANGED <<changeVars, queue>>

PlacementStep ==
  \/ ListPods \/ SchedulePod \/ PassDone \/ AskOptimalNode \/ ScoreAndSelectNode \/ BindPod

SchedulerCrash ==
  /\ "crash" \in Faults
  /\ spc # "list"
  /\ spc' = "list" /\ queue' = {} /\ pod' = 0 /\ choice' = None
  /\ UNCHANGED <<cluster, changeVars>>
================================================================================
