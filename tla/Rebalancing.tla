------------------------------ MODULE Rebalancing ------------------------------
(***************************************************************************)
(* The rebalancer, which deletes pods, together with the controllers that  *)
(* replace them and the custom scheduler that places the new ones.  No     *)
(* change-node request and no override comes in between.                   *)
(***************************************************************************)
EXTENDS PlacementLoop, Rebalancer

vars == <<cluster, changeVars, placement, clock, rebalancing>>

Asked(n, r) == Cardinality(On(n)) * Larger(MainReq[r], InitReq[r])

(* The pods on a node fit on it, each with what Kubernetes says it asks    *)
(* for: the scheduler sees all pods that are there when it binds one.      *)
NotOversubscribed ==
  \A n \in Nodes, r \in Resources : Asked(n, r) <= Alloc[n][r]

Init ==
  /\ ClusterInit /\ ChangeInit /\ PlacementInit /\ RebalancerInit
  /\ NotOversubscribed
  /\ \A p \in 1..Wanted : place[p] \in Eligible

Next ==
  \/ PlacementStep /\ UNCHANGED <<clock, rebalancing>>
  \/ SchedulerCrash /\ UNCHANGED <<clock, rebalancing>>
  \/ /\ RebalancerStep \/ RebalancerCrash
     /\ UNCHANGED <<changeVars, placement>>
  \/ /\ ControllersWork \/ UpdateBudget \/ Tick
     /\ UNCHANGED <<changeVars, placement>>

Spec == Init /\ [][Next]_vars

(* The scheduler loop, the rebalancer and the controllers run when they    *)
(* can, and an API call that is tried again and again works in the end.    *)
(* Time need not pass.                                                     *)
Scheduling(A) == A /\ UNCHANGED <<clock, rebalancing>>

FairSpec ==
  /\ Spec
  /\ WF_vars(Scheduling(PlacementStep))
  /\ SF_vars(Scheduling(SchedulePod /\ spc' = "ask"))
  /\ SF_vars(Scheduling(ScoreAndSelectNode /\ spc' = "bind"))
  /\ SF_vars(Scheduling(BindPod /\ place' # place))
  /\ WF_vars(RebalancerStep /\ UNCHANGED <<changeVars, placement>>)
  /\ WF_vars((ControllersWork \/ UpdateBudget) /\ UNCHANGED <<changeVars, placement>>)

--------------------------------------------------------------------------------
(* Types of the rebalancer's state, and what a cycle has at hand.          *)
Times == 0..MaxTime

TypeOK ==
  /\ now \in Times /\ born \in [PodIds -> Times]
  /\ healthy \in 0..MaxPods
  /\ lastRun \in Times \cup {None}
  /\ movedAt \in [PodIds -> Times \cup {None}]
  /\ cycleOf \in [PodIds -> Times \cup {None}]
  /\ rpc \in RPcs
  /\ start \in 0..now /\ deadline \in Nat
  /\ records \in Records \cup {NoRecords} /\ hotspot \in BOOLEAN
  /\ sources \subseteq DOMAIN records
  /\ pods \subseteq PodIds
  /\ deleted \in Nat
  /\ IF rpc \in {"pod", "budget", "thrash", "delete", "mark"} THEN source \in DOMAIN records
                                                             ELSE source = None
  /\ rpc \in {"budget", "thrash", "delete", "mark"} <=> candidate # 0
  /\ candidate \in PodIds \cup {0}

(* As long as the status of the budget is up to date, deleting pods one    *)
(* after the other never leaves fewer ready than the budget demands.       *)
BudgetKept ==
  "lag" \notin Faults /\ MinAvailable # None => Cardinality(ready) >= MinAvailable

(* The budget is never violated.                                           *)
BudgetNeverViolated == MinAvailable # None => Cardinality(ready) >= MinAvailable

(* In no cooldown's time do cycles start that delete more than MaxMoves    *)
(* pods together, as long as Redis answers, deletions are confirmed and    *)
(* the process lives to note the run.                                      *)
RateLimited ==
  Faults \cap {"redis", "lost", "crash"} = {} =>
    \A t \in Times :
      Cardinality({p \in PodIds : cycleOf[p] \in t..(t + Cooldown - 1)}) <= MaxMoves

(* The window against thrashing remembers a move under the UID of the pod  *)
(* that was deleted.  That pod is gone, no cycle has it on its list or in  *)
(* hand, and its successor has a UID of its own: the window holds no move  *)
(* back, however often the same replica is moved.                          *)
RememberedAreGone ==
  \A p \in PodIds : movedAt[p] # None => place[p] = Gone /\ p \notin pods /\ p # candidate

(* Pods that are deleted come back: the service is complete again and      *)
(* again, and in the end for good.                                         *)
ServiceRecovers == <>[](Cardinality(ready) = Wanted /\ Live = ready)
================================================================================
