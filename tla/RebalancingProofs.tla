--------------------------- MODULE RebalancingProofs ---------------------------
(***************************************************************************)
(* Theorems about Rebalancing for all values of the constants: the types,  *)
(* that the rebalancer keeps the disruption budget and its rate, that what *)
(* its window remembers is gone, and that the scheduler fills no node      *)
(* beyond what it has.                                                     *)
(***************************************************************************)
EXTENDS Rebalancing, WeightTheorems

--------------------------------------------------------------------------------
(* What the scheduler makes of k pods of the service: all they ask for,    *)
(* and what one init container asks for on top.                            *)
LEMMA AccountedIs ==
  ASSUME NEW r \in Resources, NEW k \in Nat
  PROVE  Accounted(r)[k] =
           IF k = 0 THEN 0 ELSE Larger(MainReq[r], InitReq[r]) + (k - 1) * MainReq[r]
<1> DEFINE M == MainReq[r]
           I == InitReq[r]
           Eq(s) == s = [i \in Nat |-> IF i = 0 THEN 0 ELSE Larger(s[i - 1] + M, I)]
           w == [i \in Nat |-> IF i = 0 THEN 0 ELSE Larger(M, I) + (i - 1) * M]
           a == Accounted(r)
<1>0. M \in Nat /\ I \in Nat
  BY PlacementAssumption
<1>1. Eq(w)
  <2>1. ASSUME NEW i \in Nat, i # 0
        PROVE  w[i] = Larger(w[i - 1] + M, I)
    <3>1. CASE i = 1
      BY <1>0, <3>1 DEF Larger
    <3>2. CASE i # 1
      <4> DEFINE j == i - 2
      <4>0. j \in Nat /\ i = j + 2
        BY <2>1, <3>2
      <4> HIDE DEF j
      <4>1. w[i - 1] = Larger(M, I) + j * M /\ j * M \in Nat
        BY <1>0, <4>0
      <4>2. w[i] = Larger(M, I) + (j + 1) * M /\ (j + 1) * M = j * M + M
        BY <1>0, <4>0
      <4> QED
        BY <1>0, <4>1, <4>2 DEF Larger
    <3> QED
      BY <3>1, <3>2
  <2> QED
    BY <2>1
<1>2. Eq(a)
  <2>1. a = CHOOSE s : Eq(s)
    BY DEF Accounted
  <2> QED
    BY <1>1, <2>1
<1>3. a = w
  <2> DEFINE Bad == {i \in Nat : a[i] # w[i]}
  <2>1. ASSUME Bad # {} PROVE FALSE
    <3>1. PICK i \in Bad : \A j \in Bad : i <= j
      BY <2>1, NatMin
    <3>2. i # 0
      BY <1>1, <1>2, <3>1
    <3>3. i - 1 \in Nat /\ i - 1 \notin Bad
      BY <3>1, <3>2
    <3>4. a[i - 1] = w[i - 1]
      BY <3>3
    <3> HIDE DEF w, a
    <3> QED
      BY <1>1, <1>2, <3>1, <3>2, <3>4
  <2> HIDE DEF a
  <2> QED
    BY <1>2, <2>1
<1> QED
  BY <1>3

--------------------------------------------------------------------------------
(* What nobody but the rebalancer changes by itself: the Deployment keeps  *)
(* its replicas, and never has more pods.                                  *)
ClusterOK ==
  /\ replicas = Wanted
  /\ place \in [PodIds -> Nodes \cup {Unborn, Pending, Gone}]
  /\ ready \subseteq {p \in PodIds : place[p] \in Nodes}
  /\ Cardinality(Live) <= Wanted

PlacementOK ==
  /\ spc \in {"list", "next", "ask", "score", "bind"}
  /\ queue \subseteq PodIds
  /\ spc \in {"ask", "score", "bind"} => pod \in PodIds
  /\ spc = "bind" => choice \in Nodes

LEMMA PodsFinite ==
  /\ IsFiniteSet(PodIds) /\ Cardinality(PodIds) = MaxPods
  /\ \A S \in SUBSET PodIds : IsFiniteSet(S) /\ Cardinality(S) \in 0..MaxPods
<1>1. MaxPods \in Nat
  BY ClusterAssumption
<1>2. IsFiniteSet(PodIds) /\ Cardinality(PodIds) = MaxPods
  BY <1>1, FS_Interval DEF PodIds
<1>3. ASSUME NEW S \in SUBSET PodIds
      PROVE  IsFiniteSet(S) /\ Cardinality(S) \in 0..MaxPods
  BY <1>1, <1>2, FS_Subset, FS_CardinalityType
<1> QED
  BY <1>2, <1>3

LEMMA ClusterInitOK == Init => ClusterOK /\ PlacementOK
<1> SUFFICES ASSUME Init PROVE ClusterOK /\ PlacementOK
  OBVIOUS
<1> USE DEF Init, ClusterInit, PlacementInit
<1>1. place \in [PodIds -> Nodes \cup {Unborn, Pending, Gone}]
  OBVIOUS
<1>2. ready \subseteq {p \in PodIds : place[p] \in Nodes}
  BY ClusterAssumption DEF PodIds
<1>3. Live \subseteq 1..Wanted
  BY ClusterAssumption DEF Live, PodIds
<1>4. Cardinality(Live) <= Wanted
  <2>1. Wanted \in Nat
    BY ClusterAssumption
  <2>2. IsFiniteSet(1..Wanted) /\ Cardinality(1..Wanted) = Wanted
    BY <2>1, FS_Interval
  <2> QED
    BY <1>3, <2>1, <2>2, FS_Subset
<1> QED
  BY <1>1, <1>2, <1>4 DEF ClusterOK, PlacementOK

(* What can happen to the pods: none of it but the rebalancer's deletions  *)
(* takes one away.                                                         *)
Created(p) == place[p] = Unborn /\ place' = [place EXCEPT ![p] = Pending] /\ ready' = ready
Bound == place[pod] = Pending /\ place' = [place EXCEPT ![pod] = choice] /\ ready' = ready
Started(p) == place[p] \in Nodes /\ place' = place /\ ready' = ready \cup {p}
Deleted(p) == p \in Live /\ place' = [place EXCEPT ![p] = Gone] /\ ready' = ready \ {p}

LEMMA PodSteps ==
  ASSUME ClusterOK, PlacementOK, [Next]_vars
  PROVE  /\ replicas' = replicas
         /\ \/ UNCHANGED <<place, ready>>
            \/ \E p \in PodIds : Created(p) /\ Cardinality(Live) < Wanted
            \/ Bound /\ spc = "bind"
            \/ \E p \in PodIds : Started(p)
            \/ Deleted(candidate) /\ DeletePod
<1>1. CASE PlacementStep \/ SchedulerCrash
  <2>1. CASE UNCHANGED cluster
    BY <2>1 DEF cluster
  <2>2. CASE BindPod /\ Bind(pod, choice)
    BY <2>2 DEF BindPod, Bind, Bound
  <2> QED
    BY <1>1, <2>1, <2>2 DEF PlacementStep, SchedulerCrash, ListPods, SchedulePod, PassDone,
                            AskOptimalNode, ScoreAndSelectNode, BindPod
<1>2. CASE RebalancerStep \/ RebalancerCrash
  <2>1. CASE UNCHANGED cluster
    BY <2>1 DEF cluster
  <2>2. CASE DeletePod /\ RemovePod(candidate)
    BY <2>2 DEF DeletePod, RemovePod, Deleted
  <2> QED
    BY <1>2, <2>1, <2>2
       DEF RebalancerStep, RebalancerCrash, StartCycle, EvaluateTriggers, NextSource, NextPod,
           CheckBudget, CheckMove, DeletePod, MarkMoved, Finish
<1>3. CASE ControllersWork
  <2>1. CASE CreateReplica
    BY <2>1 DEF CreateReplica, ClusterOK, Created
  <2>2. ~DeleteReplica
    <3>1. Wanted \in Nat /\ Cardinality(Live) \in Nat
      BY PodsFinite, ClusterAssumption DEF Live
    <3> QED
      BY <3>1 DEF DeleteReplica, ClusterOK
  <2>3. CASE \E p \in PodIds : BecomeReady(p)
    BY <2>3 DEF BecomeReady, Started
  <2> QED
    BY <1>3, <2>1, <2>2, <2>3 DEF ControllersWork, Controllers
<1>4. CASE UpdateBudget \/ Tick \/ UNCHANGED vars
  BY <1>4 DEF UpdateBudget, Tick, vars, cluster
<1> QED
  BY <1>1, <1>2, <1>3, <1>4 DEF Next

LEMMA ClusterStep == ClusterOK /\ PlacementOK /\ [Next]_vars => ClusterOK'
<1> SUFFICES ASSUME ClusterOK, PlacementOK, [Next]_vars PROVE ClusterOK'
  OBVIOUS
<1>0. /\ replicas' = Wanted /\ Wanted \in Nat
      /\ place \in [PodIds -> Nodes \cup {Unborn, Pending, Gone}]
      /\ ready \subseteq {p \in PodIds : place[p] \in Nodes}
      /\ Cardinality(Live) <= Wanted /\ Cardinality(Live) \in Nat /\ IsFiniteSet(Live)
  BY PodSteps, PodsFinite, ClusterAssumption DEF ClusterOK, Live
<1> USE ClusterAssumption
<1>1. CASE UNCHANGED <<place, ready>>
  BY <1>0, <1>1 DEF ClusterOK, Live
<1>2. ASSUME NEW p \in PodIds, Created(p), Cardinality(Live) < Wanted PROVE ClusterOK'
  <2>1. Live' = Live \cup {p} /\ p \notin Live
    BY <1>0, <1>2 DEF Created, Live
  <2>2. Cardinality(Live') = Cardinality(Live) + 1
    BY <1>0, <2>1, FS_AddElement
  <2> QED
    BY <1>0, <1>2, <2>2 DEF Created, ClusterOK
<1>3. CASE Bound /\ spc = "bind"
  <2>1. choice \in Nodes /\ pod \in PodIds
    BY <1>3 DEF PlacementOK
  <2>2. Live' = Live
    BY <1>0, <1>3, <2>1 DEF Bound, Live
  <2> QED
    BY <1>0, <1>3, <2>1, <2>2 DEF Bound, ClusterOK
<1>4. ASSUME NEW p \in PodIds, Started(p) PROVE ClusterOK'
  BY <1>0, <1>4 DEF Started, ClusterOK, Live
<1>5. CASE Deleted(candidate)
  <2>1. Live' = Live \ {candidate} /\ candidate \in PodIds
    BY <1>0, <1>5 DEF Deleted, Live
  <2>2. Cardinality(Live') <= Cardinality(Live)
    BY <1>0, <2>1, FS_Subset, FS_CardinalityType
  <2> QED
    BY <1>0, <1>5, <2>1, <2>2, FS_Subset, FS_CardinalityType DEF Deleted, ClusterOK
<1> QED
  BY <1>1, <1>2, <1>3, <1>4, <1>5, PodSteps

LEMMA PlacementKept == ClusterOK /\ PlacementOK /\ [Next]_vars => PlacementOK'
<1> SUFFICES ASSUME PlacementOK, [Next]_vars PROVE PlacementOK'
  OBVIOUS
<1> USE DEF PlacementOK
<1>0. NotBound \subseteq PodIds /\ Eligible \subseteq Nodes /\ Highest \subseteq Eligible
  BY DEF NotBound, Live, Eligible, Highest, Fitting
<1>1. CASE ListPods \/ SchedulePod \/ PassDone
  BY <1>0, <1>1 DEF ListPods, SchedulePod, PassDone
<1>2. CASE AskOptimalNode
  BY <1>0, <1>2 DEF AskOptimalNode
<1>3. CASE ScoreAndSelectNode
  <2>1. CASE choice' \in Highest /\ spc' = "bind" /\ UNCHANGED pod
    BY <1>0, <1>3, <2>1 DEF ScoreAndSelectNode
  <2>2. CASE spc' = "next"
    BY <1>3, <2>2 DEF ScoreAndSelectNode
  <2> QED
    BY <1>3, <2>1, <2>2 DEF ScoreAndSelectNode
<1>4. CASE BindPod \/ SchedulerCrash
  BY <1>4 DEF BindPod, SchedulerCrash
<1>5. CASE UNCHANGED placement
  BY <1>5 DEF placement
<1> QED
  BY <1>1, <1>2, <1>3, <1>4, <1>5 DEF Next, PlacementStep, vars

--------------------------------------------------------------------------------
(* Types of the rebalancer.                                                *)
LEMMA TypeInit == Init => TypeOK
<1> SUFFICES ASSUME Init PROVE TypeOK
  OBVIOUS
<1>1. 0 \in Times /\ Wanted \in 0..MaxPods
  BY ClusterAssumption, RebalancerAssumption DEF Times
<1>2. /\ now = 0 /\ born \in [PodIds -> Times] /\ healthy \in 0..MaxPods
      /\ lastRun = None /\ movedAt \in [PodIds -> Times \cup {None}]
      /\ cycleOf \in [PodIds -> Times \cup {None}]
  BY <1>1 DEF Init, RebalancerInit
<1>3. /\ rpc = "wait" /\ start = 0 /\ deadline = 0 /\ records = NoRecords /\ hotspot = FALSE
      /\ sources = {} /\ source = None /\ pods = {} /\ candidate = 0 /\ deleted = 0
  BY DEF Init, RebalancerInit
<1>4. start \in 0..now
  BY <1>2, <1>3
<1> QED
  BY <1>1, <1>2, <1>3, <1>4 DEF TypeOK, RPcs

LEMMA TypeStep == ClusterOK /\ TypeOK /\ [Next]_vars => TypeOK'
<1> SUFFICES ASSUME ClusterOK, TypeOK, [Next]_vars PROVE TypeOK'
  OBVIOUS
<1>0. /\ 0 \notin PodIds /\ \A n : On(n) \subseteq PodIds
      /\ MaxTime \in Nat /\ now \in Times /\ Times \subseteq Nat
      /\ None \notin Nat
  BY RebalancerAssumption DEF PodIds, On, Live, TypeOK, Times
<1>a. ASSUME EndCycle, UNCHANGED <<now, born, healthy, movedAt, cycleOf>>,
             lastRun' \in {lastRun, start}
      PROVE  TypeOK'
  <2>1. /\ now' \in Times /\ born' \in [PodIds -> Times] /\ healthy' \in 0..MaxPods
        /\ lastRun' \in Times \cup {None} /\ movedAt' \in [PodIds -> Times \cup {None}]
        /\ cycleOf' \in [PodIds -> Times \cup {None}]
        /\ 0 \in 0..now'
    BY <1>0, <1>a DEF TypeOK, Times
  <2>2. /\ rpc' = "wait" /\ start' = 0 /\ deadline' = 0 /\ records' = NoRecords
        /\ hotspot' = FALSE /\ sources' = {} /\ source' = None /\ pods' = {}
        /\ candidate' = 0 /\ deleted' = 0
    BY <1>a DEF EndCycle
  <2> QED
    BY <2>1, <2>2 DEF TypeOK, RPcs
<1>1. CASE UNCHANGED <<clock, rebalancing>>
  BY <1>1 DEF clock, rebalancing, rstore, plan, scan, TypeOK
<1>2. CASE StartCycle
  BY <1>0, <1>2 DEF StartCycle, TypeOK, RPcs, clock, rstore, scan, Times
<1>3. CASE EvaluateTriggers
  <2>1. CASE EndCycle
    BY <1>a, <1>3, <2>1 DEF EvaluateTriggers, clock, rstore
  <2>2. CASE ~EndCycle
    <3>1. PICK r \in Records, hot \in Hotspots :
             /\ rpc' = "source" /\ deadline' = now + MaxDuration
             /\ records' = r /\ hotspot' = hot
             /\ sources' = IF Free(r) = {} THEN {} ELSE Overloaded(r)
             /\ UNCHANGED <<start, source, pods, candidate, deleted>>
      BY <1>3, <2>2 DEF EvaluateTriggers
    <3>2. /\ sources' \subseteq DOMAIN records' /\ hotspot' \in BOOLEAN
          /\ records' \in Records /\ deadline' \in Nat
      BY <1>0, <3>1, RebalancerAssumption DEF Overloaded, Considered, Times
    <3> QED
      BY <1>3, <3>1, <3>2 DEF EvaluateTriggers, clock, rstore, TypeOK, RPcs
  <2> QED
    BY <2>1, <2>2
<1>4. CASE NextSource
  <2>1. UNCHANGED <<clock, rstore, plan, candidate, deleted, cycleOf>>
    BY <1>4 DEF NextSource
  <2>2. CASE rpc' = "finish" /\ UNCHANGED <<sources, source, pods>>
    BY <1>0, <1>4, <2>1, <2>2 DEF NextSource, clock, rstore, plan, TypeOK, RPcs
  <2>3. ASSUME NEW n \in sources, sources' = sources \ {n},
               \/ rpc' = "pod" /\ source' = n /\ pods' = On(n)
               \/ UNCHANGED <<rpc, source, pods>>
        PROVE  TypeOK'
    BY <1>0, <1>4, <2>1, <2>3 DEF NextSource, clock, rstore, plan, TypeOK, RPcs
  <2> QED
    BY <1>4, <2>2, <2>3 DEF NextSource
<1>5. CASE NextPod
  BY <1>0, <1>5 DEF NextPod, clock, rstore, plan, TypeOK, RPcs
<1>6. CASE CheckBudget \/ CheckMove
  BY <1>0, <1>6 DEF CheckBudget, CheckMove, Skip, clock, rstore, plan, TypeOK, RPcs
<1>7. CASE DeletePod
  <2>1. cycleOf' \in [PodIds -> Times \cup {None}]
    BY <1>0, <1>7 DEF DeletePod, TypeOK, Times
  <2> QED
    BY <1>0, <1>7, <2>1 DEF DeletePod, Skip, clock, rstore, plan, TypeOK, RPcs
<1>8. CASE MarkMoved
  <2>1. movedAt' \in [PodIds -> Times \cup {None}]
    BY <1>8 DEF MarkMoved, TypeOK
  <2> QED
    BY <1>0, <1>8, <2>1 DEF MarkMoved, Skip, clock, plan, TypeOK, RPcs
<1>9. CASE Finish \/ RebalancerCrash
  BY <1>a, <1>9 DEF Finish, RebalancerCrash, clock, rstore
<1>10. CASE Tick
  BY <1>0, <1>10 DEF Tick, TypeOK, Times, rebalancing, rstore, plan, scan
<1>11. CASE UpdateBudget
  <2>1. Cardinality(ready) \in 0..MaxPods
    BY PodsFinite DEF ClusterOK
  <2> QED
    BY <1>11, <2>1 DEF UpdateBudget, TypeOK, rebalancing, rstore, plan, scan
<1>12. CASE ControllersWork
  BY <1>12 DEF ControllersWork, TypeOK, rebalancing, rstore, plan, scan
<1>13. CASE UNCHANGED vars
  BY <1>1, <1>13 DEF vars
<1> QED
  BY <1>1, <1>2, <1>3, <1>4, <1>5, <1>6, <1>7, <1>8, <1>9, <1>10, <1>11, <1>12, <1>13
     DEF Next, RebalancerStep

(* The types hold in every reachable state.                                *)
THEOREM TypeCorrect == Spec => []TypeOK
<1>1. Init => ClusterOK /\ PlacementOK /\ TypeOK
  BY ClusterInitOK, TypeInit
<1>2. ClusterOK /\ PlacementOK /\ TypeOK /\ [Next]_vars
        => ClusterOK' /\ PlacementOK' /\ TypeOK'
  BY ClusterStep, PlacementKept, TypeStep
<1> QED
  BY <1>1, <1>2, PTL DEF Spec

LEMMA Always == Spec => [](ClusterOK /\ PlacementOK /\ TypeOK)
<1>1. Init => ClusterOK /\ PlacementOK /\ TypeOK
  BY ClusterInitOK, TypeInit
<1>2. (ClusterOK /\ PlacementOK /\ TypeOK) /\ [Next]_vars
        => (ClusterOK /\ PlacementOK /\ TypeOK)'
  BY ClusterStep, PlacementKept, TypeStep
<1> QED
  BY <1>1, <1>2, PTL DEF Spec

--------------------------------------------------------------------------------
(* The disruption budget.  From the look at its status to the deletion no  *)
(* pod goes, so there is one to spare until then.                          *)
BudgetOK ==
  "lag" \notin Faults /\ MinAvailable # None =>
    /\ Cardinality(ready) >= MinAvailable
    /\ rpc \in {"thrash", "delete"} => Cardinality(ready) > MinAvailable

LEMMA BudgetStep ==
  ASSUME ClusterOK, PlacementOK, BudgetOK, [Next]_vars
  PROVE  BudgetOK'
<1> SUFFICES ASSUME "lag" \notin Faults, MinAvailable # None
             PROVE  /\ Cardinality(ready') >= MinAvailable
                    /\ rpc' \in {"thrash", "delete"} => Cardinality(ready') > MinAvailable
  BY DEF BudgetOK
<1>0. /\ MinAvailable \in Nat /\ Cardinality(ready) >= MinAvailable
      /\ rpc \in {"thrash", "delete"} => Cardinality(ready) > MinAvailable
      /\ ready \in SUBSET PodIds /\ IsFiniteSet(ready) /\ Cardinality(ready) \in Nat
  BY RebalancerAssumption, PodsFinite DEF BudgetOK, ClusterOK
<1>1. CASE Deleted(candidate) /\ DeletePod
  <2>1. Cardinality(ready') >= Cardinality(ready) - 1 /\ Cardinality(ready') \in Nat
    <3>1. ready' = ready \ {candidate}
      BY <1>1 DEF Deleted
    <3>2. Cardinality(ready \ {candidate})
            = IF candidate \in ready THEN Cardinality(ready) - 1 ELSE Cardinality(ready)
      BY <1>0, FS_RemoveElement
    <3>3. Cardinality(ready \ {candidate}) \in Nat
      BY <1>0, PodsFinite
    <3> QED
      BY <1>0, <3>1, <3>2, <3>3
  <2>2. rpc = "delete" /\ rpc' \notin {"thrash", "delete"}
    BY <1>1 DEF DeletePod, Skip
  <2> QED
    BY <1>0, <2>1, <2>2
<1>2. CASE \A p : ~Deleted(p)
  <2>1. ready \subseteq ready' /\ ready' \in SUBSET PodIds
    BY <1>0, <1>2, PodSteps DEF Created, Bound, Started
  <2>2. Cardinality(ready) <= Cardinality(ready') /\ Cardinality(ready') \in Nat
    BY <2>1, PodsFinite, FS_Subset
  <2>3. ASSUME rpc' \in {"thrash", "delete"} PROVE Cardinality(ready) > MinAvailable
    <3>1. CASE CheckBudget
      <4>1. healthy = Cardinality(ready) /\ PdbAllowsDisruption
        BY <2>3, <3>1 DEF CheckBudget, Skip
      <4> QED
        BY <1>0, <4>1 DEF PdbAllowsDisruption
    <3>2. CASE ~CheckBudget
      <4>1. rpc \in {"thrash", "delete"}
        BY <2>3, <3>2
           DEF Next, RebalancerStep, RebalancerCrash, StartCycle, EvaluateTriggers, NextSource,
               NextPod, CheckMove, DeletePod, MarkMoved, Finish, EndCycle, Skip,
               ControllersWork, UpdateBudget, Tick, rebalancing, vars
      <4> QED
        BY <1>0, <4>1
    <3> QED
      BY <3>1, <3>2
  <2> QED
    BY <1>0, <2>2, <2>3
<1>3. ASSUME NEW p, Deleted(p), ~DeletePod PROVE FALSE
  <2>1. p \in PodIds /\ place[p] \notin {Unborn, Gone} /\ place' = [place EXCEPT ![p] = Gone]
    BY <1>3 DEF Deleted, Live
  <2>2. place'[p] = Gone
    BY <2>1 DEF ClusterOK
  <2> QED
    BY <1>3, <2>1, <2>2, PodSteps, ClusterAssumption
       DEF Created, Bound, Started, PlacementOK, ClusterOK
<1>4. ASSUME NEW p, Deleted(p), DeletePod PROVE Deleted(candidate)
  <2>1. p \in PodIds /\ place[p] \notin {Unborn, Gone} /\ place'[p] = Gone
    BY <1>4 DEF Deleted, Live, ClusterOK
  <2> QED
    BY <1>4, <2>1 DEF DeletePod, RemovePod, Deleted, cluster
<1> QED
  BY <1>1, <1>2, <1>3, <1>4

(* As long as the status of the budget keeps up with the pods, a service   *)
(* that starts with enough pods for its budget never has fewer ready,      *)
(* whatever the rebalancer deletes and whichever calls fail: the           *)
(* controllers never remove a pod, and the rebalancer looks before each.   *)
THEOREM KeepsBudget ==
  ASSUME MinAvailable # None => MinAvailable <= Wanted
  PROVE  Spec => []BudgetKept
<1>1. Init => BudgetOK
  <2> SUFFICES ASSUME Init, MinAvailable # None
               PROVE  Cardinality(ready) >= MinAvailable /\ rpc \notin {"thrash", "delete"}
    BY DEF BudgetOK
  <2>1. Wanted \in Nat /\ Cardinality(1..Wanted) = Wanted
    BY ClusterAssumption, FS_Interval
  <2> QED
    BY <2>1 DEF Init, ClusterInit, RebalancerInit
<1>2. (ClusterOK /\ PlacementOK /\ TypeOK) /\ BudgetOK /\ [Next]_vars => BudgetOK'
  BY BudgetStep
<1>3. BudgetOK => BudgetKept
  BY DEF BudgetOK, BudgetKept
<1> QED
  BY <1>1, <1>2, <1>3, Always, PTL DEF Spec

--------------------------------------------------------------------------------
(* The rate.  A cycle counts what it deletes and stops at MaxMoves; cycles *)
(* that delete start at least a cooldown apart, since each one starts that *)
(* long after the last one that was noted, and those are all that deleted. *)
DeletedBy(t) == {p \in PodIds : cycleOf[p] = t}

RateOK ==
  /\ \A p \in PodIds : cycleOf[p] # None =>
       /\ place[p] = Gone
       /\ \/ lastRun # None /\ cycleOf[p] <= lastRun
          \/ rpc \notin {"wait", "records"} /\ cycleOf[p] = start
  /\ \A p, q \in PodIds :
       cycleOf[p] # None /\ cycleOf[q] # None /\ cycleOf[p] < cycleOf[q]
         => cycleOf[q] - cycleOf[p] >= Cooldown
  /\ \A t \in Nat : Cardinality(DeletedBy(t)) <= MaxMoves
  /\ rpc # "wait" /\ lastRun # None => start - lastRun >= Cooldown
  /\ rpc # "wait" =>
       Cardinality(DeletedBy(start)) = IF rpc = "mark" THEN deleted + 1 ELSE deleted
  /\ rpc \in {"budget", "thrash", "delete", "mark"} => deleted < MaxMoves
  /\ rpc = "wait" => deleted = 0

LEMMA GoneStays ==
  ASSUME ClusterOK, PlacementOK, [Next]_vars, NEW p \in PodIds, place[p] = Gone
  PROVE  place'[p] = Gone
  BY PodSteps, ClusterAssumption DEF Created, Bound, Started, Deleted, ClusterOK, PlacementOK

LEMMA RateInit == Init => RateOK
<1> SUFFICES ASSUME Init PROVE RateOK
  OBVIOUS
<1>1. \A p \in PodIds : cycleOf[p] = None
  BY DEF Init, RebalancerInit
<1>2. \A t \in Nat : DeletedBy(t) = {}
  BY <1>1, RebalancerAssumption DEF DeletedBy
<1>3. \A t \in Nat : Cardinality(DeletedBy(t)) <= MaxMoves
  <2>1. Cardinality({}) = 0 /\ MaxMoves \in Nat
    BY FS_EmptySet, RebalancerAssumption
  <2> QED
    BY <1>2, <2>1
<1> QED
  BY <1>1, <1>3 DEF RateOK, Init, RebalancerInit

LEMMA RateStep ==
  ASSUME ClusterOK, PlacementOK, TypeOK, RateOK, [Next]_vars,
         Faults \cap {"redis", "lost", "crash"} = {}, Cooldown > 0
  PROVE  RateOK'
<1>0. /\ Cooldown \in Nat /\ MaxMoves \in Nat /\ None \notin Nat
      /\ cycleOf \in [PodIds -> Nat \cup {None}] /\ lastRun \in Nat \cup {None}
      /\ now \in Nat /\ start \in Nat /\ start <= now /\ deleted \in Nat
  BY RebalancerAssumption DEF TypeOK, Times
<1>g. \A p \in PodIds : place[p] = Gone => place'[p] = Gone
  BY GoneStays
<1>k. ASSUME UNCHANGED <<lastRun, rpc, start, deleted, cycleOf>> PROVE RateOK'
  BY <1>g, <1>k DEF RateOK, DeletedBy
<1>f. ~RRedisFails
  BY DEF RRedisFails
<1>a. ASSUME UNCHANGED <<lastRun, start, deleted, cycleOf>>,
             rpc \in {"source", "pod", "budget", "thrash", "delete"},
             rpc' \in {"source", "pod", "budget", "thrash", "delete", "finish"},
             rpc' \in {"budget", "thrash", "delete"} => deleted < MaxMoves
      PROVE  RateOK'
  BY <1>g, <1>a DEF RateOK, DeletedBy
<1>1. CASE StartCycle
  <2>1. /\ rpc = "wait" /\ rpc' = "records" /\ start' = now
        /\ UNCHANGED <<lastRun, deleted, cycleOf>>
        /\ lastRun # None => now - lastRun >= Cooldown
    BY <1>1, <1>f DEF StartCycle, CooldownElapsed, rstore
  <2>2. \A p \in PodIds : cycleOf[p] # now
    BY <1>0, <2>1 DEF RateOK
  <2>3. DeletedBy(now) = {} /\ deleted = 0
    BY <2>1, <2>2 DEF DeletedBy, RateOK
  <2>4. Cardinality(DeletedBy(now)) = deleted
    BY <2>3, FS_EmptySet
  <2>5. \A t : DeletedBy(t)' = DeletedBy(t)
    BY <2>1 DEF DeletedBy
  <2>6. Cardinality({p \in PodIds : cycleOf'[p] = start'}) = deleted'
    BY <2>1, <2>4 DEF DeletedBy
  <2> QED
    BY <1>0, <1>g, <2>1, <2>6 DEF RateOK, DeletedBy
<1>2. CASE EvaluateTriggers
  <2>1. rpc = "records" /\ UNCHANGED <<lastRun, cycleOf>>
    BY <1>2 DEF EvaluateTriggers, rstore
  <2>2. \/ rpc' = "wait" /\ deleted' = 0
        \/ rpc' = "source" /\ UNCHANGED <<start, deleted>>
    BY <1>2 DEF EvaluateTriggers, EndCycle
  <2> QED
    BY <1>g, <2>1, <2>2 DEF RateOK, DeletedBy
<1>3. CASE NextSource
  BY <1>3, <1>a DEF NextSource, rstore, plan
<1>4. CASE NextPod
  <2>1. /\ rpc = "pod" /\ rpc' \in {"source", "pod", "budget"}
        /\ UNCHANGED <<lastRun, start, deleted, cycleOf>>
    BY <1>4 DEF NextPod, rstore, plan
  <2>2. rpc' = "budget" => deleted < MaxMoves
    BY <1>0, <1>4 DEF NextPod, Enough
  <2> QED
    BY <1>a, <2>1, <2>2
<1>5. CASE CheckBudget \/ CheckMove
  <2>1. /\ rpc \in {"budget", "thrash"} /\ rpc' \in {"thrash", "delete", "pod"}
        /\ UNCHANGED <<lastRun, start, deleted, cycleOf>>
    BY <1>5 DEF CheckBudget, CheckMove, Skip, rstore, plan
  <2> QED
    BY <1>a, <2>1 DEF RateOK
<1>6. CASE DeletePod
  <2>1. rpc = "delete" /\ deleted < MaxMoves /\ UNCHANGED <<lastRun, start, deleted>>
    BY <1>6 DEF DeletePod, RateOK, rstore, plan
  <2>2. CASE UNCHANGED cycleOf /\ rpc' = "pod"
    BY <1>a, <2>1, <2>2
  <2>3. CASE /\ RemovePod(candidate) /\ rpc' = "mark"
             /\ cycleOf' = [cycleOf EXCEPT ![candidate] = start]
    <3>1. candidate \in PodIds /\ cycleOf[candidate] = None /\ place'[candidate] = Gone
      BY <2>3 DEF RemovePod, Live, RateOK, ClusterOK
    <3>2. DeletedBy(start)' = DeletedBy(start) \cup {candidate} /\ candidate \notin DeletedBy(start)
      BY <1>0, <2>1, <2>3, <3>1 DEF DeletedBy
    <3>3. IsFiniteSet(DeletedBy(start))
      BY PodsFinite DEF DeletedBy
    <3>4. Cardinality(DeletedBy(start)') = deleted + 1
      BY <2>1, <3>2, <3>3, FS_AddElement DEF RateOK
    <3>5. \A t \in Nat : t # start => DeletedBy(t)' = DeletedBy(t)
      BY <1>0, <2>3, <3>1 DEF DeletedBy
    <3>6. \A t \in Nat : Cardinality(DeletedBy(t)') <= MaxMoves
      BY <1>0, <2>1, <3>4, <3>5 DEF RateOK
    <3>7. Cardinality({p \in PodIds : cycleOf'[p] = start'}) = deleted + 1
      BY <2>1, <3>4 DEF DeletedBy
    <3>8. \A p \in PodIds : cycleOf'[p] # None =>
            /\ place'[p] = Gone
            /\ \/ lastRun' # None /\ cycleOf'[p] <= lastRun'
               \/ cycleOf'[p] = start'
      BY <1>0, <1>g, <2>1, <2>3, <3>1 DEF RateOK
    <3>9. \A p, q \in PodIds :
            cycleOf'[p] # None /\ cycleOf'[q] # None /\ cycleOf'[p] < cycleOf'[q]
              => cycleOf'[q] - cycleOf'[p] >= Cooldown
      BY <1>0, <2>1, <2>3, <3>1 DEF RateOK
    <3> QED
      BY <2>1, <2>3, <3>6, <3>7, <3>8, <3>9 DEF RateOK, DeletedBy
  <2> QED
    BY <1>6, <2>2, <2>3 DEF DeletePod, Skip
<1>7. CASE MarkMoved
  <2>1. /\ rpc = "mark" /\ rpc' = "pod" /\ deleted' = deleted + 1
        /\ UNCHANGED <<lastRun, start, cycleOf>>
    BY <1>7 DEF MarkMoved, Skip, plan
  <2> QED
    BY <1>0, <1>g, <2>1 DEF RateOK, DeletedBy
<1>8. CASE Finish
  <2>1. /\ rpc = "finish" /\ rpc' = "wait" /\ deleted' = 0
        /\ lastRun' = start /\ UNCHANGED cycleOf
    BY <1>8, <1>f DEF Finish, EndCycle
  <2>2. \A p \in PodIds : cycleOf[p] # None => cycleOf[p] <= start
    BY <1>0, <2>1 DEF RateOK
  <2> QED
    BY <1>0, <1>g, <2>1, <2>2 DEF RateOK, DeletedBy
<1>9. CASE UNCHANGED rebalancing
  BY <1>9, <1>k DEF rebalancing, rstore, plan
<1>10. ~RebalancerCrash
  BY DEF RebalancerCrash
<1> QED
  BY <1>1, <1>2, <1>3, <1>4, <1>5, <1>6, <1>7, <1>8, <1>9, <1>10
     DEF Next, RebalancerStep, ControllersWork, UpdateBudget, Tick, vars

LEMMA RateFollows == TypeOK /\ RateOK /\ Cooldown > 0 => RateLimited
<1> SUFFICES ASSUME TypeOK, RateOK, Cooldown > 0, NEW t \in Times
             PROVE  Cardinality({p \in PodIds : cycleOf[p] \in t..(t + Cooldown - 1)}) <= MaxMoves
  BY DEF RateLimited
<1> DEFINE S == {p \in PodIds : cycleOf[p] \in t..(t + Cooldown - 1)}
<1>0. /\ Cooldown \in Nat /\ MaxMoves \in Nat /\ None \notin Nat /\ t \in Nat
      /\ cycleOf \in [PodIds -> Nat \cup {None}]
  BY RebalancerAssumption DEF TypeOK, Times
<1>1. CASE S = {}
  BY <1>0, <1>1, FS_EmptySet
<1>2. ASSUME NEW p \in S PROVE Cardinality(S) <= MaxMoves
  <2>1. cycleOf[p] \in Nat /\ cycleOf[p] # None /\ p \in PodIds
    BY <1>0, <1>2
  <2>2. ASSUME NEW q \in S PROVE cycleOf[q] = cycleOf[p]
    <3>1. cycleOf[q] \in Nat /\ cycleOf[q] # None /\ q \in PodIds
      BY <1>0, <2>2
    <3>2. cycleOf[q] - cycleOf[p] < Cooldown /\ cycleOf[p] - cycleOf[q] < Cooldown
      BY <1>0, <1>2, <2>1, <2>2, <3>1
    <3>3. ~(cycleOf[p] < cycleOf[q]) /\ ~(cycleOf[q] < cycleOf[p])
      BY <1>0, <2>1, <3>1, <3>2 DEF RateOK
    <3> QED
      BY <2>1, <3>1, <3>3
  <2>3. S \in SUBSET DeletedBy(cycleOf[p]) /\ IsFiniteSet(DeletedBy(cycleOf[p]))
    BY <2>2, PodsFinite DEF DeletedBy
  <2>4. Cardinality(S) <= Cardinality(DeletedBy(cycleOf[p]))
    BY <2>3, FS_Subset
  <2>5. /\ Cardinality(DeletedBy(cycleOf[p])) <= MaxMoves
        /\ Cardinality(S) \in Nat /\ Cardinality(DeletedBy(cycleOf[p])) \in Nat
    BY <2>1, <2>3, FS_CardinalityType, FS_Subset DEF RateOK
  <2> QED
    BY <1>0, <2>4, <2>5
<1> QED
  BY <1>1, <1>2

(* Cycles that start within one cooldown delete no more than MaxMoves pods *)
(* together, as long as Redis answers, deletions are confirmed and the     *)
(* process lives: for any number of pods and nodes, however long it runs.  *)
THEOREM KeepsRate == Spec => []RateLimited
<1>1. CASE ~(Cooldown > 0)
  <2>1. RateLimited
    <3> SUFFICES ASSUME NEW t \in Times
                 PROVE  Cardinality({p \in PodIds : cycleOf[p] \in t..(t + Cooldown - 1)}) <= MaxMoves
      BY DEF RateLimited
    <3>1. Cooldown = 0 /\ t \in Nat /\ MaxMoves \in Nat
      BY <1>1, RebalancerAssumption DEF Times
    <3>2. {p \in PodIds : cycleOf[p] \in t..(t + Cooldown - 1)} = {}
      BY <3>1
    <3>3. Cardinality({}) = 0
      BY FS_EmptySet
    <3> QED
      BY <3>1, <3>2, <3>3
  <2> QED
    BY <2>1, PTL
<1>2. CASE Faults \cap {"redis", "lost", "crash"} # {}
  <2>1. RateLimited
    BY <1>2 DEF RateLimited
  <2> QED
    BY <2>1, PTL
<1>3. CASE Cooldown > 0 /\ Faults \cap {"redis", "lost", "crash"} = {}
  <2>1. (ClusterOK /\ PlacementOK /\ TypeOK) /\ RateOK /\ [Next]_vars => RateOK'
    BY <1>3, RateStep
  <2>2. (ClusterOK /\ PlacementOK /\ TypeOK) /\ RateOK => RateLimited
    BY <1>3, RateFollows
  <2> QED
    BY <2>1, <2>2, RateInit, Always, PTL DEF Spec
<1> QED
  BY <1>1, <1>2, <1>3

--------------------------------------------------------------------------------
(* Room.  The scheduler is the only one to bind pods, so that what it saw  *)
(* of the chosen node is still the most that can be there when it binds.   *)
RoomOK ==
  /\ override = None
  /\ NotOversubscribed
  /\ spc = "bind" => choice \in Nodes
  /\ spc = "bind" => \A r \in Resources :
       (Cardinality(On(choice)) + 1) * MainReq[r] <= Alloc[choice][r]

LEMMA OnFinite == \A n : IsFiniteSet(On(n)) /\ Cardinality(On(n)) \in Nat
<1> SUFFICES ASSUME NEW n PROVE IsFiniteSet(On(n)) /\ Cardinality(On(n)) \in Nat
  OBVIOUS
<1>1. On(n) \in SUBSET PodIds
  BY DEF On, Live
<1> QED
  BY <1>1, PodsFinite

(* With one more pod than are there a fitting node is not overfilled.      *)
LEMMA FittingHasRoom ==
  ASSUME NEW n \in Fitting, NEW r \in Resources
  PROVE  (Cardinality(On(n)) + 1) * MainReq[r] <= Alloc[n][r]
<1> DEFINE k == Cardinality(On(n))
           M == MainReq[r]
<1>0. k \in Nat /\ M \in Nat /\ InitReq[r] \in Nat /\ n \in Nodes /\ Alloc[n][r] \in Nat
  BY OnFinite, PlacementAssumption, ClusterAssumption DEF Fitting, Eligible
<1>1. Used(n, r) = Accounted(r)[k] + M /\ Used(n, r) <= Alloc[n][r]
  BY DEF Used, Fitting
<1>2. Accounted(r)[k] >= k * M /\ Accounted(r)[k] \in Nat
  <2> HIDE DEF k
  <2>1. CASE k = 0
    <3>1. Accounted(r)[k] = 0 /\ k * M = 0
      BY <1>0, <2>1, AccountedIs
    <3> QED
      BY <3>1
  <2>2. CASE k # 0
    <3>1. Accounted(r)[k] = Larger(M, InitReq[r]) + (k - 1) * M
      BY <1>0, <2>2, AccountedIs
    <3>2. (k - 1) * M + M = k * M /\ (k - 1) * M \in Nat /\ k * M \in Nat
      BY <1>0, <2>2
    <3> QED
      BY <1>0, <3>1, <3>2 DEF Larger
  <2> QED
    BY <2>1, <2>2
<1>3. (k + 1) * M = k * M + M /\ k * M \in Nat
  BY <1>0
<1> HIDE DEF k, M
<1> QED
  BY <1>0, <1>1, <1>2, <1>3 DEF k, M

(* Only a bind puts a pod on a node.                                       *)
LEMMA OnSteps ==
  ASSUME ClusterOK, PlacementOK, [Next]_vars, NEW n \in Nodes
  PROVE  \/ On(n)' \subseteq On(n)
         \/ /\ spc = "bind" /\ n = choice /\ On(n)' = On(n) \cup {pod}
            /\ pod \notin On(n) /\ spc' = "next"
<1>0. place \in [PodIds -> Nodes \cup {Unborn, Pending, Gone}]
  BY DEF ClusterOK
<1>1. CASE UNCHANGED <<place, ready>>
  BY <1>1 DEF On, Live
<1>2. ASSUME NEW p \in PodIds, Created(p) PROVE On(n)' \subseteq On(n)
  BY <1>0, <1>2, ClusterAssumption DEF Created, On, Live
<1>3. CASE Bound /\ spc = "bind"
  <2>1. pod \in PodIds /\ choice \in Nodes
    BY <1>3 DEF PlacementOK
  <2>2. CASE n = choice
    <3>1. On(n)' = On(n) \cup {pod} /\ pod \notin On(n)
      BY <1>0, <1>3, <2>1, <2>2, ClusterAssumption DEF Bound, On, Live
    <3>2. place' # place
      BY <1>0, <1>3, <2>1, ClusterAssumption DEF Bound
    <3>3. spc' = "next"
      <4>1. ~DeletePod
        <5>1. ASSUME DeletePod, RemovePod(candidate) PROVE FALSE
          BY <1>0, <1>3, <2>1, <5>1, ClusterAssumption DEF RemovePod, Bound, Live
        <5> QED
          BY <3>2, <5>1 DEF DeletePod, cluster
      <4>2. ~ControllersWork
        <5>1. ASSUME CreateReplica PROVE FALSE
          BY <1>0, <1>3, <2>1, <5>1, ClusterAssumption DEF CreateReplica, Bound
        <5>2. ASSUME DeleteReplica PROVE FALSE
          BY <1>0, <1>3, <2>1, <5>2, ClusterAssumption DEF DeleteReplica, RemovePod, Live, Bound
        <5>3. ASSUME NEW p \in PodIds, BecomeReady(p) PROVE FALSE
          BY <3>2, <5>3 DEF BecomeReady
        <5> QED
          BY <5>1, <5>2, <5>3 DEF ControllersWork, Controllers
      <4> QED
        BY <1>3, <3>2, <4>1, <4>2
           DEF Next, PlacementStep, SchedulerCrash, ListPods, SchedulePod, PassDone,
               AskOptimalNode, ScoreAndSelectNode, BindPod, RebalancerStep, RebalancerCrash,
               StartCycle, EvaluateTriggers, NextSource, NextPod, CheckBudget, CheckMove,
               MarkMoved, Finish, UpdateBudget, Tick, vars, cluster
    <3> QED
      BY <1>3, <2>2, <3>1, <3>3
  <2>3. CASE n # choice
    BY <1>0, <1>3, <2>1, <2>3, ClusterAssumption DEF Bound, On, Live
  <2> QED
    BY <2>2, <2>3
<1>4. ASSUME NEW p \in PodIds, Started(p) PROVE On(n)' \subseteq On(n)
  BY <1>0, <1>4 DEF Started, On, Live
<1>5. CASE Deleted(candidate)
  BY <1>0, <1>5, ClusterAssumption DEF Deleted, On, Live
<1> QED
  BY <1>1, <1>2, <1>3, <1>4, <1>5, PodSteps

LEMMA TimesMonotone ==
  ASSUME NEW a \in Nat, NEW b \in Nat, NEW m \in Nat, a <= b
  PROVE  a * m <= b * m
<1>1. b * m = a * m + (b - a) * m /\ (b - a) * m \in Nat /\ a * m \in Nat
  OBVIOUS
<1> QED
  BY <1>1

LEMMA RoomStep ==
  ASSUME ClusterOK, PlacementOK, RoomOK, [Next]_vars,
         Decided = {}, \A r \in Resources : InitReq[r] <= MainReq[r]
  PROVE  RoomOK'
<1>0. /\ \A r \in Resources : MainReq[r] \in Nat /\ Larger(MainReq[r], InitReq[r]) = MainReq[r]
      /\ \A n \in Nodes, r \in Resources : Alloc[n][r] \in Nat
  BY PlacementAssumption, ClusterAssumption DEF Larger
<1>1. override' = None
  <2>1. CASE AskOptimalNode
    BY <2>1, ClusterAssumption DEF AskOptimalNode, GetOptimalNode, ConsumeNodeOverride, RoomOK
  <2>2. CASE ~AskOptimalNode
    BY <2>2 DEF RoomOK, Next, PlacementStep, SchedulerCrash, ListPods, SchedulePod, PassDone,
                ScoreAndSelectNode, BindPod, vars, changeVars
  <2> QED
    BY <2>1, <2>2
<1>2. ASSUME NEW n \in Nodes, NEW r \in Resources
      PROVE  Asked(n, r)' <= Alloc[n][r]
  <2>0. Asked(n, r) = Cardinality(On(n)) * MainReq[r] /\ Asked(n, r)' = Cardinality(On(n)') * MainReq[r]
    BY <1>0 DEF Asked
  <2>1. Cardinality(On(n)) \in Nat /\ IsFiniteSet(On(n)) /\ Asked(n, r) <= Alloc[n][r]
    BY OnFinite DEF RoomOK, NotOversubscribed
  <2>2. CASE On(n)' \subseteq On(n)
    <3>1. Cardinality(On(n)') <= Cardinality(On(n)) /\ Cardinality(On(n)') \in Nat
      BY <2>1, <2>2, FS_Subset, FS_CardinalityType
    <3>2. Cardinality(On(n)') * MainReq[r] <= Cardinality(On(n)) * MainReq[r]
      BY <1>0, <2>1, <3>1, TimesMonotone
    <3>3. /\ Cardinality(On(n)') * MainReq[r] \in Nat
          /\ Cardinality(On(n)) * MainReq[r] \in Nat /\ Alloc[n][r] \in Nat
      BY <1>0, <2>1, <3>1
    <3> QED
      BY <2>0, <2>1, <3>2, <3>3
  <2>3. CASE spc = "bind" /\ n = choice /\ On(n)' = On(n) \cup {pod} /\ pod \notin On(n)
    <3>1. Cardinality(On(n)') = Cardinality(On(n)) + 1
      BY <2>1, <2>3, FS_AddElement
    <3> QED
      BY <2>0, <2>3, <3>1 DEF RoomOK
  <2> QED
    BY <2>2, <2>3, OnSteps
<1>3. ASSUME spc' = "bind", NEW r \in Resources
      PROVE  (Cardinality(On(choice)') + 1) * MainReq[r] <= Alloc[choice'][r]
  <2>1. CASE ScoreAndSelectNode
    <3>1. choice' \in Fitting /\ UNCHANGED cluster
      BY <1>3, <2>1 DEF ScoreAndSelectNode, Highest
    <3>2. \A n : On(n)' = On(n)
      BY <3>1 DEF cluster, On, Live
    <3>3. On(choice)' = On(choice')
      BY <3>1 DEF cluster, On, Live
    <3> QED
      BY <3>1, <3>3, FittingHasRoom
  <2>2. CASE ~ScoreAndSelectNode
    <3>1. spc = "bind" /\ UNCHANGED choice
      <4>1. CASE AskOptimalNode
        BY <1>3, <4>1, ClusterAssumption
           DEF AskOptimalNode, GetOptimalNode, ConsumeNodeOverride, RoomOK, Eligible
      <4>2. CASE ~AskOptimalNode
        BY <1>3, <2>2, <4>2
           DEF Next, PlacementStep, SchedulerCrash, ListPods, SchedulePod, PassDone,
               BindPod, vars, placement
      <4> QED
        BY <4>1, <4>2
    <3>2. ASSUME NEW n \in Nodes, n = choice
          PROVE  (Cardinality(On(n)') + 1) * MainReq[r] <= Alloc[n][r]
      <4>1. Cardinality(On(n)) \in Nat /\ IsFiniteSet(On(n))
        BY OnFinite
      <4>2. On(n)' \subseteq On(n)
        BY <1>3, OnSteps
      <4>3. Cardinality(On(n)') <= Cardinality(On(n)) /\ Cardinality(On(n)') \in Nat
        BY <4>1, <4>2, FS_Subset, FS_CardinalityType
      <4>4. (Cardinality(On(n)') + 1) * MainReq[r] <= (Cardinality(On(n)) + 1) * MainReq[r]
        BY <1>0, <4>1, <4>3, TimesMonotone
      <4>5. (Cardinality(On(n)) + 1) * MainReq[r] <= Alloc[n][r]
        BY <3>1, <3>2 DEF RoomOK
      <4>6. /\ (Cardinality(On(n)') + 1) * MainReq[r] \in Nat
            /\ (Cardinality(On(n)) + 1) * MainReq[r] \in Nat /\ Alloc[n][r] \in Nat
        BY <1>0, <4>1, <4>3
      <4> QED
        BY <4>4, <4>5, <4>6
    <3>3. ASSUME NEW n \in Nodes, n = choice PROVE On(choice)' = On(n)'
      BY <3>1, <3>3 DEF On
    <3>4. choice \in Nodes
      BY <3>1 DEF PlacementOK
    <3> QED
      BY <3>1, <3>2, <3>3, <3>4
  <2> QED
    BY <2>1, <2>2
<1>4. spc' = "bind" => choice' \in Nodes
  BY PlacementKept DEF PlacementOK
<1> QED
  BY <1>1, <1>2, <1>3, <1>4 DEF RoomOK, NotOversubscribed

(* A node holds no more than it has, whatever the rebalancer deletes and   *)
(* the controllers create between the scheduler's look at the pods and its *)
(* bind, for pods it places by its own scores and whose init container     *)
(* asks for no more than the others.                                       *)
THEOREM NeverOversubscribed ==
  ASSUME Decided = {}, \A r \in Resources : InitReq[r] <= MainReq[r]
  PROVE  Spec => []NotOversubscribed
<1>1. Init => RoomOK
  BY DEF Init, ChangeInit, PlacementInit, RoomOK
<1>2. (ClusterOK /\ PlacementOK /\ TypeOK) /\ RoomOK /\ [Next]_vars => RoomOK'
  BY RoomStep
<1>3. RoomOK => NotOversubscribed
  BY DEF RoomOK
<1> QED
  BY <1>1, <1>2, <1>3, Always, PTL DEF Spec

--------------------------------------------------------------------------------
(* The window against thrashing.  A pod on the list has not been moved, as *)
(* it was there when the pods were listed and only this cycle deletes.     *)
MovesOK ==
  /\ RememberedAreGone
  /\ candidate \notin pods
  /\ rpc = "mark" => place[candidate] = Gone

LEMMA GoneForGood ==
  ASSUME ClusterOK, PlacementOK, [Next]_vars, NEW p \in PodIds, place[p] = Gone
  PROVE  place'[p] = Gone
<1>0. place \in [PodIds -> Nodes \cup {Unborn, Pending, Gone}]
  BY DEF ClusterOK
<1>1. \A q \in PodIds : Created(q) => place'[p] = Gone
  BY <1>0, ClusterAssumption DEF Created
<1>2. Bound => place'[p] = Gone
  BY <1>0, ClusterAssumption DEF Bound
<1>3. \A q \in PodIds : Started(q) => place'[p] = Gone
  BY DEF Started
<1>4. Deleted(candidate) => place'[p] = Gone
  BY <1>0 DEF Deleted, Live
<1> QED
  BY <1>1, <1>2, <1>3, <1>4, PodSteps

LEMMA MovesStep ==
  ASSUME ClusterOK, PlacementOK, TypeOK, MovesOK, [Next]_vars
  PROVE  MovesOK'
<1>0. /\ 0 \notin PodIds /\ candidate \in PodIds \cup {0} /\ pods \subseteq PodIds
      /\ movedAt \in [PodIds -> Times \cup {None}]
      /\ \A p \in PodIds : movedAt[p] # None => place[p] = Gone /\ p \notin pods /\ p # candidate
      /\ candidate \notin pods
      /\ rpc = "mark" => place[candidate] = Gone
      /\ rpc \in {"budget", "thrash", "delete", "mark"} <=> candidate # 0
  BY DEF TypeOK, MovesOK, RememberedAreGone, PodIds
<1>g. \A p \in PodIds : place[p] = Gone => place'[p] = Gone
  BY GoneForGood
(* Unless a move is noted, it is enough that nothing gets on the list that *)
(* was not there, and nothing in hand that was not on the list.            *)
<1>a. ASSUME UNCHANGED movedAt, pods' \subseteq pods,
             candidate' \in {candidate, 0} \cup pods, candidate' \notin pods', rpc' # "mark"
      PROVE  MovesOK'
  BY <1>0, <1>g, <1>a DEF MovesOK, RememberedAreGone
<1>1. CASE UNCHANGED rebalancing
  <2>1. rpc = "mark" => candidate \in PodIds
    BY <1>0
  <2> QED
    BY <1>0, <1>g, <1>1, <2>1 DEF MovesOK, RememberedAreGone, rebalancing, rstore, scan
<1>2. CASE StartCycle \/ EvaluateTriggers \/ Finish \/ RebalancerCrash
  BY <1>0, <1>2, <1>a DEF StartCycle, EvaluateTriggers, Finish, RebalancerCrash, EndCycle, rstore, scan
<1>3. CASE NextSource
  <2>1. UNCHANGED <<movedAt, candidate>> /\ rpc = "source" /\ rpc' \in {"finish", "pod", "source"}
        /\ candidate = 0
    BY <1>0, <1>3 DEF NextSource, rstore
  <2>2. CASE pods' = pods
    BY <1>0, <1>a, <2>1, <2>2
  <2>3. ASSUME NEW n, pods' = On(n) PROVE MovesOK'
    <3>1. \A p \in On(n) : p \in PodIds /\ place[p] # Gone
      BY DEF On, Live
    <3> QED
      BY <1>0, <1>g, <2>1, <2>3, <3>1 DEF MovesOK, RememberedAreGone
  <2> QED
    BY <1>3, <2>2, <2>3 DEF NextSource
<1>4. CASE NextPod
  BY <1>0, <1>4, <1>a DEF NextPod, rstore
<1>5. CASE CheckBudget \/ CheckMove
  BY <1>0, <1>5, <1>a DEF CheckBudget, CheckMove, Skip, rstore
<1>6. CASE DeletePod
  <2>1. UNCHANGED <<movedAt, pods>>
    BY <1>6 DEF DeletePod, rstore
  <2>2. CASE rpc' = "pod" /\ candidate' = 0
    BY <1>0, <1>a, <2>1, <2>2
  <2>3. CASE rpc' = "mark" /\ UNCHANGED candidate /\ RemovePod(candidate)
    <3>1. place'[candidate] = Gone
      BY <2>3 DEF RemovePod, Live, ClusterOK
    <3> QED
      BY <1>0, <1>g, <2>1, <2>3, <3>1 DEF MovesOK, RememberedAreGone
  <2> QED
    BY <1>6, <2>2, <2>3 DEF DeletePod, Skip
<1>7. CASE MarkMoved
  <2>1. /\ rpc = "mark" /\ candidate \in PodIds /\ place[candidate] = Gone
        /\ candidate' = 0 /\ rpc' = "pod" /\ pods' = pods
        /\ \A p \in PodIds : p # candidate => movedAt'[p] = movedAt[p]
    BY <1>0, <1>7 DEF MarkMoved, Skip
  <2> QED
    BY <1>0, <1>g, <2>1 DEF MovesOK, RememberedAreGone
<1> QED
  BY <1>1, <1>2, <1>3, <1>4, <1>5, <1>6, <1>7
     DEF Next, RebalancerStep, ControllersWork, UpdateBudget, Tick, vars

(* Whichever calls fail and however often the process dies: a pod that the *)
(* window against thrashing remembers never comes up for a move again, so  *)
(* that the window never says no.                                          *)
THEOREM WindowNeverApplies == Spec => []RememberedAreGone
<1>1. Init => MovesOK
  BY DEF Init, RebalancerInit, MovesOK, RememberedAreGone
<1>2. (ClusterOK /\ PlacementOK /\ TypeOK) /\ MovesOK /\ [Next]_vars => MovesOK'
  BY MovesStep
<1>3. MovesOK => RememberedAreGone
  BY DEF MovesOK
<1> QED
  BY <1>1, <1>2, <1>3, Always, PTL DEF Spec

================================================================================
