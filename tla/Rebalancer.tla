------------------------------- MODULE Rebalancer ------------------------------
(***************************************************************************)
(* The rebalancer of the extender: a cycle that takes pods off overloaded  *)
(* nodes by deleting them, one by one, within a disruption budget, a limit *)
(* of moves and a deadline, and not sooner than a cooldown after the last  *)
(* cycle.  A step is one call to Redis or to the API server; calls that    *)
(* only read what nobody changes are part of the step they serve.  Time    *)
(* passes in steps of its own.  Definitions named Faulty... are slips the  *)
(* properties must notice; nothing uses them.                              *)
(***************************************************************************)
EXTENDS Cluster

CONSTANTS
  Records,        \* what the records in Redis may say: node -> [ready, cpu, mem],
                  \*   of some nodes, with the load in percent of the allocatable
  Hotspots,       \* what hasLatencyHotspot may find
  Restarted,      \* pods with a container that has restarted
  MinAvailable,   \* of the service's disruption budget, or None without one
  MinAge, Cooldown, MaxMoves, MaxDuration, AntiThrash,
  MaxTime         \* bound: time

ASSUME RebalancerAssumption ==
  /\ \A r \in Records :
       DOMAIN r \subseteq Nodes /\ r \in [DOMAIN r -> [ready : BOOLEAN, cpu : Nat, mem : Nat]]
  /\ Hotspots \subseteq BOOLEAN
  /\ MinAvailable \in Nat \cup {None} /\ None \notin Nat
  /\ {MinAge, Cooldown, MaxMoves, MaxDuration, AntiThrash, MaxTime} \subseteq Nat

VARIABLES
  now,
  born,           \* pod -> when it was created
  healthy,        \* CurrentHealthy in the status of the budget
  lastRun,        \* rebalance:last_run, or None
  movedAt,        \* rebalance:pod_moved:<uid>, or None
  (* the cycle *)
  rpc, start, deadline, records, hotspot,
  sources, source, pods, candidate, deleted,
  (* a ghost *)
  cycleOf         \* pod the rebalancer deleted -> start of the cycle that did

clock == <<now, born, healthy>>
rstore == <<lastRun, movedAt>>
plan == <<start, deadline, records, hotspot>>
scan == <<sources, source, pods, candidate>>
rebalancing == <<rstore, rpc, plan, scan, deleted, cycleOf>>

RPcs == {"wait", "records", "source", "pod", "budget", "thrash", "delete", "mark", "finish"}

NoRecords == [n \in {} |-> None]

RebalancerInit ==
  /\ now = 0 /\ born = [p \in PodIds |-> 0]
  /\ healthy = Wanted
  /\ lastRun = None /\ movedAt = [p \in PodIds |-> None]
  /\ rpc = "wait"
  /\ start = 0 /\ deadline = 0 /\ records = NoRecords /\ hotspot = FALSE
  /\ sources = {} /\ source = None /\ pods = {} /\ candidate = 0
  /\ deleted = 0
  /\ cycleOf = [p \in PodIds |-> None]

(* The locals of a cycle that has ended are no more.                       *)
EndCycle ==
  /\ rpc' = "wait"
  /\ start' = 0 /\ deadline' = 0 /\ records' = NoRecords /\ hotspot' = FALSE
  /\ sources' = {} /\ source' = None /\ pods' = {} /\ candidate' = 0
  /\ deleted' = 0

RRedisFails == "redis" \in Faults
RApiFails == "api" \in Faults

--------------------------------------------------------------------------------
(* The cooldown runs from the start of the last cycle.  When Redis does    *)
(* not answer it counts as over.                                           *)
CooldownElapsed == lastRun # None => now - lastRun >= Cooldown

StartCycle ==
  /\ rpc = "wait"
  /\ CooldownElapsed \/ RRedisFails
  /\ rpc' = "records"
  /\ start' = now
  /\ UNCHANGED <<cluster, clock, rstore, deadline, records, hotspot, scan, deleted, cycleOf>>

Considered(r) == {n \in DOMAIN r : r[n].ready}

(* The lowest load counts as 100 at most.                                  *)
Imbalanced(loads) == \E a \in loads, b \in loads \cup {100} : a > b + 35

Overloaded(r) == {n \in Considered(r) : r[n].cpu > 75 \/ r[n].mem > 75}
Free(r) == {n \in Considered(r) : r[n].cpu < 25 /\ r[n].mem < 25}

Triggered(r, hot) ==
  \/ Imbalanced({r[n].cpu : n \in Considered(r)})
  \/ Imbalanced({r[n].mem : n \in Considered(r)})
  \/ Free(r) # {}
  \/ hot

(* The records are listed, and latencies looked up.  Without a trigger the *)
(* cycle ends; without nodes to relieve or to fill it only notes its run.  *)
EvaluateTriggers ==
  /\ rpc = "records"
  /\ \/ \E r \in Records, hot \in Hotspots :
          \/ (r = NoRecords \/ ~Triggered(r, hot)) /\ EndCycle
          \/ /\ r # NoRecords /\ Triggered(r, hot)
             /\ rpc' = "source"
             /\ deadline' = now + MaxDuration
             /\ records' = r /\ hotspot' = hot
             /\ sources' = IF Free(r) = {} THEN {} ELSE Overloaded(r)
             /\ UNCHANGED <<start, source, pods, candidate, deleted>>
     \/ RRedisFails /\ EndCycle
  /\ UNCHANGED <<cluster, clock, rstore, cycleOf>>

Enough == deleted >= MaxMoves \/ now > deadline

Load(n) == records[n].cpu + records[n].mem

(* On to the overloaded node with the highest load, and its pods if they   *)
(* can be listed.                                                          *)
NextSource ==
  /\ rpc = "source"
  /\ \/ /\ sources = {} \/ Enough
        /\ rpc' = "finish" /\ UNCHANGED <<sources, source, pods>>
     \/ /\ ~Enough
        /\ \E n \in sources :
             /\ \A m \in sources : Load(m) <= Load(n)
             /\ sources' = sources \ {n}
             /\ \/ rpc' = "pod" /\ source' = n /\ pods' = On(n)
                \/ RApiFails /\ UNCHANGED <<rpc, source, pods>>
  /\ UNCHANGED <<cluster, clock, rstore, plan, candidate, deleted, cycleOf>>

IsNodeTainted(n) == \E taint \in Specs[n].taints : Hard(taint)

(* What isPodEligible asks, but for the node's taints: a node that cannot  *)
(* be read counts as not tainted.                                          *)
IsPodEligible(p) ==
  /\ now - born[p] >= MinAge
  /\ owner \notin {"DaemonSet", "StatefulSet"}
  /\ p \notin Restarted

(* The next of the pods as they were listed.                               *)
NextPod ==
  /\ rpc = "pod"
  /\ \/ /\ pods = {} \/ Enough
        /\ rpc' = "source" /\ source' = None /\ pods' = {}
        /\ UNCHANGED candidate
     \/ /\ ~Enough
        /\ \E p \in pods :
             /\ pods' = pods \ {p}
             /\ \/ /\ IsPodEligible(p) /\ (~IsNodeTainted(source) \/ RApiFails)
                   /\ rpc' = "budget" /\ candidate' = p
                \/ /\ ~IsPodEligible(p) \/ IsNodeTainted(source)
                   /\ UNCHANGED <<rpc, candidate>>
        /\ UNCHANGED source
  /\ UNCHANGED <<cluster, clock, rstore, plan, sources, deleted, cycleOf>>

(* On to the next node instead of the next pod.                            *)
FaultySkip == rpc' = "source" /\ candidate' = 0

Skip == rpc' = "pod" /\ candidate' = 0

(* The budget may be used up.                                              *)
FaultyPdbAllowsDisruption == MinAvailable # None => healthy >= MinAvailable

(* DisruptionsAllowed > 0 and CurrentHealthy > DesiredHealthy come to the  *)
(* same.                                                                   *)
PdbAllowsDisruption == MinAvailable # None => healthy > MinAvailable

(* The budget is looked at by its status, which the disruption controller  *)
(* keeps up to date unless it lags.                                        *)
CheckBudget ==
  /\ rpc = "budget"
  /\ "lag" \notin Faults => healthy = Cardinality(ready)
  /\ \/ PdbAllowsDisruption /\ rpc' = "thrash" /\ UNCHANGED candidate
     \/ (~PdbAllowsDisruption \/ RApiFails) /\ Skip
  /\ UNCHANGED <<cluster, clock, rstore, plan, sources, source, pods, deleted, cycleOf>>

MovedRecently(p) == movedAt[p] # None /\ now - movedAt[p] < AntiThrash

Over(a, b) == IF a > b THEN a - b ELSE 0

(* In percent: what the node is over 65 in either resource, and 30 for a   *)
(* latency hotspot, against restart, warm-up and cache loss.               *)
BenefitExceedsCost(n) ==
  Over(records[n].cpu, 65) + Over(records[n].mem, 65) + (IF hotspot THEN 30 ELSE 0) > 60

(* Without an answer from Redis the pod has not been moved.                *)
CheckMove ==
  /\ rpc = "thrash"
  /\ \/ /\ ~MovedRecently(candidate) \/ RRedisFails
        /\ BenefitExceedsCost(source)
        /\ rpc' = "delete" /\ UNCHANGED candidate
     \/ (MovedRecently(candidate) \/ ~BenefitExceedsCost(source)) /\ Skip
  /\ UNCHANGED <<cluster, clock, rstore, plan, sources, source, pods, deleted, cycleOf>>

(* A deletion that failed counts as well.                                  *)
FaultyDeletePod ==
  /\ rpc = "delete"
  /\ \/ /\ RemovePod(candidate)
        /\ cycleOf' = [cycleOf EXCEPT ![candidate] = start]
     \/ /\ RApiFails \/ candidate \notin Live
        /\ UNCHANGED <<cluster, cycleOf>>
  /\ rpc' = "mark"
  /\ UNCHANGED <<clock, rstore, plan, scan, deleted>>

(* Deleted, not evicted.  A pod whose deletion is reported as failed does  *)
(* not count as moved.                                                     *)
DeletePod ==
  /\ rpc = "delete"
  /\ \/ /\ RemovePod(candidate)
        /\ cycleOf' = [cycleOf EXCEPT ![candidate] = start]
        /\ \/ rpc' = "mark" /\ UNCHANGED candidate
           \/ "lost" \in Faults /\ Skip
     \/ /\ RApiFails \/ candidate \notin Live
        /\ Skip /\ UNCHANGED <<cluster, cycleOf>>
  /\ UNCHANGED <<clock, rstore, plan, sources, source, pods, deleted>>

(* The move is not counted.                                                *)
FaultyMarkMoved ==
  /\ rpc = "mark"
  /\ movedAt' = [movedAt EXCEPT ![candidate] = now]
  /\ Skip
  /\ UNCHANGED <<cluster, clock, lastRun, plan, sources, source, pods, deleted, cycleOf>>

(* Redis notes when the pod was moved, and the move counts.                *)
MarkMoved ==
  /\ rpc = "mark"
  /\ \/ movedAt' = [movedAt EXCEPT ![candidate] = now]
     \/ RRedisFails /\ UNCHANGED movedAt
  /\ deleted' = deleted + 1
  /\ Skip
  /\ UNCHANGED <<cluster, clock, lastRun, plan, sources, source, pods, cycleOf>>

(* The start of the cycle becomes the last run.                            *)
Finish ==
  /\ rpc = "finish"
  /\ lastRun' = start \/ (RRedisFails /\ UNCHANGED lastRun)
  /\ EndCycle
  /\ UNCHANGED <<cluster, clock, movedAt, cycleOf>>

RebalancerStep ==
  \/ StartCycle \/ EvaluateTriggers \/ NextSource \/ NextPod \/ CheckBudget \/ CheckMove
  \/ DeletePod \/ MarkMoved \/ Finish

--------------------------------------------------------------------------------
Tick ==
  /\ now < MaxTime
  /\ now' = now + 1
  /\ UNCHANGED <<cluster, born, healthy, rebalancing>>

UpdateBudget ==
  /\ healthy # Cardinality(ready)
  /\ healthy' = Cardinality(ready)
  /\ UNCHANGED <<cluster, now, born, rebalancing>>

(* Controllers work, and the pods they create are born now.                *)
ControllersWork ==
  /\ Controllers
  /\ born' = [p \in PodIds |-> IF place[p] = Unborn /\ place'[p] # Unborn THEN now ELSE born[p]]
  /\ UNCHANGED <<now, healthy, rebalancing>>

RebalancerCrash ==
  /\ "crash" \in Faults
  /\ rpc # "wait"
  /\ EndCycle
  /\ UNCHANGED <<cluster, clock, rstore, cycleOf>>
================================================================================
