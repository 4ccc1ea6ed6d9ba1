------------------------------- MODULE Migration -------------------------------
(***************************************************************************)
(* Moving pods of one service: change-node requests, the custom scheduler  *)
(* that places the replicas they ask for, and the controllers of the       *)
(* cluster, with overrides handed from one to the other through Redis.     *)
(***************************************************************************)
EXTENDS PlacementLoop

vars == <<cluster, changeVars, placement>>

Init == ClusterInit /\ ChangeInit /\ PlacementInit

Environment ==
  \/ /\ Controllers
     /\ UNCHANGED <<changeVars, placement>>
  \/ /\ \/ ChangeLockExpire \/ OverrideExpire \/ ExtenderCrash
        \/ \E c \in Changes : GiveUpWaiting(c)
     /\ UNCHANGED placement
  \/ SchedulerCrash

Next ==
  \/ \E c \in Changes : (HandleChangeNode(c) \/ HandleRestartPod(c) \/ ChangeStep(c)) /\ UNCHANGED placement
  \/ PlacementStep
  \/ Environment

Spec == Init /\ [][Next]_vars

(* Handlers and the scheduler loop run when they can, and the controllers  *)
(* of the cluster do their work.                                           *)
Fairness ==
  /\ \A c \in Changes : WF_vars(ChangeStep(c) /\ UNCHANGED placement)
  /\ WF_vars(PlacementStep)
  /\ WF_vars(Controllers /\ UNCHANGED <<changeVars, placement>>)

FairSpec == Spec /\ Fairness

--------------------------------------------------------------------------------
(* Types, and what each handler and the scheduler have at hand.            *)
TypeOK ==
  /\ replicas \in Nat /\ rv \in Nat
  /\ place \in [PodIds -> Nodes \cup {Unborn, Pending, Gone}]
  /\ ready \subseteq {p \in PodIds : place[p] \in Nodes}
  /\ changeLock \in Changes \cup {None}
  /\ override \in Nodes \cup {None}
  /\ cpc \in [Changes -> CPcs]
  /\ old \in [Changes -> PodIds \cup {0}]
  /\ target \in [Changes -> Nodes \cup {None}]
  /\ original \in [Changes -> Nat] /\ seenRv \in [Changes -> Nat]
  /\ slow \subseteq Changes
  /\ moved \in [Changes -> Nodes \cup {None}]
  /\ spc \in {"list", "next", "ask", "score", "bind"}
  /\ queue \subseteq PodIds
  /\ pod \in PodIds \cup {0}
  /\ choice \in Eligible \cup {None}
  /\ spc \in {"ask", "score", "bind"} <=> pod # 0
  /\ spc = "bind" <=> choice # None
  /\ \A c \in Changes : Working(c) => old[c] # 0 /\ (target[c] # None \/ cpc[c] = "restart")

(* The service never loses its last ready pod to a migration, however      *)
(* requests overlap, fail or crash: while one pod is deleted another one   *)
(* stays ready (the wait for the new pod, and the lock).                   *)
NeverDown == Wanted > 0 /\ slow = {} => ready # {}

(* A request that is past its lock still has it, unless its calls are slow.*)
ScalePcs == {"override", "getDeployment", "upGet", "upPut", "poll", "delete",
             "downGet", "downPut"}
LockPcs == ScalePcs \cup {"release"}

LockHeld == \A c \in Changes \ slow : cpc[c] \in LockPcs => changeLock = c

(* Only one request at a time touches the Deployment, but for those that   *)
(* outlive the TTL of their lock.                                          *)
OneAtATime ==
  \A c, d \in Changes \ slow : cpc[c] \in ScalePcs /\ cpc[d] \in ScalePcs => c = d

(* A lock goes away through its own request, or its TTL.                   *)
ReleaseOnlyOwn ==
  [][\A c \in Changes :
       changeLock = c /\ changeLock' # c => cpc'[c] # cpc[c] \/ cpc' = cpc]_vars

(* Once all requests have returned the Deployment has the replicas its     *)
(* owner asked for.                                                        *)
ReplicasRestored == (\A c \in Changes : ~Working(c)) => replicas = Wanted

(* A request that reported success has left a pod on its target, once the  *)
(* controllers have nothing left to do.                                    *)
Settled ==
  /\ \A c \in Changes : ~Working(c)
  /\ Cardinality(Live) = replicas /\ ready = Live

MigrationSticks ==
  Settled => \A c \in Changes :
    moved[c] # None => \E p \in ready : place[p] = moved[c]

(* Every request returns.                                                  *)
EveryChangeReturns == \A c \in Changes : Working(c) ~> cpc[c] = "done"

(* The service comes back to as many ready pods as its owner asked for.    *)
ServiceSettles == <>[](Cardinality(ready) = Wanted /\ Live = ready)
================================================================================
