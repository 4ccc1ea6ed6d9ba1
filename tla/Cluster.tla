-------------------------------- MODULE Cluster --------------------------------
(***************************************************************************)
(* What Kubernetes keeps of one service: the replica count of its          *)
(* Deployment and its pods, with the controllers that act on them.  None   *)
(* of this is code of the repository; it is modelled from how the          *)
(* change-node handler, the custom scheduler and the rebalancer use it.    *)
(*                                                                         *)
(* Pods are numbered in the order of their creation.  Deleting a pod takes *)
(* it away at once: the grace period, in which the controller no longer    *)
(* counts the pod, is not modelled.                                        *)
(***************************************************************************)
EXTENDS Naturals, Eligibility

CONSTANTS
  Nodes,
  OwnerKinds,   \* what can own the pods: "ReplicaSet", or something else
  Specs,        \* node -> its taints, labels and conditions
  Alloc,        \* node -> its allocatable resources
  Wanted,       \* replicas the owner of the Deployment asked for
  MaxPods,      \* bound: pods ever created
  Unborn, Pending, Gone,
  Faults,       \* which of FaultKinds can happen
  None

FaultKinds ==
  {"redis",     \* a Redis call fails and has no effect
   "api",       \* an API server call fails and has no effect
   "lost",      \* a call has its effect and its reply is lost
   "cancel",    \* the HTTP client gives up
   "stall",     \* a call takes so long that the TTL of its lock is over
   "lag",       \* the status of a disruption budget is behind the pods
   "crash"}     \* the extender, or the custom scheduler, dies

Resources == {"cpu", "mem"}

ASSUME ClusterAssumption ==
  /\ Wanted \in Nat /\ MaxPods \in Nat /\ Wanted <= MaxPods
  /\ Faults \subseteq FaultKinds
  /\ Specs \in [Nodes -> NodeObject]
  /\ Alloc \in [Nodes -> [Resources -> Nat \ {0}]]
  /\ {Unborn, Pending, Gone} \cap Nodes = {}
  /\ None \notin Nodes
  /\ Unborn # Pending /\ Unborn # Gone /\ Pending # Gone

PodIds == 1..MaxPods

VARIABLES
  owner,        \* what owns the pods; whatever it is, it keeps replicas of them
  replicas,     \* spec.replicas
  rv,           \* resource version of the Deployment
  place,        \* pod -> its node, or Unborn, Pending, Gone
  ready         \* pods that are Running and Ready

cluster == <<owner, replicas, rv, place, ready>>

Live == {p \in PodIds : place[p] \notin {Unborn, Gone}}
NotBound == {p \in Live : place[p] = Pending}
On(n) == {p \in Live : place[p] = n}

ClusterInit ==
  /\ owner \in OwnerKinds
  /\ replicas = Wanted
  /\ rv = 0
  /\ place \in {f \in [PodIds -> Nodes \cup {Unborn}] :
                  \A p \in PodIds : f[p] = Unborn <=> p > Wanted}
  /\ ready = 1..Wanted

(* UpdateScale with the version the scale was read at: a conflict unless   *)
(* the Deployment is still at that version.                                *)
UpdateScale(version, k) ==
  /\ rv = version
  /\ replicas' = k
  /\ rv' = IF k = replicas THEN rv ELSE rv + 1
  /\ UNCHANGED <<owner, place, ready>>

Bind(p, n) ==
  /\ place[p] = Pending
  /\ place' = [place EXCEPT ![p] = n]
  /\ UNCHANGED <<owner, replicas, rv, ready>>

RemovePod(p) ==
  /\ p \in Live
  /\ place' = [place EXCEPT ![p] = Gone]
  /\ ready' = ready \ {p}
  /\ UNCHANGED <<owner, replicas, rv>>

(* The ReplicaSet controller.  Of too many pods it removes an unbound one, *)
(* or else one that is not ready, or else whichever it ranks first.        *)
CreateReplica ==
  /\ Cardinality(Live) < replicas
  /\ \E p \in PodIds :
       /\ place[p] = Unborn
       /\ \A q \in 1..(p - 1) : place[q] # Unborn
       /\ place' = [place EXCEPT ![p] = Pending]
  /\ UNCHANGED <<owner, replicas, rv, ready>>

Surplus ==
  IF NotBound # {} THEN NotBound
  ELSE IF Live \ ready # {} THEN Live \ ready
  ELSE Live

DeleteReplica ==
  /\ Cardinality(Live) > replicas
  /\ \E p \in Surplus : RemovePod(p)

(* A bound pod starts and passes its probes.                               *)
BecomeReady(p) ==
  /\ place[p] \in Nodes /\ p \notin ready
  /\ ready' = ready \cup {p}
  /\ UNCHANGED <<owner, replicas, rv, place>>

Controllers ==
  \/ CreateReplica \/ DeleteReplica
  \/ \E p \in PodIds : BecomeReady(p)
================================================================================
