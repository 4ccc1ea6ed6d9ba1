------------------------------ MODULE NodeLedger -------------------------------
(***************************************************************************)
(* A node's record in Redis and what the scheduler computes from one: the  *)
(* hard constraints of the filter and of the recheck under the lock, the   *)
(* validation against the API server's node, and the arithmetic of the     *)
(* reserve, rollback and merge scripts.  No state here: Reservation.tla    *)
(* uses these operators.  A definition named Faulty... is what a slip in   *)
(* the code would make of the one that follows it; no specification uses   *)
(* it, and the README says which property notices which slip.              *)
(*                                                                         *)
(* A record is split in two, as the merge script splits it: what the sync  *)
(* from the API overwrites (a view: ready, labels, taints) and the usage   *)
(* only the reservation scripts write (used, pods, version).  Allocatable  *)
(* amounts do not change while the model runs.                             *)
(***************************************************************************)
EXTENDS Naturals, FiniteSets

CONSTANTS
  Nodes, Pods, Resources,
  Archs,       \* architectures
  Labels,      \* other labels a pod can select on, the OS among them
  Taints,      \* taint keys
  HardTaints,  \* those whose effect is NoSchedule or NoExecute
  Alloc, PodsAlloc,
  Intent       \* pod -> what extractPodIntent finds in it

Amounts == [Resources -> Nat]
View == [ready : BOOLEAN, arch : Archs, labels : SUBSET Labels, taints : SUBSET Taints]
Usage == [used : Amounts, pods : Nat, version : Nat]
PodIntent ==
  [req : Amounts, arch : Archs, selector : SUBSET Labels, tolerations : SUBSET Taints]

ASSUME LedgerAssumption ==
  /\ IsFiniteSet(Nodes) /\ IsFiniteSet(Resources)
  /\ HardTaints \subseteq Taints
  /\ Alloc \in [Nodes -> Amounts]
  /\ PodsAlloc \in [Nodes -> Nat]
  /\ Intent \in [Pods -> PodIntent]

--------------------------------------------------------------------------------
(* The usage of a node Redis has no record of yet.                         *)
NewUsage == [used |-> [x \in Resources |-> 0], pods |-> 0, version |-> 0]

HasRoom(u, n, req) ==
  /\ \A x \in Resources : u.used[x] + req[x] <= Alloc[n][x]
  /\ u.pods < PodsAlloc[n]

(* The constraints every candidate must meet in Redis: filter, recheck.    *)
Fits(p, n, m, u) ==
  /\ m.ready
  /\ m.arch = Intent[p].arch
  /\ HasRoom(u, n, Intent[p].req)
  /\ m.taints \subseteq Intent[p].tolerations
  /\ Intent[p].selector \subseteq m.labels

(* The last look at the node object the request came with.  It leaves out  *)
(* the OS and the selector, and taints that only advise.                   *)
ValidAPINode(p, v) ==
  /\ v.ready
  /\ v.arch = Intent[p].arch
  /\ v.taints \cap HardTaints \subseteq Intent[p].tolerations

(* The reserve script counts the pod and forgets its amounts.              *)
FaultyChargedPodsOnly(u, req) ==
  [used |-> u.used, pods |-> u.pods + 1, version |-> u.version + 1]

Charged(u, req) ==
  [used |-> [x \in Resources |-> u.used[x] + req[x]],
   pods |-> u.pods + 1, version |-> u.version + 1]

(* Subtraction that stops at zero: math.max(0, a - b).                     *)
AtLeastZero(a, b) == IF a >= b THEN a - b ELSE 0

(* The rollback script forgets the pod counter.                            *)
FaultyRefundedNoPod(u, req) ==
  [used |-> [x \in Resources |-> AtLeastZero(u.used[x], req[x])],
   pods |-> u.pods, version |-> u.version + 1]

Refunded(u, req) ==
  [used |-> [x \in Resources |-> AtLeastZero(u.used[x], req[x])],
   pods |-> AtLeastZero(u.pods, 1), version |-> u.version + 1]
================================================================================
