----------------------------- MODULE AtomicLedger ------------------------------
(***************************************************************************)
(* What the reservation ledger in Redis promises, with no lock, version,   *)
(* snapshot or message in sight: a reservation is granted in one step, and *)
(* only when the reservations already granted on that node leave room for  *)
(* it.  Reservation.tla is the detailed protocol that implements this.     *)
(***************************************************************************)
EXTENDS Weights

CONSTANTS
  Requests,   \* whoever asks for a reservation: one Schedule call each
  Nodes,      \* the Kubernetes nodes
  Resources,  \* the resources a node is divided by (cpu, memory)
  Demand,     \* request -> resource -> amount its pod asks for
  Alloc,      \* node -> resource -> allocatable amount
  PodsAlloc,  \* node -> allocatable pods
  None        \* "no node"

VARIABLES
  granted,    \* node -> the requests that hold a reservation on it
  claim       \* request -> the node whose reservation it may still give back

vars == <<granted, claim>>

Asked(x) == [r \in Requests |-> Demand[r][x]]
Taken(n, x) == Weight(granted[n], Asked(x))

RoomFor(r, n) ==
  /\ \A x \in Resources : Taken(n, x) + Demand[r][x] <= Alloc[n][x]
  /\ Cardinality(granted[n]) < PodsAlloc[n]

Init ==
  /\ granted = [n \in Nodes |-> {}]
  /\ claim = [r \in Requests |-> None]

Admit(r, n) ==
  /\ claim[r] = None
  /\ r \notin granted[n]
  /\ RoomFor(r, n)
  /\ granted' = [granted EXCEPT ![n] = @ \cup {r}]

(* The request learns of its reservation and now answers for it.           *)
Grant(r, n) ==
  /\ Admit(r, n)
  /\ claim' = [claim EXCEPT ![r] = n]

(* The answer is lost: the reservation stands and nobody answers for it.   *)
GrantUnseen(r, n) ==
  /\ Admit(r, n)
  /\ UNCHANGED claim

(* The request gives back exactly what it was granted.                     *)
Revoke(r) ==
  /\ claim[r] # None
  /\ granted' = [granted EXCEPT ![claim[r]] = @ \ {r}]
  /\ claim' = [claim EXCEPT ![r] = None]

(* Requests let go without giving back: their pods run, or the process     *)
(* died, or what they sent to give a reservation back never arrived.       *)
Settle(R) ==
  /\ \A r \in R : claim[r] # None
  /\ claim' = [r \in Requests |-> IF r \in R THEN None ELSE claim[r]]
  /\ UNCHANGED granted

Next ==
  \/ \E r \in Requests, n \in Nodes : Grant(r, n) \/ GrantUnseen(r, n)
  \/ \E r \in Requests : Revoke(r)
  \/ \E R \in SUBSET Requests : Settle(R)

Spec == Init /\ [][Next]_vars

--------------------------------------------------------------------------------
(* No node is promised away twice: the granted reservations fit in what    *)
(* the node has.                                                           *)
WithinCapacity ==
  \A n \in Nodes :
    /\ \A x \in Resources : Taken(n, x) <= Alloc[n][x]
    /\ Cardinality(granted[n]) <= PodsAlloc[n]
================================================================================
