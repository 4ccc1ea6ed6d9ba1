------------------------------ MODULE ReplicaLoan ------------------------------
(***************************************************************************)
(* What /change-node promises the owner of a Deployment, with no lock,     *)
(* version or call in sight: of all requests one at a time borrows one     *)
(* replica and gives that one back.  If calls to the API server may fail,  *)
(* or requests may end early, a replica may be kept for good, one for each *)
(* such event; the count is never lower than when it began.  Migration.tla *)
(* is the detailed protocol that implements this.                          *)
(***************************************************************************)
EXTENDS Naturals

CONSTANTS
  Requests, Wanted,
  Reliable,   \* calls succeed, and requests run to their end
  None

VARIABLES
  replicas,   \* of the Deployment
  borrower    \* the request that has one of them on loan, or None

vars == <<replicas, borrower>>

Init == replicas = Wanted /\ borrower = None

Borrow(r) ==
  /\ borrower = None /\ borrower' = r
  /\ replicas' = replicas + 1

Repay ==
  /\ borrower # None /\ borrower' = None
  /\ replicas' = replicas - 1

(* The borrower does not learn that it has the replica.                    *)
BorrowUnseen ==
  /\ ~Reliable /\ borrower = None
  /\ replicas' = replicas + 1
  /\ UNCHANGED borrower

Default ==
  /\ ~Reliable /\ borrower # None /\ borrower' = None
  /\ UNCHANGED replicas

Next == (\E r \in Requests : Borrow(r)) \/ Repay \/ BorrowUnseen \/ Default

Spec == Init /\ [][Next]_vars
================================================================================
