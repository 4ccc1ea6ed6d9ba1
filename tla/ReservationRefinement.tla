------------------------- MODULE ReservationRefinement -------------------------
(***************************************************************************)
(* The protocol of Reservation implements AtomicLedger.  Its locks,        *)
(* versions, snapshots and failing calls are invisible there: a reserve    *)
(* script that accepts is Grant (GrantUnseen when its reply is lost), a    *)
(* rollback script is Revoke, and returning, crashing or losing the        *)
(* rollback is Settle.                                                     *)
(***************************************************************************)
EXTENDS Reservation

(* The node whose reservation a request may still give back.               *)
Claim == [r \in Requests |-> IF pc[r] \in ClaimPcs THEN cur[r] ELSE None]

Abs == INSTANCE AtomicLedger WITH
         Demand <- [r \in Requests |-> Req(r)],
         claim <- Claim

(* Every grant is made with room for it counted over the reservations that *)
(* stand, not over the counters in Redis, and only what was granted is     *)
(* ever given back.                                                        *)
ImplementsAtomicLedger == Abs!Spec
================================================================================
