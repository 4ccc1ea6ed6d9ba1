-------------------------- MODULE MigrationRefinement --------------------------
(***************************************************************************)
(* The change-node requests of Migration implement ReplicaLoan: a scale-up *)
(* that succeeds is Borrow (BorrowUnseen when its reply is lost), the      *)
(* scale-down is Repay, and a scale-down that fails, a client that gives   *)
(* up and a crash are Default.                                             *)
(***************************************************************************)
EXTENDS Migration

(* The API server answers, clients wait and the process lives.             *)
Calm == Faults \cap {"api", "lost", "cancel", "crash", "stall"} = {}

(* Where a request has added its replica and not taken it away.            *)
AddedPcs == {"poll", "delete", "downGet", "downPut"}

Borrowers == {c \in Changes : cpc[c] \in AddedPcs}
Borrower == IF Borrowers = {} THEN None ELSE CHOOSE c \in Borrowers : TRUE

Loan == INSTANCE ReplicaLoan WITH
          Requests <- Changes,
          Reliable <- Calm,
          borrower <- Borrower

(* The replicas never change but by one, up for a request when no other    *)
(* has one on loan and down for that same request: also the number a       *)
(* request wrote down 90 seconds ago is still the right one to restore.    *)
ImplementsReplicaLoan == Loan!Spec
================================================================================
