---------------------------- MODULE RefinementProofs ---------------------------
(***************************************************************************)
(* Reservation implements AtomicLedger, for all values of the constants:   *)
(* each step of the protocol is a Grant, a GrantUnseen, a Revoke, a Settle *)
(* or nothing at all for the abstract ledger.                              *)
(***************************************************************************)
EXTENDS ReservationRefinement, ReservationProofs

(* The request that moves may change its own claim and no other.           *)
LEMMA ClaimElsewhere ==
  ASSUME TypeOK, NEW r \in Requests,
         \A q \in Requests \ {r} : pc'[q] = pc[q] /\ cur'[q] = cur[q]
  PROVE  Claim' = [q \in Requests |-> IF q = r THEN Claim'[r] ELSE Claim[q]]
BY DEF Claim

LEMMA SameClaim ==
  ASSUME TypeOK, NEW r \in Requests,
         \A q \in Requests \ {r} : pc'[q] = pc[q] /\ cur'[q] = cur[q],
         \/ pc[r] \notin ClaimPcs /\ pc'[r] \notin ClaimPcs
         \/ pc[r] \in ClaimPcs /\ pc'[r] \in ClaimPcs /\ cur'[r] = cur[r]
  PROVE  Claim' = Claim
BY DEF Claim

(* A request that returns or goes on to the next node keeps no claim, and  *)
(* that is Settle when nothing happens to its reservation.                 *)
LEMMA ClaimEnds ==
  ASSUME TypeOK, NEW r \in Requests, Return(r) \/ (\E n : NextNode(r, n)),
         UNCHANGED granted,
         pc[r] \in ClaimPcs => cur[r] \in Nodes
  PROVE  UNCHANGED Abs!vars \/ Abs!Settle({r})
<1>1. /\ pc'[r] \notin ClaimPcs
      /\ \A q \in Requests \ {r} : pc'[q] = pc[q] /\ cur'[q] = cur[q]
  BY DEF Return, NextNode, Goto, ClaimPcs, TypeOK, LocalsTypeOK
<1>2. CASE pc[r] \notin ClaimPcs
  BY <1>1, <1>2, SameClaim DEF Abs!vars
<1>3. CASE pc[r] \in ClaimPcs
  <2>1. Claim[r] # None /\ Claim'[r] = None
    BY <1>1, <1>3, ReservationAssumption DEF Claim
  <2>2. Claim' = [q \in Requests |-> IF q \in {r} THEN None ELSE Claim[q]]
    BY <1>1, <2>1, ClaimElsewhere
  <2> QED
    BY <2>1, <2>2 DEF Abs!Settle
<1> QED
  BY <1>2, <1>3

(* A request that only moves its program counter within, or outside of,    *)
(* the part where it answers for a reservation.                            *)
LEMMA ClaimStays ==
  ASSUME TypeOK, NEW r \in Requests, NEW label, Goto(r, label), UNCHANGED locals,
         UNCHANGED granted, pc[r] \in ClaimPcs <=> label \in ClaimPcs
  PROVE  UNCHANGED Abs!vars
<1>1. /\ pc'[r] = label /\ cur' = cur
      /\ \A q \in Requests \ {r} : pc'[q] = pc[q] /\ cur'[q] = cur[q]
  BY DEF Goto, locals, TypeOK, LocalsTypeOK
<1> QED
  BY <1>1, SameClaim DEF Abs!vars

(* The abstract ledger counts with the same Cardinality.                   *)
LEMMA SameCardinality == \A S : Abs!Cardinality(S) = Cardinality(S)
BY DEF Abs!Cardinality, Cardinality

(* The room the abstract ledger asks for is the room the script checked.   *)
LEMMA RoomForReal ==
  ASSUME Inv, NEW r \in Requests, NEW n \in Nodes, HasRoom(usage[n], n, Req(r))
  PROVE  Abs!RoomFor(r, n)
<1>1. ASSUME NEW x \in Resources PROVE Abs!Taken(n, x) = usage[n].used[x]
  <2>1. Abs!Taken(n, x) = Abs!Weight(granted[n], Asked(x))
    BY DEF Abs!Taken, Abs!Asked, Asked
  <2>2. Abs!Tokens(granted[n], Asked(x)) = Tokens(granted[n], Asked(x))
    BY DEF Abs!Tokens, Tokens
  <2>3. Abs!Weight(granted[n], Asked(x)) = Taken(n, x)
    BY <2>2, SameCardinality DEF Abs!Weight, Weight, Taken
  <2> QED
    BY <2>1, <2>3 DEF Inv, LedgerExact
<1>2. usage[n].pods = Cardinality(granted[n])
  BY DEF Inv, LedgerExact
<1>3. ASSUME NEW x \in Resources
      PROVE  Abs!Taken(n, x) + [q \in Requests |-> Req(q)][r][x] <= Alloc[n][x]
  BY <1>1, <1>3 DEF HasRoom
<1>4. Cardinality(granted[n]) < PodsAlloc[n]
  BY <1>2 DEF HasRoom
<1> QED
  BY <1>3, <1>4, SameCardinality DEF Abs!RoomFor

--------------------------------------------------------------------------------
(* The protocol implements the atomic ledger: grants happen in one step,   *)
(* with room among the reservations that really stand, and only what was   *)
(* granted is given back.                                                  *)
THEOREM ReservationImplements == Spec => ImplementsAtomicLedger
<1>1. Init => Abs!Init
  BY DEF Init, Abs!Init, Claim, ClaimPcs
<1>2. Inv /\ [Next]_vars => [Abs!Next]_(Abs!vars)
  <2> SUFFICES ASSUME Inv, [Next]_vars
               PROVE  Abs!Next \/ UNCHANGED Abs!vars
    OBVIOUS
  <2>0. /\ TypeOK
        /\ \A r \in Requests : pc[r] \in ClaimPcs => cur[r] \in Nodes
    BY DEF Inv, ClaimsCounted
  <2>a. ASSUME NEW r \in Requests, Abs!Settle({r}) PROVE Abs!Next
    BY <2>a DEF Abs!Next
  <2>b. UNCHANGED <<pc, cur, granted>> => UNCHANGED Abs!vars
    BY DEF Abs!vars, Claim
  <2>c. ASSUME NEW r \in Requests, Return(r) \/ (\E n : NextNode(r, n)),
               UNCHANGED granted
        PROVE  Abs!Next \/ UNCHANGED Abs!vars
    BY <2>0, <2>a, <2>c, ClaimEnds
  <2>1. ASSUME NEW r \in Requests, Schedule(r) PROVE UNCHANGED Abs!vars
    <3>1. /\ pc[r] \notin ClaimPcs /\ pc'[r] \notin ClaimPcs
          /\ \A q \in Requests \ {r} : pc'[q] = pc[q] /\ cur'[q] = cur[q]
      BY <2>0, <2>1 DEF Schedule, Return, Goto, TypeOK, LocalsTypeOK, ClaimPcs
    <3> QED
      BY <2>0, <2>1, <3>1, SameClaim DEF Schedule, Abs!vars
  <2>2. ASSUME NEW r \in Requests, BindPodSimpleGet(r) \/ BindPodSimplePut(r)
        PROVE  UNCHANGED Abs!vars
    <3>1. UNCHANGED granted
      BY <2>2 DEF BindPodSimpleGet, BindPodSimplePut
    <3>2. /\ pc[r] \notin ClaimPcs /\ pc'[r] \notin ClaimPcs
          /\ \A q \in Requests \ {r} : pc'[q] = pc[q] /\ cur'[q] = cur[q]
      BY <2>0, <2>2
         DEF BindPodSimpleGet, BindPodSimplePut, SimpleFailed, Return, Goto, locals,
             TypeOK, LocalsTypeOK, ClaimPcs
    <3> QED
      BY <2>0, <3>1, <3>2, SameClaim DEF Abs!vars
  <2>3. ASSUME NEW r \in Requests, ExtractIntent(r) \/ ReadNode(r)
        PROVE  UNCHANGED Abs!vars
    <3>1. /\ pc[r] \notin ClaimPcs /\ pc'[r] \notin ClaimPcs
          /\ \A q \in Requests \ {r} : pc'[q] = pc[q] /\ cur'[q] = cur[q]
      BY <2>0, <2>3 DEF ExtractIntent, ReadNode, Goto, TypeOK, LocalsTypeOK, ClaimPcs
    <3> QED
      BY <2>0, <2>3, <3>1, SameClaim DEF ExtractIntent, ReadNode, Abs!vars
  <2>4. ASSUME NEW r \in Requests,
               FilterDone(r) \/ Recheck(r) \/ ReserveRefused(r) \/ Release(r)
        PROVE  UNCHANGED Abs!vars
    <3>1. UNCHANGED locals /\ UNCHANGED granted
      BY <2>4 DEF FilterDone, Recheck, ReserveRefused, Release
    <3>2. \/ pc[r] = "list" /\ (Goto(r, "simpleGet") \/ Goto(r, "getPod"))
          \/ pc[r] \in {"recheck", "reserve"} /\ (Goto(r, "reserve") \/ Goto(r, "giveUp"))
          \/ pc[r] = "release" /\ (Goto(r, "bindGet") \/ Goto(r, "rollback"))
      BY <2>4 DEF FilterDone, Recheck, ReserveRefused, Release
    <3> QED
      BY <2>0, <3>1, <3>2, ClaimStays DEF ClaimPcs
  <2>5. ASSUME NEW r \in Requests, GetPod(r) \/ BindPodGet(r) \/ BindPodPut(r)
        PROVE  Abs!Next \/ UNCHANGED Abs!vars
    <3>1. /\ UNCHANGED granted
          /\ \/ Return(r)
             \/ /\ UNCHANGED locals
                /\ \/ pc[r] = "getPod" /\ (Goto(r, "next") \/ Goto(r, "simpleGet"))
                   \/ /\ pc[r] \in {"bindGet", "bindPut"}
                      /\ Goto(r, "bindPut") \/ Goto(r, "rollback")
      BY <2>5 DEF GetPod, BindPodGet, BindPodPut
    <3> QED
      BY <2>0, <2>c, <3>1, ClaimStays DEF ClaimPcs
  <2>6. ASSUME NEW r \in Requests, LockNode(r) PROVE UNCHANGED Abs!vars
    <3>1. /\ pc[r] \notin ClaimPcs /\ pc'[r] \notin ClaimPcs
          /\ \A q \in Requests \ {r} : pc'[q] = pc[q] /\ cur'[q] = cur[q]
      BY <2>0, <2>6 DEF LockNode, NextNode, Goto, TypeOK, LocalsTypeOK, ClaimPcs
    <3> QED
      BY <2>0, <2>6, <3>1, SameClaim DEF LockNode, Abs!vars
  <2>7. ASSUME NEW r \in Requests, Exhausted(r) \/ GiveUp(r)
        PROVE  Abs!Next \/ UNCHANGED Abs!vars
    BY <2>7, <2>c DEF Exhausted, GiveUp
  <2>8. ASSUME NEW r \in Requests, ReserveResources(r) PROVE Abs!Next
    <3> DEFINE n == cur[r]
    <3>1. n \in Nodes /\ r \notin granted[n] /\ n \in todo[r]
      BY <2>0, <2>8
         DEF ReserveResources, TypeOK, LocalsTypeOK, LocalsAtHand, LockPcs,
             Inv, GrantedTried, ClaimPcs
    <3>2. /\ pc[r] = "reserve" /\ pc'[r] \in {"release", "giveUp"} /\ cur' = cur
          /\ \A q \in Requests \ {r} : pc'[q] = pc[q] /\ cur'[q] = cur[q]
      BY <2>0, <2>8 DEF ReserveResources, Goto, locals, TypeOK, LocalsTypeOK
    <3>3. Claim[r] = None
      BY <3>2 DEF Claim, ClaimPcs
    <3>4. Abs!RoomFor(r, n)
      BY <2>8, <3>1, RoomForReal DEF ReserveResources, ScriptAccepts
    <3>5. Abs!Admit(r, n)
      BY <2>8, <3>1, <3>3, <3>4 DEF ReserveResources, Abs!Admit
    <3>6. CASE pc'[r] = "release"
      <4>1. Claim'[r] = n
        BY <3>2, <3>6 DEF Claim, ClaimPcs
      <4>2. Claim' = [Claim EXCEPT ![r] = n]
        BY <2>0, <3>2, <4>1, ClaimElsewhere DEF Claim
      <4> QED
        BY <3>1, <3>5, <4>2 DEF Abs!Grant, Abs!Next
    <3>7. CASE pc'[r] = "giveUp"
      <4>1. Claim' = Claim
        BY <2>0, <3>2, <3>7, SameClaim DEF ClaimPcs
      <4> QED
        BY <3>1, <3>5, <4>1 DEF Abs!GrantUnseen, Abs!Next
    <3> QED
      BY <3>2, <3>6, <3>7
  <2>9. ASSUME NEW r \in Requests, RollbackResources(r)
        PROVE  Abs!Next \/ UNCHANGED Abs!vars
    <3>1. NextNode(r, cur[r]) /\ pc[r] = "rollback"
      BY <2>9 DEF RollbackResources
    <3>2. CASE UNCHANGED granted
      BY <2>c, <3>1, <3>2
    <3>3. CASE granted' = [granted EXCEPT ![cur[r]] = @ \ {r}]
      <4>1. Claim[r] = cur[r] /\ cur[r] # None
        BY <2>0, <3>1, ReservationAssumption DEF Claim, ClaimPcs
      <4>2. /\ pc'[r] = "next"
            /\ \A q \in Requests \ {r} : pc'[q] = pc[q] /\ cur'[q] = cur[q]
        BY <2>0, <3>1 DEF NextNode, Goto, TypeOK, LocalsTypeOK
      <4>3. Claim'[r] = None
        BY <4>2 DEF Claim, ClaimPcs
      <4>4. Claim' = [Claim EXCEPT ![r] = None]
        BY <2>0, <4>2, <4>3, ClaimElsewhere DEF Claim
      <4> QED
        BY <3>3, <4>1, <4>4 DEF Abs!Revoke, Abs!Next
    <3> QED
      BY <2>9, <3>2, <3>3 DEF RollbackResources
  <2>10. CASE Sync
    BY <2>10, <2>b DEF Sync, SyncList, SyncRead, SyncMerge, locals
  <2>11. CASE Crash
    <3> DEFINE R == {r \in Requests : Claim[r] # None}
    <3>1. Claim' = [r \in Requests |-> IF r \in R THEN None ELSE Claim[r]]
      <4>1. \A r \in Requests : pc'[r] \notin ClaimPcs
        BY <2>11 DEF Crash, ClaimPcs
      <4> QED
        BY <4>1 DEF Claim
    <3>2. Abs!Settle(R)
      BY <2>11, <3>1 DEF Crash, Abs!Settle
    <3> QED
      BY <3>2 DEF Abs!Next
  <2>12. Environment /\ ~Crash => UNCHANGED <<pc, cur, granted>>
    BY DEF Environment, LockExpire, NodeChange, Cancel, BindElsewhere, DeletePod, locals
  <2>13. CASE UNCHANGED vars
    BY <2>13, <2>b DEF vars, locals
  <2> QED
    BY <2>1, <2>2, <2>3, <2>4, <2>5, <2>6, <2>7, <2>8, <2>9, <2>10, <2>11, <2>12,
       <2>13, <2>b
       DEF Next, Handler
<1> QED
  BY <1>1, <1>2, Invariance, PTL DEF Spec, ImplementsAtomicLedger, Abs!Spec
================================================================================
