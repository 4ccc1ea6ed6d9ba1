--------------------------- MODULE ReservationProofs ---------------------------
(***************************************************************************)
(* Theorems about Reservation for any nodes, pods, requests, resources and *)
(* faults: types, the inductive invariant, and from it that the ledger is  *)
(* exact and never promises more than a node has, whatever becomes of the  *)
(* locks.  Every step is a step of one request, of the sync or of the      *)
(* environment, and the proofs go through them in that order.              *)
(***************************************************************************)
EXTENDS Reservation, WeightTheorems

LEMMA NewUsageType == NewUsage \in Usage
BY DEF NewUsage, Usage, Amounts

LEMMA ReqType == ASSUME NEW r \in Requests PROVE Req(r) \in Amounts
BY LedgerAssumption, ReservationAssumption DEF Req, PodIntent

LEMMA UsageArithmetic ==
  ASSUME NEW u \in Usage, NEW req \in Amounts
  PROVE  Charged(u, req) \in Usage /\ Refunded(u, req) \in Usage
BY DEF Charged, Refunded, AtLeastZero, Usage, Amounts

(* Whatever returns or moves on to the next node leaves well-typed locals. *)
LEMMA ReturnType ==
  ASSUME LocalsTypeOK, LocalsAtHand, NEW r \in Requests, Return(r)
  PROVE  LocalsTypeOK' /\ LocalsAtHand'
<1>1. LocalsTypeOK'
  BY NewUsageType DEF Return, Goto, LocalsTypeOK, Pcs
<1>2. LocalsAtHand'
  BY DEF Return, Goto, LocalsTypeOK, LocalsAtHand, LockPcs, ClaimPcs
<1> QED
  BY <1>1, <1>2

LEMMA NextNodeType ==
  ASSUME LocalsTypeOK, LocalsAtHand, NEW r \in Requests, NEW n, NextNode(r, n),
         pc[r] \notin {"idle", "done"}
  PROVE  LocalsTypeOK' /\ LocalsAtHand'
<1>1. LocalsTypeOK'
  BY DEF NextNode, Goto, LocalsTypeOK, Pcs
<1>2. LocalsAtHand'
  BY DEF NextNode, Goto, LocalsTypeOK, LocalsAtHand, LockPcs, ClaimPcs
<1> QED
  BY <1>1, <1>2

LEMMA SimpleFailedType ==
  ASSUME LocalsTypeOK, LocalsAtHand, NEW r \in Requests, SimpleFailed(r),
         pc[r] \in BindPcs
  PROVE  LocalsTypeOK' /\ LocalsAtHand'
<1>1. CASE pc[r] \in {"fastGet", "fastPut"}
  <2>1. /\ Goto(r, "intent")
        /\ cur' = [cur EXCEPT ![r] = None]
        /\ UNCHANGED <<unread, todo, snap, valid, first, cancelled>>
    BY <1>1 DEF SimpleFailed
  <2>2. LocalsTypeOK'
    BY <2>1 DEF Goto, LocalsTypeOK, Pcs
  <2>3. LocalsAtHand'
    BY <1>1, <2>1 DEF Goto, LocalsTypeOK, LocalsAtHand, LockPcs, ClaimPcs
  <2> QED
    BY <2>2, <2>3
<1>2. CASE pc[r] \notin {"fastGet", "fastPut"}
  BY <1>2, ReturnType DEF SimpleFailed
<1> QED
  BY <1>1, <1>2

(* A step that only moves the program counter of a request.                *)
LEMMA GotoType ==
  ASSUME LocalsTypeOK, LocalsAtHand, NEW r \in Requests, NEW label \in Pcs,
         Goto(r, label), UNCHANGED locals,
         pc[r] \notin {"idle", "done"},
         label \in LockPcs \cup ClaimPcs => pc[r] \in LockPcs \cup ClaimPcs,
         label \in {"fastGet", "fastPut"} => pc[r] \in {"fastGet", "fastPut"}
  PROVE  LocalsTypeOK' /\ LocalsAtHand'
<1>1. LocalsTypeOK'
  BY DEF Goto, locals, LocalsTypeOK
<1>2. LocalsAtHand'
  BY DEF Goto, locals, LocalsTypeOK, LocalsAtHand
<1> QED
  BY <1>1, <1>2

--------------------------------------------------------------------------------
(* Type correctness.                                                       *)
LEMMA TypeInit == Init => TypeOK
<1> SUFFICES ASSUME Init PROVE TypeOK
  OBVIOUS
<1>1. RedisTypeOK /\ SyncerTypeOK
  BY NewUsageType, ReservationAssumption DEF Init, RedisTypeOK, SyncerTypeOK
<1>2. ApiTypeOK
  BY ReservationAssumption DEF Init, ApiTypeOK
<1>3. LocalsTypeOK
  BY NewUsageType DEF Init, LocalsTypeOK, Pcs
<1>4. LocalsAtHand
  BY DEF Init, LocalsAtHand, LockPcs, ClaimPcs
<1> QED
  BY <1>1, <1>2, <1>3, <1>4 DEF Init, TypeOK

LEMMA TypeStep == TypeOK /\ [Next]_vars => TypeOK'
<1> SUFFICES ASSUME TypeOK, [Next]_vars PROVE TypeOK'
  OBVIOUS
<1> USE DEF TypeOK
(* What most steps leave alone.                                          *)
<1>a. UNCHANGED redis => RedisTypeOK'
  BY DEF redis, RedisTypeOK
<1>b. UNCHANGED api => ApiTypeOK'
  BY DEF api, ApiTypeOK
<1>c. UNCHANGED syncer => SyncerTypeOK'
  BY DEF syncer, SyncerTypeOK
<1>d. UNCHANGED pc /\ UNCHANGED locals => LocalsTypeOK' /\ LocalsAtHand'
  BY DEF locals, LocalsTypeOK, LocalsAtHand
<1>e. UNCHANGED granted => (granted \in [Nodes -> SUBSET Requests])'
  OBVIOUS
<1>1. ASSUME NEW r \in Requests, Schedule(r) PROVE TypeOK'
  <2>1. PICK cand \in CandidateSets :
          \/ cand = {} /\ Return(r)
          \/ \E f \in cand :
               /\ first' = [first EXCEPT ![r] = f]
               /\ valid' = [valid EXCEPT ![r] =
                              {n \in cand : ValidAPINode(PodOf[r], view[n])}]
               /\ \/ \E best \in cand \cap Decided :
                       /\ cur' = [cur EXCEPT ![r] = best]
                       /\ Goto(r, "fastGet")
                  \/ UNCHANGED cur /\ Goto(r, "intent")
               /\ UNCHANGED <<unread, todo, snap, cancelled>>
    BY <1>1 DEF Schedule
  <2>2. LocalsTypeOK' /\ LocalsAtHand'
    <3>1. CASE Return(r)
      BY <3>1, ReturnType
    <3>2. CASE ~Return(r)
      <4>1. PICK f \in cand :
               /\ first' = [first EXCEPT ![r] = f]
               /\ valid' = [valid EXCEPT ![r] =
                              {n \in cand : ValidAPINode(PodOf[r], view[n])}]
               /\ \/ \E best \in cand \cap Decided :
                       /\ cur' = [cur EXCEPT ![r] = best]
                       /\ Goto(r, "fastGet")
                  \/ UNCHANGED cur /\ Goto(r, "intent")
               /\ UNCHANGED <<unread, todo, snap, cancelled>>
        BY <2>1, <3>2
      <4>2. /\ {n \in cand : ValidAPINode(PodOf[r], view[n])} \in SUBSET Nodes
            /\ f \in Nodes /\ cand \cap Decided \subseteq Nodes
        BY ReservationAssumption
      <4>3. LocalsTypeOK'
        <5>1. pc' \in [Requests -> Pcs]
          BY <4>1 DEF Goto, LocalsTypeOK, Pcs, BindPcs
        <5>2. cur' \in [Requests -> Nodes \cup {None}]
          BY <4>1, <4>2 DEF LocalsTypeOK
        <5> QED
          BY <4>1, <4>2, <5>1, <5>2 DEF LocalsTypeOK
      <4>4. LocalsAtHand'
        BY <4>1, <4>2 DEF Goto, LocalsTypeOK, LocalsAtHand, LockPcs, ClaimPcs
      <4> QED
        BY <4>3, <4>4
    <3> QED
      BY <3>1, <3>2
  <2> QED
    BY <1>1, <1>a, <1>b, <1>c, <1>e, <2>2 DEF Schedule
<1>2. ASSUME NEW r \in Requests, BindPodSimpleGet(r) PROVE TypeOK'
  <2>1. pc[r] \in BindPcs
    BY <1>2 DEF BindPodSimpleGet, BindPcs
  <2>2. CASE Return(r) \/ SimpleFailed(r)
    BY <1>2, <2>1, <2>2, <1>a, <1>b, <1>c, <1>e, ReturnType, SimpleFailedType
       DEF BindPodSimpleGet
  <2>3. CASE ~(Return(r) \/ SimpleFailed(r))
    <3> DEFINE label == IF pc[r] = "fastGet" THEN "fastPut" ELSE "simplePut"
    <3>1. Goto(r, label) /\ UNCHANGED locals
      BY <1>2, <2>3 DEF BindPodSimpleGet
    <3>2. LocalsTypeOK' /\ LocalsAtHand'
      BY <1>2, <3>1, GotoType
         DEF BindPodSimpleGet, Pcs, BindPcs, LockPcs, ClaimPcs
    <3> QED
      BY <1>2, <3>2, <1>a, <1>b, <1>c, <1>e DEF BindPodSimpleGet
  <2> QED
    BY <2>2, <2>3
<1>3. ASSUME NEW r \in Requests, BindPodSimplePut(r) PROVE TypeOK'
  <2>1. pc[r] \in BindPcs /\ (Return(r) \/ SimpleFailed(r))
    BY <1>3 DEF BindPodSimplePut, BindPcs
  <2>2. LocalsTypeOK' /\ LocalsAtHand'
    BY <2>1, ReturnType, SimpleFailedType
  <2>3. SimpleTarget(r) \in Nodes
    BY <1>3 DEF BindPodSimplePut, SimpleTarget, LocalsAtHand, LocalsTypeOK
  <2>4. ApiTypeOK'
    <3>1. CASE UNCHANGED api
      BY <3>1, <1>b
    <3>2. CASE BindAt(PodOf[r], SimpleTarget(r))
      BY <2>3, <3>2 DEF BindAt, ApiTypeOK
    <3> QED
      BY <1>3, <3>1, <3>2 DEF BindPodSimplePut
  <2> QED
    BY <1>3, <1>a, <1>c, <1>e, <2>2, <2>4 DEF BindPodSimplePut
<1>4. ASSUME NEW r \in Requests, ExtractIntent(r) PROVE TypeOK'
  <2>0. known \in SUBSET Nodes
    BY DEF RedisTypeOK
  <2>1. LocalsTypeOK'
    <3>1. pc' \in [Requests -> Pcs]
      BY <1>4 DEF ExtractIntent, Goto, LocalsTypeOK, Pcs, BindPcs
    <3>2. unread' \in [Requests -> SUBSET Nodes]
      BY <1>4, <2>0 DEF ExtractIntent, LocalsTypeOK
    <3> QED
      BY <1>4, <3>1, <3>2 DEF ExtractIntent, LocalsTypeOK
  <2>2. LocalsAtHand'
    BY <1>4 DEF ExtractIntent, Goto, LocalsTypeOK, LocalsAtHand, LockPcs, ClaimPcs
  <2> QED
    BY <1>4, <1>a, <1>b, <1>c, <1>e, <2>1, <2>2 DEF ExtractIntent
<1>5. ASSUME NEW r \in Requests, ReadNode(r) PROVE TypeOK'
  <2>1. PICK n \in unread[r] :
          /\ unread' = [unread EXCEPT ![r] = @ \ {n}]
          /\ \/ /\ todo' = [todo EXCEPT ![r] = @ \cup {n}]
                /\ snap' = [snap EXCEPT ![r][n] = usage[n]]
             \/ UNCHANGED <<todo, snap>>
    BY <1>5 DEF ReadNode
  <2>2. n \in Nodes /\ usage[n] \in Usage
    BY DEF LocalsTypeOK, RedisTypeOK
  <2>3. LocalsTypeOK'
    <3>1. unread' \in [Requests -> SUBSET Nodes]
      BY <2>1 DEF LocalsTypeOK
    <3>2. todo' \in [Requests -> SUBSET Nodes]
      BY <2>1, <2>2 DEF LocalsTypeOK
    <3>3. snap' \in [Requests -> [Nodes -> Usage]]
      <4>1. [snap[r] EXCEPT ![n] = usage[n]] \in [Nodes -> Usage]
        BY <2>2 DEF LocalsTypeOK
      <4>2. snap' = [snap EXCEPT ![r] = [snap[r] EXCEPT ![n] = usage[n]]] \/ snap' = snap
        BY <2>1
      <4> QED
        BY <4>1, <4>2 DEF LocalsTypeOK
    <3> QED
      BY <1>5, <3>1, <3>2, <3>3 DEF ReadNode, LocalsTypeOK
  <2>4. LocalsAtHand'
    <3>1. \A q \in Requests : q # r => todo'[q] = todo[q]
      BY <2>1 DEF LocalsTypeOK
    <3>2. pc' = pc /\ cur' = cur /\ first' = first /\ pc[r] = "list"
      BY <1>5 DEF ReadNode
    <3> QED
      BY <3>1, <3>2 DEF LocalsAtHand, LockPcs, ClaimPcs
  <2> QED
    BY <1>5, <1>a, <1>b, <1>c, <1>e, <2>3, <2>4 DEF ReadNode
<1>6. ASSUME NEW r \in Requests, FilterDone(r) PROVE TypeOK'
  <2> DEFINE label == IF todo[r] = {} THEN "simpleGet" ELSE "getPod"
  <2>1. Goto(r, label) /\ UNCHANGED locals /\ pc[r] = "list"
    BY <1>6 DEF FilterDone
  <2>2. LocalsTypeOK' /\ LocalsAtHand'
    BY <2>1, GotoType DEF Pcs, BindPcs, LockPcs, ClaimPcs
  <2> QED
    BY <1>6, <1>a, <1>b, <1>c, <1>e, <2>2 DEF FilterDone
<1>7. ASSUME NEW r \in Requests, GetPod(r) PROVE TypeOK'
  <2>1. \/ Return(r)
        \/ (Goto(r, "next") \/ Goto(r, "simpleGet")) /\ UNCHANGED locals
    BY <1>7 DEF GetPod
  <2>2. LocalsTypeOK' /\ LocalsAtHand'
    BY <1>7, <2>1, ReturnType, GotoType
       DEF GetPod, Pcs, BindPcs, LockPcs, ClaimPcs
  <2> QED
    BY <1>7, <1>a, <1>b, <1>c, <1>e, <2>2 DEF GetPod
<1>8. ASSUME NEW r \in Requests, LockNode(r) PROVE TypeOK'
  <2>1. PICK n \in todo[r] :
          /\ lock' = [lock EXCEPT ![n] = r] \/ UNCHANGED lock
          /\ \/ /\ Goto(r, "recheck")
                /\ cur' = [cur EXCEPT ![r] = n]
                /\ UNCHANGED <<unread, todo, snap, valid, first, cancelled>>
             \/ NextNode(r, n)
    BY <1>8 DEF LockNode
  <2>2. n \in Nodes
    BY DEF LocalsTypeOK
  <2>3. LocalsTypeOK' /\ LocalsAtHand'
    <3>1. CASE NextNode(r, n)
      BY <1>8, <3>1, NextNodeType DEF LockNode
    <3>2. CASE ~NextNode(r, n)
      <4>1. LocalsTypeOK'
        <5>1. pc' \in [Requests -> Pcs]
          BY <2>1, <3>2 DEF Goto, LocalsTypeOK, Pcs, LockPcs
        <5>2. cur' \in [Requests -> Nodes \cup {None}]
          BY <2>1, <2>2, <3>2 DEF LocalsTypeOK
        <5> QED
          BY <2>1, <3>2, <5>1, <5>2 DEF LocalsTypeOK
      <4>2. LocalsAtHand'
        BY <1>8, <2>1, <3>2 DEF LockNode, Goto, LocalsTypeOK, LocalsAtHand
      <4> QED
        BY <4>1, <4>2
    <3> QED
      BY <3>1, <3>2
  <2>4. RedisTypeOK'
    BY <1>8, <2>1 DEF LockNode, RedisTypeOK
  <2> QED
    BY <1>8, <1>b, <1>c, <1>e, <2>3, <2>4 DEF LockNode
<1>9. ASSUME NEW r \in Requests, Exhausted(r) PROVE TypeOK'
  BY <1>9, <1>a, <1>b, <1>c, <1>e, ReturnType DEF Exhausted
<1>10. ASSUME NEW r \in Requests, Recheck(r) PROVE TypeOK'
  <2>1. (Goto(r, "reserve") \/ Goto(r, "giveUp")) /\ UNCHANGED locals
    BY <1>10 DEF Recheck
  <2>2. LocalsTypeOK' /\ LocalsAtHand'
    BY <1>10, <2>1, GotoType DEF Recheck, Pcs, LockPcs
  <2> QED
    BY <1>10, <1>a, <1>b, <1>c, <1>e, <2>2 DEF Recheck
<1>11. ASSUME NEW r \in Requests, ReserveResources(r) PROVE TypeOK'
  <2>1. (Goto(r, "release") \/ Goto(r, "giveUp")) /\ UNCHANGED locals
    BY <1>11 DEF ReserveResources
  <2>2. LocalsTypeOK' /\ LocalsAtHand'
    BY <1>11, <2>1, GotoType DEF ReserveResources, Pcs, LockPcs
  <2>3. cur[r] \in Nodes
    BY <1>11 DEF ReserveResources, LocalsAtHand, LocalsTypeOK, LockPcs
  <2>4. Charged(usage[cur[r]], Req(r)) \in Usage
    BY <2>3, ReqType, UsageArithmetic DEF RedisTypeOK
  <2>5. RedisTypeOK'
    BY <1>11, <2>3, <2>4 DEF ReserveResources, RedisTypeOK
  <2>6. (granted \in [Nodes -> SUBSET Requests])'
    BY <1>11, <2>3 DEF ReserveResources
  <2> QED
    BY <1>11, <1>b, <1>c, <2>2, <2>5, <2>6 DEF ReserveResources
<1>12. ASSUME NEW r \in Requests, ReserveRefused(r) PROVE TypeOK'
  <2>1. LocalsTypeOK' /\ LocalsAtHand'
    BY <1>12, GotoType DEF ReserveRefused, Pcs, LockPcs
  <2> QED
    BY <1>12, <1>a, <1>b, <1>c, <1>e, <2>1 DEF ReserveRefused
<1>13. ASSUME NEW r \in Requests, GiveUp(r) PROVE TypeOK'
  <2>1. LocalsTypeOK' /\ LocalsAtHand'
    BY <1>13, NextNodeType DEF GiveUp
  <2>2. RedisTypeOK'
    BY <1>13 DEF GiveUp, UnlockNode, RedisTypeOK
  <2> QED
    BY <1>13, <1>b, <1>c, <1>e, <2>1, <2>2 DEF GiveUp
<1>14. ASSUME NEW r \in Requests, Release(r) PROVE TypeOK'
  <2> DEFINE label == IF cur[r] \in valid[r] THEN "bindGet" ELSE "rollback"
  <2>1. Goto(r, label) /\ UNCHANGED locals /\ pc[r] = "release"
    BY <1>14 DEF Release
  <2>2. LocalsTypeOK' /\ LocalsAtHand'
    BY <2>1, GotoType DEF Pcs, LockPcs, ClaimPcs
  <2>3. RedisTypeOK'
    BY <1>14 DEF Release, UnlockNode, RedisTypeOK
  <2> QED
    BY <1>14, <1>b, <1>c, <1>e, <2>2, <2>3 DEF Release
<1>15. ASSUME NEW r \in Requests, BindPodGet(r) PROVE TypeOK'
  <2>1. \/ Return(r)
        \/ (Goto(r, "bindPut") \/ Goto(r, "rollback")) /\ UNCHANGED locals
    BY <1>15 DEF BindPodGet
  <2>2. LocalsTypeOK' /\ LocalsAtHand'
    BY <1>15, <2>1, ReturnType, GotoType DEF BindPodGet, Pcs, ClaimPcs
  <2> QED
    BY <1>15, <1>a, <1>b, <1>c, <1>e, <2>2 DEF BindPodGet
<1>16. ASSUME NEW r \in Requests, BindPodPut(r) PROVE TypeOK'
  <2>1. Return(r) \/ (Goto(r, "rollback") /\ UNCHANGED locals)
    BY <1>16 DEF BindPodPut
  <2>2. LocalsTypeOK' /\ LocalsAtHand'
    BY <1>16, <2>1, ReturnType, GotoType DEF BindPodPut, Pcs, ClaimPcs
  <2>3. cur[r] \in Nodes
    BY <1>16 DEF BindPodPut, LocalsAtHand, LocalsTypeOK, ClaimPcs
  <2>4. ApiTypeOK'
    <3>1. CASE UNCHANGED api
      BY <3>1, <1>b
    <3>2. CASE BindAt(PodOf[r], cur[r])
      BY <2>3, <3>2 DEF BindAt, ApiTypeOK
    <3> QED
      BY <1>16, <3>1, <3>2 DEF BindPodPut
  <2> QED
    BY <1>16, <1>a, <1>c, <1>e, <2>2, <2>4 DEF BindPodPut
<1>17. ASSUME NEW r \in Requests, RollbackResources(r) PROVE TypeOK'
  <2>1. LocalsTypeOK' /\ LocalsAtHand'
    BY <1>17, NextNodeType DEF RollbackResources
  <2>2. cur[r] \in Nodes
    BY <1>17 DEF RollbackResources, LocalsAtHand, LocalsTypeOK, ClaimPcs
  <2>3. Refunded(usage[cur[r]], Req(r)) \in Usage
    BY <2>2, ReqType, UsageArithmetic DEF RedisTypeOK
  <2>4. RedisTypeOK'
    BY <1>17, <2>2, <2>3 DEF RollbackResources, RedisTypeOK
  <2>5. (granted \in [Nodes -> SUBSET Requests])'
    BY <1>17, <2>2 DEF RollbackResources
  <2> QED
    BY <1>17, <1>b, <1>c, <2>1, <2>4, <2>5 DEF RollbackResources
<1>18. CASE Sync
  <2>1. LocalsTypeOK' /\ LocalsAtHand'
    BY <1>18, <1>d DEF Sync, SyncList, SyncRead, SyncMerge
  <2>2. ApiTypeOK' /\ (granted \in [Nodes -> SUBSET Requests])'
    BY <1>18, <1>b, <1>e DEF Sync, SyncList, SyncRead, SyncMerge
  <2>3. SyncerTypeOK'
    BY <1>18, NewUsageType, ReservationAssumption
       DEF Sync, SyncList, SyncRead, SyncMerge, SyncerTypeOK, ApiTypeOK, RedisTypeOK
  <2>4. RedisTypeOK'
    <3>1. CASE UNCHANGED redis
      BY <3>1, <1>a
    <3>2. CASE SyncMerge
      <4>1. syncCur \in Nodes /\ listed[syncCur] \in View /\ peek \in Usage
        BY <3>2, ReservationAssumption DEF SyncMerge, SyncerTypeOK
      <4>2. CASE MergeNodeState(syncCur)
        BY <3>2, <4>1, <4>2 DEF SyncMerge, MergeNodeState, RedisTypeOK
      <4>3. CASE UNCHANGED <<known, meta, usage>>
        BY <3>2, <4>3 DEF SyncMerge, RedisTypeOK
      <4> QED
        BY <3>2, <4>2, <4>3 DEF SyncMerge
    <3> QED
      BY <1>18, <3>1, <3>2 DEF Sync, SyncList, SyncRead
  <2> QED
    BY <2>1, <2>2, <2>3, <2>4
<1>19. ASSUME NEW n \in Nodes, LockExpire(n) PROVE TypeOK'
  <2>1. RedisTypeOK'
    BY <1>19 DEF LockExpire, RedisTypeOK
  <2> QED
    BY <1>19, <2>1, <1>b, <1>c, <1>d, <1>e DEF LockExpire
<1>20. ASSUME NEW n \in Nodes, NodeChange(n) PROVE TypeOK'
  <2>1. ApiTypeOK'
    <3>1. changes + 1 \in 0..MaxChanges
      BY <1>20, ReservationAssumption DEF NodeChange, ApiTypeOK
    <3>2. view' \in [Nodes -> Views]
      BY <1>20 DEF NodeChange, ApiTypeOK
    <3> QED
      BY <1>20, <3>1, <3>2 DEF NodeChange, ApiTypeOK
  <2> QED
    BY <1>20, <2>1, <1>a, <1>c, <1>d, <1>e DEF NodeChange
<1>21. ASSUME NEW r \in Requests, Cancel(r) PROVE TypeOK'
  <2>1. LocalsTypeOK' /\ LocalsAtHand'
    BY <1>21 DEF Cancel, LocalsTypeOK, LocalsAtHand
  <2> QED
    BY <1>21, <2>1, <1>a, <1>b, <1>c, <1>e DEF Cancel
<1>22. ASSUME NEW p \in Pods, BindElsewhere(p) \/ DeletePod(p) PROVE TypeOK'
  <2>1. ApiTypeOK'
    BY <1>22 DEF BindElsewhere, DeletePod, BindAt, ApiTypeOK
  <2> QED
    BY <1>22, <2>1, <1>a, <1>c, <1>d, <1>e DEF BindElsewhere, DeletePod
<1>23. CASE Crash
  <2>1. LocalsTypeOK'
    BY <1>23, NewUsageType DEF Crash, LocalsTypeOK, Pcs
  <2>2. LocalsAtHand'
    BY <1>23 DEF Crash, LocalsTypeOK, LocalsAtHand, LockPcs, ClaimPcs
  <2>3. SyncerTypeOK'
    BY <1>23, NewUsageType, ReservationAssumption DEF Crash, SyncerTypeOK
  <2> QED
    BY <1>23, <2>1, <2>2, <2>3, <1>a, <1>b, <1>e DEF Crash
<1>24. CASE UNCHANGED vars
  BY <1>24, <1>a, <1>b, <1>c, <1>d, <1>e DEF vars
<1> QED
  BY <1>1, <1>2, <1>3, <1>4, <1>5, <1>6, <1>7, <1>8, <1>9, <1>10, <1>11, <1>12,
     <1>13, <1>14, <1>15, <1>16, <1>17, <1>18, <1>19, <1>20, <1>21, <1>22, <1>23,
     <1>24
     DEF Next, Handler, Environment

(* Every variable keeps its type, and every handler finds the node it is   *)
(* about to act on: the fallback and the binds always have a target.       *)
THEOREM TypeCorrect == Spec => []TypeOK
BY TypeInit, TypeStep, PTL DEF Spec

--------------------------------------------------------------------------------
(* The inductive invariant.  Most steps leave alone what the ledger is     *)
(* about, and differ in what they do to the locals of one request: they    *)
(* return, move on to the next node, move the program counter, or leave    *)
(* even that.                                                              *)
Quiet == UNCHANGED <<known, usage, granted, syncCur, peek>>

LEMMA LedgerQuiet ==
  ASSUME LedgerExact, NoOvercommit, UNCHANGED <<usage, granted>>
  PROVE  LedgerExact' /\ NoOvercommit'
BY DEF LedgerExact, NoOvercommit, Taken, Asked

(* Snapshots stay faithful when those still in use are kept or taken       *)
(* afresh, and every record is kept or moves to a higher version.          *)
LEMMA SnapStep ==
  ASSUME SnapFaithful, TypeOK, TypeOK',
         \A q \in Requests : \A m \in todo'[q] :
           \/ snap'[q][m] = usage'[m]
           \/ /\ m \in todo[q] /\ snap'[q][m] = snap[q][m]
              /\ usage'[m] = usage[m] \/ usage'[m].version > usage[m].version
  PROVE  SnapFaithful'
<1> SUFFICES ASSUME NEW q \in Requests, NEW m \in todo'[q]
             PROVE  /\ snap'[q][m].version <= usage'[m].version
                    /\ snap'[q][m].version = usage'[m].version
                         => snap'[q][m] = usage'[m]
  BY DEF SnapFaithful
<1>1. m \in Nodes
  BY DEF TypeOK, LocalsTypeOK
<1>2. /\ usage[m].version \in Nat /\ usage'[m].version \in Nat
      /\ snap[q][m].version \in Nat
  BY <1>1 DEF TypeOK, LocalsTypeOK, RedisTypeOK, Usage
<1>3. CASE snap'[q][m] = usage'[m]
  BY <1>2, <1>3
<1>4. CASE /\ m \in todo[q] /\ snap'[q][m] = snap[q][m]
           /\ usage'[m] = usage[m] \/ usage'[m].version > usage[m].version
  <2>1. /\ snap[q][m].version <= usage[m].version
        /\ snap[q][m].version = usage[m].version => snap[q][m] = usage[m]
    BY <1>4 DEF SnapFaithful
  <2> QED
    BY <1>2, <1>4, <2>1
<1> QED
  BY <1>3, <1>4

LEMMA QuietReturn ==
  ASSUME Inv, TypeOK', NEW r \in Requests, Return(r), Quiet
  PROVE  Inv'
<1> USE DEF Inv, TypeOK, LocalsTypeOK
<1>1. /\ pc'[r] = "done" /\ todo'[r] = {} /\ unread'[r] = {}
      /\ \A q \in Requests \ {r} :
           /\ pc'[q] = pc[q] /\ todo'[q] = todo[q] /\ unread'[q] = unread[q]
           /\ cur'[q] = cur[q] /\ snap'[q] = snap[q]
  BY DEF Return, Goto
<1>2. UnknownUnused'
  BY <1>1 DEF UnknownUnused, Quiet
<1>3. SnapFaithful'
  <2>1. ASSUME NEW q \in Requests, NEW n \in todo'[q]
        PROVE  n \in todo[q] /\ snap'[q][n] = snap[q][n] /\ usage'[n] = usage[n]
    BY <1>1 DEF Quiet
  <2> QED
    BY <2>1, SnapStep
<1>4. GrantedTried'
  BY <1>1 DEF GrantedTried, Quiet, TryPcs
<1>5. ClaimsCounted'
  BY <1>1 DEF ClaimsCounted, Quiet, ClaimPcs
<1> QED
  BY <1>2, <1>3, <1>4, <1>5, LedgerQuiet DEF Quiet

LEMMA QuietNext ==
  ASSUME Inv, TypeOK', NEW r \in Requests, NEW n, NextNode(r, n), Quiet,
         pc[r] \in TryPcs, pc[r] = "next" \/ n = cur[r]
  PROVE  Inv'
<1> USE DEF Inv, TypeOK, LocalsTypeOK
<1>1. /\ pc'[r] = "next" /\ todo'[r] = todo[r] \ {n}
      /\ unread' = unread /\ snap' = snap
      /\ \A q \in Requests \ {r} :
           pc'[q] = pc[q] /\ todo'[q] = todo[q] /\ cur'[q] = cur[q]
  BY DEF NextNode, Goto
<1>2. UnknownUnused'
  BY <1>1 DEF UnknownUnused, Quiet
<1>3. SnapFaithful'
  BY <1>1 DEF SnapFaithful, Quiet
<1>4. GrantedTried'
  <2> SUFFICES ASSUME NEW m \in Nodes, NEW q \in granted[m]
               PROVE  /\ pc'[q] \in TryPcs
                      /\ m \in todo'[q] => /\ cur'[q] = m
                                           /\ pc'[q] \in ClaimPcs \cup {"giveUp"}
    BY DEF GrantedTried, Quiet
  <2>1. q \in Requests
    OBVIOUS
  <2>2. CASE q # r
    BY <1>1, <2>1, <2>2 DEF GrantedTried
  <2>3. CASE q = r
    <3>1. "next" \in TryPcs /\ "next" \notin ClaimPcs \cup {"giveUp"}
      BY DEF TryPcs, ClaimPcs
    <3>2. m \in todo[r] => cur[r] = m /\ pc[r] # "next"
      BY <2>3, <3>1 DEF GrantedTried
    <3> QED
      BY <1>1, <2>3, <3>1, <3>2
  <2> QED
    BY <2>2, <2>3
<1>5. ClaimsCounted'
  BY <1>1 DEF ClaimsCounted, Quiet, ClaimPcs
<1> QED
  BY <1>2, <1>3, <1>4, <1>5, LedgerQuiet DEF Quiet

LEMMA QuietGoto ==
  ASSUME Inv, TypeOK', NEW r \in Requests, NEW label, Goto(r, label),
         UNCHANGED locals, Quiet,
         pc[r] \in TryPcs => label \in TryPcs,
         label \in ClaimPcs => pc[r] \in ClaimPcs,
         pc[r] \in ClaimPcs \cup {"giveUp"} => label \in ClaimPcs \cup {"giveUp"}
  PROVE  Inv'
<1> USE DEF Inv, TypeOK, LocalsTypeOK
<1>1. /\ pc'[r] = label
      /\ \A q \in Requests \ {r} : pc'[q] = pc[q]
      /\ UNCHANGED <<todo, unread, snap, cur>>
  BY DEF Goto, locals
<1>2. UnknownUnused'
  BY <1>1 DEF UnknownUnused, Quiet
<1>3. SnapFaithful'
  BY <1>1 DEF SnapFaithful, Quiet
<1>4. GrantedTried'
  BY <1>1 DEF GrantedTried, Quiet
<1>5. ClaimsCounted'
  BY <1>1 DEF ClaimsCounted, Quiet
<1> QED
  BY <1>2, <1>3, <1>4, <1>5, LedgerQuiet DEF Quiet

LEMMA QuietElsewhere ==
  ASSUME Inv, TypeOK', UNCHANGED <<pc, todo, unread, snap, cur>>, Quiet
  PROVE  Inv'
<1>1. UnknownUnused' /\ SnapFaithful'
  BY DEF Inv, UnknownUnused, SnapFaithful, Quiet
<1>2. GrantedTried' /\ ClaimsCounted'
  BY DEF Inv, GrantedTried, ClaimsCounted, Quiet
<1> QED
  BY <1>1, <1>2, LedgerQuiet DEF Inv, Quiet

(* What a reservation that is granted does to the ledger: the script's own *)
(* check of the room is a check against what was really granted.           *)
LEMMA LedgerCharged ==
  ASSUME TypeOK, LedgerExact, NoOvercommit,
         NEW r \in Requests, NEW n \in Nodes, r \notin granted[n],
         HasRoom(usage[n], n, Req(r)),
         usage' = [usage EXCEPT ![n] = Charged(@, Req(r))],
         granted' = [granted EXCEPT ![n] = @ \cup {r}]
  PROVE  LedgerExact' /\ NoOvercommit'
<1> USE DEF TypeOK, RedisTypeOK
<1>1. /\ granted[n] \subseteq Requests /\ IsFiniteSet(granted[n])
      /\ Cardinality(granted[n]) \in Nat
  BY ReservationAssumption, FS_Subset, FS_CardinalityType
<1>2. Cardinality(granted[n] \cup {r}) = Cardinality(granted[n]) + 1
  BY <1>1, FS_AddElement
<1>3. ASSUME NEW x \in Resources
      PROVE  /\ Weight(granted[n] \cup {r}, Asked(x)) = Taken(n, x) + Req(r)[x]
             /\ Req(r)[x] \in Nat /\ usage[n].used[x] = Taken(n, x)
  <2>1. \A q \in Requests : Asked(x)[q] = Req(q)[x] /\ Req(q)[x] \in Nat
    BY ReqType DEF Asked, Amounts
  <2>2. \A q \in granted[n] \cup {r} : Asked(x)[q] \in Nat
    BY <1>1, <2>1
  <2>3. Weight(granted[n] \cup {r}, Asked(x)) = Weight(granted[n], Asked(x)) + Asked(x)[r]
    BY <1>1, <2>2, WeightAdd
  <2> QED
    BY <2>1, <2>3 DEF Taken, LedgerExact
<1>4. /\ granted'[n] = granted[n] \cup {r}
      /\ usage'[n] = Charged(usage[n], Req(r))
      /\ \A m \in Nodes \ {n} : granted'[m] = granted[m] /\ usage'[m] = usage[m]
  OBVIOUS
<1>5. \A x \in Resources : Asked(x)' = Asked(x)
  BY DEF Asked
<1>6. LedgerExact'
  <2>1. ASSUME NEW m \in Nodes, m # n
        PROVE  /\ \A x \in Resources : usage'[m].used[x] = Taken(m, x)'
               /\ usage'[m].pods = Cardinality(granted'[m])
    BY <1>4, <2>1 DEF LedgerExact, Taken, Asked
  <2>2. \A x \in Resources : usage'[n].used[x] = Taken(n, x)'
    BY <1>3, <1>4, <1>5 DEF Taken, Charged
  <2>3. usage'[n].pods = Cardinality(granted'[n])
    BY <1>2, <1>4 DEF LedgerExact, Charged
  <2> QED
    BY <2>1, <2>2, <2>3 DEF LedgerExact
<1>7. NoOvercommit'
  <2>1. ASSUME NEW m \in Nodes, m # n
        PROVE  /\ \A x \in Resources : Taken(m, x)' <= Alloc[m][x]
               /\ Cardinality(granted'[m]) <= PodsAlloc[m]
    BY <1>4, <2>1 DEF NoOvercommit, Taken, Asked
  <2>2. ASSUME NEW x \in Resources PROVE Taken(n, x)' <= Alloc[n][x]
    <3>1. usage[n].used[x] + Req(r)[x] <= Alloc[n][x]
      BY DEF HasRoom
    <3>2. Taken(n, x)' = Weight(granted[n] \cup {r}, Asked(x))
      BY <1>4, <1>5 DEF Taken
    <3> QED
      BY <1>3, <3>1, <3>2
  <2>3. Cardinality(granted'[n]) <= PodsAlloc[n]
    <3>1. Cardinality(granted[n]) < PodsAlloc[n]
      BY DEF HasRoom, LedgerExact
    <3>2. PodsAlloc[n] \in Nat
      BY LedgerAssumption
    <3> QED
      BY <1>1, <1>2, <1>4, <3>1, <3>2
  <2> QED
    BY <2>1, <2>2, <2>3 DEF NoOvercommit
<1> QED
  BY <1>6, <1>7

(* A rollback takes back what this request was granted, and nothing stops  *)
(* at zero: the counters hold at least its share.                          *)
LEMMA LedgerRefunded ==
  ASSUME TypeOK, LedgerExact, NoOvercommit,
         NEW r \in Requests, NEW n \in Nodes, r \in granted[n],
         usage' = [usage EXCEPT ![n] = Refunded(@, Req(r))],
         granted' = [granted EXCEPT ![n] = @ \ {r}]
  PROVE  LedgerExact' /\ NoOvercommit'
<1> USE DEF TypeOK, RedisTypeOK
<1>1. /\ granted[n] \subseteq Requests /\ IsFiniteSet(granted[n])
      /\ Cardinality(granted[n]) \in Nat
  BY ReservationAssumption, FS_Subset, FS_CardinalityType
<1>2. /\ Cardinality(granted[n] \ {r}) = Cardinality(granted[n]) - 1
      /\ Cardinality(granted[n] \ {r}) \in Nat
  BY <1>1, FS_RemoveElement, FS_CardinalityType
<1>3. ASSUME NEW x \in Resources
      PROVE  /\ Weight(granted[n] \ {r}, Asked(x)) = Taken(n, x) - Req(r)[x]
             /\ Taken(n, x) >= Req(r)[x] /\ Taken(n, x) \in Nat
             /\ Req(r)[x] \in Nat /\ usage[n].used[x] = Taken(n, x)
  <2>1. \A q \in Requests : Asked(x)[q] = Req(q)[x] /\ Req(q)[x] \in Nat
    BY ReqType DEF Asked, Amounts
  <2>2. \A q \in granted[n] : Asked(x)[q] \in Nat
    BY <1>1, <2>1
  <2>3. /\ Weight(granted[n] \ {r}, Asked(x)) = Weight(granted[n], Asked(x)) - Asked(x)[r]
        /\ Weight(granted[n], Asked(x)) >= Asked(x)[r]
        /\ Weight(granted[n], Asked(x)) \in Nat
    BY <1>1, <2>2, WeightRemove, TokensFinite
  <2> QED
    BY <2>1, <2>3 DEF Taken, LedgerExact
<1>4. /\ granted'[n] = granted[n] \ {r}
      /\ usage'[n] = Refunded(usage[n], Req(r))
      /\ \A m \in Nodes \ {n} : granted'[m] = granted[m] /\ usage'[m] = usage[m]
  OBVIOUS
<1>5. \A x \in Resources : Asked(x)' = Asked(x)
  BY DEF Asked
<1>6. ASSUME NEW m \in Nodes, m # n
      PROVE  /\ \A x \in Resources : /\ usage'[m].used[x] = Taken(m, x)'
                                     /\ Taken(m, x)' <= Alloc[m][x]
             /\ usage'[m].pods = Cardinality(granted'[m])
             /\ Cardinality(granted'[m]) <= PodsAlloc[m]
  BY <1>4, <1>6 DEF LedgerExact, NoOvercommit, Taken, Asked
<1>7. ASSUME NEW x \in Resources
      PROVE  usage'[n].used[x] = Taken(n, x)' /\ Taken(n, x)' <= Alloc[n][x]
  <2>1. usage'[n].used[x] = AtLeastZero(usage[n].used[x], Req(r)[x])
    BY <1>4 DEF Refunded
  <2>2. AtLeastZero(usage[n].used[x], Req(r)[x]) = Taken(n, x) - Req(r)[x]
    BY <1>3 DEF AtLeastZero
  <2>3. Taken(n, x)' = Taken(n, x) - Req(r)[x]
    BY <1>3, <1>4, <1>5 DEF Taken
  <2>4. Taken(n, x) <= Alloc[n][x] /\ Alloc[n][x] \in Nat
    BY LedgerAssumption DEF NoOvercommit, Amounts
  <2> QED
    BY <1>3, <2>1, <2>2, <2>3, <2>4
<1>8. usage'[n].pods = Cardinality(granted'[n]) /\ Cardinality(granted'[n]) <= PodsAlloc[n]
  <2>1. usage'[n].pods = AtLeastZero(usage[n].pods, 1)
    BY <1>4 DEF Refunded
  <2>2. usage[n].pods = Cardinality(granted[n]) /\ Cardinality(granted[n]) <= PodsAlloc[n]
    BY DEF LedgerExact, NoOvercommit
  <2>3. PodsAlloc[n] \in Nat
    BY LedgerAssumption
  <2>4. AtLeastZero(usage[n].pods, 1) = Cardinality(granted[n]) - 1
    BY <1>1, <1>2, <2>2 DEF AtLeastZero
  <2> QED
    BY <1>1, <1>2, <1>4, <2>1, <2>2, <2>3, <2>4
<1>9. LedgerExact'
  BY <1>6, <1>7, <1>8 DEF LedgerExact
<1>10. NoOvercommit'
  BY <1>6, <1>7, <1>8 DEF NoOvercommit
<1> QED
  BY <1>9, <1>10

LEMMA InvInit == Init => Inv
<1> SUFFICES ASSUME Init PROVE Inv
  OBVIOUS
<1>1. TypeOK
  BY TypeInit
<1>2. UnknownUnused /\ SnapFaithful
  BY DEF Init, UnknownUnused, SnapFaithful
<1>3. GrantedTried /\ ClaimsCounted
  BY DEF Init, GrantedTried, ClaimsCounted, ClaimPcs
<1>4. LedgerExact
  <2>1. ASSUME NEW n \in Nodes
        PROVE  /\ \A x \in Resources : usage[n].used[x] = Taken(n, x)
               /\ usage[n].pods = Cardinality(granted[n])
    BY WeightEmpty, FS_EmptySet DEF Init, NewUsage, Taken
  <2> QED
    BY <2>1 DEF LedgerExact
<1>5. NoOvercommit
  <2>1. ASSUME NEW n \in Nodes
        PROVE  /\ \A x \in Resources : Taken(n, x) = 0 /\ Alloc[n][x] \in Nat
               /\ Cardinality(granted[n]) = 0 /\ PodsAlloc[n] \in Nat
    BY WeightEmpty, FS_EmptySet, LedgerAssumption DEF Init, Taken, Amounts
  <2>2. ASSUME NEW n \in Nodes, NEW x \in Resources PROVE Taken(n, x) <= Alloc[n][x]
    BY <2>1
  <2>3. ASSUME NEW n \in Nodes PROVE Cardinality(granted[n]) <= PodsAlloc[n]
    BY <2>1
  <2> QED
    BY <2>2, <2>3 DEF NoOvercommit
<1> QED
  BY <1>1, <1>2, <1>3, <1>4, <1>5 DEF Inv

LEMMA InvStep == Inv /\ [Next]_vars => Inv'
<1> SUFFICES ASSUME Inv, [Next]_vars PROVE Inv'
  OBVIOUS
<1>0. TypeOK /\ TypeOK'
  BY TypeStep DEF Inv
<1>a. UNCHANGED redis /\ UNCHANGED syncer /\ UNCHANGED granted => Quiet
  BY DEF redis, syncer, Quiet
<1>1. ASSUME NEW r \in Requests, Schedule(r) PROVE Inv'
  <2>1. Quiet
    BY <1>1, <1>a DEF Schedule
  <2>2. CASE Return(r)
    BY <1>0, <2>1, <2>2, QuietReturn
  <2>3. CASE ~Return(r)
    <3>1. /\ pc[r] = "idle" /\ UNCHANGED <<todo, unread, snap>>
          /\ \A q \in Requests \ {r} : pc'[q] = pc[q] /\ cur'[q] = cur[q]
          /\ pc'[r] \notin ClaimPcs
      BY <1>0, <1>1, <2>3
         DEF Schedule, Goto, TypeOK, LocalsTypeOK, ClaimPcs
    <3>2. UnknownUnused'
      BY <2>1, <3>1 DEF Inv, UnknownUnused, Quiet
    <3>3. SnapFaithful'
      BY <2>1, <3>1 DEF Inv, SnapFaithful, Quiet
    <3>4. GrantedTried'
      BY <1>0, <2>1, <3>1 DEF Inv, GrantedTried, Quiet, TypeOK, TryPcs, LockPcs, ClaimPcs
    <3>5. ClaimsCounted'
      BY <2>1, <3>1 DEF Inv, ClaimsCounted, Quiet
    <3> QED
      BY <1>0, <2>1, <3>2, <3>3, <3>4, <3>5, LedgerQuiet DEF Inv, Quiet
  <2> QED
    BY <2>2, <2>3
<1>2. ASSUME NEW r \in Requests, BindPodSimpleGet(r) \/ BindPodSimplePut(r) PROVE Inv'
  <2>1. Quiet /\ pc[r] \in BindPcs
    BY <1>2 DEF BindPodSimpleGet, BindPodSimplePut, Quiet, redis, syncer, BindPcs
  <2>2. CASE Return(r)
    BY <1>0, <2>1, <2>2, QuietReturn
  <2>3. CASE Goto(r, "fastPut") \/ Goto(r, "simplePut")
    <3>1. UNCHANGED locals
      BY <1>0, <1>2, <2>1, <2>3
         DEF BindPodSimpleGet, BindPodSimplePut, SimpleFailed, Return, Goto,
             TypeOK, LocalsTypeOK
    <3> QED
      BY <1>0, <2>1, <2>3, <3>1, QuietGoto DEF BindPcs, TryPcs, LockPcs, ClaimPcs
  <2>4. CASE /\ Goto(r, "intent") /\ cur' = [cur EXCEPT ![r] = None]
             /\ UNCHANGED <<unread, todo, snap>>
    <3>1. /\ pc'[r] = "intent" /\ pc[r] \notin TryPcs
          /\ \A q \in Requests \ {r} : pc'[q] = pc[q] /\ cur'[q] = cur[q]
      BY <1>0, <2>1, <2>4
         DEF Goto, TypeOK, LocalsTypeOK, BindPcs, TryPcs, LockPcs, ClaimPcs
    <3>2. UnknownUnused' /\ SnapFaithful'
      BY <2>1, <2>4 DEF Inv, UnknownUnused, SnapFaithful, Quiet
    <3>3. GrantedTried'
      BY <1>0, <2>1, <2>4, <3>1 DEF Inv, GrantedTried, Quiet, TypeOK
    <3>4. ClaimsCounted'
      BY <2>1, <3>1 DEF Inv, ClaimsCounted, Quiet, ClaimPcs
    <3> QED
      BY <1>0, <2>1, <3>2, <3>3, <3>4, LedgerQuiet DEF Inv, Quiet
  <2> QED
    BY <1>2, <2>2, <2>3, <2>4 DEF BindPodSimpleGet, BindPodSimplePut, SimpleFailed
<1>3. ASSUME NEW r \in Requests, ExtractIntent(r) PROVE Inv'
  <2>1. Quiet
    BY <1>3, <1>a DEF ExtractIntent
  <2>2. CASE UNCHANGED unread
    <3>1. Goto(r, "simpleGet") \/ Goto(r, "list")
      BY <1>3 DEF ExtractIntent
    <3>2. UNCHANGED locals /\ pc[r] = "intent"
      BY <1>3, <2>2 DEF ExtractIntent, locals
    <3> QED
      BY <1>0, <2>1, <3>1, <3>2, QuietGoto DEF TryPcs, LockPcs, ClaimPcs
  <2>3. CASE Goto(r, "list") /\ unread' = [unread EXCEPT ![r] = known]
    <3>1. /\ pc'[r] = "list" /\ pc[r] = "intent" /\ unread'[r] = known
          /\ UNCHANGED <<todo, snap, cur>>
          /\ \A q \in Requests \ {r} : pc'[q] = pc[q] /\ unread'[q] = unread[q]
      BY <1>0, <1>3, <2>3 DEF ExtractIntent, Goto, TypeOK, LocalsTypeOK
    <3>2. UnknownUnused'
      BY <2>1, <3>1 DEF Inv, UnknownUnused, Quiet
    <3>3. SnapFaithful'
      BY <2>1, <3>1 DEF Inv, SnapFaithful, Quiet
    <3>4. GrantedTried' /\ ClaimsCounted'
      BY <1>0, <2>1, <3>1
         DEF Inv, GrantedTried, ClaimsCounted, Quiet, TypeOK, TryPcs, LockPcs, ClaimPcs
    <3> QED
      BY <1>0, <2>1, <3>2, <3>3, <3>4, LedgerQuiet DEF Inv, Quiet
  <2> QED
    BY <1>3, <2>2, <2>3 DEF ExtractIntent
<1>4. ASSUME NEW r \in Requests, ReadNode(r) PROVE Inv'
  <2>1. Quiet /\ pc[r] = "list" /\ UNCHANGED <<pc, cur>>
    BY <1>4, <1>a DEF ReadNode
  <2>2. PICK n \in unread[r] :
          /\ unread' = [unread EXCEPT ![r] = @ \ {n}]
          /\ \/ /\ todo' = [todo EXCEPT ![r] = @ \cup {n}]
                /\ snap' = [snap EXCEPT ![r][n] = usage[n]]
             \/ UNCHANGED <<todo, snap>>
    BY <1>4 DEF ReadNode
  <2>3. /\ unread'[r] = unread[r] \ {n}
        /\ todo'[r] \subseteq todo[r] \cup {n}
        /\ \A q \in Requests \ {r} :
             unread'[q] = unread[q] /\ todo'[q] = todo[q] /\ snap'[q] = snap[q]
    BY <1>0, <2>2 DEF TypeOK, LocalsTypeOK
  <2>4. UnknownUnused'
    BY <2>1, <2>2, <2>3 DEF Inv, UnknownUnused, Quiet
  <2>5. SnapFaithful'
    <3>1. n \in Nodes
      BY <1>0 DEF TypeOK, LocalsTypeOK
    <3>2. ASSUME NEW q \in Requests, NEW m \in todo'[q]
          PROVE  \/ snap'[q][m] = usage'[m]
                 \/ m \in todo[q] /\ snap'[q][m] = snap[q][m] /\ usage'[m] = usage[m]
      BY <1>0, <2>1, <2>2, <2>3, <3>1 DEF Quiet, TypeOK, LocalsTypeOK
    <3> QED
      BY <1>0, <3>2, SnapStep DEF Inv
  <2>6. GrantedTried'
    BY <1>0, <2>1, <2>3 DEF Inv, GrantedTried, Quiet, TypeOK, TryPcs, LockPcs, ClaimPcs
  <2>7. ClaimsCounted'
    BY <2>1 DEF Inv, ClaimsCounted, Quiet
  <2> QED
    BY <1>0, <2>1, <2>4, <2>5, <2>6, <2>7, LedgerQuiet DEF Inv, Quiet
<1>5. ASSUME NEW r \in Requests, FilterDone(r) \/ Recheck(r) \/ ReserveRefused(r)
      PROVE  Inv'
  <2>1. Quiet /\ UNCHANGED locals
    BY <1>5, <1>a DEF FilterDone, Recheck, ReserveRefused
  <2>2. \/ pc[r] = "list" /\ (Goto(r, "simpleGet") \/ Goto(r, "getPod"))
        \/ pc[r] \in {"recheck", "reserve"} /\ (Goto(r, "reserve") \/ Goto(r, "giveUp"))
    BY <1>5 DEF FilterDone, Recheck, ReserveRefused
  <2> QED
    BY <1>0, <2>1, <2>2, QuietGoto DEF TryPcs, LockPcs, ClaimPcs
<1>6. ASSUME NEW r \in Requests, GetPod(r) PROVE Inv'
  <2>1. Quiet /\ pc[r] = "getPod"
    BY <1>6, <1>a DEF GetPod
  <2>2. CASE Return(r)
    BY <1>0, <2>1, <2>2, QuietReturn
  <2>3. CASE (Goto(r, "next") \/ Goto(r, "simpleGet")) /\ UNCHANGED locals
    BY <1>0, <2>1, <2>3, QuietGoto DEF TryPcs, LockPcs, ClaimPcs
  <2> QED
    BY <1>6, <2>2, <2>3 DEF GetPod
<1>7. ASSUME NEW r \in Requests, LockNode(r) PROVE Inv'
  <2>1. Quiet /\ pc[r] = "next"
    BY <1>7 DEF LockNode, Quiet, syncer
  <2>2. PICK n \in todo[r] :
          \/ /\ Goto(r, "recheck")
             /\ cur' = [cur EXCEPT ![r] = n]
             /\ UNCHANGED <<unread, todo, snap, valid, first, cancelled>>
          \/ NextNode(r, n)
    BY <1>7 DEF LockNode
  <2>3. CASE NextNode(r, n)
    BY <1>0, <2>1, <2>3, QuietNext DEF TryPcs
  <2>4. CASE ~NextNode(r, n)
    <3>1. /\ pc'[r] = "recheck" /\ UNCHANGED <<unread, todo, snap>>
          /\ \A q \in Requests \ {r} : pc'[q] = pc[q] /\ cur'[q] = cur[q]
      BY <1>0, <2>2, <2>4 DEF Goto, TypeOK, LocalsTypeOK
    <3>2. UnknownUnused' /\ SnapFaithful'
      BY <2>1, <3>1 DEF Inv, UnknownUnused, SnapFaithful, Quiet
    <3>3. GrantedTried'
      BY <1>0, <2>1, <3>1 DEF Inv, GrantedTried, Quiet, TypeOK, TryPcs, LockPcs, ClaimPcs
    <3>4. ClaimsCounted'
      BY <2>1, <3>1 DEF Inv, ClaimsCounted, Quiet, ClaimPcs
    <3> QED
      BY <1>0, <2>1, <3>2, <3>3, <3>4, LedgerQuiet DEF Inv, Quiet
  <2> QED
    BY <2>3, <2>4
<1>8. ASSUME NEW r \in Requests, Exhausted(r) PROVE Inv'
  BY <1>0, <1>8, <1>a, QuietReturn DEF Exhausted
<1>9. ASSUME NEW r \in Requests, ReserveResources(r) PROVE Inv'
  <2> DEFINE n == cur[r]
  <2>1. n \in todo[r] /\ n \in Nodes /\ r \notin granted[n]
    BY <1>0, <1>9
       DEF ReserveResources, TypeOK, LocalsTypeOK, LocalsAtHand, LockPcs,
           Inv, GrantedTried, ClaimPcs
  <2>2. /\ usage' = [usage EXCEPT ![n] = Charged(@, Req(r))]
        /\ granted' = [granted EXCEPT ![n] = @ \cup {r}]
        /\ HasRoom(usage[n], n, Req(r))
        /\ UNCHANGED <<known, syncCur, peek, unread, todo, snap, cur>>
    BY <1>9 DEF ReserveResources, ScriptAccepts, syncer, locals
  <2>3. /\ pc[r] = "reserve" /\ pc'[r] \in {"release", "giveUp"}
        /\ \A q \in Requests \ {r} : pc'[q] = pc[q]
    BY <1>0, <1>9 DEF ReserveResources, Goto, TypeOK, LocalsTypeOK
  <2>4. LedgerExact' /\ NoOvercommit'
    BY <1>0, <2>1, <2>2, LedgerCharged DEF Inv
  <2>5. n \in known
    BY <2>1 DEF Inv, UnknownUnused
  <2>6. UnknownUnused'
    BY <1>0, <2>1, <2>2, <2>5 DEF Inv, UnknownUnused, TypeOK, RedisTypeOK
  <2>7. SnapFaithful'
    <3>1. usage'[n].version = usage[n].version + 1 /\ usage[n].version \in Nat
      BY <1>0, <2>1, <2>2 DEF Charged, TypeOK, RedisTypeOK, Usage
    <3>2. ASSUME NEW m \in Nodes
          PROVE  usage'[m] = usage[m] \/ usage'[m].version > usage[m].version
      BY <1>0, <2>2, <3>1 DEF TypeOK, RedisTypeOK
    <3> QED
      BY <1>0, <2>2, <3>2, SnapStep DEF Inv, TypeOK, LocalsTypeOK
  <2>8. GrantedTried'
    <3>1. \A m \in Nodes : granted'[m] \subseteq granted[m] \cup {r} /\ (m # n => granted'[m] = granted[m])
      BY <1>0, <2>2 DEF TypeOK
    <3> QED
      BY <1>0, <2>2, <2>3, <3>1 DEF Inv, GrantedTried, TypeOK, TryPcs, LockPcs, ClaimPcs
  <2>9. ClaimsCounted'
    <3>1. \A m \in Nodes : granted[m] \subseteq granted'[m]
      BY <1>0, <2>2 DEF TypeOK
    <3>2. r \in granted'[n]
      BY <1>0, <2>1, <2>2 DEF TypeOK
    <3> QED
      BY <2>1, <2>2, <2>3, <3>1, <3>2 DEF Inv, ClaimsCounted
  <2> QED
    BY <1>0, <2>4, <2>6, <2>7, <2>8, <2>9 DEF Inv
<1>10. ASSUME NEW r \in Requests, GiveUp(r) PROVE Inv'
  BY <1>0, <1>10, QuietNext DEF GiveUp, Quiet, syncer, TryPcs, LockPcs
<1>11. ASSUME NEW r \in Requests, Release(r) PROVE Inv'
  <2>1. Quiet /\ UNCHANGED locals /\ pc[r] = "release"
    BY <1>11 DEF Release, Quiet, syncer
  <2>2. Goto(r, "bindGet") \/ Goto(r, "rollback")
    BY <1>11 DEF Release
  <2> QED
    BY <1>0, <2>1, <2>2, QuietGoto DEF TryPcs, ClaimPcs
<1>12. ASSUME NEW r \in Requests, BindPodGet(r) \/ BindPodPut(r) PROVE Inv'
  <2>1. Quiet /\ pc[r] \in ClaimPcs
    BY <1>12 DEF BindPodGet, BindPodPut, Quiet, redis, syncer, ClaimPcs
  <2>2. CASE Return(r)
    BY <1>0, <2>1, <2>2, QuietReturn
  <2>3. CASE (Goto(r, "bindPut") \/ Goto(r, "rollback")) /\ UNCHANGED locals
    BY <1>0, <2>1, <2>3, QuietGoto DEF TryPcs, ClaimPcs
  <2> QED
    BY <1>12, <2>2, <2>3 DEF BindPodGet, BindPodPut
<1>13. ASSUME NEW r \in Requests, RollbackResources(r) PROVE Inv'
  <2> DEFINE n == cur[r]
  <2>1. /\ NextNode(r, n) /\ pc[r] = "rollback"
        /\ UNCHANGED <<known, syncCur, peek>>
    BY <1>13 DEF RollbackResources, syncer
  <2>2. CASE UNCHANGED <<usage, granted>>
    BY <1>0, <2>1, <2>2, QuietNext DEF Quiet, TryPcs, ClaimPcs
  <2>3. CASE /\ usage' = [usage EXCEPT ![n] = Refunded(@, Req(r))]
             /\ granted' = [granted EXCEPT ![n] = @ \ {r}]
    <3>1. n \in Nodes /\ r \in granted[n] /\ n \in todo[r]
      BY <1>0, <2>1 DEF Inv, ClaimsCounted, TypeOK, LocalsAtHand, ClaimPcs
    <3>2. /\ pc'[r] = "next" /\ todo'[r] = todo[r] \ {n}
          /\ UNCHANGED <<unread, snap>>
          /\ \A q \in Requests \ {r} :
               pc'[q] = pc[q] /\ todo'[q] = todo[q] /\ cur'[q] = cur[q]
      BY <1>0, <2>1 DEF NextNode, Goto, TypeOK, LocalsTypeOK
    <3>3. LedgerExact' /\ NoOvercommit'
      BY <1>0, <2>3, <3>1, LedgerRefunded DEF Inv
    <3>4. UnknownUnused'
      BY <1>0, <2>1, <2>3, <3>1, <3>2 DEF Inv, UnknownUnused, TypeOK, RedisTypeOK
    <3>5. SnapFaithful'
      <4>1. usage'[n].version = usage[n].version + 1 /\ usage[n].version \in Nat
        BY <1>0, <2>3, <3>1 DEF Refunded, TypeOK, RedisTypeOK, Usage
      <4>2. ASSUME NEW m \in Nodes
            PROVE  usage'[m] = usage[m] \/ usage'[m].version > usage[m].version
        BY <1>0, <2>3, <4>1 DEF TypeOK, RedisTypeOK
      <4>3. \A q \in Requests : todo'[q] \subseteq todo[q] /\ todo[q] \subseteq Nodes
        BY <1>0, <3>2 DEF TypeOK, LocalsTypeOK
      <4> QED
        BY <1>0, <3>2, <4>2, <4>3, SnapStep DEF Inv
    <3>6. /\ \A m \in Nodes : granted'[m] \subseteq granted[m]
          /\ \A m \in Nodes : granted[m] \ {r} \subseteq granted'[m]
          /\ r \notin granted'[n]
      BY <1>0, <2>3, <3>1 DEF TypeOK
    <3>7. GrantedTried'
      <4> SUFFICES ASSUME NEW m \in Nodes, NEW q \in granted'[m]
                   PROVE  /\ pc'[q] \in TryPcs
                          /\ m \in todo'[q] => /\ cur'[q] = m
                                               /\ pc'[q] \in ClaimPcs \cup {"giveUp"}
        BY DEF GrantedTried
      <4>1. q \in granted[m] /\ q \in Requests
        BY <1>0, <3>6 DEF TypeOK
      <4>2. CASE q # r
        BY <3>2, <4>1, <4>2 DEF Inv, GrantedTried
      <4>3. CASE q = r
        <5>1. m \in todo[r] => n = m
          BY <4>1, <4>3 DEF Inv, GrantedTried
        <5>2. pc'[q] \in TryPcs
          BY <3>2, <4>3 DEF TryPcs
        <5> QED
          BY <3>2, <4>3, <5>1, <5>2
      <4> QED
        BY <4>2, <4>3
    <3>8. ClaimsCounted'
      BY <3>2, <3>6 DEF Inv, ClaimsCounted, ClaimPcs
    <3> QED
      BY <1>0, <3>3, <3>4, <3>5, <3>7, <3>8 DEF Inv
  <2> QED
    BY <1>13, <2>2, <2>3 DEF RollbackResources
<1>14. CASE SyncList
  BY <1>0, <1>14, QuietElsewhere DEF SyncList, Quiet, redis, locals
<1>15. ASSUME NEW n \in Nodes, SyncRead(n) PROVE Inv'
  <2>1. /\ UNCHANGED <<known, usage, granted, pc, todo, unread, snap, cur>>
        /\ syncCur' = n /\ (n \notin known => peek' = NewUsage)
    BY <1>15 DEF SyncRead, redis, locals
  <2>2. UnknownUnused'
    BY <2>1 DEF Inv, UnknownUnused
  <2>3. SnapFaithful' /\ GrantedTried' /\ ClaimsCounted'
    BY <2>1 DEF Inv, SnapFaithful, GrantedTried, ClaimsCounted
  <2> QED
    BY <1>0, <2>1, <2>2, <2>3, LedgerQuiet DEF Inv
<1>16. CASE SyncMerge
  <2>1. /\ UNCHANGED <<granted, pc, todo, unread, snap, cur>>
        /\ syncCur \in Nodes /\ syncCur' = None
    BY <1>0, <1>16 DEF SyncMerge, locals, TypeOK, SyncerTypeOK
  <2>2. usage' = usage /\ known \subseteq known'
    <3>1. CASE syncCur \in known
      BY <1>16, <3>1 DEF SyncMerge, MergeNodeState
    <3>2. CASE syncCur \notin known
      <4>1. peek = NewUsage /\ usage[syncCur] = NewUsage
        BY <2>1, <3>2 DEF Inv, UnknownUnused
      <4>2. usage' = [usage EXCEPT ![syncCur] = peek] \/ usage' = usage
        BY <1>16, <3>2 DEF SyncMerge, MergeNodeState
      <4>3. usage' = usage
        BY <1>0, <4>1, <4>2 DEF TypeOK, RedisTypeOK
      <4> QED
        BY <1>16, <4>3 DEF SyncMerge, MergeNodeState
    <3> QED
      BY <3>1, <3>2
  <2>3. UnknownUnused'
    BY <2>1, <2>2, ReservationAssumption DEF Inv, UnknownUnused
  <2>4. SnapFaithful' /\ GrantedTried' /\ ClaimsCounted'
    BY <2>1, <2>2 DEF Inv, SnapFaithful, GrantedTried, ClaimsCounted
  <2> QED
    BY <1>0, <2>1, <2>2, <2>3, <2>4, LedgerQuiet DEF Inv
<1>17. ASSUME NEW n \in Nodes, LockExpire(n) \/ NodeChange(n) PROVE Inv'
  BY <1>0, <1>17, QuietElsewhere
     DEF LockExpire, NodeChange, Quiet, redis, syncer, locals
<1>18. ASSUME NEW r \in Requests, Cancel(r) PROVE Inv'
  BY <1>0, <1>18, QuietElsewhere DEF Cancel, Quiet, redis, syncer
<1>19. ASSUME NEW p \in Pods, BindElsewhere(p) \/ DeletePod(p) PROVE Inv'
  BY <1>0, <1>19, QuietElsewhere
     DEF BindElsewhere, DeletePod, Quiet, redis, syncer, locals
<1>20. CASE Crash
  <2>1. /\ UNCHANGED <<known, usage, granted>> /\ syncCur' = None
        /\ \A r \in Requests : /\ unread'[r] = {} /\ todo'[r] = {}
                               /\ pc'[r] \in {"idle", "done"}
                               /\ pc[r] # "idle" => pc'[r] = "done"
    BY <1>20 DEF Crash, redis
  <2>2. UnknownUnused' /\ SnapFaithful'
    BY <2>1, ReservationAssumption DEF Inv, UnknownUnused, SnapFaithful
  <2>3. GrantedTried' /\ ClaimsCounted'
    BY <1>0, <2>1
       DEF Inv, TypeOK, GrantedTried, ClaimsCounted, TryPcs, LockPcs, ClaimPcs
  <2> QED
    BY <1>0, <2>1, <2>2, <2>3, LedgerQuiet DEF Inv
<1>21. CASE UNCHANGED vars
  BY <1>0, <1>21, QuietElsewhere DEF vars, Quiet, redis, syncer, locals
<1> QED
  BY <1>1, <1>2, <1>3, <1>4, <1>5, <1>6, <1>7, <1>8, <1>9, <1>10, <1>11, <1>12,
     <1>13, <1>14, <1>15, <1>16, <1>17, <1>18, <1>19, <1>20, <1>21
     DEF Next, Handler, Sync, Environment

(* The invariant everything rests on: exact counters, claims that are      *)
(* really held, snapshots that are faithful or outdated by their version.  *)
THEOREM Invariance == Spec => []Inv
BY InvInit, InvStep, PTL DEF Spec

(* However the requests interleave, lose locks, roll back, get cancelled   *)
(* or crash, no node is promised beyond its allocatable resources.         *)
THEOREM NeverOvercommitted == Spec => []NoOvercommit
<1>1. Inv => NoOvercommit
  BY DEF Inv
<1> QED
  BY <1>1, Invariance, PTL

(* Every counter in Redis is the sum of the reservations that stand.       *)
THEOREM LedgerIsExact == Spec => []LedgerExact
<1>1. Inv => LedgerExact
  BY DEF Inv
<1> QED
  BY <1>1, Invariance, PTL

(* Nobody binds or rolls back without a reservation of its own.            *)
THEOREM ClaimsAreCounted == Spec => []ClaimsCounted
<1>1. Inv => ClaimsCounted
  BY DEF Inv
<1> QED
  BY <1>1, Invariance, PTL

--------------------------------------------------------------------------------
(* Action properties.                                                      *)
LEMMA GrantedChanges ==
  ASSUME [Next]_vars
  PROVE  \/ UNCHANGED granted
         \/ \E r \in Requests : ReserveResources(r)
         \/ \E r \in Requests : RollbackResources(r)
<1>1. ASSUME NEW r \in Requests, Schedule(r) \/ Handler(r)
      PROVE  UNCHANGED granted \/ ReserveResources(r) \/ RollbackResources(r)
  BY <1>1
     DEF Schedule, Handler, BindPodSimpleGet, BindPodSimplePut, ExtractIntent,
         ReadNode, FilterDone, GetPod, LockNode, Exhausted, Recheck, ReserveRefused,
         GiveUp, Release, BindPodGet, BindPodPut
<1>2. Sync => UNCHANGED granted
  BY DEF Sync, SyncList, SyncRead, SyncMerge
<1>3. Environment => UNCHANGED granted
  BY DEF Environment, LockExpire, NodeChange, Cancel, BindElsewhere, DeletePod, Crash
<1> QED
  BY <1>1, <1>2, <1>3 DEF Next, vars

(* A reservation is granted only on the very usage the request decided on. *)
THEOREM GrantsOnDecidedState == Spec => GrantOnDecidedState
<1>1. ASSUME Inv, [Next]_vars
      PROVE  \A n \in Nodes : \A r \in granted'[n] \ granted[n] : usage[n] = snap[r][n]
  <2> SUFFICES ASSUME NEW n \in Nodes, NEW r \in granted'[n] \ granted[n]
               PROVE  usage[n] = snap[r][n]
    OBVIOUS
  <2>1. PICK q \in Requests : ReserveResources(q)
    <3>1. ~UNCHANGED granted
      OBVIOUS
    <3>2. ASSUME NEW q \in Requests, RollbackResources(q)
          PROVE  granted'[n] \subseteq granted[n]
      <4>1. \/ granted' = [granted EXCEPT ![cur[q]] = @ \ {q}]
            \/ granted' = granted
        BY <3>2 DEF RollbackResources
      <4>2. granted \in [Nodes -> SUBSET Requests]
        BY <1>1 DEF Inv, TypeOK
      <4> QED
        BY <4>1, <4>2
    <3> QED
      BY <1>1, <3>1, <3>2, GrantedChanges
  <2>2. n = cur[q] /\ r = q
    BY <1>1, <2>1 DEF ReserveResources, Inv, TypeOK
  <2>3. n \in todo[r] /\ usage[n].version = snap[r][n].version
    BY <1>1, <2>1, <2>2
       DEF ReserveResources, ScriptAccepts, Inv, TypeOK, LocalsAtHand, LockPcs
  <2> QED
    BY <1>1, <2>1, <2>2, <2>3 DEF Inv, SnapFaithful
<1>2. Inv /\ [Next]_vars
        => [\A n \in Nodes : \A r \in granted'[n] \ granted[n] :
              usage[n] = snap[r][n]]_vars
  BY <1>1
<1> QED
  BY <1>2, Invariance, PTL DEF Spec, GrantOnDecidedState

(* Only its owner, or its TTL, ends a lock.                                *)
THEOREM UnlocksOnlyOwn == Spec => UnlockOnlyOwn
<1>1. ASSUME Inv, [Next]_vars, NEW n \in Nodes, NEW r \in Requests,
             lock[n] = r, lock'[n] # r
      PROVE  pc'[r] # pc[r] \/ pc' = pc
  <2> USE DEF Inv, TypeOK, RedisTypeOK, LocalsTypeOK
  <2>1. r # None
    BY ReservationAssumption
  <2>2. ASSUME NEW q \in Requests, LockNode(q) PROVE FALSE
    BY <1>1, <2>1, <2>2 DEF LockNode
  <2>3. ASSUME NEW q \in Requests, GiveUp(q) \/ Release(q) PROVE pc'[r] # pc[r]
    <3>1. q = r
      BY <1>1, <2>3 DEF GiveUp, Release, UnlockNode
    <3>2. pc'[q] # pc[q]
      BY <1>1, <2>3 DEF GiveUp, Release, NextNode, Goto
    <3> QED
      BY <3>1, <3>2
  <2>4. ASSUME NEW q \in Requests, Schedule(q) \/ Handler(q)
        PROVE  lock' = lock \/ LockNode(q) \/ GiveUp(q) \/ Release(q)
    BY <2>4
       DEF Schedule, Handler, BindPodSimpleGet, BindPodSimplePut, ExtractIntent,
           ReadNode, FilterDone, GetPod, Exhausted, Recheck, ReserveResources,
           ReserveRefused, BindPodGet, BindPodPut, RollbackResources, redis
  <2>5. Sync => pc' = pc
    BY DEF Sync, SyncList, SyncRead, SyncMerge
  <2>6. Environment => pc' = pc \/ lock' = lock
    BY DEF Environment, LockExpire, NodeChange, Cancel, BindElsewhere, DeletePod,
           Crash, redis
  <2> QED
    BY <1>1, <2>2, <2>3, <2>4, <2>5, <2>6 DEF Next, vars
<1>2. Inv /\ [Next]_vars
        => [\A n \in Nodes, r \in Requests :
              lock[n] = r /\ lock'[n] # r => pc'[r] # pc[r] \/ pc' = pc]_vars
  BY <1>1
<1> QED
  BY <1>2, Invariance, PTL DEF Spec, UnlockOnlyOwn

--------------------------------------------------------------------------------
(* Where reservations could be left behind: a rollback that fails or goes  *)
(* unsent, a bind whose reply is lost, a process that dies, a pod that     *)
(* somebody else binds or deletes, or two requests for one pod.            *)
AnswersArrive == Faults \subseteq {"api"}
OwnPods == \A q, r \in Requests : PodOf[q] = PodOf[r] => q = r

(* A pod is unbound until its request returns, and no client gives up: the *)
(* part of the argument that NothingStranded itself does not say.          *)
UnboundUntilDone ==
  \A r \in Requests :
    /\ ~cancelled[r]
    /\ pc[r] # "done" => bound[PodOf[r]] = Unbound

LEMMA StrandedInit == Init => UnboundUntilDone /\ NothingStranded
BY ReservationAssumption DEF Init, UnboundUntilDone, NothingStranded

(* A step that neither binds nor grants, and moves only r, off no claim or *)
(* from one claim to another on the same node.                             *)
LEMMA StrandedQuiet ==
  ASSUME TypeOK, UnboundUntilDone, NothingStranded, NEW r \in Requests,
         UNCHANGED bound, UNCHANGED granted,
         \A q \in Requests \ {r} : pc'[q] = pc[q] /\ cur'[q] = cur[q],
         \A q \in Requests : ~cancelled'[q],
         pc[r] # "done",
         pc[r] \in ClaimPcs => pc'[r] \in ClaimPcs /\ cur'[r] = cur[r]
  PROVE  UnboundUntilDone' /\ NothingStranded'
<1>1. UnboundUntilDone'
  BY DEF UnboundUntilDone
<1>2. NothingStranded'
  BY DEF NothingStranded, TypeOK
<1> QED
  BY <1>1, <1>2

LEMMA StrandedStep ==
  ASSUME Inv, UnboundUntilDone, NothingStranded, AnswersArrive, OwnPods, [Next]_vars
  PROVE  UnboundUntilDone' /\ NothingStranded'
<1>0. /\ TypeOK /\ granted \in [Nodes -> SUBSET Requests]
      /\ pc \in [Requests -> Pcs] /\ cur \in [Requests -> Nodes \cup {None}]
      /\ cancelled \in [Requests -> BOOLEAN]
      /\ bound \in [Pods -> Nodes \cup {Unbound, Gone}]
      /\ \A r \in Requests : PodOf[r] \in Pods
      /\ Unbound \notin Nodes /\ Unbound # Gone
      /\ "lost" \notin Faults /\ "redis" \notin Faults
  BY ReservationAssumption DEF Inv, TypeOK, LocalsTypeOK, ApiTypeOK, AnswersArrive
<1>q. ASSUME NEW r \in Requests, pc[r] # "done"
      PROVE  ~cancelled[r] /\ bound[PodOf[r]] = Unbound
  BY <1>q DEF UnboundUntilDone
(* A request on a node of which it holds no share is on no account.      *)
<1>h. ASSUME NEW r \in Requests, NEW n \in Nodes, r \in granted[n], pc[r] # "done"
      PROVE  pc[r] \in ClaimPcs /\ cur[r] = n
  BY <1>0, <1>q, <1>h DEF NothingStranded
<1>1. ASSUME NEW r \in Requests,
             \/ Schedule(r) \/ BindPodSimpleGet(r) \/ ExtractIntent(r) \/ ReadNode(r)
             \/ FilterDone(r) \/ GetPod(r) \/ LockNode(r) \/ Exhausted(r) \/ Recheck(r)
             \/ ReserveRefused(r) \/ GiveUp(r)
      PROVE  UnboundUntilDone' /\ NothingStranded'
  <2>1. pc[r] \notin ClaimPcs /\ pc[r] # "done"
    BY <1>1
       DEF Schedule, BindPodSimpleGet, ExtractIntent, ReadNode, FilterDone, GetPod,
           LockNode, Exhausted, Recheck, ReserveRefused, GiveUp, ClaimPcs
  <2>2. UNCHANGED bound /\ UNCHANGED granted
    BY <1>1
       DEF Schedule, BindPodSimpleGet, ExtractIntent, ReadNode, FilterDone, GetPod,
           LockNode, Exhausted, Recheck, ReserveRefused, GiveUp, api
  <2>3. /\ \A q \in Requests \ {r} : pc'[q] = pc[q] /\ cur'[q] = cur[q]
        /\ \A q \in Requests : ~cancelled'[q]
    BY <1>0, <1>1
       DEF Schedule, BindPodSimpleGet, ExtractIntent, ReadNode, FilterDone, GetPod,
           LockNode, Exhausted, Recheck, ReserveRefused, GiveUp, UnboundUntilDone,
           Return, NextNode, SimpleFailed, Goto, locals
  <2> QED
    BY <1>0, <2>1, <2>2, <2>3, StrandedQuiet
<1>2. ASSUME NEW r \in Requests, Release(r) PROVE UnboundUntilDone' /\ NothingStranded'
  BY <1>0, <1>2, StrandedQuiet
     DEF Release, Goto, locals, api, ClaimPcs, UnboundUntilDone
<1>3. ASSUME NEW r \in Requests, BindPodGet(r) PROVE UnboundUntilDone' /\ NothingStranded'
  <2>1. (Goto(r, "bindPut") \/ Goto(r, "rollback")) /\ UNCHANGED locals
    BY <1>0, <1>3, <1>q DEF BindPodGet
  <2> QED
    BY <1>0, <1>3, <2>1, StrandedQuiet
       DEF BindPodGet, Goto, locals, api, ClaimPcs, UnboundUntilDone
(* The two binds: either nothing happens to the pod, or it is bound where  *)
(* the request holds its share and Schedule returns.                       *)
<1>4. ASSUME NEW r \in Requests, NEW n, BindAt(PodOf[r], n), Return(r),
             UNCHANGED granted, pc[r] # "done", n \in Nodes,
             pc[r] \in ClaimPcs => cur[r] = n
      PROVE  UnboundUntilDone' /\ NothingStranded'
  <2>1. bound'[PodOf[r]] = n /\ \A q \in Requests \ {r} : bound'[PodOf[q]] = bound[PodOf[q]]
    BY <1>0, <1>4 DEF BindAt, OwnPods
  <2>2. /\ pc'[r] = "done"
        /\ \A q \in Requests \ {r} : pc'[q] = pc[q] /\ cur'[q] = cur[q]
        /\ \A q \in Requests : ~cancelled'[q]
    BY <1>0, <1>4 DEF Return, Goto, UnboundUntilDone
  <2>3. UnboundUntilDone'
    BY <2>1, <2>2 DEF UnboundUntilDone
  <2>4. ASSUME NEW m \in Nodes, NEW q \in granted'[m]
        PROVE  (pc'[q] \in ClaimPcs /\ cur'[q] = m) \/ bound'[PodOf[q]] = m
    <3>1. q \in Requests /\ q \in granted[m]
      BY <1>0, <1>4, <2>4
    <3>2. CASE q = r
      BY <1>4, <1>h, <2>1, <3>1, <3>2
    <3>3. CASE q # r
      BY <2>1, <2>2, <3>1, <3>3 DEF NothingStranded
    <3> QED
      BY <3>2, <3>3
  <2> QED
    BY <2>3, <2>4 DEF NothingStranded
<1>5. ASSUME NEW r \in Requests, BindPodSimplePut(r) PROVE UnboundUntilDone' /\ NothingStranded'
  <2>0. /\ pc[r] \in {"fastPut", "simplePut"} /\ SimpleTarget(r) \in Nodes
        /\ pc[r] \notin ClaimPcs /\ UNCHANGED granted
    BY <1>0, <1>5
       DEF BindPodSimplePut, SimpleTarget, TypeOK, LocalsAtHand, ClaimPcs
  <2>1. CASE BindAt(PodOf[r], SimpleTarget(r)) /\ Return(r)
    BY <1>4, <2>0, <2>1
  <2>2. CASE SimpleFailed(r) /\ UNCHANGED api
    <3>1. /\ \A q \in Requests \ {r} : pc'[q] = pc[q] /\ cur'[q] = cur[q]
          /\ \A q \in Requests : ~cancelled'[q]
      BY <1>0, <2>2 DEF SimpleFailed, Return, Goto, UnboundUntilDone
    <3> QED
      BY <1>0, <2>0, <2>2, <3>1, StrandedQuiet DEF api
  <2> QED
    BY <1>0, <1>5, <2>1, <2>2 DEF BindPodSimplePut
<1>6. ASSUME NEW r \in Requests, BindPodPut(r) PROVE UnboundUntilDone' /\ NothingStranded'
  <2>0. pc[r] = "bindPut" /\ cur[r] \in Nodes
    BY <1>6 DEF BindPodPut, Inv, ClaimsCounted, ClaimPcs
  <2>1. CASE BindAt(PodOf[r], cur[r]) /\ Return(r)
    BY <1>4, <1>6, <2>0, <2>1 DEF BindPodPut
  <2>2. CASE Goto(r, "rollback") /\ UNCHANGED <<api, locals>>
    BY <1>0, <1>6, <2>0, <2>2, StrandedQuiet
       DEF BindPodPut, Goto, locals, api, ClaimPcs, UnboundUntilDone
  <2> QED
    BY <1>0, <1>6, <2>1, <2>2 DEF BindPodPut
<1>7. ASSUME NEW r \in Requests, ReserveResources(r)
      PROVE  UnboundUntilDone' /\ NothingStranded'
  <2>1. /\ pc[r] = "reserve" /\ Goto(r, "release") /\ UNCHANGED <<bound, cur, cancelled>>
        /\ granted' = [granted EXCEPT ![cur[r]] = @ \cup {r}]
    BY <1>0, <1>7 DEF ReserveResources, api, locals
  <2>2. UnboundUntilDone'
    BY <1>0, <2>1 DEF Goto, UnboundUntilDone
  <2>3. NothingStranded'
    BY <1>0, <2>1 DEF Goto, NothingStranded, ClaimPcs
  <2> QED
    BY <2>2, <2>3
<1>8. ASSUME NEW r \in Requests, RollbackResources(r)
      PROVE  UnboundUntilDone' /\ NothingStranded'
  <2>1. /\ pc[r] = "rollback" /\ Goto(r, "next") /\ UNCHANGED <<bound, cancelled>>
        /\ granted' = [granted EXCEPT ![cur[r]] = @ \ {r}]
        /\ cur' = [cur EXCEPT ![r] = None]
    BY <1>0, <1>8, <1>q DEF RollbackResources, RedisFails, NextNode, api
  <2>2. UnboundUntilDone'
    BY <1>0, <2>1 DEF Goto, UnboundUntilDone
  <2>3. NothingStranded'
    BY <1>0, <1>h, <2>1 DEF Goto, NothingStranded, ClaimPcs
  <2> QED
    BY <2>2, <2>3
<1>9. ASSUME UNCHANGED <<bound, granted, pc, cur, cancelled>>
      PROVE  UnboundUntilDone' /\ NothingStranded'
  BY <1>9 DEF UnboundUntilDone, NothingStranded
<1>10. Sync => UNCHANGED <<bound, granted, pc, cur, cancelled>>
  BY DEF Sync, SyncList, SyncRead, SyncMerge, api, locals
<1>11. Environment => UNCHANGED <<bound, granted, pc, cur, cancelled>>
  BY DEF Environment, LockExpire, NodeChange, Cancel, BindElsewhere, DeletePod, Crash,
         AnswersArrive, api, locals
<1> QED
  BY <1>1, <1>2, <1>3, <1>5, <1>6, <1>7, <1>8, <1>9, <1>10, <1>11
     DEF Next, Handler, vars, api, locals

(* As long as answers arrive and each pod has its own request, a share of  *)
(* a node never outlives the attempt it was reserved for.                  *)
THEOREM StrandsNothing == AnswersArrive /\ OwnPods => (Spec => []NothingStranded)
<1> SUFFICES ASSUME AnswersArrive, OwnPods PROVE Spec => []NothingStranded
  OBVIOUS
<1>1. Inv /\ UnboundUntilDone /\ NothingStranded /\ [Next]_vars
        => (UnboundUntilDone /\ NothingStranded)'
  BY StrandedStep
<1> QED
  BY <1>1, StrandedInit, Invariance, PTL DEF Spec
================================================================================
