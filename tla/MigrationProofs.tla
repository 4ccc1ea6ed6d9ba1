---------------------------- MODULE MigrationProofs ----------------------------
(***************************************************************************)
(* Theorems about Migration for all values of the constants: the types,    *)
(* that the change-node lock excludes other requests as long as they end   *)
(* within its TTL, that nobody releases the lock of another, that graceful *)
(* requests keep the service up, that they give the replicas back, and     *)
(* that Migration implements ReplicaLoan.                                  *)
(***************************************************************************)
EXTENDS MigrationRefinement, FiniteSetTheorems, TLAPS

LEMMA TypeInit == Init => TypeOK
<1> SUFFICES ASSUME Init PROVE TypeOK
  OBVIOUS
<1> USE DEF Init, ClusterInit, ChangeInit, PlacementInit
<1>1. /\ replicas \in Nat /\ rv \in Nat
      /\ place \in [PodIds -> Nodes \cup {Unborn, Pending, Gone}]
  BY ClusterAssumption
<1>2. ready \subseteq {p \in PodIds : place[p] \in Nodes}
  BY ClusterAssumption DEF PodIds
<1>3. /\ cpc \in [Changes -> CPcs]
      /\ \A c \in Changes : cpc[c] = "idle"
  BY DEF CPcs
<1> QED
  BY <1>1, <1>2, <1>3 DEF TypeOK, Working

LEMMA ClusterTypes ==
  ASSUME TypeOK, Controllers
  PROVE  /\ replicas' \in Nat /\ rv' \in Nat
         /\ place' \in [PodIds -> Nodes \cup {Unborn, Pending, Gone}]
         /\ ready' \subseteq {p \in PodIds : place'[p] \in Nodes}
<1>1. CASE CreateReplica
  BY <1>1, ClusterAssumption DEF CreateReplica, TypeOK
<1>2. CASE DeleteReplica
  BY <1>2, ClusterAssumption DEF DeleteReplica, RemovePod, Live, Surplus, NotBound, TypeOK
<1>3. CASE \E p \in PodIds : BecomeReady(p)
  BY <1>3 DEF BecomeReady, TypeOK
<1> QED
  BY <1>1, <1>2, <1>3 DEF Controllers

LEMMA TypeStep == TypeOK /\ [Next]_vars => TypeOK'
<1> SUFFICES ASSUME TypeOK, [Next]_vars PROVE TypeOK'
  OBVIOUS
<1> USE DEF TypeOK
<1>1. ASSUME NEW c \in Changes, UNCHANGED placement,
             HandleChangeNode(c) \/ HandleRestartPod(c)
      PROVE  TypeOK'
  <2>0. 0 \notin PodIds /\ Live \subseteq PodIds
    BY DEF PodIds, Live
  <2>1. CASE HandleChangeNode(c)
    BY <1>1, <2>0, <2>1, ClusterAssumption
       DEF HandleChangeNode, CGoto, CPcs, cluster, cstore, placement, Working
  <2>2. CASE HandleRestartPod(c)
    BY <1>1, <2>0, <2>2
       DEF HandleRestartPod, CGoto, CPcs, cluster, cstore, placement, Working
  <2> QED
    BY <1>1, <2>1, <2>2
<1>2. ASSUME NEW c \in Changes, UNCHANGED placement,
             AcquireChangeNodeLock(c) \/ SetNodeOverride(c) \/ ReleaseChangeNodeLock(c)
      PROVE  TypeOK'
  <2>1. CASE AcquireChangeNodeLock(c)
    <3>1. CASE Return(c)
      BY <1>2, <2>1, <3>1 DEF AcquireChangeNodeLock, Return, Forget, CGoto, CPcs, Working,
                              cluster, placement
    <3>2. CASE ~Return(c)
      BY <1>2, <2>1, <3>2 DEF AcquireChangeNodeLock, Continue, CGoto, CPcs, Working,
                              cluster, clocals, placement
    <3> QED
      BY <3>1, <3>2
  <2>2. CASE SetNodeOverride(c)
    BY <1>2, <2>2 DEF SetNodeOverride, CGoto, CPcs, Working, cluster, clocals, placement
  <2>3. CASE ReleaseChangeNodeLock(c)
    BY <1>2, <2>3 DEF ReleaseChangeNodeLock, Return, Forget, CGoto, CPcs, Working,
                      cluster, placement
  <2> QED
    BY <1>2, <2>1, <2>2, <2>3
<1>3. ASSUME NEW c \in Changes, UNCHANGED placement,
             GetDeployment(c) \/ GetScale(c) \/ PollPods(c) \/ PollTimeout(c)
      PROVE  TypeOK'
  BY <1>3 DEF GetDeployment, GetScale, PollPods, PollTimeout, CGoto, CPcs,
              cluster, cstore, clocals, Working, placement
<1>4. ASSUME NEW c \in Changes, UNCHANGED placement, ScaleUp(c) \/ ScaleBack(c)
      PROVE  TypeOK'
  BY <1>4 DEF ScaleUp, ScaleBack, UpdateScale, CGoto, CPcs, Working,
              cluster, cstore, clocals, placement
<1>5. ASSUME NEW c \in Changes, UNCHANGED placement, DeleteOldPod(c)
      PROVE  TypeOK'
  <2>1. /\ replicas' \in Nat /\ rv' \in Nat
        /\ place' \in [PodIds -> Nodes \cup {Unborn, Pending, Gone}]
        /\ ready' \subseteq {p \in PodIds : place'[p] \in Nodes}
    BY <1>5, ClusterAssumption DEF DeleteOldPod, RemovePod, Live, cluster
  <2>2. CASE Return(c)
    BY <1>5, <2>1, <2>2 DEF DeleteOldPod, Return, Forget, CGoto, CPcs, Working, cstore, placement
  <2>3. CASE Continue(c, "downGet")
    <3>1. cpc[c] = "delete"
      BY <1>5, <2>3 DEF DeleteOldPod, Continue, Return, CGoto
    <3> QED
      BY <1>5, <2>1, <2>3, <3>1 DEF DeleteOldPod, Continue, CGoto, CPcs, Working, cstore, clocals,
                                    placement
  <2> QED
    BY <1>5, <2>2, <2>3 DEF DeleteOldPod
<1>6. CASE ListPods \/ SchedulePod \/ PassDone
  <2>1. 0 \notin PodIds
    BY DEF PodIds
  <2>2. NotBound \subseteq PodIds
    BY DEF NotBound, Live
  <2>3. UNCHANGED <<cluster, changeVars, choice>>
    BY <1>6 DEF ListPods, SchedulePod, PassDone
  <2>4. CASE ListPods
    BY <2>2, <2>3, <2>4 DEF ListPods, cluster, changeVars, cstore, clocals, Working
  <2>5. CASE SchedulePod
    BY <2>1, <2>3, <2>5 DEF SchedulePod, cluster, changeVars, cstore, clocals, Working
  <2>6. CASE PassDone
    BY <2>3, <2>6 DEF PassDone, cluster, changeVars, cstore, clocals, Working
  <2> QED
    BY <1>6, <2>4, <2>5, <2>6
<1>7. CASE AskOptimalNode \/ ScoreAndSelectNode
  <2>0. Eligible \subseteq Nodes /\ Highest \subseteq Eligible /\ None \notin Eligible
    BY ClusterAssumption DEF Eligible, Highest, Fitting
  <2>1. CASE AskOptimalNode
    BY <2>0, <2>1, PlacementAssumption
       DEF AskOptimalNode, GetOptimalNode, ConsumeNodeOverride, cluster, clocals, Working
  <2>2. CASE ScoreAndSelectNode
    <3>1. /\ UNCHANGED <<cluster, changeVars, queue>>
          /\ \/ choice' \in Highest /\ spc' = "bind" /\ UNCHANGED pod
             \/ spc' = "next" /\ pod' = 0 /\ UNCHANGED choice
      BY <2>2 DEF ScoreAndSelectNode
    <3>2. spc = "score"
      BY <2>2 DEF ScoreAndSelectNode
    <3> QED
      BY <2>0, <3>1, <3>2 DEF cluster, changeVars, cstore, clocals, Working
  <2> QED
    BY <1>7, <2>1, <2>2
<1>8. CASE BindPod
  <2>1. choice \in Nodes
    BY <1>8 DEF BindPod, Eligible
  <2>2. /\ place' \in [PodIds -> Nodes \cup {Unborn, Pending, Gone}]
        /\ ready' \subseteq {p \in PodIds : place'[p] \in Nodes}
        /\ replicas' \in Nat /\ rv' \in Nat
    <3>1. CASE Bind(pod, choice)
      BY <2>1, <3>1 DEF Bind
    <3>2. CASE UNCHANGED cluster
      BY <3>2 DEF cluster
    <3> QED
      BY <1>8, <3>1, <3>2 DEF BindPod
  <2> QED
    BY <1>8, <2>2 DEF BindPod, changeVars, cstore, clocals, Working
<1>9. CASE Controllers /\ UNCHANGED <<changeVars, placement>>
  BY <1>9, ClusterTypes DEF changeVars, cstore, clocals, placement, Working
<1>10. ASSUME UNCHANGED placement,
              \/ ChangeLockExpire \/ OverrideExpire \/ ExtenderCrash
              \/ \E c \in Changes : GiveUpWaiting(c)
       PROVE  TypeOK'
  <2>1. CASE ChangeLockExpire \/ OverrideExpire
    BY <1>10, <2>1 DEF ChangeLockExpire, OverrideExpire, Working,
                       cluster, cstore, clocals, placement
  <2>2. CASE ExtenderCrash
    BY <1>10, <2>2 DEF ExtenderCrash, Forget, CPcs, Working, cluster, cstore, placement
  <2>3. ASSUME NEW c \in Changes, GiveUpWaiting(c) PROVE TypeOK'
    BY <1>10, <2>3 DEF GiveUpWaiting, Return, Forget, CGoto, CPcs, Working,
                       cluster, cstore, placement
  <2> QED
    BY <1>10, <2>1, <2>2, <2>3
<1>11. CASE SchedulerCrash
  BY <1>11 DEF SchedulerCrash, cluster, changeVars, cstore, clocals, Working
<1>12. CASE UNCHANGED vars
  BY <1>12 DEF vars, cluster, changeVars, cstore, clocals, Working, placement
<1> QED
  BY <1>1, <1>2, <1>3, <1>4, <1>5, <1>6, <1>7, <1>8, <1>9, <1>10, <1>11, <1>12
     DEF Next, ChangeStep, PlacementStep, Environment

(* The types hold in every reachable state.                                *)
THEOREM TypeCorrect == Spec => []TypeOK
  BY TypeInit, TypeStep, PTL DEF Spec

--------------------------------------------------------------------------------
LEMMA LockInit == Init => LockHeld
  BY DEF Init, ChangeInit, LockHeld, LockPcs, ScalePcs

LEMMA LockStep == TypeOK /\ LockHeld /\ [Next]_vars => LockHeld'
<1> SUFFICES ASSUME TypeOK, LockHeld, [Next]_vars, NEW c \in Changes,
                    c \notin slow', cpc'[c] \in LockPcs
             PROVE  changeLock' = c
  BY DEF LockHeld
<1>0. /\ cpc \in [Changes -> CPcs]
      /\ \A d \in Changes \ slow : cpc[d] \in LockPcs => changeLock = d
      /\ None \notin Changes
  BY ChangeAssumption DEF TypeOK, LockHeld
<1>s. c \notin slow
  BY DEF Next, ChangeStep, PlacementStep, Environment, vars, changeVars, clocals,
         HandleChangeNode, HandleRestartPod, AcquireChangeNodeLock, SetNodeOverride, GetDeployment, GetScale,
         ScaleUp, PollPods, PollTimeout, DeleteOldPod, ScaleBack, ReleaseChangeNodeLock,
         Continue, Return, Forget, ListPods, SchedulePod, PassDone, AskOptimalNode,
         ScoreAndSelectNode, BindPod, ChangeLockExpire, OverrideExpire, ExtenderCrash,
         GiveUpWaiting, SchedulerCrash
<1>a. ASSUME UNCHANGED changeLock, cpc[c] \in LockPcs PROVE changeLock' = c
  BY <1>0, <1>a, <1>s
<1>1. ASSUME NEW d \in Changes, HandleChangeNode(d) \/ HandleRestartPod(d)
      PROVE  cpc[c] \in LockPcs
  BY <1>0, <1>1 DEF HandleChangeNode, HandleRestartPod, CGoto, LockPcs, ScalePcs
<1>2. ASSUME NEW d \in Changes, AcquireChangeNodeLock(d) PROVE changeLock' = c
  <2>1. CASE c = d
    BY <1>0, <1>2, <2>1 DEF AcquireChangeNodeLock, Return, CGoto, LockPcs, ScalePcs
  <2>2. CASE c # d
    BY <1>0, <1>s, <1>2, <2>2 DEF AcquireChangeNodeLock, Continue, Return, CGoto
  <2> QED
    BY <2>1, <2>2
<1>3. ASSUME NEW d \in Changes,
             \/ SetNodeOverride(d) \/ GetDeployment(d) \/ GetScale(d) \/ ScaleUp(d)
             \/ PollPods(d) \/ PollTimeout(d) \/ DeleteOldPod(d) \/ ScaleBack(d)
      PROVE  UNCHANGED changeLock /\ cpc[c] \in LockPcs
  <2>1. UNCHANGED changeLock
    BY <1>3 DEF SetNodeOverride, GetDeployment, GetScale, ScaleUp, PollPods, PollTimeout,
                DeleteOldPod, ScaleBack, cstore
  <2>2. CASE c # d
    BY <1>0, <1>3, <2>1, <2>2
       DEF SetNodeOverride, GetDeployment, GetScale, ScaleUp, PollPods, PollTimeout,
           DeleteOldPod, ScaleBack, Continue, Return, CGoto
  <2>3. CASE c = d
    <3>1. cpc[d] \in LockPcs \/ cpc'[d] \in {"hardDelete", "done"}
      BY <1>0, <1>3
         DEF SetNodeOverride, GetDeployment, GetScale, ScaleUp, PollPods, PollTimeout,
             DeleteOldPod, ScaleBack, Continue, Return, CGoto, LockPcs, ScalePcs
    <3> QED
      BY <2>1, <2>3, <3>1 DEF LockPcs, ScalePcs
  <2> QED
    BY <2>1, <2>2, <2>3
<1>4. ASSUME NEW d \in Changes, ReleaseChangeNodeLock(d) PROVE changeLock' = c
  <2>1. cpc[c] \in LockPcs /\ c # d /\ changeLock # d
    BY <1>0, <1>s, <1>4 DEF ReleaseChangeNodeLock, Return, CGoto, LockPcs, ScalePcs
  <2> QED
    BY <1>0, <1>s, <1>4, <2>1 DEF ReleaseChangeNodeLock
<1>5. CASE PlacementStep \/ SchedulerCrash
  BY <1>5, <1>a
     DEF PlacementStep, ListPods, SchedulePod, PassDone, AskOptimalNode,
         ScoreAndSelectNode, BindPod,
         SchedulerCrash, changeVars, cstore
<1>6. CASE UNCHANGED changeVars
  BY <1>6, <1>a DEF changeVars
<1>7. CASE ChangeLockExpire
  BY <1>0, <1>s, <1>7 DEF ChangeLockExpire, Working, LockPcs, ScalePcs
<1>8. CASE OverrideExpire
  BY <1>8, <1>a DEF OverrideExpire
<1>b. ASSUME NEW d \in Changes, GiveUpWaiting(d) PROVE changeLock' = c
  <2>1. cpc[c] \in LockPcs
    BY <1>0, <1>b DEF GiveUpWaiting, Return, CGoto, LockPcs, ScalePcs
  <2> QED
    BY <1>a, <1>b, <2>1 DEF GiveUpWaiting, cstore
<1>9. CASE ExtenderCrash
  BY <1>9 DEF ExtenderCrash, LockPcs, ScalePcs
<1> QED
  BY <1>a, <1>b, <1>1, <1>2, <1>3, <1>4, <1>5, <1>6, <1>7, <1>8, <1>9
     DEF Next, ChangeStep, Environment, HandleChangeNode, HandleRestartPod, cstore, vars, changeVars

(* Of the requests that end within the TTL of the lock, one at a time      *)
(* works on the Deployment, whatever else fails.                           *)
THEOREM ChangesExclude == Spec => []OneAtATime
<1>1. LockHeld => OneAtATime
  BY DEF LockHeld, OneAtATime, LockPcs
<1> QED
  BY <1>1, TypeCorrect, LockInit, LockStep, PTL DEF Spec

(* A request releases its own lock or none.                                *)
THEOREM ReleasesOnlyOwn == Spec => ReleaseOnlyOwn
<1>1. TypeOK /\ [Next]_vars
        => [\A c \in Changes :
              changeLock = c /\ changeLock' # c => cpc'[c] # cpc[c] \/ cpc' = cpc]_vars
  <2> SUFFICES ASSUME TypeOK, Next, NEW c \in Changes, changeLock = c, changeLock' # c
               PROVE  cpc'[c] # cpc[c] \/ cpc' = cpc
    OBVIOUS
  <2>0. cpc \in [Changes -> CPcs] /\ None \notin Changes
    BY ChangeAssumption DEF TypeOK
  <2>1. ASSUME NEW d \in Changes, AcquireChangeNodeLock(d) PROVE FALSE
    BY <2>0, <2>1 DEF AcquireChangeNodeLock
  <2>2. ASSUME NEW d \in Changes, ReleaseChangeNodeLock(d) PROVE cpc'[c] # cpc[c]
    BY <2>0, <2>2 DEF ReleaseChangeNodeLock, Return, CGoto
  <2>3. ASSUME NEW d \in Changes,
               \/ HandleChangeNode(d) \/ HandleRestartPod(d) \/ SetNodeOverride(d) \/ GetDeployment(d)
               \/ GetScale(d) \/ ScaleUp(d) \/ PollPods(d) \/ PollTimeout(d)
               \/ DeleteOldPod(d) \/ ScaleBack(d)
        PROVE  FALSE
    BY <2>3 DEF HandleChangeNode, HandleRestartPod, SetNodeOverride, GetDeployment, GetScale, ScaleUp,
                PollPods, PollTimeout, DeleteOldPod, ScaleBack, cstore
  <2>4. CASE PlacementStep \/ SchedulerCrash
    BY <2>4 DEF PlacementStep, ListPods, SchedulePod, PassDone, AskOptimalNode,
         ScoreAndSelectNode, BindPod,
                SchedulerCrash, changeVars, cstore
  <2>5. CASE ChangeLockExpire \/ OverrideExpire
    BY <2>5 DEF ChangeLockExpire, OverrideExpire
  <2>6. CASE ExtenderCrash \/ UNCHANGED changeVars \/ \E d \in Changes : GiveUpWaiting(d)
    BY <2>6 DEF ExtenderCrash, GiveUpWaiting, changeVars, cstore
  <2> QED
    BY <2>1, <2>2, <2>3, <2>4, <2>5, <2>6 DEF Next, ChangeStep, Environment
<1> QED
  BY <1>1, TypeCorrect, PTL DEF Spec, ReleaseOnlyOwn

--------------------------------------------------------------------------------
(* Why the service stays up: at least one replica is wanted, two while a   *)
(* request waits for the new pod or deletes the old one, and before it     *)
(* deletes one there is another that is ready.                             *)
GracefulOnly == OwnerKinds = {"ReplicaSet"} /\ "restart" \notin Endpoints

AlwaysGraceful ==
  /\ owner = "ReplicaSet"
  /\ \A c \in Changes : cpc[c] \notin {"hardOverride", "hardDelete", "restart"}

CountedPcs == {"upGet", "upPut", "poll", "delete", "downGet", "downPut"}

StaysUp ==
  /\ replicas >= 1
  /\ ready # {}
  /\ \A c \in Changes :
       /\ cpc[c] \in CountedPcs => original[c] >= 1
       /\ cpc[c] \in {"poll", "delete"} => replicas >= 2
       /\ cpc[c] = "delete" => ready \ {old[c]} # {}

UpInv == Wanted > 0 /\ slow = {} => StaysUp

LEMMA GracefulInit == GracefulOnly /\ Init => AlwaysGraceful
  BY DEF GracefulOnly, Init, ClusterInit, ChangeInit, AlwaysGraceful

LEMMA GracefulStep ==
  ASSUME GracefulOnly, TypeOK, AlwaysGraceful, [Next]_vars
  PROVE  AlwaysGraceful'
<1>0. cpc \in [Changes -> CPcs]
  BY DEF TypeOK
<1> USE DEF AlwaysGraceful
<1>1. ASSUME NEW c \in Changes, HandleChangeNode(c) \/ HandleRestartPod(c)
      PROVE  AlwaysGraceful'
  BY <1>0, <1>1 DEF GracefulOnly, HandleChangeNode, HandleRestartPod, CGoto, cluster
<1>2. ASSUME NEW c \in Changes, ChangeStep(c) PROVE AlwaysGraceful'
  <2>1. owner' = owner
    BY <1>2 DEF ChangeStep, AcquireChangeNodeLock, SetNodeOverride, GetDeployment, GetScale,
                ScaleUp, PollPods, PollTimeout, DeleteOldPod, ScaleBack, ReleaseChangeNodeLock,
                UpdateScale, RemovePod, cluster
  <2>2. \A d \in Changes : cpc'[d] \notin {"hardOverride", "hardDelete", "restart"}
    BY <1>0, <1>2
       DEF ChangeStep, AcquireChangeNodeLock, SetNodeOverride, GetDeployment, GetScale,
           ScaleUp, PollPods, PollTimeout, DeleteOldPod, ScaleBack, ReleaseChangeNodeLock,
           Return, Continue, CGoto
  <2> QED
    BY <2>1, <2>2
<1>3. CASE PlacementStep \/ SchedulerCrash
  BY <1>3 DEF PlacementStep, ListPods, SchedulePod, PassDone, AskOptimalNode,
              ScoreAndSelectNode, BindPod, Bind, SchedulerCrash, changeVars, cluster
<1>4. CASE Controllers /\ UNCHANGED <<changeVars, placement>>
  BY <1>4 DEF Controllers, CreateReplica, DeleteReplica, RemovePod, BecomeReady, changeVars
<1>5. CASE \/ ChangeLockExpire \/ OverrideExpire \/ ExtenderCrash
           \/ \E c \in Changes : GiveUpWaiting(c)
  BY <1>0, <1>5 DEF ChangeLockExpire, OverrideExpire, ExtenderCrash, GiveUpWaiting,
                    Return, CGoto, cluster
<1>6. CASE UNCHANGED vars
  BY <1>6 DEF vars, changeVars, cluster
<1> QED
  BY <1>1, <1>2, <1>3, <1>4, <1>5, <1>6 DEF Next, Environment

LEMMA UpInit == Init => UpInv
<1> SUFFICES ASSUME Init, Wanted > 0 PROVE StaysUp
  BY DEF UpInv
<1>1. 1 \in ready /\ replicas >= 1
  BY ClusterAssumption DEF Init, ClusterInit
<1> QED
  BY <1>1 DEF Init, ChangeInit, StaysUp, CountedPcs

(* Of more than k + 1 pods one can go, and k others, and one is left.      *)
LEMMA OneIsLeft ==
  ASSUME NEW S, IsFiniteSet(S), NEW p, NEW q,
         Cardinality(S) > 1
  PROVE  /\ S \ {p} # {}
         /\ Cardinality(S) > 2 => (S \ {p}) \ {q} # {}
<1>1. /\ IsFiniteSet(S \ {p})
      /\ Cardinality(S \ {p}) >= Cardinality(S) - 1
      /\ Cardinality(S) \in Nat /\ Cardinality(S \ {p}) \in Nat
  BY FS_RemoveElement, FS_CardinalityType, FS_Subset
<1>2. /\ Cardinality((S \ {p}) \ {q}) >= Cardinality(S \ {p}) - 1
      /\ Cardinality((S \ {p}) \ {q}) \in Nat
  BY <1>1, FS_RemoveElement, FS_CardinalityType, FS_Subset
<1> QED
  BY <1>1, <1>2, FS_EmptySet

LEMMA ReadyFinite == TypeOK => IsFiniteSet(Live) /\ IsFiniteSet(ready) /\ ready \subseteq Live
<1>1. IsFiniteSet(PodIds)
  BY ClusterAssumption, FS_Interval DEF PodIds
<1>2. TypeOK => ready \subseteq Live /\ Live \subseteq PodIds
  BY ClusterAssumption DEF TypeOK, Live
<1> QED
  BY <1>1, <1>2, FS_Subset

LEMMA UpStep ==
  ASSUME TypeOK, LockHeld, AlwaysGraceful, UpInv, [Next]_vars
  PROVE  UpInv'
<1> SUFFICES ASSUME Wanted > 0, slow' = {} PROVE StaysUp'
  BY DEF UpInv
<1>s. slow = {} /\ StaysUp
  <2>1. slow \subseteq slow'
    BY DEF Next, ChangeStep, PlacementStep, Environment, vars, changeVars, clocals,
           HandleChangeNode, HandleRestartPod, AcquireChangeNodeLock, SetNodeOverride,
           GetDeployment, GetScale, ScaleUp, PollPods, PollTimeout, DeleteOldPod, ScaleBack,
           ReleaseChangeNodeLock, Continue, Return, Forget, ListPods, SchedulePod, PassDone,
           AskOptimalNode, ScoreAndSelectNode, BindPod, ChangeLockExpire, OverrideExpire,
           ExtenderCrash, GiveUpWaiting, SchedulerCrash
  <2> QED
    BY <2>1 DEF UpInv
<1>0. /\ cpc \in [Changes -> CPcs] /\ original \in [Changes -> Nat]
      /\ old \in [Changes -> PodIds \cup {0}] /\ replicas \in Nat
      /\ IsFiniteSet(ready)
  BY ReadyFinite DEF TypeOK
<1>l. \A c, d \in Changes : cpc[c] \in ScalePcs /\ cpc[d] \in ScalePcs => c = d
  BY <1>s DEF LockHeld, LockPcs, ScalePcs
<1> USE DEF StaysUp, CountedPcs
<1>1. ASSUME NEW c \in Changes, HandleChangeNode(c) \/ HandleRestartPod(c)
      PROVE  StaysUp'
  BY <1>0, <1>s, <1>1 DEF HandleChangeNode, HandleRestartPod, CGoto, cluster
<1>2. ASSUME NEW c \in Changes,
             \/ AcquireChangeNodeLock(c) \/ SetNodeOverride(c) \/ ReleaseChangeNodeLock(c)
      PROVE  StaysUp'
  BY <1>0, <1>s, <1>2 DEF AcquireChangeNodeLock, SetNodeOverride, ReleaseChangeNodeLock,
                          Return, Continue, Forget, CGoto, cluster, clocals
<1>3. ASSUME NEW c \in Changes,
             \/ GetDeployment(c) \/ GetScale(c) \/ PollPods(c) \/ PollTimeout(c)
      PROVE  StaysUp'
  BY <1>0, <1>s, <1>3 DEF GetDeployment, GetScale, PollPods, PollTimeout, Arrived, CGoto,
                          cluster, clocals
<1>4. ASSUME NEW c \in Changes, ScaleUp(c) PROVE StaysUp'
  <2>1. /\ original[c] >= 1 /\ cpc[c] = "upPut"
        /\ UNCHANGED <<ready, old, original>>
        /\ replicas' = original[c] + 1 \/ (replicas' = replicas /\ cpc'[c] = "release")
    BY <1>0, <1>s, <1>4 DEF ScaleUp, UpdateScale, CGoto, clocals, cluster
  <2>2. \A d \in Changes \ {c} : cpc'[d] = cpc[d] /\ cpc[d] \notin {"poll", "delete"}
    BY <1>0, <1>l, <1>4, <2>1 DEF ScaleUp, CGoto, ScalePcs
  <2>3. cpc'[c] \in {"poll", "release"}
    BY <1>0, <1>4 DEF ScaleUp, CGoto
  <2> QED
    BY <1>0, <1>s, <2>1, <2>2, <2>3
<1>5. ASSUME NEW c \in Changes, DeleteOldPod(c) PROVE StaysUp'
  <2>1. cpc[c] = "delete" /\ ready \ {old[c]} # {}
    BY <1>s, <1>5 DEF DeleteOldPod, AlwaysGraceful
  <2>2. /\ UNCHANGED <<replicas, old, original>>
        /\ cpc' = [cpc EXCEPT ![c] = "downGet"]
        /\ ready' = ready \ {old[c]} \/ ready' = ready
    BY <1>5, <2>1 DEF DeleteOldPod, Continue, CGoto, RemovePod, cluster, clocals
  <2>3. \A d \in Changes \ {c} : cpc[d] # "delete"
    BY <1>l, <2>1 DEF ScalePcs
  <2> QED
    BY <1>0, <1>s, <2>1, <2>2, <2>3
<1>6. ASSUME NEW c \in Changes, ScaleBack(c) PROVE StaysUp'
  <2>1. /\ original[c] >= 1 /\ cpc[c] = "downPut"
        /\ UNCHANGED <<ready, old, original>>
        /\ replicas' = original[c] \/ replicas' = replicas
        /\ cpc' = [cpc EXCEPT ![c] = "release"]
    BY <1>0, <1>s, <1>6 DEF ScaleBack, UpdateScale, CGoto, clocals, cluster
  <2>2. \A d \in Changes \ {c} : cpc[d] \notin {"poll", "delete"}
    BY <1>l, <2>1 DEF ScalePcs
  <2> QED
    BY <1>0, <1>s, <2>1, <2>2
<1>7. CASE PlacementStep \/ SchedulerCrash
  <2>1. UNCHANGED <<changeLock, cpc, clocals, replicas, ready>>
    BY <1>7 DEF PlacementStep, ListPods, SchedulePod, PassDone, AskOptimalNode,
                ScoreAndSelectNode, BindPod, Bind, SchedulerCrash, changeVars, cluster
  <2> QED
    BY <1>s, <2>1 DEF clocals
<1>8. CASE Controllers /\ UNCHANGED <<changeVars, placement>>
  <2>0. UNCHANGED <<cpc, old, original>>
    BY <1>8 DEF changeVars, clocals
  <2>1. CASE CreateReplica \/ \E p \in PodIds : BecomeReady(p)
    BY <1>s, <2>0, <2>1 DEF CreateReplica, BecomeReady
  <2>2. CASE DeleteReplica
    <3>1. PICK p \in Surplus : RemovePod(p)
      BY <2>2 DEF DeleteReplica
    <3>2. ready' = ready \ {p} /\ replicas' = replicas
      BY <3>1 DEF RemovePod
    <3>3. CASE p \notin ready
      BY <1>s, <2>0, <3>2, <3>3
    <3>4. CASE p \in ready
      <4>1. ready = Live
        BY <3>1, <3>4, ReadyFinite, ClusterAssumption DEF Surplus, NotBound, TypeOK
      <4>2. Cardinality(ready) > replicas /\ Cardinality(ready) \in Nat
        BY <1>0, <2>2, <4>1, FS_CardinalityType DEF DeleteReplica
      <4>3. ready \ {p} # {}
        BY <1>0, <1>s, <4>2, OneIsLeft
      <4>4. ASSUME NEW c \in Changes, cpc[c] = "delete" PROVE (ready \ {p}) \ {old[c]} # {}
        <5>1. Cardinality(ready) > 2 /\ Cardinality(ready) > 1
          BY <1>0, <1>s, <4>2, <4>4
        <5> QED
          BY <1>0, <5>1, OneIsLeft
      <4> QED
        BY <1>s, <2>0, <3>2, <4>3, <4>4
    <3> QED
      BY <3>3, <3>4
  <2> QED
    BY <1>8, <2>1, <2>2 DEF Controllers
<1>9. CASE ChangeLockExpire \/ OverrideExpire
  BY <1>s, <1>9 DEF ChangeLockExpire, OverrideExpire, cluster, clocals
<1>12. ASSUME NEW c \in Changes, GiveUpWaiting(c) PROVE StaysUp'
  BY <1>0, <1>s, <1>12 DEF GiveUpWaiting, Return, Forget, CGoto, cluster
<1>10. CASE ExtenderCrash
  BY <1>0, <1>s, <1>10 DEF ExtenderCrash, cluster
<1>11. CASE UNCHANGED vars
  BY <1>s, <1>11 DEF vars, changeVars, clocals, cluster
<1> QED
  BY <1>1, <1>2, <1>3, <1>4, <1>5, <1>6, <1>7, <1>8, <1>9, <1>10, <1>11, <1>12
     DEF Next, ChangeStep, Environment

(* As long as all pods are moved gracefully, and no request outlives its   *)
(* lock, a service of at least one replica always has a pod that is ready, *)
(* whatever calls fail, clients give up or processes die.                  *)
THEOREM NeverGoesDown == GracefulOnly => (Spec => []NeverDown)
<1> SUFFICES ASSUME GracefulOnly PROVE Spec => []NeverDown
  OBVIOUS
<1>1. UpInv => NeverDown
  BY DEF UpInv, StaysUp, NeverDown
<1>2. Init => AlwaysGraceful
  BY GracefulInit
<1>3. TypeOK /\ AlwaysGraceful /\ [Next]_vars => AlwaysGraceful'
  BY GracefulStep
<1>4. TypeOK /\ LockHeld /\ AlwaysGraceful /\ UpInv /\ [Next]_vars => UpInv'
  BY UpStep
<1> QED
  BY <1>1, <1>2, <1>3, <1>4, TypeCorrect, LockInit, LockStep, UpInit, PTL DEF Spec

--------------------------------------------------------------------------------
(* Why the replicas come back: what a request reads of the Deployment      *)
(* stays true until it writes, as no other request writes in between, so   *)
(* that its writes meet no conflict and its memory of the replicas is the  *)
(* number the owner asked for.                                             *)
ReplicasInv ==
  /\ slow = {}
  /\ \A c \in Changes : cpc[c] \in AddedPcs \cup {"upGet", "upPut"} => original[c] = Wanted
  /\ \A c \in Changes : cpc[c] \in {"upPut", "downPut"} => seenRv[c] = rv
  /\ \A c \in Changes : cpc[c] \in AddedPcs => replicas = Wanted + 1
  /\ (\A c \in Changes : cpc[c] \notin AddedPcs) => replicas = Wanted

LEMMA ReplicasInit == Init => ReplicasInv
  BY DEF Init, ClusterInit, ChangeInit, ReplicasInv, AddedPcs

LEMMA ReplicasStep ==
  ASSUME TypeOK, LockHeld, ReplicasInv, Calm, [Next]_vars
  PROVE  ReplicasInv'
<1>0. /\ cpc \in [Changes -> CPcs] /\ slow = {}
      /\ original \in [Changes -> Nat] /\ seenRv \in [Changes -> Nat]
      /\ ~CApiFails /\ "lost" \notin Faults /\ "stall" \notin Faults
      /\ Wanted \in Nat /\ AddedPcs \cup {"upGet", "upPut"} \subseteq ScalePcs
  BY ClusterAssumption DEF TypeOK, ReplicasInv, Calm, CApiFails, ScalePcs, AddedPcs
<1>e. ASSUME NEW c \in Changes, NEW d \in Changes, cpc[c] \in ScalePcs, cpc[d] \in ScalePcs
      PROVE  c = d
  BY <1>0, <1>e DEF LockHeld, LockPcs
<1>1. ASSUME NEW d \in Changes, HandleChangeNode(d) \/ HandleRestartPod(d) PROVE ReplicasInv'
  <2>1. /\ cpc[d] = "idle" /\ cpc'[d] \in {"lock", "hardOverride", "restart"}
        /\ \A c \in Changes \ {d} : cpc'[c] = cpc[c]
        /\ UNCHANGED <<replicas, rv, original, seenRv, slow>>
    BY <1>0, <1>1 DEF HandleChangeNode, HandleRestartPod, CGoto, cluster
  <2> QED
    BY <1>0, <2>1 DEF ReplicasInv, AddedPcs
<1>2. ASSUME NEW d \in Changes, AcquireChangeNodeLock(d) PROVE ReplicasInv'
  <2>1. CASE Continue(d, "override")
    BY <1>0, <1>2, <2>1
       DEF AcquireChangeNodeLock, Continue, CGoto, cluster, clocals, ReplicasInv, AddedPcs
  <2>2. CASE Return(d)
    BY <1>0, <1>2, <2>2
       DEF AcquireChangeNodeLock, Return, Forget, CGoto, cluster, ReplicasInv, AddedPcs
  <2> QED
    BY <1>0, <1>2, <2>1, <2>2 DEF AcquireChangeNodeLock
<1>3. ASSUME NEW d \in Changes, SetNodeOverride(d) PROVE ReplicasInv'
  <2>1. /\ cpc[d] \in {"override", "hardOverride"}
        /\ cpc'[d] \in {"getDeployment", "hardDelete"}
        /\ \A c \in Changes \ {d} : cpc'[c] = cpc[c]
        /\ UNCHANGED <<replicas, rv, original, seenRv, slow>>
    BY <1>0, <1>3 DEF SetNodeOverride, CGoto, cluster, clocals
  <2> QED
    BY <1>0, <2>1 DEF ReplicasInv, AddedPcs
<1>4. ASSUME NEW d \in Changes, GetDeployment(d) PROVE ReplicasInv'
  <2>1. /\ cpc[d] = "getDeployment" /\ cpc' = [cpc EXCEPT ![d] = "upGet"]
        /\ original' = [original EXCEPT ![d] = replicas]
        /\ UNCHANGED <<replicas, rv, seenRv, slow>>
    BY <1>0, <1>4 DEF GetDeployment, CGoto, cluster
  <2>2. replicas = Wanted
    BY <1>e, <2>1 DEF ReplicasInv, AddedPcs, ScalePcs
  <2> QED
    BY <1>0, <2>1, <2>2 DEF ReplicasInv, AddedPcs
<1>5. ASSUME NEW d \in Changes, GetScale(d) PROVE ReplicasInv'
  <2>1. /\ \/ cpc[d] = "upGet" /\ cpc' = [cpc EXCEPT ![d] = "upPut"]
           \/ cpc[d] = "downGet" /\ cpc' = [cpc EXCEPT ![d] = "downPut"]
        /\ seenRv' = [seenRv EXCEPT ![d] = rv]
        /\ UNCHANGED <<replicas, rv, original, slow>>
    BY <1>0, <1>5 DEF GetScale, CGoto, cluster
  <2> QED
    BY <1>0, <2>1 DEF ReplicasInv, AddedPcs
<1>6. ASSUME NEW d \in Changes, ScaleUp(d) PROVE ReplicasInv'
  <2>1. /\ cpc[d] = "upPut" /\ seenRv[d] = rv /\ original[d] = Wanted
        /\ cpc' = [cpc EXCEPT ![d] = "poll"] /\ replicas' = Wanted + 1
        /\ UNCHANGED <<original, seenRv, slow>>
    BY <1>0, <1>6 DEF ScaleUp, UpdateScale, CGoto, clocals, ReplicasInv
  <2>2. \A c \in Changes : cpc'[c] \in ScalePcs => c = d
    BY <1>0, <1>e, <2>1 DEF ScalePcs
  <2>3. cpc'[d] = "poll"
    BY <1>0, <2>1
  <2> QED
    BY <1>0, <2>1, <2>2, <2>3 DEF ReplicasInv, AddedPcs, ScalePcs
<1>7. ASSUME NEW d \in Changes, PollPods(d) \/ PollTimeout(d) PROVE ReplicasInv'
  <2>1. /\ cpc[d] = "poll" /\ cpc'[d] \in {"delete", "downGet"}
        /\ \A c \in Changes \ {d} : cpc'[c] = cpc[c]
        /\ UNCHANGED <<replicas, rv, original, seenRv, slow>>
    BY <1>0, <1>7 DEF PollPods, PollTimeout, CGoto, cluster, clocals
  <2> QED
    BY <1>0, <2>1 DEF ReplicasInv, AddedPcs
<1>8. ASSUME NEW d \in Changes, DeleteOldPod(d) PROVE ReplicasInv'
  <2>0. UNCHANGED <<replicas, rv>>
    BY <1>8 DEF DeleteOldPod, RemovePod, cluster
  <2>1. CASE cpc[d] = "delete" /\ Continue(d, "downGet")
    BY <1>0, <2>0, <2>1 DEF Continue, CGoto, clocals, ReplicasInv, AddedPcs
  <2>2. CASE cpc[d] \in {"hardDelete", "restart"} /\ Return(d)
    BY <1>0, <2>0, <2>2 DEF Return, Forget, CGoto, ReplicasInv, AddedPcs
  <2> QED
    BY <1>8, <2>1, <2>2 DEF DeleteOldPod
<1>9. ASSUME NEW d \in Changes, ScaleBack(d) PROVE ReplicasInv'
  <2>1. /\ cpc[d] = "downPut" /\ seenRv[d] = rv /\ original[d] = Wanted
        /\ cpc' = [cpc EXCEPT ![d] = "release"] /\ replicas' = Wanted
        /\ UNCHANGED <<original, seenRv, slow>>
    BY <1>0, <1>9 DEF ScaleBack, UpdateScale, CGoto, clocals, ReplicasInv, AddedPcs
  <2>2. \A c \in Changes : cpc'[c] \notin ScalePcs
    BY <1>0, <1>e, <2>1 DEF ScalePcs
  <2> QED
    BY <1>0, <2>1, <2>2 DEF ReplicasInv, AddedPcs, ScalePcs
<1>10. ASSUME NEW d \in Changes, ReleaseChangeNodeLock(d) PROVE ReplicasInv'
  BY <1>0, <1>10
     DEF ReleaseChangeNodeLock, Return, Forget, CGoto, cluster, ReplicasInv, AddedPcs
<1>11. CASE UNCHANGED <<replicas, rv, cpc, clocals>>
  BY <1>0, <1>11 DEF clocals, ReplicasInv
<1>12. CASE PlacementStep \/ SchedulerCrash
  <2>1. UNCHANGED <<replicas, rv, cpc, clocals>>
    BY <1>12 DEF PlacementStep, ListPods, SchedulePod, PassDone, AskOptimalNode,
                 ScoreAndSelectNode, BindPod, Bind, SchedulerCrash, cluster, changeVars
  <2> QED
    BY <1>11, <2>1
<1>13. CASE Controllers /\ UNCHANGED changeVars
  <2>1. UNCHANGED <<replicas, rv>>
    BY <1>13 DEF Controllers, CreateReplica, DeleteReplica, RemovePod, BecomeReady
  <2> QED
    BY <1>11, <1>13, <2>1 DEF changeVars
<1>14. CASE ChangeLockExpire \/ OverrideExpire \/ UNCHANGED vars
  BY <1>11, <1>14 DEF ChangeLockExpire, OverrideExpire, vars, cluster, changeVars
<1>15. ~ExtenderCrash /\ \A d \in Changes : ~GiveUpWaiting(d)
  BY DEF ExtenderCrash, GiveUpWaiting, Calm
<1> QED
  BY <1>1, <1>2, <1>3, <1>4, <1>5, <1>6, <1>7, <1>8, <1>9, <1>10, <1>12, <1>13, <1>14, <1>15
     DEF Next, ChangeStep, Environment

(* Once all requests have returned the Deployment has its replicas again,  *)
(* however many requests there were and whatever Redis did, as long as the *)
(* API server's calls succeed, clients wait and the process lives.         *)
THEOREM RestoresReplicas == Calm => (Spec => []ReplicasRestored)
<1> SUFFICES ASSUME Calm PROVE Spec => []ReplicasRestored
  OBVIOUS
<1>1. TypeOK /\ LockHeld /\ ReplicasInv /\ [Next]_vars => ReplicasInv'
  BY ReplicasStep
<1>2. ReplicasInv => ReplicasRestored
  BY DEF ReplicasInv, ReplicasRestored, Working, AddedPcs
<1> QED
  BY <1>1, <1>2, TypeInit, TypeStep, LockInit, LockStep, ReplicasInit, PTL DEF Spec

--------------------------------------------------------------------------------
(* The refinement.  As long as no request outlives its lock, what the one  *)
(* that has it knows of the Deployment is true, whichever calls fail.      *)
NoStall == "stall" \notin Faults

LoanInv ==
  /\ slow = {}
  /\ \A c \in Changes : cpc[c] \in {"upGet", "upPut"} => original[c] = replicas
  /\ \A c \in Changes : cpc[c] \in AddedPcs => replicas = original[c] + 1
  /\ \A c \in Changes : cpc[c] \in {"upPut", "downPut"} => seenRv[c] = rv

LEMMA LoanInit == Init => LoanInv /\ Loan!Init
<1> SUFFICES ASSUME Init PROVE LoanInv /\ Loan!Init
  OBVIOUS
<1>1. Borrowers = {}
  BY DEF Init, ChangeInit, Borrowers, AddedPcs
<1> QED
  BY <1>1 DEF Init, ClusterInit, ChangeInit, LoanInv, AddedPcs, Borrower, Loan!Init

(* What a step of a request, or one that ends it, does to the others: it   *)
(* leaves their places alone.                                              *)
Others(d) ==
  /\ \A c \in Changes \ {d} :
       cpc'[c] = cpc[c] /\ original'[c] = original[c] /\ seenRv'[c] = seenRv[c]
  /\ slow' = slow

(* Nobody borrows or repays.                                               *)
LEMMA NotOnLoan ==
  ASSUME UNCHANGED replicas, Borrowers' = Borrowers
  PROVE  UNCHANGED Loan!vars
BY DEF Borrower, Loan!vars

LEMMA OnLoan ==
  ASSUME NEW d \in Changes, Borrowers = {d}
  PROVE  Borrower = d /\ Borrower # None
BY ChangeAssumption DEF Borrower

LEMMA OnLoanNext ==
  ASSUME NEW d \in Changes, Borrowers' = {d}
  PROVE  Borrower' = d
BY DEF Borrower

LEMMA LoanStep ==
  ASSUME TypeOK, LockHeld, LoanInv, NoStall, [Next]_vars
  PROVE  LoanInv' /\ [Loan!Next]_(Loan!vars)
<1>0. /\ cpc \in [Changes -> CPcs] /\ slow = {}
      /\ original \in [Changes -> Nat] /\ seenRv \in [Changes -> Nat]
      /\ replicas \in Nat
      /\ AddedPcs \cup {"upGet", "upPut"} \subseteq ScalePcs
  BY DEF TypeOK, LoanInv, ScalePcs, AddedPcs
<1>e. ASSUME NEW c \in Changes, NEW d \in Changes, cpc[c] \in ScalePcs, cpc[d] \in ScalePcs
      PROVE  c = d
  BY <1>0, <1>e DEF LockHeld, LockPcs
<1>b. \A d \in Changes : cpc[d] \in AddedPcs => Borrowers = {d}
  BY <1>0, <1>e DEF Borrowers
<1>n. \A d \in Changes : cpc[d] \in ScalePcs \ AddedPcs => Borrowers = {}
  BY <1>0, <1>e DEF Borrowers
(* A step of a request that writes nothing to the Deployment.              *)
<1>a. ASSUME NEW d \in Changes, Others(d), UNCHANGED <<replicas, rv>>,
             cpc[d] \in AddedPcs <=> cpc'[d] \in AddedPcs,
             cpc'[d] \in {"upGet", "upPut"} => original'[d] = replicas,
             cpc'[d] \in AddedPcs => original'[d] = original[d],
             cpc'[d] \in {"upPut", "downPut"} => seenRv'[d] = rv
      PROVE  LoanInv' /\ [Loan!Next]_(Loan!vars)
  <2>1. Borrowers' = Borrowers
    BY <1>a DEF Others, Borrowers
  <2>2. LoanInv'
    BY <1>0, <1>a DEF LoanInv, Others
  <2> QED
    BY <1>a, <2>1, <2>2, NotOnLoan
(* A request that ends without giving back what it may have on loan.       *)
<1>d. ASSUME NEW d \in Changes, Others(d), UNCHANGED <<replicas, rv>>,
             cpc'[d] \in {"release", "done"}, ~Calm
      PROVE  LoanInv' /\ [Loan!Next]_(Loan!vars)
  <2>1. LoanInv'
    BY <1>0, <1>d DEF LoanInv, Others, AddedPcs
  <2>2. CASE cpc[d] \notin AddedPcs
    <3>1. Borrowers' = Borrowers
      BY <1>d, <2>2 DEF Others, Borrowers, AddedPcs
    <3> QED
      BY <1>d, <2>1, <3>1, NotOnLoan
  <2>3. CASE cpc[d] \in AddedPcs
    <3>1. Borrowers' = {}
      BY <1>b, <1>d, <2>3 DEF Others, Borrowers, AddedPcs
    <3>2. Borrower' = None /\ Borrower # None
      BY <1>b, <2>3, <3>1, OnLoan DEF Borrower
    <3> QED
      BY <1>d, <2>1, <3>2 DEF Loan!Next, Loan!Default
  <2> QED
    BY <2>2, <2>3
<1>1. ASSUME NEW d \in Changes, HandleChangeNode(d) \/ HandleRestartPod(d)
      PROVE  LoanInv' /\ [Loan!Next]_(Loan!vars)
  <2>1. /\ cpc[d] = "idle" /\ cpc'[d] \in {"lock", "hardOverride", "restart"} /\ Others(d)
        /\ UNCHANGED <<replicas, rv>>
    BY <1>0, <1>1 DEF HandleChangeNode, HandleRestartPod, CGoto, cluster, Others
  <2> QED
    BY <1>a, <2>1 DEF AddedPcs
<1>2. ASSUME NEW d \in Changes, AcquireChangeNodeLock(d)
      PROVE  LoanInv' /\ [Loan!Next]_(Loan!vars)
  <2>1. /\ cpc[d] = "lock" /\ cpc'[d] \in {"override", "done"} /\ Others(d)
        /\ UNCHANGED <<replicas, rv>>
    BY <1>0, <1>2 DEF AcquireChangeNodeLock, NoStall, Continue, Return, Forget, CGoto, cluster,
                      clocals, Others
  <2> QED
    BY <1>a, <2>1 DEF AddedPcs
<1>3. ASSUME NEW d \in Changes, SetNodeOverride(d)
      PROVE  LoanInv' /\ [Loan!Next]_(Loan!vars)
  <2>1. /\ cpc[d] \in {"override", "hardOverride"}
        /\ cpc'[d] \in {"getDeployment", "hardDelete"} /\ Others(d)
        /\ UNCHANGED <<replicas, rv>>
    BY <1>0, <1>3 DEF SetNodeOverride, CGoto, cluster, clocals, Others
  <2> QED
    BY <1>a, <2>1 DEF AddedPcs
<1>4. ASSUME NEW d \in Changes, GetDeployment(d)
      PROVE  LoanInv' /\ [Loan!Next]_(Loan!vars)
  <2>1. /\ cpc[d] = "getDeployment" /\ Others(d)
        /\ \/ cpc'[d] = "upGet" /\ original'[d] = replicas
           \/ cpc'[d] = "release" /\ original' = original
        /\ UNCHANGED <<replicas, rv>>
    BY <1>0, <1>4 DEF GetDeployment, CGoto, cluster, Others
  <2> QED
    BY <1>a, <2>1 DEF AddedPcs
<1>5. ASSUME NEW d \in Changes, GetScale(d)
      PROVE  LoanInv' /\ [Loan!Next]_(Loan!vars)
  <2>1. Others(d) /\ UNCHANGED <<replicas, rv, original>> /\ cpc[d] \in {"upGet", "downGet"}
    BY <1>0, <1>5 DEF GetScale, CGoto, cluster, Others
  <2>2. CASE CApiFails /\ CGoto(d, "release")
    BY <1>0, <1>d, <2>1, <2>2 DEF CApiFails, CGoto, Calm
  <2>3. CASE /\ seenRv' = [seenRv EXCEPT ![d] = rv]
             /\ CGoto(d, IF cpc[d] = "upGet" THEN "upPut" ELSE "downPut")
    <3>1. /\ \/ cpc[d] = "upGet" /\ cpc'[d] = "upPut"
             \/ cpc[d] = "downGet" /\ cpc'[d] = "downPut"
          /\ seenRv'[d] = rv
      BY <1>0, <2>1, <2>3 DEF CGoto
    <3>2. cpc[d] = "upGet" => original'[d] = replicas
      BY <2>1 DEF LoanInv
    <3> QED
      BY <1>a, <2>1, <3>1, <3>2 DEF AddedPcs
  <2> QED
    BY <1>5, <2>2, <2>3 DEF GetScale
<1>6. ASSUME NEW d \in Changes, ScaleUp(d)
      PROVE  LoanInv' /\ [Loan!Next]_(Loan!vars)
  <2>0. cpc[d] = "upPut" /\ seenRv[d] = rv /\ original[d] = replicas /\ Others(d)
        /\ original' = original /\ Borrowers = {} /\ \A c \in Changes \ {d} : cpc[c] \notin ScalePcs
    BY <1>0, <1>e, <1>n, <1>6 DEF ScaleUp, CGoto, clocals, LoanInv, Others, AddedPcs, ScalePcs
  <2>1. CASE UNCHANGED cluster /\ CGoto(d, "release") /\ CApiFails
    BY <1>0, <1>d, <2>0, <2>1 DEF cluster, CApiFails, CGoto, Calm
  <2>2. CASE UpdateScale(seenRv[d], original[d] + 1) /\ CGoto(d, "poll")
    <3>1. replicas' = replicas + 1 /\ cpc'[d] = "poll"
      BY <1>0, <2>0, <2>2 DEF UpdateScale, CGoto
    <3>2. Borrowers' = {d}
      BY <1>0, <2>0, <3>1 DEF Others, Borrowers, AddedPcs, ScalePcs
    <3>3. LoanInv'
      BY <1>0, <2>0, <3>1 DEF LoanInv, Others, AddedPcs, ScalePcs
    <3>4. Borrower' = d /\ Borrower = None
      BY <2>0, <3>2, OnLoanNext DEF Borrower
    <3> QED
      BY <3>1, <3>3, <3>4 DEF Loan!Next, Loan!Borrow
  <2>3. CASE UpdateScale(seenRv[d], original[d] + 1) /\ CGoto(d, "release") /\ "lost" \in Faults
    <3>1. replicas' = replicas + 1 /\ cpc'[d] = "release"
      BY <1>0, <2>0, <2>3 DEF UpdateScale, CGoto
    <3>2. Borrowers' = {}
      BY <1>0, <2>0, <3>1 DEF Others, Borrowers, AddedPcs, ScalePcs
    <3>3. LoanInv'
      BY <1>0, <2>0, <3>1 DEF LoanInv, Others, AddedPcs, ScalePcs
    <3>4. Borrower' = None /\ Borrower = None
      BY <2>0, <3>2 DEF Borrower
    <3> QED
      BY <2>3, <3>1, <3>3, <3>4 DEF Loan!Next, Loan!BorrowUnseen, Calm
  <2> QED
    BY <1>6, <2>0, <2>1, <2>2, <2>3 DEF ScaleUp
<1>7. ASSUME NEW d \in Changes, PollPods(d) \/ PollTimeout(d)
      PROVE  LoanInv' /\ [Loan!Next]_(Loan!vars)
  <2>1. /\ cpc[d] = "poll" /\ cpc'[d] \in {"delete", "downGet"} /\ Others(d)
        /\ UNCHANGED <<replicas, rv, original>>
    BY <1>0, <1>7 DEF PollPods, PollTimeout, CGoto, cluster, clocals, Others
  <2> QED
    BY <1>a, <2>1 DEF AddedPcs
<1>8. ASSUME NEW d \in Changes, DeleteOldPod(d)
      PROVE  LoanInv' /\ [Loan!Next]_(Loan!vars)
  <2>1. UNCHANGED <<replicas, rv>> /\ Others(d)
    BY <1>0, <1>8 DEF DeleteOldPod, RemovePod, cluster, Continue, Return, Forget, CGoto, clocals,
                      Others
  <2>2. \/ cpc[d] = "delete" /\ cpc'[d] = "downGet" /\ original' = original
        \/ cpc[d] \in {"hardDelete", "restart"} /\ cpc'[d] = "done"
    BY <1>0, <1>8 DEF DeleteOldPod, Continue, Return, CGoto, clocals
  <2> QED
    BY <1>a, <2>1, <2>2 DEF AddedPcs
<1>9. ASSUME NEW d \in Changes, ScaleBack(d)
      PROVE  LoanInv' /\ [Loan!Next]_(Loan!vars)
  <2>0. /\ cpc[d] = "downPut" /\ cpc'[d] = "release" /\ seenRv[d] = rv
        /\ replicas = original[d] + 1 /\ original[d] \in Nat /\ Others(d)
    BY <1>0, <1>9 DEF ScaleBack, CGoto, clocals, LoanInv, Others, AddedPcs
  <2>1. CASE UNCHANGED cluster /\ CApiFails
    BY <1>d, <2>0, <2>1 DEF cluster, CApiFails, Calm
  <2>2. CASE UpdateScale(seenRv[d], original[d])
    <3>1. replicas' = replicas - 1 /\ \A c \in Changes : cpc'[c] \notin ScalePcs
      BY <1>0, <1>e, <2>0, <2>2 DEF UpdateScale, Others, ScalePcs
    <3>2. Borrowers' = {} /\ Borrowers = {d}
      BY <1>0, <1>b, <2>0, <3>1 DEF Borrowers, AddedPcs
    <3>3. LoanInv'
      BY <1>0, <2>0, <3>1 DEF LoanInv, Others, AddedPcs, ScalePcs
    <3>4. Borrower' = None /\ Borrower # None
      BY <3>2, OnLoan DEF Borrower
    <3> QED
      BY <3>1, <3>3, <3>4 DEF Loan!Next, Loan!Repay
  <2> QED
    BY <1>9, <2>0, <2>1, <2>2 DEF ScaleBack
<1>10. ASSUME NEW d \in Changes, ReleaseChangeNodeLock(d)
       PROVE  LoanInv' /\ [Loan!Next]_(Loan!vars)
  <2>1. cpc[d] = "release" /\ cpc'[d] = "done" /\ Others(d) /\ UNCHANGED <<replicas, rv>>
    BY <1>0, <1>10 DEF ReleaseChangeNodeLock, Return, Forget, CGoto, cluster, Others
  <2> QED
    BY <1>a, <2>1 DEF AddedPcs
<1>11. CASE UNCHANGED <<replicas, rv, cpc, clocals>>
  <2>1. Borrowers' = Borrowers /\ LoanInv'
    BY <1>0, <1>11 DEF clocals, LoanInv, Borrowers
  <2> QED
    BY <1>11, <2>1, NotOnLoan
<1>12. CASE PlacementStep \/ SchedulerCrash
  <2>1. UNCHANGED <<replicas, rv, cpc, clocals>>
    BY <1>12 DEF PlacementStep, ListPods, SchedulePod, PassDone, AskOptimalNode,
                 ScoreAndSelectNode, BindPod, Bind, SchedulerCrash, cluster, changeVars
  <2> QED
    BY <1>11, <2>1
<1>13. CASE Controllers /\ UNCHANGED changeVars
  <2>1. UNCHANGED <<replicas, rv>>
    BY <1>13 DEF Controllers, CreateReplica, DeleteReplica, RemovePod, BecomeReady
  <2> QED
    BY <1>11, <1>13, <2>1 DEF changeVars
<1>14. CASE ChangeLockExpire \/ OverrideExpire \/ UNCHANGED vars
  BY <1>11, <1>14 DEF ChangeLockExpire, OverrideExpire, vars, cluster, changeVars
<1>15. ASSUME NEW d \in Changes, GiveUpWaiting(d)
       PROVE  LoanInv' /\ [Loan!Next]_(Loan!vars)
  <2>1. cpc'[d] = "done" /\ Others(d) /\ UNCHANGED <<replicas, rv>> /\ ~Calm
    BY <1>0, <1>15 DEF GiveUpWaiting, Return, Forget, CGoto, cluster, Others, Calm
  <2> QED
    BY <1>d, <2>1
<1>16. CASE ExtenderCrash
  <2>1. /\ \A c \in Changes : cpc'[c] \in {"idle", "done"}
        /\ UNCHANGED <<replicas, rv, slow>> /\ ~Calm
    BY <1>0, <1>16 DEF ExtenderCrash, Forget, cluster, Calm
  <2>2. Borrowers' = {} /\ LoanInv'
    BY <1>0, <2>1 DEF Borrowers, LoanInv, AddedPcs
  <2>3. Borrower' = None
    BY <2>2 DEF Borrower
  <2>4. CASE Borrower = None
    BY <2>1, <2>2, <2>3, <2>4 DEF Loan!vars
  <2>5. CASE Borrower # None
    BY <2>1, <2>2, <2>3, <2>5 DEF Loan!Next, Loan!Default
  <2> QED
    BY <2>4, <2>5
<1> QED
  BY <1>1, <1>2, <1>3, <1>4, <1>5, <1>6, <1>7, <1>8, <1>9, <1>10, <1>12, <1>13, <1>14, <1>15, <1>16
     DEF Next, ChangeStep, Environment

(* Requests that do not outlive their lock implement ReplicaLoan, whatever *)
(* else fails: conflicts with one another do not occur, and each replica   *)
(* that is kept for good is the work of one call that failed or of one     *)
(* request that was cut short.                                             *)
THEOREM MigrationImplements == NoStall => (Spec => ImplementsReplicaLoan)
<1> SUFFICES ASSUME NoStall PROVE Spec => ImplementsReplicaLoan
  OBVIOUS
<1>1. TypeOK /\ LockHeld /\ LoanInv /\ [Next]_vars => LoanInv' /\ [Loan!Next]_(Loan!vars)
  BY LoanStep
<1> QED
  BY <1>1, TypeInit, TypeStep, LockInit, LockStep, LoanInit, PTL
     DEF Spec, ImplementsReplicaLoan, Loan!Spec

================================================================================
