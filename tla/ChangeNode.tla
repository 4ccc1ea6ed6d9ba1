------------------------------- MODULE ChangeNode ------------------------------
(***************************************************************************)
(* The /change-node handler of the extender: move a pod of a service to    *)
(* another node by leaving a one-time override in Redis, adding a replica, *)
(* waiting for a ready pod on the target, deleting the old pod and taking  *)
(* the extra replica away again; and /restart, which only deletes a pod.   *)
(* One step is one call to Redis or to the API server.  Definitions named  *)
(* Faulty... are slips the properties must notice; nothing uses them.      *)
(***************************************************************************)
EXTENDS Cluster

CONSTANTS
  Changes,      \* requests to /change-node and /restart
  Endpoints     \* which of the two they go to

ASSUME ChangeAssumption ==
  /\ IsFiniteSet(Changes)
  /\ Endpoints \subseteq {"change-node", "restart"}
  /\ None \notin Changes

VARIABLES
  changeLock,   \* the request whose UUID lock:change-node:<service> holds
  override,     \* scheduler:override:<service>, a node
  (* the locals of each request *)
  cpc,
  old,          \* the pod to move, 0 before the request comes
  target,
  original,     \* replicas before the scale-up
  seenRv,       \* version the scale was read at
  slow,         \* requests that are to outlive their lock
  moved         \* the node it found the new pod on and reports, or None

cstore == <<changeLock, override>>
clocals == <<old, target, original, seenRv, slow, moved>>
changeVars == <<changeLock, override, cpc, clocals>>

CPcs == {"idle", "lock", "override", "getDeployment", "upGet", "upPut", "poll",
         "delete", "downGet", "downPut", "release", "hardOverride", "hardDelete",
         "restart", "done"}

ChangeInit ==
  /\ changeLock = None
  /\ override = None
  /\ cpc = [c \in Changes |-> "idle"]
  /\ old = [c \in Changes |-> 0]
  /\ target = [c \in Changes |-> None]
  /\ original = [c \in Changes |-> 0]
  /\ seenRv = [c \in Changes |-> 0]
  /\ slow = {}
  /\ moved = [c \in Changes |-> None]

CGoto(c, label) == cpc' = [cpc EXCEPT ![c] = label]

(* The locals of a request that has returned are no more.                  *)
Forget(C) ==
  /\ old' = [c \in Changes |-> IF c \in C THEN 0 ELSE old[c]]
  /\ target' = [c \in Changes |-> IF c \in C THEN None ELSE target[c]]
  /\ original' = [c \in Changes |-> IF c \in C THEN 0 ELSE original[c]]
  /\ seenRv' = [c \in Changes |-> IF c \in C THEN 0 ELSE seenRv[c]]
  /\ UNCHANGED <<slow, moved>>

Return(c) == CGoto(c, "done") /\ Forget({c})
Continue(c, label) == CGoto(c, label) /\ UNCHANGED clocals

CRedisFails == "redis" \in Faults
CApiFails == "api" \in Faults

--------------------------------------------------------------------------------
(* The pod and the target node are looked up; without an owning Deployment *)
(* the pod is moved the hard way.                                          *)
HandleChangeNode(c) ==
  /\ cpc[c] = "idle" /\ "change-node" \in Endpoints
  /\ \E p \in Live, n \in {m \in Nodes : Specs[m].ready} :
       /\ old' = [old EXCEPT ![c] = p]
       /\ target' = [target EXCEPT ![c] = n]
  /\ CGoto(c, IF owner = "ReplicaSet" THEN "lock" ELSE "hardOverride")
  /\ UNCHANGED <<cluster, cstore, original, seenRv, slow, moved>>

(* RestartPod: the pod is looked up.  All pods here have an owner.         *)
HandleRestartPod(c) ==
  /\ cpc[c] = "idle" /\ "restart" \in Endpoints
  /\ \E p \in Live : old' = [old EXCEPT ![c] = p]
  /\ CGoto(c, "restart")
  /\ UNCHANGED <<cluster, cstore, target, original, seenRv, slow, moved>>

(* SET without NX.                                                         *)
FaultyAcquireChangeNodeLock(c) ==
  /\ cpc[c] = "lock"
  /\ changeLock' = c
  /\ CGoto(c, "override")
  /\ UNCHANGED <<cluster, override, clocals>>

(* SET NX: a conflict, or a call that fails, ends the request.             *)
AcquireChangeNodeLock(c) ==
  /\ cpc[c] = "lock"
  /\ \/ /\ changeLock = None
        /\ changeLock' = c
        /\ \/ "lost" \in Faults /\ Return(c)
           \/ Continue(c, "override")
           \/ /\ "stall" \in Faults
              /\ CGoto(c, "override") /\ slow' = slow \cup {c}
              /\ UNCHANGED <<old, target, original, seenRv, moved>>
     \/ /\ changeLock # None \/ CRedisFails
        /\ Return(c)
        /\ UNCHANGED changeLock
  /\ UNCHANGED <<cluster, override>>

(* The override is stored before the scale-up; a failure is only logged.   *)
SetNodeOverride(c) ==
  /\ \/ cpc[c] = "override" /\ CGoto(c, "getDeployment")
     \/ cpc[c] = "hardOverride" /\ CGoto(c, "hardDelete")
  /\ \/ override' = target[c]
     \/ CRedisFails /\ UNCHANGED override
  /\ UNCHANGED <<cluster, changeLock, clocals>>

GetDeployment(c) ==
  /\ cpc[c] = "getDeployment"
  /\ \/ /\ original' = [original EXCEPT ![c] = replicas]
        /\ CGoto(c, "upGet")
     \/ CApiFails /\ CGoto(c, "release") /\ UNCHANGED original
  /\ UNCHANGED <<cluster, cstore, old, target, seenRv, slow, moved>>

(* GetScale, of the scale-up and of scaleDeployment.                       *)
GetScale(c) ==
  /\ cpc[c] \in {"upGet", "downGet"}
  /\ \/ /\ seenRv' = [seenRv EXCEPT ![c] = rv]
        /\ CGoto(c, IF cpc[c] = "upGet" THEN "upPut" ELSE "downPut")
     \/ CApiFails /\ CGoto(c, "release") /\ UNCHANGED seenRv
  /\ UNCHANGED <<cluster, cstore, old, target, original, slow, moved>>

(* One replica more.  An error, a conflict included, ends the request.     *)
ScaleUp(c) ==
  /\ cpc[c] = "upPut"
  /\ \/ /\ UpdateScale(seenRv[c], original[c] + 1)
        /\ CGoto(c, "poll") \/ ("lost" \in Faults /\ CGoto(c, "release"))
     \/ /\ CApiFails \/ rv # seenRv[c]
        /\ CGoto(c, "release")
        /\ UNCHANGED cluster
  /\ UNCHANGED <<cstore, clocals>>

(* Whichever pod is ready there counts, the old one too.                   *)
FaultyArrived(c) == \E p \in ready : place[p] = target[c]

(* Some other pod of the service is Running and Ready on the target.       *)
Arrived(c) == \E p \in ready \ {old[c]} : place[p] = target[c]

PollPods(c) ==
  /\ cpc[c] = "poll"
  /\ Arrived(c)
  /\ CGoto(c, "delete")
  /\ moved' = [moved EXCEPT ![c] = target[c]]
  /\ UNCHANGED <<cluster, cstore, old, target, original, seenRv, slow>>

(* A timeout leaves the replica it added.                                  *)
FaultyPollTimeout(c) ==
  /\ cpc[c] = "poll"
  /\ CGoto(c, "release")
  /\ UNCHANGED <<cluster, cstore, clocals>>

(* The deadline is only looked at when the pod has arrived.                *)
FaultyPollTimeoutArrived(c) ==
  /\ cpc[c] = "poll" /\ Arrived(c)
  /\ CGoto(c, "downGet")
  /\ UNCHANGED <<cluster, cstore, clocals>>

(* 90 seconds are over, and no poll showed such a pod.                     *)
PollTimeout(c) ==
  /\ cpc[c] = "poll"
  /\ CGoto(c, "downGet")
  /\ UNCHANGED <<cluster, cstore, clocals>>

(* The old pod is deleted; a failure is only logged.  The hard way and a   *)
(* restart end with this call.                                             *)
DeleteOldPod(c) ==
  /\ \/ cpc[c] = "delete" /\ Continue(c, "downGet")
     \/ cpc[c] \in {"hardDelete", "restart"} /\ Return(c)
  /\ \/ RemovePod(old[c])
     \/ (CApiFails \/ old[c] \notin Live) /\ UNCHANGED cluster
  /\ UNCHANGED cstore

(* scaleDeployment: back to the replicas there were.  A conflict, or any   *)
(* other error, is only logged.                                            *)
ScaleBack(c) ==
  /\ cpc[c] = "downPut"
  /\ \/ UpdateScale(seenRv[c], original[c])
     \/ (CApiFails \/ rv # seenRv[c]) /\ UNCHANGED cluster
  /\ CGoto(c, "release")
  /\ UNCHANGED <<cstore, clocals>>

(* The lock is deleted whoever holds it.                                   *)
FaultyReleaseChangeNodeLock(c) ==
  /\ cpc[c] = "release"
  /\ changeLock' = None \/ (CRedisFails /\ UNCHANGED changeLock)
  /\ Return(c)
  /\ UNCHANGED <<cluster, override>>

(* The deferred release, on the request's own context: deletes the key     *)
(* only if it still holds this request's UUID.                             *)
ReleaseChangeNodeLock(c) ==
  /\ cpc[c] = "release"
  /\ \/ changeLock' = IF changeLock = c THEN None ELSE changeLock
     \/ CRedisFails /\ UNCHANGED changeLock
  /\ Return(c)
  /\ UNCHANGED <<cluster, override>>

ChangeStep(c) ==
  \/ AcquireChangeNodeLock(c) \/ SetNodeOverride(c) \/ GetDeployment(c)
  \/ GetScale(c) \/ ScaleUp(c) \/ PollPods(c) \/ PollTimeout(c)
  \/ DeleteOldPod(c) \/ ScaleBack(c) \/ ReleaseChangeNodeLock(c)

--------------------------------------------------------------------------------
Working(c) == cpc[c] \notin {"idle", "done"}

(* The TTL of the lock exceeds what a request takes unless its calls are   *)
(* slow or nobody is left to release it.                                   *)
ChangeLockExpire ==
  /\ changeLock # None
  /\ changeLock \in slow \/ ~Working(changeLock)
  /\ changeLock' = None
  /\ UNCHANGED <<cluster, override, cpc, clocals>>

OverrideExpire ==
  /\ override # None
  /\ override' = None
  /\ UNCHANGED <<cluster, changeLock, cpc, clocals>>

(* Calls go out on the context of the HTTP request.  When the client gives *)
(* up all calls to come fail, the release of the lock among them, so that  *)
(* the request has no more effect and returns.                             *)
GiveUpWaiting(c) ==
  /\ "cancel" \in Faults
  /\ Working(c)
  /\ Return(c)
  /\ UNCHANGED <<cluster, cstore>>

ExtenderCrash ==
  /\ "crash" \in Faults
  /\ \E c \in Changes : Working(c)
  /\ cpc' = [c \in Changes |-> IF cpc[c] = "idle" THEN "idle" ELSE "done"]
  /\ Forget(Changes)
  /\ UNCHANGED <<cluster, cstore>>
================================================================================
