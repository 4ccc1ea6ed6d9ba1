------------------------------ MODULE Reservation ------------------------------
(***************************************************************************)
(* Scheduler.Schedule and what runs beside it: concurrent requests that    *)
(* list the node records in Redis without a lock, then lock, recheck,      *)
(* reserve, validate, bind and, when the bind fails, roll back; the sync   *)
(* from the API server that merges node records; and the environment: lock *)
(* TTLs, calls that fail or whose reply is lost, clients that give up,     *)
(* crashes, nodes that change, pods that go away or are bound by others.   *)
(*                                                                         *)
(* A step is one call to Redis or to the API server with the local code up *)
(* to the next one.  A request is one invocation of Schedule, with the     *)
(* UUID of whatever lock it takes.  Definitions named Faulty... are slips  *)
(* the properties must notice (see NodeLedger); nothing uses them.         *)
(***************************************************************************)
EXTENDS NodeLedger, Weights

CONSTANTS
  Requests,
  PodOf,          \* request -> the pod it schedules
  Missing,        \* pods whose cpu or memory requests come to zero
  CandidateSets,  \* the node lists a request can come with
  Decided,        \* nodes that the decision of the pod's service can name
  Views, InitView,\* what nodes can look like in the API server, and at first
  MaxChanges,     \* bound: node changes in the API server
  Faults,         \* which of FaultKinds can happen
  None, Unbound, Gone

FaultKinds ==
  {"redis",   \* a Redis call fails and has no effect
   "api",     \* an API server call fails and has no effect
   "lost",    \* a call has its effect and its reply is lost
   "cancel",  \* the HTTP client gives up: the request's context is cancelled
   "crash",   \* the process dies between two calls
   "binder",  \* the pod is bound by another scheduler
   "delete"}  \* the pod is deleted

ASSUME ReservationAssumption ==
  /\ IsFiniteSet(Requests)
  /\ PodOf \in [Requests -> Pods]
  /\ Missing \subseteq Pods
  /\ CandidateSets \subseteq SUBSET Nodes
  /\ Decided \subseteq Nodes
  /\ Views \subseteq View
  /\ InitView \in [Nodes -> Views]
  /\ MaxChanges \in Nat
  /\ Faults \subseteq FaultKinds
  /\ None \notin Nodes \cup Requests
  /\ Unbound \notin Nodes /\ Gone \notin Nodes /\ Unbound # Gone

VARIABLES
  (* Redis *)
  known,      \* nodes with a record node:<name>
  meta,       \* node -> the part of its record the sync writes
  usage,      \* node -> the part of its record the scripts write
  lock,       \* node -> the request whose UUID lock:node:<name> holds
  (* the API server *)
  view,       \* node -> what the API server says of it
  bound,      \* pod -> its spec.nodeName, or Gone
  changes,    \* node changes so far
  (* the sync from the API server to Redis *)
  syncTodo, listed, syncCur, peek,
  (* the locals of each request *)
  pc,
  unread,     \* keys the SCAN returned, not read yet
  todo,       \* scored nodes not tried yet
  snap,       \* usage of each of them as listed
  cur,        \* node under way
  valid,      \* nodes of the request that pass validateAPINode
  first,      \* nodes[0]
  cancelled,
  (* ghost *)
  granted     \* node -> requests whose reservation its record counts

redis == <<known, meta, usage, lock>>
api == <<view, bound, changes>>
syncer == <<syncTodo, listed, syncCur, peek>>
locals == <<unread, todo, snap, cur, valid, first, cancelled>>
vars == <<redis, api, syncer, pc, locals, granted>>

Req(r) == Intent[PodOf[r]].req

ClaimPcs == {"release", "bindGet", "bindPut", "rollback"}
LockPcs == {"recheck", "reserve", "giveUp", "release"}
BindPcs == {"fastGet", "fastPut", "simpleGet", "simplePut"}
Pcs == {"idle", "intent", "list", "getPod", "next", "done"}
         \cup BindPcs \cup LockPcs \cup ClaimPcs

(* Redis starts empty: the first sync comes one interval after the start.  *)
Init ==
  /\ known = {}
  /\ meta = InitView
  /\ usage = [n \in Nodes |-> NewUsage]
  /\ lock = [n \in Nodes |-> None]
  /\ view = InitView
  /\ bound = [p \in Pods |-> Unbound]
  /\ changes = 0
  /\ syncTodo = {} /\ listed = InitView /\ syncCur = None /\ peek = NewUsage
  /\ pc = [r \in Requests |-> "idle"]
  /\ unread = [r \in Requests |-> {}]
  /\ todo = [r \in Requests |-> {}]
  /\ snap = [r \in Requests |-> [n \in Nodes |-> NewUsage]]
  /\ cur = [r \in Requests |-> None]
  /\ valid = [r \in Requests |-> {}]
  /\ first = [r \in Requests |-> None]
  /\ cancelled = [r \in Requests |-> FALSE]
  /\ granted = [n \in Nodes |-> {}]

--------------------------------------------------------------------------------
(* How calls go.  A call on the context of a request whose client has gone *)
(* fails before it is sent.                                                *)
Answers(r) == ~cancelled[r]
RedisFails(r) == "redis" \in Faults \/ cancelled[r]
ApiFails(r) == "api" \in Faults \/ cancelled[r]

Goto(r, label) == pc' = [pc EXCEPT ![r] = label]

(* Schedule returns; its locals are gone.                                  *)
Return(r) ==
  /\ Goto(r, "done")
  /\ unread' = [unread EXCEPT ![r] = {}]
  /\ todo' = [todo EXCEPT ![r] = {}]
  /\ snap' = [snap EXCEPT ![r] = [n \in Nodes |-> NewUsage]]
  /\ cur' = [cur EXCEPT ![r] = None]
  /\ valid' = [valid EXCEPT ![r] = {}]
  /\ first' = [first EXCEPT ![r] = None]
  /\ cancelled' = [cancelled EXCEPT ![r] = FALSE]

(* A node that failed stays among those to try.                            *)
FaultyNextNodeAgain(r, n) ==
  /\ Goto(r, "next")
  /\ cur' = [cur EXCEPT ![r] = None]
  /\ UNCHANGED <<unread, todo, snap, valid, first, cancelled>>

(* The loop of reserveAndBind moves on to the next scored node.            *)
NextNode(r, n) ==
  /\ Goto(r, "next")
  /\ todo' = [todo EXCEPT ![r] = @ \ {n}]
  /\ cur' = [cur EXCEPT ![r] = None]
  /\ UNCHANGED <<unread, snap, valid, first, cancelled>>

--------------------------------------------------------------------------------
(* A request arrives.  Without nodes it is an error.  The decision of the  *)
(* pod's service may name a candidate, which is then bound directly;       *)
(* otherwise, or when the lookup fails, the intent is extracted.           *)
Schedule(r) ==
  /\ pc[r] = "idle"
  /\ \E cand \in CandidateSets :
       \/ cand = {} /\ Return(r)
       \/ \E f \in cand :
            /\ first' = [first EXCEPT ![r] = f]
            /\ valid' = [valid EXCEPT ![r] =
                           {n \in cand : ValidAPINode(PodOf[r], view[n])}]
            /\ \/ \E best \in cand \cap Decided :
                    /\ cur' = [cur EXCEPT ![r] = best]
                    /\ Goto(r, "fastGet")
               \/ UNCHANGED cur /\ Goto(r, "intent")
            /\ UNCHANGED <<unread, todo, snap, cancelled>>
  /\ UNCHANGED <<redis, api, syncer, granted>>

(* The fallback binds to the node under way instead of nodes[0].           *)
FaultySimpleTargetCur(r) == cur[r]

(* bindPodSimple, for the decided node and for the fallback to nodes[0].   *)
(* When the decided node cannot be bound the request goes on as if there   *)
(* were no decision; a fallback returns whatever happens.                  *)
SimpleTarget(r) == IF pc[r] \in {"fastGet", "fastPut"} THEN cur[r] ELSE first[r]

SimpleFailed(r) ==
  IF pc[r] \in {"fastGet", "fastPut"}
    THEN /\ Goto(r, "intent")
         /\ cur' = [cur EXCEPT ![r] = None]
         /\ UNCHANGED <<unread, todo, snap, valid, first, cancelled>>
    ELSE Return(r)

BindPodSimpleGet(r) ==
  /\ pc[r] \in {"fastGet", "simpleGet"}
  /\ \/ /\ Answers(r) /\ bound[PodOf[r]] = Unbound
        /\ Goto(r, IF pc[r] = "fastGet" THEN "fastPut" ELSE "simplePut")
        /\ UNCHANGED locals
     \/ Answers(r) /\ bound[PodOf[r]] \in Nodes /\ Return(r)
     \/ (ApiFails(r) \/ bound[PodOf[r]] = Gone) /\ SimpleFailed(r)
  /\ UNCHANGED <<redis, api, syncer, granted>>

(* The API server's Bind: it refuses a pod that is bound or gone.          *)
BindAt(p, n) ==
  /\ bound[p] = Unbound
  /\ bound' = [bound EXCEPT ![p] = n]
  /\ UNCHANGED <<view, changes>>

BindPodSimplePut(r) ==
  /\ pc[r] \in {"fastPut", "simplePut"}
  /\ \/ /\ Answers(r) /\ BindAt(PodOf[r], SimpleTarget(r))
        /\ Return(r) \/ ("lost" \in Faults /\ SimpleFailed(r))
     \/ /\ ApiFails(r) \/ bound[PodOf[r]] # Unbound
        /\ SimpleFailed(r)
        /\ UNCHANGED api
  /\ UNCHANGED <<redis, syncer, granted>>

--------------------------------------------------------------------------------
(* extractPodIntent, then the SCAN of ListNodeStates.  A pod without       *)
(* requests, or a failed SCAN, falls back to nodes[0].                     *)
ExtractIntent(r) ==
  /\ pc[r] = "intent"
  /\ \/ /\ PodOf[r] \notin Missing /\ Answers(r)
        /\ Goto(r, "list")
        /\ unread' = [unread EXCEPT ![r] = known]
     \/ /\ PodOf[r] \in Missing \/ RedisFails(r)
        /\ Goto(r, "simpleGet")
        /\ UNCHANGED unread
  /\ UNCHANGED <<redis, api, syncer, todo, snap, cur, valid, first, cancelled, granted>>

(* One GET of ListNodeStates, and the filter's verdict on that record.  A  *)
(* GET that fails skips the node.                                          *)
ReadNode(r) ==
  /\ pc[r] = "list"
  /\ \E n \in unread[r] :
       /\ unread' = [unread EXCEPT ![r] = @ \ {n}]
       /\ \/ /\ Answers(r) /\ Fits(PodOf[r], n, meta[n], usage[n])
             /\ todo' = [todo EXCEPT ![r] = @ \cup {n}]
             /\ snap' = [snap EXCEPT ![r][n] = usage[n]]
          \/ /\ RedisFails(r) \/ ~Fits(PodOf[r], n, meta[n], usage[n])
             /\ UNCHANGED <<todo, snap>>
  /\ UNCHANGED <<redis, api, syncer, pc, cur, valid, first, cancelled, granted>>

(* Every listed node has been read: fall back when none passed the filter. *)
(* Scores and round robin only order todo, which the loop below does not.  *)
FilterDone(r) ==
  /\ pc[r] = "list" /\ unread[r] = {}
  /\ Goto(r, IF todo[r] = {} THEN "simpleGet" ELSE "getPod")
  /\ UNCHANGED <<redis, api, syncer, locals, granted>>

(* The Get at the head of reserveAndBind: a bound pod is left alone.       *)
GetPod(r) ==
  /\ pc[r] = "getPod"
  /\ \/ Answers(r) /\ bound[PodOf[r]] = Unbound /\ Goto(r, "next") /\ UNCHANGED locals
     \/ Answers(r) /\ bound[PodOf[r]] \in Nodes /\ Return(r)
     \/ /\ ApiFails(r) \/ bound[PodOf[r]] = Gone
        /\ Goto(r, "simpleGet") /\ UNCHANGED locals
  /\ UNCHANGED <<redis, api, syncer, granted>>

(* SET NX of the lock of some node not tried yet.  A lock that is held, or *)
(* a call that fails, drops the node; a lost reply leaves the lock behind. *)
LockNode(r) ==
  /\ pc[r] = "next"
  /\ \E n \in todo[r] :
       \/ /\ Answers(r) /\ lock[n] = None
          /\ lock' = [lock EXCEPT ![n] = r]
          /\ \/ /\ Goto(r, "recheck")
                /\ cur' = [cur EXCEPT ![r] = n]
                /\ UNCHANGED <<unread, todo, snap, valid, first, cancelled>>
             \/ "lost" \in Faults /\ NextNode(r, n)
       \/ /\ lock[n] # None \/ RedisFails(r)
          /\ NextNode(r, n)
          /\ UNCHANGED lock
  /\ UNCHANGED <<known, meta, usage, api, syncer, granted>>

(* No node left: nodes[0] is returned and the pod is not bound.            *)
Exhausted(r) ==
  /\ pc[r] = "next" /\ todo[r] = {}
  /\ Return(r)
  /\ UNCHANGED <<redis, api, syncer, granted>>

(* GetNodeState under the lock, version check, constraints once more.      *)
StillFits(r) ==
  LET n == cur[r] IN
  /\ usage[n].version = snap[r][n].version
  /\ Fits(PodOf[r], n, meta[n], usage[n])

Recheck(r) ==
  /\ pc[r] = "recheck"
  /\ \/ Answers(r) /\ StillFits(r) /\ Goto(r, "reserve")
     \/ (RedisFails(r) \/ ~StillFits(r)) /\ Goto(r, "giveUp")
  /\ UNCHANGED <<redis, api, syncer, locals, granted>>

(* The reserve script checks the room and not the version.                 *)
FaultyScriptAcceptsAnyVersion(r) == HasRoom(usage[cur[r]], cur[r], Req(r))

(* The reserve script: version and room are checked and the record charged *)
(* in one atomic step.  When the reply is lost the request believes it has *)
(* no reservation.                                                         *)
ScriptAccepts(r) ==
  LET n == cur[r] IN
  /\ usage[n].version = snap[r][n].version
  /\ HasRoom(usage[n], n, Req(r))

ReserveResources(r) ==
  /\ pc[r] = "reserve"
  /\ Answers(r) /\ ScriptAccepts(r)
  /\ usage' = [usage EXCEPT ![cur[r]] = Charged(@, Req(r))]
  /\ granted' = [granted EXCEPT ![cur[r]] = @ \cup {r}]
  /\ Goto(r, "release") \/ ("lost" \in Faults /\ Goto(r, "giveUp"))
  /\ UNCHANGED <<known, meta, lock, api, syncer, locals>>

(* The error of the reserve script is ignored.                             *)
FaultyReserveRefusedIgnored(r) ==
  /\ pc[r] = "reserve"
  /\ RedisFails(r) \/ ~ScriptAccepts(r)
  /\ Goto(r, "release")
  /\ UNCHANGED <<redis, api, syncer, locals, granted>>

(* The script refuses, or the call fails.                                  *)
ReserveRefused(r) ==
  /\ pc[r] = "reserve"
  /\ RedisFails(r) \/ ~ScriptAccepts(r)
  /\ Goto(r, "giveUp")
  /\ UNCHANGED <<redis, api, syncer, locals, granted>>

(* The lock is deleted whoever holds it.                                   *)
FaultyUnlockNodeAnyOwner(r, n) ==
  \/ lock' = [lock EXCEPT ![n] = None]
  \/ "redis" \in Faults /\ UNCHANGED lock

(* The unlock script deletes the key only if it still holds this request's *)
(* UUID.  It runs on a context of its own and its result is ignored.       *)
UnlockNode(r, n) ==
  \/ lock' = [lock EXCEPT ![n] = IF @ = r THEN None ELSE @]
  \/ "redis" \in Faults /\ UNCHANGED lock

(* Unlock after a failed recheck or reservation; on to the next node.      *)
GiveUp(r) ==
  /\ pc[r] = "giveUp"
  /\ UnlockNode(r, cur[r])
  /\ NextNode(r, cur[r])
  /\ UNCHANGED <<known, meta, usage, api, syncer, granted>>

(* A node that fails validation is left without a rollback.                *)
FaultyReleaseKeeps(r) ==
  /\ pc[r] = "release"
  /\ UnlockNode(r, cur[r])
  /\ IF cur[r] \in valid[r] THEN Goto(r, "bindGet") /\ UNCHANGED locals
                           ELSE NextNode(r, cur[r])
  /\ UNCHANGED <<known, meta, usage, api, syncer, granted>>

(* Unlock after a reservation, then validate the node as it came with the  *)
(* request.                                                                *)
Release(r) ==
  /\ pc[r] = "release"
  /\ UnlockNode(r, cur[r])
  /\ Goto(r, IF cur[r] \in valid[r] THEN "bindGet" ELSE "rollback")
  /\ UNCHANGED <<known, meta, usage, api, syncer, locals, granted>>

(* bindPod: a pod that is bound, wherever to, counts as success.           *)
BindPodGet(r) ==
  /\ pc[r] = "bindGet"
  /\ \/ Answers(r) /\ bound[PodOf[r]] = Unbound /\ Goto(r, "bindPut") /\ UNCHANGED locals
     \/ Answers(r) /\ bound[PodOf[r]] \in Nodes /\ Return(r)
     \/ /\ ApiFails(r) \/ bound[PodOf[r]] = Gone
        /\ Goto(r, "rollback") /\ UNCHANGED locals
  /\ UNCHANGED <<redis, api, syncer, granted>>

BindPodPut(r) ==
  /\ pc[r] = "bindPut"
  /\ \/ /\ Answers(r) /\ BindAt(PodOf[r], cur[r])
        /\ Return(r) \/ ("lost" \in Faults /\ Goto(r, "rollback") /\ UNCHANGED locals)
     \/ /\ ApiFails(r) \/ bound[PodOf[r]] # Unbound
        /\ Goto(r, "rollback")
        /\ UNCHANGED <<api, locals>>
  /\ UNCHANGED <<redis, syncer, granted>>

(* The rollback script, on the request's own context; its result is        *)
(* ignored, so a call that fails leaves the record charged.                *)
RollbackResources(r) ==
  /\ pc[r] = "rollback"
  /\ \/ /\ Answers(r)
        /\ usage' = [usage EXCEPT ![cur[r]] = Refunded(@, Req(r))]
        /\ granted' = [granted EXCEPT ![cur[r]] = @ \ {r}]
     \/ RedisFails(r) /\ UNCHANGED <<usage, granted>>
  /\ NextNode(r, cur[r])
  /\ UNCHANGED <<known, meta, lock, api, syncer>>

--------------------------------------------------------------------------------
(* syncNodes: list the nodes, then for each one UpdateNodeStateFromAPI     *)
(* reads the record and SetNodeState merges it.                            *)
SyncList ==
  /\ syncTodo = {}
  /\ syncTodo' = Nodes
  /\ listed' = view
  /\ UNCHANGED <<redis, api, syncCur, peek, pc, locals, granted>>

(* A record that is missing or cannot be read counts as unused.            *)
SyncRead(n) ==
  /\ syncCur = None /\ n \in syncTodo
  /\ syncCur' = n
  /\ \/ n \in known /\ peek' = usage[n]
     \/ (n \notin known \/ "redis" \in Faults) /\ peek' = NewUsage
  /\ UNCHANGED <<redis, api, syncTodo, listed, pc, locals, granted>>

(* The merge writes the usage it read earlier along with the view.         *)
FaultyMergeNodeStateOverwrites(n) ==
  /\ known' = known \cup {n}
  /\ meta' = [meta EXCEPT ![n] = listed[n]]
  /\ usage' = [usage EXCEPT ![n] = peek]

(* The merge leaves a record that exists alone.                            *)
FaultyMergeNodeStateOnce(n) ==
  /\ known' = known \cup {n}
  /\ IF n \in known THEN UNCHANGED <<meta, usage>>
                    ELSE /\ meta' = [meta EXCEPT ![n] = listed[n]]
                         /\ usage' = [usage EXCEPT ![n] = peek]

(* The merge script: the view is overwritten, the usage is set only when   *)
(* there was no record.                                                    *)
MergeNodeState(n) ==
  /\ known' = known \cup {n}
  /\ meta' = [meta EXCEPT ![n] = listed[n]]
  /\ IF n \in known THEN UNCHANGED usage
                    ELSE usage' = [usage EXCEPT ![n] = peek]

SyncMerge ==
  /\ syncCur # None
  /\ MergeNodeState(syncCur) \/ ("redis" \in Faults /\ UNCHANGED <<known, meta, usage>>)
  /\ syncCur' = None
  /\ syncTodo' = syncTodo \ {syncCur}
  /\ peek' = NewUsage
  /\ UNCHANGED <<lock, api, listed, pc, locals, granted>>

Sync == SyncList \/ (\E n \in Nodes : SyncRead(n)) \/ SyncMerge

--------------------------------------------------------------------------------
(* The environment.                                                        *)
LockExpire(n) ==
  /\ lock[n] # None
  /\ lock' = [lock EXCEPT ![n] = None]
  /\ UNCHANGED <<known, meta, usage, api, syncer, pc, locals, granted>>

Cancel(r) ==
  /\ "cancel" \in Faults
  /\ pc[r] \notin {"idle", "done"} /\ ~cancelled[r]
  /\ cancelled' = [cancelled EXCEPT ![r] = TRUE]
  /\ UNCHANGED <<redis, api, syncer, pc, unread, todo, snap, cur, valid, first, granted>>

(* The process dies, and with it the requests under way and the sync; what *)
(* it left in Redis stays.                                                 *)
Crash ==
  /\ "crash" \in Faults
  /\ \E r \in Requests : pc[r] \notin {"idle", "done"}
  /\ pc' = [r \in Requests |-> IF pc[r] = "idle" THEN "idle" ELSE "done"]
  /\ unread' = [r \in Requests |-> {}]
  /\ todo' = [r \in Requests |-> {}]
  /\ snap' = [r \in Requests |-> [n \in Nodes |-> NewUsage]]
  /\ cur' = [r \in Requests |-> None]
  /\ valid' = [r \in Requests |-> {}]
  /\ first' = [r \in Requests |-> None]
  /\ cancelled' = [r \in Requests |-> FALSE]
  /\ syncTodo' = {} /\ listed' = InitView /\ syncCur' = None /\ peek' = NewUsage
  /\ UNCHANGED <<redis, api, granted>>

NodeChange(n) ==
  /\ changes < MaxChanges
  /\ changes' = changes + 1
  /\ \E v \in Views \ {view[n]} : view' = [view EXCEPT ![n] = v]
  /\ UNCHANGED <<redis, bound, syncer, pc, locals, granted>>

BindElsewhere(p) ==
  /\ "binder" \in Faults
  /\ \E n \in Nodes : BindAt(p, n)
  /\ UNCHANGED <<redis, syncer, pc, locals, granted>>

DeletePod(p) ==
  /\ "delete" \in Faults
  /\ bound[p] # Gone
  /\ bound' = [bound EXCEPT ![p] = Gone]
  /\ UNCHANGED <<redis, view, changes, syncer, pc, locals, granted>>

Environment ==
  \/ \E n \in Nodes : LockExpire(n) \/ NodeChange(n)
  \/ \E r \in Requests : Cancel(r)
  \/ \E p \in Pods : BindElsewhere(p) \/ DeletePod(p)
  \/ Crash

Handler(r) ==
  \/ BindPodSimpleGet(r) \/ BindPodSimplePut(r)
  \/ ExtractIntent(r) \/ ReadNode(r) \/ FilterDone(r)
  \/ GetPod(r) \/ LockNode(r) \/ Exhausted(r) \/ Recheck(r)
  \/ ReserveResources(r) \/ ReserveRefused(r) \/ GiveUp(r) \/ Release(r)
  \/ BindPodGet(r) \/ BindPodPut(r) \/ RollbackResources(r)

Next ==
  \/ \E r \in Requests : Schedule(r) \/ Handler(r)
  \/ Sync
  \/ Environment

Spec == Init /\ [][Next]_vars

(* Goroutines that can run do run, the ticker of the sync ticks, and Redis *)
(* expires a lock whose TTL is over.                                       *)
Fairness ==
  /\ \A r \in Requests : WF_vars(Handler(r))
  /\ \A n \in Nodes : WF_vars(LockExpire(n))
  /\ WF_vars(Sync)

FairSpec == Spec /\ Fairness

--------------------------------------------------------------------------------
RedisTypeOK ==
  /\ known \subseteq Nodes
  /\ meta \in [Nodes -> View]
  /\ usage \in [Nodes -> Usage]
  /\ lock \in [Nodes -> Requests \cup {None}]

ApiTypeOK ==
  /\ view \in [Nodes -> Views]
  /\ bound \in [Pods -> Nodes \cup {Unbound, Gone}]
  /\ changes \in 0..MaxChanges

SyncerTypeOK ==
  /\ syncTodo \subseteq Nodes
  /\ listed \in [Nodes -> Views]
  /\ syncCur \in Nodes \cup {None}
  /\ peek \in Usage

LocalsTypeOK ==
  /\ pc \in [Requests -> Pcs]
  /\ unread \in [Requests -> SUBSET Nodes]
  /\ todo \in [Requests -> SUBSET Nodes]
  /\ snap \in [Requests -> [Nodes -> Usage]]
  /\ cur \in [Requests -> Nodes \cup {None}]
  /\ valid \in [Requests -> SUBSET Nodes]
  /\ first \in [Requests -> Nodes \cup {None}]
  /\ cancelled \in [Requests -> BOOLEAN]

(* What a request has at hand where the code relies on it: a node under    *)
(* way from the lock on and on the decided path, and a first node to fall  *)
(* back to until Schedule returns.                                         *)
LocalsAtHand ==
  \A r \in Requests :
    /\ pc[r] \in LockPcs \cup ClaimPcs => cur[r] \in todo[r]
    /\ pc[r] \in {"fastGet", "fastPut"} => cur[r] \in Nodes
    /\ pc[r] \notin {"idle", "done"} => first[r] \in Nodes

(* Types: every variable, whatever the interleaving and the faults.        *)
TypeOK ==
  /\ RedisTypeOK /\ ApiTypeOK /\ SyncerTypeOK /\ LocalsTypeOK
  /\ granted \in [Nodes -> SUBSET Requests]
  /\ LocalsAtHand

(* What the requests with a reservation on n take of resource x.           *)
Asked(x) == [r \in Requests |-> Req(r)[x]]
Taken(n, x) == Weight(granted[n], Asked(x))

(* The ledger never promises more of a node than it has, however many      *)
(* requests race on it, lose their lock to its TTL, roll back or crash:    *)
(* what lock, version check and reserve script are there for.              *)
NoOvercommit ==
  \A n \in Nodes :
    /\ \A x \in Resources : Taken(n, x) <= Alloc[n][x]
    /\ Cardinality(granted[n]) <= PodsAlloc[n]

(* The counters of a record are the sum of the reservations that stand on  *)
(* it: no reserve, rollback or merge is lost, doubled or applied to a      *)
(* record it was not meant for.                                            *)
LedgerExact ==
  \A n \in Nodes :
    /\ \A x \in Resources : usage[n].used[x] = Taken(n, x)
    /\ usage[n].pods = Cardinality(granted[n])

(* A request about to validate, bind or roll back does hold a reservation  *)
(* on its node, so a bind is never made, and a rollback never taken, on    *)
(* somebody else's account.                                                *)
ClaimsCounted ==
  \A r \in Requests : pc[r] \in ClaimPcs => cur[r] \in Nodes /\ r \in granted[cur[r]]

(* Reservations are made on the usage the request listed and scored, not   *)
(* on one that looks the same by its version: nothing came in between, or  *)
(* the script refused (the version check, and the bump in every script).   *)
GrantOnDecidedState ==
  [][\A n \in Nodes : \A r \in granted'[n] \ granted[n] : usage[n] = snap[r][n]]_vars

(* A lock goes away through a step of the request that took it, or through *)
(* its TTL; never through the late unlock of an earlier owner.             *)
UnlockOnlyOwn ==
  [][\A n \in Nodes, r \in Requests :
       lock[n] = r /\ lock'[n] # r => pc'[r] # pc[r] \/ pc' = pc]_vars

(* The record a request listed is the record there is, or its version has  *)
(* moved on: versions only grow, and none is ever used for two usages.     *)
SnapFaithful ==
  \A r \in Requests : \A n \in todo[r] :
    /\ snap[r][n].version <= usage[n].version
    /\ snap[r][n].version = usage[n].version => snap[r][n] = usage[n]

(* Requests only ever touch nodes Redis has a record of, and a node without *)
(* one is unused, also in the eyes of the sync.                            *)
UnknownUnused ==
  /\ \A r \in Requests : unread[r] \cup todo[r] \subseteq known
  /\ \A n \in Nodes \ known : usage[n] = NewUsage
  /\ syncCur \in Nodes \ known => peek = NewUsage

(* A request never holds a reservation on a node it has yet to try, and    *)
(* none at all before it tries the first.                                  *)
TryPcs == {"next", "done"} \cup LockPcs \cup ClaimPcs

GrantedTried ==
  \A n \in Nodes : \A r \in granted[n] :
    /\ pc[r] \in TryPcs
    /\ n \in todo[r] => cur[r] = n /\ pc[r] \in ClaimPcs \cup {"giveUp"}

(* The inductive invariant.                                                *)
Inv ==
  /\ TypeOK /\ UnknownUnused /\ SnapFaithful /\ GrantedTried
  /\ ClaimsCounted /\ LedgerExact /\ NoOvercommit

(* Every reservation is either still answered for by the request that made *)
(* it or belongs to a pod on that node: a bind that fails, or a node that  *)
(* fails validation, gives its share back.                                 *)
NothingStranded ==
  \A n \in Nodes : \A r \in granted[n] :
    \/ pc[r] \in ClaimPcs /\ cur[r] = n
    \/ bound[PodOf[r]] = n

(* No pod is bound to a node of another architecture.                      *)
NeverWrongArch ==
  [][\A p \in Pods : bound'[p] # bound[p] /\ bound'[p] \in Nodes
       => view[bound'[p]].arch = Intent[p].arch]_vars

(* Every request returns, whatever locks are held, lost or left behind by  *)
(* others: no request waits for another.                                   *)
EveryRequestReturns ==
  \A r \in Requests : pc[r] \notin {"idle", "done"} ~> pc[r] = "done"

(* The sync brings Redis to the API server's view of every node.           *)
RedisConverges == <>[](\A n \in Nodes : n \in known /\ meta[n] = view[n])

================================================================================
