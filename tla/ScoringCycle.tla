----------------------------- MODULE ScoringCycle ------------------------------
(***************************************************************************)
(* The scorer's cycle: it discovers the services and the nodes, and        *)
(* computes a decision for one service after the other, counting which     *)
(* node it chose how often so that the services do not all choose the      *)
(* same.  Pods come and go and nodes change between two computations; what *)
(* can happen within one, a change of the preference among it, is the      *)
(* subject of Decisions.                                                   *)
(***************************************************************************)
EXTENDS Scoring

CONSTANTS
  Statuses,       \* what a node can look like
  InitStatus, InitWhere,
  Prefs,          \* preferences the users may have set
  MetricSets,     \* what the graph may say, NoMetrics among it when it is down
  Faults

ASSUME CycleAssumption ==
  /\ InitStatus \in [Nodes -> Statuses] /\ Statuses \subseteq NodeStatus
  /\ InitWhere \in [Pods -> Nodes \cup {None}]
  /\ \A m \in MetricSets : WellFormed(m)
  /\ Prefs \subseteq [Services -> Nodes \cup {None}]
  /\ Faults \subseteq {"redis", "api", "list", "crash", "pods", "nodes"}

VARIABLES
  where, status,  \* the API server: pod -> node, node -> status
  pref,           \* preference of the service's user, or None
  decisions,      \* Redis: service -> decision
  todo, listed,   \* services left of the cycle, and its nodes
  selections,     \* CycleState.NodeSelections
  scored          \* services with a scored decision of this cycle in Redis

cluster == <<where, status>>
cycle == <<todo, listed, selections, scored>>
vars == <<cluster, pref, decisions, cycle>>

NoDecision == [status |-> "none", best |-> None]
Zero == [n \in Nodes |-> 0]

Init ==
  /\ where = InitWhere /\ status = InitStatus
  /\ pref \in Prefs
  /\ decisions = [s \in Services |-> NoDecision]
  /\ todo = {} /\ listed = {} /\ selections = Zero /\ scored = {}

PodsOn(n) == {p \in Pods : where[p] = n}

Runtime == [n \in Nodes |-> [status |-> status[n], pods |-> PodsOn(n)]]

(* When the pods cannot be listed every node looks empty.                  *)
EmptyRuntime == [n \in Nodes |-> [status |-> status[n], pods |-> {}]]
Runtimes == {Runtime} \cup (IF "list" \in Faults THEN {EmptyRuntime} ELSE {})
NoRuntime == [n \in {} |-> None]

ApiFails == "api" \in Faults
RedisFails == "redis" \in Faults

--------------------------------------------------------------------------------
Index == {p \in Pods : where[p] # None /\ ServiceOf[p] # None}

(* The choices of the last cycle still count.                              *)
FaultyDiscover ==
  /\ todo = {} /\ Index # {}
  /\ todo' = {ServiceOf[p] : p \in Index}
  /\ listed' = Nodes
  /\ UNCHANGED <<cluster, pref, decisions, selections, scored>>

(* Without a service on any node, or without an answer, there is nothing   *)
(* to do.  When only the nodes cannot be listed, those with pods make do.  *)
Discover ==
  /\ todo = {} /\ Index # {}
  /\ todo' = {ServiceOf[p] : p \in Index}
  /\ \/ listed' = Nodes
     \/ ApiFails /\ listed' = {where[p] : p \in Index}
  /\ selections' = Zero /\ scored' = {}
  /\ UNCHANGED <<cluster, pref, decisions>>

Done(s) == todo' = todo \ {s} /\ UNCHANGED <<cluster, pref, listed>>

(* The lowest name among the nodes that are not tainted; all count when    *)
(* their taints cannot be read.  Scores, 50 for a worker and 30 for a      *)
(* primary node, do not matter to the choice.                              *)
NeutralDecision(rt) == [status |-> "NoMetrics", best |-> FirstByName(Targets(rt, listed))]

WriteNeutralDecision(s) ==
  /\ \/ \E rt \in {Runtime} \cup (IF ApiFails THEN {NoRuntime} ELSE {}) :
          decisions' = [decisions EXCEPT ![s] = NeutralDecision(rt)]
     \/ RedisFails /\ UNCHANGED decisions
  /\ UNCHANGED selections
  /\ scored' = scored \ {s}

(* Whatever node the user prefers becomes the best.                        *)
FaultyPreferred(s, scores) ==
  IF pref[s] # None THEN pref[s] ELSE BestNode(scores)

(* The preference wins if the node is feasible and it can be read.         *)
Preferred(s, scores) ==
  IF pref[s] \in DOMAIN scores THEN pref[s] ELSE BestNode(scores)

(* The choice counts whether or not it could be saved.                     *)
FaultySave(s, best) ==
  /\ selections' = [selections EXCEPT ![best] = @ + 1]
  /\ \/ /\ decisions' = [decisions EXCEPT ![s] = [status |-> "Scheduled", best |-> best]]
        /\ scored' = scored \cup {s}
     \/ RedisFails /\ UNCHANGED <<decisions, scored>>

(* Only a decision that was saved counts as a choice of its node.          *)
Save(s, best) ==
  \/ /\ decisions' = [decisions EXCEPT ![s] = [status |-> "Scheduled", best |-> best]]
     /\ selections' = [selections EXCEPT ![best] = @ + 1]
     /\ scored' = scored \cup {s}
  \/ RedisFails /\ UNCHANGED <<decisions, selections, scored>>

ComputeForService(s) ==
  /\ s \in todo
  /\ Done(s)
  /\ \/ \E rt \in Runtimes :
          LET F == Feasible(rt, listed, s) IN
          \/ F = {} /\ WriteNeutralDecision(s)
          \/ /\ F # {}
             /\ \E m \in MetricSets :
                  LET scores == ScoreOf(rt, F, s, m, selections) IN
                  \/ Save(s, Preferred(s, scores))
                  \/ RedisFails /\ Save(s, BestNode(scores))
     \/ ApiFails /\ WriteNeutralDecision(s)

--------------------------------------------------------------------------------
(* The world around: pods are placed and go, nodes change, and the process *)
(* dies.                                                                   *)
MovePod(p) ==
  /\ "pods" \in Faults
  /\ \E n \in Nodes \cup {None} :
       /\ n = None \/ where[p] = None
       /\ where' = [where EXCEPT ![p] = n]
  /\ UNCHANGED <<status, pref, decisions, cycle>>

ChangeNode(n) ==
  /\ "nodes" \in Faults
  /\ \E v \in Statuses : status' = [status EXCEPT ![n] = v]
  /\ UNCHANGED <<where, pref, decisions, cycle>>

Crash ==
  /\ "crash" \in Faults
  /\ todo' = {} /\ listed' = {} /\ selections' = Zero /\ scored' = {}
  /\ UNCHANGED <<cluster, pref, decisions>>

Environment ==
  \/ \E p \in Pods : MovePod(p)
  \/ \E n \in Nodes : ChangeNode(n)
  \/ Crash

Next == Discover \/ (\E s \in Services : ComputeForService(s)) \/ Environment

Spec == Init /\ [][Next]_vars

--------------------------------------------------------------------------------
(* What a decision looks like, and which services a cycle is about.        *)
TypeOK ==
  /\ where \in [Pods -> Nodes \cup {None}] /\ status \in [Nodes -> Statuses]
  /\ pref \in [Services -> Nodes \cup {None}]
  /\ \A s \in Services :
       \/ decisions[s] = NoDecision
       \/ decisions[s].status \in {"Scheduled", "NoMetrics"} /\ decisions[s].best \in Nodes
  /\ todo \subseteq Services /\ scored \subseteq Services \ todo
  /\ listed \subseteq Nodes
  /\ selections \in [Nodes -> Nat]

(* What keeps the services of a cycle apart is true of Redis: a node counts *)
(* for as many services as have a scored decision for it from this cycle,   *)
(* whichever saves failed.                                                  *)
SelectionsCounted ==
  \A n \in Nodes : selections[n] = Cardinality({s \in scored : decisions[s].best = n})

Decides(s, n) ==
  s \in todo /\ s \in scored' /\ decisions'[s].best = n

(* A scored decision names a node that was ready, open, without a blocking  *)
(* taint unless every node has one, and no fuller than 85 percent with one  *)
(* more of the service's pods, if those that run ask for the same and could *)
(* be listed: also when a user prefers another, and although pods moved     *)
(* since the cycle began.                                                   *)
OneMoreFits(s, n) ==
  LET running == {p \in Pods : ServiceOf[p] = s /\ where[p] # None} IN
  (\A p, q \in running : PodRequest(p) = PodRequest(q))
    => \A p \in running : HasRoom(Runtime, n, PodRequest(p))

DecidedNodeFits ==
  [][\A s \in Services, n \in Nodes : Decides(s, n) =>
       /\ status[n].ready /\ status[n].schedulable
       /\ status[n].tainted => \A a \in listed : status[a].tainted
       /\ "list" \notin Faults => OneMoreFits(s, n)]_vars

(* Nodes that look the same take turns: no service chooses a node that more *)
(* services of the cycle have chosen than one which is its like.            *)
Chosen(n) == Cardinality({s \in scored : decisions[s].best = n})
Alike(a, b) ==
  /\ status[a] = status[b]
  /\ \A s \in Services : Cardinality(PodsOf(Runtime, a, s)) = Cardinality(PodsOf(Runtime, b, s))
  /\ \A r \in Resources : Used(Runtime, a, r) = Used(Runtime, b, r)

AlikeTakeTurns ==
  [][\A s \in Services : \A a, b \in listed :
       Decides(s, b) /\ Alike(a, b) /\ pref[s] # b => Chosen(b) <= Chosen(a)]_vars
================================================================================
