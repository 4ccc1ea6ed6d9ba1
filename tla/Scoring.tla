-------------------------------- MODULE Scoring --------------------------------
(***************************************************************************)
(* The arithmetic of the scorer: what one service makes of the nodes, as a *)
(* function of the pods on them, of the traffic and of the criticality of  *)
(* the services.  Shares are in thousandths, rounded down; Log1p is a      *)
(* table in hundredths that ends with four pods of a service on a node.    *)
(***************************************************************************)
EXTENDS Integers, Sequences, FiniteSetsExt, Functions

CONSTANTS
  Nodes, Services, Pods,
  Rank,           \* node or service -> place in the order of their names
  ServiceOf,      \* pod -> the service its labels name, or None
  Containers,     \* pod -> what its containers ask for, one by one
  InitContainers, \* pod -> what its init containers ask for
  DefaultAsk,     \* what a pod is taken to ask for without a sample
  TopK,           \* peers that count
  None

Resources == {"cpu", "mem"}
Amounts == [Resources -> Nat]

(* What GetNodeRuntime finds of a node, besides the pods on it.            *)
NodeStatus ==
  [ready : BOOLEAN, schedulable : BOOLEAN, tainted : BOOLEAN,
   alloc : Amounts]

ASSUME ScoringAssumption ==
  /\ ServiceOf \in [Pods -> Services \cup {None}] /\ None \notin Services \cup Nodes
  /\ Rank \in [Nodes \cup Services -> Nat]
  /\ \A p \in Pods : Containers[p] \in Seq(Amounts) /\ InitContainers[p] \in Seq(Amounts)
  /\ DefaultAsk \in Amounts
  /\ TopK \in Nat
  /\ IsFiniteSet(Services) /\ IsFiniteSet(Nodes) /\ IsFiniteSet(Pods)

(* Of some services or peers, a number each: traffic to and from them; page *)
(* rank and betweenness; availability by the catalog of services (0 or      *)
(* 1000) and by the centrality answer.  What cannot be fetched is empty.    *)
Nothing == [q \in {} |-> 0]
NoMetrics ==
  [out |-> Nothing, in |-> Nothing, rank |-> Nothing, between |-> Nothing,
   catalog |-> Nothing, own |-> Nothing]

WellFormed(m) ==
  /\ \A f \in {m.out, m.in, m.rank, m.between, m.catalog, m.own} :
       f \in [DOMAIN f -> Nat] /\ DOMAIN f \subseteq Services
  /\ DOMAIN m.between = DOMAIN m.rank

--------------------------------------------------------------------------------
Lower(a, b) == IF a <= b THEN a ELSE b
Higher(a, b) == IF a >= b THEN a ELSE b
Within(lo, hi, x) == Lower(hi, Higher(lo, x))
Apart(a, b) == IF a >= b THEN a - b ELSE b - a

(* The values of a function are sorted: the i-th of them.                  *)
Sorted(f, i) ==
  CHOOSE v \in Range(f) :
    /\ Cardinality({x \in DOMAIN f : f[x] < v}) < i
    /\ Cardinality({x \in DOMAIN f : f[x] <= v}) >= i

(* The k-th of twenty parts of the way through the values, interpolated,   *)
(* twenty times as large.                                                  *)
Percentile20(f, k) ==
  LET pos == k * (Cardinality(DOMAIN f) - 1)
      i == (pos \div 20) + 1
      part == pos % 20
  IN  20 * Sorted(f, i)
        + (IF part = 0 THEN 0 ELSE part * (Sorted(f, i + 1) - Sorted(f, i)))

(* Where x lies between the 5th and the 95th percentile of the values.     *)
Norm(x, f) ==
  LET p05 == Percentile20(f, 1)
      p95 == Percentile20(f, 19)
  IN  IF p05 = p95 THEN 500 ELSE Within(0, 1000, ((20 * x - p05) * 1000) \div (p95 - p05))

NormOf(f, x) == Norm(f[x], f)

Median(f) ==
  LET count == Cardinality(DOMAIN f)
      mid == count \div 2
  IN  IF count % 2 = 1 THEN Sorted(f, mid + 1)
                       ELSE (Sorted(f, mid) + Sorted(f, mid + 1)) \div 2

--------------------------------------------------------------------------------
At(f, x) == IF x \in DOMAIN f THEN f[x] ELSE 0

PeerTraffic(m) == [q \in DOMAIN m.out \cup DOMAIN m.in |-> At(m.out, q) + At(m.in, q)]

(* The K peers with the heaviest traffic, with their weights.              *)
TopPeers(m, K) ==
  LET traffic == PeerTraffic(m)
      weight == [q \in DOMAIN traffic |-> NormOf(traffic, q)]
      Before(a, b) == \/ weight[a] > weight[b]
                      \/ weight[a] = weight[b] /\ Rank[a] < Rank[b]
      top == {q \in DOMAIN weight : Cardinality({a \in DOMAIN weight : Before(a, q)}) < K}
  IN  [q \in top |-> weight[q]]

(* How critical the services are that the graph knows.                     *)
Criticality(m) ==
  LET avail == [q \in DOMAIN m.own \cup DOMAIN m.catalog |->
                  IF q \in DOMAIN m.own THEN m.own[q] ELSE m.catalog[q]]
      values == [e \in ((DOMAIN m.catalog) \X {"catalog"}) \cup ((DOMAIN m.own) \X {"own"}) |->
                   IF e[2] = "own" THEN m.own[e[1]] ELSE m.catalog[e[1]]]
      AvailNorm(q) == IF q \in DOMAIN avail THEN Norm(avail[q], values) ELSE 500
  IN  [q \in DOMAIN m.rank |->
         (400 * NormOf(m.rank, q) + 400 * NormOf(m.between, q) + 200 * (1000 - AvailNorm(q)))
           \div 1000]

(* No entry and zero are the same to it: both count as one half.           *)
CriticalityOf(s, m) == IF At(Criticality(m), s) = 0 THEN 500 ELSE At(Criticality(m), s)

Log1p(k) == CASE k = 0 -> 0 [] k = 1 -> 69 [] k = 2 -> 110 [] k = 3 -> 139 [] OTHER -> 161

--------------------------------------------------------------------------------
(* A runtime is a function from nodes to [status |-> ..., pods |-> ...].   *)
(* All containers together, or the largest init container.                 *)
PodRequest(p) ==
  [r \in Resources |->
     Higher(SumFunction([i \in DOMAIN Containers[p] |-> Containers[p][i][r]]),
            Max({0} \cup {InitContainers[p][i][r] : i \in DOMAIN InitContainers[p]}))]

Used(rt, n, r) == SumFunction([p \in rt[n].pods |-> PodRequest(p)[r]])
PodsOf(rt, n, s) == {p \in rt[n].pods : ServiceOf[p] = s}
ServicesOn(rt, n) == {ServiceOf[p] : p \in rt[n].pods} \ {None}

(* What one more pod of the service will ask for: the median of those that *)
(* run, in each resource.                                                  *)
Incoming(rt, s) ==
  LET samples == UNION {PodsOf(rt, n, s) : n \in DOMAIN rt}
  IN  IF samples = {} THEN DefaultAsk
      ELSE [r \in Resources |-> Median([p \in samples |-> PodRequest(p)[r]])]

(* Nodes without a blocking taint, or all when each has one.               *)
Untainted(rt, nodes) == {n \in nodes : n \in DOMAIN rt => ~rt[n].status.tainted}
Targets(rt, nodes) == IF Untainted(rt, nodes) = {} THEN nodes ELSE Untainted(rt, nodes)

(* The node stays within 85 percent of its allocatable with one more pod.  *)
HasRoom(rt, n, ask) ==
  \A r \in Resources :
    (Used(rt, n, r) + ask[r]) * 100 <= 85 * rt[n].status.alloc[r]

(* The pod to come is left out of the account.                             *)
FaultyFeasible(rt, nodes, s) ==
  {n \in Targets(rt, nodes) \cap DOMAIN rt :
     /\ rt[n].status.ready /\ rt[n].status.schedulable
     /\ \A r \in Resources : rt[n].status.alloc[r] > 0
     /\ HasRoom(rt, n, [r \in Resources |-> 0])}

Feasible(rt, nodes, s) ==
  {n \in Targets(rt, nodes) \cap DOMAIN rt :
     /\ rt[n].status.ready /\ rt[n].status.schedulable
     /\ \A r \in Resources : rt[n].status.alloc[r] > 0
     /\ HasRoom(rt, n, Incoming(rt, s))}

Locality(rt, n, peers) ==
  SumFunction([q \in DOMAIN peers |-> peers[q] * Log1p(Cardinality(PodsOf(rt, n, q)))])

(* How close to 65 percent the node comes, both resources alike.           *)
Utilization(rt, n, ask) ==
  LET Close(r) ==
        LET share == ((Used(rt, n, r) + ask[r]) * 1000) \div rt[n].status.alloc[r]
        IN  Higher(0, 1000 - (Apart(share, 650) * 1000) \div 350)
  IN  (Close("cpu") + Close("mem")) \div 2

Spread(k) == CASE k = 0 -> 1000 [] k = 1 -> 600 [] OTHER -> 200

CriticalMass(rt, n, m) ==
  SumFunction([q \in ServicesOn(rt, n) |-> At(Criticality(m), q)])

(* Best is none of what others have at most.                               *)
Share(k, most) == 1000 - (k * 1000) \div (most + 1)
Density(rt, n, F) ==
  Share(Cardinality(ServicesOn(rt, n)), Max({Cardinality(ServicesOn(rt, a)) : a \in F}))

(* A node scores by how often it has been chosen.                          *)
FaultyConcentration(sel, n) == 1000 - Share(sel[n], Max({sel[a] : a \in Nodes}))

Concentration(sel, n) == Share(sel[n], Max({sel[a] : a \in Nodes}))

(* The score of a feasible node, from 15 to 100.                           *)
ScoreOf(rt, F, s, m, sel) ==
  LET ask == Incoming(rt, s)
      crit == CriticalityOf(s, m)
      utilWeight == 300 - crit \div 5
      riskWeight == 100 + crit \div 5
      peers == TopPeers(m, TopK)
      locality == [n \in F |-> Locality(rt, n, peers)]
      mass == [n \in F |-> CriticalMass(rt, n, m)]
      Raw(n) ==
        400 * NormOf(locality, n) + utilWeight * Utilization(rt, n, ask)
        + 200 * Spread(Cardinality(PodsOf(rt, n, s))) + 150 * Density(rt, n, F)
        + 250 * Concentration(sel, n) - riskWeight * ((NormOf(mass, n) * crit) \div 1000)
      percent(n) == Within(0, 1000, Raw(n) \div (1000 + utilWeight))
  IN  [n \in F |-> (15500 + 85 * percent(n)) \div 1000]

FirstByName(S) == CHOOSE n \in S : \A a \in S : Rank[n] <= Rank[a]

BestNode(scores) ==
  FirstByName({n \in DOMAIN scores : \A a \in DOMAIN scores : scores[a] <= scores[n]})
================================================================================
