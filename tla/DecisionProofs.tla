----------------------------- MODULE DecisionProofs ----------------------------
(***************************************************************************)
(* Theorems about Decisions for all values of the constants: an override   *)
(* steers one answer at most, the scorer does not undo a preference, types *)
(* are kept, and round robin spreads the pods over the candidates.         *)
(***************************************************************************)
EXTENDS Decisions, FiniteSetTheorems, TLAPS

(* Requests whose answer is the override's.                                *)
Overridden == {q \in Queries : answer[q].via = "override"}

InRedis == IF override = None THEN 0 ELSE 1

(* Each override is in Redis, or in one answer, or gone.                   *)
OverrideInv ==
  /\ DOMAIN answer = Queries
  /\ overrides \in Nat
  /\ Cardinality(Overridden) + InRedis <= overrides

(* A request that is under way is one of the two kinds.                    *)
KindInv ==
  /\ qpc \in [Queries -> {"idle", "override", "pref", "decision", "roundRobin", "done"}]
  /\ kind \in [Queries -> {"none", "prioritize", "optimal"}]
  /\ \A q \in Queries : qpc[q] \in {"override", "pref", "decision"} => kind[q] # "none"

LEMMA KindInit == Init => KindInv
  BY DEF Init, KindInv

LEMMA KindStep == KindInv /\ [Next]_vars => KindInv'
<1> SUFFICES ASSUME KindInv, [Next]_vars PROVE KindInv'
  OBVIOUS
<1> USE DEF KindInv
<1>1. CASE UNCHANGED <<qpc, kind>>
  BY <1>1
<1>2. ASSUME NEW q \in Queries, Ask(q) PROVE KindInv'
  BY <1>2 DEF Ask
<1>3. ASSUME NEW q \in Queries,
             ConsumeNodeOverride(q) \/ GetNodePreference(q) \/ GetDecision(q) \/ RoundRobin(q)
      PROVE  KindInv'
  <2>1. \/ qpc' = [qpc EXCEPT ![q] = "done"] /\ kind' = [kind EXCEPT ![q] = "none"]
        \/ /\ qpc' \in {[qpc EXCEPT ![q] = l] : l \in {"pref", "decision", "roundRobin"}}
           /\ kind' = kind /\ kind[q] # "none"
    <3>1. CASE ConsumeNodeOverride(q)
      BY <3>1 DEF ConsumeNodeOverride, Reply, QGoto
    <3>2. CASE GetNodePreference(q)
      BY <3>2 DEF GetNodePreference, Reply, QGoto
    <3>3. CASE GetDecision(q)
      <4>1. kind[q] \in {"prioritize", "optimal"}
        BY <3>3 DEF GetDecision
      <4> QED
        BY <3>3, <4>1 DEF GetDecision, Reply
    <3>4. CASE RoundRobin(q)
      BY <3>4 DEF RoundRobin, Reply
    <3> QED
      BY <1>3, <3>1, <3>2, <3>3, <3>4
  <2> QED
    BY <2>1
<1>4. CASE Crash
  BY <1>4 DEF Crash
<1> QED
  BY <1>1, <1>2, <1>3, <1>4
     DEF Next, QueryStep, ScorerStep, ComputeForService, ReadPreference, SaveGet, SavePut,
         Environment, SetPreference, SetNodeOverride, DeletePreference, OverrideExpire,
         DecisionExpire, CounterExpire, queries, vars

LEMMA FewOverridden ==
  /\ IsFiniteSet(Queries) /\ IsFiniteSet(Overridden) /\ Cardinality(Overridden) \in Nat
  /\ Cardinality(Overridden') \in Nat
<1>1. /\ Overridden \in SUBSET Queries /\ Overridden' \in SUBSET Queries
      /\ IsFiniteSet(Queries)
  BY DecisionsAssumption DEF Overridden
<1> QED
  BY <1>1, FS_Subset, FS_CardinalityType

LEMMA OverrideInit == Init => OverrideInv
<1> SUFFICES ASSUME Init PROVE OverrideInv
  OBVIOUS
<1>1. Overridden = {} /\ DOMAIN answer = Queries
  BY DEF Init, Overridden, NoAnswer
<1>2. Cardinality(Overridden) = 0
  BY <1>1, FS_EmptySet
<1> QED
  BY <1>1, <1>2 DEF Init, OverrideInv, InRedis

LEMMA Replies ==
  ASSUME DOMAIN answer = Queries, NEW q \in Queries, NEW node, NEW via, Reply(q, node, via)
  PROVE  /\ DOMAIN answer' = Queries
         /\ Overridden' \subseteq Overridden \cup {q}
         /\ via # "override" => Overridden' \subseteq Overridden
  BY DEF Reply, Overridden

LEMMA OverrideStep == KindInv /\ OverrideInv /\ [Next]_vars => OverrideInv'
<1> SUFFICES ASSUME KindInv, OverrideInv, [Next]_vars PROVE OverrideInv'
  OBVIOUS
<1>0. /\ DOMAIN answer = Queries /\ overrides \in Nat
      /\ Cardinality(Overridden) + InRedis <= overrides
      /\ IsFiniteSet(Overridden) /\ Cardinality(Overridden) \in Nat
      /\ Cardinality(Overridden') \in Nat
      /\ None \notin Nodes
  BY FewOverridden, DecisionsAssumption DEF OverrideInv
<1>a. ASSUME DOMAIN answer' = Queries, Overridden' \subseteq Overridden,
             overrides' = overrides, override' \in {override, None}
      PROVE  OverrideInv'
  <2>1. Cardinality(Overridden') <= Cardinality(Overridden)
    BY <1>0, <1>a, FS_Subset
  <2> QED
    BY <1>0, <1>a, <2>1 DEF OverrideInv, InRedis
<1>b. ASSUME UNCHANGED <<answer, overrides>>, override' \in {override, None}
      PROVE  OverrideInv'
  BY <1>0, <1>a, <1>b DEF Overridden
<1>1. CASE ScorerStep \/ UNCHANGED vars
  BY <1>1, <1>b DEF ScorerStep, ComputeForService, ReadPreference, SaveGet, SavePut,
                    vars, stored, queries, ghosts
<1>2. ASSUME NEW q \in Queries, Ask(q) PROVE OverrideInv'
  BY <1>2, <1>b DEF Ask, stored, ghosts
<1>3. ASSUME NEW q \in Queries, ConsumeNodeOverride(q) PROVE OverrideInv'
  <2>1. CASE override # None /\ override' = None /\ Reply(q, Favour(q, override), "override")
    <3>1. DOMAIN answer' = Queries /\ Overridden' \subseteq Overridden \cup {q}
      BY <1>0, <2>1, Replies
    <3>2. Cardinality(Overridden') <= Cardinality(Overridden) + 1
      <4>1. /\ IsFiniteSet(Overridden \cup {q})
            /\ Cardinality(Overridden \cup {q}) \in {Cardinality(Overridden), Cardinality(Overridden) + 1}
        BY <1>0, FS_AddElement
      <4>2. Cardinality(Overridden') <= Cardinality(Overridden \cup {q})
        BY <3>1, <4>1, FS_Subset
      <4> QED
        BY <1>0, <4>1, <4>2
    <3> QED
      BY <1>0, <1>3, <2>1, <3>1, <3>2 DEF ConsumeNodeOverride, ghosts, OverrideInv, InRedis
  <2>2. CASE QGoto(q, "pref")
    BY <1>3, <1>b, <2>2 DEF ConsumeNodeOverride, QGoto, ghosts
  <2> QED
    BY <1>3, <2>1, <2>2 DEF ConsumeNodeOverride
<1>4. ASSUME NEW q \in Queries, GetNodePreference(q) \/ GetDecision(q) \/ RoundRobin(q)
      PROVE  OverrideInv'
  <2>1. UNCHANGED <<overrides, override>>
    BY <1>4 DEF GetNodePreference, GetDecision, RoundRobin, stored, ghosts
  <2>2. CASE UNCHANGED answer
    BY <1>b, <2>1, <2>2
  <2>3. CASE \E node, via : via # "override" /\ Reply(q, node, via)
    BY <1>0, <1>a, <2>1, <2>3, Replies
  <2>4. CASE GetNodePreference(q)
    <3>1. Reply(q, Favour(q, pref), "preference") \/ UNCHANGED answer
      BY <2>4 DEF GetNodePreference, QGoto
    <3> QED
      BY <2>2, <2>3, <3>1
  <2>5. CASE GetDecision(q)
    <3>1. \/ Reply(q, None, "none")
          \/ Reply(q, decision.best, "decision")
          \/ Reply(q, decision.preferred, "preferred")
          \/ Reply(q, Highest(q, decision), "scores")
          \/ UNCHANGED answer
      <4>1. kind[q] \in {"optimal", "prioritize"}
        BY <2>5 DEF GetDecision, KindInv
      <4> QED
        BY <2>5, <4>1 DEF GetDecision
    <3> QED
      BY <2>2, <2>3, <3>1
  <2>6. CASE RoundRobin(q)
    <3>1. Reply(q, Pick(q), "roundRobin") \/ Reply(q, Highest(q, seen[q]), "scores")
      BY <2>6 DEF RoundRobin
    <3> QED
      BY <2>3, <3>1
  <2> QED
    BY <1>4, <2>4, <2>5, <2>6
<1>5. ASSUME NEW n \in Nodes, SetNodeOverride(n) PROVE OverrideInv'
  <2>1. Overridden' = Overridden /\ DOMAIN answer' = Queries
    BY <1>0, <1>5 DEF SetNodeOverride, queries, Overridden
  <2> QED
    BY <1>0, <1>5, <2>1 DEF SetNodeOverride, OverrideInv, InRedis
<1>6. CASE \/ \E n \in Nodes : SetPreference(n)
           \/ DeletePreference \/ OverrideExpire \/ DecisionExpire \/ CounterExpire \/ Crash
  BY <1>6, <1>b DEF SetPreference, DeletePreference, OverrideExpire, DecisionExpire,
                    CounterExpire, Crash, stored, queries, ghosts
<1> QED
  BY <1>1, <1>2, <1>3, <1>4, <1>5, <1>6 DEF Next, QueryStep, Environment

(* No override steers two answers, however many requests look for it at    *)
(* the same time and whatever Redis calls fail.                            *)
THEOREM OverrideSteersOne == Spec => []OverrideUsedOnce
<1>1. OverrideInv => OverrideUsedOnce
  BY FewOverridden DEF OverrideInv, OverrideUsedOnce, Overridden, InRedis
<1> QED
  BY <1>1, KindInit, KindStep, OverrideInit, OverrideStep, PTL DEF Spec

--------------------------------------------------------------------------------
(* When Redis answers, a decision about to be saved has a preferred node   *)
(* if the one in Redis has: either the scorer read a preference, or Save   *)
(* has just looked, and only the scorer saves.                             *)
SaveInv ==
  /\ draft \in [best : Nodes \cup {None}, preferred : Nodes \cup {None}, ranking : Rankings \cup {<<>>}]
  /\ pref \in Nodes \cup {None} /\ decision.preferred \in Nodes \cup {None}
  /\ spc = "put" /\ decision.preferred # None => draft.preferred # None

LEMMA SaveInit == Init => SaveInv
  BY DEF Init, SaveInv, NoDecision

LEMMA SaveStep ==
  ASSUME SaveInv, [Next]_vars, "redis" \notin Faults
  PROVE  SaveInv'
<1> USE DEF SaveInv
<1>0. ~RedisFails
  BY DEF RedisFails
<1>1. CASE ComputeForService
  BY <1>1 DEF ComputeForService, stored
<1>2. CASE ReadPreference
  BY <1>0, <1>2 DEF ReadPreference, stored
<1>3. CASE SaveGet
  BY <1>0, <1>3 DEF SaveGet, stored
<1>4. CASE SavePut
  BY <1>4 DEF SavePut, NoDecision
<1>5. CASE Crash
  BY <1>5 DEF Crash, NoDecision, stored
<1>6. CASE DecisionExpire
  BY <1>6 DEF DecisionExpire, NoDecision, scorer
<1>7. CASE \/ \E n \in Nodes : SetPreference(n) \/ SetNodeOverride(n)
           \/ DeletePreference \/ OverrideExpire \/ CounterExpire
  BY <1>7 DEF SetPreference, SetNodeOverride, DeletePreference, OverrideExpire, CounterExpire,
              scorer
<1>8. CASE UNCHANGED <<pref, decision, scorer>>
  BY <1>8 DEF scorer
<1> QED
  BY <1>1, <1>2, <1>3, <1>4, <1>5, <1>6, <1>7, <1>8
     DEF Next, ScorerStep, QueryStep, Environment, Ask, ConsumeNodeOverride, GetNodePreference,
         GetDecision, RoundRobin, vars, stored

(* A save never undoes a preference that an earlier decision carries, as   *)
(* long as Redis answers, whatever users, requests and crashes do between  *)
(* the scorer's look and its save.                                         *)
THEOREM SavesKeepPreferred ==
  ASSUME "redis" \notin Faults
  PROVE  Spec => SaveKeepsPreferred
<1>1. SaveInv /\ [Next]_vars
        => [decision.preferred # None /\ decision' # NoDecision
              => decision'.preferred # None]_vars
  <2> SUFFICES ASSUME SaveInv, Next, decision.preferred # None, decision' # NoDecision
               PROVE  decision'.preferred # None
    OBVIOUS
  <2>1. CASE SavePut
    BY <2>1 DEF SavePut, RedisFails, SaveInv
  <2>2. CASE ~SavePut
    <3>1. decision' = decision
      BY <2>2 DEF Next, ScorerStep, ComputeForService, ReadPreference, SaveGet, QueryStep, Ask,
                  ConsumeNodeOverride, GetNodePreference, GetDecision, RoundRobin, Environment,
                  SetPreference, SetNodeOverride, DeletePreference, OverrideExpire,
                  DecisionExpire, CounterExpire, Crash, stored
    <3> QED
      BY <3>1
  <2> QED
    BY <2>1, <2>2
<1>2. SaveInv /\ [Next]_vars => SaveInv'
  BY SaveStep
<1> QED
  BY <1>1, <1>2, SaveInit, PTL DEF Spec, SaveKeepsPreferred

--------------------------------------------------------------------------------
(* The candidates in the order of a ranking: each has an index of its own, *)
(* and each index below their number is one's.                             *)
LEMMA RankedAt ==
  ASSUME NEW C \in SUBSET Nodes, NEW rank \in Rankings
  PROVE  /\ IsFiniteSet(C) /\ Cardinality(C) \in Nat
         /\ \A n \in C : Index(C, rank, n) \in 0..(Cardinality(C) - 1)
         /\ \A i \in 0..(Cardinality(C) - 1) :
              Ranked(C, rank, i) \in C /\ Index(C, rank, Ranked(C, rank, i)) = i
         /\ \A m, n \in C : Index(C, rank, m) = Index(C, rank, n) => m = n
<1> DEFINE Before(n) == {m \in C : rank[m] < rank[n]}
           k == Cardinality(C)
<1>1. IsFiniteSet(C) /\ k \in Nat
  BY DecisionsAssumption, FS_Subset, FS_CardinalityType
<1>2. rank \in [Nodes -> Nat] /\ \A m, n \in C : rank[m] = rank[n] => m = n
  <2>1. IsFiniteSet(Nodes) /\ Cardinality(Nodes) \in Nat
    BY DecisionsAssumption, FS_CardinalityType
  <2> QED
    BY <2>1, DecisionsAssumption
<1>3. ASSUME NEW m \in C, NEW n \in C, rank[m] < rank[n]
      PROVE  Index(C, rank, m) < Index(C, rank, n)
  <2>1. Before(m) \subseteq Before(n) /\ m \in Before(n) /\ m \notin Before(m)
    BY <1>2, <1>3
  <2>2. IsFiniteSet(Before(n)) /\ IsFiniteSet(Before(m))
    BY <1>1, FS_Subset
  <2>3. /\ Cardinality(Before(m)) <= Cardinality(Before(n))
        /\ Cardinality(Before(m)) # Cardinality(Before(n))
    BY <2>1, <2>2, FS_Subset
  <2>4. Cardinality(Before(m)) \in Nat /\ Cardinality(Before(n)) \in Nat
    BY <2>2, FS_CardinalityType
  <2> QED
    BY <2>3, <2>4 DEF Index
<1>4. \A n \in C : Index(C, rank, n) \in 0..(k - 1)
  <2> SUFFICES ASSUME NEW n \in C PROVE Index(C, rank, n) \in 0..(k - 1)
    OBVIOUS
  <2>1. Before(n) \in SUBSET C /\ n \notin Before(n)
    BY <1>2
  <2>2. IsFiniteSet(Before(n)) /\ Cardinality(Before(n)) <= k /\ Cardinality(Before(n)) # k
    BY <1>1, <2>1, FS_Subset
  <2>3. Cardinality(Before(n)) \in Nat
    BY <2>2, FS_CardinalityType
  <2> QED
    BY <1>1, <2>2, <2>3 DEF Index
<1>5. ASSUME NEW m \in C, NEW n \in C, Index(C, rank, m) = Index(C, rank, n) PROVE m = n
  <2>1. Index(C, rank, m) \in Nat
    BY <1>1, <1>4
  <2>2. ~(rank[m] < rank[n]) /\ ~(rank[n] < rank[m])
    BY <1>3, <1>5, <2>1
  <2> QED
    BY <1>2, <2>2
(* An injection of C into as many indices reaches each of them.          *)
<1>6. ASSUME NEW i \in 0..(k - 1) PROVE \E n \in C : Index(C, rank, n) = i
  <2> DEFINE T == {Index(C, rank, n) : n \in C}
             f == [n \in C |-> Index(C, rank, n)]
  <2>1. f \in Surjection(C, T) /\ f \in Injection(C, T)
    BY <1>5 DEF Surjection, Injection, IsInjective
  <2>2. Cardinality(T) = k
    BY <1>1, <2>1, FS_Surjection
  <2>3. T \in SUBSET (0..(k - 1))
    BY <1>4
  <2>4. IsFiniteSet(0..(k - 1)) /\ Cardinality(0..(k - 1)) = k
    BY <1>1, FS_Interval
  <2>5. T = 0..(k - 1)
    BY <2>2, <2>3, <2>4, FS_Subset
  <2> QED
    BY <2>5
<1> QED
  BY <1>1, <1>4, <1>5, <1>6 DEF Ranked

(* What a decision that is there lends to a request that sorts its nodes.  *)
LEMMA PickIsCandidate ==
  ASSUME NEW C \in SUBSET Nodes, C # {}, NEW rank \in Rankings, NEW c \in Nat
  PROVE  /\ Cardinality(C) \in Nat \ {0} /\ c % Cardinality(C) \in 0..(Cardinality(C) - 1)
         /\ Ranked(C, rank, 0) \in C
         /\ Ranked(C, rank, c % Cardinality(C)) \in C
<1>1. Cardinality(C) \in Nat \ {0}
  BY RankedAt, FS_EmptySet
<1>2. c % Cardinality(C) \in 0..(Cardinality(C) - 1)
  BY <1>1, SMT
<1> QED
  BY <1>1, <1>2, RankedAt

--------------------------------------------------------------------------------
(* Type correctness.                                                       *)
LEMMA TypeInit == Init => TypeOK
<1> SUFFICES ASSUME Init PROVE TypeOK
  OBVIOUS
<1>1. StoredTypeOK /\ ScorerTypeOK /\ QueriesAtHand
  BY DEF Init, StoredTypeOK, ScorerTypeOK, QueriesAtHand
<1>2. QueriesTypeOK
  BY DEF Init, QueriesTypeOK, NoAnswer, Vias
<1>3. GhostsTypeOK
  BY DecisionsAssumption DEF Init, GhostsTypeOK
<1> QED
  BY <1>1, <1>2, <1>3 DEF TypeOK

(* Whatever a request answers, it keeps nothing else.                      *)
LEMMA ReplyType ==
  ASSUME QueriesTypeOK, QueriesAtHand, NEW q \in Queries,
         NEW node \in Nodes \cup {None}, NEW via \in Vias, Reply(q, node, via)
  PROVE  QueriesTypeOK' /\ QueriesAtHand'
<1>1. QueriesTypeOK'
  BY DEF Reply, QueriesTypeOK
<1>2. QueriesAtHand'
  BY DEF Reply, QueriesTypeOK, QueriesAtHand
<1> QED
  BY <1>1, <1>2

LEMMA QGotoType ==
  ASSUME QueriesTypeOK, QueriesAtHand, NEW q \in Queries, NEW label \in {"pref", "decision"},
         qpc[q] \in {"override", "pref", "decision"}, QGoto(q, label)
  PROVE  QueriesTypeOK' /\ QueriesAtHand'
<1>1. QueriesTypeOK'
  BY DEF QGoto, QueriesTypeOK
<1>2. QueriesAtHand'
  BY DEF QGoto, QueriesTypeOK, QueriesAtHand
<1> QED
  BY <1>1, <1>2

LEMMA DecisionTypes ==
  /\ \A d \in Decision : d # NoDecision /\ d.best \in Nodes
        /\ d.preferred \in Nodes \cup {None} /\ d.ranking \in Rankings
  /\ NoDecision.best = None /\ NoDecision.preferred = None
BY DecisionsAssumption DEF Decision, NoDecision

LEMMA TypeStep == TypeOK /\ [Next]_vars => TypeOK'
<1> SUFFICES ASSUME TypeOK, [Next]_vars PROVE TypeOK'
  OBVIOUS
<1> USE DEF TypeOK
(* What most steps leave alone.                                          *)
<1>a. UNCHANGED stored => StoredTypeOK'
  BY DEF stored, StoredTypeOK
<1>b. UNCHANGED scorer => ScorerTypeOK'
  BY DEF scorer, ScorerTypeOK
<1>c. UNCHANGED queries => QueriesTypeOK' /\ QueriesAtHand'
  BY DEF queries, QueriesTypeOK, QueriesAtHand
<1>d. UNCHANGED ghosts => GhostsTypeOK'
  BY DEF ghosts, GhostsTypeOK
<1>1. CASE ComputeForService
  <2>1. PICK F \in SUBSET Nodes, r \in Rankings, b \in Nodes :
          /\ draft' = [best |-> b, preferred |-> None, ranking |-> r]
          /\ feasible' = F
          /\ spc' \in {"get", "pref"}
    BY <1>1 DEF ComputeForService
  <2>2. draft' \in Decision
    BY <2>1 DEF Decision
  <2>3. ScorerTypeOK'
    BY <2>1, <2>2, DecisionTypes DEF ScorerTypeOK
  <2> QED
    BY <1>1, <1>a, <1>c, <1>d, <2>3 DEF ComputeForService
<1>2. CASE ReadPreference
  <2>1. draft \in Decision /\ pref \in Nodes \cup {None}
    BY <1>2 DEF ReadPreference, ScorerTypeOK, StoredTypeOK
  <2>2. draft' \in Decision
    BY <1>2, <2>1 DEF ReadPreference, ScorerTypeOK, Decision
  <2>3. ScorerTypeOK'
    BY <1>2, <2>2, DecisionTypes DEF ReadPreference, ScorerTypeOK
  <2> QED
    BY <1>2, <1>a, <1>c, <1>d, <2>3 DEF ReadPreference
<1>3. CASE SaveGet
  <2>1. draft \in Decision /\ decision.preferred \in Nodes \cup {None}
    BY <1>3, DecisionTypes DEF SaveGet, ScorerTypeOK, StoredTypeOK
  <2>2. draft' \in Decision
    BY <1>3, <2>1 DEF SaveGet, Decision
  <2>3. ScorerTypeOK'
    BY <1>3, <2>2, DecisionTypes DEF SaveGet, ScorerTypeOK
  <2> QED
    BY <1>3, <1>a, <1>c, <1>d, <2>3 DEF SaveGet
<1>4. CASE SavePut
  <2>1. ScorerTypeOK' /\ StoredTypeOK'
    BY <1>4 DEF SavePut, ScorerTypeOK, StoredTypeOK
  <2> QED
    BY <1>4, <1>c, <1>d, <2>1 DEF SavePut
<1>5. ASSUME NEW q \in Queries, Ask(q) PROVE TypeOK'
  <2>1. QueriesTypeOK'
    BY <1>5 DEF Ask, QueriesTypeOK
  <2>2. QueriesAtHand'
    BY <1>5, DecisionsAssumption DEF Ask, QueriesTypeOK, QueriesAtHand
  <2> QED
    BY <1>5, <1>a, <1>b, <1>d, <2>1, <2>2 DEF Ask
<1>6. ASSUME NEW q \in Queries, ConsumeNodeOverride(q) PROVE TypeOK'
  <2>1. StoredTypeOK'
    BY <1>6 DEF ConsumeNodeOverride, StoredTypeOK
  <2>2. QueriesTypeOK' /\ QueriesAtHand'
    <3>1. override # None => Favour(q, override) \in Nodes \cup {None}
      BY DEF Favour, StoredTypeOK
    <3> QED
      BY <1>6, <3>1, ReplyType, QGotoType DEF ConsumeNodeOverride, Vias
  <2> QED
    BY <1>6, <1>b, <1>d, <2>1, <2>2 DEF ConsumeNodeOverride
<1>7. ASSUME NEW q \in Queries, GetNodePreference(q) PROVE TypeOK'
  <2>1. Favour(q, pref) \in Nodes \cup {None}
    BY DEF Favour, StoredTypeOK
  <2>2. QueriesTypeOK' /\ QueriesAtHand'
    BY <1>7, <2>1, ReplyType, QGotoType DEF GetNodePreference, Vias
  <2> QED
    BY <1>7, <1>a, <1>b, <1>d, <2>2 DEF GetNodePreference
<1>8. ASSUME NEW q \in Queries, GetDecision(q) PROVE TypeOK'
  <2> SUFFICES QueriesTypeOK' /\ QueriesAtHand'
    BY <1>8, <1>a, <1>b, <1>d DEF GetDecision
  <2>1. \/ kind[q] = "optimal"
        \/ kind[q] = "prioritize" /\ cand[q] # {} /\ cand[q] \in SUBSET Nodes
    BY <1>8, DecisionsAssumption DEF GetDecision, QueriesTypeOK, QueriesAtHand
  <2>2. CASE Reply(q, None, "none")
    BY <2>2, ReplyType DEF Vias
  <2>3. CASE decision # NoDecision /\ kind[q] = "optimal" /\ Reply(q, decision.best, "decision")
    BY <2>3, ReplyType, DecisionTypes DEF Vias, StoredTypeOK
  <2>4. CASE decision # NoDecision /\ Reply(q, decision.preferred, "preferred")
    BY <2>4, ReplyType, DecisionTypes DEF Vias, StoredTypeOK
  <2>5. CASE /\ decision # NoDecision /\ kind[q] = "prioritize"
             /\ Reply(q, Highest(q, decision), "scores")
    <3>1. Highest(q, decision) \in Nodes
      BY <2>1, <2>5, PickIsCandidate, DecisionTypes DEF Highest, StoredTypeOK
    <3> QED
      BY <2>5, <3>1, ReplyType DEF Vias
  <2>6. CASE /\ decision # NoDecision /\ kind[q] = "prioritize" /\ Cardinality(cand[q]) # 1
             /\ qpc' = [qpc EXCEPT ![q] = "roundRobin"]
             /\ seen' = [seen EXCEPT ![q] = decision]
             /\ UNCHANGED <<kind, cand, answer>>
    <3>1. QueriesTypeOK'
      BY <2>6 DEF QueriesTypeOK, StoredTypeOK
    <3>2. QueriesAtHand'
      BY <2>1, <2>6 DEF QueriesTypeOK, QueriesAtHand
    <3> QED
      BY <3>1, <3>2
  <2> QED
    BY <1>8, <2>1, <2>2, <2>3, <2>4, <2>5, <2>6 DEF GetDecision
<1>9. ASSUME NEW q \in Queries, RoundRobin(q) PROVE TypeOK'
  <2>1. cand[q] \in SUBSET Nodes /\ cand[q] # {} /\ seen[q].ranking \in Rankings
    BY <1>9, DecisionsAssumption, DecisionTypes DEF RoundRobin, QueriesTypeOK, QueriesAtHand
  <2>2. Highest(q, seen[q]) \in Nodes /\ Pick(q) \in Nodes
    BY <2>1, PickIsCandidate DEF Highest, Pick, StoredTypeOK
  <2>3. QueriesTypeOK' /\ QueriesAtHand'
    BY <1>9, <2>2, ReplyType DEF RoundRobin, Vias
  <2>4. StoredTypeOK' /\ GhostsTypeOK'
    BY <1>9, <2>2 DEF RoundRobin, StoredTypeOK, GhostsTypeOK
  <2> QED
    BY <1>9, <1>b, <2>3, <2>4 DEF RoundRobin
<1>10. ASSUME NEW n \in Nodes, SetPreference(n) \/ SetNodeOverride(n) PROVE TypeOK'
  <2>1. StoredTypeOK'
    BY <1>10 DEF SetPreference, SetNodeOverride, StoredTypeOK
  <2>2. GhostsTypeOK'
    BY <1>10, DecisionsAssumption DEF SetPreference, SetNodeOverride, GhostsTypeOK
  <2> QED
    BY <1>10, <1>b, <1>c, <2>1, <2>2 DEF SetPreference, SetNodeOverride
<1>11. CASE DeletePreference \/ OverrideExpire \/ DecisionExpire \/ CounterExpire
  <2>1. StoredTypeOK'
    BY <1>11 DEF DeletePreference, OverrideExpire, DecisionExpire, CounterExpire, StoredTypeOK
  <2>2. GhostsTypeOK'
    BY <1>11, <1>d, DecisionsAssumption
       DEF DeletePreference, OverrideExpire, DecisionExpire, CounterExpire, GhostsTypeOK
  <2> QED
    BY <1>11, <1>b, <1>c, <2>1, <2>2
       DEF DeletePreference, OverrideExpire, DecisionExpire, CounterExpire
<1>12. CASE Crash
  <2>1. ScorerTypeOK'
    BY <1>12 DEF Crash, ScorerTypeOK
  <2>2. QueriesTypeOK' /\ QueriesAtHand'
    BY <1>12 DEF Crash, QueriesTypeOK, QueriesAtHand
  <2>3. GhostsTypeOK'
    BY <1>12, DecisionsAssumption DEF Crash, GhostsTypeOK
  <2> QED
    BY <1>12, <1>a, <2>1, <2>2, <2>3 DEF Crash
<1>13. CASE UNCHANGED vars
  BY <1>13, <1>a, <1>b, <1>c, <1>d DEF vars
<1> QED
  BY <1>1, <1>2, <1>3, <1>4, <1>5, <1>6, <1>7, <1>8, <1>9, <1>10, <1>11, <1>12, <1>13
     DEF Next, ScorerStep, QueryStep, Environment

(* Decisions, answers and what requests hold keep their types: a request   *)
(* that sorts its nodes always has some, and a decision names one.         *)
THEOREM TypeCorrect == Spec => []TypeOK
BY TypeInit, TypeStep, PTL DEF Spec

--------------------------------------------------------------------------------
(* Counting modulo the number of candidates.                               *)
LEMMA DivMod ==
  ASSUME NEW c \in Nat, NEW k \in Nat \ {0}
  PROVE  c = (k * (c \div k)) + (c % k) /\ c \div k \in Nat /\ c % k \in 0..(k - 1)
BY SMT

LEMMA ModIs ==
  ASSUME NEW d \in Nat, NEW k \in Nat \ {0}, NEW i \in 0..(k - 1)
  PROVE  ((k * d) + i) % k = i
BY SMT

LEMMA NextTurn ==
  ASSUME NEW c \in Nat, NEW k \in Nat \ {0}
  PROVE  (c + 1) % k = IF c % k = k - 1 THEN 0 ELSE (c % k) + 1
<1>1. PICK d \in Nat : c = (k * d) + (c % k) /\ c % k \in 0..(k - 1)
  <2>1. c \div k \in Nat
    BY DivMod
  <2> QED
    BY <2>1, DivMod
<1>2. CASE c % k = k - 1
  <2>1. c + 1 = (k * (d + 1)) + 0
    BY <1>1, <1>2
  <2>2. d + 1 \in Nat /\ 0 \in 0..(k - 1)
    OBVIOUS
  <2>3. ((k * (d + 1)) + 0) % k = 0
    BY <2>2, ModIs
  <2> QED
    BY <1>2, <2>1, <2>3
<1>3. CASE c % k # k - 1
  <2>1. c + 1 = (k * d) + ((c % k) + 1) /\ (c % k) + 1 \in 0..(k - 1)
    BY <1>1, <1>3
  <2>2. ((k * d) + ((c % k) + 1)) % k = (c % k) + 1
    BY <2>1, ModIs
  <2> QED
    BY <1>3, <2>1, <2>2
<1> QED
  BY <1>2, <1>3

(* Spreading is promised while the ranking and the candidates stay the     *)
(* same, and for picks that reach the client.                              *)
OneOrder ==
  /\ \A rank, other \in Rankings : rank = other
  /\ \A C, D \in CandidateSets : Cardinality(C) > 1 /\ Cardinality(D) > 1 => C = D
  /\ "lost" \notin Faults

(* Of the candidates, those whose index the counter has passed in the      *)
(* current round have had one turn more than the others.                   *)
Turns(p, C, rank, i) ==
  \E rounds \in Nat : \A n \in C :
    p[n] = IF Index(C, rank, n) < i THEN rounds + 1 ELSE rounds

SpreadInv ==
  \A C \in CandidateSets, rank \in Rankings :
    Cardinality(C) > 1 => Turns(picks, C, rank, counter % Cardinality(C))

LEMMA NoTurns ==
  ASSUME NEW C \in CandidateSets, NEW rank \in Rankings
  PROVE  Turns([n \in Nodes |-> 0], C, rank, 0 % Cardinality(C))
<1>1. C \in SUBSET Nodes /\ C # {}
  BY DecisionsAssumption
<1>2. Cardinality(C) \in Nat \ {0} /\ \A n \in C : Index(C, rank, n) \in Nat
  BY <1>1, RankedAt, FS_EmptySet
<1>3. 0 % Cardinality(C) = 0
  BY <1>2, SMT
<1>4. \A n \in C : [m \in Nodes |-> 0][n] = IF Index(C, rank, n) < 0 THEN 0 + 1 ELSE 0
  BY <1>1, <1>2
<1> QED
  BY <1>3, <1>4 DEF Turns

LEMMA SpreadStep ==
  ASSUME TypeOK, SpreadInv, OneOrder, [Next]_vars
  PROVE  SpreadInv'
<1>1. ASSUME NEW q \in Queries, RoundRobin(q), counter' = counter + 1,
             picks' = [picks EXCEPT ![Pick(q)] = @ + 1]
      PROVE  SpreadInv'
  <2> SUFFICES ASSUME NEW C \in CandidateSets, NEW rank \in Rankings, Cardinality(C) > 1
               PROVE  Turns(picks', C, rank, counter' % Cardinality(C))
    BY DEF SpreadInv
  <2> DEFINE k == Cardinality(C)
             i == counter % k
  <2>1. C \in SUBSET Nodes /\ counter \in Nat /\ picks \in [Nodes -> Nat]
    BY DecisionsAssumption DEF TypeOK, StoredTypeOK, GhostsTypeOK
  <2>2. k \in Nat \ {0} /\ i \in 0..(k - 1) /\ \A n \in C : Index(C, rank, n) \in 0..(k - 1)
    <3>1. k \in Nat \ {0} /\ \A n \in C : Index(C, rank, n) \in 0..(k - 1)
      BY <2>1, RankedAt
    <3> QED
      BY <2>1, <3>1, DivMod
  <2>3. cand[q] = C /\ seen[q].ranking = rank
    <3>1. cand[q] \in CandidateSets /\ cand[q] # {} /\ Cardinality(cand[q]) # 1
      BY <1>1 DEF RoundRobin, TypeOK, QueriesTypeOK, QueriesAtHand
    <3>2. Cardinality(cand[q]) \in Nat /\ Cardinality(cand[q]) # 0
      BY <3>1, DecisionsAssumption, RankedAt, FS_EmptySet
    <3>3. seen[q] \in Decision
      BY <1>1 DEF RoundRobin, TypeOK, QueriesTypeOK, QueriesAtHand
    <3> QED
      BY <3>1, <3>2, <3>3, DecisionTypes DEF OneOrder
  <2>4. Pick(q) \in C /\ Index(C, rank, Pick(q)) = i
    BY <2>1, <2>2, <2>3, RankedAt DEF Pick
  <2>5. PICK rounds \in Nat :
          \A n \in C : picks[n] = IF Index(C, rank, n) < i THEN rounds + 1 ELSE rounds
    BY DEF SpreadInv, Turns
  <2>6. \A n \in C : picks'[n] = IF Index(C, rank, n) < i + 1 THEN rounds + 1 ELSE rounds
    <3> SUFFICES ASSUME NEW n \in C
                 PROVE  picks'[n] = IF Index(C, rank, n) < i + 1 THEN rounds + 1 ELSE rounds
      OBVIOUS
    <3>1. Index(C, rank, n) = i <=> n = Pick(q)
      BY <2>1, <2>4, RankedAt
    <3>2. Index(C, rank, n) \in Nat /\ i \in Nat /\ n \in Nodes
      BY <2>1, <2>2
    <3>3. CASE n = Pick(q)
      BY <1>1, <2>1, <2>5, <3>1, <3>2, <3>3
    <3>4. CASE n # Pick(q)
      BY <1>1, <2>1, <2>5, <3>1, <3>2, <3>4
    <3> QED
      BY <3>3, <3>4
  <2>7. counter' % k = IF i = k - 1 THEN 0 ELSE i + 1
    BY <1>1, <2>1, <2>2, NextTurn
  <2> HIDE DEF k, i
  <2>8. CASE i = k - 1
    <3>1. \A n \in C : picks'[n] = IF Index(C, rank, n) < 0 THEN (rounds + 1) + 1 ELSE rounds + 1
      BY <2>2, <2>6, <2>8
    <3>2. Turns(picks', C, rank, 0)
      BY <3>1 DEF Turns
    <3> QED
      BY <2>7, <2>8, <3>2 DEF k
  <2>9. CASE i # k - 1
    <3>1. Turns(picks', C, rank, i + 1)
      BY <2>6 DEF Turns
    <3> QED
      BY <2>7, <2>9, <3>1 DEF k
  <2> QED
    BY <2>8, <2>9
<1>2. CASE CounterExpire
  BY <1>2, NoTurns DEF CounterExpire, SpreadInv
<1>3. CASE UNCHANGED <<counter, picks>>
  BY <1>3 DEF SpreadInv
<1>4. ASSUME NEW q \in Queries, RoundRobin(q)
      PROVE  \/ counter' = counter + 1 /\ picks' = [picks EXCEPT ![Pick(q)] = @ + 1]
             \/ UNCHANGED <<counter, picks>>
  BY <1>4 DEF RoundRobin, OneOrder
<1> QED
  BY <1>1, <1>2, <1>3, <1>4
     DEF Next, ScorerStep, ComputeForService, ReadPreference, SaveGet, SavePut, QueryStep, Ask,
         ConsumeNodeOverride, GetNodePreference, GetDecision, Environment, SetPreference,
         SetNodeOverride, DeletePreference, OverrideExpire, DecisionExpire, Crash, stored,
         ghosts, vars

(* However many requests run at the same time, no candidate is ever two    *)
(* turns ahead of another, whichever Redis calls fail without effect and   *)
(* whenever the counter expires.                                           *)
THEOREM SpreadsEvenly == OneOrder => (Spec => []SpreadEvenly)
<1> SUFFICES ASSUME OneOrder PROVE Spec => []SpreadEvenly
  OBVIOUS
<1>1. Init => SpreadInv
  BY NoTurns DEF Init, SpreadInv
<1>2. TypeOK /\ SpreadInv /\ [Next]_vars => SpreadInv'
  BY SpreadStep
<1>3. ASSUME TypeOK, SpreadInv PROVE SpreadEvenly
  <2> SUFFICES ASSUME NEW C \in CandidateSets, Cardinality(C) > 1, NEW m \in C, NEW n \in C
               PROVE  picks[m] <= picks[n] + 1
    BY DEF SpreadEvenly
  <2>1. PICK rank \in Rankings : TRUE
    BY DecisionsAssumption
  <2> QED
    BY <1>3, <2>1 DEF SpreadInv, Turns
<1> QED
  BY <1>1, <1>2, <1>3, TypeCorrect, PTL DEF Spec

================================================================================
