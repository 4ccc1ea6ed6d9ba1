----------------------------- MODULE ScoringProofs -----------------------------
(***************************************************************************)
(* Theorems about Scoring and ScoringCycle for all values of the           *)
(* constants: the counts that keep the services apart are those of the     *)
(* decisions in Redis, every score is from 15 to 100, types are kept, and  *)
(* a node that is decided on has room.                                     *)
(***************************************************************************)
EXTENDS ScoringCycle, WeightTheorems

(* A service is scored once a cycle, so that none counts twice.            *)
CountInv ==
  /\ selections \in [Nodes -> Nat]
  /\ DOMAIN decisions = Services
  /\ scored \subseteq Services \ todo
  /\ SelectionsCounted

LEMMA CountInit == Init => CountInv
<1> SUFFICES ASSUME Init PROVE CountInv
  OBVIOUS
<1>1. /\ selections \in [Nodes -> Nat] /\ DOMAIN decisions = Services /\ scored = {}
      /\ \A n \in Nodes : selections[n] = 0
  BY DEF Init, Zero
<1>2. \A n : Cardinality({s \in scored : decisions[s].best = n}) = 0
  <2>1. \A n : {s \in scored : decisions[s].best = n} = {}
    BY <1>1
  <2> QED
    BY <2>1, FS_EmptySet
<1> QED
  BY <1>1, <1>2 DEF CountInv, SelectionsCounted

(* A decision that was saved counts for its node, and no other changes.    *)
LEMMA Saved ==
  ASSUME CountInv, NEW s \in todo, s \in Services, NEW best,
         decisions' = [decisions EXCEPT ![s] = [status |-> "Scheduled", best |-> best]],
         selections' = [selections EXCEPT ![best] = @ + 1],
         scored' = scored \cup {s}, todo' = todo \ {s}
  PROVE  CountInv'
<1>0. /\ selections \in [Nodes -> Nat] /\ DOMAIN decisions = Services
      /\ s \notin scored /\ scored \subseteq Services
      /\ \A n \in Nodes : selections[n] = Cardinality({a \in scored : decisions[a].best = n})
  BY DEF CountInv, SelectionsCounted
<1>1. decisions'[s].best = best /\ \A a \in scored : decisions'[a] = decisions[a]
  BY <1>0
<1>2. ASSUME NEW n \in Nodes
      PROVE  selections'[n] = Cardinality({a \in scored' : decisions'[a].best = n})
  <2> DEFINE C == {a \in scored : decisions[a].best = n}
  <2>1. IsFiniteSet(C)
    <3>1. C \subseteq Services /\ IsFiniteSet(Services)
      BY <1>0, ScoringAssumption
    <3> QED
      BY <3>1, FS_Subset
  <2>2. CASE n = best
    <3>1. {a \in scored' : decisions'[a].best = n} = C \cup {s} /\ s \notin C
      BY <1>0, <1>1, <2>2
    <3>2. Cardinality(C \cup {s}) = Cardinality(C) + 1
      BY <2>1, <3>1, FS_AddElement
    <3> QED
      BY <1>0, <2>2, <3>1, <3>2
  <2>3. CASE n # best
    <3>1. {a \in scored' : decisions'[a].best = n} = C
      BY <1>0, <1>1, <2>3
    <3> QED
      BY <1>0, <2>3, <3>1
  <2> QED
    BY <2>2, <2>3
<1>3. selections' \in [Nodes -> Nat] /\ DOMAIN decisions' = Services
  <2>1. selections' = [n \in Nodes |-> IF n = best THEN selections[best] + 1 ELSE selections[n]]
    BY <1>0
  <2>2. \A n \in Nodes : selections'[n] \in Nat
    BY <1>0, <2>1
  <2> QED
    BY <1>0, <2>1, <2>2
<1>4. scored' \subseteq Services \ todo'
  BY <1>0 DEF CountInv
<1> QED
  BY <1>2, <1>3, <1>4 DEF CountInv, SelectionsCounted

LEMMA CountStep == CountInv /\ [Next]_vars => CountInv'
<1> SUFFICES ASSUME CountInv, [Next]_vars PROVE CountInv'
  OBVIOUS
<1>0. /\ selections \in [Nodes -> Nat] /\ DOMAIN decisions = Services
      /\ scored \subseteq Services \ todo
  BY DEF CountInv
<1>1. CASE UNCHANGED <<decisions, cycle>>
  BY <1>1 DEF cycle, CountInv, SelectionsCounted
<1>2. CASE (Discover /\ UNCHANGED decisions) \/ (Crash /\ UNCHANGED decisions)
  <2>1. selections' = Zero /\ scored' = {}
    BY <1>2 DEF Discover, Crash
  <2>2. \A n : {s \in scored' : decisions'[s].best = n} = {}
    BY <2>1
  <2>3. \A n : Cardinality({s \in scored' : decisions'[s].best = n}) = 0
    BY <2>2, FS_EmptySet
  <2> QED
    BY <1>0, <1>2, <2>1, <2>3 DEF CountInv, SelectionsCounted, Zero
<1>3. ASSUME NEW s \in Services, ComputeForService(s) PROVE CountInv'
  <2>0. s \in todo /\ todo' = todo \ {s} /\ s \notin scored
    BY <1>0, <1>3 DEF ComputeForService, Done
  <2>1. ASSUME NEW best, Save(s, best) PROVE CountInv'
    <3>1. CASE UNCHANGED <<decisions, selections, scored>>
      BY <1>0, <2>0, <3>1 DEF CountInv, SelectionsCounted
    <3> QED
      BY <2>0, <2>1, <3>1, Saved DEF Save
  <2>2. CASE WriteNeutralDecision(s)
    <3>1. /\ UNCHANGED selections /\ scored' = scored
          /\ DOMAIN decisions' = Services
          /\ \A a \in scored : decisions'[a] = decisions[a]
      BY <1>0, <2>0, <2>2 DEF WriteNeutralDecision
    <3>2. \A n : {a \in scored' : decisions'[a].best = n} = {a \in scored : decisions[a].best = n}
      BY <3>1
    <3> QED
      BY <1>0, <2>0, <3>1, <3>2 DEF CountInv, SelectionsCounted
  <2> QED
    BY <1>3, <2>1, <2>2 DEF ComputeForService
<1> QED
  BY <1>1, <1>2, <1>3
     DEF Next, Environment, MovePod, ChangeNode, Discover, Crash, vars

(* However many services and nodes there are, and whichever saves fail, a  *)
(* node is charged with as many choices as decisions of this cycle in      *)
(* Redis name it.                                                          *)
THEOREM CountsSelections == Spec => []SelectionsCounted
<1>1. CountInv => SelectionsCounted
  BY DEF CountInv
<1> QED
  BY <1>1, CountInit, CountStep, PTL DEF Spec

--------------------------------------------------------------------------------
(* The operators of the arithmetic.                                        *)
LEMMA MaxOf ==
  ASSUME NEW S \in SUBSET Nat, IsFiniteSet(S), S # {}
  PROVE  Max(S) \in S /\ \A y \in S : y <= Max(S)
<1> DEFINE Bounds == {b \in Nat : \A y \in S : y <= b}
<1>1. Bounds # {}
  <2> DEFINE f == [y \in S |-> y]
  <2>1. SumFunction(f) \in Nat /\ \A y \in S : y <= SumFunction(f)
    <3>1. DOMAIN f = S /\ \A y \in S : f[y] = y
      OBVIOUS
    <3> HIDE DEF f
    <3> QED
      BY <3>1, SumBounds
  <2> QED
    BY <2>1
<1>2. PICK b \in Bounds : \A c \in Bounds : b <= c
  BY <1>1, NatMin
<1>3. b \in S
  <2>1. ASSUME b \notin S PROVE FALSE
    <3>1. b # 0
      <4>1. PICK y \in S : TRUE
        OBVIOUS
      <4>2. y \in Nat /\ y <= b /\ y # b
        BY <1>2, <2>1
      <4> QED
        BY <4>2
    <3>2. b - 1 \in Bounds
      BY <1>2, <2>1, <3>1
    <3> QED
      BY <1>2, <3>2
  <2> QED
    BY <2>1
<1>4. \A y \in S : b >= y
  BY <1>2
<1>5. \A y \in S : Max(S) >= y /\ Max(S) \in S
  BY <1>3, <1>4 DEF Max
<1> QED
  BY <1>5

(* The i-th of the sorted values is one of them; as many as i are no       *)
(* larger, and fewer are smaller.                                          *)
Samples(f) == f \in [DOMAIN f -> Nat] /\ IsFiniteSet(DOMAIN f)

UpTo(f, v) == {x \in DOMAIN f : f[x] <= v}
Below(f, v) == {x \in DOMAIN f : f[x] < v}

LEMMA Counts ==
  ASSUME NEW f, Samples(f), NEW v
  PROVE  /\ IsFiniteSet(UpTo(f, v)) /\ Cardinality(UpTo(f, v)) \in Nat
         /\ IsFiniteSet(Below(f, v)) /\ Cardinality(Below(f, v)) \in Nat
         /\ Cardinality(DOMAIN f) \in Nat
<1>1. UpTo(f, v) \in SUBSET DOMAIN f /\ Below(f, v) \in SUBSET DOMAIN f
  BY DEF UpTo, Below
<1> QED
  BY <1>1, FS_Subset, FS_CardinalityType DEF Samples

LEMMA SortedIs ==
  ASSUME NEW f, Samples(f), NEW i \in 1..Cardinality(DOMAIN f)
  PROVE  /\ \E x \in DOMAIN f : Sorted(f, i) = f[x]
         /\ Sorted(f, i) \in Nat
         /\ Cardinality(Below(f, Sorted(f, i))) < i
         /\ i <= Cardinality(UpTo(f, Sorted(f, i)))
<1> DEFINE T == {v \in Nat : i <= Cardinality(UpTo(f, v))}
<1>1. T # {}
  <2>1. SumFunction(f) \in Nat /\ \A x \in DOMAIN f : f[x] <= SumFunction(f)
    BY SumBounds DEF Samples
  <2>2. UpTo(f, SumFunction(f)) = DOMAIN f
    BY <2>1 DEF UpTo
  <2>3. Cardinality(DOMAIN f) \in Nat
    BY Counts
  <2> QED
    BY <2>1, <2>2, <2>3
<1>2. PICK v \in T : \A u \in T : v <= u
  BY <1>1, NatMin
<1>3. Cardinality(Below(f, v)) < i
  <2>1. CASE v = 0
    <3>1. Below(f, v) = {}
      BY <2>1 DEF Below, Samples
    <3> QED
      BY <3>1, FS_EmptySet
  <2>2. CASE v # 0
    <3>1. v - 1 \in Nat /\ v - 1 \notin T
      BY <1>2, <2>2
    <3>2. Below(f, v) = UpTo(f, v - 1)
      BY <1>2, <2>2 DEF Below, UpTo, Samples
    <3>3. Cardinality(UpTo(f, v - 1)) \in Nat
      BY Counts
    <3> QED
      BY <3>1, <3>2, <3>3
  <2> QED
    BY <2>1, <2>2
<1>4. \E x \in DOMAIN f : v = f[x]
  <2>1. Below(f, v) # UpTo(f, v)
    BY <1>2, <1>3, Counts
  <2> QED
    BY <2>1 DEF Below, UpTo, Samples
<1>5. v \in Range(f) /\ Cardinality(UpTo(f, v)) >= i
  BY <1>2, <1>4, Counts DEF Range
<1>6. /\ Sorted(f, i) \in Range(f)
      /\ Cardinality(Below(f, Sorted(f, i))) < i
      /\ Cardinality(UpTo(f, Sorted(f, i))) >= i
  BY <1>3, <1>5 DEF Sorted, Below, UpTo
<1>7. \E x \in DOMAIN f : Sorted(f, i) = f[x]
  BY <1>6 DEF Range
<1> QED
  BY <1>6, <1>7, Counts DEF Samples

LEMMA SortedGrows ==
  ASSUME NEW f, Samples(f),
         NEW i \in 1..Cardinality(DOMAIN f), NEW j \in 1..Cardinality(DOMAIN f), i <= j
  PROVE  Sorted(f, i) <= Sorted(f, j)
<1> DEFINE u == Sorted(f, i)
           v == Sorted(f, j)
<1>1. /\ u \in Nat /\ v \in Nat /\ Cardinality(Below(f, u)) < i
      /\ j <= Cardinality(UpTo(f, v)) /\ Cardinality(DOMAIN f) \in Nat
  BY SortedIs, Counts
<1> HIDE DEF u, v
<1>2. ASSUME v < u PROVE FALSE
  <2>1. UpTo(f, v) \in SUBSET Below(f, u)
    BY <1>1, <1>2 DEF UpTo, Below, Samples
  <2>2. Cardinality(UpTo(f, v)) <= Cardinality(Below(f, u))
    BY <2>1, Counts, FS_Subset
  <2> QED
    BY <1>1, <2>2, Counts
<1> QED
  BY <1>1, <1>2 DEF u, v

(* Where a percentile lies among count samples: within them, and with a    *)
(* successor to interpolate with unless it is one of them.                 *)
LEMMA Places ==
  ASSUME NEW count \in Nat \ {0}, NEW k \in {1, 19}, NEW pos, pos = k * (count - 1)
  PROVE  /\ pos \in Nat /\ pos \div 20 \in Nat /\ pos % 20 \in 0..19
         /\ pos = (20 * (pos \div 20)) + (pos % 20)
         /\ (pos \div 20) + 1 \in 1..count
         /\ pos % 20 # 0 => ((pos \div 20) + 1) + 1 \in 1..count
BY SMT

LEMMA PartsOf ==
  ASSUME NEW d \in Nat, NEW a \in 0..20, NEW b \in 0..20, a <= b
  PROVE  a * d \in Nat /\ b * d \in Nat /\ a * d <= b * d /\ b * d <= 20 * d
<1>1. \A c \in 0..20 : c * d \in Nat /\ c * d <= 20 * d
  BY SMT
<1>2. (b - a) \in Nat /\ (b - a) * d \in Nat
  BY SMT
<1>3. b * d = (a * d) + ((b - a) * d)
  BY SMT
<1> QED
  BY <1>1, <1>2, <1>3

Interpolated(f, i, part) ==
  20 * Sorted(f, i) + (IF part = 0 THEN 0 ELSE part * (Sorted(f, i + 1) - Sorted(f, i)))

LEMMA PercentilesOrdered ==
  ASSUME NEW f, Samples(f), DOMAIN f # {}
  PROVE  /\ Percentile20(f, 1) \in Nat /\ Percentile20(f, 19) \in Nat
         /\ Percentile20(f, 1) <= Percentile20(f, 19)
<1> DEFINE count == Cardinality(DOMAIN f)
           pos1 == 1 * (count - 1)
           pos19 == 19 * (count - 1)
           i1 == (pos1 \div 20) + 1
           i19 == (pos19 \div 20) + 1
           part1 == pos1 % 20
           part19 == pos19 % 20
<1>1. count \in Nat \ {0}
  BY Counts, FS_EmptySet DEF Samples
<1>2. /\ Percentile20(f, 1) = Interpolated(f, i1, part1)
      /\ Percentile20(f, 19) = Interpolated(f, i19, part19)
  BY DEF Percentile20, Interpolated
<1>3. /\ i1 \in 1..count /\ part1 \in 0..19 /\ (part1 # 0 => i1 + 1 \in 1..count)
      /\ i19 \in 1..count /\ part19 \in 0..19 /\ (part19 # 0 => i19 + 1 \in 1..count)
      /\ pos1 = (20 * (i1 - 1)) + part1 /\ pos19 = (20 * (i19 - 1)) + part19
      /\ pos1 <= pos19
  <2>1. pos1 <= pos19 /\ 1 \in {1, 19} /\ 19 \in {1, 19}
    BY <1>1
  <2> HIDE DEF count
  <2>2. /\ pos1 \in Nat /\ pos1 \div 20 \in Nat /\ pos1 % 20 \in 0..19
        /\ pos1 = (20 * (pos1 \div 20)) + (pos1 % 20)
        /\ (pos1 \div 20) + 1 \in 1..count
        /\ pos1 % 20 # 0 => ((pos1 \div 20) + 1) + 1 \in 1..count
    <3> HIDE DEF pos1
    <3> QED
      BY <1>1, <2>1, Places DEF pos1
  <2>3. /\ pos19 \in Nat /\ pos19 \div 20 \in Nat /\ pos19 % 20 \in 0..19
        /\ pos19 = (20 * (pos19 \div 20)) + (pos19 % 20)
        /\ (pos19 \div 20) + 1 \in 1..count
        /\ pos19 % 20 # 0 => ((pos19 \div 20) + 1) + 1 \in 1..count
    <3> HIDE DEF pos19
    <3> QED
      BY <1>1, <2>1, Places DEF pos19
  <2> HIDE DEF pos1, pos19
  <2>4. i1 - 1 = pos1 \div 20 /\ i19 - 1 = pos19 \div 20
    BY <2>2, <2>3
  <2> QED
    BY <2>1, <2>2, <2>3, <2>4
<1>4. i1 < i19 \/ (i1 = i19 /\ part1 <= part19)
  <2> HIDE DEF i1, i19, part1, part19
  <2> QED
    BY <1>1, <1>3
<1> HIDE DEF count, pos1, pos19, i1, i19, part1, part19
(* An interpolated value lies between its two neighbours.                  *)
<1>5. ASSUME NEW i \in 1..count, NEW part \in 0..19, part # 0 => i + 1 \in 1..count
      PROVE  /\ Sorted(f, i) \in Nat
             /\ Interpolated(f, i, part) \in Nat
             /\ 20 * Sorted(f, i) <= Interpolated(f, i, part)
             /\ part = 0 => Interpolated(f, i, part) = 20 * Sorted(f, i)
             /\ part # 0 => /\ Sorted(f, i + 1) - Sorted(f, i) \in Nat
                            /\ Sorted(f, i + 1) \in Nat
                            /\ Interpolated(f, i, part) <= 20 * Sorted(f, i + 1)
  <2>1. Sorted(f, i) \in Nat
    BY <1>5, SortedIs DEF count
  <2>2. CASE part = 0
    BY <2>1, <2>2 DEF Interpolated
  <2>3. CASE part # 0
    <3>1. Sorted(f, i + 1) \in Nat /\ Sorted(f, i) <= Sorted(f, i + 1)
      BY <1>1, <1>5, <2>3, SortedIs, SortedGrows DEF count
    <3>2. PICK d \in Nat : d = Sorted(f, i + 1) - Sorted(f, i)
      BY <2>1, <3>1
    <3>3. part * d \in Nat /\ part * d <= 20 * d
      BY PartsOf
    <3>4. Interpolated(f, i, part) = 20 * Sorted(f, i) + part * d
      BY <2>3, <3>2 DEF Interpolated
    <3> QED
      BY <2>1, <2>3, <3>1, <3>2, <3>3, <3>4
  <2> QED
    BY <2>2, <2>3
<1>6. Interpolated(f, i1, part1) \in Nat /\ Interpolated(f, i19, part19) \in Nat
  BY <1>3, <1>5
<1>7. CASE i1 < i19
  <2>1. CASE part1 = 0
    <3>1. Sorted(f, i1) <= Sorted(f, i19)
      BY <1>1, <1>3, <1>7, SortedGrows DEF count
    <3> QED
      BY <1>2, <1>3, <1>5, <1>6, <2>1, <3>1
  <2>2. CASE part1 # 0
    <3>1. Sorted(f, i1 + 1) <= Sorted(f, i19)
      BY <1>1, <1>3, <1>7, <2>2, SortedGrows DEF count
    <3>2. /\ Interpolated(f, i1, part1) <= 20 * Sorted(f, i1 + 1) /\ Sorted(f, i1 + 1) \in Nat
          /\ 20 * Sorted(f, i19) <= Interpolated(f, i19, part19) /\ Sorted(f, i19) \in Nat
      BY <1>3, <1>5, <2>2
    <3> QED
      BY <1>2, <1>6, <3>1, <3>2
  <2> QED
    BY <2>1, <2>2
<1>8. CASE i1 = i19 /\ part1 <= part19
  <2>1. CASE part1 = 0
    BY <1>2, <1>3, <1>5, <1>6, <1>8, <2>1
  <2>2. CASE part1 # 0
    <3>1. PICK d \in Nat : d = Sorted(f, i1 + 1) - Sorted(f, i1)
      BY <1>3, <1>5, <2>2
    <3>2. part1 * d <= part19 * d /\ part1 * d \in Nat /\ part19 * d \in Nat
      BY <1>3, <1>8, PartsOf
    <3>3. /\ Interpolated(f, i1, part1) = 20 * Sorted(f, i1) + part1 * d
          /\ Interpolated(f, i19, part19) = 20 * Sorted(f, i1) + part19 * d
          /\ Sorted(f, i1) \in Nat
      BY <1>3, <1>5, <1>8, <2>2, <3>1 DEF Interpolated
    <3> QED
      BY <1>2, <1>6, <3>2, <3>3
  <2> QED
    BY <2>1, <2>2
<1> QED
  BY <1>2, <1>4, <1>6, <1>7, <1>8

LEMMA WithinType ==
  ASSUME NEW lo \in Int, NEW hi \in Int, lo <= hi, NEW x \in Int
  PROVE  Within(lo, hi, x) \in lo..hi
BY DEF Within, Lower, Higher

(* Normalisation never divides by zero, nor by less, and what it gives is  *)
(* a share in thousandths.                                                 *)
LEMMA NormRange ==
  ASSUME NEW f, Samples(f), DOMAIN f # {}, NEW x \in Nat
  PROVE  Norm(x, f) \in 0..1000
<1> DEFINE p05 == Percentile20(f, 1)
           p95 == Percentile20(f, 19)
<1>1. p05 \in Nat /\ p95 \in Nat /\ p05 <= p95
  BY PercentilesOrdered
<1> HIDE DEF p05, p95
<1>2. p05 # p95 => ((20 * x - p05) * 1000) \div (p95 - p05) \in Int
  <2>1. ASSUME p05 # p95 PROVE ((20 * x - p05) * 1000) \div (p95 - p05) \in Int
    <3>1. p95 - p05 \in Nat \ {0} /\ (20 * x - p05) * 1000 \in Int
      BY <1>1, <2>1
    <3> QED
      BY <3>1
  <2> QED
    BY <2>1
<1>3. Norm(x, f) = IF p05 = p95 THEN 500
                   ELSE Within(0, 1000, ((20 * x - p05) * 1000) \div (p95 - p05))
  BY DEF Norm, p05, p95
<1>4. CASE p05 = p95
  BY <1>3, <1>4
<1>5. CASE p05 # p95
  <2>1. PICK share \in Int : share = ((20 * x - p05) * 1000) \div (p95 - p05)
    BY <1>2, <1>5
  <2>2. Within(0, 1000, share) \in 0..1000
    BY DEF Within, Lower, Higher
  <2> QED
    BY <1>3, <1>5, <2>1, <2>2
<1> QED
  BY <1>4, <1>5

LEMMA NormOfRange ==
  ASSUME NEW f, Samples(f), NEW x \in DOMAIN f
  PROVE  NormOf(f, x) \in 0..1000
BY NormRange DEF NormOf, Samples

(* The median of some samples lies among them: it is a number, and theirs  *)
(* if they agree.                                                          *)
LEMMA MedianIs ==
  ASSUME NEW f, Samples(f), DOMAIN f # {}
  PROVE  /\ Median(f) \in Nat
         /\ \A v \in Nat : (\A x \in DOMAIN f : f[x] = v) => Median(f) = v
<1> DEFINE count == Cardinality(DOMAIN f)
           mid == count \div 2
<1>1. count \in Nat \ {0}
  BY Counts, FS_EmptySet DEF Samples
<1> HIDE DEF count
<1>2. \A i \in 1..count : Sorted(f, i) \in Nat /\ \E x \in DOMAIN f : Sorted(f, i) = f[x]
  BY SortedIs DEF count
<1>3. CASE count % 2 = 1
  <2>1. mid + 1 \in 1..count
    BY <1>1, <1>3
  <2>2. Median(f) = Sorted(f, mid + 1)
    BY <1>3 DEF Median, count
  <2> QED
    BY <1>2, <2>1, <2>2
<1>4. CASE count % 2 # 1
  <2>1. mid \in 1..count /\ mid + 1 \in 1..count
    BY <1>1, <1>4
  <2>2. Median(f) = (Sorted(f, mid) + Sorted(f, mid + 1)) \div 2
    BY <1>4 DEF Median, count
  <2> HIDE DEF mid
  <2>3. PICK a \in Nat : a = Sorted(f, mid) /\ \E x \in DOMAIN f : a = f[x]
    BY <1>2, <2>1
  <2>4. PICK b \in Nat : b = Sorted(f, mid + 1) /\ \E x \in DOMAIN f : b = f[x]
    BY <1>2, <2>1
  <2>5. Median(f) = (a + b) \div 2
    BY <2>2, <2>3, <2>4
  <2>6. Median(f) \in Nat /\ (a = b => Median(f) = a)
    BY <2>5
  <2> QED
    BY <2>3, <2>4, <2>6
<1> QED
  BY <1>3, <1>4

LEMMA MaxValue ==
  ASSUME NEW f, Samples(f), DOMAIN f # {}
  PROVE  /\ Max({f[x] : x \in DOMAIN f}) \in {f[x] : x \in DOMAIN f}
         /\ Max({f[x] : x \in DOMAIN f}) \in Nat
         /\ \A x \in DOMAIN f : f[x] <= Max({f[x0] : x0 \in DOMAIN f})
<1> DEFINE S == {f[x] : x \in DOMAIN f}
<1>1. S \in SUBSET Nat /\ S # {}
  BY DEF Samples
<1>2. IsFiniteSet(S)
  <2>1. [x \in DOMAIN f |-> f[x]] \in Surjection(DOMAIN f, S)
    BY DEF Surjection
  <2> QED
    BY <2>1, FS_Surjection DEF Samples
<1>3. Max(S) \in S /\ \A y \in S : y <= Max(S)
  <2> HIDE DEF S
  <2> QED
    BY <1>1, <1>2, MaxOf
<1> QED
  BY <1>1, <1>3

--------------------------------------------------------------------------------
(* What the pods ask for and the nodes have.                               *)
LEMMA RequestType ==
  ASSUME NEW p \in Pods
  PROVE  PodRequest(p) \in Amounts
<1>1. ASSUME NEW r \in Resources, NEW C \in Seq(Amounts)
      PROVE  /\ IsFiniteSet(DOMAIN C)
             /\ \A i \in DOMAIN C : C[i][r] \in Nat
  <2>1. DOMAIN C = 1..Len(C) /\ Len(C) \in Nat /\ \A i \in 1..Len(C) : C[i] \in Amounts
    OBVIOUS
  <2>2. IsFiniteSet(1..Len(C))
    BY <2>1, FS_Interval
  <2> QED
    BY <2>1, <2>2 DEF Amounts
<1>2. ASSUME NEW r \in Resources
      PROVE  PodRequest(p)[r] \in Nat
  <2> DEFINE C == [i \in DOMAIN Containers[p] |-> Containers[p][i][r]]
             I == [i \in DOMAIN InitContainers[p] |-> InitContainers[p][i][r]]
             S == {0} \cup {InitContainers[p][i][r] : i \in DOMAIN InitContainers[p]}
  <2>1. Containers[p] \in Seq(Amounts) /\ InitContainers[p] \in Seq(Amounts)
    BY ScoringAssumption
  <2>2. /\ IsFiniteSet(DOMAIN C) /\ \A i \in DOMAIN C : C[i] \in Nat
        /\ IsFiniteSet(DOMAIN I) /\ \A i \in DOMAIN I : I[i] \in Nat
    BY <1>1, <2>1
  <2>3. SumFunction(C) \in Nat
    <3> HIDE DEF C
    <3> QED
      BY <2>2, SumBounds
  <2>4. IsFiniteSet(S)
    <3>1. I \in Surjection(DOMAIN I, {I[i] : i \in DOMAIN I})
      BY DEF Surjection
    <3>2. IsFiniteSet({I[i] : i \in DOMAIN I})
      <4> HIDE DEF I
      <4> QED
        BY <2>2, <3>1, FS_Surjection
    <3>3. S = {I[i] : i \in DOMAIN I} \cup {0}
      OBVIOUS
    <3> HIDE DEF I, S
    <3> QED
      BY <3>2, <3>3, FS_AddElement
  <2>5. S \in SUBSET Nat /\ S # {}
    <3>1. \A i \in DOMAIN InitContainers[p] : InitContainers[p][i][r] \in Nat
      BY <1>1, <2>1
    <3> QED
      BY <3>1
  <2>6. Max(S) \in Nat
    <3> HIDE DEF S
    <3> QED
      BY <2>4, <2>5, MaxOf
  <2>7. PodRequest(p)[r] = Higher(SumFunction(C), Max(S))
    BY DEF PodRequest
  <2> HIDE DEF C, S
  <2> QED
    BY <2>3, <2>6, <2>7 DEF Higher
<1>3. PodRequest(p) = [r \in Resources |-> PodRequest(p)[r]]
  BY DEF PodRequest
<1> QED
  BY <1>2, <1>3 DEF Amounts

(* What GetNodeRuntime may answer.                                         *)
RuntimeOK(rt) ==
  /\ DOMAIN rt \subseteq Nodes
  /\ \A n \in DOMAIN rt : rt[n].status \in NodeStatus /\ rt[n].pods \subseteq Pods

LEMMA UsedType ==
  ASSUME NEW rt, RuntimeOK(rt), NEW n \in DOMAIN rt, NEW r \in Resources
  PROVE  Used(rt, n, r) \in Nat
<1> DEFINE f == [p \in rt[n].pods |-> PodRequest(p)[r]]
<1>1. DOMAIN f \in SUBSET Pods /\ \A p \in DOMAIN f : f[p] \in Nat
  BY RequestType DEF RuntimeOK, Amounts
<1>2. IsFiniteSet(DOMAIN f)
  BY <1>1, FS_Subset, ScoringAssumption
<1>3. SumFunction(f) \in Nat
  <2> HIDE DEF f
  <2> QED
    BY <1>1, <1>2, SumBounds
<1> QED
  BY <1>3 DEF Used

(* What one more pod of a service will ask for: an amount, and the same as *)
(* those that run if they all ask for the same.                            *)
LEMMA IncomingIs ==
  ASSUME NEW rt, RuntimeOK(rt), NEW s
  PROVE  /\ Incoming(rt, s) \in Amounts
         /\ \A p \in UNION {PodsOf(rt, n, s) : n \in DOMAIN rt} :
              (\A q \in UNION {PodsOf(rt, n, s) : n \in DOMAIN rt} : PodRequest(q) = PodRequest(p))
                => Incoming(rt, s) = PodRequest(p)
<1> DEFINE samples == UNION {PodsOf(rt, n, s) : n \in DOMAIN rt}
           f(r) == [p \in samples |-> PodRequest(p)[r]]
<1>1. samples \in SUBSET Pods
  BY DEF PodsOf, RuntimeOK
<1>2. IsFiniteSet(samples)
  BY <1>1, FS_Subset, ScoringAssumption
<1>3. CASE samples = {}
  BY <1>3, ScoringAssumption DEF Incoming
<1>4. CASE samples # {}
  <2>1. Incoming(rt, s) = [r \in Resources |-> Median(f(r))]
    BY <1>4 DEF Incoming
  <2> HIDE DEF samples
  <2>2. ASSUME NEW r \in Resources
        PROVE  /\ Median(f(r)) \in Nat
               /\ \A p \in samples : (\A q \in samples : PodRequest(q) = PodRequest(p))
                                       => Median(f(r)) = PodRequest(p)[r]
    <3> DEFINE g == f(r)
    <3>1. DOMAIN g = samples /\ \A p \in samples : g[p] = PodRequest(p)[r] /\ g[p] \in Nat
      BY <1>1, RequestType DEF Amounts
    <3>2. g = [p \in samples |-> g[p]]
      OBVIOUS
    <3> HIDE DEF g
    <3>3. Samples(g)
      BY <1>2, <3>1, <3>2 DEF Samples
    <3>4. /\ Median(g) \in Nat
          /\ \A v \in Nat : (\A x \in DOMAIN g : g[x] = v) => Median(g) = v
      BY <1>4, <3>1, <3>3, MedianIs
    <3>5. ASSUME NEW p \in samples, \A q \in samples : PodRequest(q) = PodRequest(p)
          PROVE  Median(g) = PodRequest(p)[r]
      BY <3>1, <3>4, <3>5
    <3>6. /\ Median(g) \in Nat
          /\ \A p \in samples : (\A q \in samples : PodRequest(q) = PodRequest(p))
                                  => Median(g) = PodRequest(p)[r]
      BY <3>4, <3>5
    <3> QED
      BY <3>6 DEF g
  <2>3. Incoming(rt, s) \in Amounts
    BY <2>1, <2>2 DEF Amounts
  <2>4. ASSUME NEW p \in samples, \A q \in samples : PodRequest(q) = PodRequest(p)
        PROVE  Incoming(rt, s) = PodRequest(p)
    <3>1. \A r \in Resources : Median(f(r)) = PodRequest(p)[r]
      BY <2>2, <2>4
    <3>2. PodRequest(p) = [r \in Resources |-> PodRequest(p)[r]]
      BY DEF PodRequest
    <3> HIDE DEF f
    <3> QED
      BY <2>1, <3>1, <3>2
  <2> QED
    BY <2>3, <2>4 DEF samples
<1> QED
  BY <1>3, <1>4

(* What the filter lets through.                                           *)
LEMMA FeasibleIs ==
  ASSUME NEW rt, RuntimeOK(rt), NEW nodes \in SUBSET Nodes, NEW s,
         NEW n \in Feasible(rt, nodes, s)
  PROVE  /\ n \in nodes /\ n \in Nodes /\ n \in DOMAIN rt
         /\ rt[n].status.ready /\ rt[n].status.schedulable
         /\ rt[n].status.tainted => \A a \in nodes : a \in DOMAIN rt /\ rt[a].status.tainted
         /\ \A r \in Resources : rt[n].status.alloc[r] \in Nat \ {0}
         /\ HasRoom(rt, n, Incoming(rt, s))
<1>1. /\ n \in Targets(rt, nodes) /\ n \in DOMAIN rt
      /\ rt[n].status.ready /\ rt[n].status.schedulable
      /\ \A r \in Resources : rt[n].status.alloc[r] > 0
      /\ HasRoom(rt, n, Incoming(rt, s))
  BY DEF Feasible
<1>2. n \in nodes /\ (rt[n].status.tainted => \A a \in nodes : a \in DOMAIN rt /\ rt[a].status.tainted)
  BY <1>1 DEF Targets, Untainted
<1>3. \A r \in Resources : rt[n].status.alloc[r] \in Nat
  BY <1>1 DEF RuntimeOK, NodeStatus, Amounts
<1> QED
  BY <1>1, <1>2, <1>3

(* How close a node comes to 65 percent is a share.                        *)
LEMMA UtilizationRange ==
  ASSUME NEW rt, RuntimeOK(rt), NEW n \in DOMAIN rt, NEW ask \in Amounts,
         \A r \in Resources : rt[n].status.alloc[r] \in Nat \ {0}
  PROVE  Utilization(rt, n, ask) \in 0..1000
<1> DEFINE total(r) == (Used(rt, n, r) + ask[r]) * 1000
           share(r) == total(r) \div rt[n].status.alloc[r]
           Close(r) == Higher(0, 1000 - (Apart(share(r), 650) * 1000) \div 350)
<1>1. ASSUME NEW r \in Resources PROVE share(r) \in Int
  <2>1. total(r) \in Nat
    <3>1. Used(rt, n, r) \in Nat /\ ask[r] \in Nat
      BY UsedType DEF Amounts
    <3> QED
      BY <3>1
  <2>2. rt[n].status.alloc[r] \in Nat \ {0}
    OBVIOUS
  <2> HIDE DEF total
  <2> QED
    BY <2>1, <2>2
<1>2. ASSUME NEW x \in Int
      PROVE  Higher(0, 1000 - (Apart(x, 650) * 1000) \div 350) \in 0..1000
  <2>1. PICK gap \in Nat : gap = Apart(x, 650)
    BY DEF Apart
  <2>2. (gap * 1000) \div 350 \in Nat
    OBVIOUS
  <2> QED
    BY <2>1, <2>2 DEF Higher
<1>3. Close("cpu") \in 0..1000 /\ Close("mem") \in 0..1000
  <2>1. share("cpu") \in Int /\ share("mem") \in Int
    BY <1>1 DEF Resources
  <2> HIDE DEF share
  <2>2. ASSUME NEW x \in Int, NEW r, x = share(r) PROVE Close(r) \in 0..1000
    BY <1>2, <2>2
  <2> HIDE DEF Close
  <2> QED
    BY <2>1, <2>2
<1>4. Utilization(rt, n, ask) = (Close("cpu") + Close("mem")) \div 2
  BY DEF Utilization
<1> HIDE DEF Close
<1>5. PICK a \in 0..1000 : a = Close("cpu")
  BY <1>3
<1>6. PICK b \in 0..1000 : b = Close("mem")
  BY <1>3
<1>7. Utilization(rt, n, ask) = (a + b) \div 2
  BY <1>4, <1>5, <1>6
<1> QED
  BY <1>7

(* Of none, the most, or anything between: a share.                        *)
LEMMA ShareRange ==
  ASSUME NEW most \in Nat, NEW k \in 0..most
  PROVE  Share(k, most) \in 0..1000
<1>1. PICK q \in Int : q = (k * 1000) \div (most + 1)
  OBVIOUS
<1>2. q \in Nat
  BY <1>1
<1>3. q * (most + 1) <= k * 1000
  BY <1>1
<1>4. q < 1000
  <2>1. ASSUME q >= 1000 PROVE FALSE
    <3>1. PICK d \in Nat : d = q - 1000
      BY <1>2, <2>1
    <3>2. q * (most + 1) = 1000 * (most + 1) + d * (most + 1)
      BY <3>1
    <3>3. d * (most + 1) \in Nat
      BY SMT
    <3> QED
      BY <1>3, <3>2, <3>3
  <2> QED
    BY <1>2, <2>1
<1> QED
  BY <1>1, <1>2, <1>4 DEF Share

LEMMA Log1pType ==
  ASSUME NEW k
  PROVE  Log1p(k) \in Nat
BY DEF Log1p

LEMMA SpreadRange ==
  ASSUME NEW k
  PROVE  Spread(k) \in 0..1000
BY DEF Spread

(* What follows from well-formed metrics.                                  *)
LEMMA MetricsType ==
  ASSUME NEW m, WellFormed(m), NEW f \in {m.out, m.in, m.rank, m.between, m.catalog, m.own}
  PROVE  /\ Samples(f) /\ DOMAIN f \in SUBSET Services
         /\ \A x : At(f, x) \in Nat
<1>1. f \in [DOMAIN f -> Nat] /\ DOMAIN f \in SUBSET Services
  BY DEF WellFormed
<1>2. IsFiniteSet(DOMAIN f)
  BY <1>1, FS_Subset, ScoringAssumption
<1> QED
  BY <1>1, <1>2 DEF Samples, At

LEMMA PeersType ==
  ASSUME NEW m, WellFormed(m), NEW K
  PROVE  /\ DOMAIN TopPeers(m, K) \in SUBSET Services
         /\ \A q \in DOMAIN TopPeers(m, K) : TopPeers(m, K)[q] \in 0..1000
<1> DEFINE traffic == PeerTraffic(m)
           weight == [q \in DOMAIN traffic |-> NormOf(traffic, q)]
<1>1. DOMAIN traffic = DOMAIN m.out \cup DOMAIN m.in
  BY DEF PeerTraffic
<1>2. DOMAIN traffic \in SUBSET Services
  BY <1>1, MetricsType
<1>3. IsFiniteSet(DOMAIN traffic)
  BY <1>2, FS_Subset, ScoringAssumption
<1>4. \A q \in DOMAIN traffic : traffic[q] \in Nat
  <2>1. ASSUME NEW q PROVE At(m.out, q) \in Nat /\ At(m.in, q) \in Nat
    BY MetricsType
  <2>2. \A q \in DOMAIN traffic : traffic[q] = At(m.out, q) + At(m.in, q)
    BY DEF PeerTraffic
  <2> QED
    BY <2>1, <2>2
<1>5. Samples(traffic)
  <2>1. traffic = [q \in DOMAIN traffic |-> traffic[q]]
    BY DEF PeerTraffic
  <2> HIDE DEF traffic
  <2> QED
    BY <1>3, <1>4, <2>1 DEF Samples
<1> HIDE DEF traffic
<1>6. \A q \in DOMAIN weight : weight[q] \in 0..1000
  BY <1>5, NormOfRange
<1>7. \A q \in DOMAIN TopPeers(m, K) : q \in DOMAIN weight /\ TopPeers(m, K)[q] = weight[q]
  BY DEF TopPeers, traffic
<1>8. DOMAIN weight = DOMAIN traffic
  OBVIOUS
<1> HIDE DEF weight
<1> QED
  BY <1>2, <1>6, <1>7, <1>8

(* The criticality of a service is a share.                                *)
LEMMA CriticalityRange ==
  ASSUME NEW m, WellFormed(m)
  PROVE  /\ \A q : At(Criticality(m), q) \in 0..1000
         /\ \A s : CriticalityOf(s, m) \in 0..1000
<1> DEFINE avail == [q \in DOMAIN m.own \cup DOMAIN m.catalog |->
                       IF q \in DOMAIN m.own THEN m.own[q] ELSE m.catalog[q]]
           values == [e \in ((DOMAIN m.catalog) \X {"catalog"}) \cup ((DOMAIN m.own) \X {"own"}) |->
                        IF e[2] = "own" THEN m.own[e[1]] ELSE m.catalog[e[1]]]
           AvailNorm(q) == IF q \in DOMAIN avail THEN Norm(avail[q], values) ELSE 500
<1>1. /\ Samples(m.own) /\ Samples(m.catalog) /\ Samples(m.rank) /\ Samples(m.between)
      /\ DOMAIN m.between = DOMAIN m.rank
  BY MetricsType DEF WellFormed
<1>2. Samples(values)
  <2>1. /\ DOMAIN values = ((DOMAIN m.catalog) \X {"catalog"}) \cup ((DOMAIN m.own) \X {"own"})
        /\ values = [e \in DOMAIN values |-> values[e]]
    OBVIOUS
  <2>2. \A e \in DOMAIN values : values[e] \in Nat
    <3>1. \A q \in DOMAIN m.own : m.own[q] \in Nat
      BY <1>1 DEF Samples
    <3>2. \A q \in DOMAIN m.catalog : m.catalog[q] \in Nat
      BY <1>1 DEF Samples
    <3> QED
      BY <3>1, <3>2
  <2>3. IsFiniteSet(DOMAIN values)
    <3>1. IsFiniteSet({"catalog"}) /\ IsFiniteSet({"own"})
      BY FS_Singleton
    <3>2. IsFiniteSet((DOMAIN m.catalog) \X {"catalog"}) /\ IsFiniteSet((DOMAIN m.own) \X {"own"})
      BY <1>1, <3>1, FS_Product DEF Samples
    <3> QED
      BY <2>1, <3>2, FS_Union
  <2> HIDE DEF values
  <2> QED
    BY <2>1, <2>2, <2>3 DEF Samples
<1>3. ASSUME NEW q PROVE AvailNorm(q) \in 0..1000
  <2>1. CASE q \in DOMAIN avail
    <3>1. DOMAIN avail = DOMAIN m.own \cup DOMAIN m.catalog
      OBVIOUS
    <3>2. avail[q] \in Nat
      BY <1>1, <2>1, <3>1 DEF Samples
    <3>3. DOMAIN values # {}
      <4>1. <<q, "own">> \in DOMAIN values \/ <<q, "catalog">> \in DOMAIN values
        BY <2>1, <3>1
      <4> QED
        BY <4>1
    <3> HIDE DEF values, avail
    <3> QED
      BY <1>2, <2>1, <3>2, <3>3, NormRange
  <2>2. CASE q \notin DOMAIN avail
    BY <2>2
  <2> QED
    BY <2>1, <2>2
<1>4. ASSUME NEW q \in DOMAIN m.rank
      PROVE  Criticality(m)[q] \in 0..1000
  <2>0. NormOf(m.rank, q) \in 0..1000 /\ NormOf(m.between, q) \in 0..1000
    BY <1>1, NormOfRange
  <2>1. PICK a \in 0..1000 : a = NormOf(m.rank, q)
    BY <2>0
  <2>2. PICK b \in 0..1000 : b = NormOf(m.between, q)
    BY <2>0
  <2>3. PICK c \in 0..1000 : c = AvailNorm(q)
    <3> HIDE DEF AvailNorm
    <3> QED
      BY <1>3
  <2>4. Criticality(m)[q]
          = (400 * NormOf(m.rank, q) + 400 * NormOf(m.between, q) + 200 * (1000 - AvailNorm(q)))
              \div 1000
    BY DEF Criticality
  <2>5. Criticality(m)[q] = (400 * a + 400 * b + 200 * (1000 - c)) \div 1000
    <3> HIDE DEF AvailNorm
    <3> QED
      BY <2>1, <2>2, <2>3, <2>4
  <2> QED
    BY <2>5
<1>5. DOMAIN Criticality(m) = DOMAIN m.rank
  BY DEF Criticality
<1>6. \A q : At(Criticality(m), q) \in 0..1000
  BY <1>4, <1>5 DEF At
<1> QED
  BY <1>6 DEF CriticalityOf

(* Whether a function of nodes or services is made of numbers.             *)
LEMMA FiniteSamples ==
  ASSUME NEW S, IsFiniteSet(S), NEW f, DOMAIN f = S, f = [x \in S |-> f[x]],
         \A x \in S : f[x] \in Nat
  PROVE  Samples(f)
BY DEF Samples

LEMMA LocalityType ==
  ASSUME NEW rt, RuntimeOK(rt), NEW n \in DOMAIN rt, NEW m, WellFormed(m), NEW K
  PROVE  Locality(rt, n, TopPeers(m, K)) \in Nat
<1> DEFINE f == [q \in DOMAIN TopPeers(m, K) |->
                   TopPeers(m, K)[q] * Log1p(Cardinality(PodsOf(rt, n, q)))]
<1>1. IsFiniteSet(DOMAIN f)
  BY PeersType, FS_Subset, ScoringAssumption
<1>2. \A x, y \in Nat : x * y \in Nat
  BY SMT
<1>3. \A q \in DOMAIN f : f[q] \in Nat
  BY <1>2, PeersType, Log1pType
<1>4. SumFunction(f) \in Nat
  <2> HIDE DEF f
  <2> QED
    BY <1>1, <1>3, SumBounds
<1> QED
  BY <1>4 DEF Locality

LEMMA ServicesOnType ==
  ASSUME NEW rt, RuntimeOK(rt), NEW n \in DOMAIN rt
  PROVE  /\ ServicesOn(rt, n) \in SUBSET Services
         /\ IsFiniteSet(ServicesOn(rt, n))
         /\ Cardinality(ServicesOn(rt, n)) \in Nat
<1>1. ServicesOn(rt, n) \in SUBSET Services
  BY ScoringAssumption DEF ServicesOn, RuntimeOK
<1> QED
  BY <1>1, FS_Subset, FS_CardinalityType, ScoringAssumption

LEMMA MassType ==
  ASSUME NEW rt, RuntimeOK(rt), NEW n \in DOMAIN rt, NEW m, WellFormed(m)
  PROVE  CriticalMass(rt, n, m) \in Nat
<1> DEFINE f == [q \in ServicesOn(rt, n) |-> At(Criticality(m), q)]
<1>1. IsFiniteSet(DOMAIN f) /\ \A q \in DOMAIN f : f[q] \in Nat
  BY CriticalityRange, ServicesOnType
<1>2. SumFunction(f) \in Nat
  <2> HIDE DEF f
  <2> QED
    BY <1>1, SumBounds
<1> QED
  BY <1>2 DEF CriticalMass

(* Every part of a score is a share in thousandths.                        *)
LEMMA LocalityRange ==
  ASSUME NEW rt, RuntimeOK(rt), NEW F, F \subseteq DOMAIN rt, NEW n \in F,
         NEW m, WellFormed(m), NEW K
  PROVE  NormOf([a \in F |-> Locality(rt, a, TopPeers(m, K))], n) \in 0..1000
<1> DEFINE f == [a \in F |-> Locality(rt, a, TopPeers(m, K))]
<1>1. DOMAIN f = F /\ f = [x \in F |-> f[x]] /\ \A a \in F : f[a] \in Nat
  BY LocalityType
<1>2. IsFiniteSet(F)
  BY FS_Subset, ScoringAssumption DEF RuntimeOK
<1> HIDE DEF f
<1>3. NormOf(f, n) \in 0..1000
  BY <1>1, <1>2, FiniteSamples, NormOfRange
<1> QED
  BY <1>3 DEF f

LEMMA RiskRange ==
  ASSUME NEW rt, RuntimeOK(rt), NEW F, F \subseteq DOMAIN rt, NEW n \in F,
         NEW m, WellFormed(m)
  PROVE  NormOf([a \in F |-> CriticalMass(rt, a, m)], n) \in 0..1000
<1> DEFINE f == [a \in F |-> CriticalMass(rt, a, m)]
<1>1. DOMAIN f = F /\ f = [x \in F |-> f[x]] /\ \A a \in F : f[a] \in Nat
  BY MassType
<1>2. IsFiniteSet(F)
  BY FS_Subset, ScoringAssumption DEF RuntimeOK
<1> HIDE DEF f
<1>3. NormOf(f, n) \in 0..1000
  BY <1>1, <1>2, FiniteSamples, NormOfRange
<1> QED
  BY <1>3 DEF f

LEMMA DensityRange ==
  ASSUME NEW rt, RuntimeOK(rt), NEW F, F \subseteq DOMAIN rt, NEW n \in F
  PROVE  Density(rt, n, F) \in 0..1000
<1> DEFINE f == [a \in F |-> Cardinality(ServicesOn(rt, a))]
<1>1. DOMAIN f = F /\ f = [x \in F |-> f[x]] /\ \A a \in F : f[a] \in Nat
  BY ServicesOnType
<1>2. /\ {f[a] : a \in DOMAIN f} = {Cardinality(ServicesOn(rt, a)) : a \in F}
      /\ f[n] = Cardinality(ServicesOn(rt, n))
  OBVIOUS
<1>3. IsFiniteSet(F)
  BY FS_Subset, ScoringAssumption DEF RuntimeOK
<1> HIDE DEF f
<1>4. Samples(f)
  BY <1>1, <1>3, FiniteSamples
<1>5. /\ Max({f[a] : a \in DOMAIN f}) \in Nat
      /\ f[n] \in Nat /\ f[n] <= Max({f[a] : a \in DOMAIN f})
  BY <1>1, <1>4, MaxValue
<1> DEFINE most == Max({f[a] : a \in DOMAIN f})
<1>6. Share(f[n], most) \in 0..1000
  <2> HIDE DEF most
  <2>1. most \in Nat /\ f[n] \in Nat /\ f[n] <= most
    BY <1>5 DEF most
  <2>2. f[n] \in 0..most
    BY <2>1
  <2> QED
    BY <2>1, <2>2, ShareRange
<1> QED
  BY <1>2, <1>6 DEF Density

LEMMA ConcentrationRange ==
  ASSUME NEW n \in Nodes, NEW sel \in [Nodes -> Nat]
  PROVE  Concentration(sel, n) \in 0..1000
<1>1. Samples(sel) /\ DOMAIN sel = Nodes
  BY ScoringAssumption DEF Samples
<1>2. /\ Max({sel[a] : a \in DOMAIN sel}) \in Nat
      /\ sel[n] \in Nat /\ sel[n] <= Max({sel[a] : a \in DOMAIN sel})
  BY <1>1, MaxValue
<1> DEFINE most == Max({sel[a] : a \in DOMAIN sel})
<1>3. Share(sel[n], most) \in 0..1000
  <2> HIDE DEF most
  <2>1. most \in Nat /\ sel[n] \in Nat /\ sel[n] <= most
    BY <1>2 DEF most
  <2>2. sel[n] \in 0..most
    BY <2>1
  <2> QED
    BY <2>1, <2>2, ShareRange
<1> QED
  BY <1>1, <1>3 DEF Concentration

(* Whatever runs on the nodes and whatever the graph says of the services, *)
(* every feasible node gets a score, and it is one from 15 to 100: nothing *)
(* is divided by zero on the way, nor by a number below it.                *)
THEOREM ScoresInRange ==
  ASSUME NEW rt, RuntimeOK(rt), NEW nodes \in SUBSET Nodes, NEW s,
         NEW m, WellFormed(m), NEW sel \in [Nodes -> Nat]
  PROVE  LET F == Feasible(rt, nodes, s)
         IN  ScoreOf(rt, F, s, m, sel) \in [F -> 15..100]
<1> DEFINE F == Feasible(rt, nodes, s)
           ask == Incoming(rt, s)
           crit == CriticalityOf(s, m)
           utilWeight == 300 - crit \div 5
           riskWeight == 100 + crit \div 5
           peers == TopPeers(m, TopK)
           locality == [n \in F |-> Locality(rt, n, peers)]
           mass == [n \in F |-> CriticalMass(rt, n, m)]
           Raw(n) ==
             400 * NormOf(locality, n) + utilWeight * Utilization(rt, n, ask)
             + 200 * Spread(Cardinality(PodsOf(rt, n, s))) + 150 * Density(rt, n, F)
             + 250 * Concentration(sel, n) - riskWeight * ((NormOf(mass, n) * crit) \div 1000)
           percent(n) == Within(0, 1000, Raw(n) \div (1000 + utilWeight))
<1>1. ScoreOf(rt, F, s, m, sel) = [n \in F |-> (15500 + 85 * percent(n)) \div 1000]
  BY DEF ScoreOf
<1>2. F \in SUBSET Nodes /\ F \subseteq DOMAIN rt
  BY FeasibleIs
<1>3. PICK c \in 0..1000 : c = crit
  BY CriticalityRange
<1> HIDE DEF F, crit
<1>4. ASSUME NEW n \in F PROVE Raw(n) \div (1000 + utilWeight) \in Int
  <2>0. /\ NormOf(locality, n) \in 0..1000 /\ NormOf(mass, n) \in 0..1000
        /\ Density(rt, n, F) \in 0..1000 /\ Concentration(sel, n) \in 0..1000
        /\ Utilization(rt, n, ask) \in 0..1000
    <3>1. n \in DOMAIN rt /\ \A r \in Resources : rt[n].status.alloc[r] \in Nat \ {0}
      BY FeasibleIs DEF F
    <3>2. ask \in Amounts
      BY IncomingIs
    <3> HIDE DEF ask
    <3>3. Utilization(rt, n, ask) \in 0..1000
      BY <3>1, <3>2, UtilizationRange
    <3>4. Density(rt, n, F) \in 0..1000 /\ Concentration(sel, n) \in 0..1000
      BY <1>2, DensityRange, ConcentrationRange
    <3>5. NormOf(mass, n) \in 0..1000
      BY <1>2, RiskRange
    <3>6. NormOf(locality, n) \in 0..1000
      BY <1>2, LocalityRange
    <3> HIDE DEF locality, mass
    <3> QED
      BY <3>3, <3>4, <3>5, <3>6
  <2> HIDE DEF locality, mass, ask
  <2>1. PICK loc \in 0..1000 : loc = NormOf(locality, n)
    BY <2>0
  <2>2. PICK util \in 0..1000 : util = Utilization(rt, n, ask)
    BY <2>0
  <2>3. PICK spread \in 0..1000 : spread = Spread(Cardinality(PodsOf(rt, n, s)))
    BY SpreadRange
  <2>4. PICK dens \in 0..1000 : dens = Density(rt, n, F)
    BY <2>0
  <2>5. PICK conc \in 0..1000 : conc = Concentration(sel, n)
    BY <2>0
  <2>6. PICK risk \in 0..1000 : risk = NormOf(mass, n)
    BY <2>0
  <2>7. PICK uw \in 100..300 : uw = utilWeight
    BY <1>3
  <2>8. PICK rw \in 100..300 : rw = riskWeight
    BY <1>3
  <2>9. PICK raw \in Int : raw = 400 * loc + uw * util + 200 * spread + 150 * dens
                                  + 250 * conc - rw * ((risk * c) \div 1000)
    <3>1. \A x, y \in Int : x * y \in Int
      BY SMT
    <3>2. PICK a \in Int : a = uw * util
      BY <3>1
    <3>3. PICK b \in Int : b = rw * ((risk * c) \div 1000)
      <4>1. risk * c \in Int
        BY <3>1
      <4>2. (risk * c) \div 1000 \in Int
        BY <4>1
      <4> QED
        BY <3>1, <4>2
    <3> QED
      BY <3>2, <3>3
  <2>10. Raw(n) = raw
    <3> HIDE DEF utilWeight, riskWeight
    <3> QED
      BY <1>3, <2>1, <2>2, <2>3, <2>4, <2>5, <2>6, <2>7, <2>8, <2>9
  <2>11. raw \div (1000 + uw) \in Int
    OBVIOUS
  <2> HIDE DEF Raw, utilWeight
  <2> QED
    BY <2>7, <2>10, <2>11
<1>5. ASSUME NEW n \in F PROVE (15500 + 85 * percent(n)) \div 1000 \in 15..100
  <2> DEFINE x == Raw(n) \div (1000 + utilWeight)
  <2>1. x \in Int
    BY <1>4
  <2> HIDE DEF x
  <2>2. PICK y \in 0..1000 : y = Within(0, 1000, x)
    BY <2>1 DEF Within, Lower, Higher
  <2>3. percent(n) = y
    <3> HIDE DEF Raw, utilWeight
    <3> QED
      BY <2>2 DEF x
  <2>4. (15500 + 85 * y) \div 1000 \in 15..100
    OBVIOUS
  <2> HIDE DEF percent
  <2> QED
    BY <2>3, <2>4
<1> HIDE DEF percent
<1>6. ScoreOf(rt, F, s, m, sel) \in [F -> 15..100]
  BY <1>1, <1>5
<1> QED
  BY <1>6 DEF F

(* The choice among the scores is one of the nodes that have one.          *)
LEMMA FirstIsOne ==
  ASSUME NEW S \in SUBSET Nodes, S # {}
  PROVE  FirstByName(S) \in S
<1> DEFINE ranks == {Rank[n] : n \in S}
<1>1. \A n \in S : Rank[n] \in Nat
  BY ScoringAssumption
<1>2. ranks \in SUBSET Nat /\ ranks # {}
  BY <1>1
<1>3. PICK k \in ranks : \A j \in ranks : k <= j
  <2> HIDE DEF ranks
  <2> QED
    BY <1>2, NatMin
<1>4. \E n \in S : \A a \in S : Rank[n] <= Rank[a]
  BY <1>3
<1> QED
  BY <1>4 DEF FirstByName

LEMMA BestIsOne ==
  ASSUME NEW F \in SUBSET Nodes, F # {}, NEW scores \in [F -> Nat]
  PROVE  BestNode(scores) \in F /\ \A a \in F : scores[a] <= scores[BestNode(scores)]
<1> DEFINE best == {n \in DOMAIN scores : \A a \in DOMAIN scores : scores[a] <= scores[n]}
<1>1. Samples(scores) /\ DOMAIN scores = F
  BY FS_Subset, ScoringAssumption DEF Samples
<1>2. PICK n \in F : scores[n] = Max({scores[x] : x \in DOMAIN scores})
  BY <1>1, MaxValue
<1>3. \A a \in F : scores[a] <= scores[n]
  BY <1>1, <1>2, MaxValue
<1>4. best \in SUBSET Nodes /\ best # {}
  BY <1>1, <1>3
<1>5. BestNode(scores) \in best
  <2>1. BestNode(scores) = FirstByName(best)
    BY DEF BestNode
  <2> HIDE DEF best
  <2> QED
    BY <1>4, <2>1, FirstIsOne
<1> QED
  BY <1>1, <1>5

--------------------------------------------------------------------------------
(* A cycle that has services left has nodes to choose from.                *)
CycleInv ==
  /\ TypeOK
  /\ DOMAIN decisions = Services
  /\ todo # {} => listed # {}

LEMMA RuntimesOK ==
  ASSUME CycleInv, NEW rt \in Runtimes \cup {NoRuntime}
  PROVE  /\ RuntimeOK(rt)
         /\ rt # NoRuntime => /\ DOMAIN rt = Nodes
                              /\ \A n \in Nodes : rt[n].status = status[n]
         /\ "list" \notin Faults /\ rt # NoRuntime => rt = Runtime
<1>1. \A n \in Nodes : status[n] \in NodeStatus /\ PodsOn(n) \subseteq Pods
  BY CycleAssumption DEF CycleInv, TypeOK, PodsOn
<1>2. rt = Runtime \/ rt = EmptyRuntime \/ rt = NoRuntime
  BY DEF Runtimes
<1>3. "list" \notin Faults /\ rt # NoRuntime => rt = Runtime
  BY DEF Runtimes
<1>4. CASE rt = Runtime
  BY <1>1, <1>4 DEF Runtime, RuntimeOK
<1>5. CASE rt = EmptyRuntime
  BY <1>1, <1>3, <1>5 DEF EmptyRuntime, RuntimeOK
<1>6. CASE rt = NoRuntime
  BY <1>6 DEF NoRuntime, RuntimeOK
<1> QED
  BY <1>2, <1>3, <1>4, <1>5, <1>6

(* Whether the preference decides, cannot be read or is not there: the     *)
(* choice is a feasible node.                                              *)
LEMMA ChoiceFeasible ==
  ASSUME CycleInv, NEW s \in Services, NEW rt \in Runtimes, NEW m \in MetricSets,
         Feasible(rt, listed, s) # {},
         NEW best, best \in {Preferred(s, ScoreOf(rt, Feasible(rt, listed, s), s, m, selections)),
                             BestNode(ScoreOf(rt, Feasible(rt, listed, s), s, m, selections))}
  PROVE  best \in Feasible(rt, listed, s) /\ best \in Nodes
<1> DEFINE F == Feasible(rt, listed, s)
           scores == ScoreOf(rt, F, s, m, selections)
<1>1. RuntimeOK(rt) /\ listed \in SUBSET Nodes /\ selections \in [Nodes -> Nat] /\ WellFormed(m)
  BY RuntimesOK, CycleAssumption DEF CycleInv, TypeOK
<1>2. scores \in [F -> 15..100]
  BY <1>1, ScoresInRange
<1>3. F \in SUBSET Nodes
  BY <1>1, FeasibleIs
<1>4. scores \in [F -> Nat] /\ DOMAIN scores = F
  <2> HIDE DEF scores, F
  <2> QED
    BY <1>2
<1>5. BestNode(scores) \in F
  <2> HIDE DEF scores
  <2> QED
    BY <1>3, <1>4, BestIsOne
<1>6. Preferred(s, scores) \in F
  <2> HIDE DEF scores, F
  <2> QED
    BY <1>4, <1>5 DEF Preferred
<1> QED
  BY <1>3, <1>5, <1>6

LEMMA NeutralIsListed ==
  ASSUME CycleInv, todo # {}, NEW rt
  PROVE  /\ NeutralDecision(rt).status = "NoMetrics"
         /\ NeutralDecision(rt).best \in Nodes
<1>1. Targets(rt, listed) \in SUBSET Nodes /\ Targets(rt, listed) # {}
  BY DEF CycleInv, TypeOK, Targets, Untainted
<1>2. FirstByName(Targets(rt, listed)) \in Nodes
  BY <1>1, FirstIsOne
<1> QED
  BY <1>2 DEF NeutralDecision

(* What a computation may do to the cycle and to Redis.                    *)
LEMMA Computed ==
  ASSUME CycleInv, NEW s \in Services, ComputeForService(s)
  PROVE  /\ s \in todo /\ todo' = todo \ {s}
         /\ UNCHANGED <<where, status, pref, listed>>
         /\ \/ \E best \in Nodes, rt \in Runtimes :
                 /\ best \in Feasible(rt, listed, s)
                 /\ decisions' = [decisions EXCEPT ![s] = [status |-> "Scheduled", best |-> best]]
                 /\ selections' = [selections EXCEPT ![best] = @ + 1]
                 /\ scored' = scored \cup {s}
            \/ UNCHANGED <<decisions, selections, scored>>
            \/ /\ \/ \E best \in Nodes :
                       decisions' = [decisions EXCEPT ![s] = [status |-> "NoMetrics", best |-> best]]
                  \/ UNCHANGED decisions
               /\ UNCHANGED selections
               /\ scored' = scored \ {s}
<1>1. /\ s \in todo /\ todo' = todo \ {s}
      /\ UNCHANGED <<where, status, pref, listed>>
  BY DEF ComputeForService, Done, cluster
<1>2. CASE WriteNeutralDecision(s)
  <2>1. \A rt : \E best \in Nodes : NeutralDecision(rt) = [status |-> "NoMetrics", best |-> best]
    BY <1>1, NeutralIsListed DEF NeutralDecision
  <2> QED
    BY <1>1, <1>2, <2>1 DEF WriteNeutralDecision
<1>3. ASSUME NEW rt \in Runtimes, NEW m \in MetricSets, Feasible(rt, listed, s) # {},
             NEW best \in {Preferred(s, ScoreOf(rt, Feasible(rt, listed, s), s, m, selections)),
                           BestNode(ScoreOf(rt, Feasible(rt, listed, s), s, m, selections))},
             Save(s, best)
      PROVE  \/ \E b \in Nodes, r \in Runtimes :
                  /\ b \in Feasible(r, listed, s)
                  /\ decisions' = [decisions EXCEPT ![s] = [status |-> "Scheduled", best |-> b]]
                  /\ selections' = [selections EXCEPT ![b] = @ + 1]
                  /\ scored' = scored \cup {s}
             \/ UNCHANGED <<decisions, selections, scored>>
  <2>1. best \in Feasible(rt, listed, s) /\ best \in Nodes
    BY <1>3, ChoiceFeasible
  <2> QED
    BY <1>3, <2>1 DEF Save
<1>4. \/ WriteNeutralDecision(s)
      \/ \E rt \in Runtimes, m \in MetricSets :
           /\ Feasible(rt, listed, s) # {}
           /\ \/ Save(s, Preferred(s, ScoreOf(rt, Feasible(rt, listed, s), s, m, selections)))
              \/ Save(s, BestNode(ScoreOf(rt, Feasible(rt, listed, s), s, m, selections)))
  BY DEF ComputeForService
<1> QED
  BY <1>1, <1>2, <1>3, <1>4

LEMMA CycleInit == Init => CycleInv
<1> SUFFICES ASSUME Init PROVE CycleInv
  OBVIOUS
<1>1. /\ where \in [Pods -> Nodes \cup {None}] /\ status \in [Nodes -> Statuses]
      /\ pref \in [Services -> Nodes \cup {None}]
  BY CycleAssumption DEF Init
<1>2. /\ \A s \in Services : decisions[s] = NoDecision
      /\ DOMAIN decisions = Services
      /\ todo = {} /\ listed = {} /\ scored = {} /\ selections \in [Nodes -> Nat]
  BY DEF Init, Zero
<1> QED
  BY <1>1, <1>2 DEF CycleInv, TypeOK

LEMMA CycleStep == CycleInv /\ [Next]_vars => CycleInv'
<1> SUFFICES ASSUME CycleInv, [Next]_vars PROVE CycleInv'
  OBVIOUS
<1>0. /\ where \in [Pods -> Nodes \cup {None}] /\ status \in [Nodes -> Statuses]
      /\ pref \in [Services -> Nodes \cup {None}]
      /\ \A s \in Services :
           \/ decisions[s] = NoDecision
           \/ decisions[s].status \in {"Scheduled", "NoMetrics"} /\ decisions[s].best \in Nodes
      /\ todo \subseteq Services /\ scored \subseteq Services \ todo
      /\ listed \subseteq Nodes /\ (todo # {} => listed # {})
      /\ selections \in [Nodes -> Nat] /\ DOMAIN decisions = Services
  BY DEF CycleInv, TypeOK
<1>1. CASE UNCHANGED vars
  BY <1>0, <1>1 DEF vars, cluster, cycle, CycleInv, TypeOK
<1>2. CASE Discover
  <2>1. \A p \in Index : where[p] \in Nodes /\ ServiceOf[p] \in Services
    BY <1>0, ScoringAssumption DEF Index
  <2>2. todo' \subseteq Services /\ listed' \subseteq Nodes /\ listed' # {}
    BY <1>2, <2>1 DEF Discover
  <2>3. selections' \in [Nodes -> Nat] /\ scored' = {}
        /\ UNCHANGED <<where, status, pref, decisions>>
    BY <1>2 DEF Discover, Zero, cluster
  <2> QED
    BY <1>0, <2>2, <2>3 DEF CycleInv, TypeOK
<1>3. ASSUME NEW s \in Services, ComputeForService(s) PROVE CycleInv'
  <2>1. /\ s \in todo /\ todo' = todo \ {s}
        /\ UNCHANGED <<where, status, pref, listed>>
    BY <1>3, Computed
  <2>2. CASE UNCHANGED <<decisions, selections, scored>>
    BY <1>0, <2>1, <2>2 DEF CycleInv, TypeOK
  <2>3. ASSUME NEW best \in Nodes,
               decisions' = [decisions EXCEPT ![s] = [status |-> "Scheduled", best |-> best]],
               selections' = [selections EXCEPT ![best] = @ + 1],
               scored' = scored \cup {s}
        PROVE  CycleInv'
    <3>1. selections' \in [Nodes -> Nat]
      <4>1. selections[best] + 1 \in Nat
        BY <1>0
      <4> QED
        BY <1>0, <2>3, <4>1
    <3>2. /\ DOMAIN decisions' = Services
          /\ \A q \in Services :
               decisions'[q] = IF q = s THEN [status |-> "Scheduled", best |-> best]
                                        ELSE decisions[q]
      BY <1>0, <2>3
    <3>3. scored' \subseteq Services \ todo'
      BY <1>0, <2>1, <2>3
    <3> QED
      BY <1>0, <2>1, <3>1, <3>2, <3>3 DEF CycleInv, TypeOK, NoDecision
  <2>4. ASSUME UNCHANGED selections, scored' = scored \ {s},
               \/ \E best \in Nodes :
                    decisions' = [decisions EXCEPT ![s] = [status |-> "NoMetrics", best |-> best]]
               \/ UNCHANGED decisions
        PROVE  CycleInv'
    <3>1. /\ DOMAIN decisions' = Services
          /\ \A q \in Services :
               \/ decisions'[q] = decisions[q]
               \/ \E best \in Nodes : decisions'[q] = [status |-> "NoMetrics", best |-> best]
      BY <1>0, <2>4
    <3>2. scored' \subseteq Services \ todo'
      BY <1>0, <2>1, <2>4
    <3> QED
      BY <1>0, <2>1, <2>4, <3>1, <3>2 DEF CycleInv, TypeOK, NoDecision
  <2> QED
    BY <1>3, <2>2, <2>3, <2>4, Computed
<1>4. ASSUME NEW p \in Pods, MovePod(p) PROVE CycleInv'
  <2>1. where' \in [Pods -> Nodes \cup {None}]
        /\ UNCHANGED <<status, pref, decisions, todo, listed, selections, scored>>
    BY <1>0, <1>4 DEF MovePod, cycle
  <2> QED
    BY <1>0, <2>1 DEF CycleInv, TypeOK
<1>5. ASSUME NEW n \in Nodes, ChangeNode(n) PROVE CycleInv'
  <2>1. status' \in [Nodes -> Statuses]
        /\ UNCHANGED <<where, pref, decisions, todo, listed, selections, scored>>
    BY <1>0, <1>5 DEF ChangeNode, cycle
  <2> QED
    BY <1>0, <2>1 DEF CycleInv, TypeOK
<1>6. CASE Crash
  <2>1. todo' = {} /\ listed' = {} /\ scored' = {} /\ selections' \in [Nodes -> Nat]
        /\ UNCHANGED <<where, status, pref, decisions>>
    BY <1>6 DEF Crash, Zero, cluster
  <2> QED
    BY <1>0, <2>1 DEF CycleInv, TypeOK
<1> QED
  BY <1>1, <1>2, <1>3, <1>4, <1>5, <1>6 DEF Next, Environment

(* A decision in Redis always names a node of the cluster, the one without *)
(* metrics too, and a cycle keeps its books: a service that is scored is   *)
(* not one that is left.                                                   *)
THEOREM TypeCorrect == Spec => []TypeOK
<1>1. CycleInv => TypeOK
  BY DEF CycleInv
<1> QED
  BY <1>1, CycleInit, CycleStep, PTL DEF Spec

(* The step that decides is the computation for that very service, and the *)
(* node it chose passed the filter at that moment.                         *)
LEMMA DecidedByComputing ==
  ASSUME CycleInv, [Next]_vars, NEW s \in Services, NEW n \in Nodes, Decides(s, n)
  PROVE  \E rt \in Runtimes : n \in Feasible(rt, listed, s)
<1>1. s \in todo /\ s \notin scored /\ s \in scored' /\ decisions'[s].best = n
  BY DEF Decides, CycleInv, TypeOK
<1>2. PICK t \in Services : ComputeForService(t)
  BY <1>1 DEF Next, Environment, Discover, MovePod, ChangeNode, Crash, vars, cycle
<1>3. PICK best \in Nodes, rt \in Runtimes :
        /\ best \in Feasible(rt, listed, t)
        /\ decisions' = [decisions EXCEPT ![t] = [status |-> "Scheduled", best |-> best]]
        /\ scored' = scored \cup {t}
  BY <1>1, <1>2, Computed
<1>4. s = t
  BY <1>1, <1>3
<1>5. decisions'[s].best = best
  BY <1>3, <1>4 DEF CycleInv
<1> QED
  BY <1>1, <1>3, <1>4, <1>5

LEMMA FeasibleFits ==
  ASSUME CycleInv, NEW s \in Services, NEW n \in Nodes, n \in Feasible(Runtime, listed, s)
  PROVE  OneMoreFits(s, n)
<1> DEFINE running == {p \in Pods : ServiceOf[p] = s /\ where[p] # None}
           samples == UNION {PodsOf(Runtime, a, s) : a \in DOMAIN Runtime}
<1>1. RuntimeOK(Runtime)
  BY RuntimesOK DEF Runtimes
<1>2. HasRoom(Runtime, n, Incoming(Runtime, s))
  BY <1>1, FeasibleIs DEF CycleInv, TypeOK
<1>3. samples = running
  <2>1. DOMAIN Runtime = Nodes /\ \A a \in Nodes : Runtime[a].pods = {p \in Pods : where[p] = a}
    BY DEF Runtime, PodsOn
  <2>2. \A p \in Pods : where[p] # None <=> \E a \in Nodes : where[p] = a
    BY ScoringAssumption DEF CycleInv, TypeOK
  <2>3. \A a \in Nodes : PodsOf(Runtime, a, s) = {p \in Pods : where[p] = a /\ ServiceOf[p] = s}
    BY <2>1 DEF PodsOf
  <2> QED
    BY <2>1, <2>2, <2>3
<1>4. ASSUME \A p, q \in running : PodRequest(p) = PodRequest(q), NEW p \in running
      PROVE  HasRoom(Runtime, n, PodRequest(p))
  <2>1. Incoming(Runtime, s) = PodRequest(p)
    <3>1. p \in samples /\ \A q \in samples : PodRequest(q) = PodRequest(p)
      BY <1>3, <1>4
    <3> QED
      BY <1>1, <3>1, IncomingIs
  <2> QED
    BY <1>2, <2>1
<1> QED
  BY <1>4 DEF OneMoreFits

(* Whatever the users prefer, and however pods and nodes change during the *)
(* cycle, a scored decision names a node that is ready and open at that    *)
(* moment, and that one more pod leaves within 85 percent.                 *)
THEOREM DecidedNodesFit == Spec => DecidedNodeFits
<1>1. ASSUME CycleInv, [Next]_vars, NEW s \in Services, NEW n \in Nodes, Decides(s, n)
      PROVE  /\ status[n].ready /\ status[n].schedulable
             /\ status[n].tainted => \A a \in listed : status[a].tainted
             /\ "list" \notin Faults => OneMoreFits(s, n)
  <2>1. PICK rt \in Runtimes : n \in Feasible(rt, listed, s)
    BY <1>1, DecidedByComputing
  <2>2. listed \in SUBSET Nodes /\ RuntimeOK(rt) /\ \A a \in Nodes : rt[a].status = status[a]
        /\ ("list" \notin Faults => rt = Runtime)
    <3>1. rt # NoRuntime
      BY <2>1, FeasibleIs DEF NoRuntime, Feasible
    <3> QED
      BY <1>1, <3>1, RuntimesOK DEF CycleInv, TypeOK
  <2>3. /\ rt[n].status.ready /\ rt[n].status.schedulable
        /\ rt[n].status.tainted => \A a \in listed : rt[a].status.tainted
    BY <2>1, <2>2, FeasibleIs
  <2>4. "list" \notin Faults => OneMoreFits(s, n)
    BY <1>1, <2>1, <2>2, FeasibleFits
  <2> QED
    BY <2>2, <2>3, <2>4
<1>2. CycleInv /\ [Next]_vars =>
        [\A s \in Services, n \in Nodes : Decides(s, n) =>
           /\ status[n].ready /\ status[n].schedulable
           /\ status[n].tainted => \A a \in listed : status[a].tainted
           /\ "list" \notin Faults => OneMoreFits(s, n)]_vars
  BY <1>1
<1> QED
  BY <1>2, CycleInit, CycleStep, PTL DEF Spec, DecidedNodeFits

================================================================================
