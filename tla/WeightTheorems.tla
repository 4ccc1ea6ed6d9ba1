---------------------------- MODULE WeightTheorems -----------------------------
(***************************************************************************)
(* How the weight of a finite set changes when a member joins or leaves,   *)
(* and that a sum over a function is a weight.                             *)
(***************************************************************************)
EXTENDS Weights, Functions, FiniteSetTheorems, WellFoundedInduction, TLAPS

(* The tokens of a set are its members' own tokens, with no bound that     *)
(* depends on the other members.                                           *)
LEMMA TokensOf ==
  ASSUME NEW S, NEW w, \A s \in S : w[s] \in Nat
  PROVE  Tokens(S, w) = UNION {{s} \X (1..w[s]) : s \in S}
<1>1. ASSUME NEW t \in Tokens(S, w)
      PROVE  t \in UNION {{s} \X (1..w[s]) : s \in S}
  <2>1. /\ t = <<t[1], t[2]>>
        /\ t[1] \in S
        /\ t[2] \in UNION {1..w[s] : s \in S}
        /\ t[2] <= w[t[1]]
    BY DEF Tokens
  <2>2. t[2] \in 1..w[t[1]]
    BY <2>1
  <2>3. t \in {t[1]} \X (1..w[t[1]])
    BY <2>1, <2>2
  <2> QED
    BY <2>1, <2>3
<1>2. ASSUME NEW s \in S, NEW t \in {s} \X (1..w[s])
      PROVE  t \in Tokens(S, w)
  BY DEF Tokens
<1> QED
  BY <1>1, <1>2

(* A finite set has finitely many tokens, so its weight is a natural.      *)
LEMMA TokensFinite ==
  ASSUME NEW S, IsFiniteSet(S), NEW w, \A s \in S : w[s] \in Nat
  PROVE  IsFiniteSet(Tokens(S, w)) /\ Weight(S, w) \in Nat
<1> DEFINE own == [s \in S |-> {s} \X (1..w[s])]
           F == {own[s] : s \in S}
<1>1. IsFiniteSet(F)
  <2>1. own \in Surjection(S, F)
    BY DEF Surjection
  <2> QED
    BY <2>1, FS_Surjection
<1>2. ASSUME NEW T \in F PROVE IsFiniteSet(T)
  <2>1. PICK s \in S : T = {s} \X (1..w[s])
    OBVIOUS
  <2>2. IsFiniteSet({s})
    BY FS_Singleton
  <2>3. w[s] \in Nat
    OBVIOUS
  <2>4. IsFiniteSet(1..w[s])
    BY <2>3, FS_Interval
  <2> QED
    BY <2>1, <2>2, <2>4, FS_Product
<1>3. IsFiniteSet(UNION F)
  BY <1>1, <1>2, FS_UNION
<1>4. Tokens(S, w) = UNION F
  BY TokensOf
<1> QED
  BY <1>3, <1>4, FS_CardinalityType DEF Weight

(* A newcomer adds its own weight: what a granted reservation does to the  *)
(* total the ledger must show.                                             *)
LEMMA WeightAdd ==
  ASSUME NEW S, IsFiniteSet(S), NEW s, s \notin S,
         NEW w, \A t \in S \cup {s} : w[t] \in Nat
  PROVE  Weight(S \cup {s}, w) = Weight(S, w) + w[s]
<1> DEFINE own == {s} \X (1..w[s])
<1>1. Tokens(S \cup {s}, w) = Tokens(S, w) \cup own
  BY TokensOf
<1>2. Tokens(S, w) \cap own = {}
  BY DEF Tokens
<1>3. w[s] \in Nat
  OBVIOUS
<1>4. IsFiniteSet(own) /\ Cardinality(own) = w[s]
  <2>1. Cardinality(1..w[s]) = IF 1 > w[s] THEN 0 ELSE w[s] - 1 + 1
    BY <1>3, FS_Interval
  <2>2. Cardinality(1..w[s]) = w[s]
    BY <1>3, <2>1
  <2>3. IsFiniteSet(1..w[s])
    BY <1>3, FS_Interval
  <2>4. IsFiniteSet({s}) /\ Cardinality({s}) = 1
    BY FS_Singleton
  <2>5. IsFiniteSet(own) /\ Cardinality(own) = Cardinality({s}) * Cardinality(1..w[s])
    BY <2>3, <2>4, FS_Product
  <2> QED
    BY <1>3, <2>2, <2>4, <2>5
<1>5. IsFiniteSet(Tokens(S, w)) /\ Weight(S, w) \in Nat
  BY TokensFinite
<1>6. Cardinality(Tokens(S, w) \cup own)
        = Cardinality(Tokens(S, w)) + Cardinality(own) - 0
  BY <1>2, <1>4, <1>5, FS_Union, FS_EmptySet
<1> HIDE DEF own
<1>7. Weight(S \cup {s}, w) = Weight(S, w) + w[s] - 0
  BY <1>1, <1>4, <1>6 DEF Weight
<1> QED
  BY <1>3, <1>5, <1>7

(* Nobody weighs nothing.                                                  *)
LEMMA WeightEmpty ==
  ASSUME NEW w
  PROVE  Weight({}, w) = 0
BY FS_EmptySet DEF Weight, Tokens

(* A leaver takes its own weight away, and no more than there was.         *)
LEMMA WeightRemove ==
  ASSUME NEW S, IsFiniteSet(S), NEW s \in S,
         NEW w, \A t \in S : w[t] \in Nat
  PROVE  /\ Weight(S \ {s}, w) = Weight(S, w) - w[s]
         /\ Weight(S, w) >= w[s]
<1>1. IsFiniteSet(S \ {s})
  BY FS_RemoveElement
<1>2. S = (S \ {s}) \cup {s}
  OBVIOUS
<1>3. Weight(S, w) = Weight(S \ {s}, w) + w[s]
  BY <1>1, <1>2, WeightAdd
<1>4. Weight(S \ {s}, w) \in Nat /\ w[s] \in Nat
  BY <1>1, TokensFinite
<1> QED
  BY <1>3, <1>4

(* A set of natural numbers has a least element.                           *)
LEMMA NatMin ==
  ASSUME NEW T \in SUBSET Nat, T # {}
  PROVE  \E x \in T : \A y \in T : x <= y
<1>1. \E x \in T : \A y \in T : ~ (<<y, x>> \in OpToRel(<, Nat))
  BY NatLessThanWellFounded, WFMin
<1>2. PICK x \in T : \A y \in T : ~ (<<y, x>> \in OpToRel(<, Nat))
  BY <1>1
<1>3. ASSUME NEW y \in T PROVE x <= y
  <2>1. ~ (<<y, x>> \in OpToRel(<, Nat))
    BY <1>2
  <2>2. ~ (y < x)
    BY <2>1 DEF OpToRel
  <2> QED
    BY <2>2
<1> QED
  BY <1>3

(* The library's sum of the values of a function, which folds over its     *)
(* domain in some order, is the weight of the domain.  Induction is not    *)
(* within reach: a smallest part of the domain on which the two differ     *)
(* would have a smaller one.                                               *)
LEMMA SumIsWeight ==
  ASSUME NEW f, IsFiniteSet(DOMAIN f), \A x \in DOMAIN f : f[x] \in Nat
  PROVE  SumFunction(f) = Weight(DOMAIN f, f)
<1> DEFINE D == DOMAIN f
           pick(S) == CHOOSE x \in S : TRUE
           Eq(s) == s = [S \in SUBSET D |-> IF S = {} THEN 0 ELSE f[pick(S)] + s[S \ {pick(S)}]]
           w == [S \in SUBSET D |-> Weight(S, f)]
           t == CHOOSE s : Eq(s)
<1>0. \A S \in SUBSET D : IsFiniteSet(S) /\ Cardinality(S) \in Nat /\ \A x \in S : f[x] \in Nat
  BY FS_Subset, FS_CardinalityType
<1>1. ASSUME NEW S \in SUBSET D, S # {}
      PROVE  /\ pick(S) \in S /\ S \ {pick(S)} \in SUBSET D
             /\ Cardinality(S \ {pick(S)}) = Cardinality(S) - 1
             /\ Weight(S, f) = f[pick(S)] + Weight(S \ {pick(S)}, f)
  <2>1. pick(S) \in S
    BY <1>1
  <2>2. Cardinality(S \ {pick(S)}) = Cardinality(S) - 1
    BY <1>0, <2>1, FS_RemoveElement
  <2>3. Weight(S \ {pick(S)}, f) = Weight(S, f) - f[pick(S)] /\ Weight(S, f) \in Nat
        /\ f[pick(S)] \in Nat
    BY <1>0, <2>1, WeightRemove, TokensFinite
  <2> HIDE DEF pick
  <2> QED
    BY <2>1, <2>2, <2>3
<1>2. Eq(w)
  <2> HIDE DEF pick
  <2>1. ASSUME NEW S \in SUBSET D
        PROVE  w[S] = IF S = {} THEN 0 ELSE f[pick(S)] + w[S \ {pick(S)}]
    BY <1>1, WeightEmpty
  <2> QED
    BY <2>1
<1>3. Eq(t)
  BY <1>2
<1>4. t = w
  <2> HIDE DEF pick, t
  <2> DEFINE Bad == {S \in SUBSET D : t[S] # w[S]}
  <2>1. ASSUME Bad # {} PROVE FALSE
    <3> DEFINE Sizes == {Cardinality(S) : S \in Bad}
    <3>1. Sizes \in SUBSET Nat /\ Sizes # {}
      BY <1>0, <2>1
    <3>2. PICK k \in Sizes : \A j \in Sizes : k <= j
      BY <3>1, NatMin
    <3>3. PICK S \in Bad : Cardinality(S) = k
      BY <3>2
    <3>4. CASE S = {}
      BY <1>2, <1>3, <3>3, <3>4
    <3>5. CASE S # {}
      <4>0. Cardinality(S \ {pick(S)}) = k - 1 /\ k \in Nat
        BY <1>0, <1>1, <3>3, <3>5
      <4>1. S \ {pick(S)} \notin Bad
        <5>1. ASSUME S \ {pick(S)} \in Bad PROVE FALSE
          <6>1. k - 1 \in Sizes
            BY <4>0, <5>1
          <6>2. k <= k - 1
            BY <3>2, <6>1
          <6> QED
            BY <4>0, <6>2
        <5> QED
          BY <5>1
      <4>2. t[S \ {pick(S)}] = w[S \ {pick(S)}]
        BY <1>1, <3>3, <3>5, <4>1
      <4> HIDE DEF w
      <4> QED
        BY <1>2, <1>3, <3>3, <3>5, <4>2
    <3> QED
      BY <3>4, <3>5
  <2> QED
    BY <1>3, <2>1
<1>5. SumFunction(f) = t[D]
  BY DEF SumFunction, SumFunctionOnSet, FoldFunction, FoldFunctionOnSet, MapThenFoldSet
<1> QED
  BY <1>4, <1>5

(* A sum of natural numbers is one, and a bound of each of them.           *)
LEMMA SumBounds ==
  ASSUME NEW f, IsFiniteSet(DOMAIN f), \A x \in DOMAIN f : f[x] \in Nat
  PROVE  SumFunction(f) \in Nat /\ \A x \in DOMAIN f : f[x] <= SumFunction(f)
<1>1. SumFunction(f) = Weight(DOMAIN f, f)
  BY SumIsWeight
<1>2. Weight(DOMAIN f, f) \in Nat
  BY TokensFinite
<1>3. \A x \in DOMAIN f : Weight(DOMAIN f, f) >= f[x]
  BY WeightRemove
<1> QED
  BY <1>1, <1>2, <1>3

================================================================================
