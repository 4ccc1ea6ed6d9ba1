-------------------------------- MODULE Weights --------------------------------
(***************************************************************************)
(* The sum of a weight over a set, as the size of a set of tokens: w[s]    *)
(* numbered tokens for every member s.  Written with Cardinality and not   *)
(* with a fold, so that the provers can reason about it with the facts     *)
(* about finite sets.  Nothing here models code: it is the yardstick the   *)
(* node ledger of the scheduler is measured with.                          *)
(***************************************************************************)
EXTENDS Naturals, FiniteSets

Tokens(S, w) == {t \in S \X (UNION {1..w[s] : s \in S}) : t[2] <= w[t[1]]}

Weight(S, w) == Cardinality(Tokens(S, w))
================================================================================
