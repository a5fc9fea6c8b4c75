---------------------------- MODULE Subsequence ----------------------------
(***************************************************************************)
(* The subsequence of a queue at given positions, in the order of the      *)
(* queue: what one receiver sees of a queue it shares with others.         *)
(***************************************************************************)
EXTENDS Naturals, Sequences, FiniteSets

(* How many positions of I come up to i, and the k-th position of I. *)
Rank(I, i) == Cardinality({j \in I : j <= i})
Position(I, k) == CHOOSE i \in I : Rank(I, i) = k

(* The elements of q at the positions in I. *)
Pick(q, I) == [k \in 1..Cardinality(I) |-> q[Position(I, k)]]
=============================================================================
