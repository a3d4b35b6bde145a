------------------------------- MODULE Ranks -------------------------------
(***************************************************************************)
(* The members of a finite set of numbers by their place in it, and the    *)
(* subsequence of a sequence at such a set of positions.                   *)
(***************************************************************************)
EXTENDS Integers, FiniteSets

Rank(K, i) == Cardinality({j \in K : j <= i})

(* The k-th smallest member.                                               *)
Nth(K, k) == CHOOSE i \in K : Rank(K, i) = k

(* The sequence of the s[i] for i in K.                                    *)
Kept(s, K) == [k \in 1..Cardinality(K) |-> s[Nth(K, k)]]
=============================================================================
