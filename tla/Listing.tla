-------------------------------- MODULE Listing --------------------------------
(* The lists of the screens: the members of a sequence that a filter lets     *)
(* through, in the order a stable sort gives them.                            *)
EXTENDS Naturals, FiniteSets

(* Positions of K by weight; of equal ones the earlier stays ahead.           *)
Ahead(a, b, weight) ==
    weight[a] < weight[b] \/ (weight[a] = weight[b] /\ a < b)

Rank(a, K, weight) == Cardinality({b \in K : Ahead(b, a, weight)}) + 1

Nth(n, K, weight) == CHOOSE a \in K : Rank(a, K, weight) = n

(* The members of s at the positions K, sorted, or as they stand in s.        *)
Listed(s, K, weight) == [n \in 1..Cardinality(K) |-> s[Nth(n, K, weight)]]

Unweighted(K) == [k \in K |-> 0]
Filtered(s, K) == Listed(s, K, Unweighted(K))
===============================================================================
