------------------------------- MODULE Picks --------------------------------
(***************************************************************************)
(* Finite sets of numbers as sequences, what such a set picks from a       *)
(* sequence, and the rising order of a sequence of numbers.                *)
(***************************************************************************)
EXTENDS Integers, Sequences, FiniteSetsExt

\* the numbers of a finite set from the first to the last
Nth(K, n) == CHOOSE i \in K : Cardinality({j \in K : j < i}) = n - 1
InTurn(K) == [n \in 1..Cardinality(K) |-> Nth(K, n)]

\* the elements of a sequence whose places are in a finite set
Picked(s, K) == [n \in 1..Cardinality(K) |-> s[Nth(K, n)]]

\* the places of a sequence of numbers that come before the i-th in rising order,
\* equal numbers in turn, and the place that so many come before
Ahead(v, i)  == {j \in DOMAIN v : v[j] < v[i] \/ (v[j] = v[i] /\ j < i)}
OfRank(v, k) == CHOOSE i \in DOMAIN v : Cardinality(Ahead(v, i)) = k
=============================================================================
