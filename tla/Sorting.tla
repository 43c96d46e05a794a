------------------------------ MODULE Sorting -------------------------------
(***************************************************************************)
(* sort.Strings and sort.Slice of the Go library on a slice without        *)
(* duplicates: the elements of a set in the order of their keys.           *)
(***************************************************************************)
EXTENDS Integers, FiniteSets

\* How many elements of S come up to u, u among them.
Place(S, key, u) == Cardinality({v \in S : key[v] <= key[u]})

SortedBy(S, key) ==
  [k \in 1..Cardinality(S) |-> CHOOSE u \in S : Place(S, key, u) = k]
=============================================================================
