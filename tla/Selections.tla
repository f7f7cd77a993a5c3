------------------------------ MODULE Selections ------------------------------
(* Array.prototype.filter, by the indices that are kept.                       *)
EXTENDS Naturals, FiniteSets

\* The elements of s at these indices, in their order.
Those(s, indices) ==
  [n \in 1..Cardinality(indices) |->
     s[CHOOSE i \in indices : Cardinality({j \in indices : j =< i}) = n]]
=============================================================================
