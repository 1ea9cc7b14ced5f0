---------------------------- MODULE Subsequences ----------------------------
(***************************************************************************)
(* The elements of a sequence that a filter of the source keeps, as a      *)
(* function of their places.                                               *)
(***************************************************************************)
EXTENDS Integers, FiniteSets, Sequences

\* The elements of a sequence at some of its positions, in their order.
Picked(s, kept) ==
  [n \in 1..Cardinality(kept) |->
     s[CHOOSE i \in kept : Cardinality({j \in kept : j <= i}) = n]]
=============================================================================
