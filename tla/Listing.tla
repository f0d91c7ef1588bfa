------------------------------- MODULE Listing -------------------------------
(* The sorted lists of src/conformance/check.py.                           *)
EXTENDS Naturals, FiniteSets

(* The members of S in the order of a relation: each has as many before it  *)
(* in the list as the relation puts before it.                             *)
InOrder(S, before) ==
  [k \in 1..Cardinality(S) |->
     CHOOSE x \in S : Cardinality({y \in S : <<y, x>> \in before}) = k - 1]
=============================================================================
