----------------------------- MODULE Ascending -----------------------------
(***************************************************************************)
(* A finite set of integers in ascending order, as the code's loops visit  *)
(* surfaces, coefficients and lines.  An element's place is one more than  *)
(* the number of elements below it; the community modules' SetToSortSeq    *)
(* gives the same sequence, by a built-in operator nothing can be proved   *)
(* of.                                                                     *)
(***************************************************************************)
EXTENDS Integers, Sequences, FiniteSets

Below(S, x) == {y \in S : y < x}

Increasing(S) ==
  [i \in 1..Cardinality(S) |-> CHOOSE x \in S : Cardinality(Below(S, x)) = i - 1]
=============================================================================
