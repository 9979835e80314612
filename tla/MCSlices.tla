------------------------------- MODULE MCSlices -------------------------------
(***************************************************************************)
(* A small instance of Slices.                                              *)
(***************************************************************************)
EXTENDS Slices

CONSTANTS k1, k2, v1, v2

\* Both ends of a list, from both sides.
Indexes == {-2, 1}

\* Values and addresses are interchangeable: which free address Alloc takes makes
\* no difference but for a permutation of the addresses.
Symmetric == Permutations(Val) \cup Permutations(Arr)
=============================================================================
