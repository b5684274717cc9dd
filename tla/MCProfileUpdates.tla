-------------------------- MODULE MCProfileUpdates --------------------------
(* A small instance of ProfileUpdates for TLC. *)
EXTENDS ProfileUpdates, TLC

CONSTANT p1

\* A create request may repeat a permission.
EmptyOrTwice == {<<>>, <<p1, p1>>}

Symmetry == Permutations(Ids)
=============================================================================
