--------------------------- MODULE MCPersonStore ----------------------------
(* Small instances of PersonStore for TLC. *)
EXTENDS PersonStore, TLC

Symmetry == Permutations(PersonIds) \cup Permutations(ContractIds)
=============================================================================
