-------------------------- MODULE MCMergedPersons ---------------------------
(* Small instances of MergedPersons for TLC. *)
EXTENDS MergedPersons, TLC

Symmetry == Permutations(PersonIds) \cup Permutations(ContractIds)
=============================================================================
