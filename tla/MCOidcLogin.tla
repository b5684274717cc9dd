----------------------------- MODULE MCOidcLogin -----------------------------
(* Small instances of OidcLogin for TLC. *)
EXTENDS OidcLogin, TLC

Symmetry == Permutations(Browsers) \cup Permutations(Threads) \cup Permutations(States) \cup Permutations(Sids)
=============================================================================
