---------------------------- MODULE MCUserStore -----------------------------
(* A small instance of UserStore for TLC. *)
EXTENDS UserStore

OnlyEmpty == {<<>>}
=============================================================================
