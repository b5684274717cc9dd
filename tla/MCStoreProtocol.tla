-------------------------- MODULE MCStoreProtocol ---------------------------
(* Small instances of StoreProtocol for TLC. *)
EXTENDS StoreProtocol, TLC

\* Requests are interchangeable between goroutines, and so are random ids.
\* Sound for the safety runs only.
Symmetry == Permutations(Clients) \cup Permutations(Ids)
=============================================================================
