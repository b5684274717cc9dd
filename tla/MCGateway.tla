------------------------------ MODULE MCGateway ------------------------------
(* Small instances of Gateway for TLC. *)
EXTENDS Gateway, TLC

\* A slow rate with the default burst, a burst that is repaired; and no limit.
MCRateFiles == {[users |-> [rate |-> <<1>>, burst |-> <<>>], persons |-> [rate |-> <<>>, burst |-> <<0>>]],
                [users |-> [rate |-> <<0>>, burst |-> <<>>], persons |-> [rate |-> <<3>>, burst |-> <<-1>>]]}

MCRoutes == {"api users", "profile users", "api persons", "soap"}

Symmetry == Permutations(Clients)
=============================================================================
