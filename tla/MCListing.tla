------------------------------ MODULE MCListing ------------------------------
(* Small instances of Listing for TLC. *)
EXTENDS Listing, TLC

\* Missing keys, negative numbers and zero, a default above the maximum.
MCFiles == {[size |-> <<>>, max |-> <<-2>>], [size |-> <<0>>, max |-> <<1>>], [size |-> <<3>>, max |-> <<>>]}

\* Absent, below, and above the maximum; 0 is refused.
MCSizeParams == {<<>>, <<0>>, <<1>>, <<5>>}
=============================================================================
