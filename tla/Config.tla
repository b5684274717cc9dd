------------------------------- MODULE Config -------------------------------
(***************************************************************************)
(* LoadConfig (config.go): what the numbers of a configuration file become.*)
(* A key of the file is a sequence of at most one number: it is empty when *)
(* the file does not have the key, and also when its value has a wrong     *)
(* type, since the decoder skips such a value, goes on with the rest and   *)
(* reports the error at the end.  A file that is no JSON at all decodes to *)
(* no key.                                                                 *)
(***************************************************************************)
EXTENDS Integers, Sequences

CONSTANTS StdPageSize,   \* default_page_size of defaultConfig, 20
          StdMaxSize,    \* max_page_size of defaultConfig, 100
          StdBurst       \* burst of defaultConfig, 10

ASSUME ConfigData == /\ StdPageSize \in Nat \ {0}
                     /\ StdMaxSize \in Nat \ {0}
                     /\ StdBurst \in Nat \ {0}

Keys == {key \in Seq(Int) : Len(key) <= 1}

Decoded(key, std) == IF key = <<>> THEN std ELSE key[1]

\* Mutant: only a missing key gets the default.
Repaired_MissingOnly(n, std) == n

\* The repair that follows the decoding, also after a decoding error.
Repaired(n, std) == IF n <= 0 THEN std ELSE n

Pagination(file) == [size |-> Repaired(Decoded(file.size, StdPageSize), StdPageSize),
                     max  |-> Repaired(Decoded(file.max, StdMaxSize), StdMaxSize)]

\* A missing rate is 0: the group has no limit.
RateLimit(file) ==
    LET rate == Decoded(file.rate, 0)
        burst == Decoded(file.burst, StdBurst)
    IN  [rate |-> rate, burst |-> IF rate > 0 THEN Repaired(burst, 1) ELSE burst]
=============================================================================
