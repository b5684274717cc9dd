------------------------------- MODULE Paging -------------------------------
(***************************************************************************)
(* One page of a list: parsePage, paginate and nextPageURL (middleware.go) *)
(* in the integers of the machine, which wrap around.                      *)
(*                                                                         *)
(* A query parameter is a sequence of at most one number: it is empty when *)
(* the parameter is absent, and 0 stands for every text that is no         *)
(* positive number.                                                        *)
(***************************************************************************)
EXTENDS Integers, Sequences

CONSTANT MaxInt   \* the largest int of the build, 2^63 - 1

ASSUME IntWidth == MaxInt \in Nat \ {0}

\* A sum or product is taken modulo 2 * (MaxInt + 1).
Wrap(x) == IF -MaxInt - 1 <= x /\ x <= MaxInt
           THEN x
           ELSE ((x + MaxInt + 1) % (2 * MaxInt + 2)) - MaxInt - 1

Positive(param, std) == IF param = <<>> THEN std ELSE param[1]

\* A page or a size below 1 is answered with 400.
Valid(param) == \A k \in DOMAIN param : param[k] >= 1

PageNumber(param) == Positive(param, 1)

\* The size is capped, the default included.
PageSize(param, cfg) == LET n == Positive(param, cfg.size)
                        IN  IF n > cfg.max THEN cfg.max ELSE n

\* Mutant: the last page is counted only when it is full.
TotalPages_Floor(total, size) == total \div size

TotalPages(total, size) == IF total = 0 THEN 0 ELSE Wrap(total + size - 1) \div size

\* The rows before the page.
Start(page, size) == Wrap((page - 1) * size)

\* Mutant: pages are counted from 0.
End_Short(start, size, total) == IF start + size < total THEN start + size - 1 ELSE total

End(start, size, total) == IF Wrap(start + size) < total THEN Wrap(start + size) ELSE total

Panics(total, page, size) ==
    LET start == Start(page, size)
    IN  \/ size = 0 /\ total > 0
        \/ start < total /\ (start < 0 \/ End(start, size, total) < start)

Paginate(items, page, size) ==
    LET total == Len(items)
        start == Start(page, size)
    IN  IF start >= total THEN <<>> ELSE SubSeq(items, start + 1, End(start, size, total))

\* nextPageURL: the number of the page that the link names, or none.
NextPage(page, totalPages) == IF page >= totalPages THEN <<>> ELSE <<page + 1>>
=============================================================================
