------------------------------- MODULE Listing -------------------------------
(***************************************************************************)
(* A client reads a list page by page, following next_page, while others   *)
(* create and delete rows.  Every page is cut from a new list, ordered by  *)
(* creation time and id "for consistent pagination across requests"        *)
(* (store.go).  A list is one step, as StoreProtocol shows it to be.       *)
(*                                                                         *)
(* The rows are users, persons or contracts alike: CreatedAt is read from  *)
(* the clock under the write lock, and no update changes it.               *)
(***************************************************************************)
EXTENDS Config, Paging, FiniteSets

CONSTANTS Ids,         \* row ids: numbers, in the order of the id strings
          MaxClock,    \* bound: the last reading of the clock
          Files,       \* the pagination sections of a configuration file
          SizeParams   \* the page_size parameters of a client

NotYet == MaxClock + 1

ASSUME ListingData == /\ Ids \subseteq Nat /\ IsFiniteSet(Ids)
                      /\ MaxClock \in Nat
                      /\ Files \subseteq [size : Keys, max : Keys]
                      /\ SizeParams \subseteq Keys

\* The page sizes are machine integers (the decoder refuses a larger number),
\* and the memory of no machine holds a third of MaxInt rows.
ASSUME ListingFits == /\ StdMaxSize <= MaxInt
                      /\ \A f \in Files : \A k \in DOMAIN f.max : f.max[k] <= MaxInt
                      /\ 3 * Cardinality(Ids) <= MaxInt

VARIABLES cfg,      \* the page sizes of the server
          clock,
          born,     \* when each row was created; an id is used once
          rows,     \* the rows of the store
          next,     \* the page that the client asks for next: <<>> if none
          size,     \* its page_size parameter
          seen,     \* the rows of the pages read so far
          kept,     \* history: rows that the store has had since the first page
          losses,   \* history: how many rows were deleted since the first page
          wedged    \* history: a row was created that sorts before an older one

walkVars == <<next, size, seen>>
historyVars == <<kept, losses, wedged>>
vars == <<cfg, clock, born, rows, walkVars, historyVars>>

TypeOK == /\ cfg \in [size : Nat \ {0}, max : Nat \ {0}]
          /\ clock \in 0..MaxClock
          /\ born \in [Ids -> 0..NotYet]
          /\ rows \subseteq {i \in Ids : born[i] <= clock}
          /\ next \in Keys /\ Valid(next)
          /\ size \in SizeParams
          /\ seen \in Seq({i \in Ids : born[i] <= clock})
          /\ kept \subseteq rows
          /\ losses \in Nat
          /\ wedged \in BOOLEAN

Init == /\ \E f \in Files : cfg = Pagination(f)
        /\ clock = 0
        /\ born = [i \in Ids |-> NotYet] /\ rows = {}
        /\ next = <<>> /\ seen = <<>>
        /\ size \in SizeParams /\ Valid(size)
        /\ kept = {} /\ losses = 0 /\ wedged = FALSE

\* Mutant: rows are sorted by id alone.
Before_ById(i, j) == i < j

Before(i, j) == \/ born[i] < born[j]
                \/ born[i] = born[j] /\ i < j

\* The rows in their order: row k is the one that k - 1 rows come before.
List == [k \in 1..Cardinality(rows) |->
            CHOOSE i \in rows : Cardinality({j \in rows : Before(j, i)}) = k - 1]

Walking == next # <<>>

Tick == /\ clock < MaxClock
        /\ clock' = clock + 1
        /\ UNCHANGED <<cfg, born, rows, walkVars, historyVars>>

Create(i) == /\ born[i] = NotYet
             /\ born' = [born EXCEPT ![i] = clock]
             /\ rows' = rows \cup {i}
             /\ wedged' = (wedged \/ \E j \in Ids : born[j] = clock /\ i < j)
             /\ UNCHANGED <<cfg, clock, walkVars, kept, losses>>

Delete(i) == /\ i \in rows
             /\ rows' = rows \ {i}
             /\ kept' = kept \ {i}
             /\ losses' = losses + 1
             /\ UNCHANGED <<cfg, clock, born, walkVars, wedged>>

\* The answer to a list request: the rows of one page and the link to the next.
Page(number, param) ==
    LET n == PageSize(param, cfg)
    IN  [rows |-> Paginate(List, number, n), next |-> NextPage(number, TotalPages(Len(List), n))]

Begin(param) == /\ ~Walking
                /\ Valid(param)
                /\ LET page == Page(PageNumber(<<>>), param)
                   IN  seen' = page.rows /\ next' = page.next
                /\ size' = param
                /\ kept' = rows /\ losses' = 0 /\ wedged' = FALSE
                /\ UNCHANGED <<cfg, clock, born, rows>>

\* The link keeps the other parameters of the request.
Follow == /\ Walking
          /\ LET page == Page(PageNumber(next), size)
             IN  seen' = seen \o page.rows /\ next' = page.next
          /\ UNCHANGED <<cfg, clock, born, rows, size, historyVars>>

Next == \/ Tick
        \/ \E i \in Ids : Create(i) \/ Delete(i)
        \/ \E param \in SizeParams : Begin(param)
        \/ Follow

Spec == Init /\ [][Next]_vars

-----------------------------------------------------------------------------
(***************************************************************************)
(* Properties.                                                             *)
(***************************************************************************)

\* A client that follows next_page reads no row twice and none out of order,
\* whatever is deleted and created meanwhile; only two rows created in the
\* same instant can get in each other's way.
SeenInOrder == ~wedged => \A a, b \in DOMAIN seen : a < b => Before(seen[a], seen[b])

\* At the end of the walk it has missed at most one of the lasting rows for
\* each row that was deleted meanwhile; without deletions it has missed none.
\* (A walk that a wedged row shifts may read a row twice, but skips none.)
MissedAtMostLosses ==
    ~Walking => Cardinality({i \in kept : \A k \in DOMAIN seen : seen[k] # i}) <= losses

\* The pages of the list, for each size a client can get, are its rows cut
\* into pieces: page p has the rows from (p - 1) * size + 1 to p * size, the
\* link leads from each page with rows to the next one and ends at the last,
\* and no page takes the server down.  As long as the products fit an int.
PagesPartition ==
    \A n \in 1..cfg.max, p \in 1..MaxInt :
        LET total == Len(List)
        IN  p * n + total <= MaxInt =>
                /\ ~Panics(total, p, n)
                /\ LET page == Paginate(List, p, n)
                       on == {k \in 1..total : (p - 1) * n < k /\ k <= p * n}
                   IN  /\ Len(page) = Cardinality(on)
                       /\ \A k \in on : page[k - (p - 1) * n] = List[k]
                /\ NextPage(p, TotalPages(total, n)) = IF p * n < total THEN <<p + 1>> ELSE <<>>
=============================================================================
