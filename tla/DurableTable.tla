---------------------------- MODULE DurableTable ----------------------------
(***************************************************************************)
(* What a store promises its callers, with the goroutines, the lock and    *)
(* the save protocol left out: a table of rows that changes by one whole   *)
(* operation at a time, and a disk copy of it.  A change reaches the disk  *)
(* in the step in which it becomes visible or, when its save fails, not at *)
(* all; the disk copy is then an older table until a later change is       *)
(* saved, and never a mixture of two tables.                               *)
(***************************************************************************)
EXTENDS UserTable

CONSTANT LoadMayFail   \* a boot may fail to read the data file

VARIABLES table,   \* what the requests of the running process see
          disk,    \* what a boot that can read the file would load
          alive

durableVars == <<table, disk, alive>>

Init == /\ table = Empty
        /\ disk \in {t \in Tables : Unique(t)}
        /\ alive = FALSE

\* A save that works copies the whole table; one that fails copies nothing.
Settle(t) == table' = t /\ disk' \in {disk, t} /\ UNCHANGED alive

Create == \E id \in Ids \ DOMAIN table, n \in Names \ RowNames(table) :
              Settle(Put(table, id, n))

Rename == \E id \in DOMAIN table, n \in Names :
              /\ n \in RowNames(table) => n = table[id]
              /\ Settle(Put(table, id, n))

Delete == \E id \in DOMAIN table : Settle(Drop(table, id))

Seed == table = Empty /\ \E t \in SeedTables : Settle(t)

Crash == alive /\ alive' = FALSE /\ table' = Empty /\ UNCHANGED disk

Boot == /\ ~alive
        /\ alive' = TRUE
        /\ table' = disk \/ (LoadMayFail /\ table' = Empty)
        /\ UNCHANGED disk

Next == \/ alive /\ (Create \/ Rename \/ Delete \/ Seed)
        \/ Crash
        \/ Boot

Spec == Init /\ [][Next]_durableVars
=============================================================================
