----------------------------- MODULE UserTable ------------------------------
(***************************************************************************)
(* The users map of a Store reduced to what the locking and saving         *)
(* protocol can tell apart: which ids have a row, and the username of each *)
(* row.  UserStore.tla has the rows in full.                               *)
(***************************************************************************)
CONSTANTS Ids,        \* the ids newID can draw
          Names,      \* usernames
          SeedNames   \* the usernames of the demo rows

Tables == UNION {[S -> Names] : S \in SUBSET Ids}

Empty == [i \in {} |-> CHOOSE n \in Names : TRUE]

RowNames(t) == {t[i] : i \in DOMAIN t}

Unique(t) == \A i, j \in DOMAIN t : t[i] = t[j] => i = j

Put(t, id, n) == [i \in DOMAIN t \cup {id} |-> IF i = id THEN n ELSE t[i]]

Drop(t, id) == [i \in DOMAIN t \ {id} |-> t[i]]

\* Seed gives each demo row an id of its own.
SeedTables == {t \in Tables : Unique(t) /\ RowNames(t) = SeedNames}
=============================================================================
