------------------------------ MODULE SharedRows ------------------------------
(***************************************************************************)
(* What a store hands out: Get, List, Create and the updates return a copy *)
(* of the row, and the copy shares the row's Attributes map and the array  *)
(* of its Permissions.  The handler encodes the copy when the lock is free *)
(* again, while other requests change that map and that array in place.    *)
(*                                                                         *)
(* One user of Store is modelled, its memory as cells: a map is one cell,  *)
(* an array has one cell for each element.                                 *)
(***************************************************************************)
EXTENDS Naturals

CONSTANTS Threads, Nobody,  \* see RWMutex
          Maps, Arrays,     \* bound: the maps and arrays that can be allocated
          NoMap,            \* a nil map
          NoRow,            \* the user does not exist
          MaxLen            \* bound: how many permissions the user has

VARIABLES row,      \* the stored user: its map, its array and how long that is
          used,     \* the maps and arrays allocated so far
          pc, op,   \* where each goroutine is, and its operation
          cells,    \* the cells that it is writing
          view,     \* the copy of the row that it is answering with
          owner, active, parked   \* the lock, see RWMutex

lockVars == <<owner, active, parked>>
vars == <<row, used, pc, op, cells, view, lockVars>>

Lock == INSTANCE RWMutex

Ops == {"get", "create", "update", "touch", "grant", "revoke", "delete"}

Init == /\ row = NoRow /\ used = {}
        /\ pc = [t \in Threads |-> "idle"]
        /\ op = [t \in Threads |-> "get"]
        /\ cells = [t \in Threads |-> {}]
        /\ view = [t \in Threads |-> NoRow]
        /\ Lock!Free

Step(t, from, to) == pc[t] = from /\ pc' = [pc EXCEPT ![t] = to]

Request(t, o) == /\ Step(t, "idle", IF o = "get" THEN "rlock" ELSE "lock")
                 /\ op' = [op EXCEPT ![t] = o]
                 /\ UNCHANGED <<row, used, cells, view, lockVars>>

Enter(t) == /\ \/ Step(t, "rlock", "read") /\ Lock!RLock(t)
               \/ Step(t, "lock", "change") /\ Lock!Announce(t)
            /\ UNCHANGED <<row, used, op, cells, view>>

\* Get and List copy the row, and not what it refers to.
Get(t) == /\ Step(t, "read", IF row = NoRow THEN "idle" ELSE "encode")
          /\ Lock!RUnlock(t)
          /\ view' = [view EXCEPT ![t] = row]
          /\ UNCHANGED <<row, used, op, cells>>

\* A change has found its user, writes cells, and leaves the row at r.
Change(t, o, written, r) == /\ op[t] = o
                            /\ Step(t, "change", "write")
                            /\ Lock!HoldsWrite(t)
                            /\ cells' = [cells EXCEPT ![t] = written]
                            /\ row' = r
                            /\ UNCHANGED <<op, view, lockVars>>

Fresh(S) == S \ used

Create(t) == /\ row = NoRow
             /\ \E m \in Fresh(Maps) \cup {NoMap}, a \in Fresh(Arrays), n \in 0..MaxLen :
                   /\ Change(t, "create", {}, [attrs |-> m, perms |-> a, len |-> n])
                   /\ used' = used \cup {m, a}

\* A patch with attributes: they go into the map, a nil map is replaced first.
Update(t) == /\ row # NoRow
             /\ \/ /\ row.attrs # NoMap
                   /\ Change(t, "update", {row.attrs}, row)
                   /\ UNCHANGED used
                \/ /\ row.attrs = NoMap
                   /\ \E m \in Fresh(Maps) : /\ Change(t, "update", {m}, [row EXCEPT !.attrs = m])
                                             /\ used' = used \cup {m}

\* SetEnabled, SetManager, or a patch without attributes.
Touch(t) == /\ row # NoRow
            /\ Change(t, "touch", {}, row)
            /\ UNCHANGED used

\* append writes behind the last element, or moves to a larger array; a
\* permission that is there already is not written.
AddPermission(t) ==
    /\ row # NoRow
    /\ \/ /\ row.len < MaxLen
          /\ Change(t, "grant", {<<row.perms, row.len + 1>>}, [row EXCEPT !.len = @ + 1])
          /\ UNCHANGED used
       \/ \E a \in Fresh(Arrays) :
             /\ row.len < MaxLen
             /\ Change(t, "grant", {}, [row EXCEPT !.perms = a, !.len = @ + 1])
             /\ used' = used \cup {a}
       \/ /\ row.len > 0
          /\ Change(t, "grant", {}, row)
          /\ UNCHANGED used

\* The elements that stay are written to the front of the same array.
RemovePermission(t) ==
    /\ row # NoRow
    /\ \E n \in 0..row.len :
          Change(t, "revoke", {<<row.perms, k>> : k \in 1..n}, [row EXCEPT !.len = n])
    /\ UNCHANGED used

Delete(t) == /\ row # NoRow
             /\ Change(t, "delete", {}, NoRow)
             /\ UNCHANGED used

\* A user that does not exist, or a create of one that does.
Refuse(t) == /\ Step(t, "change", "idle")
             /\ (row = NoRow) # (op[t] = "create")
             /\ Lock!Unlock(t)
             /\ UNCHANGED <<row, used, op, cells, view>>

\* The call returns.  AddPermission and RemovePermission answer with a new array.
Return(t) ==
    LET shares == op[t] \in {"create", "update", "touch"}
    IN  /\ Step(t, "write", IF shares THEN "encode" ELSE "idle")
        /\ Lock!Unlock(t)
        /\ view' = [view EXCEPT ![t] = IF shares THEN row ELSE NoRow]
        /\ cells' = [cells EXCEPT ![t] = {}]
        /\ UNCHANGED <<row, used, op>>

\* respond has written the answer.
Respond(t) == /\ Step(t, "encode", "idle")
              /\ view' = [view EXCEPT ![t] = NoRow]
              /\ UNCHANGED <<row, used, op, cells, lockVars>>

Next == \E t \in Threads :
            \/ \E o \in Ops : Request(t, o)
            \/ Enter(t) \/ Get(t) \/ Refuse(t) \/ Return(t) \/ Respond(t)
            \/ Create(t) \/ Update(t) \/ Touch(t) \/ Delete(t)
            \/ AddPermission(t) \/ RemovePermission(t)

Spec == Init /\ [][Next]_vars

\* The cells that the encoding of a copy reads.
Encoding(t) == IF pc[t] # "encode" THEN {}
               ELSE ({view[t].attrs} \ {NoMap}) \cup {<<view[t].perms, k>> : k \in 1..view[t].len}

\* "Store is a thread-safe user store" (store.go:46): no goroutine writes a
\* map or an element of an array while another one encodes it.  (Go ends the
\* whole process when it sees a map written during an iteration.)
NoDataRace == \A t, u \in Threads : Encoding(t) \cap cells[u] = {}
=============================================================================
