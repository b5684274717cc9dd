-------------------------- MODULE UserStoreProofs ---------------------------
(***************************************************************************)
(* No two users share a username, no user loses a custom field, no list of *)
(* permissions comes to repeat one, the rows keep their types, and the     *)
(* users implement DurableTable: for any ids, usernames and settings,      *)
(* through whichever front ends users are created and changed, whatever    *)
(* saves fail and wherever the server dies.  And the two calls of a        *)
(* profile update add up to what was asked, whoever comes in between.      *)
(***************************************************************************)
EXTENDS ProfileUpdates, TLAPS, WellFoundedInduction

\* Every row has a username.  That is all the uniqueness needs to know of the
\* other fields: that a change of one of them leaves the username alone.
HaveNames(t) == \A i \in DOMAIN t : "username" \in DOMAIN t[i]

Good(t) == HaveNames(t) /\ Distinct(t)

NamesInv == Good(users) /\ Good(disk)

-----------------------------------------------------------------------------
(* Tables of users. *)

\* The empty map repeats no username.
LEMMA NobodyGood == Good(NoUsers)
BY DEF NoUsers, Good, HaveNames, Distinct

\* A new row with a username of its own, in the place of no row or of an old one.
LEMMA PutGood ==
  ASSUME NEW t, Good(t), NEW id, NEW row, "username" \in DOMAIN row,
         \A i \in DOMAIN t \ {id} : t[i].username # row.username
  PROVE  Good(Put(t, id, row))
<1> DEFINE u == Put(t, id, row)
<1>1. /\ DOMAIN u = DOMAIN t \cup {id} /\ u[id] = row
      /\ \A i \in DOMAIN t \ {id} : u[i] = t[i]
  BY DEF Put
<1> HIDE DEF u
<1>2. HaveNames(u)
  BY <1>1 DEF Good, HaveNames
<1>3. ASSUME NEW i \in DOMAIN u, NEW j \in DOMAIN u, u[i].username = u[j].username PROVE i = j
  <2>1. CASE i = id \/ j = id
    BY <1>1, <1>3, <2>1
  <2>2. CASE i # id /\ j # id
    BY <1>1, <1>3, <2>2 DEF Good, Distinct
  <2> QED BY <2>1, <2>2
<1> QED BY <1>2, <1>3 DEF Good, Distinct, u

\* Removing a user repeats no username.
LEMMA DropGood ==
  ASSUME NEW t, Good(t), NEW id
  PROVE  Good(Drop(t, id))
BY DEF Good, HaveNames, Distinct, Drop

\* A row may be replaced by one whose username nobody else has.
LEMMA ReplaceGood ==
  ASSUME NEW t, Good(t), NEW id \in DOMAIN t, NEW row, "username" \in DOMAIN row,
         \A i \in DOMAIN t \ {id} : t[i].username # row.username
  PROVE  Good([t EXCEPT ![id] = row])
<1> DEFINE u == [t EXCEPT ![id] = row]
<1>1. DOMAIN u = DOMAIN t /\ u[id] = row /\ \A i \in DOMAIN t \ {id} : u[i] = t[i]
  OBVIOUS
<1> HIDE DEF u
<1>2. HaveNames(u)
  BY <1>1 DEF Good, HaveNames
<1>3. ASSUME NEW i \in DOMAIN u, NEW j \in DOMAIN u, u[i].username = u[j].username PROVE i = j
  <2>1. CASE i = id \/ j = id
    BY <1>1, <1>3, <2>1
  <2>2. CASE i # id /\ j # id
    BY <1>1, <1>3, <2>2 DEF Good, Distinct
  <2> QED BY <2>1, <2>2
<1> QED BY <1>2, <1>3 DEF Good, Distinct, u

-----------------------------------------------------------------------------
(* The operations. *)

\* persist: a map without repetitions, saved or not, keeps the invariant.
LEMMA CommitKeeps ==
  ASSUME NamesInv, NEW t, Good(t), Commit(t)
  PROVE  NamesInv'
BY DEF Commit, NamesInv, Good, HaveNames, Distinct

\* A step that touches neither the map nor the file.
LEMMA SameKeeps ==
  ASSUME NamesInv, users' = users, disk' = disk
  PROVE  NamesInv'
BY DEF NamesInv, Good, HaveNames, Distinct

\* An error return changes no row.
LEMMA RefuseKeeps ==
  ASSUME NamesInv, NEW why, Refuse(why)
  PROVE  NamesInv'
BY SameKeeps DEF Refuse

\* A change of any field but the username.
LEMMA ChangeKeeps ==
  ASSUME NamesInv, NEW id, NEW row, Change(id, row),
         id \in DOMAIN users =>
            /\ "username" \in DOMAIN row
            /\ \A i \in DOMAIN users \ {id} : users[i].username # row.username
  PROVE  NamesInv'
<1>1. CASE id \notin DOMAIN users
  BY <1>1, RefuseKeeps DEF Change
<1>2. CASE id \in DOMAIN users
  <2>1. Commit([users EXCEPT ![id] = row])
    BY <1>2 DEF Change
  <2>2. Good([users EXCEPT ![id] = row])
    BY <1>2, ReplaceGood DEF NamesInv
  <2> QED BY <2>1, <2>2, CommitKeeps
<1> QED BY <1>1, <1>2

\* Create adds a user whose name it has not found.
LEMMA CreateKeeps ==
  ASSUME NamesInv, NEW u, Create(u)
  PROVE  NamesInv'
<1>1. CASE u.username \in Usernames
  BY <1>1, RefuseKeeps DEF Create
<1>2. CASE u.username \notin Usernames
  <2> DEFINE row == [username |-> u.username, enabled |-> u.enabled, manager |-> u.manager,
                     perms |-> u.perms, attrs |-> CustomFields \cup u.attrs,
                     origin |-> "request"]
  <2>1. PICK id \in Ids \ DOMAIN users : Commit(Put(users, id, row))
    BY <1>2 DEF Create
  <2>2. "username" \in DOMAIN row /\ row.username = u.username
    OBVIOUS
  <2> HIDE DEF row
  <2>3. \A i \in DOMAIN users \ {id} : users[i].username # row.username
    BY <1>2, <2>2 DEF Usernames
  <2>4. Good(Put(users, id, row))
    BY <2>2, <2>3, PutGood DEF NamesInv
  <2> QED BY <2>1, <2>4, CommitKeeps
<1> QED BY <1>1, <1>2

\* Update takes a new name only when no other user has it.
LEMMA UpdateKeeps ==
  ASSUME NamesInv, NEW id, NEW patch, Update(id, patch)
  PROVE  NamesInv'
<1> DEFINE taken == /\ id \in DOMAIN users /\ patch.username # NoName
                    /\ patch.username # users[id].username /\ TakenByOther(id, patch.username)
           row == [users[id] EXCEPT
                     !.username = IF patch.username = NoName THEN @ ELSE patch.username,
                     !.manager  = IF patch.manager = NoManager THEN @ ELSE patch.manager,
                     !.attrs    = @ \cup patch.attrs]
<1>1. CASE taken
  BY <1>1, RefuseKeeps DEF Update
<1>2. CASE ~taken
  <2>1. Change(id, row)
    BY <1>2 DEF Update
  <2>2. ASSUME id \in DOMAIN users
        PROVE  /\ "username" \in DOMAIN row
               /\ row.username = IF patch.username = NoName THEN users[id].username
                                 ELSE patch.username
    BY <2>2 DEF NamesInv, Good, HaveNames
  <2> HIDE DEF row
  <2>3. ASSUME id \in DOMAIN users, NEW i \in DOMAIN users \ {id}
        PROVE  users[i].username # row.username
    <3>1. users[i].username # users[id].username
      BY <2>3 DEF NamesInv, Good, Distinct
    <3> QED BY <1>2, <2>2, <2>3, <3>1 DEF TakenByOther
  <2> QED BY <2>1, <2>2, <2>3, ChangeKeeps
<1> QED BY <1>1, <1>2

\* A change of a field of its own leaves the username as it was.
LEMMA SameNameKeeps ==
  ASSUME NamesInv, NEW id, NEW row, Change(id, row),
         id \in DOMAIN users => "username" \in DOMAIN row /\ row.username = users[id].username
  PROVE  NamesInv'
<1>1. ASSUME id \in DOMAIN users, NEW i \in DOMAIN users \ {id}
      PROVE  users[i].username # row.username
  BY <1>1 DEF NamesInv, Good, Distinct
<1> QED BY <1>1, ChangeKeeps

\* SetEnabled leaves the username alone.
LEMMA SetEnabledKeeps ==
  ASSUME NamesInv, NEW id, NEW b, SetEnabled(id, b)
  PROVE  NamesInv'
<1> DEFINE row == [users[id] EXCEPT !.enabled = b]
<1>1. id \in DOMAIN users => "username" \in DOMAIN row /\ row.username = users[id].username
  BY DEF NamesInv, Good, HaveNames
<1> QED BY <1>1, SameNameKeeps DEF SetEnabled

\* SetManager leaves the username alone.
LEMMA SetManagerKeeps ==
  ASSUME NamesInv, NEW id, NEW m, SetManager(id, m)
  PROVE  NamesInv'
<1> DEFINE row == [users[id] EXCEPT !.manager = m]
<1>1. id \in DOMAIN users => "username" \in DOMAIN row /\ row.username = users[id].username
  BY DEF NamesInv, Good, HaveNames
<1> QED BY <1>1, SameNameKeeps DEF SetManager

\* Delete takes one user out.
LEMMA DeleteKeeps ==
  ASSUME NamesInv, NEW id, Delete(id)
  PROVE  NamesInv'
BY RefuseKeeps, CommitKeeps, DropGood DEF Delete, NamesInv

\* AddPermission leaves the username alone.
LEMMA AddPermissionKeeps ==
  ASSUME NamesInv, NEW id, NEW p, AddPermission(id, p)
  PROVE  NamesInv'
<1> DEFINE row == [users[id] EXCEPT !.perms = Append(@, p)]
<1>1. CASE id \in DOMAIN users /\ Contains(users[id].perms, p)
  BY <1>1, SameKeeps DEF AddPermission
<1>2. CASE ~(id \in DOMAIN users /\ Contains(users[id].perms, p))
  <2>1. Change(id, row)
    BY <1>2 DEF AddPermission
  <2>2. id \in DOMAIN users => "username" \in DOMAIN row /\ row.username = users[id].username
    BY DEF NamesInv, Good, HaveNames
  <2> HIDE DEF row
  <2> QED BY <2>1, <2>2, SameNameKeeps
<1> QED BY <1>1, <1>2

\* RemovePermission leaves the username alone.
LEMMA RemovePermissionKeeps ==
  ASSUME NamesInv, NEW id, NEW p, RemovePermission(id, p)
  PROVE  NamesInv'
<1> DEFINE left == Without(users[id].perms, p)
           row == [users[id] EXCEPT !.perms = left]
<1>1. Change(id, row)
  BY DEF RemovePermission
<1> HIDE DEF left
<1>2. id \in DOMAIN users => "username" \in DOMAIN row /\ row.username = users[id].username
  BY DEF NamesInv, Good, HaveNames
<1> HIDE DEF row
<1> QED BY <1>1, <1>2, SameNameKeeps

-----------------------------------------------------------------------------
(* The front ends. *)

\* A create that a handler has validated.
LEMMA CreateNamedKeeps ==
  ASSUME NamesInv, NEW u, CreateNamed(u)
  PROVE  NamesInv'
BY CreateKeeps, RefuseKeeps DEF CreateNamed

\* Every request of every front end is one of the operations above.
LEMMA OneCallKeeps ==
  ASSUME NamesInv, OneCall
  PROVE  NamesInv'
<1> USE CreateKeeps, CreateNamedKeeps, UpdateKeeps, DeleteKeeps, SetEnabledKeeps, SetManagerKeeps,
        AddPermissionKeeps, RemovePermissionKeeps, RefuseKeeps
<1>1. CASE RestRequest
  BY <1>1 DEF RestRequest, RestPermissionRequest
<1>2. CASE SoapRequest
  BY <1>2 DEF SoapRequest, SoapUpdate
<1>3. CASE ProfileRequest
  BY <1>3 DEF ProfileRequest, ProfileCreate, ProfileDeleteEnableDisable, ProfileLinkUnlink,
              ProfileSetField
<1>4. CASE ProfileSoapRequest
  BY <1>4 DEF ProfileSoapRequest, ProfileSoapCreate
<1> QED BY <1>1, <1>2, <1>3, <1>4 DEF OneCall

\* Each of the two calls of a profile update keeps the invariant by itself.
LEMMA ProfileUpdateKeeps ==
  ASSUME NamesInv, NEW c \in Clients, ProfileUpdate(c) \/ ProfileUpdateEnabled(c)
  PROVE  NamesInv'
BY UpdateKeeps, SetEnabledKeeps DEF ProfileUpdate, UpdateUser, ProfileUpdateEnabled

\* Seed makes users only in an empty store, with names of their own.
LEMMA SeedKeeps ==
  ASSUME NamesInv, Seed
  PROVE  NamesInv'
<1>1. CASE DOMAIN users # {}
  BY <1>1, SameKeeps DEF Seed
<1>2. CASE DOMAIN users = {}
  <2>1. PICK t \in SeedRows : users' = t /\ (disk' = t \/ disk' = disk)
    BY <1>2 DEF Seed
  <2>2. PICK s \in SeedTables :
           t = [i \in DOMAIN s |-> [username |-> s[i], enabled |-> TRUE, manager |-> NoManager,
                                    perms |-> <<>>, attrs |-> {}, origin |-> "seed"]]
    BY <2>1 DEF SeedRows
  <2>3. DOMAIN t = DOMAIN s /\ \A i \in DOMAIN s : "username" \in DOMAIN t[i] /\ t[i].username = s[i]
    BY <2>2
  <2>4. Good(t)
    BY <2>2, <2>3 DEF Good, HaveNames, Distinct, SeedTables, Unique
  <2> QED BY <2>1, <2>4 DEF NamesInv
<1> QED BY <1>1, <1>2

-----------------------------------------------------------------------------
(* The theorem. *)

\* The invariant is inductive.
LEMMA NextKeeps == NamesInv /\ [Next]_vars => NamesInv'
<1> SUFFICES ASSUME NamesInv, [Next]_vars PROVE NamesInv'
  OBVIOUS
<1>1. CASE Boot
  BY <1>1 DEF Boot, NamesInv
<1>2. CASE Crash
  BY <1>2, NobodyGood DEF Crash, NamesInv
<1>3. CASE UNCHANGED vars
  BY <1>3, SameKeeps DEF vars
<1> QED BY <1>1, <1>2, <1>3, SeedKeeps, OneCallKeeps, ProfileUpdateKeeps DEF Next

\* Create's and Update's look at the usernames keeps them distinct, in
\* Store.users and in users.json, under all four front ends.
THEOREM UsernamesStayUnique == Spec => []UniqueUsernames
<1>1. Init => NamesInv
  BY NobodyGood DEF Init, NamesInv
<1>2. NamesInv => UniqueUsernames
  BY DEF NamesInv, Good, UniqueUsernames
<1> QED BY <1>1, <1>2, NextKeeps, PTL DEF Spec

-----------------------------------------------------------------------------
(* Custom fields.                                                           *)

\* A row that a request created has them.  A change of another field leaves
\* the attributes alone, which is all that is needed of the other fields.
Filled(row) == /\ "attrs" \in DOMAIN row /\ "origin" \in DOMAIN row
               /\ row.origin = "request" => CustomFields \subseteq row.attrs

AllFilled(t) == \A i \in DOMAIN t : Filled(t[i])

FieldsInv == AllFilled(users) /\ AllFilled(disk)

\* persist: a map of complete rows, saved or not, keeps the invariant.
LEMMA CommitFields ==
  ASSUME FieldsInv, NEW t, AllFilled(t), Commit(t)
  PROVE  FieldsInv'
BY DEF Commit, FieldsInv, AllFilled

\* A step that touches neither the map nor the file, an error return for one.
LEMMA SameFields ==
  ASSUME FieldsInv, users' = users, disk' = disk
  PROVE  FieldsInv'
BY DEF FieldsInv, AllFilled

\* A complete row in the place of one that is there.
LEMMA ChangeFields ==
  ASSUME FieldsInv, NEW id, NEW row, Change(id, row), id \in DOMAIN users => Filled(row)
  PROVE  FieldsInv'
<1>1. CASE id \notin DOMAIN users
  BY <1>1, SameFields DEF Change, Refuse
<1>2. CASE id \in DOMAIN users
  <2>1. Commit([users EXCEPT ![id] = row])
    BY <1>2 DEF Change
  <2>2. AllFilled([users EXCEPT ![id] = row])
    BY <1>2 DEF FieldsInv, AllFilled
  <2> QED BY <2>1, <2>2, CommitFields
<1> QED BY <1>1, <1>2

\* A row that differs from a complete one in neither field is complete.
LEMMA SameFilled ==
  ASSUME NEW old, Filled(old), NEW new, DOMAIN new = DOMAIN old,
         new.attrs = old.attrs, new.origin = old.origin
  PROVE  Filled(new)
BY DEF Filled

\* Create fills in the custom fields that the body leaves out.
LEMMA CreateFields ==
  ASSUME FieldsInv, NEW u, Create(u)
  PROVE  FieldsInv'
<1>1. CASE u.username \in Usernames
  BY <1>1, SameFields DEF Create, Refuse
<1>2. CASE u.username \notin Usernames
  <2> DEFINE row == [username |-> u.username, enabled |-> u.enabled, manager |-> u.manager,
                     perms |-> u.perms, attrs |-> CustomFields \cup u.attrs,
                     origin |-> "request"]
  <2>1. PICK id \in Ids \ DOMAIN users : Commit(Put(users, id, row))
    BY <1>2 DEF Create
  <2>2. Filled(row)
    BY DEF Filled
  <2> HIDE DEF row
  <2>3. AllFilled(Put(users, id, row))
    BY <2>2 DEF FieldsInv, AllFilled, Put
  <2> QED BY <2>1, <2>3, CommitFields
<1> QED BY <1>1, <1>2

\* Update adds attributes and takes none away.
LEMMA UpdateFields ==
  ASSUME FieldsInv, NEW id, NEW patch, Update(id, patch)
  PROVE  FieldsInv'
<1> DEFINE taken == /\ id \in DOMAIN users /\ patch.username # NoName
                    /\ patch.username # users[id].username /\ TakenByOther(id, patch.username)
           row == [users[id] EXCEPT
                     !.username = IF patch.username = NoName THEN @ ELSE patch.username,
                     !.manager  = IF patch.manager = NoManager THEN @ ELSE patch.manager,
                     !.attrs    = @ \cup patch.attrs]
<1>1. CASE taken
  BY <1>1, SameFields DEF Update, Refuse
<1>2. CASE ~taken
  <2>1. Change(id, row)
    BY <1>2 DEF Update
  <2>2. ASSUME id \in DOMAIN users
        PROVE  /\ DOMAIN row = DOMAIN users[id] /\ row.origin = users[id].origin
               /\ row.attrs = users[id].attrs \cup patch.attrs /\ Filled(users[id])
    BY <2>2 DEF FieldsInv, AllFilled, Filled
  <2> HIDE DEF row
  <2>3. id \in DOMAIN users => Filled(row)
    BY <2>2 DEF Filled
  <2> QED BY <2>1, <2>3, ChangeFields
<1> QED BY <1>1, <1>2

\* A change of another field.
LEMMA OtherFields ==
  ASSUME FieldsInv, NEW id, NEW row, Change(id, row),
         DOMAIN row = DOMAIN users[id], row.attrs = users[id].attrs, row.origin = users[id].origin
  PROVE  FieldsInv'
<1>1. id \in DOMAIN users => Filled(row)
  BY SameFilled DEF FieldsInv, AllFilled
<1> QED BY <1>1, ChangeFields

\* SetEnabled and SetManager leave the attributes alone.
LEMMA SetFields ==
  ASSUME FieldsInv, NEW id, NEW v, SetEnabled(id, v) \/ SetManager(id, v)
  PROVE  FieldsInv'
<1>1. CASE SetEnabled(id, v)
  <2> DEFINE row == [users[id] EXCEPT !.enabled = v]
  <2>1. DOMAIN row = DOMAIN users[id] /\ row.attrs = users[id].attrs /\ row.origin = users[id].origin
    OBVIOUS
  <2> QED BY <1>1, <2>1, OtherFields DEF SetEnabled
<1>2. CASE SetManager(id, v)
  <2> DEFINE row == [users[id] EXCEPT !.manager = v]
  <2>1. DOMAIN row = DOMAIN users[id] /\ row.attrs = users[id].attrs /\ row.origin = users[id].origin
    OBVIOUS
  <2> QED BY <1>2, <2>1, OtherFields DEF SetManager
<1> QED BY <1>1, <1>2

\* Delete takes one row out.
LEMMA DeleteFields ==
  ASSUME FieldsInv, NEW id, Delete(id)
  PROVE  FieldsInv'
<1>1. CASE id \notin DOMAIN users
  BY <1>1, SameFields DEF Delete, Refuse
<1>2. CASE id \in DOMAIN users
  <2>1. AllFilled(Drop(users, id))
    BY DEF FieldsInv, AllFilled, Drop
  <2> QED BY <1>2, <2>1, CommitFields DEF Delete
<1> QED BY <1>1, <1>2

\* AddPermission and RemovePermission leave the attributes alone.
LEMMA PermissionFields ==
  ASSUME FieldsInv, NEW id, NEW p, AddPermission(id, p) \/ RemovePermission(id, p)
  PROVE  FieldsInv'
<1> DEFINE row(ps) == [users[id] EXCEPT !.perms = ps]
<1>1. ASSUME NEW ps
      PROVE  /\ DOMAIN row(ps) = DOMAIN users[id] /\ row(ps).attrs = users[id].attrs
             /\ row(ps).origin = users[id].origin
  OBVIOUS
<1>2. \/ users' = users /\ disk' = disk
      \/ Change(id, row(Append(users[id].perms, p)))
      \/ Change(id, row(Without(users[id].perms, p)))
  BY DEF AddPermission, RemovePermission
<1>3. CASE users' = users /\ disk' = disk
  BY <1>3, SameFields
<1>4. ASSUME NEW ps, Change(id, row(ps)) PROVE FieldsInv'
  BY <1>1, <1>4, OtherFields
<1> HIDE DEF row
<1> QED BY <1>2, <1>3, <1>4

\* Every request of every front end is one of the operations above.
LEMMA OneCallFields ==
  ASSUME FieldsInv, OneCall
  PROVE  FieldsInv'
<1>0. \A why : Refuse(why) => FieldsInv'
  BY SameFields DEF Refuse
<1> USE <1>0, CreateFields, UpdateFields, DeleteFields, SetFields, PermissionFields
<1>1. CASE RestRequest
  BY <1>1 DEF RestRequest, RestPermissionRequest, CreateNamed
<1>2. CASE SoapRequest
  BY <1>2 DEF SoapRequest, SoapUpdate
<1>3. CASE ProfileRequest
  BY <1>3 DEF ProfileRequest, ProfileCreate, ProfileDeleteEnableDisable, ProfileLinkUnlink,
              ProfileSetField, CreateNamed
<1>4. CASE ProfileSoapRequest
  BY <1>4 DEF ProfileSoapRequest, ProfileSoapCreate
<1> QED BY <1>1, <1>2, <1>3, <1>4 DEF OneCall

\* Seed makes rows that no request created.
LEMMA SeedFields ==
  ASSUME FieldsInv, Seed
  PROVE  FieldsInv'
<1>1. CASE DOMAIN users # {}
  BY <1>1, SameFields DEF Seed
<1>2. CASE DOMAIN users = {}
  <2>1. PICK t \in SeedRows : users' = t /\ (disk' = t \/ disk' = disk)
    BY <1>2 DEF Seed
  <2>2. AllFilled(t)
    BY DEF SeedRows, AllFilled, Filled
  <2> QED BY <2>1, <2>2 DEF FieldsInv, AllFilled
<1> QED BY <1>1, <1>2

\* initAttributes fills the custom fields in once, and the merges of every
\* front end, the saves and the loads never lose one.
THEOREM FieldsStay == Spec => []CustomFieldsKept
<1>1. Init => FieldsInv
  BY DEF Init, NoUsers, FieldsInv, AllFilled
<1>2. ASSUME FieldsInv, [Next]_vars PROVE FieldsInv'
  <2>1. CASE Boot
    BY <1>2, <2>1 DEF Boot, FieldsInv, AllFilled
  <2>2. CASE Crash
    BY <1>2, <2>2 DEF Crash, NoUsers, FieldsInv, AllFilled
  <2>3. CASE UNCHANGED vars
    BY <1>2, <2>3, SameFields DEF vars
  <2>4. ASSUME NEW c \in Clients, ProfileUpdate(c) \/ ProfileUpdateEnabled(c) PROVE FieldsInv'
    BY <1>2, <2>4, UpdateFields, SetFields DEF ProfileUpdate, UpdateUser, ProfileUpdateEnabled
  <2> QED BY <1>2, <2>1, <2>2, <2>3, <2>4, SeedFields, OneCallFields DEF Next
<1>3. FieldsInv => CustomFieldsKept
  BY DEF FieldsInv, AllFilled, Filled, CustomFieldsKept
<1> QED BY <1>1, <1>2, <1>3, PTL DEF Spec

-----------------------------------------------------------------------------
(* The refinement of DurableTable. *)

\* The usernames of the map and of the file are usernames.
Named(t) == \A i \in DOMAIN t : t[i].username \in Names

TableInv == NamesInv /\ Named(users) /\ Named(disk)

\* A step of the abstract table, or none.
TableStep == [Durable!Next]_(Durable!durableVars)

\* persist: the abstract table settles with the map.
LEMMA SettleTable ==
  ASSUME NEW t, Commit(t)
  PROVE  Durable!Settle(NamesOf(t))
BY DEF Commit, Durable!Settle, NamesOf

\* A step that touches neither the map nor the file.
LEMMA SameTable ==
  ASSUME TableInv, users' = users, disk' = disk, phase' = phase
  PROVE  TableStep /\ Named(users)' /\ Named(disk)'
BY DEF TableStep, Durable!durableVars, TableInv, Named, NamesOf

\* A row with a username that is its own or nobody's is a rename.
LEMMA ChangeTable ==
  ASSUME TableInv, phase = "up", NEW id, NEW row, Change(id, row),
         id \in DOMAIN users =>
            /\ row.username \in Names
            /\ \A i \in DOMAIN users \ {id} : users[i].username # row.username
  PROVE  TableStep /\ Named(users)' /\ Named(disk)'
<1>1. CASE id \notin DOMAIN users
  BY <1>1, SameTable DEF Change, Refuse
<1>2. CASE id \in DOMAIN users
  <2> DEFINE t == [users EXCEPT ![id] = row]
  <2>1. Commit(t)
    BY <1>2 DEF Change
  <2>2. NamesOf(t) = Durable!Put(NamesOf(users), id, row.username)
    BY <1>2 DEF NamesOf, Durable!Put
  <2>3. Named(t)
    BY <1>2 DEF TableInv, Named
  <2> HIDE DEF t
  <2>4. row.username \in Durable!RowNames(NamesOf(users)) => row.username = NamesOf(users)[id]
    BY <1>2 DEF Durable!RowNames, NamesOf
  <2>5. Durable!Rename
    <3>1. id \in DOMAIN NamesOf(users)
      BY <1>2 DEF NamesOf
    <3>2. Durable!Settle(Durable!Put(NamesOf(users), id, row.username))
      BY <2>1, <2>2, SettleTable
    <3> QED BY <1>2, <2>4, <3>1, <3>2 DEF Durable!Rename
  <2>6. Named(users)' /\ Named(disk)'
    BY <2>1, <2>3 DEF Commit, TableInv, Named
  <2> QED BY <2>5, <2>6 DEF Durable!Next, TableStep
<1> QED BY <1>1, <1>2

\* A change of a field of its own is no change of the abstract table, or the
\* save of what an earlier one has missed.
LEMMA SameNameTable ==
  ASSUME TableInv, phase = "up", NEW id, NEW row, Change(id, row),
         id \in DOMAIN users => row.username = users[id].username
  PROVE  TableStep /\ Named(users)' /\ Named(disk)'
<1>1. id \in DOMAIN users =>
         /\ row.username \in Names
         /\ \A i \in DOMAIN users \ {id} : users[i].username # row.username
  BY DEF TableInv, Named, NamesInv, Good, Distinct
<1> QED BY <1>1, ChangeTable

\* Create is the table's, under a name that it has not found.
LEMMA CreateTable ==
  ASSUME TableInv, phase = "up", NEW u, u.username \in Names, Create(u)
  PROVE  TableStep /\ Named(users)' /\ Named(disk)'
<1>1. CASE u.username \in Usernames
  BY <1>1, SameTable DEF Create, Refuse
<1>2. CASE u.username \notin Usernames
  <2> DEFINE row == [username |-> u.username, enabled |-> u.enabled, manager |-> u.manager,
                     perms |-> u.perms, attrs |-> CustomFields \cup u.attrs,
                     origin |-> "request"]
  <2>1. PICK id \in Ids \ DOMAIN users : Commit(Put(users, id, row))
    BY <1>2 DEF Create
  <2>2. row.username = u.username
    OBVIOUS
  <2> HIDE DEF row
  <2> DEFINE t == Put(users, id, row)
  <2>3. NamesOf(t) = Durable!Put(NamesOf(users), id, u.username)
    BY <2>2 DEF NamesOf, Put, Durable!Put
  <2>4. Named(t)
    BY <2>2 DEF TableInv, Named, Put
  <2>5. Commit(t)
    BY <2>1
  <2> HIDE DEF t
  <2>6. u.username \in Names \ Durable!RowNames(NamesOf(users))
    BY <1>2 DEF Usernames, Durable!RowNames, NamesOf
  <2>7. id \in Ids \ DOMAIN NamesOf(users)
    BY DEF NamesOf
  <2>8. Durable!Settle(Durable!Put(NamesOf(users), id, u.username))
    BY <2>3, <2>5, SettleTable
  <2>9. Durable!Create
    BY <2>6, <2>7, <2>8 DEF Durable!Create
  <2>10. Named(users)' /\ Named(disk)'
    BY <2>4, <2>5 DEF Commit, TableInv, Named
  <2> QED BY <2>9, <2>10 DEF Durable!Next, TableStep
<1> QED BY <1>1, <1>2

\* Update is a rename, to the name that the user has when the patch has none.
LEMMA UpdateTable ==
  ASSUME TableInv, phase = "up", NEW id, NEW patch, patch.username \in Names,
         Update(id, patch)
  PROVE  TableStep /\ Named(users)' /\ Named(disk)'
<1> DEFINE taken == /\ id \in DOMAIN users /\ patch.username # NoName
                    /\ patch.username # users[id].username /\ TakenByOther(id, patch.username)
           row == [users[id] EXCEPT
                     !.username = IF patch.username = NoName THEN @ ELSE patch.username,
                     !.manager  = IF patch.manager = NoManager THEN @ ELSE patch.manager,
                     !.attrs    = @ \cup patch.attrs]
<1>1. CASE taken
  BY <1>1, SameTable DEF Update, Refuse
<1>2. CASE ~taken
  <2>1. Change(id, row)
    BY <1>2 DEF Update
  <2>2. ASSUME id \in DOMAIN users
        PROVE  row.username = IF patch.username = NoName THEN users[id].username
                              ELSE patch.username
    BY <2>2 DEF TableInv, NamesInv, Good, HaveNames
  <2> HIDE DEF row
  <2>3. ASSUME id \in DOMAIN users, NEW i \in DOMAIN users \ {id}
        PROVE  users[i].username # row.username
    <3>1. users[i].username # users[id].username
      BY <2>3 DEF TableInv, NamesInv, Good, Distinct
    <3> QED BY <1>2, <2>2, <2>3, <3>1 DEF TakenByOther
  <2>4. id \in DOMAIN users => row.username \in Names
    BY <2>2 DEF TableInv, Named
  <2> QED BY <2>1, <2>3, <2>4, ChangeTable
<1> QED BY <1>1, <1>2

\* Delete is the table's.
LEMMA DeleteTable ==
  ASSUME TableInv, phase = "up", NEW id, Delete(id)
  PROVE  TableStep /\ Named(users)' /\ Named(disk)'
<1>1. CASE id \notin DOMAIN users
  BY <1>1, SameTable DEF Delete, Refuse
<1>2. CASE id \in DOMAIN users
  <2> DEFINE t == Drop(users, id)
  <2>1. Commit(t)
    BY <1>2 DEF Delete
  <2>2. NamesOf(t) = Durable!Drop(NamesOf(users), id) /\ Named(t)
    BY DEF NamesOf, Drop, Durable!Drop, TableInv, Named
  <2> HIDE DEF t
  <2>3. Durable!Delete
    <3>1. id \in DOMAIN NamesOf(users)
      BY <1>2 DEF NamesOf
    <3>2. Durable!Settle(Durable!Drop(NamesOf(users), id))
      BY <2>1, <2>2, SettleTable
    <3> QED BY <3>1, <3>2 DEF Durable!Delete
  <2>4. Named(users)' /\ Named(disk)'
    BY <2>1, <2>2 DEF Commit, TableInv, Named
  <2> QED BY <2>3, <2>4 DEF Durable!Next, TableStep
<1> QED BY <1>1, <1>2

\* SetEnabled and SetManager leave the username alone.
LEMMA SetTable ==
  ASSUME TableInv, phase = "up", NEW id, NEW v, SetEnabled(id, v) \/ SetManager(id, v)
  PROVE  TableStep /\ Named(users)' /\ Named(disk)'
<1>1. CASE SetEnabled(id, v)
  <2>1. id \in DOMAIN users => [users[id] EXCEPT !.enabled = v].username = users[id].username
    BY DEF TableInv, NamesInv, Good, HaveNames
  <2> QED BY <1>1, <2>1, SameNameTable DEF SetEnabled
<1>2. CASE SetManager(id, v)
  <2>1. id \in DOMAIN users => [users[id] EXCEPT !.manager = v].username = users[id].username
    BY DEF TableInv, NamesInv, Good, HaveNames
  <2> QED BY <1>2, <2>1, SameNameTable DEF SetManager
<1> QED BY <1>1, <1>2

\* So do AddPermission and RemovePermission.
LEMMA PermissionTable ==
  ASSUME TableInv, phase = "up", NEW id, NEW p,
         AddPermission(id, p) \/ RemovePermission(id, p)
  PROVE  TableStep /\ Named(users)' /\ Named(disk)'
<1>1. ASSUME NEW perms, Change(id, [users[id] EXCEPT !.perms = perms])
      PROVE  TableStep /\ Named(users)' /\ Named(disk)'
  <2>1. id \in DOMAIN users => [users[id] EXCEPT !.perms = perms].username = users[id].username
    BY DEF TableInv, NamesInv, Good, HaveNames
  <2> QED BY <1>1, <2>1, SameNameTable
<1>2. CASE id \in DOMAIN users /\ Contains(users[id].perms, p) /\ AddPermission(id, p)
  BY <1>2, SameTable DEF AddPermission
<1>3. CASE ~(id \in DOMAIN users /\ Contains(users[id].perms, p)) /\ AddPermission(id, p)
  <2>1. Change(id, [users[id] EXCEPT !.perms = Append(users[id].perms, p)])
    BY <1>3 DEF AddPermission
  <2> QED BY <1>1, <2>1
<1>4. CASE RemovePermission(id, p)
  <2> DEFINE left == Without(users[id].perms, p)
  <2>1. Change(id, [users[id] EXCEPT !.perms = left])
    BY <1>4 DEF RemovePermission
  <2> HIDE DEF left
  <2> QED BY <1>1, <2>1
<1> QED BY <1>2, <1>3, <1>4

\* A refusal is no step of the table.
LEMMA RefuseTable ==
  ASSUME TableInv, NEW why, Refuse(why)
  PROVE  TableStep /\ Named(users)' /\ Named(disk)'
BY SameTable DEF Refuse

\* Every request of every front end is an operation of the table, or none.
LEMMA OneCallTable ==
  ASSUME TableInv, phase = "up", OneCall
  PROVE  TableStep /\ Named(users)' /\ Named(disk)'
<1> USE CreateTable, UpdateTable, DeleteTable, SetTable, PermissionTable, RefuseTable
<1>1. /\ \A u \in Bodies : u.username \in Names
      /\ \A n \in Names, b \in BOOLEAN : SoapBody(n, b).username \in Names
  BY DEF Bodies, SoapBody
<1>2. CASE RestRequest
  BY <1>1, <1>2 DEF RestRequest, RestPermissionRequest, CreateNamed
<1>3. CASE SoapRequest
  BY <1>1, <1>3 DEF SoapRequest, SoapUpdate
<1>4. CASE ProfileRequest
  BY <1>1, <1>4 DEF ProfileRequest, ProfileCreate, CreateNamed, ProfileDeleteEnableDisable,
                    ProfileLinkUnlink, ProfileSetField
<1>5. CASE ProfileSoapRequest
  BY <1>1, <1>5 DEF ProfileSoapRequest, ProfileSoapCreate
<1> QED BY <1>2, <1>3, <1>4, <1>5 DEF OneCall

\* Each of the two calls of a profile update is one.
LEMMA ProfileUpdateTable ==
  ASSUME TableInv, phase = "up", NEW c \in Clients,
         ProfileUpdate(c) \/ ProfileUpdateEnabled(c)
  PROVE  TableStep /\ Named(users)' /\ Named(disk)'
<1>1. CASE ProfileUpdate(c)
  BY <1>1, UpdateTable DEF ProfileUpdate, UpdateUser, Bodies
<1>2. CASE ProfileUpdateEnabled(c)
  BY <1>2, SetTable DEF ProfileUpdateEnabled
<1> QED BY <1>1, <1>2

\* The demo users are the rows that the table is seeded with.
LEMMA SeedTable ==
  ASSUME TableInv, Seed
  PROVE  TableStep /\ Named(users)' /\ Named(disk)'
<1>1. CASE DOMAIN users # {}
  BY <1>1 DEF Seed, TableStep, Durable!durableVars, TableInv, Named, NamesOf
<1>2. CASE DOMAIN users = {}
  <2>1. PICK t \in SeedRows : users' = t /\ (disk' = t \/ disk' = disk)
    BY <1>2 DEF Seed
  <2>2. PICK s \in SeedTables :
           t = [i \in DOMAIN s |-> [username |-> s[i], enabled |-> TRUE, manager |-> NoManager,
                                    perms |-> <<>>, attrs |-> {}, origin |-> "seed"]]
    BY <2>1 DEF SeedRows
  <2>3. DOMAIN t = DOMAIN s /\ \A i \in DOMAIN s : t[i].username = s[i]
    BY <2>2
  <2>4. s \in Tables /\ s = [i \in DOMAIN s |-> s[i]] /\ \A i \in DOMAIN s : s[i] \in Names
    BY DEF SeedTables, Tables
  <2>5. NamesOf(t) = s /\ Named(t)
    BY <2>3, <2>4 DEF NamesOf, Named
  <2>6. s \in Durable!SeedTables
    BY DEF SeedTables, Durable!SeedTables, Tables, Durable!Tables, Unique, Durable!Unique,
           RowNames, Durable!RowNames
  <2>7. NamesOf(users) = Durable!Empty
    BY <1>2 DEF NamesOf, Durable!Empty
  <2>8. Durable!Settle(s)
    BY <2>1, <2>5 DEF Durable!Settle, Seed
  <2>9. Durable!Next
    BY <2>6, <2>7, <2>8 DEF Durable!Next, Durable!Seed, Seed
  <2> QED BY <2>1, <2>5, <2>9 DEF TableStep, TableInv, Named
<1> QED BY <1>1, <1>2

\* A boot shows the file, a crash shows nothing.
LEMMA BootTable ==
  ASSUME TableInv, Boot \/ Crash
  PROVE  TableStep /\ Named(users)' /\ Named(disk)'
<1>1. CASE Boot
  <2>1. Durable!Boot
    BY <1>1 DEF Boot, Durable!Boot, NamesOf
  <2> QED BY <1>1, <2>1 DEF Boot, TableStep, Durable!Next, TableInv, Named
<1>2. CASE Crash
  <2>1. NamesOf(users)' = Durable!Empty
    BY <1>2 DEF Crash, NoUsers, NamesOf, Durable!Empty
  <2>2. Durable!Crash
    BY <1>2, <2>1 DEF Crash, Durable!Crash, NamesOf
  <2> QED BY <1>2, <2>2 DEF Crash, NoUsers, TableStep, Durable!Next, TableInv, Named
<1> QED BY <1>1, <1>2

\* The server that is down maps to a table that is down.
LEMMA InitTable == Init => TableInv /\ Durable!Init
<1> SUFFICES ASSUME Init PROVE TableInv /\ Durable!Init
  OBVIOUS
<1>1. TableInv
  BY NobodyGood DEF Init, NoUsers, TableInv, NamesInv, Named
<1>2. NamesOf(NoUsers) = Durable!Empty
  BY DEF NamesOf, NoUsers, Durable!Empty
<1>3. Durable!Empty \in {t \in Durable!Tables : Durable!Unique(t)}
  BY DEF Durable!Empty, Durable!Tables, Durable!Unique
<1> QED BY <1>1, <1>2, <1>3 DEF Init, Durable!Init

\* The users, through all four front ends, with saves that fail and profile
\* updates interrupted between their two calls, are a table of usernames that
\* changes by whole operations, each durable at once or with a later save.
THEOREM UsersRefineTable == Spec => ImplementsDurableTable
<1>1. ASSUME TableInv, [Next]_vars
      PROVE  TableStep /\ TableInv'
  <2>1. TableStep /\ Named(users)' /\ Named(disk)'
    <3>1. CASE UNCHANGED vars
      BY <1>1, <3>1, SameTable DEF vars
    <3>2. CASE Next
      BY <1>1, <3>2, SeedTable, BootTable, OneCallTable, ProfileUpdateTable DEF Next
    <3> QED BY <1>1, <3>1, <3>2
  <2>2. NamesInv'
    BY <1>1, NextKeeps DEF TableInv
  <2> QED BY <2>1, <2>2 DEF TableInv
<1> QED BY <1>1, InitTable, PTL DEF Spec, ImplementsDurableTable, Durable!Spec, TableStep

-----------------------------------------------------------------------------
(* Lists of permissions. *)

\* Induction over the natural numbers, for a set of them.
LEMMA AllNumbers ==
  ASSUME NEW T \in SUBSET Nat, 0 \in T, \A n \in T : n + 1 \in T
  PROVE  T = Nat
<1>1. ASSUME Nat \ T # {} PROVE FALSE
  <2> DEFINE R == OpToRel(<, Nat)
  <2>1. IsWellFoundedOn(R, Nat)
    BY NatLessThanWellFounded
  <2>2. PICK x \in Nat \ T : \A y \in Nat \ T : <<y, x>> \notin R
    BY <1>1, <2>1, WFMin
  <2>3. x # 0 /\ x - 1 \in Nat /\ x - 1 < x
    OBVIOUS
  <2>4. <<x - 1, x>> \in R
    BY <2>3 DEF OpToRel
  <2> HIDE DEF R
  <2> QED BY <2>2, <2>3, <2>4
<1> QED BY <1>1

\* One round of the loop of RemovePermission.
Rounds(s, p, kept, n) ==
    /\ kept[0] = <<>>
    /\ \A k \in 1..n : kept[k] = IF s[k] = p THEN kept[k - 1] ELSE Append(kept[k - 1], s[k])

\* The loop has a result.
LEMMA LoopEnds ==
  ASSUME NEW S, NEW s \in Seq(S), NEW p
  PROVE  \E kept : Rounds(s, p, kept, Len(s)) /\ Without(s, p) = kept[Len(s)]
<1> DEFINE N == Len(s)
           T == {n \in Nat : \E f : DOMAIN f = 0..n /\ Rounds(s, p, f, n)}
           Round(f, k) == IF k = 0 THEN <<>>
                          ELSE IF s[k] = p THEN f[k - 1] ELSE Append(f[k - 1], s[k])
<1>1. 0 \in T
  <2> DEFINE f == [k \in 0..0 |-> <<>>]
  <2>1. DOMAIN f = 0..0 /\ Rounds(s, p, f, 0)
    BY DEF Rounds
  <2> QED BY <2>1
<1>2. ASSUME NEW n \in T PROVE n + 1 \in T
  <2>1. PICK f : DOMAIN f = 0..n /\ Rounds(s, p, f, n)
    OBVIOUS
  <2> DEFINE g == [k \in 0..(n + 1) |-> IF k = n + 1 THEN Round(f, n + 1) ELSE f[k]]
  <2>2. n \in Nat
    OBVIOUS
  <2>3. DOMAIN g = 0..(n + 1) /\ \A k \in 0..n : g[k] = f[k]
    BY <2>2
  <2>4. g[n + 1] = Round(f, n + 1)
    BY <2>2
  <2> HIDE DEF g
  <2>5. Rounds(s, p, g, n + 1)
    <3>1. g[0] = <<>>
      BY <2>1, <2>2, <2>3 DEF Rounds
    <3>2. ASSUME NEW k \in 1..(n + 1)
          PROVE  g[k] = IF s[k] = p THEN g[k - 1] ELSE Append(g[k - 1], s[k])
      <4>1. g[k - 1] = f[k - 1]
        BY <2>2, <2>3
      <4>2. CASE k = n + 1
        BY <2>2, <2>4, <4>1, <4>2
      <4>3. CASE k \in 1..n
        BY <2>1, <2>2, <2>3, <4>1, <4>3 DEF Rounds
      <4> QED BY <2>2, <4>2, <4>3
    <3> QED BY <3>1, <3>2 DEF Rounds
  <2> QED BY <2>2, <2>3, <2>5
<1>3. N \in Nat /\ N \in T
  <2> HIDE DEF T
  <2>1. T \in SUBSET Nat
    BY DEF T
  <2> QED BY <1>1, <1>2, <2>1, AllNumbers
<1>4. PICK f : DOMAIN f = 0..N /\ Rounds(s, p, f, N)
  BY <1>3
<1>5. \E r : r = [k \in 0..N |-> Round(r, k)]
  <2> DEFINE g == [k \in 0..N |-> f[k]]
  <2>1. ASSUME NEW k \in 0..N PROVE f[k] = Round(g, k)
    <3>1. CASE k = 0
      BY <1>4, <3>1 DEF Rounds
    <3>2. CASE k # 0
      <4>1. k \in 1..N /\ k - 1 \in 0..N
        BY <1>3, <3>2
      <4>2. f[k] = IF s[k] = p THEN f[k - 1] ELSE Append(f[k - 1], s[k])
        BY <1>4, <4>1 DEF Rounds
      <4>3. g[k - 1] = f[k - 1]
        BY <4>1
      <4> QED BY <3>2, <4>2, <4>3
    <3> QED BY <3>1, <3>2
  <2>2. g = [k \in 0..N |-> Round(g, k)]
    BY <2>1
  <2> QED BY <2>2
<1>6. \E kept : kept = [k \in 0..N |-> Round(kept, k)] /\ Without(s, p) = kept[N]
  BY <1>5, Zenon DEF Without
<1>7. PICK kept : kept = [k \in 0..N |-> Round(kept, k)] /\ Without(s, p) = kept[N]
  BY <1>6
<1>8. \A k \in 0..N : kept[k] = Round(kept, k)
  BY <1>7, Zenon
<1>9. Rounds(s, p, kept, N)
  BY <1>3, <1>8 DEF Rounds
<1> QED BY <1>7, <1>9

\* RemovePermission takes every occurrence of the permission out, keeps every
\* other one, and repeats none that was not repeated.
LEMMA WithoutIs ==
  ASSUME NEW S, NEW s \in Seq(S), NEW p
  PROVE  LET left == Without(s, p)
         IN  /\ left \in Seq(S)
             /\ \A a \in DOMAIN left : left[a] # p
             /\ \A b \in DOMAIN s : s[b] # p => \E a \in DOMAIN left : left[a] = s[b]
             /\ IsInjective(s) => IsInjective(left)
<1> DEFINE N == Len(s)
<1>1. N \in Nat /\ DOMAIN s = 1..N /\ \A k \in 1..N : s[k] \in S
  OBVIOUS
<1>2. PICK kept : Rounds(s, p, kept, N) /\ Without(s, p) = kept[N]
  BY LoopEnds
<1> DEFINE Kept(k) ==
             /\ kept[k] \in Seq(S)
             /\ \A a \in DOMAIN kept[k] : kept[k][a] # p /\ \E b \in 1..k : s[b] = kept[k][a]
             /\ \A b \in 1..k : s[b] # p => \E a \in DOMAIN kept[k] : kept[k][a] = s[b]
             /\ IsInjective(s) => IsInjective(kept[k])
           T == {k \in Nat : k <= N => Kept(k)}
<1>3. Kept(0)
  BY <1>2 DEF Rounds, IsInjective
<1>4. ASSUME NEW k \in 1..N, Kept(k - 1) PROVE Kept(k)
  <2> DEFINE old == kept[k - 1]
             new == kept[k]
  <2>1. /\ old \in Seq(S)
        /\ \A a \in DOMAIN old : old[a] # p /\ \E b \in 1..(k - 1) : s[b] = old[a]
        /\ \A b \in 1..(k - 1) : s[b] # p => \E a \in DOMAIN old : old[a] = s[b]
        /\ IsInjective(s) => IsInjective(old)
    BY <1>4
  <2>2. new = IF s[k] = p THEN old ELSE Append(old, s[k])
    BY <1>2 DEF Rounds
  <2> HIDE DEF old, new
  <2>3. k \in DOMAIN s /\ s[k] \in S /\ \A b \in 1..(k - 1) : b \in DOMAIN s /\ b # k /\ b \in 1..k
    BY <1>1
  <2>4. \A b \in 1..k : b = k \/ b \in 1..(k - 1)
    BY <1>1
  <2>5. CASE s[k] = p
    <3>1. new = old
      BY <2>2, <2>5
    <3>2. \A b \in 1..k : s[b] # p => b \in 1..(k - 1)
      BY <2>4, <2>5
    <3>3. \A a \in DOMAIN new : new[a] # p /\ \E b \in 1..k : s[b] = new[a]
      BY <2>1, <2>3, <3>1
    <3>4. \A b \in 1..k : s[b] # p => \E a \in DOMAIN new : new[a] = s[b]
      BY <2>1, <3>1, <3>2
    <3> QED BY <2>1, <3>1, <3>3, <3>4 DEF new
  <2>6. CASE s[k] # p
    <3> DEFINE L == Len(old)
    <3>1. /\ L \in Nat /\ DOMAIN old = 1..L /\ new \in Seq(S) /\ DOMAIN new = 1..(L + 1)
          /\ \A a \in 1..L : new[a] = old[a]
          /\ new[L + 1] = s[k]
      BY <2>1, <2>2, <2>3, <2>6
    <3> HIDE DEF L
    <3>2. \A a \in 1..(L + 1) : a = L + 1 \/ a \in 1..L
      BY <3>1
    <3>3. L + 1 \in 1..(L + 1) /\ \A a \in 1..L : a \in 1..(L + 1)
      BY <3>1
    <3>4. \A a \in DOMAIN new : new[a] # p /\ \E b \in 1..k : s[b] = new[a]
      BY <2>1, <2>3, <2>6, <3>1, <3>2
    <3>5. \A b \in 1..k : s[b] # p => \E a \in DOMAIN new : new[a] = s[b]
      BY <2>1, <2>4, <3>1, <3>3
    <3>6. ASSUME IsInjective(s) PROVE IsInjective(new)
      <4>1. \A a \in 1..L : new[a] # s[k]
        BY <2>1, <2>3, <3>1, <3>6 DEF IsInjective
      <4> QED BY <2>1, <3>1, <3>2, <3>6, <4>1 DEF IsInjective
    <3> QED BY <3>1, <3>4, <3>5, <3>6 DEF new
  <2> QED BY <2>5, <2>6
<1>5. N \in T
  <2>1. 0 \in T
    BY <1>3
  <2>2. ASSUME NEW k \in T PROVE k + 1 \in T
    <3>1. k \in Nat /\ k + 1 \in Nat /\ (k + 1) - 1 = k
      OBVIOUS
    <3>2. k + 1 <= N => k <= N /\ k + 1 \in 1..N
      BY <1>1, <3>1
    <3>3. k <= N => Kept(k)
      OBVIOUS
    <3> HIDE DEF Kept
    <3>4. k + 1 <= N => Kept(k + 1)
      BY <1>4, <3>1, <3>2, <3>3
    <3> QED BY <3>1, <3>4
  <2>3. T \in SUBSET Nat
    OBVIOUS
  <2> HIDE DEF T
  <2> QED BY <1>1, <2>1, <2>2, <2>3, AllNumbers
<1>6. Kept(N)
  BY <1>1, <1>5
<1> QED BY <1>1, <1>2, <1>6

-----------------------------------------------------------------------------
(* The types of the rows, and what a step does to the permissions.          *)

\* TypeOK without the calls that profile updates still have to make.
StoreOK == /\ phase \in {"down", "seeding", "up"}
           /\ IsUserTable(users)
           /\ IsUserTable(disk)
           /\ outcome \in {"none", "ok", "exists", "missing", "invalid"}

\* A step repeats no permission in a list that had no repetition.
PermsStay == \A i \in DOMAIN users \cap DOMAIN users' :
                IsInjective(users[i].perms) => IsInjective(users'[i].perms)

\* The bodies of all front ends.
Requests == [username : Names, enabled : BOOLEAN, manager : Managers \cup {NoManager},
             perms : Seq(Permissions), attrs : SUBSET AttrKeys]

\* SOAP bodies carry no permissions, the others one of the lists of a request.
LEMMA BodiesAreRequests ==
  /\ Bodies \subseteq Requests
  /\ \A n \in Names, b \in BOOLEAN : SoapBody(n, b) \in Requests
BY UserData DEF Bodies, SoapBody, Requests

\* A step that touches neither the map nor the file, an error return for one.
LEMMA SameTypes ==
  ASSUME StoreOK, users' = users, disk' = disk, phase' = phase,
         outcome' \in {"none", "ok", "exists", "missing", "invalid"}
  PROVE  StoreOK' /\ PermsStay
BY DEF StoreOK, PermsStay

\* persist: a typed map, saved or not.
LEMMA CommitTypes ==
  ASSUME StoreOK, NEW t, IsUserTable(t), Commit(t)
  PROVE  StoreOK' /\ users' = t
BY DEF StoreOK, Commit

\* A typed row in the place of one that is there.
LEMMA ChangeTypes ==
  ASSUME StoreOK, NEW id, NEW row, Change(id, row),
         id \in DOMAIN users => /\ row \in Rows
                                /\ IsInjective(users[id].perms) => IsInjective(row.perms)
  PROVE  StoreOK' /\ PermsStay
<1>1. CASE id \notin DOMAIN users
  BY <1>1, SameTypes DEF Change, Refuse
<1>2. CASE id \in DOMAIN users
  <2> DEFINE t == [users EXCEPT ![id] = row]
  <2>1. DOMAIN t = DOMAIN users /\ t[id] = row /\ \A i \in DOMAIN users \ {id} : t[i] = users[i]
    BY <1>2
  <2>2. t = [i \in DOMAIN t |-> t[i]]
    OBVIOUS
  <2>3. Commit(t)
    BY <1>2 DEF Change
  <2> HIDE DEF t
  <2>4. IsUserTable(t)
    BY <1>2, <2>1, <2>2 DEF StoreOK, IsUserTable
  <2>5. StoreOK' /\ users' = t
    BY <2>3, <2>4, CommitTypes
  <2> QED BY <1>2, <2>1, <2>5 DEF PermsStay
<1> QED BY <1>1, <1>2

\* Create adds a typed row and leaves the others alone.
LEMMA CreateTypes ==
  ASSUME StoreOK, NEW u \in Requests, Create(u)
  PROVE  StoreOK' /\ PermsStay
<1>1. CASE u.username \in Usernames
  BY <1>1, SameTypes DEF Create, Refuse
<1>2. CASE u.username \notin Usernames
  <2> DEFINE row == [username |-> u.username, enabled |-> u.enabled, manager |-> u.manager,
                     perms |-> u.perms, attrs |-> CustomFields \cup u.attrs, origin |-> "request"]
  <2>1. PICK id \in Ids \ DOMAIN users : Commit(Put(users, id, row))
    BY <1>2 DEF Create
  <2>2. row \in Rows
    BY UserData DEF Requests, Rows
  <2> DEFINE t == Put(users, id, row)
  <2>3. /\ DOMAIN t = DOMAIN users \cup {id} /\ t[id] = row
        /\ \A i \in DOMAIN users : t[i] = users[i]
        /\ t = [i \in DOMAIN t |-> t[i]]
    BY <2>1 DEF Put
  <2> HIDE DEF row, t
  <2>4. IsUserTable(t)
    BY <2>1, <2>2, <2>3 DEF StoreOK, IsUserTable
  <2>5. StoreOK' /\ users' = t
    BY <2>1, <2>4, CommitTypes DEF t
  <2> QED BY <2>3, <2>5 DEF PermsStay
<1> QED BY <1>1, <1>2

\* Update merges typed fields and leaves the permissions alone.
LEMMA UpdateTypes ==
  ASSUME StoreOK, NEW id, NEW patch \in Requests, Update(id, patch)
  PROVE  StoreOK' /\ PermsStay
<1> DEFINE row == [users[id] EXCEPT
            !.username = IF patch.username = NoName THEN @ ELSE patch.username,
            !.manager  = IF patch.manager = NoManager THEN @ ELSE patch.manager,
            !.attrs    = @ \cup patch.attrs]
<1>1. Change(id, row) \/ Refuse("exists")
  BY DEF Update
<1>2. id \in DOMAIN users => row \in Rows /\ row.perms = users[id].perms
  BY DEF StoreOK, IsUserTable, Rows, Requests
<1> HIDE DEF row
<1> QED BY <1>1, <1>2, ChangeTypes, SameTypes DEF Refuse

\* SetEnabled and SetManager set a typed value and leave the permissions alone.
LEMMA SetTypes ==
  ASSUME StoreOK, NEW id,
         \/ \E b \in BOOLEAN : SetEnabled(id, b)
         \/ \E m \in Managers \cup {NoManager} : SetManager(id, m)
  PROVE  StoreOK' /\ PermsStay
<1>1. ASSUME NEW b \in BOOLEAN, SetEnabled(id, b) PROVE StoreOK' /\ PermsStay
  <2> DEFINE row == [users[id] EXCEPT !.enabled = b]
  <2>1. id \in DOMAIN users => row \in Rows /\ row.perms = users[id].perms
    BY DEF StoreOK, IsUserTable, Rows
  <2>2. Change(id, row)
    BY <1>1 DEF SetEnabled
  <2> HIDE DEF row
  <2> QED BY <2>1, <2>2, ChangeTypes
<1>2. ASSUME NEW m \in Managers \cup {NoManager}, SetManager(id, m) PROVE StoreOK' /\ PermsStay
  <2> DEFINE row == [users[id] EXCEPT !.manager = m]
  <2>1. id \in DOMAIN users => row \in Rows /\ row.perms = users[id].perms
    BY DEF StoreOK, IsUserTable, Rows
  <2>2. Change(id, row)
    BY <1>2 DEF SetManager
  <2> HIDE DEF row
  <2> QED BY <2>1, <2>2, ChangeTypes
<1> QED BY <1>1, <1>2

\* Delete takes one row out.
LEMMA DeleteTypes ==
  ASSUME StoreOK, NEW id, Delete(id)
  PROVE  StoreOK' /\ PermsStay
<1>1. CASE id \notin DOMAIN users
  BY <1>1, SameTypes DEF Delete, Refuse
<1>2. CASE id \in DOMAIN users
  <2> DEFINE t == Drop(users, id)
  <2>1. /\ DOMAIN t = DOMAIN users \ {id} /\ \A i \in DOMAIN t : t[i] = users[i]
        /\ t = [i \in DOMAIN t |-> t[i]]
    BY DEF Drop
  <2>2. Commit(t)
    BY <1>2 DEF Delete
  <2> HIDE DEF t
  <2>3. IsUserTable(t)
    BY <2>1 DEF StoreOK, IsUserTable
  <2>4. StoreOK' /\ users' = t
    BY <2>2, <2>3, CommitTypes
  <2> QED BY <2>1, <2>4 DEF PermsStay
<1> QED BY <1>1, <1>2

\* AddPermission appends only what the list lacks, and RemovePermission only
\* takes out.
LEMMA PermissionTypes ==
  ASSUME StoreOK, NEW id, NEW p \in Permissions, AddPermission(id, p) \/ RemovePermission(id, p)
  PROVE  StoreOK' /\ PermsStay
<1> DEFINE old == users[id].perms
<1>1. id \in DOMAIN users => users[id] \in Rows /\ old \in Seq(Permissions)
  BY DEF StoreOK, IsUserTable, Rows
<1>2. ASSUME NEW new, Change(id, [users[id] EXCEPT !.perms = new]),
             id \in DOMAIN users => /\ new \in Seq(Permissions)
                                    /\ IsInjective(old) => IsInjective(new)
      PROVE  StoreOK' /\ PermsStay
  <2> DEFINE row == [users[id] EXCEPT !.perms = new]
  <2>1. id \in DOMAIN users => row \in Rows /\ row.perms = new
    BY <1>1, <1>2 DEF Rows
  <2>2. Change(id, row)
    BY <1>2
  <2> HIDE DEF row
  <2> QED BY <1>2, <2>1, <2>2, ChangeTypes
<1>3. CASE id \in DOMAIN users /\ Contains(old, p) /\ AddPermission(id, p)
  BY <1>3, SameTypes DEF AddPermission
<1>4. CASE ~(id \in DOMAIN users /\ Contains(old, p)) /\ AddPermission(id, p)
  <2> DEFINE new == Append(old, p)
  <2>1. Change(id, [users[id] EXCEPT !.perms = new])
    BY <1>4 DEF AddPermission
  <2>2. ASSUME id \in DOMAIN users PROVE new \in Seq(Permissions) /\ (IsInjective(old) => IsInjective(new))
    <3> DEFINE L == Len(old)
    <3>1. old \in Seq(Permissions) /\ ~ \E a \in 1..Len(old) : old[a] = p
      BY <1>1, <1>4, <2>2 DEF Contains
    <3> HIDE DEF old
    <3>2. /\ L \in Nat /\ DOMAIN old = 1..L /\ new \in Seq(Permissions) /\ DOMAIN new = 1..(L + 1)
          /\ \A a \in 1..L : new[a] = old[a]
          /\ new[L + 1] = p
      BY <3>1
    <3> HIDE DEF L, new
    <3>3. \A a \in 1..(L + 1) : a = L + 1 \/ a \in 1..L
      BY <3>2
    <3>4. \A a \in 1..L : old[a] # p
      BY <3>1 DEF L
    <3> QED BY <3>2, <3>3, <3>4 DEF IsInjective
  <2> HIDE DEF new
  <2> QED BY <1>2, <2>1, <2>2
<1>5. CASE RemovePermission(id, p)
  <2> DEFINE new == Without(old, p)
  <2>1. Change(id, [users[id] EXCEPT !.perms = new])
    BY <1>5 DEF RemovePermission
  <2>2. id \in DOMAIN users => new \in Seq(Permissions) /\ (IsInjective(old) => IsInjective(new))
    BY <1>1, WithoutIs
  <2> HIDE DEF new
  <2> QED BY <1>2, <2>1, <2>2
<1> QED BY <1>3, <1>4, <1>5

\* An error return, with one of its reasons.
LEMMA RefuseTypes ==
  ASSUME StoreOK, Refuse("invalid")
  PROVE  StoreOK' /\ PermsStay
BY SameTypes DEF Refuse

\* Every request of every front end is one of the operations above.
LEMMA OneCallTypes ==
  ASSUME StoreOK, OneCall
  PROVE  StoreOK' /\ PermsStay
<1>1. /\ \A u \in Bodies : u \in Requests
      /\ \A n \in Names, b \in BOOLEAN : SoapBody(n, b) \in Requests
  BY BodiesAreRequests
<1> USE CreateTypes, UpdateTypes, SetTypes, DeleteTypes, PermissionTypes, RefuseTypes
<1>2. CASE RestRequest
  BY <1>1, <1>2 DEF RestRequest, RestPermissionRequest, CreateNamed
<1>3. CASE SoapRequest
  BY <1>1, <1>3 DEF SoapRequest, SoapUpdate
<1>4. CASE ProfileRequest
  BY <1>1, <1>4 DEF ProfileRequest, ProfileCreate, CreateNamed, ProfileDeleteEnableDisable,
                    ProfileLinkUnlink, ProfileSetField
<1>5. CASE ProfileSoapRequest
  BY <1>1, <1>5 DEF ProfileSoapRequest, ProfileSoapCreate
<1> QED BY <1>2, <1>3, <1>4, <1>5 DEF OneCall

\* Seed fills an empty store with typed rows.
LEMMA SeedTypes ==
  ASSUME StoreOK, Seed
  PROVE  StoreOK' /\ PermsStay
<1>1. outcome' = outcome /\ phase' = "up"
  BY DEF Seed
<1>2. CASE DOMAIN users # {}
  <2>1. users' = users /\ disk' = disk
    BY <1>2 DEF Seed
  <2> QED BY <1>1, <2>1 DEF StoreOK, PermsStay
<1>3. CASE DOMAIN users = {}
  <2>1. PICK t \in SeedRows : users' = t /\ (disk' = t \/ disk' = disk)
    BY <1>3 DEF Seed
  <2>2. PICK s \in SeedTables :
           t = [i \in DOMAIN s |-> [username |-> s[i], enabled |-> TRUE, manager |-> NoManager,
                                    perms |-> <<>>, attrs |-> {}, origin |-> "seed"]]
    BY <2>1 DEF SeedRows
  <2>3. DOMAIN s \subseteq Ids /\ \A i \in DOMAIN s : s[i] \in Names
    BY DEF SeedTables, Tables
  <2>4. IsUserTable(t)
    <3>1. \A i \in DOMAIN s : t[i] \in Rows
      BY <2>2, <2>3 DEF Rows
    <3> QED BY <2>2, <2>3, <3>1 DEF IsUserTable
  <2> QED BY <1>1, <1>3, <2>1, <2>4 DEF StoreOK, PermsStay
<1> QED BY <1>2, <1>3

\* A profile update is one operation and notes, or makes, its second call.
LEMMA ProfileUpdateTypes ==
  ASSUME TypeOK, NEW c \in Clients, ProfileUpdate(c) \/ ProfileUpdateEnabled(c)
  PROVE  TypeOK' /\ PermsStay
<1>1. StoreOK
  BY DEF TypeOK, StoreOK
<1>2. CASE ProfileUpdate(c)
  <2>1. PICK id \in Ids, u \in Bodies, present \in BOOLEAN :
           /\ Update(id, u)
           /\ half' = IF outcome' = "ok" /\ present
                      THEN [half EXCEPT ![c] = [call |-> "SetEnabled", id |-> id,
                                                enabled |-> u.enabled]]
                      ELSE half
    BY <1>2 DEF ProfileUpdate, UpdateUser
  <2>2. StoreOK' /\ PermsStay
    BY <1>1, <2>1, UpdateTypes, BodiesAreRequests
  <2>3. u.enabled \in BOOLEAN
    BY DEF Bodies
  <2> QED BY <2>1, <2>2, <2>3 DEF TypeOK, StoreOK
<1>3. CASE ProfileUpdateEnabled(c)
  <2>1. half[c] \in [call : {"SetEnabled"}, id : Ids, enabled : BOOLEAN]
    BY <1>3 DEF ProfileUpdateEnabled, TypeOK
  <2>2. half[c].enabled \in BOOLEAN
    BY <2>1
  <2>3. StoreOK' /\ PermsStay
    BY <1>1, <1>3, <2>2, SetTypes DEF ProfileUpdateEnabled
  <2>4. half' = [half EXCEPT ![c] = Nothing]
    BY <1>3 DEF ProfileUpdateEnabled
  <2> QED BY <2>3, <2>4 DEF TypeOK, StoreOK
<1> QED BY <1>2, <1>3

\* A server that is down has no users: what a boot loads replaces nothing.
UserInv == TypeOK /\ (phase = "down" => DOMAIN users = {})

\* A request is answered by a server that stays up.
LEMMA OneCallPhase == OneCall => phase' = phase
<1>1. \A t : Commit(t) => phase' = phase
  BY DEF Commit
<1>2. \A why : Refuse(why) => phase' = phase
  BY DEF Refuse
<1>3. \A id, row : Change(id, row) => phase' = phase
  BY <1>1, <1>2 DEF Change
<1>4. \A u : Create(u) => phase' = phase
  BY <1>1, <1>2 DEF Create
<1>5. \A id, u : Update(id, u) => phase' = phase
  BY <1>2, <1>3 DEF Update
<1>6. \A id, v : SetEnabled(id, v) \/ SetManager(id, v) => phase' = phase
  BY <1>3 DEF SetEnabled, SetManager
<1>7. \A id : Delete(id) => phase' = phase
  BY <1>1, <1>2 DEF Delete
<1>8. \A id, p : AddPermission(id, p) \/ RemovePermission(id, p) => phase' = phase
  BY <1>3 DEF AddPermission, RemovePermission
<1> USE <1>2, <1>4, <1>5, <1>6, <1>7, <1>8
<1>9. (RestRequest \/ SoapRequest) => phase' = phase
  BY DEF RestRequest, RestPermissionRequest, SoapRequest, SoapUpdate, CreateNamed
<1>10. (ProfileRequest \/ ProfileSoapRequest) => phase' = phase
  BY DEF ProfileRequest, ProfileCreate, CreateNamed, ProfileDeleteEnableDisable,
         ProfileLinkUnlink, ProfileSetField, ProfileSoapRequest, ProfileSoapCreate
<1> QED BY <1>9, <1>10 DEF OneCall

\* A server that has not booted yet has no users, and none in the file.
LEMMA InitTypes == Init => UserInv
BY DEF Init, NoUsers, UserInv, TypeOK, IsUserTable

\* The invariant is inductive, and its steps leave the permissions distinct.
LEMMA NextTypes ==
  ASSUME UserInv, [Next]_vars
  PROVE  UserInv' /\ PermsStay
<1>1. StoreOK /\ TypeOK
  BY DEF UserInv, TypeOK, StoreOK
<1>2. CASE Boot
  BY <1>1, <1>2 DEF Boot, UserInv, TypeOK, PermsStay
<1>3. CASE Seed
  <2>1. half' = half /\ phase' = "up"
    BY <1>3 DEF Seed
  <2> QED BY <1>1, <1>3, <2>1, SeedTypes DEF UserInv, TypeOK, StoreOK
<1>4. CASE Crash
  <2>1. IsUserTable(NoUsers) /\ DOMAIN NoUsers = {}
    BY DEF IsUserTable, NoUsers
  <2> QED BY <1>1, <1>4, <2>1 DEF Crash, UserInv, TypeOK, PermsStay
<1>5. CASE phase = "up" /\ OneCall /\ UNCHANGED half
  <2>1. StoreOK' /\ PermsStay /\ phase' = "up"
    BY <1>1, <1>5, OneCallTypes, OneCallPhase
  <2> QED BY <1>1, <1>5, <2>1 DEF UserInv, TypeOK, StoreOK
<1>6. ASSUME phase = "up", NEW c \in Clients, ProfileUpdate(c) \/ ProfileUpdateEnabled(c)
      PROVE  UserInv' /\ PermsStay
  <2>1. TypeOK' /\ PermsStay
    BY <1>1, <1>6, ProfileUpdateTypes
  <2>2. phase' = phase
    BY <1>6 DEF ProfileUpdate, UpdateUser, ProfileUpdateEnabled, Update, SetEnabled, Change, Commit, Refuse
  <2> QED BY <1>6, <2>1, <2>2 DEF UserInv
<1>7. CASE UNCHANGED vars
  BY <1>7 DEF vars, UserInv, TypeOK, PermsStay
<1> QED BY <1>2, <1>3, <1>4, <1>5, <1>6, <1>7 DEF Next

\* Whatever the front ends pass on, the rows of the map and of the file are
\* rows of the model, and a profile update remembers a call it can still make.
THEOREM TypeCorrect == Spec => []TypeOK
<1>1. UserInv => TypeOK
  BY DEF UserInv
<1> QED BY <1>1, InitTypes, NextTypes, PTL DEF Spec

\* AddPermission's look at the list keeps it free of repetitions, and so do
\* the loop of RemovePermission, the updates, the seed and a boot.
THEOREM PermissionsStay == Spec => PermissionsStayDistinct
<1>1. UserInv /\ [Next]_vars => [PermsStay]_vars
  BY NextTypes
<1> QED BY <1>1, InitTypes, NextTypes, PTL DEF Spec, PermissionsStayDistinct, PermsStay
-----------------------------------------------------------------------------
(* The two calls of a profile update.                                       *)

\* While the second call is pending the user differs from what is due in
\* enabled at most, and the call is about the user that the first one was.
DueInv(c) ==
    /\ target[c] = NoUser => half[c] = Nothing /\ due[c] = Nothing
    /\ half[c] # Nothing => half[c].id = target[c]
    /\ target[c] # NoUser =>
          IF target[c] \notin DOMAIN users THEN due[c] = Nothing
          ELSE /\ due[c] \in Rows
               /\ due[c] = [users[target[c]] EXCEPT !.enabled = due[c].enabled]
               /\ half[c] = Nothing => due[c] = users[target[c]]

UpdatesTypes == /\ target \in [Clients -> Ids \cup {NoUser}]
                /\ updated \in [Clients -> Rows \cup {Nothing}]
                /\ due \in [Clients -> Rows \cup {Nothing}]
                /\ phase # "up" => \A c \in Clients : target[c] = NoUser

UpdatesInv == UserInv /\ UpdatesTypes /\ \A c \in Clients : DueInv(c)

\* The marker of an absent row is not a row.
LEMMA NothingIsNoRow == Nothing \notin Rows
BY DEF Nothing, Rows

\* A step of a request or of the server is one that UserStore knows.
LEMMA UpdatesStepIsStep == UpdatesInv /\ [UpdatesNext]_allVars => [Next]_vars
BY DEF UpdatesNext, FirstCall, SecondCall, Answer, ProfileUpdate, Next, allVars

\* The step of somebody else brings what is due up to date with the user.
LEMMA WatchedFollows ==
  ASSUME UpdatesInv, UserInv', NEW c \in Clients, target'[c] = target[c], half'[c] = half[c],
         due'[c] = Watched(c), target[c] \in DOMAIN users' => target[c] \in DOMAIN users
  PROVE  DueInv(c)' /\ due'[c] \in Rows \cup {Nothing}
<1> DEFINE id == target[c]
<1>1. CASE due[c] = Nothing \/ id \notin DOMAIN users'
  <2>1. due'[c] = Nothing
    BY <1>1 DEF Watched
  <2>2. id # NoUser => id \notin DOMAIN users'
    BY <1>1, NothingIsNoRow DEF UpdatesInv, DueInv
  <2> QED BY <2>1, <2>2 DEF UpdatesInv, DueInv
<1>2. CASE due[c] # Nothing /\ id \in DOMAIN users'
  <2> DEFINE old == users[id]
             new == users'[id]
             now == due'[c]
  <2>1. id # NoUser /\ id \in DOMAIN users
    BY <1>2 DEF UpdatesInv, DueInv
  <2>2. old \in Rows /\ new \in Rows
    BY <1>2, <2>1 DEF UpdatesInv, UserInv, TypeOK, IsUserTable
  <2>3. /\ due[c] \in Rows /\ due[c] = [old EXCEPT !.enabled = due[c].enabled]
        /\ half[c] = Nothing => due[c] = old
    BY <2>1 DEF UpdatesInv, DueInv
  <2>4. now = Since(due[c], old, new)
    BY <1>2 DEF Watched
  <2>5. DOMAIN due[c] = DOMAIN new /\ DOMAIN now = DOMAIN new
    BY <2>2, <2>3, <2>4 DEF Rows, Since
  <2>6. \A f \in DOMAIN new : now[f] = IF new[f] = old[f] THEN due[c][f] ELSE new[f]
    BY <2>4, <2>5 DEF Since
  <2>7. \A f \in DOMAIN new \ {"enabled"} : due[c][f] = old[f]
    BY <2>2, <2>3 DEF Rows
  <2> HIDE DEF old, new, now
  <2>8. \A f \in DOMAIN new \ {"enabled"} : now[f] = new[f]
    BY <2>6, <2>7
  <2>9. now = Since(due[c], old, new) /\ now.enabled \in BOOLEAN
    BY <2>2, <2>3, <2>4, <2>5, <2>6 DEF Rows
  <2>10. now = [new EXCEPT !.enabled = now.enabled]
    BY <2>2, <2>4, <2>5, <2>8 DEF Rows, Since
  <2>11. now \in Rows
    BY <2>2, <2>9, <2>10 DEF Rows
  <2>12. half[c] = Nothing => now = new
    BY <2>2, <2>3, <2>4, <2>5, <2>6 DEF Rows, Since
  <2>13. half[c] # Nothing => half[c].id = id
    BY DEF UpdatesInv, DueInv
  <2> QED BY <1>2, <2>1, <2>10, <2>11, <2>12, <2>13 DEF DueInv, new, now
<1> QED BY <1>1, <1>2

\* The property of a step that UpdatesInv implies.
Outcomes == \A c \in Clients : ~Complete(c) /\ Complete(c)' => updated'[c] = due'[c]

\* What is due after a first call differs from that in enabled at most.
LEMMA FirstCallDue ==
  ASSUME UpdatesInv, UserInv', NEW c \in Clients, NEW id \in Ids, NEW u \in Bodies,
         NEW present \in BOOLEAN, target[c] = NoUser, UpdateUser(c, id, u, present),
         outcome' = "ok", target'[c] = id, updated'[c] = Returned(id),
         due'[c] = Meant(users[id], u, present)
  PROVE  /\ DueInv(c)' /\ due'[c] \in Rows /\ updated'[c] \in Rows
         /\ half'[c] = Nothing => updated'[c] = due'[c]
<1>1. u.enabled \in BOOLEAN
  BY DEF Bodies
<1>2. /\ id \in DOMAIN users /\ DOMAIN users' = DOMAIN users
      /\ users'[id] = [users[id] EXCEPT
            !.username = IF u.username = NoName THEN @ ELSE u.username,
            !.manager  = IF u.manager = NoManager THEN @ ELSE u.manager,
            !.attrs    = @ \cup u.attrs]
  BY DEF UpdateUser, Update, Change, Commit, Refuse
<1>3. users[id] \in Rows /\ users'[id] \in Rows
  BY <1>2 DEF UpdatesInv, UserInv, TypeOK, IsUserTable
<1>4. due'[c] = [users'[id] EXCEPT !.enabled = IF present THEN u.enabled ELSE @]
  BY <1>2, <1>3 DEF Meant, Rows
<1>5. due'[c] \in Rows /\ due'[c] = [users'[id] EXCEPT !.enabled = due'[c].enabled]
  BY <1>1, <1>3, <1>4 DEF Rows
<1>6. ~present => due'[c] = users'[id]
  BY <1>3, <1>4 DEF Rows
<1>7. /\ half[c] = Nothing /\ half \in [Clients -> {Nothing} \cup [call : {"SetEnabled"}, id : Ids, enabled : BOOLEAN]]
      /\ half'[c] = IF present THEN [call |-> "SetEnabled", id |-> id, enabled |-> u.enabled]
                    ELSE Nothing
  BY DEF UpdateUser, UpdatesInv, UserInv, TypeOK
<1>8. /\ half'[c] = Nothing => ~present
      /\ half'[c] # Nothing => half'[c].id = id
  BY <1>7 DEF Nothing
<1>9. updated'[c] = users'[id]
  BY <1>2 DEF Returned
<1> QED BY <1>2, <1>3, <1>5, <1>6, <1>8, <1>9, NoUserIsNoId DEF DueInv

\* The second call leaves the user as it is due.
LEMMA SecondCallDue ==
  ASSUME UpdatesInv, UserInv', NEW c \in Clients, SecondCall(c)
  PROVE  /\ DueInv(c)' /\ due'[c] \in Rows \cup {Nothing}
         /\ updated'[c] \in Rows \cup {Nothing} /\ updated'[c] = due'[c]
<1> DEFINE id == target[c]
           b == half[c].enabled
<1>1. /\ half[c] # Nothing /\ half[c].id = id /\ id # NoUser /\ b \in BOOLEAN
      /\ half' = [half EXCEPT ![c] = Nothing] /\ c \in DOMAIN half /\ c \in DOMAIN updated
      /\ target' = target /\ SetEnabled(id, b)
  <2>1. half[c] # Nothing /\ SetEnabled(half[c].id, b) /\ half' = [half EXCEPT ![c] = Nothing]
    BY DEF SecondCall, ProfileUpdateEnabled
  <2>2. half \in [Clients -> {Nothing} \cup [call : {"SetEnabled"}, id : Ids, enabled : BOOLEAN]]
    BY DEF UpdatesInv, UserInv, TypeOK
  <2>3. half[c].id = id /\ id # NoUser /\ updated \in [Clients -> Rows \cup {Nothing}]
    BY <2>1 DEF UpdatesInv, DueInv, UpdatesTypes
  <2> QED BY <2>1, <2>2, <2>3 DEF SecondCall
<1>2. /\ half'[c] = Nothing /\ updated'[c] = Returned(id)
      /\ due'[c] = IF due[c] = Nothing THEN Nothing ELSE [due[c] EXCEPT !.enabled = b]
  BY <1>1 DEF SecondCall, DueEnabled
<1>3. CASE id \notin DOMAIN users
  <2>1. users' = users
    BY <1>1, <1>3 DEF SetEnabled, Change, Refuse
  <2> QED BY <1>1, <1>2, <1>3, <2>1 DEF UpdatesInv, DueInv, Returned
<1>4. CASE id \in DOMAIN users
  <2>1. users' = [users EXCEPT ![id] = [users[id] EXCEPT !.enabled = b]]
    BY <1>1, <1>4 DEF SetEnabled, Change, Commit
  <2>2. due[c] \in Rows /\ due[c] = [users[id] EXCEPT !.enabled = due[c].enabled]
    BY <1>1, <1>4 DEF UpdatesInv, DueInv
  <2>3. users[id] \in Rows /\ due[c] # Nothing
    BY <1>4, <2>2, NothingIsNoRow DEF UpdatesInv, UserInv, TypeOK, IsUserTable
  <2>4. due'[c] = [users[id] EXCEPT !.enabled = b]
    BY <1>2, <2>2, <2>3 DEF Rows
  <2>5. id \in DOMAIN users' /\ users'[id] = due'[c] /\ due'[c] \in Rows
    BY <1>1, <1>4, <2>1, <2>3, <2>4 DEF Rows
  <2>6. due'[c] = [users'[id] EXCEPT !.enabled = due'[c].enabled]
    BY <2>5 DEF Rows
  <2> QED BY <1>1, <1>2, <2>5, <2>6 DEF DueInv, Returned
<1> QED BY <1>3, <1>4
\* A step of somebody else leaves an update's own progress alone.
LEMMA OthersDue ==
  ASSUME UpdatesInv, UserInv', Watch, half' = half, phase' = "up" \/ target' = [c \in Clients |-> NoUser]
  PROVE  UpdatesInv' /\ Outcomes
<1>1. target' = target /\ updated' = updated /\ due' = [c \in Clients |-> Watched(c)]
  BY DEF Watch
<1>2. ASSUME NEW c \in Clients PROVE DueInv(c)' /\ due'[c] \in Rows \cup {Nothing}
  <2>1. due'[c] = Watched(c)
    BY <1>1
  <2>2. target[c] \in DOMAIN users' => target[c] \in DOMAIN users
    BY DEF Watch, FreshIds
  <2> QED BY <1>1, <2>1, <2>2, WatchedFollows
<1>3. due' \in [Clients -> Rows \cup {Nothing}]
  BY <1>1, <1>2
<1>4. UpdatesTypes'
  BY <1>1, <1>3 DEF UpdatesInv, UpdatesTypes
<1>5. Outcomes
  BY <1>1 DEF Outcomes, Complete
<1> QED BY <1>2, <1>4, <1>5 DEF UpdatesInv

\* A first call that works begins an update, and one that fails changes nothing.
LEMMA FirstCallKeeps ==
  ASSUME UpdatesInv, UserInv', phase = "up", NEW c \in Clients, FirstCall(c)
  PROVE  UpdatesInv' /\ Outcomes
<1>1. PICK id \in Ids, u \in Bodies, present \in BOOLEAN :
         /\ target[c] = NoUser
         /\ UpdateUser(c, id, u, present)
         /\ IF outcome' = "ok"
            THEN /\ target' = [target EXCEPT ![c] = id]
                 /\ updated' = [updated EXCEPT ![c] = Returned(id)]
                 /\ due' = [d \in Clients |-> IF d = c THEN Meant(users[id], u, present) ELSE Watched(d)]
            ELSE UNCHANGED updateVars
  BY DEF FirstCall
<1>2. phase' = "up"
  BY <1>1 DEF UpdateUser, Update, Change, Commit, Refuse
<1>3. \A d \in Clients \ {c} : half'[d] = half[d]
  BY <1>1 DEF UpdateUser, UpdatesInv, UserInv, TypeOK
<1>4. /\ target \in [Clients -> Ids \cup {NoUser}] /\ due \in [Clients -> Rows \cup {Nothing}]
      /\ updated \in [Clients -> Rows \cup {Nothing}]
  BY DEF UpdatesInv, UpdatesTypes
<1>5. CASE outcome' # "ok"
  <2>1. users' = users /\ half' = half
    BY <1>1, <1>5 DEF UpdateUser, Update, Change, Commit, Refuse
  <2>2. target' = target /\ updated' = updated /\ due' = due
    BY <1>1, <1>5 DEF updateVars
  <2>3. \A d \in Clients : DueInv(d)'
    BY <2>1, <2>2 DEF UpdatesInv, DueInv
  <2> QED BY <1>2, <1>4, <2>1, <2>2, <2>3 DEF UpdatesInv, UpdatesTypes, Outcomes, Complete
<1>6. CASE outcome' = "ok"
  <2>1. /\ target' = [target EXCEPT ![c] = id]
        /\ updated' = [updated EXCEPT ![c] = Returned(id)]
        /\ due' = [d \in Clients |-> IF d = c THEN Meant(users[id], u, present) ELSE Watched(d)]
    BY <1>1, <1>6
  <2>2. target'[c] = id /\ updated'[c] = Returned(id) /\ due'[c] = Meant(users[id], u, present)
    BY <1>4, <2>1
  <2>3. /\ DueInv(c)' /\ due'[c] \in Rows /\ updated'[c] \in Rows
        /\ half'[c] = Nothing => updated'[c] = due'[c]
    BY <1>1, <1>6, <2>2, FirstCallDue
  <2>4. DOMAIN users' = DOMAIN users
    BY <1>1, <1>6 DEF UpdateUser, Update, Change, Commit, Refuse
  <2>5. ASSUME NEW d \in Clients \ {c} PROVE DueInv(d)' /\ due'[d] \in Rows \cup {Nothing}
    <3>1. target'[d] = target[d] /\ due'[d] = Watched(d) /\ half'[d] = half[d]
      BY <1>3, <1>4, <2>1
    <3> QED BY <2>4, <3>1, WatchedFollows
  <2>6. \A d \in Clients : DueInv(d)' /\ due'[d] \in Rows \cup {Nothing}
    BY <2>3, <2>5
  <2>7. UpdatesTypes'
    BY <1>2, <1>4, <2>1, <2>2, <2>3, <2>6 DEF UpdatesTypes
  <2>8. Outcomes
    BY <1>3, <1>4, <2>1, <2>3 DEF Outcomes, Complete
  <2> QED BY <2>6, <2>7, <2>8 DEF UpdatesInv
<1> QED BY <1>5, <1>6

\* The second call completes one update and is watched by the others.
LEMMA SecondCallKeeps ==
  ASSUME UpdatesInv, UserInv', phase = "up", NEW c \in Clients, SecondCall(c)
  PROVE  UpdatesInv' /\ Outcomes
<1>1. /\ target' = target /\ half' = [half EXCEPT ![c] = Nothing]
      /\ updated' = [updated EXCEPT ![c] = Returned(target[c])]
      /\ due' = [d \in Clients |->
                   IF d # c THEN Watched(d)
                   ELSE IF due[c] = Nothing THEN Nothing
                   ELSE [due[c] EXCEPT !.enabled = half[c].enabled]]
  BY DEF SecondCall, ProfileUpdateEnabled, DueEnabled
<1>2. phase' = "up" /\ DOMAIN users' = DOMAIN users
  BY DEF SecondCall, ProfileUpdateEnabled, SetEnabled, Change, Commit, Refuse
<1>3. \A d \in Clients \ {c} : half'[d] = half[d]
  BY <1>1 DEF UpdatesInv, UserInv, TypeOK
<1>4. /\ target \in [Clients -> Ids \cup {NoUser}] /\ due \in [Clients -> Rows \cup {Nothing}]
      /\ updated \in [Clients -> Rows \cup {Nothing}]
  BY DEF UpdatesInv, UpdatesTypes
<1>5. /\ DueInv(c)' /\ due'[c] \in Rows \cup {Nothing}
      /\ updated'[c] \in Rows \cup {Nothing} /\ updated'[c] = due'[c]
  BY SecondCallDue
<1>6. ASSUME NEW d \in Clients \ {c} PROVE DueInv(d)' /\ due'[d] \in Rows \cup {Nothing}
  <2>1. target'[d] = target[d] /\ due'[d] = Watched(d) /\ half'[d] = half[d]
    BY <1>1, <1>3
  <2> QED BY <1>2, <2>1, WatchedFollows
<1>7. \A d \in Clients : DueInv(d)' /\ due'[d] \in Rows \cup {Nothing}
  BY <1>5, <1>6
<1>8. UpdatesTypes'
  <2>1. due' \in [Clients -> Rows \cup {Nothing}]
    BY <1>1, <1>7
  <2>2. updated' \in [Clients -> Rows \cup {Nothing}]
    BY <1>1, <1>4, <1>5
  <2> QED BY <1>1, <1>2, <1>4, <2>1, <2>2 DEF UpdatesTypes
<1>9. Outcomes
  BY <1>1, <1>3, <1>5 DEF Outcomes, Complete
<1> QED BY <1>7, <1>8, <1>9 DEF UpdatesInv

\* An answer ends an update.
LEMMA AnswerKeeps ==
  ASSUME UpdatesInv, UserInv', NEW c \in Clients, Answer(c)
  PROVE  UpdatesInv' /\ Outcomes
<1>1. /\ half[c] = Nothing /\ target' = [target EXCEPT ![c] = NoUser]
      /\ updated' = [updated EXCEPT ![c] = Nothing] /\ due' = [due EXCEPT ![c] = Nothing]
      /\ users' = users /\ half' = half /\ phase' = phase
  BY DEF Answer, vars
<1>2. /\ target \in [Clients -> Ids \cup {NoUser}] /\ due \in [Clients -> Rows \cup {Nothing}]
      /\ updated \in [Clients -> Rows \cup {Nothing}]
  BY DEF UpdatesInv, UpdatesTypes
<1>3. target'[c] = NoUser /\ due'[c] = Nothing /\ half'[c] = Nothing
  BY <1>1, <1>2
<1>4. \A d \in Clients \ {c} : /\ target'[d] = target[d] /\ due'[d] = due[d]
                               /\ updated'[d] = updated[d] /\ half'[d] = half[d]
  BY <1>1, <1>2
<1>5. \A d \in Clients : DueInv(d)'
  BY <1>1, <1>3, <1>4 DEF UpdatesInv, DueInv
<1>6. UpdatesTypes'
  BY <1>1, <1>2 DEF UpdatesInv, UpdatesTypes
<1>7. Outcomes
  BY <1>3, <1>4 DEF Outcomes, Complete
<1> QED BY <1>5, <1>6, <1>7 DEF UpdatesInv

\* UpdatesInv is inductive, and its steps end updates with what is due.
LEMMA UpdatesNextKeeps ==
  ASSUME UpdatesInv, [UpdatesNext]_allVars
  PROVE  UpdatesInv' /\ Outcomes
<1>1. UserInv /\ UserInv'
  BY UpdatesStepIsStep, NextTypes DEF UpdatesInv
<1>2. CASE Crash /\ Forget
  <2>1. half' = [c \in Clients |-> Nothing] /\ target' = [c \in Clients |-> NoUser]
        /\ due' = [c \in Clients |-> Nothing] /\ updated' = [c \in Clients |-> Nothing]
    BY <1>2 DEF Crash, Forget
  <2> QED BY <1>1, <2>1 DEF UpdatesInv, UpdatesTypes, DueInv, Outcomes, Complete
<1>3. CASE (Boot \/ Seed) /\ Watch
  <2>1. half' = half /\ phase # "up" /\ target' = target
    BY <1>3 DEF Boot, Seed, Watch
  <2>2. target' = [c \in Clients |-> NoUser]
    BY <2>1 DEF UpdatesInv, UpdatesTypes
  <2> QED BY <1>1, <1>3, <2>1, <2>2, OthersDue
<1>4. CASE phase = "up" /\ OneCall /\ UNCHANGED half /\ Watch
  BY <1>1, <1>4, OneCallPhase, OthersDue
<1>5. CASE UNCHANGED allVars
  BY <1>1, <1>5 DEF allVars, vars, updateVars, UpdatesInv, UpdatesTypes, DueInv, Outcomes, Complete
<1> QED BY <1>1, <1>2, <1>3, <1>4, <1>5, FirstCallKeeps, SecondCallKeeps, AnswerKeeps DEF UpdatesNext

\* A server that has not booted has no updates under way.
LEMMA InitUpdates == UpdatesInit => UpdatesInv
BY InitTypes DEF UpdatesInit, Init, UpdatesInv, UpdatesTypes, DueInv

\* actUpdateUser's two calls add up to what the body asked for, and lose
\* nothing that the other front ends change between them.
THEOREM UpdatesLoseNothing == UpdatesSpec => []UpdatesAddUp
<1>1. UpdatesInv => UpdatesAddUp
  BY DEF UpdatesInv, DueInv, UpdatesAddUp, Complete
<1> QED BY <1>1, InitUpdates, UpdatesNextKeeps, PTL DEF UpdatesSpec

\* What actUpdateUser answers is what its last call has left.
THEOREM UpdatesAnswerOutcome == UpdatesSpec => AnswersShowOutcome
<1>1. UpdatesInv /\ [UpdatesNext]_allVars => [Outcomes]_allVars
  BY UpdatesNextKeeps
<1> QED BY <1>1, InitUpdates, UpdatesNextKeeps, PTL DEF UpdatesSpec, AnswersShowOutcome, Outcomes
=============================================================================
