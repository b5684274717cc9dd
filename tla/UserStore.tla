----------------------------- MODULE UserStore ------------------------------
(***************************************************************************)
(* The users of the server, every operation of Store (store.go) on them    *)
(* and the four front ends that reach those operations: REST               *)
(* (handlers.go), SOAP (soap.go), and the REST and SOAP routes of a        *)
(* profile (handlers_profile.go).                                          *)
(*                                                                         *)
(* An operation is one step, from the lookup to the save: StoreProtocol    *)
(* shows that the lock and the save make it so.  What is not one step here *)
(* is what is not one step in the code: a profile update makes two calls   *)
(* to the store, and anything may happen between them.                     *)
(*                                                                         *)
(* Email, FirstName and LastName are left out: like the username they      *)
(* change only when the patch gives a value, and nothing depends on them.  *)
(***************************************************************************)
EXTENDS UserTable, Integers, Sequences, SequencesExt

CONSTANTS NoName,        \* the empty username, one of Names
          Permissions,   \* the permissions a request can name
          NoPermission,  \* the empty permission, one of Permissions
          BodyPerms,     \* the permission lists a create request can carry
          Managers,      \* the manager values a request can carry
          NoManager,     \* the empty manager
          AttrKeys,      \* attribute keys
          CustomFields,  \* those the configuration gives every new user
          Clients,       \* the connections that make profile updates
          SeedData,      \* TRUE: seed_data is set
          SavesFail      \* TRUE: a save may fail

ASSUME UserData == /\ NoName \in Names /\ NoName \notin SeedNames
                   /\ CustomFields \subseteq AttrKeys
                   /\ NoPermission \in Permissions
                   /\ NoManager \notin Managers
                   /\ BodyPerms \subseteq Seq(Permissions)
                   /\ SavesFail \in BOOLEAN

VARIABLES phase,   \* "down", "seeding" or "up"
          users,   \* Store.users
          disk,    \* the users in users.json
          half,    \* the second call each profile update still has to make
          outcome  \* how the last call of the store ended

vars == <<phase, users, disk, half, outcome>>

\* Attributes are the set of keys the map holds; origin is history.
Rows == [username : Names, enabled : BOOLEAN, manager : Managers \cup {NoManager},
         perms : Seq(Permissions), attrs : SUBSET AttrKeys, origin : {"seed", "request"}]

IsUserTable(t) == DOMAIN t \subseteq Ids /\ t \in [DOMAIN t -> Rows]

Nothing == [call |-> "none"]

TypeOK == /\ phase \in {"down", "seeding", "up"}
          /\ IsUserTable(users)
          /\ IsUserTable(disk)
          /\ half \in [Clients -> {Nothing} \cup [call : {"SetEnabled"}, id : Ids, enabled : BOOLEAN]]
          /\ outcome \in {"none", "ok", "exists", "missing", "invalid"}

NoUsers == [i \in {} |-> Nothing]

Init == /\ phase = "down"
        /\ users = NoUsers
        /\ disk = NoUsers
        /\ half = [c \in Clients |-> Nothing]
        /\ outcome = "none"

Usernames == {users[i].username : i \in DOMAIN users}

\* The change is in the map; a save that fails leaves the file as it was.
Commit(t) == /\ users' = t
             /\ disk' = t \/ (SavesFail /\ disk' = disk)
             /\ outcome' = "ok"
             /\ UNCHANGED phase

Refuse(why) == outcome' = why /\ UNCHANGED <<phase, users, disk>>

(***************************************************************************)
(* Store.                                                                  *)
(***************************************************************************)
\* The row at id becomes row, when there is one.
Change(id, row) == IF id \in DOMAIN users
                   THEN Commit([users EXCEPT ![id] = row])
                   ELSE Refuse("missing")

Create(u) == IF u.username \in Usernames
             THEN Refuse("exists")
             ELSE \E id \in Ids \ DOMAIN users :
                     Commit(Put(users, id, [username |-> u.username, enabled |-> u.enabled,
                                            manager |-> u.manager, perms |-> u.perms,
                                            attrs |-> CustomFields \cup u.attrs,
                                            origin |-> "request"]))

\* Mutant: a rename does not look for the username.
TakenByOther_Unchecked(id, name) == FALSE

TakenByOther(id, name) == \E i \in DOMAIN users \ {id} : users[i].username = name

\* Mutant: the attributes of the patch replace those of the user.
Update_ReplaceAttrs(id, patch) ==
    IF id \in DOMAIN users /\ patch.username # NoName
       /\ patch.username # users[id].username /\ TakenByOther(id, patch.username)
    THEN Refuse("exists")
    ELSE Change(id, [users[id] EXCEPT
            !.username = IF patch.username = NoName THEN @ ELSE patch.username,
            !.manager  = IF patch.manager = NoManager THEN @ ELSE patch.manager,
            !.attrs    = patch.attrs])

\* An empty username or manager in the patch keeps the value; Enabled and
\* Permissions in the patch are ignored; attributes are merged.
Update(id, patch) ==
    IF id \in DOMAIN users /\ patch.username # NoName
       /\ patch.username # users[id].username /\ TakenByOther(id, patch.username)
    THEN Refuse("exists")
    ELSE Change(id, [users[id] EXCEPT
            !.username = IF patch.username = NoName THEN @ ELSE patch.username,
            !.manager  = IF patch.manager = NoManager THEN @ ELSE patch.manager,
            !.attrs    = @ \cup patch.attrs])

SetEnabled(id, b) == Change(id, [users[id] EXCEPT !.enabled = b])

SetManager(id, m) == Change(id, [users[id] EXCEPT !.manager = m])

\* Mutant: the entry of the user is set to nil and not deleted.
Delete_Tombstone(id) == Change(id, Nothing)

Delete(id) == IF id \in DOMAIN users THEN Commit(Drop(users, id)) ELSE Refuse("missing")

\* Mutant: AddPermission does not look whether the permission is there.
AddPermission_Append(id, p) == Change(id, [users[id] EXCEPT !.perms = Append(@, p)])

\* A permission that is there already is answered without a save.
AddPermission(id, p) ==
    IF id \in DOMAIN users /\ Contains(users[id].perms, p)
    THEN outcome' = "ok" /\ UNCHANGED <<phase, users, disk>>
    ELSE Change(id, [users[id] EXCEPT !.perms = Append(@, p)])

\* The loop of RemovePermission: kept[k] is what it has kept of the first k.
Without(s, p) ==
    LET kept[k \in 0..Len(s)] ==
            IF k = 0 THEN <<>>
            ELSE IF s[k] = p THEN kept[k - 1] ELSE Append(kept[k - 1], s[k])
    IN  kept[Len(s)]

RemovePermission(id, p) == Change(id, [users[id] EXCEPT !.perms = Without(@, p)])

(***************************************************************************)
(* Boot and crash.                                                         *)
(***************************************************************************)
Boot == /\ phase = "down"
        /\ users' = disk
        /\ phase' = IF SeedData THEN "seeding" ELSE "up"
        /\ UNCHANGED <<disk, half, outcome>>

\* The demo users have permissions and no attributes.
SeedRows == {[i \in DOMAIN t |-> [username |-> t[i], enabled |-> TRUE, manager |-> NoManager,
                                  perms |-> <<>>, attrs |-> {}, origin |-> "seed"]] : t \in SeedTables}

\* Mutant: the demo users are added to those that are there.
Seed_Always == /\ phase = "seeding"
               /\ phase' = "up"
               /\ \E t \in SeedRows : users' = t /\ disk' = t
               /\ UNCHANGED <<half, outcome>>

Seed == /\ phase = "seeding"
        /\ phase' = "up"
        /\ IF DOMAIN users # {}
           THEN UNCHANGED <<users, disk>>
           ELSE \E t \in SeedRows : /\ users' = t
                                    /\ disk' = t \/ (SavesFail /\ disk' = disk)
        /\ UNCHANGED <<half, outcome>>

Crash == /\ phase # "down"
         /\ phase' = "down"
         /\ users' = NoUsers
         /\ half' = [c \in Clients |-> Nothing]
         /\ outcome' = "none"
         /\ UNCHANGED disk

(***************************************************************************)
(* The front ends.  Bound: a create finds a free id.                       *)
(***************************************************************************)
Bodies == [username : Names, enabled : BOOLEAN, manager : Managers \cup {NoManager},
           perms : BodyPerms, attrs : SUBSET AttrKeys]

CanCreate(name) == name \in Usernames \/ DOMAIN users # Ids

CreateNamed(u) == IF u.username = NoName THEN Refuse("invalid") ELSE Create(u)

\* handlers.go: a create needs a username, a grant a permission.
RestPermissionRequest ==
    \/ \E id \in Ids, p \in Permissions :
          IF p = NoPermission THEN Refuse("invalid") ELSE AddPermission(id, p)
    \/ \E id \in Ids, p \in Permissions \ {NoPermission} : RemovePermission(id, p)

RestRequest ==
    \/ \E u \in Bodies : CanCreate(u.username) /\ CreateNamed(u)
    \/ \E id \in Ids, u \in Bodies : Update(id, u)
    \/ \E id \in Ids : Delete(id)
    \/ \E id \in Ids, b \in BOOLEAN : SetEnabled(id, b)
    \/ RestPermissionRequest

\* soap.go: a body has no manager, permissions or attributes, and an Enabled
\* that an update leaves aside; the username and the permission may be empty.
SoapBody(name, b) == [username |-> name, enabled |-> b, manager |-> NoManager,
                      perms |-> <<>>, attrs |-> {}]

SoapUpdate(id, name, b) == Update(id, SoapBody(name, b))

SoapRequest ==
    \/ \E n \in Names, b \in BOOLEAN : CanCreate(n) /\ Create(SoapBody(n, b))
    \/ \E id \in Ids, n \in Names, b \in BOOLEAN : SoapUpdate(id, n, b)
    \/ \E id \in Ids : Delete(id)
    \/ \E id \in Ids, b \in BOOLEAN : SetEnabled(id, b)
    \/ \E id \in Ids, p \in Permissions : AddPermission(id, p) \/ RemovePermission(id, p)

\* handlers_profile.go, the routes that make one call of the store.
ProfileCreate == \E u \in Bodies : CanCreate(u.username) /\ CreateNamed(u)

ProfileDeleteEnableDisable == \/ \E id \in Ids : Delete(id)
                              \/ \E id \in Ids, b \in BOOLEAN : SetEnabled(id, b)

\* A group is a permission; the part of an id that a route extracts may be empty.
ProfileLinkUnlink == \E id \in Ids, p \in Permissions :
    AddPermission(id, p) \/ RemovePermission(id, p)

\* A route with another target field than manager is refused.
ProfileSetField == \/ \E id \in Ids, m \in Managers \cup {NoManager} : SetManager(id, m)
                   \/ Refuse("invalid")

ProfileRequest == \/ ProfileCreate
                  \/ ProfileDeleteEnableDisable
                  \/ ProfileLinkUnlink
                  \/ ProfileSetField

\* actUpdateUser: the update and, when the body has the field that the route
\* maps to enabled, a second call that sets it.
UpdateUser(c, id, u, present) ==
    /\ half[c] = Nothing
    /\ Update(id, u)
    /\ half' = IF outcome' = "ok" /\ present
               THEN [half EXCEPT ![c] = [call |-> "SetEnabled", id |-> id,
                                         enabled |-> u.enabled]]
               ELSE half

ProfileUpdate(c) == \E id \in Ids, u \in Bodies, present \in BOOLEAN :
    UpdateUser(c, id, u, present)

ProfileUpdateEnabled(c) ==
    /\ half[c] # Nothing
    /\ SetEnabled(half[c].id, half[c].enabled)
    /\ half' = [half EXCEPT ![c] = Nothing]

\* HandleSOAP: an element is a string, which neither a boolean field nor a
\* list of permissions decodes: such a body is refused.
ProfileSoapCreate(u) == ~u.enabled /\ u.perms = <<>> /\ Create(u)

ProfileSoapRequest ==
    \/ \E u \in Bodies : CanCreate(u.username) /\ ProfileSoapCreate(u)
    \/ \E id \in Ids, u \in Bodies : Update(id, u)
    \/ \E id \in Ids : Delete(id)
    \/ \E id \in Ids, b \in BOOLEAN : SetEnabled(id, b)
    \/ Refuse("invalid")

OneCall == RestRequest \/ SoapRequest \/ ProfileRequest \/ ProfileSoapRequest

Next == \/ Boot \/ Seed \/ Crash
        \/ phase = "up" /\ OneCall /\ UNCHANGED half
        \/ phase = "up" /\ \E c \in Clients : ProfileUpdate(c) \/ ProfileUpdateEnabled(c)

Spec == Init /\ [][Next]_vars

-----------------------------------------------------------------------------
(***************************************************************************)
(* Properties.                                                             *)
(***************************************************************************)
Distinct(t) == \A i, j \in DOMAIN t : t[i].username = t[j].username => i = j

\* No two users have one username, the empty one included, whichever front
\* ends created and renamed them, in the map and in the file a later boot
\* loads: also when the file missed some of the changes.
UniqueUsernames == Distinct(users) /\ Distinct(disk)

\* A user that a request created has every custom field, however often it
\* has been updated, and wherever it was loaded from.
CustomFieldsKept == \A t \in {users, disk} : \A i \in DOMAIN t :
    t[i].origin = "request" => CustomFields \subseteq t[i].attrs

\* A list of permissions without repetitions stays one.
PermissionsStayDistinct ==
    [][\A i \in DOMAIN users \cap DOMAIN users' :
          IsInjective(users[i].perms) => IsInjective(users'[i].perms)]_vars

\* Seen as a table of usernames, the store keeps DurableTable's promise.
NamesOf(t) == [i \in DOMAIN t |-> t[i].username]

Durable == INSTANCE DurableTable WITH table <- NamesOf(users), disk <- NamesOf(disk),
                                      alive <- phase # "down", LoadMayFail <- FALSE

ImplementsDurableTable == Durable!Spec
=============================================================================
