--------------------------- MODULE ProfileUpdates ---------------------------
(***************************************************************************)
(* An update of a user over a REST route of a profile (actUpdateUser) is   *)
(* one call of the store for the fields and a second one for enabled.  In  *)
(* between, other requests rename, change or delete the user, and the      *)
(* handler still has the copy that the first call returned.                *)
(***************************************************************************)
EXTENDS UserStore

CONSTANT NoUser   \* not an id

ASSUME NoUserIsNoId == NoUser \notin Ids

VARIABLES target,   \* the user that each client's update is about
          updated,  \* the handler's copy of the user, from its last call
          due       \* history: the user as the update, and the calls that
                    \* others have made since it began, should leave it

updateVars == <<target, updated, due>>
allVars == <<vars, updateVars>>

UpdatesInit == /\ Init
               /\ target = [c \in Clients |-> NoUser]
               /\ updated = [c \in Clients |-> Nothing]
               /\ due = [c \in Clients |-> Nothing]

\* What a body asks for: an empty value asks for nothing, and enabled is
\* asked for when it is there, FALSE as well as TRUE.
Meant(row, u, present) ==
    [row EXCEPT !.username = IF u.username = NoName THEN @ ELSE u.username,
                !.manager  = IF u.manager = NoManager THEN @ ELSE u.manager,
                !.attrs    = @ \cup u.attrs,
                !.enabled  = IF present THEN u.enabled ELSE @]

\* row with the fields that a step from old to new has changed.
Since(row, old, new) == [f \in DOMAIN row |-> IF new[f] = old[f] THEN row[f] ELSE new[f]]

\* The due user of c after a step of somebody else.
Watched(c) == IF due[c] = Nothing \/ target[c] \notin DOMAIN users' THEN Nothing
              ELSE Since(due[c], users[target[c]], users'[target[c]])

\* What a call about id returns: a copy of the row, or an error.
Returned(id) == IF id \in DOMAIN users' THEN users'[id] ELSE Nothing

\* An error return of the first call ends the update.
FirstCall(c) == \E id \in Ids, u \in Bodies, present \in BOOLEAN :
    /\ target[c] = NoUser
    /\ UpdateUser(c, id, u, present)
    /\ IF outcome' = "ok"
       THEN /\ target' = [target EXCEPT ![c] = id]
            /\ updated' = [updated EXCEPT ![c] = Returned(id)]
            /\ due' = [d \in Clients |-> IF d = c THEN Meant(users[id], u, present) ELSE Watched(d)]
       ELSE UNCHANGED updateVars

\* The user due after the second call, which asks for enabled alone.
DueEnabled(c) ==
    due' = [d \in Clients |->
              IF d # c THEN Watched(d)
              ELSE IF due[c] = Nothing THEN Nothing
              ELSE [due[c] EXCEPT !.enabled = half[c].enabled]]

\* Mutant: the second call writes the handler's copy back.
SecondCall_WriteBack(c) ==
    /\ half[c] # Nothing
    /\ Change(target[c], [updated[c] EXCEPT !.enabled = half[c].enabled])
    /\ half' = [half EXCEPT ![c] = Nothing]
    /\ updated' = [updated EXCEPT ![c] = Returned(target[c])]
    /\ DueEnabled(c)
    /\ UNCHANGED target

\* Mutant: what the second call returns goes to a variable of its own (:=).
SecondCall_Shadowed(c) == /\ ProfileUpdateEnabled(c)
                          /\ DueEnabled(c)
                          /\ UNCHANGED <<target, updated>>

SecondCall(c) == /\ ProfileUpdateEnabled(c)
                 /\ updated' = [updated EXCEPT ![c] = Returned(target[c])]
                 /\ DueEnabled(c)
                 /\ UNCHANGED target

\* The answer is made from the handler's copy, or from the error.
Answer(c) == /\ target[c] # NoUser /\ half[c] = Nothing
             /\ target' = [target EXCEPT ![c] = NoUser]
             /\ updated' = [updated EXCEPT ![c] = Nothing]
             /\ due' = [due EXCEPT ![c] = Nothing]
             /\ UNCHANGED vars

\* The random id of a new user is not one that was deleted a moment ago.
FreshIds == \A c \in Clients : target[c] \in DOMAIN users' => target[c] \in DOMAIN users

\* A request of somebody else goes into what is due to every update under way.
Watch == /\ FreshIds
         /\ due' = [c \in Clients |-> Watched(c)]
         /\ UNCHANGED <<target, updated>>

\* The server dies, and the updates under way with it.
Forget == /\ target' = [c \in Clients |-> NoUser]
          /\ updated' = [c \in Clients |-> Nothing]
          /\ due' = [c \in Clients |-> Nothing]

UpdatesNext == \/ phase = "up" /\ \E c \in Clients : FirstCall(c) \/ SecondCall(c) \/ Answer(c)
               \/ Crash /\ Forget
               \/ (Boot \/ Seed \/ (phase = "up" /\ OneCall /\ UNCHANGED half)) /\ Watch

UpdatesSpec == UpdatesInit /\ [][UpdatesNext]_allVars

-----------------------------------------------------------------------------
(***************************************************************************)
(* Properties.                                                             *)
(***************************************************************************)
\* The calls of an update have all been made.
Complete(c) == target[c] # NoUser /\ half[c] = Nothing

\* The two calls of an update add up to what its body asked for, and take
\* back nothing that other requests changed between them, or after; a user
\* deleted in between stays deleted.
UpdatesAddUp == \A c \in Clients : Complete(c) =>
    IF target[c] \in DOMAIN users THEN due[c] = users[target[c]] ELSE due[c] = Nothing

\* The answer is made from the user as the last call left it, whichever of
\* the calls that was and whatever happened between them; the answer is an
\* error only when the user has been deleted.
AnswersShowOutcome ==
    [][\A c \in Clients : ~Complete(c) /\ Complete(c)' => updated'[c] = due'[c]]_allVars
=============================================================================
