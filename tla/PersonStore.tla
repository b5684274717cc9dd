---------------------------- MODULE PersonStore -----------------------------
(***************************************************************************)
(* Persons and their contracts: every operation of PersonStore             *)
(* (store_person.go) and the front ends that reach it, REST                *)
(* (handlers_person.go), SOAP (soap.go), and the REST and SOAP routes of a *)
(* profile (handlers_profile.go).  An operation is one step, lookup to the *)
(* save included, as StoreProtocol shows; the two maps are in one file.    *)
(*                                                                         *)
(* Of a person the phones are kept, which must not become null, and the    *)
(* keys of the attributes; of a contract its person, and the keys of its   *)
(* attributes.  The names that a front end asks for are in the requests.   *)
(***************************************************************************)
EXTENDS FiniteSets

CONSTANTS PersonIds, ContractIds,   \* the ids newID can draw
          AttrKeys,                 \* attribute keys
          PersonFields,             \* those a new person has
          ContractFields,           \* those a new contract has
          NoOne,                    \* the person of no contract
          SeedData,                 \* TRUE: seed_data is set
          SavesFail                 \* TRUE: a save may fail

ASSUME PersonData == /\ PersonFields \subseteq AttrKeys
                     /\ ContractFields \subseteq AttrKeys
                     /\ SavesFail \in BOOLEAN
                     /\ NoOne \notin PersonIds

VARIABLES phase,       \* "down", "seeding" or "up"
          persons,     \* PersonStore.persons
          contracts,   \* PersonStore.contracts
          disk,        \* the two maps in persons.json
          outcome      \* how the last call of the store ended

vars == <<phase, persons, contracts, disk, outcome>>

\* phones is "null" for a nil slice; origin is history.
PersonRows == [phones : {"null", "list"}, attrs : SUBSET AttrKeys,
               origin : {"file", "seed", "request"}]

ContractRows == [person : PersonIds, attrs : SUBSET AttrKeys, origin : {"file", "seed", "request"}]

IsPersonTable(t) == DOMAIN t \subseteq PersonIds /\ t \in [DOMAIN t -> PersonRows]

IsContractTable(t) == DOMAIN t \subseteq ContractIds /\ t \in [DOMAIN t -> ContractRows]

TypeOK == /\ phase \in {"down", "seeding", "up"}
          /\ IsPersonTable(persons) /\ IsContractTable(contracts)
          /\ DOMAIN disk = {"persons", "contracts"}
          /\ IsPersonTable(disk.persons) /\ IsContractTable(disk.contracts)
          /\ outcome \in {"none", "ok", "missing", "invalid"}

NoRows == [i \in {} |-> NoOne]

ContractsOf(t, p) == {c \in DOMAIN t : t[c].person = p}

\* The file to start from may hold a person that somebody wrote by hand.
HandWritten == {[i \in ps |-> [phones |-> ph, attrs |-> {}, origin |-> "file"]] :
                   ps \in SUBSET PersonIds, ph \in {"null", "list"}}

Init == /\ phase = "down"
        /\ persons = NoRows
        /\ contracts = NoRows
        /\ \E t \in HandWritten : disk = [persons |-> t, contracts |-> NoRows]
        /\ outcome = "none"

Put(t, id, row) == [i \in DOMAIN t \cup {id} |-> IF i = id THEN row ELSE t[i]]

Without(t, ids) == [i \in DOMAIN t \ ids |-> t[i]]

\* Both maps go into one file; a save that fails leaves it as it was.
Commit(ps, cs) == /\ persons' = ps
                  /\ contracts' = cs
                  /\ \/ disk' = [persons |-> ps, contracts |-> cs]
                     \/ SavesFail /\ disk' = disk
                  /\ outcome' = "ok"
                  /\ UNCHANGED phase

Refuse(why) == outcome' = why /\ UNCHANGED <<phase, persons, contracts, disk>>

(***************************************************************************)
(* PersonStore.                                                            *)
(***************************************************************************)
CreatePerson(p) ==
    \E id \in PersonIds \ DOMAIN persons :
       Commit(Put(persons, id, [phones |-> "list", origin |-> "request",
                                attrs |-> PersonFields \cup p.attrs]),
              contracts)

\* A null list of phones in the patch keeps the one that is there.
UpdatePerson(id, patch) ==
    IF id \notin DOMAIN persons
    THEN Refuse("missing")
    ELSE Commit([persons EXCEPT ![id].phones = IF patch.phones = "null" THEN @ ELSE patch.phones,
                                ![id].attrs = @ \cup patch.attrs],
                contracts)

\* Mutant: the contracts are not deleted with the person.
DeletePerson_NoCascade(id) ==
    IF id \notin DOMAIN persons
    THEN Refuse("missing")
    ELSE Commit(Without(persons, {id}), contracts)

\* The contracts of the person go with it.
DeletePerson(id) ==
    IF id \notin DOMAIN persons
    THEN Refuse("missing")
    ELSE Commit(Without(persons, {id}), Without(contracts, ContractsOf(contracts, id)))

CreateContract(person, attrs) ==
    IF person \notin DOMAIN persons
    THEN Refuse("missing")
    ELSE \E id \in ContractIds \ DOMAIN contracts :
            Commit(persons, Put(contracts, id, [person |-> person, origin |-> "request",
                                                attrs |-> ContractFields \cup attrs]))

\* A contract is found through its own person only.
Found(person, id) == /\ person \in DOMAIN persons
                     /\ id \in ContractsOf(contracts, person)

\* Mutant: the attributes of the patch replace those of the contract.
UpdateContract_ReplaceAttrs(person, id, attrs) ==
    IF ~Found(person, id)
    THEN Refuse("missing")
    ELSE Commit(persons, [contracts EXCEPT ![id].attrs = attrs])

UpdateContract(person, id, attrs) ==
    IF ~Found(person, id)
    THEN Refuse("missing")
    ELSE Commit(persons, [contracts EXCEPT ![id].attrs = @ \cup attrs])

\* Mutant: the entry of the contract is set to nil and not deleted.
DeleteContract_Tombstone(person, id) ==
    IF ~Found(person, id)
    THEN Refuse("missing")
    ELSE Commit(persons, Put(contracts, id, NoOne))

DeleteContract(person, id) ==
    IF ~Found(person, id)
    THEN Refuse("missing")
    ELSE Commit(persons, Without(contracts, {id}))

(***************************************************************************)
(* Boot and crash.                                                         *)
(***************************************************************************)
\* Mutant: a null list of phones in the file is taken over.
Boot_KeepNull == /\ phase = "down"
                 /\ persons' = disk.persons
                 /\ contracts' = disk.contracts
                 /\ phase' = IF SeedData THEN "seeding" ELSE "up"
                 /\ UNCHANGED <<disk, outcome>>

Boot == /\ phase = "down"
        /\ persons' = [i \in DOMAIN disk.persons |-> [disk.persons[i] EXCEPT !.phones = "list"]]
        /\ contracts' = disk.contracts
        /\ phase' = IF SeedData THEN "seeding" ELSE "up"
        /\ UNCHANGED <<disk, outcome>>

\* SeedPersons looks at the persons only.  Bound: one demo person with one
\* contract stands for the two with one and two.
Seed == /\ phase = "seeding"
        /\ phase' = "up"
        /\ IF DOMAIN persons # {}
           THEN UNCHANGED <<persons, contracts, disk>>
           ELSE \E p \in PersonIds, c \in ContractIds \ DOMAIN contracts :
                   /\ persons' = Put(persons, p, [phones |-> "list", attrs |-> {}, origin |-> "seed"])
                   /\ contracts' = Put(contracts, c, [person |-> p, attrs |-> {}, origin |-> "seed"])
                   /\ \/ disk' = [persons |-> persons', contracts |-> contracts']
                      \/ SavesFail /\ disk' = disk
        /\ UNCHANGED outcome

Crash == /\ phase # "down"
         /\ phase' = "down"
         /\ persons' = NoRows
         /\ contracts' = NoRows
         /\ outcome' = "none"
         /\ UNCHANGED disk

(***************************************************************************)
(* The front ends.  Bound: a create finds a free id.                       *)
(***************************************************************************)
Bodies == [named : BOOLEAN, phones : {"null", "list"}, attrs : SUBSET AttrKeys]

RoomForPerson == DOMAIN persons # PersonIds

RoomForContract == DOMAIN contracts # ContractIds

\* A person needs its two names, a contract its company, title and start date.
CreateNamed(p) == IF p.named THEN RoomForPerson /\ CreatePerson(p) ELSE Refuse("invalid")

CreateComplete(person, complete, attrs) ==
    IF complete THEN RoomForContract /\ CreateContract(person, attrs) ELSE Refuse("invalid")

\* handlers_person.go.
RestPersonRequest == \/ \E p \in Bodies : CreateNamed(p)
                     \/ \E id \in PersonIds, p \in Bodies : UpdatePerson(id, p)
                     \/ \E id \in PersonIds : DeletePerson(id)

RestContractRequest ==
    \E person \in PersonIds, attrs \in SUBSET AttrKeys :
       \/ \E complete \in BOOLEAN : CreateComplete(person, complete, attrs)
       \/ \E id \in ContractIds : UpdateContract(person, id, attrs) \/ DeleteContract(person, id)

\* soap.go: nothing is checked, and a body has no attributes.
SoapRequest ==
    \/ \E p \in Bodies : p.attrs = {} /\ RoomForPerson /\ CreatePerson(p)
    \/ \E id \in PersonIds, p \in Bodies : p.attrs = {} /\ UpdatePerson(id, p)
    \/ \E id \in PersonIds : DeletePerson(id)
    \/ \E person \in PersonIds : RoomForContract /\ CreateContract(person, {})
    \/ \E person \in PersonIds, id \in ContractIds :
          UpdateContract(person, id, {}) \/ DeleteContract(person, id)

\* handlers_profile.go, the routes of a profile: checked as in REST.
ProfileRequest ==
    \/ \E p \in Bodies : CreateNamed(p)
    \/ \E id \in PersonIds, p \in Bodies : UpdatePerson(id, p)
    \/ \E id \in PersonIds : DeletePerson(id)
    \/ \E person \in PersonIds, attrs \in SUBSET AttrKeys :
          \/ \E complete \in BOOLEAN : CreateComplete(person, complete, attrs)
          \/ \E id \in ContractIds :
                UpdateContract(person, id, attrs) \/ DeleteContract(person, id)

\* HandleSOAP: nothing is checked; an element is a string, which no list of
\* phones decodes, and such a body is refused.
ProfileSoapRequest ==
    \/ \E p \in Bodies : p.phones = "null" /\ RoomForPerson /\ CreatePerson(p)
    \/ \E id \in PersonIds, p \in Bodies : p.phones = "null" /\ UpdatePerson(id, p)
    \/ \E id \in PersonIds : DeletePerson(id)
    \/ \E person \in PersonIds, attrs \in SUBSET AttrKeys :
          \/ RoomForContract /\ CreateContract(person, attrs)
          \/ \E id \in ContractIds :
                UpdateContract(person, id, attrs) \/ DeleteContract(person, id)
    \/ Refuse("invalid")

OneCall == \/ RestPersonRequest \/ RestContractRequest \/ SoapRequest
           \/ ProfileRequest \/ ProfileSoapRequest

Next == \/ Boot \/ Seed \/ Crash
        \/ phase = "up" /\ OneCall

Spec == Init /\ [][Next]_vars

-----------------------------------------------------------------------------
(***************************************************************************)
(* Properties.                                                             *)
(***************************************************************************)
Owned(ps, cs) == \A c \in DOMAIN cs : cs[c].person \in DOMAIN ps

\* No contract outlives its person: not in the maps, and not in the file,
\* whatever saves have failed and wherever the server died.
ContractsHavePersons == Owned(persons, contracts) /\ Owned(disk.persons, disk.contracts)

\* A contract never moves to another person.
ContractsStay ==
    [][\A c \in DOMAIN contracts \cap DOMAIN contracts' :
          contracts'[c].person = contracts[c].person]_vars

\* What the server holds has a list of phones, never a null.
PhonesAreLists == \A p \in DOMAIN persons : persons[p].phones = "list"

\* A person or contract that a request created has every custom field,
\* however often it has been updated, and wherever it was loaded from.
CustomFieldsKept ==
    /\ \A t \in {persons, disk.persons} : \A i \in DOMAIN t :
          t[i].origin = "request" => PersonFields \subseteq t[i].attrs
    /\ \A t \in {contracts, disk.contracts} : \A i \in DOMAIN t :
          t[i].origin = "request" => ContractFields \subseteq t[i].attrs
=============================================================================
