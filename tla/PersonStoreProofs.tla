------------------------- MODULE PersonStoreProofs --------------------------
(***************************************************************************)
(* No contract outlives its person, and none changes hands, no row loses a *)
(* custom field and no list of phones becomes null, for any ids,           *)
(* attributes and settings, whatever saves fail and wherever the server    *)
(* dies.                                                                   *)
(***************************************************************************)
EXTENDS PersonStore, TLAPS

\* The inductive invariant: nothing is in the maps of a server that is down.
PersonInv == /\ TypeOK
             /\ ContractsHavePersons
             /\ phase = "down" => DOMAIN contracts = {}

-----------------------------------------------------------------------------
(* Tables. *)

\* The empty maps of a new store are tables without rows.
LEMMA NoRowsTable == IsPersonTable(NoRows) /\ IsContractTable(NoRows) /\ DOMAIN NoRows = {}
BY DEF NoRows, IsPersonTable, IsContractTable

\* Storing a person at an id gives a table of persons with that id.
LEMMA PutPerson ==
  ASSUME NEW t, IsPersonTable(t), NEW id \in PersonIds, NEW row \in PersonRows
  PROVE  IsPersonTable(Put(t, id, row)) /\ DOMAIN Put(t, id, row) = DOMAIN t \cup {id}
BY DEF IsPersonTable, Put

\* Storing a contract at an id gives a table of contracts with that id.
LEMMA PutContract ==
  ASSUME NEW t, IsContractTable(t), NEW id \in ContractIds, NEW row \in ContractRows
  PROVE  /\ IsContractTable(Put(t, id, row)) /\ DOMAIN Put(t, id, row) = DOMAIN t \cup {id}
         /\ \A i \in DOMAIN t \cup {id} : Put(t, id, row)[i] = IF i = id THEN row ELSE t[i]
BY DEF IsContractTable, Put

\* Removing persons leaves a table of the others, each as it was.
LEMMA WithoutPerson ==
  ASSUME NEW t, IsPersonTable(t), NEW ids
  PROVE  IsPersonTable(Without(t, ids)) /\ DOMAIN Without(t, ids) = DOMAIN t \ ids
BY DEF IsPersonTable, Without

\* Removing contracts leaves a table of the others, each as it was.
LEMMA WithoutContract ==
  ASSUME NEW t, IsContractTable(t), NEW ids
  PROVE  /\ IsContractTable(Without(t, ids)) /\ DOMAIN Without(t, ids) = DOMAIN t \ ids
         /\ \A i \in DOMAIN t \ ids : Without(t, ids)[i] = t[i]
BY DEF IsContractTable, Without

-----------------------------------------------------------------------------
(* What the operations end with. *)

\* No contract that stays changes hands.
SamePersons(cs) == \A c \in DOMAIN contracts \cap DOMAIN cs : cs[c].person = contracts[c].person

Kept == PersonInv' /\ SamePersons(contracts')

\* persist: a change to owned contracts of unmoved persons keeps the invariant,
\* whether or not the save works.
LEMMA CommitKeeps ==
  ASSUME PersonInv, phase = "up", NEW ps, NEW cs, IsPersonTable(ps), IsContractTable(cs),
         Owned(ps, cs), SamePersons(cs), Commit(ps, cs)
  PROVE  Kept
<1>1. /\ persons' = ps /\ contracts' = cs /\ outcome' = "ok" /\ phase' = "up"
      /\ disk' = [persons |-> ps, contracts |-> cs] \/ disk' = disk
  BY DEF Commit
<1>2. /\ DOMAIN disk' = {"persons", "contracts"}
      /\ IsPersonTable(disk'.persons) /\ IsContractTable(disk'.contracts)
      /\ Owned(disk'.persons, disk'.contracts)
  BY <1>1 DEF PersonInv, TypeOK, ContractsHavePersons
<1> QED
  BY <1>1, <1>2 DEF Kept, SamePersons, PersonInv, TypeOK, ContractsHavePersons,
                    IsPersonTable, IsContractTable, Owned

\* An error return changes no row.
LEMMA RefuseKeeps ==
  ASSUME PersonInv, NEW why \in {"missing", "invalid"}, Refuse(why)
  PROVE  Kept
BY DEF Refuse, Kept, SamePersons, PersonInv, TypeOK, ContractsHavePersons,
       IsPersonTable, IsContractTable, Owned

-----------------------------------------------------------------------------
(* The operations. *)

\* What every operation may start from.
LEMMA Start ==
  ASSUME PersonInv
  PROVE  IsPersonTable(persons) /\ IsContractTable(contracts) /\ Owned(persons, contracts)
BY DEF PersonInv, TypeOK, ContractsHavePersons

\* CreatePerson adds a row that no contract refers to.
LEMMA CreatePersonKeeps ==
  ASSUME PersonInv, phase = "up", NEW p \in Bodies, CreatePerson(p)
  PROVE  Kept
<1>1. PICK id \in PersonIds \ DOMAIN persons :
         Commit(Put(persons, id, [phones |-> "list", origin |-> "request",
                                  attrs |-> PersonFields \cup p.attrs]), contracts)
  BY DEF CreatePerson
<1> DEFINE row == [phones |-> "list", origin |-> "request", attrs |-> PersonFields \cup p.attrs]
<1>2. row \in PersonRows
  BY PersonData DEF PersonRows, Bodies
<1>3. IsPersonTable(Put(persons, id, row)) /\ Owned(Put(persons, id, row), contracts)
  <2> HIDE DEF row
  <2>1. IsPersonTable(Put(persons, id, row)) /\ DOMAIN Put(persons, id, row) = DOMAIN persons \cup {id}
    BY <1>2, Start, PutPerson
  <2> QED BY <2>1, Start DEF Owned
<1> QED BY <1>1, <1>3, Start, CommitKeeps DEF SamePersons

\* UpdatePerson keeps the ids, and so what contracts refer to.
LEMMA UpdatePersonKeeps ==
  ASSUME PersonInv, phase = "up", NEW id \in PersonIds, NEW p \in Bodies, UpdatePerson(id, p)
  PROVE  Kept
<1>1. CASE id \notin DOMAIN persons
  BY <1>1, RefuseKeeps DEF UpdatePerson
<1>2. CASE id \in DOMAIN persons
  <2> DEFINE ps == [persons EXCEPT
                      ![id].phones = IF p.phones = "null" THEN @ ELSE p.phones,
                      ![id].attrs = @ \cup p.attrs]
  <2>1. Commit(ps, contracts)
    BY <1>2 DEF UpdatePerson
  <2>2. IsPersonTable(ps) /\ DOMAIN ps = DOMAIN persons
    <3>1. persons[id] \in PersonRows
      BY <1>2, Start DEF IsPersonTable
    <3>2. ps[id] \in PersonRows
      BY <1>2, <3>1 DEF PersonRows, Bodies
    <3>3. DOMAIN ps = DOMAIN persons /\ \A i \in DOMAIN persons \ {id} : ps[i] = persons[i]
      OBVIOUS
    <3>4. ps = [i \in DOMAIN persons |-> ps[i]]
      OBVIOUS
    <3> HIDE DEF ps
    <3> QED BY <3>2, <3>3, <3>4, Start DEF IsPersonTable
  <2> QED BY <2>1, <2>2, Start, CommitKeeps DEF Owned, SamePersons
<1> QED BY <1>1, <1>2

\* DeletePerson takes all the contracts of its person along.
LEMMA DeletePersonKeeps ==
  ASSUME PersonInv, phase = "up", NEW id \in PersonIds, DeletePerson(id)
  PROVE  Kept
<1>1. CASE id \notin DOMAIN persons
  BY <1>1, RefuseKeeps DEF DeletePerson
<1>2. CASE id \in DOMAIN persons
  <2> DEFINE ps == Without(persons, {id})
             cs == Without(contracts, ContractsOf(contracts, id))
  <2>1. Commit(ps, cs)
    BY <1>2 DEF DeletePerson
  <2>2. /\ IsPersonTable(ps) /\ DOMAIN ps = DOMAIN persons \ {id}
        /\ IsContractTable(cs) /\ DOMAIN cs = DOMAIN contracts \ ContractsOf(contracts, id)
        /\ \A c \in DOMAIN cs : cs[c] = contracts[c]
    <3>1. IsPersonTable(ps) /\ DOMAIN ps = DOMAIN persons \ {id}
      BY Start, WithoutPerson
    <3>2. IsContractTable(cs)
      BY Start, WithoutContract
    <3>3. /\ DOMAIN cs = DOMAIN contracts \ ContractsOf(contracts, id)
          /\ \A c \in DOMAIN cs : cs[c] = contracts[c]
      BY DEF Without
    <3> QED BY <3>1, <3>2, <3>3
  <2>3. Owned(ps, cs)
    BY <2>2, Start DEF Owned, ContractsOf
  <2> QED BY <2>1, <2>2, <2>3, CommitKeeps DEF SamePersons
<1> QED BY <1>1, <1>2

\* CreateContract adds a contract of a person that is there.
LEMMA CreateContractKeeps ==
  ASSUME PersonInv, phase = "up", NEW person \in PersonIds, NEW attrs \in SUBSET AttrKeys,
         CreateContract(person, attrs)
  PROVE  Kept
<1>1. CASE person \notin DOMAIN persons
  BY <1>1, RefuseKeeps DEF CreateContract
<1>2. CASE person \in DOMAIN persons
  <2> DEFINE row == [person |-> person, origin |-> "request", attrs |-> ContractFields \cup attrs]
  <2>1. PICK id \in ContractIds \ DOMAIN contracts : Commit(persons, Put(contracts, id, row))
    BY <1>2 DEF CreateContract
  <2>2. row \in ContractRows /\ row.person = person
    BY PersonData DEF ContractRows
  <2> HIDE DEF row
  <2>3. /\ IsContractTable(Put(contracts, id, row))
        /\ Owned(persons, Put(contracts, id, row)) /\ SamePersons(Put(contracts, id, row))
    <3> DEFINE cs == Put(contracts, id, row)
    <3>1. IsContractTable(cs)
      BY <2>2, Start, PutContract
    <3>2. /\ DOMAIN cs = DOMAIN contracts \cup {id} /\ cs[id] = row
          /\ \A c \in DOMAIN contracts : cs[c] = contracts[c]
      BY DEF Put
    <3> QED BY <1>2, <2>2, <3>1, <3>2, Start DEF Owned, SamePersons
  <2> QED BY <2>1, <2>3, Start, CommitKeeps
<1> QED BY <1>1, <1>2

\* UpdateContract leaves the person of the contract alone.
LEMMA UpdateContractKeeps ==
  ASSUME PersonInv, phase = "up", NEW person \in PersonIds, NEW id \in ContractIds,
         NEW attrs \in SUBSET AttrKeys, UpdateContract(person, id, attrs)
  PROVE  Kept
<1>1. CASE ~Found(person, id)
  BY <1>1, RefuseKeeps DEF UpdateContract
<1>2. CASE Found(person, id)
  <2> DEFINE cs == [contracts EXCEPT ![id].attrs = @ \cup attrs]
  <2>1. Commit(persons, cs) /\ id \in DOMAIN contracts
    BY <1>2 DEF UpdateContract, Found, ContractsOf
  <2>2. /\ IsContractTable(cs) /\ DOMAIN cs = DOMAIN contracts
        /\ \A c \in DOMAIN contracts : cs[c].person = contracts[c].person
    BY <2>1, Start DEF IsContractTable, ContractRows
  <2> QED BY <2>1, <2>2, Start, CommitKeeps DEF Owned, SamePersons
<1> QED BY <1>1, <1>2

\* DeleteContract leaves the other contracts as they are.
LEMMA DeleteContractKeeps ==
  ASSUME PersonInv, phase = "up", NEW person \in PersonIds, NEW id \in ContractIds,
         DeleteContract(person, id)
  PROVE  Kept
<1>1. CASE ~Found(person, id)
  BY <1>1, RefuseKeeps DEF DeleteContract
<1>2. CASE Found(person, id)
  <2>1. Commit(persons, Without(contracts, {id}))
    BY <1>2 DEF DeleteContract
  <2>2. /\ IsContractTable(Without(contracts, {id}))
        /\ DOMAIN Without(contracts, {id}) \subseteq DOMAIN contracts
        /\ \A c \in DOMAIN Without(contracts, {id}) : Without(contracts, {id})[c] = contracts[c]
    <3>1. IsContractTable(Without(contracts, {id}))
      BY Start, WithoutContract
    <3> QED BY <3>1 DEF Without
  <2> QED BY <2>1, <2>2, Start, CommitKeeps DEF Owned, SamePersons
<1> QED BY <1>1, <1>2

\* A create of a person that a handler has validated.
LEMMA CreateNamedKeeps ==
  ASSUME PersonInv, phase = "up", NEW p \in Bodies, CreateNamed(p)
  PROVE  Kept
BY CreatePersonKeeps, RefuseKeeps DEF CreateNamed

\* A create of a contract that a handler has validated.
LEMMA CreateCompleteKeeps ==
  ASSUME PersonInv, phase = "up", NEW person \in PersonIds, NEW complete \in BOOLEAN,
         NEW attrs \in SUBSET AttrKeys, CreateComplete(person, complete, attrs)
  PROVE  Kept
BY CreateContractKeeps, RefuseKeeps DEF CreateComplete

\* Every request of every front end is one of the operations above.
LEMMA OneCallKeeps ==
  ASSUME PersonInv, phase = "up", OneCall
  PROVE  Kept
<1> USE CreatePersonKeeps, UpdatePersonKeeps, DeletePersonKeeps,
        CreateContractKeeps, UpdateContractKeeps, DeleteContractKeeps
<1>1. CASE RestPersonRequest
  BY <1>1, CreateNamedKeeps DEF RestPersonRequest
<1>2. CASE RestContractRequest
  BY <1>2, CreateCompleteKeeps DEF RestContractRequest
<1>3. CASE SoapRequest
  BY <1>3 DEF SoapRequest
<1>4. CASE ProfileRequest
  BY <1>4, CreateNamedKeeps, CreateCompleteKeeps DEF ProfileRequest
<1>5. CASE ProfileSoapRequest
  BY <1>5, RefuseKeeps DEF ProfileSoapRequest
<1> QED BY <1>1, <1>2, <1>3, <1>4, <1>5 DEF OneCall

-----------------------------------------------------------------------------
(* Boot, crash, and the theorems. *)

\* NewPersonStore takes over the two maps of a file without orphans.
LEMMA BootKeeps ==
  ASSUME PersonInv, Boot
  PROVE  Kept
<1>1. /\ IsPersonTable(persons') /\ DOMAIN persons' = DOMAIN disk.persons
      /\ contracts' = disk.contracts /\ disk' = disk /\ outcome' = outcome
      /\ phase' \in {"seeding", "up"}
  BY DEF Boot, PersonInv, TypeOK, IsPersonTable, PersonRows
<1>2. PersonInv'
  BY <1>1 DEF PersonInv, TypeOK, ContractsHavePersons, IsPersonTable, IsContractTable, Owned
<1>3. SamePersons(contracts')
  BY DEF Boot, PersonInv, SamePersons
<1> QED BY <1>2, <1>3 DEF Kept

\* SeedPersons adds a person together with its contract.
LEMMA SeedKeeps ==
  ASSUME PersonInv, Seed
  PROVE  Kept
<1>1. CASE DOMAIN persons # {}
  BY <1>1 DEF Seed, Kept, SamePersons, PersonInv, TypeOK, ContractsHavePersons,
              IsPersonTable, IsContractTable, Owned
<1>2. CASE DOMAIN persons = {}
  <2>1. PICK p \in PersonIds, c \in ContractIds \ DOMAIN contracts :
           /\ persons' = Put(persons, p, [phones |-> "list", attrs |-> {}, origin |-> "seed"])
           /\ contracts' = Put(contracts, c, [person |-> p, attrs |-> {}, origin |-> "seed"])
           /\ \/ disk' = [persons |-> persons', contracts |-> contracts']
              \/ SavesFail /\ disk' = disk
           /\ phase' = "up" /\ outcome' = outcome
    BY <1>2 DEF Seed
  <2> DEFINE prow == [phones |-> "list", attrs |-> {}, origin |-> "seed"]
             crow == [person |-> p, attrs |-> {}, origin |-> "seed"]
  <2>2. prow \in PersonRows /\ crow \in ContractRows /\ crow.person = p
    BY DEF PersonRows, ContractRows
  <2>3. persons' = Put(persons, p, prow) /\ contracts' = Put(contracts, c, crow)
    BY <2>1
  <2> HIDE DEF prow, crow
  <2>4. IsPersonTable(persons') /\ DOMAIN persons' = DOMAIN persons \cup {p}
    BY <2>2, <2>3, Start, PutPerson
  <2>5. /\ IsContractTable(contracts')
        /\ Owned(persons', contracts') /\ SamePersons(contracts')
    <3>1. IsContractTable(contracts')
      BY <2>2, <2>3, Start, PutContract
    <3>2. /\ DOMAIN contracts' = DOMAIN contracts \cup {c} /\ contracts'[c] = crow
          /\ \A d \in DOMAIN contracts : contracts'[d] = contracts[d]
      BY <2>3 DEF Put
    <3> QED BY <2>2, <2>4, <3>1, <3>2, Start DEF Owned, SamePersons
  <2>6. /\ DOMAIN disk' = {"persons", "contracts"}
        /\ IsPersonTable(disk'.persons) /\ IsContractTable(disk'.contracts)
        /\ Owned(disk'.persons, disk'.contracts)
    BY <2>1, <2>4, <2>5 DEF PersonInv, TypeOK, ContractsHavePersons
  <2> QED BY <2>1, <2>4, <2>5, <2>6 DEF Kept, PersonInv, TypeOK, ContractsHavePersons,
                                       IsPersonTable, IsContractTable, Owned
<1> QED BY <1>1, <1>2

\* After a crash the maps are empty and the file is as it was.
LEMMA CrashKeeps ==
  ASSUME PersonInv, Crash
  PROVE  Kept
BY NoRowsTable DEF Crash, Kept, SamePersons, PersonInv, TypeOK, ContractsHavePersons,
                   IsPersonTable, IsContractTable, Owned

\* Every step keeps the invariant and moves no contract.
LEMMA NextKeeps ==
  ASSUME PersonInv, Next
  PROVE  Kept
BY BootKeeps, SeedKeeps, CrashKeeps, OneCallKeeps DEF Next

\* The store starts with empty maps and a file without contracts.
LEMMA InitEstablishes == Init => PersonInv
<1> SUFFICES ASSUME Init PROVE PersonInv
  OBVIOUS
<1>1. PICK t \in HandWritten : disk = [persons |-> t, contracts |-> NoRows]
  BY DEF Init
<1>2. IsPersonTable(t)
  BY DEF HandWritten, IsPersonTable, PersonRows
<1> QED BY <1>1, <1>2, NoRowsTable DEF Init, PersonInv, TypeOK, ContractsHavePersons, Owned

\* The invariant is inductive.
LEMMA Inductive == PersonInv /\ [Next]_vars => PersonInv'
<1>1. ASSUME PersonInv, Next PROVE PersonInv'
  BY <1>1, NextKeeps DEF Kept
<1>2. ASSUME PersonInv, UNCHANGED vars PROVE PersonInv'
  BY <1>2 DEF vars, PersonInv, TypeOK, ContractsHavePersons, IsPersonTable, IsContractTable, Owned
<1> QED BY <1>1, <1>2

\* The inductive invariant of PersonStore: every row has its type and every
\* contract its person, in the maps and in persons.json.
THEOREM PersonInvariant == Spec => []PersonInv
BY InitEstablishes, Inductive, PTL DEF Spec

\* Every row of the maps and of persons.json has its type.
THEOREM TypeCorrect == Spec => []TypeOK
<1>1. PersonInv => TypeOK
  BY DEF PersonInv
<1> QED BY <1>1, PersonInvariant, PTL

\* DeletePerson's cascade and CreateContract's lookup leave no contract
\* without its person, in the maps and in persons.json.
THEOREM NoOrphans == Spec => []ContractsHavePersons
<1>1. PersonInv => ContractsHavePersons
  BY DEF PersonInv
<1> QED BY <1>1, PersonInvariant, PTL

\* No operation moves a contract to another person.
THEOREM NoContractMoves == Spec => ContractsStay
<1>1. ASSUME PersonInv, [Next]_vars
      PROVE  [\A c \in DOMAIN contracts \cap DOMAIN contracts' :
                 contracts'[c].person = contracts[c].person]_vars
  <2>1. CASE Next
    BY <1>1, <2>1, NextKeeps DEF Kept, SamePersons
  <2>2. CASE UNCHANGED vars
    BY <2>2
  <2> QED BY <1>1, <2>1, <2>2
<1> QED BY <1>1, PersonInvariant, PTL DEF Spec, ContractsStay

-----------------------------------------------------------------------------
(* Custom fields and phones: what every row keeps through merges, saves     *)
(* and restarts.                                                            *)

PersonFilled(row) == row.origin = "request" => PersonFields \subseteq row.attrs
ContractFilled(row) == row.origin = "request" => ContractFields \subseteq row.attrs

GoodPersons(t) == \A i \in DOMAIN t : PersonFilled(t[i]) /\ t[i].phones = "list"
GoodContracts(t) == \A i \in DOMAIN t : ContractFilled(t[i])

\* The file may have been written by hand, with null phones.
RowsInv == /\ GoodPersons(persons) /\ GoodContracts(contracts)
           /\ \A i \in DOMAIN disk.persons : PersonFilled(disk.persons[i])
           /\ GoodContracts(disk.contracts)

\* persist: good rows, saved or not, keep the invariant.
LEMMA CommitRows ==
  ASSUME RowsInv, NEW ps, NEW cs, GoodPersons(ps), GoodContracts(cs), Commit(ps, cs)
  PROVE  RowsInv'
<1>1. /\ persons' = ps /\ contracts' = cs
      /\ disk' = [persons |-> ps, contracts |-> cs] \/ disk' = disk
  BY DEF Commit
<1> QED BY <1>1 DEF RowsInv, GoodPersons, GoodContracts

\* A step that changes no row.
LEMMA SameRows ==
  ASSUME RowsInv, persons' = persons, contracts' = contracts, disk' = disk
  PROVE  RowsInv'
BY DEF RowsInv, GoodPersons, GoodContracts

\* A good row may be added to a table of good rows.
LEMMA PutRows ==
  ASSUME NEW t, NEW id, NEW row
  PROVE  /\ GoodPersons(t) /\ PersonFilled(row) /\ row.phones = "list" => GoodPersons(Put(t, id, row))
         /\ GoodContracts(t) /\ ContractFilled(row) => GoodContracts(Put(t, id, row))
<1>1. /\ DOMAIN Put(t, id, row) = DOMAIN t \cup {id} /\ Put(t, id, row)[id] = row
      /\ \A i \in DOMAIN t \ {id} : Put(t, id, row)[i] = t[i]
  BY DEF Put
<1> QED BY <1>1 DEF GoodPersons, GoodContracts

\* Rows may be removed.
LEMMA WithoutRows ==
  ASSUME NEW t, NEW ids
  PROVE  /\ GoodPersons(t) => GoodPersons(Without(t, ids))
         /\ GoodContracts(t) => GoodContracts(Without(t, ids))
BY DEF GoodPersons, GoodContracts, Without

\* CreatePerson fills in the custom fields that the body leaves out.
LEMMA CreatePersonRows ==
  ASSUME RowsInv, NEW p \in Bodies, CreatePerson(p)
  PROVE  RowsInv'
<1> DEFINE row == [phones |-> "list", origin |-> "request", attrs |-> PersonFields \cup p.attrs]
<1>1. PICK id \in PersonIds \ DOMAIN persons : Commit(Put(persons, id, row), contracts)
  BY DEF CreatePerson
<1>2. PersonFilled(row) /\ row.phones = "list"
  BY DEF PersonFilled
<1> HIDE DEF row
<1> QED BY <1>1, <1>2, PutRows, CommitRows DEF RowsInv

\* UpdatePerson adds attributes, and replaces phones by a list only.
LEMMA UpdatePersonRows ==
  ASSUME PersonInv, RowsInv, NEW id \in PersonIds, NEW p \in Bodies, UpdatePerson(id, p)
  PROVE  RowsInv'
<1>1. CASE id \notin DOMAIN persons
  BY <1>1, SameRows DEF UpdatePerson, Refuse
<1>2. CASE id \in DOMAIN persons
  <2> DEFINE ps == [persons EXCEPT
                      ![id].phones = IF p.phones = "null" THEN @ ELSE p.phones,
                      ![id].attrs = @ \cup p.attrs]
  <2>1. Commit(ps, contracts)
    BY <1>2 DEF UpdatePerson
  <2>2. persons[id] \in PersonRows /\ p.phones \in {"null", "list"}
    BY <1>2, Start DEF IsPersonTable, Bodies
  <2>3. PersonFilled(persons[id]) /\ persons[id].phones = "list"
    BY <1>2 DEF RowsInv, GoodPersons
  <2>4. /\ ps[id].origin = persons[id].origin
        /\ ps[id].attrs = persons[id].attrs \cup p.attrs /\ ps[id].phones = "list"
    BY <1>2, <2>2, <2>3 DEF PersonRows
  <2>5. DOMAIN ps = DOMAIN persons /\ \A i \in DOMAIN persons \ {id} : ps[i] = persons[i]
    OBVIOUS
  <2> HIDE DEF ps
  <2>6. PersonFilled(ps[id])
    BY <2>3, <2>4 DEF PersonFilled
  <2>7. GoodPersons(ps)
    BY <2>4, <2>5, <2>6 DEF RowsInv, GoodPersons
  <2> QED BY <2>1, <2>7, CommitRows DEF RowsInv
<1> QED BY <1>1, <1>2

\* DeletePerson removes rows.
LEMMA DeletePersonRows ==
  ASSUME RowsInv, NEW id, DeletePerson(id)
  PROVE  RowsInv'
<1>1. CASE id \notin DOMAIN persons
  BY <1>1, SameRows DEF DeletePerson, Refuse
<1>2. CASE id \in DOMAIN persons
  BY <1>2, WithoutRows, CommitRows DEF DeletePerson, RowsInv
<1> QED BY <1>1, <1>2

\* CreateContract fills in the custom fields that the body leaves out.
LEMMA CreateContractRows ==
  ASSUME RowsInv, NEW person, NEW attrs, CreateContract(person, attrs)
  PROVE  RowsInv'
<1> DEFINE row == [person |-> person, origin |-> "request", attrs |-> ContractFields \cup attrs]
<1>1. CASE person \notin DOMAIN persons
  BY <1>1, SameRows DEF CreateContract, Refuse
<1>2. CASE person \in DOMAIN persons
  <2>1. PICK id \in ContractIds \ DOMAIN contracts : Commit(persons, Put(contracts, id, row))
    BY <1>2 DEF CreateContract
  <2>2. ContractFilled(row)
    BY DEF ContractFilled
  <2> HIDE DEF row
  <2> QED BY <2>1, <2>2, PutRows, CommitRows DEF RowsInv
<1> QED BY <1>1, <1>2

\* UpdateContract adds attributes.
LEMMA UpdateContractRows ==
  ASSUME PersonInv, RowsInv, NEW person, NEW id, NEW attrs, UpdateContract(person, id, attrs)
  PROVE  RowsInv'
<1>1. CASE ~Found(person, id)
  BY <1>1, SameRows DEF UpdateContract, Refuse
<1>2. CASE Found(person, id)
  <2> DEFINE cs == [contracts EXCEPT ![id].attrs = @ \cup attrs]
  <2>1. Commit(persons, cs) /\ id \in DOMAIN contracts
    BY <1>2 DEF UpdateContract, Found, ContractsOf
  <2>2. contracts[id] \in ContractRows
    BY <2>1, Start DEF IsContractTable
  <2>3. cs[id].origin = contracts[id].origin /\ cs[id].attrs = contracts[id].attrs \cup attrs
    BY <2>1, <2>2 DEF ContractRows
  <2>4. DOMAIN cs = DOMAIN contracts /\ \A i \in DOMAIN contracts \ {id} : cs[i] = contracts[i]
    OBVIOUS
  <2>5. ContractFilled(contracts[id])
    BY <2>1 DEF RowsInv, GoodContracts
  <2> HIDE DEF cs
  <2>6. GoodContracts(cs)
    BY <2>3, <2>4, <2>5 DEF RowsInv, GoodContracts, ContractFilled
  <2> QED BY <2>1, <2>6, CommitRows DEF RowsInv
<1> QED BY <1>1, <1>2

\* DeleteContract removes a row.
LEMMA DeleteContractRows ==
  ASSUME RowsInv, NEW person, NEW id, DeleteContract(person, id)
  PROVE  RowsInv'
<1>1. CASE ~Found(person, id)
  BY <1>1, SameRows DEF DeleteContract, Refuse
<1>2. CASE Found(person, id)
  BY <1>2, WithoutRows, CommitRows DEF DeleteContract, RowsInv
<1> QED BY <1>1, <1>2

\* An error return.
LEMMA RefuseRows == ASSUME RowsInv, NEW why, Refuse(why) PROVE RowsInv'
BY SameRows DEF Refuse

\* Every request of every front end is one of the operations above.
LEMMA OneCallRows ==
  ASSUME PersonInv, RowsInv, OneCall
  PROVE  RowsInv'
<1> USE CreatePersonRows, UpdatePersonRows, DeletePersonRows, CreateContractRows,
        UpdateContractRows, DeleteContractRows, RefuseRows DEF CreateNamed, CreateComplete
<1>1. CASE RestPersonRequest
  BY <1>1 DEF RestPersonRequest
<1>2. CASE RestContractRequest
  BY <1>2 DEF RestContractRequest
<1>3. CASE SoapRequest
  BY <1>3 DEF SoapRequest
<1>4. CASE ProfileRequest
  BY <1>4 DEF ProfileRequest
<1>5. CASE ProfileSoapRequest
  BY <1>5 DEF ProfileSoapRequest
<1> QED BY <1>1, <1>2, <1>3, <1>4, <1>5 DEF OneCall

\* NewPersonStore repairs the null phones of a file.
LEMMA BootRows == ASSUME PersonInv, RowsInv, Boot PROVE RowsInv'
<1>1. /\ DOMAIN persons' = DOMAIN disk.persons
      /\ \A i \in DOMAIN disk.persons : persons'[i] = [disk.persons[i] EXCEPT !.phones = "list"]
      /\ contracts' = disk.contracts /\ disk' = disk
  BY DEF Boot
<1>2. \A i \in DOMAIN disk.persons : disk.persons[i] \in PersonRows
  BY DEF PersonInv, TypeOK, IsPersonTable
<1>3. \A i \in DOMAIN disk.persons : PersonFilled(persons'[i]) /\ persons'[i].phones = "list"
  BY <1>1, <1>2 DEF RowsInv, PersonFilled, PersonRows
<1> QED BY <1>1, <1>3 DEF RowsInv, GoodPersons, GoodContracts

\* SeedPersons makes rows that no request created.
LEMMA SeedRows == ASSUME RowsInv, Seed PROVE RowsInv'
<1>1. CASE DOMAIN persons # {}
  BY <1>1, SameRows DEF Seed
<1>2. CASE DOMAIN persons = {}
  <2> DEFINE prow == [phones |-> "list", attrs |-> {}, origin |-> "seed"]
             crow(p) == [person |-> p, attrs |-> {}, origin |-> "seed"]
  <2>1. PICK p \in PersonIds, c \in ContractIds \ DOMAIN contracts :
           /\ persons' = Put(persons, p, prow)
           /\ contracts' = Put(contracts, c, crow(p))
           /\ \/ disk' = [persons |-> persons', contracts |-> contracts']
              \/ disk' = disk
    BY <1>2 DEF Seed
  <2>2. PersonFilled(prow) /\ prow.phones = "list" /\ ContractFilled(crow(p))
    BY DEF PersonFilled, ContractFilled
  <2> HIDE DEF prow, crow
  <2>3. GoodPersons(persons') /\ GoodContracts(contracts')
    BY <2>1, <2>2, PutRows DEF RowsInv
  <2> QED BY <2>1, <2>3 DEF RowsInv, GoodPersons, GoodContracts
<1> QED BY <1>1, <1>2

\* The custom fields of the rows and the repaired phones survive every step.
THEOREM RowsInvariant == Spec => [](PersonInv /\ RowsInv)
<1>1. Init => RowsInv
  <2> SUFFICES ASSUME Init PROVE RowsInv
    OBVIOUS
  <2>1. PICK t \in HandWritten : disk = [persons |-> t, contracts |-> NoRows]
    BY DEF Init
  <2>2. \A i \in DOMAIN t : t[i].origin = "file"
    BY DEF HandWritten
  <2> QED BY <2>1, <2>2, NoRowsTable DEF Init, RowsInv, GoodPersons, GoodContracts, PersonFilled
<1>2. ASSUME PersonInv, RowsInv, [Next]_vars PROVE RowsInv'
  <2>1. CASE Crash
    BY <1>2, <2>1, NoRowsTable DEF Crash, RowsInv, GoodPersons, GoodContracts
  <2>2. CASE UNCHANGED vars
    BY <1>2, <2>2, SameRows DEF vars
  <2> QED BY <1>2, <2>1, <2>2, BootRows, SeedRows, OneCallRows DEF Next
<1> QED BY <1>1, <1>2, InitEstablishes, Inductive, PTL DEF Spec

\* What the server holds of a person has a list of phones: the null of a
\* hand-written file and that of a body without phones never get in.
THEOREM PhonesStayLists == Spec => []PhonesAreLists
<1>1. RowsInv => PhonesAreLists
  BY DEF RowsInv, GoodPersons, PhonesAreLists
<1> QED BY <1>1, RowsInvariant, PTL

\* UpdatePerson and UpdateContract merge attributes, and the file is loaded
\* whole: a custom field that a create has filled in is never lost.
THEOREM FieldsStay == Spec => []CustomFieldsKept
<1>1. RowsInv => CustomFieldsKept
  BY DEF RowsInv, GoodPersons, GoodContracts, PersonFilled, ContractFilled, CustomFieldsKept
<1> QED BY <1>1, RowsInvariant, PTL
=============================================================================
