------------------------ MODULE MergedPersonsProofs -------------------------
(***************************************************************************)
(* Proofs about merged person lists, for any number of connections,        *)
(* persons and contracts: every row is true of its person.                 *)
(***************************************************************************)
EXTENDS MergedPersons, PersonStoreProofs

ReadTypeOK == /\ todo \in [Readers -> SUBSET PersonIds]
              /\ DOMAIN merged = Readers
              /\ kept \in [Readers -> [PersonIds -> SUBSET ContractIds]]
              /\ had \in [Readers -> [PersonIds -> SUBSET ContractIds]]
              /\ \A r \in Readers : DOMAIN merged[r] \subseteq PersonIds

\* While a list is under way the server is up, and what each person has now
\* lies between what it kept and what it had.
Watched(r) == /\ phase = "up"
              /\ \A p \in PersonIds : kept[r][p] \subseteq Current[p] /\ Current[p] \subseteq had[r][p]

MergedInv == /\ ReadTypeOK
             /\ \A r \in Readers : ~Idle(r) => Watched(r)
             /\ RowsAreTrue

-----------------------------------------------------------------------------
(* Facts about one state. *)

\* The contracts of the persons are contract ids.
LEMMA CurrentType == ASSUME PersonInv PROVE Current \in [PersonIds -> SUBSET ContractIds]
BY DEF PersonInv, TypeOK, IsContractTable, Current, ContractsOf

\* A person that is gone has no contracts, so the second call of the list
\* finds what the person has, whether it is still there or not.
LEMMA ListsCurrent ==
  ASSUME PersonInv, NEW p \in PersonIds
  PROVE  ListContracts(p) = Current[p]
<1>1. p \notin DOMAIN persons => ContractsOf(contracts, p) = {}
  BY DEF PersonInv, ContractsHavePersons, Owned, ContractsOf
<1> QED BY <1>1 DEF ListContracts, Current

\* A list that has not begun has no rows.
LEMMA IdleHasNoRows == ASSUME NEW r, Idle(r) PROVE DOMAIN merged[r] = {}
BY DEF Idle, NoRows

-----------------------------------------------------------------------------
(* The steps of a list. *)

\* The first call starts the history with what the persons have.
LEMMA ListPersonsKeeps ==
  ASSUME PersonInv, MergedInv, NEW r \in Readers, ListPersons(r)
  PROVE  MergedInv'
<1> USE DEF MergedInv, ListPersons, vars
<1>1. DOMAIN persons \subseteq PersonIds
  BY DEF PersonInv, TypeOK, IsPersonTable
<1>2. Current' = Current
  BY DEF Current, ContractsOf
<1>3. ReadTypeOK'
  BY <1>1, CurrentType DEF ReadTypeOK
<1>4. ASSUME NEW q \in Readers, ~Idle(q)' PROVE Watched(q)'
  <2>1. CASE q = r
    BY <2>1, <1>2 DEF Watched, ReadTypeOK
  <2>2. CASE q # r
    <3>1. ~Idle(q) /\ kept'[q] = kept[q] /\ had'[q] = had[q]
      BY <2>2, <1>4 DEF Idle, ReadTypeOK
    <3> QED BY <3>1, <1>2 DEF Watched
  <2> QED BY <2>1, <2>2
<1>5. RowsAreTrue'
  <2>1. \A q \in Readers : q # r => kept'[q] = kept[q] /\ had'[q] = had[q]
    BY DEF ReadTypeOK
  <2>2. DOMAIN merged'[r] = {}
    BY IdleHasNoRows
  <2> QED BY <2>1, <2>2 DEF RowsAreTrue
<1> QED BY <1>3, <1>4, <1>5

\* The call for one person adds a row that is true of it now.
LEMMA MergeContractsKeeps ==
  ASSUME PersonInv, MergedInv, NEW r \in Readers, MergeContracts(r)
  PROVE  MergedInv'
<1>1. PICK p \in todo[r] : /\ todo' = [todo EXCEPT ![r] = @ \ {p}]
                           /\ merged' = [merged EXCEPT ![r] = Put(@, p, ListContracts(p))]
                           /\ UNCHANGED <<vars, kept, had>>
  BY DEF MergeContracts
<1>2. p \in PersonIds /\ ~Idle(r)
  BY <1>1 DEF MergedInv, ReadTypeOK, Idle
<1>3. phase' = phase /\ Current' = Current
  BY <1>1 DEF vars, Current, ContractsOf
<1>4. /\ Watched(r)
      /\ \A q \in Readers : ~Idle(q) => Watched(q)
  BY <1>2 DEF MergedInv
<1>5. /\ DOMAIN merged' = Readers
      /\ merged'[r] = Put(merged[r], p, Current[p])
      /\ \A q \in Readers : q # r => merged'[q] = merged[q] /\ todo'[q] = todo[q]
  BY <1>1, <1>2, ListsCurrent DEF MergedInv, ReadTypeOK
<1>6. /\ DOMAIN merged'[r] = DOMAIN merged[r] \cup {p}
      /\ \A i \in DOMAIN merged'[r] : merged'[r][i] = IF i = p THEN Current[p] ELSE merged[r][i]
  BY <1>5 DEF Put
<1>7. ReadTypeOK'
  BY <1>1, <1>2, <1>5, <1>6 DEF MergedInv, ReadTypeOK
<1>8. ASSUME NEW q \in Readers, ~Idle(q)' PROVE Watched(q)'
  <2>1. Watched(q)
    BY <1>4, <1>5, <1>8 DEF Idle
  <2> QED BY <2>1, <1>1, <1>3 DEF Watched
<1>9. RowsAreTrue'
  <2> SUFFICES ASSUME NEW q \in Readers, NEW i \in DOMAIN merged'[q]
               PROVE  kept'[q][i] \subseteq merged'[q][i] /\ merged'[q][i] \subseteq had'[q][i]
    BY DEF RowsAreTrue
  <2>1. CASE q = r /\ i = p
    BY <2>1, <1>1, <1>2, <1>4, <1>6 DEF Watched
  <2>2. CASE q = r /\ i # p
    BY <2>2, <1>1, <1>6 DEF MergedInv, RowsAreTrue
  <2>3. CASE q # r
    BY <2>3, <1>1, <1>5 DEF MergedInv, RowsAreTrue
  <2> QED BY <2>1, <2>2, <2>3
<1> QED BY <1>7, <1>8, <1>9 DEF MergedInv

\* The answer ends the list.
LEMMA AnswerKeeps ==
  ASSUME MergedInv, NEW r \in Readers, Answer(r)
  PROVE  MergedInv'
<1> USE DEF MergedInv, ReadTypeOK, Answer, vars
<1>1. DOMAIN NoRows = {}
  BY DEF NoRows
<1>2. ReadTypeOK'
  BY <1>1 DEF NoContracts
<1>3. Idle(r)'
  BY DEF Idle
<1>4. \A q \in Readers : q # r => /\ merged'[q] = merged[q] /\ Idle(q)' = Idle(q)
                                 /\ kept'[q] = kept[q] /\ had'[q] = had[q]
  BY DEF Idle
<1>5. Current' = Current /\ phase' = phase
  BY DEF Current, ContractsOf
<1>6. ASSUME NEW q \in Readers, ~Idle(q)' PROVE Watched(q)'
  BY <1>3, <1>4, <1>5, <1>6 DEF Watched
<1>7. RowsAreTrue'
  BY <1>1, <1>4 DEF RowsAreTrue
<1> QED BY <1>2, <1>6, <1>7

-----------------------------------------------------------------------------
(* The steps of others. *)

\* The history follows every change that leaves the server up.
LEMMA WatchKeeps ==
  ASSUME MergedInv, PersonInv', phase = "up" => phase' = "up", Watch
  PROVE  MergedInv'
<1>1. Current' \in [PersonIds -> SUBSET ContractIds]
  BY DEF PersonInv, TypeOK, IsContractTable, Current, ContractsOf
<1>2. todo' = todo /\ merged' = merged /\ \A r \in Readers : Idle(r)' = Idle(r)
  BY DEF Watch, Idle
<1>3. \A r \in Readers : ~Idle(r) =>
         \A p \in PersonIds : /\ kept'[r][p] = kept[r][p] \cap Current'[p]
                              /\ had'[r][p] = had[r][p] \cup Current'[p]
  BY DEF Watch
<1>4. ReadTypeOK'
  BY <1>1, <1>2 DEF MergedInv, ReadTypeOK, Watch, NoContracts
<1>5. ASSUME NEW r \in Readers, ~Idle(r)' PROVE Watched(r)'
  BY <1>2, <1>3, <1>5 DEF MergedInv, Watched
<1>6. RowsAreTrue'
  <2> SUFFICES ASSUME NEW r \in Readers, NEW p \in DOMAIN merged[r]
               PROVE  kept'[r][p] \subseteq merged[r][p] /\ merged[r][p] \subseteq had'[r][p]
    BY <1>2 DEF RowsAreTrue
  <2>1. ~Idle(r) /\ p \in PersonIds
    BY IdleHasNoRows DEF MergedInv, ReadTypeOK
  <2> QED BY <2>1, <1>3 DEF MergedInv, RowsAreTrue
<1> QED BY <1>4, <1>5, <1>6 DEF MergedInv

\* A crash ends the lists with everything else.
LEMMA ForgetKeeps ==
  ASSUME Forget
  PROVE  MergedInv'
<1>1. \A r \in Readers : Idle(r)' /\ DOMAIN merged'[r] = {}
  BY DEF Forget, Idle, NoRows
<1>2. ReadTypeOK'
  BY <1>1 DEF Forget, ReadTypeOK, NoContracts
<1> QED BY <1>1, <1>2 DEF MergedInv, RowsAreTrue

\* No call of the store takes the server down.
LEMMA OneCallStaysUp == ASSUME OneCall PROVE phase' = phase
<1> USE DEF Commit, Refuse, CreatePerson, UpdatePerson, DeletePerson, CreateContract,
            UpdateContract, DeleteContract, CreateNamed, CreateComplete
<1>1. CASE RestPersonRequest
  BY <1>1 DEF RestPersonRequest
<1>2. CASE RestContractRequest
  BY <1>2 DEF RestContractRequest
<1>3. CASE SoapRequest
  BY <1>3 DEF SoapRequest
<1>4. CASE ProfileRequest
  BY <1>4 DEF ProfileRequest
<1>5. CASE ProfileSoapRequest
  BY <1>5 DEF ProfileSoapRequest
<1> QED BY <1>1, <1>2, <1>3, <1>4, <1>5 DEF OneCall

-----------------------------------------------------------------------------
\* To the store a merged list is a number of calls that change nothing.
LEMMA StoreStep == ASSUME [MergedNext]_allVars PROVE [Next]_vars
BY DEF MergedNext, allVars, Next, ListPersons, MergeContracts, Answer, vars

\* The invariant of the lists is inductive beside that of the store.
LEMMA MergedInductive ==
  ASSUME PersonInv, PersonInv', MergedInv, [MergedNext]_allVars
  PROVE  MergedInv'
<1>1. CASE UNCHANGED allVars
  <2>1. /\ phase' = phase /\ Current' = Current
        /\ todo' = todo /\ merged' = merged /\ kept' = kept /\ had' = had
    BY <1>1 DEF allVars, readVars, vars, Current, ContractsOf
  <2> QED BY <2>1 DEF MergedInv, ReadTypeOK, RowsAreTrue, Watched, Idle
<1>2. CASE (Boot \/ Seed) /\ Watch
  BY <1>2, WatchKeeps DEF Boot, Seed
<1>3. CASE phase = "up" /\ OneCall /\ Watch
  BY <1>3, WatchKeeps, OneCallStaysUp
<1> QED BY <1>1, <1>2, <1>3, ListPersonsKeeps, MergeContractsKeeps, AnswerKeeps, ForgetKeeps
        DEF MergedNext

\* Every row of a merged list has all contracts that its person kept during
\* the request and none that it never had, although each row is a call of
\* its own (actListPersons, mergePersonContracts).
THEOREM RowsStayTrue == MergedSpec => []RowsAreTrue
<1>1. MergedInit => MergedInv /\ PersonInv
  <2> SUFFICES ASSUME MergedInit PROVE MergedInv /\ PersonInv
    OBVIOUS
  <2>1. \A r \in Readers : Idle(r) /\ DOMAIN merged[r] = {}
    BY DEF MergedInit, Idle, NoRows
  <2>2. ReadTypeOK
    BY <2>1 DEF MergedInit, ReadTypeOK, NoContracts
  <2>3. PersonInv
    BY InitEstablishes DEF MergedInit
  <2> QED BY <2>1, <2>2, <2>3 DEF MergedInv, RowsAreTrue
<1>2. ASSUME PersonInv, MergedInv, [MergedNext]_allVars PROVE PersonInv' /\ MergedInv'
  BY <1>2, StoreStep, Inductive, MergedInductive
<1>3. MergedInv => RowsAreTrue
  BY DEF MergedInv
<1> QED BY <1>1, <1>2, <1>3, PTL DEF MergedSpec
=============================================================================
