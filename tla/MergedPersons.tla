--------------------------- MODULE MergedPersons ----------------------------
(***************************************************************************)
(* The list of persons with their contracts merged in, which a profile     *)
(* route with merge_first_contract or merge_all_contracts answers with     *)
(* (actListPersons, mergePersonContracts): the persons are listed in one   *)
(* call of the store and the contracts of each in a call of its own, with  *)
(* requests of others in between.                                          *)
(***************************************************************************)
EXTENDS PersonStore

CONSTANTS Readers    \* the connections that ask for such a list

VARIABLES todo,      \* the listed persons still to be merged, in no order
          merged,    \* the rows so far: the contracts found for each person
          kept,      \* history: the contracts each person had all the while
          had        \* history: the contracts each person had at some time

readVars == <<todo, merged, kept, had>>
allVars == <<vars, readVars>>

Idle(r) == merged[r] = NoRows /\ todo[r] = {}

NoContracts == [p \in PersonIds |-> {}]

MergedInit == /\ Init
              /\ todo = [r \in Readers |-> {}]
              /\ merged = [r \in Readers |-> NoRows]
              /\ kept = [r \in Readers |-> NoContracts]
              /\ had = [r \in Readers |-> NoContracts]

Current == [p \in PersonIds |-> ContractsOf(contracts, p)]

\* The first call: ListPersons.
ListPersons(r) == /\ phase = "up" /\ Idle(r)
                  /\ todo' = [todo EXCEPT ![r] = DOMAIN persons]
                  /\ kept' = [kept EXCEPT ![r] = Current]
                  /\ had' = [had EXCEPT ![r] = Current]
                  /\ UNCHANGED <<vars, merged>>

\* Mutant: the contracts of everybody are merged.
ListContracts_All(p) == IF p \in DOMAIN persons THEN DOMAIN contracts ELSE {}

\* ListContracts: nothing is merged into a person that is gone by now.
ListContracts(p) == IF p \in DOMAIN persons THEN ContractsOf(contracts, p) ELSE {}

MergeContracts(r) == \E p \in todo[r] :
    /\ todo' = [todo EXCEPT ![r] = @ \ {p}]
    /\ merged' = [merged EXCEPT ![r] = Put(@, p, ListContracts(p))]
    /\ UNCHANGED <<vars, kept, had>>

Answer(r) == /\ todo[r] = {} /\ ~Idle(r)
             /\ merged' = [merged EXCEPT ![r] = NoRows]
             /\ kept' = [kept EXCEPT ![r] = NoContracts]
             /\ had' = [had EXCEPT ![r] = NoContracts]
             /\ UNCHANGED <<vars, todo>>

\* A request of somebody else goes into the history of every list under way.
Watch == /\ UNCHANGED <<todo, merged>>
         /\ kept' = [r \in Readers |-> IF Idle(r) THEN NoContracts ELSE
                        [p \in PersonIds |-> kept[r][p] \cap Current'[p]]]
         /\ had' = [r \in Readers |-> IF Idle(r) THEN NoContracts ELSE
                        [p \in PersonIds |-> had[r][p] \cup Current'[p]]]

Forget == /\ todo' = [r \in Readers |-> {}]
          /\ merged' = [r \in Readers |-> NoRows]
          /\ kept' = [r \in Readers |-> NoContracts]
          /\ had' = [r \in Readers |-> NoContracts]

MergedNext == \/ \E r \in Readers : ListPersons(r) \/ MergeContracts(r) \/ Answer(r)
              \/ Crash /\ Forget
              \/ (Boot \/ Seed \/ (phase = "up" /\ OneCall)) /\ Watch

MergedSpec == MergedInit /\ [][MergedNext]_allVars

-----------------------------------------------------------------------------
\* The merged list is made of many calls, and each row is still right: it
\* has every contract that the person kept during the request, and none
\* that the person did not have at some time during it.
RowsAreTrue == \A r \in Readers : \A p \in DOMAIN merged[r] :
    kept[r][p] \subseteq merged[r][p] /\ merged[r][p] \subseteq had[r][p]
=============================================================================
