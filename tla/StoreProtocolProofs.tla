------------------------ MODULE StoreProtocolProofs -------------------------
(***************************************************************************)
(* StoreInv is an inductive invariant of StoreProtocol, for any goroutines,*)
(* ids, names and settings; the safety properties of the store and the     *)
(* refinement of DurableTable follow.  ProtocolInv, its part on the lock,  *)
(* the map and the file, is inductive by itself and comes first.           *)
(***************************************************************************)
EXTENDS StoreProtocol, TLAPS

-----------------------------------------------------------------------------
(* Tables. *)

\* A table is a function from some of the ids to names.
LEMMA TableDef == \A t : t \in Tables <=> DOMAIN t \subseteq Ids /\ t \in [DOMAIN t -> Names]
BY DEF Tables

\* The table without rows is a table, and no name occurs twice in it.
LEMMA EmptyTable == Empty \in Tables /\ DOMAIN Empty = {} /\ Unique(Empty)
BY DEF Tables, Empty, Unique

\* A table without rows is the empty table.
LEMMA NoRows == ASSUME NEW t \in Tables, DOMAIN t = {} PROVE t = Empty
BY TableDef DEF Empty

\* Storing a name at an id gives a table that has it there.
LEMMA PutTable ==
  ASSUME NEW t \in Tables, NEW id \in Ids, NEW n \in Names
  PROVE  /\ Put(t, id, n) \in Tables
         /\ DOMAIN Put(t, id, n) = DOMAIN t \cup {id}
         /\ Put(t, id, n)[id] = n
         /\ \A i \in DOMAIN t \ {id} : Put(t, id, n)[i] = t[i]
BY TableDef DEF Put

\* Removing an id leaves a table of the other rows.
LEMMA DropTable ==
  ASSUME NEW t \in Tables, NEW id
  PROVE  /\ Drop(t, id) \in Tables
         /\ DOMAIN Drop(t, id) = DOMAIN t \ {id}
         /\ \A i \in DOMAIN t \ {id} : Drop(t, id)[i] = t[i]
BY TableDef DEF Drop

\* Two tables with the same rows are one table.
LEMMA SameTable ==
  ASSUME NEW s \in Tables, NEW t \in Tables, DOMAIN s = DOMAIN t,
         \A i \in DOMAIN t : s[i] = t[i]
  PROVE  s = t
BY TableDef

\* A row with a name of its own keeps a table unique.
LEMMA PutUnique ==
  ASSUME NEW t \in Tables, NEW id \in Ids, NEW n \in Names, Unique(t),
         \A i \in DOMAIN t \ {id} : t[i] # n
  PROVE  Unique(Put(t, id, n))
<1> DEFINE u == Put(t, id, n)
<1> SUFFICES ASSUME NEW i \in DOMAIN u, NEW j \in DOMAIN u, u[i] = u[j] PROVE i = j
  BY DEF Unique
<1>1. DOMAIN u = DOMAIN t \cup {id} /\ u[id] = n /\ \A k \in DOMAIN t \ {id} : u[k] = t[k]
  BY PutTable
<1> HIDE DEF u
<1>2. CASE i = id \/ j = id
  BY <1>1, <1>2
<1>3. CASE i # id /\ j # id
  BY <1>1, <1>3 DEF Unique
<1> QED BY <1>2, <1>3

\* Removing a row repeats no name.
LEMMA DropUnique ==
  ASSUME NEW t \in Tables, NEW id, Unique(t)
  PROVE  Unique(Drop(t, id))
<1>1. DOMAIN Drop(t, id) \subseteq DOMAIN t /\ \A i \in DOMAIN Drop(t, id) : Drop(t, id)[i] = t[i]
  BY DropTable
<1> QED BY <1>1 DEF Unique

-----------------------------------------------------------------------------
(* Requests. *)

\* The four kinds of changes, and what each carries.
LEMMA ChangeKinds ==
  ASSUME NEW r \in Changes
  PROVE  \/ r.op = "create" /\ r.name \in Names
         \/ r.op = "update" /\ r.id \in Ids /\ r.name \in Names
         \/ r.op = "delete" /\ r.id \in Ids
         \/ r.op = "seed"
BY DEF Changes, Requests, SeedReq

\* The outcome of the look at the map is one of four.
LEMMA VerdictType ==
  ASSUME NEW r \in Changes
  PROVE  Verdict(r) \in {"ok", "conflict", "notfound", "skipped"}
BY ChangeKinds DEF Verdict

\* A change that was found possible gives a table without repeated names.
LEMMA ChangedTables ==
  ASSUME mem \in Tables, Unique(mem), NEW r \in Changes, Verdict(r) = "ok",
         NEW u \in Changed(r)
  PROVE  u \in Tables /\ Unique(u)
<1>1. CASE r.op = "create" /\ r.name \in Names
  <2>1. PICK id \in Ids \ DOMAIN mem : u = Put(mem, id, r.name)
    BY <1>1 DEF Changed
  <2>2. r.name \notin RowNames(mem)
    BY <1>1 DEF Verdict
  <2>3. \A i \in DOMAIN mem \ {id} : mem[i] # r.name
    BY <2>2 DEF RowNames
  <2> QED BY <1>1, <2>1, <2>3, PutTable, PutUnique
<1>2. CASE r.op = "update" /\ r.id \in Ids /\ r.name \in Names
  <2>1. u = Put(mem, r.id, r.name)
    BY <1>2 DEF Changed
  <2>2. \A i \in DOMAIN mem \ {r.id} : mem[i] # r.name
    BY <1>2 DEF Verdict
  <2> QED BY <1>2, <2>1, <2>2, PutTable, PutUnique
<1>3. CASE r.op = "delete" /\ r.id \in Ids
  <2>1. u = Drop(mem, r.id)
    BY <1>3 DEF Changed
  <2> QED BY <2>1, DropTable, DropUnique
<1>4. CASE r.op = "seed"
  BY <1>4 DEF Changed, SeedTables
<1> QED BY <1>1, <1>2, <1>3, <1>4, ChangeKinds

-----------------------------------------------------------------------------
(* The initial states. *)

\* The invariant holds of a server that is down, whatever is in the two files.
LEMMA InitEstablishes == Init => ProtocolInv
<1> SUFFICES ASSUME Init PROVE ProtocolInv
  OBVIOUS
<1> USE StoreAssumption, EmptyTable DEF Init, Quiet, Lock!Free, File!FileInit
<1>0. file # Torn /\ OnDisk \in Tables /\ Unique(OnDisk)
  BY DEF OnDisk, File!Loaded
<1>1. TypeOK
  BY DEF TypeOK, Lock!MutexTypeOK, File!FileTypeOK, File!Stages
<1>2. LockInv
  BY DEF LockInv, Threads
<1>3. ReqInv /\ CopyInv /\ SaveInv
  BY <1>0 DEF ReqInv, CopyInv, SaveInv
<1>4. CommitInv /\ UniqueNames
  BY <1>0 DEF CommitInv, UniqueNames
<1> QED BY <1>1, <1>2, <1>3, <1>4 DEF ProtocolInv

-----------------------------------------------------------------------------
(* The steps.  The lock, the requests, the copies, the saves and the last   *)
(* completed change are kept one by one, each from LockInv.                 *)

\* Request.
LEMMA RequestPreserves ==
  ASSUME ProtocolInv, NEW t \in Clients, NEW r \in Requests, Request(t, r)
  PROVE  ProtocolInv'
<1> USE StoreAssumption DEF ProtocolInv, Request, Step
<1>1. TypeOK'
  BY DEF TypeOK, Lock!MutexTypeOK, File!FileTypeOK, File!Stages,
         lockVars, fileVars, threadVars, tableVars
<1>2. LockInv'
  BY DEF LockInv, TypeOK, lockVars, fileVars, threadVars, tableVars
<1>3. ReqInv'
  <2>1. mem' = mem /\ pc'[t] \in {"lock", "rlock"} /\ req'[t] = r
    BY DEF TypeOK, Threads, tableVars
  <2>2. pc'[t] = "lock" => r \in Changes
    BY DEF TypeOK, Threads, Changes
  <2>3. \A u \in Threads \ {t} : pc'[u] = pc[u] /\ req'[u] = req[u]
    BY DEF TypeOK, Threads
  <2>4. ASSUME NEW u \in Threads, pc'[u] = "apply" PROVE (Verdict(req[u]) = "ok")'
    <3>1. pc[u] = "apply" /\ req'[u] = req[u]
      BY <2>1, <2>3, <2>4
    <3>2. Verdict(req[u]) = "ok"
      BY <3>1 DEF ReqInv
    <3> QED BY <2>1, <3>1, <3>2 DEF Verdict
  <2> QED BY <2>1, <2>2, <2>3, <2>4 DEF ReqInv
<1>4. CopyInv'
  BY DEF CopyInv, LockInv, TypeOK, tableVars, threadVars
<1>5. SaveInv' /\ CommitInv' /\ UniqueNames'
  BY DEF SaveInv, CommitInv, UniqueNames, LockInv, TypeOK, OnDisk, File!Loaded,
         fileVars, tableVars, threadVars
<1> QED BY <1>1, <1>2, <1>3, <1>4, <1>5

\* EnterLock.
LEMMA EnterLockPreserves ==
  ASSUME ProtocolInv, NEW t \in Threads, EnterLock(t)
  PROVE  ProtocolInv'
<1> USE StoreAssumption DEF ProtocolInv, EnterLock, Lock!Announce, Step
<1>1. TypeOK'
  BY DEF TypeOK, Lock!MutexTypeOK, File!FileTypeOK, File!Stages,
         lockVars, fileVars, threadVars, tableVars
<1>2. LockInv'
  BY DEF LockInv, TypeOK, lockVars, fileVars, threadVars, tableVars
<1>3. ReqInv' /\ CopyInv'
  BY DEF ReqInv, CopyInv, LockInv, TypeOK, Verdict, Changes, tableVars, threadVars
<1>4. SaveInv' /\ CommitInv' /\ UniqueNames'
  BY DEF SaveInv, CommitInv, UniqueNames, LockInv, TypeOK, OnDisk, File!Loaded,
         fileVars, tableVars, threadVars
<1> QED BY <1>1, <1>2, <1>3, <1>4

\* Check.
LEMMA CheckPreserves ==
  ASSUME ProtocolInv, NEW t \in Threads, Check(t)
  PROVE  ProtocolInv'
<1> USE StoreAssumption DEF ProtocolInv, Check, Lock!HoldsWrite, Step, Answer
<1>0. Verdict(req[t]) \in {"ok", "conflict", "notfound", "skipped"}
  BY VerdictType DEF ReqInv
<1>1. TypeOK'
  BY <1>0 DEF TypeOK, Lock!MutexTypeOK, File!FileTypeOK, File!Stages,
              lockVars, fileVars, threadVars, tableVars
<1>2. LockInv'
  BY DEF LockInv, TypeOK, lockVars, fileVars, threadVars, tableVars
<1>3. ReqInv'
  <2>1. mem' = mem /\ req' = req
    BY DEF tableVars
  <2>2. \A r : Verdict(r)' = Verdict(r)
    BY <2>1 DEF Verdict
  <2>3. ASSUME NEW s \in Threads PROVE Verdict(req[s])' = Verdict(req[s])
    BY <2>1, <2>2
  <2> QED BY <2>1, <2>3 DEF ReqInv, TypeOK
<1>4. CopyInv'
  BY DEF CopyInv, LockInv, TypeOK, lockVars, fileVars, threadVars, tableVars
<1>5. SaveInv' /\ CommitInv' /\ UniqueNames'
  BY DEF SaveInv, CommitInv, UniqueNames, LockInv, TypeOK, OnDisk, File!Loaded,
         fileVars, tableVars, threadVars
<1> QED BY <1>1, <1>2, <1>3, <1>4, <1>5

\* Apply.
LEMMA ApplyPreserves ==
  ASSUME ProtocolInv, NEW t \in Threads, Apply(t)
  PROVE  ProtocolInv'
<1> USE StoreAssumption DEF ProtocolInv, Apply, Step
<1>0. mem' \in Tables /\ Unique(mem')
  BY ChangedTables DEF TypeOK, ReqInv, UniqueNames
<1>1. TypeOK'
  BY <1>0 DEF TypeOK, Lock!MutexTypeOK, File!FileTypeOK, File!Stages,
              lockVars, fileVars, threadVars, tableVars
<1>2. LockInv'
  BY DEF LockInv, TypeOK, lockVars, fileVars, threadVars, tableVars
<1>3. ReqInv'
  BY DEF ReqInv, LockInv, TypeOK, Verdict, Changes, lockVars, fileVars, threadVars, tableVars
<1>4. CopyInv'
  <2>1. \A s \in Threads : pc[s] # "runlock" /\ (pc[s] = "copy" => got[s] = Empty)
    BY DEF LockInv, TypeOK
  <2> QED BY <2>1, EmptyTable DEF CopyInv, TypeOK
<1>5. SaveInv'
  BY DEF SaveInv, LockInv, TypeOK, lockVars, fileVars, threadVars, tableVars
<1>6. CommitInv'
  BY DEF CommitInv, LockInv, SaveInv, TypeOK, OnDisk, File!Loaded,
         lockVars, fileVars, threadVars, tableVars
<1>7. UniqueNames'
  BY <1>0 DEF UniqueNames, OnDisk, File!Loaded, fileVars
<1> QED BY <1>1, <1>2, <1>3, <1>4, <1>5, <1>6, <1>7

\* Persist.
LEMMA PersistPreserves ==
  ASSUME ProtocolInv, NEW t \in Threads, Persist(t)
  PROVE  ProtocolInv'
<1> USE StoreAssumption DEF ProtocolInv, Persist, File!Save, File!Goto, Step
<1>1. TypeOK'
  BY DEF TypeOK, Lock!MutexTypeOK, File!FileTypeOK, File!Stages,
         lockVars, fileVars, threadVars, tableVars
<1>2. LockInv'
  BY DEF LockInv, TypeOK, lockVars, fileVars, threadVars, tableVars
<1>3. ReqInv' /\ CopyInv'
  BY DEF ReqInv, CopyInv, LockInv, TypeOK, Verdict, Changes, tableVars, threadVars
<1>4. SaveInv'
  <2>1. \A s \in Threads \ {t} :
           stage'[s] = stage[s] /\ content'[s] = content[s] /\ pc'[s] = pc[s]
    BY DEF TypeOK, File!FileTypeOK
  <2>2. stage'[t] = "create" /\ content'[t] = mem /\ pc'[t] = "saving"
    BY DEF TypeOK, File!FileTypeOK
  <2> QED BY <2>1, <2>2 DEF SaveInv, tableVars
<1>5. CommitInv'
  BY DEF CommitInv, LockInv, SaveInv, TypeOK, OnDisk, File!Loaded,
         lockVars, fileVars, threadVars, tableVars
<1>6. UniqueNames'
  BY DEF UniqueNames, OnDisk, File!Loaded, lockVars, fileVars, threadVars, tableVars
<1> QED BY <1>1, <1>2, <1>3, <1>4, <1>5, <1>6

\* PersistNothing.
LEMMA PersistNothingPreserves ==
  ASSUME ProtocolInv, NEW t \in Threads, PersistNothing(t)
  PROVE  ProtocolInv'
<1> USE StoreAssumption DEF ProtocolInv, PersistNothing, Step
<1>1. TypeOK'
  BY DEF TypeOK, Lock!MutexTypeOK, File!FileTypeOK, File!Stages,
         lockVars, fileVars, threadVars, tableVars
<1>2. LockInv'
  BY DEF LockInv, TypeOK, lockVars, fileVars, threadVars, tableVars
<1>3. ReqInv' /\ CopyInv'
  BY DEF ReqInv, CopyInv, LockInv, TypeOK, Verdict, Changes, tableVars, threadVars
<1>4. SaveInv' /\ CommitInv' /\ UniqueNames'
  BY DEF SaveInv, CommitInv, UniqueNames, LockInv, TypeOK, OnDisk, File!Loaded,
         fileVars, tableVars, threadVars
<1> QED BY <1>1, <1>2, <1>3, <1>4

\* Saving.
LEMMA SavingPreserves ==
  ASSUME ProtocolInv, NEW t \in Threads, Saving(t)
  PROVE  ProtocolInv'
<1> USE StoreAssumption DEF ProtocolInv, Saving, File!SaveStep, File!CreateTmp, File!Encode,
                            File!Close, File!Discard, File!Rename, File!Goto
<1>1. TypeOK'
  BY DEF TypeOK, Lock!MutexTypeOK, File!FileTypeOK, File!Stages,
         lockVars, fileVars, threadVars, tableVars
<1>2. LockInv'
  BY DEF LockInv, TypeOK, lockVars, fileVars, threadVars, tableVars
<1>3. ReqInv' /\ CopyInv'
  BY DEF ReqInv, CopyInv, LockInv, TypeOK, Verdict, Changes, tableVars, threadVars
<1>a. /\ pc[t] = "saving" /\ owner = t /\ storage = "file" /\ content[t] = mem
      /\ stage[t] \notin {"idle", "ok", "failed"}
  BY DEF LockInv, SaveInv, TypeOK
<1>b. \A s \in Threads \ {t} : pc[s] \notin {"saving", "persist"} /\ stage[s] = "idle"
  BY <1>a DEF LockInv, SaveInv, TypeOK
<1>c. /\ \A s \in Threads \ {t} : stage'[s] = "idle"
      /\ content' = content /\ pc' = pc /\ mem' = mem /\ stage'[t] # "idle"
  BY <1>b DEF TypeOK, File!FileTypeOK, threadVars
<1>4. SaveInv'
  <2>1. /\ stage'[t] \in {"close", "rename"} => tmp' = mem
        /\ stage'[t] = "ok" => file' = mem
    BY <1>a DEF SaveInv, TypeOK, File!FileTypeOK
  <2>2. file' # Torn
    BY <1>a DEF SaveInv, TypeOK
  <2> QED BY <1>a, <1>b, <1>c, <2>1, <2>2 DEF SaveInv
<1>d. \/ stage'[t] = "ok" /\ file' = mem
      \/ stage'[t] # "ok" /\ file' = file
  BY <1>a DEF SaveInv, TypeOK, File!FileTypeOK
<1>5. CommitInv'
  <2>1. CASE stage'[t] = "ok"
    <3>1. file' = mem /\ committed' = mem
      BY <1>d, <2>1
    <3>2. file' # NoFile
      BY <3>1 DEF TypeOK
    <3> QED BY <1>c, <3>1, <3>2 DEF CommitInv, OnDisk, File!Loaded
  <2>2. CASE stage'[t] = "failed"
    BY <1>c, <2>2 DEF CommitInv
  <2>3. CASE stage'[t] \notin {"ok", "failed"}
    BY <1>a, <1>c, <1>d, <2>3 DEF CommitInv, OnDisk, File!Loaded
  <2> QED BY <2>1, <2>2, <2>3
<1>6. UniqueNames'
  BY <1>c, <1>d, EmptyTable DEF UniqueNames, OnDisk, File!Loaded
<1> QED BY <1>1, <1>2, <1>3, <1>4, <1>5, <1>6

\* Saved.
LEMMA SavedPreserves ==
  ASSUME ProtocolInv, NEW t \in Threads, Saved(t)
  PROVE  ProtocolInv'
<1> USE StoreAssumption DEF ProtocolInv, Saved, File!Return, File!Done, File!Goto, Step
<1>1. TypeOK'
  BY DEF TypeOK, Lock!MutexTypeOK, File!FileTypeOK, File!Stages,
         lockVars, fileVars, threadVars, tableVars
<1>2. LockInv'
  BY DEF LockInv, TypeOK, lockVars, fileVars, threadVars, tableVars
<1>3. ReqInv' /\ CopyInv'
  BY DEF ReqInv, CopyInv, LockInv, TypeOK, Verdict, Changes, tableVars, threadVars
<1>4. SaveInv'
  <2>1. \A s \in Threads \ {t} :
           stage'[s] = stage[s] /\ content'[s] = content[s] /\ pc'[s] = pc[s]
    BY DEF TypeOK, File!FileTypeOK
  <2>2. stage'[t] = "idle" /\ pc'[t] = "unlock"
    BY DEF TypeOK, File!FileTypeOK
  <2> QED BY <2>1, <2>2 DEF SaveInv, tableVars
<1>5. CommitInv'
  BY DEF CommitInv, LockInv, SaveInv, TypeOK, OnDisk, File!Loaded,
         lockVars, fileVars, threadVars, tableVars
<1>6. UniqueNames'
  BY DEF UniqueNames, OnDisk, File!Loaded, lockVars, fileVars, threadVars, tableVars
<1> QED BY <1>1, <1>2, <1>3, <1>4, <1>5, <1>6

\* LeaveLock.
LEMMA LeaveLockPreserves ==
  ASSUME ProtocolInv, NEW t \in Threads, LeaveLock(t)
  PROVE  ProtocolInv'
<1> USE StoreAssumption DEF ProtocolInv, LeaveLock, Lock!Unlock, Lock!HoldsWrite, Step
<1>1. TypeOK'
  BY DEF TypeOK, Lock!MutexTypeOK, File!FileTypeOK, File!Stages,
         lockVars, fileVars, threadVars, tableVars
<1>2. LockInv'
  BY DEF LockInv, TypeOK, lockVars, fileVars, threadVars, tableVars
<1>3. ReqInv' /\ CopyInv'
  BY DEF ReqInv, CopyInv, LockInv, TypeOK, Verdict, Changes, tableVars, threadVars
<1>4. SaveInv' /\ CommitInv' /\ UniqueNames'
  BY DEF SaveInv, CommitInv, UniqueNames, LockInv, TypeOK, OnDisk, File!Loaded,
         fileVars, tableVars, threadVars
<1> QED BY <1>1, <1>2, <1>3, <1>4

\* EnterRead.
LEMMA EnterReadPreserves ==
  ASSUME ProtocolInv, NEW t \in Threads, EnterRead(t)
  PROVE  ProtocolInv'
<1> USE StoreAssumption DEF ProtocolInv, EnterRead, Lock!RLock, Step
<1>1. TypeOK'
  BY DEF TypeOK, Lock!MutexTypeOK, File!FileTypeOK, File!Stages,
         lockVars, fileVars, threadVars, tableVars
<1>a. got[t] = Empty /\ t \notin active /\ t \notin parked /\ owner # t
  BY DEF LockInv, CopyInv, TypeOK, Threads
<1>2. LockInv'
  <2>1. CASE owner = Nobody
    BY <1>a, <2>1 DEF LockInv, TypeOK, threadVars
  <2>2. CASE owner # Nobody
    BY <1>a, <2>2 DEF LockInv, TypeOK, threadVars
  <2> QED BY <2>1, <2>2
<1>3. ReqInv'
  BY DEF ReqInv, LockInv, TypeOK, Verdict, Changes, lockVars, fileVars, threadVars, tableVars
<1>4. CopyInv'
  <2>1. pc'[t] = "copy" /\ got' = got /\ mem' = mem /\ \A s \in Threads \ {t} : pc'[s] = pc[s]
    BY DEF TypeOK, tableVars
  <2> QED BY <1>a, <2>1, EmptyTable DEF CopyInv
<1>5. SaveInv' /\ CommitInv' /\ UniqueNames'
  BY DEF SaveInv, CommitInv, UniqueNames, LockInv, TypeOK, OnDisk, File!Loaded,
         fileVars, tableVars, threadVars
<1> QED BY <1>1, <1>2, <1>3, <1>4, <1>5

\* CopyRow.
LEMMA CopyRowPreserves ==
  ASSUME ProtocolInv, NEW t \in Threads, CopyRow(t)
  PROVE  ProtocolInv'
<1> USE StoreAssumption DEF ProtocolInv, CopyRow, Lock!HoldsRead
<1>0. PICK id \in DOMAIN mem \ DOMAIN got[t] : got' = [got EXCEPT ![t] = Put(got[t], id, mem[id])]
  OBVIOUS
<1>a. id \in Ids /\ mem[id] \in Names /\ got[t] \in Tables
  BY TableDef DEF TypeOK
<1> DEFINE u == Put(got[t], id, mem[id])
<1>b. /\ u \in Tables /\ DOMAIN u = DOMAIN got[t] \cup {id}
      /\ u[id] = mem[id] /\ \A i \in DOMAIN got[t] \ {id} : u[i] = got[t][i]
  <2>1. u \in Tables
    BY <1>a, PutTable
  <2>2. DOMAIN u = DOMAIN got[t] \cup {id}
    BY <1>a, PutTable
  <2>3. u[id] = mem[id] /\ \A i \in DOMAIN got[t] \ {id} : u[i] = got[t][i]
    BY DEF Put
  <2> QED BY <2>1, <2>2, <2>3
<1>c. got' = [got EXCEPT ![t] = u]
  BY <1>0
<1> HIDE DEF u
<1>1. TypeOK'
  BY <1>b, <1>c DEF TypeOK, Lock!MutexTypeOK, File!FileTypeOK, lockVars, fileVars, tableVars
<1>2. LockInv'
  BY DEF LockInv, TypeOK, lockVars, fileVars, threadVars, tableVars
<1>3. ReqInv'
  BY DEF ReqInv, LockInv, TypeOK, Verdict, Changes, lockVars, fileVars, threadVars, tableVars
<1>4. CopyInv'
  <2>1. pc[t] = "copy" /\ pc' = pc /\ mem' = mem
    BY DEF tableVars
  <2>2. ASSUME NEW i \in DOMAIN got'[t] PROVE i \in DOMAIN mem /\ got'[t][i] = mem[i]
    BY <1>b, <1>c, <2>1 DEF CopyInv, TypeOK
  <2>3. \A s \in Threads \ {t} : got'[s] = got[s]
    BY <1>c DEF TypeOK
  <2> QED BY <2>1, <2>2, <2>3 DEF CopyInv
<1>5. SaveInv' /\ CommitInv' /\ UniqueNames'
  BY DEF SaveInv, CommitInv, UniqueNames, LockInv, TypeOK, OnDisk, File!Loaded,
         fileVars, tableVars, threadVars
<1> QED BY <1>1, <1>2, <1>3, <1>4, <1>5

\* CopyDone.
LEMMA CopyDonePreserves ==
  ASSUME ProtocolInv, NEW t \in Threads, CopyDone(t)
  PROVE  ProtocolInv'
<1> USE StoreAssumption DEF ProtocolInv, CopyDone, Lock!HoldsRead, Step, Answer
<1>1. TypeOK'
  BY DEF TypeOK, Lock!MutexTypeOK, File!FileTypeOK, File!Stages,
         lockVars, fileVars, threadVars, tableVars
<1>2. LockInv'
  BY DEF LockInv, TypeOK, lockVars, fileVars, threadVars, tableVars
<1>3. ReqInv' /\ CopyInv'
  BY DEF ReqInv, CopyInv, LockInv, TypeOK, Verdict, Changes, tableVars, threadVars
<1>4. SaveInv' /\ CommitInv' /\ UniqueNames'
  BY DEF SaveInv, CommitInv, UniqueNames, LockInv, TypeOK, OnDisk, File!Loaded,
         fileVars, tableVars, threadVars
<1> QED BY <1>1, <1>2, <1>3, <1>4

\* LeaveRead.
LEMMA LeaveReadPreserves ==
  ASSUME ProtocolInv, NEW t \in Threads, LeaveRead(t)
  PROVE  ProtocolInv'
<1> USE StoreAssumption DEF ProtocolInv, LeaveRead, Lock!RUnlock, Lock!HoldsRead, Step
<1>1. TypeOK'
  BY DEF TypeOK, Lock!MutexTypeOK, File!FileTypeOK, File!Stages,
         lockVars, fileVars, threadVars, tableVars
<1>2. LockInv'
  BY DEF LockInv, TypeOK, lockVars, fileVars, threadVars, tableVars
<1>3. ReqInv' /\ CopyInv'
  BY DEF ReqInv, CopyInv, LockInv, TypeOK, Verdict, Changes, tableVars, threadVars
<1>4. SaveInv' /\ CommitInv' /\ UniqueNames'
  BY DEF SaveInv, CommitInv, UniqueNames, LockInv, TypeOK, OnDisk, File!Loaded,
         fileVars, tableVars, threadVars
<1> QED BY <1>1, <1>2, <1>3, <1>4

\* Reply.
LEMMA ReplyPreserves ==
  ASSUME ProtocolInv, NEW t \in Threads, Reply(t)
  PROVE  ProtocolInv'
<1> USE StoreAssumption DEF ProtocolInv, Reply, Step, Answer
<1>1. TypeOK'
  BY EmptyTable DEF TypeOK, Lock!MutexTypeOK, File!FileTypeOK, File!Stages,
              lockVars, fileVars, threadVars, tableVars
<1>2. LockInv'
  BY DEF LockInv, TypeOK, lockVars, fileVars, threadVars, tableVars
<1>3. ReqInv'
  <2>1. mem' = mem /\ pc'[t] = "idle" /\ \A s \in Threads \ {t} : req'[s] = req[s] /\ pc'[s] = pc[s]
    BY DEF TypeOK, tableVars
  <2>2. \A r : Verdict(r)' = Verdict(r)
    BY <2>1 DEF Verdict
  <2>3. ASSUME NEW s \in Threads \ {t} PROVE Verdict(req[s])' = Verdict(req[s])
    BY <2>1, <2>2
  <2> QED BY <2>1, <2>3 DEF ReqInv
<1>4. CopyInv'
  <2>1. /\ got'[t] = Empty /\ pc'[t] = "idle" /\ mem' = mem
        /\ \A s \in Threads \ {t} : got'[s] = got[s] /\ pc'[s] = pc[s]
    BY DEF TypeOK, tableVars
  <2> QED BY <2>1 DEF CopyInv
<1>5. SaveInv' /\ CommitInv' /\ UniqueNames'
  BY DEF SaveInv, CommitInv, UniqueNames, LockInv, TypeOK, OnDisk, File!Loaded,
         fileVars, tableVars, threadVars
<1> QED BY <1>1, <1>2, <1>3, <1>4, <1>5

\* Booted: the map is what was read from the file, or empty with the error logged.
LEMMA BootedPreserves ==
  ASSUME ProtocolInv, phase = "down", NEW u \in Tables, Unique(u), NEW failed \in BOOLEAN,
         ~failed => u = OnDisk \/ storage = "memory",
         Booted(u, failed)
  PROVE  ProtocolInv'
<1> USE StoreAssumption DEF ProtocolInv, Booted
<1>0. /\ \A s \in Threads : pc[s] = "idle" /\ s \notin active /\ s \notin parked /\ owner # s
      /\ \A s \in Threads : pc'[s] \in {"idle", "lock"}
      /\ \A s \in Threads : stage[s] = "idle"
  BY DEF LockInv, SaveInv, TypeOK, Threads
<1>1. TypeOK'
  BY DEF TypeOK, Lock!MutexTypeOK, File!FileTypeOK, Threads, lockVars, fileVars
<1>2. LockInv'
  BY <1>0 DEF LockInv, lockVars
<1>3. ReqInv'
  <2>1. \A s \in Threads : pc'[s] = "lock" => s = Main /\ req'[s] = SeedReq
    BY <1>0 DEF TypeOK, Threads
  <2> QED BY <1>0, <2>1 DEF ReqInv, Changes
<1>4. CopyInv'
  BY <1>0 DEF CopyInv
<1>5. SaveInv'
  BY <1>0 DEF SaveInv, fileVars
<1>6. CommitInv'
  BY DEF CommitInv, OnDisk, File!Loaded, fileVars
<1>7. UniqueNames'
  BY DEF UniqueNames, OnDisk, File!Loaded, fileVars
<1> QED BY <1>1, <1>2, <1>3, <1>4, <1>5, <1>6, <1>7

\* NewStore takes the table of the file over, or none when it cannot be read.
LEMMA BootPreserves ==
  ASSUME ProtocolInv, Boot
  PROVE  ProtocolInv'
<1>1. OnDisk \in Tables /\ Unique(OnDisk)
  BY EmptyTable DEF ProtocolInv, TypeOK, File!FileTypeOK, SaveInv, UniqueNames, OnDisk, File!Loaded
<1>2. CASE Load
  BY <1>1, <1>2, EmptyTable, BootedPreserves DEF Load
<1>3. CASE LoadNothing
  BY <1>3, EmptyTable, BootedPreserves DEF LoadNothing
<1> QED BY <1>2, <1>3 DEF Boot

\* Crash: the file stays, and it was one whole table.
LEMMA CrashPreserves ==
  ASSUME ProtocolInv, Crash
  PROVE  ProtocolInv'
<1> USE StoreAssumption, EmptyTable DEF ProtocolInv, Crash, File!Die
<1>1. TypeOK'
  BY DEF TypeOK, Lock!MutexTypeOK, File!FileTypeOK, File!Stages
<1>2. LockInv'
  BY DEF LockInv, Threads
<1>3. ReqInv' /\ CopyInv' /\ SaveInv'
  BY DEF ReqInv, CopyInv, SaveInv
<1>4. CommitInv' /\ UniqueNames'
  BY DEF CommitInv, UniqueNames, OnDisk, File!Loaded
<1> QED BY <1>1, <1>2, <1>3, <1>4

\* A step that changes nothing.
LEMMA StutterPreserves ==
  ASSUME ProtocolInv, UNCHANGED vars
  PROVE  ProtocolInv'
<1> USE DEF ProtocolInv, vars, lockVars, fileVars, threadVars, tableVars
<1>1. TypeOK'
  BY DEF TypeOK, Lock!MutexTypeOK, File!FileTypeOK
<1>2. LockInv' /\ CopyInv' /\ SaveInv'
  BY DEF LockInv, CopyInv, SaveInv
<1>3. ReqInv'
  BY DEF ReqInv, Verdict, Changes
<1>4. CommitInv' /\ UniqueNames'
  BY DEF CommitInv, UniqueNames, OnDisk, File!Loaded
<1> QED BY <1>1, <1>2, <1>3, <1>4

-----------------------------------------------------------------------------
(* The theorems. *)

\* Every step of every goroutine, every boot and every crash keeps the invariant.
LEMMA NextPreserves == ProtocolInv /\ [Next]_vars => ProtocolInv'
<1> SUFFICES ASSUME ProtocolInv, [Next]_vars PROVE ProtocolInv'
  OBVIOUS
<1>1. CASE Boot
  BY <1>1, BootPreserves
<1>2. ASSUME NEW t \in Clients, NEW r \in Requests, Request(t, r) PROVE ProtocolInv'
  BY <1>2, RequestPreserves
<1>3. ASSUME NEW t \in Threads, ThreadStep(t) PROVE ProtocolInv'
  <2>1. CASE EnterLock(t) \/ Check(t) \/ Apply(t) \/ LeaveLock(t)
    BY <2>1, EnterLockPreserves, CheckPreserves, ApplyPreserves, LeaveLockPreserves
  <2>2. CASE Persist(t) \/ PersistNothing(t) \/ Saving(t) \/ Saved(t)
    BY <2>2, PersistPreserves, PersistNothingPreserves, SavingPreserves, SavedPreserves
  <2>3. CASE EnterRead(t) \/ CopyRow(t) \/ CopyDone(t) \/ LeaveRead(t) \/ Reply(t)
    BY <2>3, EnterReadPreserves, CopyRowPreserves, CopyDonePreserves, LeaveReadPreserves,
       ReplyPreserves
  <2> QED BY <1>3, <2>1, <2>2, <2>3 DEF ThreadStep
<1>4. CASE Crash
  BY <1>4, CrashPreserves
<1>5. CASE UNCHANGED vars
  BY <1>5, StutterPreserves
<1> QED BY <1>1, <1>2, <1>3, <1>4, <1>5 DEF Next

\* The part of the invariant on the lock, the map and the file.
THEOREM ProtocolInvariant == Spec => []ProtocolInv
BY InitEstablishes, NextPreserves, PTL DEF Spec

\* Every variable keeps its type.
THEOREM TypeCorrect == Spec => []TypeOK
<1>1. ProtocolInv => TypeOK
  BY DEF ProtocolInv
<1> QED BY <1>1, ProtocolInvariant, PTL

\* No two users share a username, in the map of Create and Update or in users.json.
THEOREM NamesStayUnique == Spec => []UniqueNames
<1>1. ProtocolInv => UniqueNames
  BY DEF ProtocolInv
<1> QED BY <1>1, ProtocolInvariant, PTL

\* At a reader's runlock no change is half done and the copy is the map.
LEMMA ReaderSeesAll ==
  ASSUME ProtocolInv, NEW t \in Threads, pc[t] = "runlock"
  PROVE  got[t] = mem /\ mem = committed
<1> USE DEF ProtocolInv
<1>1. mem = committed
  <2>1. t \in active
    BY DEF LockInv
  <2>2. \A s \in Threads : pc[s] \notin {"persist", "saving"}
    BY <2>1 DEF LockInv
  <2> QED BY <2>2 DEF CommitInv
<1>2. got[t] = mem
  <2>1. got[t] \in Tables /\ mem \in Tables
    BY DEF TypeOK
  <2>2. DOMAIN got[t] = DOMAIN mem /\ \A i \in DOMAIN mem : got[t][i] = mem[i]
    BY DEF CopyInv
  <2> QED BY <2>1, <2>2, SameTable
<1> QED BY <1>1, <1>2

\* The rows that List collects under the read lock are one whole table the
\* store had between two changes.
THEOREM ListsAreSnapshots == Spec => []ListIsSnapshot
<1>1. ProtocolInv => ListIsSnapshot
  BY ReaderSeesAll DEF ListIsSnapshot
<1> QED BY <1>1, ProtocolInvariant, PTL

\* What List shows is in users.json, unless a save was logged as failed.
THEOREM ListsAreDurable == Spec => []ListIsDurable
<1>1. ASSUME ProtocolInv PROVE ListIsDurable
  <2> SUFFICES ASSUME NEW t \in Threads, pc[t] = "runlock", storage = "file", ~unsaved
               PROVE  got[t] = OnDisk
    BY DEF ListIsDurable
  <2>1. got[t] = committed
    BY <1>1, ReaderSeesAll
  <2>2. phase # "down"
    BY <1>1 DEF ProtocolInv, LockInv
  <2> QED BY <1>1, <2>1, <2>2 DEF ProtocolInv, CommitInv
<1> QED BY <1>1, ProtocolInvariant, PTL

\* A change whose caller is about to be answered is in users.json, unless
\* its save was logged as failed.
THEOREM AnswersAreDurable == Spec => []AckIsDurable
<1>1. ASSUME ProtocolInv PROVE AckIsDurable
  <2> SUFFICES ASSUME NEW t \in Threads, pc[t] = "unlock", storage = "file", ~unsaved
               PROVE  mem = OnDisk
    BY DEF AckIsDurable
  <2>1. mem = committed
    BY <1>1 DEF ProtocolInv, CommitInv, LockInv, TypeOK
  <2>2. phase # "down"
    BY <1>1 DEF ProtocolInv, LockInv
  <2> QED BY <1>1, <2>1, <2>2 DEF ProtocolInv, CommitInv
<1> QED BY <1>1, ProtocolInvariant, PTL

\* users.json is never a part of an encoding, wherever saveJSON fails or the
\* server dies.
THEOREM FileStaysWhole == Spec => []FileIsWhole
<1>1. ProtocolInv => FileIsWhole
  BY DEF ProtocolInv, SaveInv, FileIsWhole
<1> QED BY <1>1, ProtocolInvariant, PTL

-----------------------------------------------------------------------------
(* The rest of StoreInv: which operation is being saved, and the boot.      *)

\* What the look at the map found is what DurableTable asks of the change.
LEMMA ChangedIsAfter ==
  ASSUME NEW r \in Changes, Verdict(r) = "ok", NEW u \in Changed(r)
  PROVE  After(mem, r, u)
<1>1. CASE r.op = "create"
  BY <1>1 DEF Verdict, Changed, After
<1>2. CASE r.op = "update"
  BY <1>2 DEF Verdict, Changed, After, RowNames
<1>3. CASE r.op = "delete"
  BY <1>3 DEF Verdict, Changed, After
<1>4. CASE r.op = "seed"
  BY <1>4 DEF Verdict, Changed, After
<1> QED BY <1>1, <1>2, <1>3, <1>4, ChangeKinds

\* A step after which the same changes are in the making, with the same tables.
LEMMA SameChanges ==
  ASSUME ChangeInv, committed' = committed, mem' = mem,
         \A s \in Threads : Completing(s)' => Completing(s) /\ req'[s] = req[s]
  PROVE  ChangeInv'
<1> SUFFICES ASSUME NEW s \in Threads, Completing(s)' PROVE (req[s] \in Changes /\ After(committed, req[s], mem))'
  BY DEF ChangeInv
<1>1. req[s] \in Changes /\ After(committed, req[s], mem) /\ req'[s] = req[s]
  BY DEF ChangeInv
<1> QED BY <1>1 DEF After, Changes

\* No change is in the making.
LEMMA NoChanges ==
  ASSUME \A s \in Threads : ~Completing(s)'
  PROVE  ChangeInv'
BY DEF ChangeInv

\* Every step keeps ChangeInv: only Apply starts a change, from a completed one.
LEMMA ChangePreserves ==
  ASSUME ProtocolInv, ChangeInv, [Next]_vars
  PROVE  ChangeInv'
<1> USE StoreAssumption DEF ProtocolInv, lockVars, fileVars, threadVars, tableVars, Step, Answer
<1>1. CASE Boot
  <2>1. \A s \in Threads : ~Completing(s)'
    BY <1>1 DEF Boot, Load, LoadNothing, Booted, LockInv, TypeOK, Threads, Completing
  <2> QED BY <2>1, NoChanges
<1>2. ASSUME NEW t \in Clients, NEW r \in Requests, Request(t, r) PROVE ChangeInv'
  <2>1. \A s \in Threads : Completing(s)' => Completing(s) /\ req'[s] = req[s]
    BY <1>2 DEF Request, TypeOK, Completing, Threads
  <2> QED BY <1>2, <2>1, SameChanges DEF Request
<1>3. ASSUME NEW t \in Threads, Apply(t) PROVE ChangeInv'
  <2>1. mem = committed /\ \A s \in Threads : Completing(s)' => s = t
    BY <1>3 DEF Apply, LockInv, CommitInv, TypeOK, Completing
  <2>2. req[t] \in Changes /\ After(mem, req[t], mem')
    BY <1>3, ChangedIsAfter DEF Apply, ReqInv
  <2>3. committed' = committed /\ req' = req
    BY <1>3 DEF Apply
  <2>4. (req[t] \in Changes /\ After(committed, req[t], mem))'
    BY <2>1, <2>2, <2>3 DEF After, Changes
  <2> QED BY <2>1, <2>4 DEF ChangeInv
<1>4. ASSUME NEW t \in Threads, Saving(t) PROVE ChangeInv'
  <2> USE <1>4 DEF Saving
  <2>1. \A s \in Threads \ {t} : pc[s] \notin {"persist", "saving"}
    BY DEF LockInv, TypeOK
  <2>2. CASE stage'[t] \in {"ok", "failed"}
    <3>1. \A s \in Threads : ~Completing(s)'
      BY <2>1, <2>2 DEF Completing
    <3> QED BY <3>1, NoChanges
  <2>3. CASE stage'[t] \notin {"ok", "failed"}
    <3>1. stage[t] \notin {"ok", "failed"}
      BY DEF File!SaveStep, File!CreateTmp, File!Encode, File!Close, File!Discard, File!Rename
    <3>2. \A s \in Threads : Completing(s)' => Completing(s) /\ req'[s] = req[s]
      BY <2>1, <3>1 DEF Completing
    <3> QED BY <2>3, <3>2, SameChanges
  <2> QED BY <2>2, <2>3
<1>5. ASSUME NEW t \in Threads, Persist(t) \/ Saved(t) PROVE ChangeInv'
  <2>1. \A s \in Threads : Completing(s)' => Completing(s) /\ req'[s] = req[s]
    BY <1>5 DEF Persist, Saved, File!Save, File!Return, File!Done, File!Goto, TypeOK,
                File!FileTypeOK, Completing
  <2> QED BY <1>5, <2>1, SameChanges DEF Persist, Saved
<1>6. ASSUME NEW t \in Threads, PersistNothing(t) PROVE ChangeInv'
  <2>1. \A s \in Threads : ~Completing(s)'
    BY <1>6 DEF PersistNothing, LockInv, SaveInv, TypeOK, Completing
  <2> QED BY <2>1, NoChanges
<1>7. ASSUME NEW t \in Threads, EnterLock(t) \/ Check(t) \/ LeaveLock(t) PROVE ChangeInv'
  <2>1. \A s \in Threads : Completing(s)' => Completing(s) /\ req'[s] = req[s]
    BY <1>7 DEF EnterLock, Check, LeaveLock, TypeOK, Completing
  <2> QED BY <1>7, <2>1, SameChanges DEF EnterLock, Check, LeaveLock
<1>8. ASSUME NEW t \in Threads,
             EnterRead(t) \/ CopyRow(t) \/ CopyDone(t) \/ LeaveRead(t) \/ Reply(t)
      PROVE  ChangeInv'
  <2>1. \A s \in Threads : Completing(s)' => Completing(s) /\ req'[s] = req[s]
    BY <1>8 DEF EnterRead, CopyRow, CopyDone, LeaveRead, Reply, TypeOK, Completing
  <2> QED BY <1>8, <2>1, SameChanges DEF EnterRead, CopyRow, CopyDone, LeaveRead, Reply
<1>9. CASE Crash
  <2>1. \A s \in Threads : ~Completing(s)'
    BY <1>9 DEF Crash, Completing
  <2> QED BY <2>1, NoChanges
<1>10. CASE UNCHANGED vars
  <2>1. \A s \in Threads : Completing(s)' => Completing(s) /\ req'[s] = req[s]
    BY <1>10 DEF vars, Completing
  <2> QED BY <1>10, <2>1, SameChanges DEF vars
<1> QED BY <1>1, <1>2, <1>3, <1>4, <1>5, <1>6, <1>7, <1>8, <1>9, <1>10 DEF Next, ThreadStep

\* Every step keeps BootInv.
LEMMA BootInvPreserves ==
  ASSUME ProtocolInv, BootInv, [Next]_vars
  PROVE  BootInv'
<1> USE StoreAssumption DEF ProtocolInv, BootInv, Threads, Completing, lockVars, fileVars,
                            threadVars, tableVars, Step, Answer
<1>1. CASE Boot
  BY <1>1 DEF Boot, Load, LoadNothing, Booted, LockInv, TypeOK
<1>2. ASSUME NEW t \in Clients, NEW r \in Requests, Request(t, r) PROVE BootInv'
  BY <1>2 DEF Request, TypeOK
<1>3. ASSUME NEW t \in Threads, EnterLock(t) \/ Check(t) \/ Apply(t) PROVE BootInv'
  BY <1>3 DEF EnterLock, Check, Apply, TypeOK
<1>4. ASSUME NEW t \in Threads, Persist(t) \/ PersistNothing(t) PROVE BootInv'
  <2>1. CASE t = Main
    BY <1>4, <2>1 DEF Persist, PersistNothing, File!Save, File!Goto, TypeOK, File!FileTypeOK, SaveInv
  <2>2. CASE t # Main
    BY <1>4, <2>2 DEF Persist, PersistNothing, File!Save, File!Goto, TypeOK, File!FileTypeOK, SaveInv
  <2> QED BY <2>1, <2>2
<1>5. ASSUME NEW t \in Threads, Saving(t) PROVE BootInv'
  <2>1. CASE t = Main
    <3>1. stage[t] \notin {"ok", "failed"}
      BY <1>5 DEF Saving, File!SaveStep, File!CreateTmp, File!Encode, File!Close,
                  File!Discard, File!Rename
    <3>2. LoadMayFail \/ ~unsaved \/ phase # "booting"
      BY <1>5, <2>1, <3>1 DEF Saving
    <3>3. stage'[t] \in {"ok", "failed"} \/ unsaved' = unsaved
      BY <1>5 DEF Saving
    <3>4. phase' = phase /\ pc' = pc /\ req' = req
      BY <1>5 DEF Saving
    <3> QED BY <1>5, <2>1, <3>2, <3>3, <3>4 DEF Saving
  <2>2. CASE t # Main
    BY <1>5, <2>2 DEF Saving, TypeOK
  <2> QED BY <2>1, <2>2
<1>6. ASSUME NEW t \in Threads, Saved(t) PROVE BootInv'
  BY <1>6 DEF Saved, File!Return, File!Done, File!Goto, TypeOK, File!FileTypeOK
<1>7. ASSUME NEW t \in Threads, LeaveLock(t) PROVE BootInv'
  BY <1>7 DEF LeaveLock, TypeOK
<1>8. ASSUME NEW t \in Threads,
             EnterRead(t) \/ CopyRow(t) \/ CopyDone(t) \/ LeaveRead(t) \/ Reply(t)
      PROVE  BootInv'
  BY <1>8 DEF EnterRead, CopyRow, CopyDone, LeaveRead, Reply, TypeOK
<1>9. CASE Crash
  BY <1>9 DEF Crash
<1>10. CASE UNCHANGED vars
  BY <1>10 DEF vars
<1> QED BY <1>1, <1>2, <1>3, <1>4, <1>5, <1>6, <1>7, <1>8, <1>9, <1>10 DEF Next, ThreadStep

\* The strengthened invariant: what each goroutine may rely on at each line
\* of Create, Update, Delete, Seed and List, of the lock, the map and the
\* file, and how far the map is ahead of the file.
THEOREM StoreInvariant == Spec => []StoreInv
<1>1. Init => StoreInv
  BY InitEstablishes, StoreAssumption
     DEF Init, Quiet, StoreInv, ChangeInv, BootInv, Completing, Threads
<1>2. StoreInv /\ [Next]_vars => StoreInv'
  BY NextPreserves, ChangePreserves, BootInvPreserves DEF StoreInv
<1> QED BY <1>1, <1>2, PTL DEF Spec

\* A saveJSON that reported success has left the rows of persist in users.json.
THEOREM SuccessIsSaved == Spec => []SuccessMeansSaved
<1>1. StoreInv => SuccessMeansSaved
  BY DEF StoreInv, ProtocolInv, SaveInv, SuccessMeansSaved, File!SuccessMeansSaved
<1> QED BY <1>1, StoreInvariant, PTL

\* The file changes in a save only, and in its rename, to the rows of the map.
LEMMA FileChanges ==
  ASSUME StoreInv, [Next]_vars, file' # file
  PROVE  \E t \in Threads : /\ Saving(t) /\ stage[t] = "rename" /\ stage'[t] = "ok"
                            /\ file' = mem /\ file' = content[t]
<1> USE DEF StoreInv, ProtocolInv, lockVars, fileVars, threadVars, tableVars
<1>1. PICK t \in Threads : Saving(t)
  <2>1. ~Boot /\ ~Crash /\ ~UNCHANGED vars
    BY DEF Boot, Load, LoadNothing, Booted, Crash, File!Die, vars
  <2>2. \A t \in Clients, r \in Requests : ~Request(t, r)
    BY DEF Request
  <2>3. PICK t \in Threads : ThreadStep(t)
    BY <2>1, <2>2 DEF Next
  <2>4. ~EnterLock(t) /\ ~Check(t) /\ ~Apply(t) /\ ~LeaveLock(t)
    BY DEF EnterLock, Check, Apply, LeaveLock
  <2>5. ~Persist(t) /\ ~PersistNothing(t) /\ ~Saved(t)
    BY DEF Persist, PersistNothing, Saved, File!Save, File!Return
  <2>6. ~EnterRead(t) /\ ~CopyRow(t) /\ ~CopyDone(t) /\ ~LeaveRead(t) /\ ~Reply(t)
    BY DEF EnterRead, CopyRow, CopyDone, LeaveRead, Reply
  <2> QED BY <2>3, <2>4, <2>5, <2>6 DEF ThreadStep
<1>2. File!Rename(t) /\ stage'[t] = "ok" /\ stage[t] = "rename" /\ file' = tmp
  BY <1>1 DEF Saving, File!SaveStep, File!CreateTmp, File!Encode, File!Close, File!Discard,
              File!Rename, File!Goto, TypeOK, File!FileTypeOK
<1>3. file' = mem /\ file' = content[t]
  BY <1>1, <1>2 DEF Saving, SaveInv
<1> QED BY <1>1, <1>2, <1>3

\* A failed save changes nothing: users.json is replaced by the rename of a
\* finished encoding and by no other call of saveJSON.
THEOREM FileIsOldUntilRenamed == Spec => OldUntilRenamed
<1>1. StoreInv /\ [Next]_vars =>
        [file' # file => \E s \in Threads : /\ stage[s] = "rename"
                                            /\ stage'[s] = "ok"
                                            /\ file' = content[s]]_<<file, tmp, stage, content>>
  BY FileChanges
<1> QED BY <1>1, StoreInvariant, PTL DEF Spec, OldUntilRenamed, File!OldUntilRenamed, File!FileVars

\* When a boot that cannot read the file stops there, Seed replaces no record:
\* what the file holds when the demo rows are saved over it is an empty table.
THEOREM SeedKeepsRecords == ASSUME ~LoadMayFail PROVE Spec => SeedKeepsData
<1>1. ASSUME StoreInv, [Next]_vars, file' # file, pc[Main] = "saving" PROVE OnDisk = Empty
  <2> USE <1>1 DEF StoreInv, ProtocolInv
  <2>1. PICK t \in Threads : Saving(t) /\ stage[t] = "rename"
    BY FileChanges
  <2>2. t = Main
    BY <2>1, StoreAssumption DEF Saving, BootInv, Threads
  <2>3. Completing(Main) /\ phase = "booting" /\ ~unsaved /\ req[Main] = SeedReq
    BY <2>1, <2>2 DEF Completing, BootInv
  <2>4. committed = Empty
    <3>1. After(committed, req[Main], mem)
      BY <2>3 DEF ChangeInv, Threads
    <3>2. req[Main].op = "seed"
      BY <2>3 DEF SeedReq
    <3> QED BY <3>1, <3>2 DEF After
  <2>5. storage = "file" /\ committed = OnDisk
    BY <2>3 DEF SaveInv, CommitInv, Threads
  <2> QED BY <2>4, <2>5
<1>2. StoreInv /\ [Next]_vars => [file' # file /\ pc[Main] = "saving" => OnDisk = Empty]_vars
  BY <1>1
<1> QED BY <1>2, StoreInvariant, PTL DEF Spec, SeedKeepsData

-----------------------------------------------------------------------------
(* The refinement of DurableTable.                                          *)

\* The server that is down maps to a table that is down.
LEMMA InitRefines == Init => Durable!Init
<1> SUFFICES ASSUME Init PROVE Durable!Init
  OBVIOUS
<1> USE DEF Init
<1>1. OnDisk \in Tables /\ Unique(OnDisk)
  BY EmptyTable DEF OnDisk, File!Loaded, File!FileInit
<1>2. OnDisk \in {t \in Durable!Tables : Durable!Unique(t)}
  BY <1>1 DEF Tables, Unique, Durable!Tables, Durable!Unique
<1> QED BY <1>2 DEF Durable!Init, Empty, Durable!Empty

\* The last system call of a save, or PersistNothing, is the operation itself.
LEMMA CompletionRefines ==
  ASSUME StoreInv, NEW t \in Threads, Completing(t), committed' = mem, phase' = phase,
         OnDisk' = OnDisk \/ OnDisk' = mem
  PROVE  Durable!Next
<1> USE DEF StoreInv, ProtocolInv
<1>1. /\ phase # "down" /\ req[t] \in Changes /\ committed \in Tables
      /\ After(committed, req[t], mem)
  BY DEF ChangeInv, LockInv, TypeOK, Completing
<1>2. Durable!Settle(mem)
  BY DEF Durable!Settle
<1>3. CASE req[t].op = "create" /\ req[t].name \in Names
  <2>1. PICK id \in Ids \ DOMAIN committed : mem = Put(committed, id, req[t].name)
    BY <1>1, <1>3 DEF After
  <2>2. req[t].name \in Names \ Durable!RowNames(committed)
    BY <1>1, <1>3 DEF After, RowNames, Durable!RowNames
  <2>3. Durable!Settle(Durable!Put(committed, id, req[t].name))
    BY <1>2, <2>1 DEF Put, Durable!Put
  <2> QED BY <1>1, <2>2, <2>3 DEF Durable!Next, Durable!Create
<1>4. CASE req[t].op = "update" /\ req[t].id \in Ids /\ req[t].name \in Names
  <2>1. /\ req[t].id \in DOMAIN committed /\ mem = Put(committed, req[t].id, req[t].name)
        /\ req[t].name \in RowNames(committed) => req[t].name = committed[req[t].id]
    BY <1>1, <1>4 DEF After
  <2>2. Durable!Settle(Durable!Put(committed, req[t].id, req[t].name))
    BY <1>2, <2>1 DEF Put, Durable!Put
  <2> QED BY <1>1, <1>4, <2>1, <2>2 DEF Durable!Next, Durable!Rename, RowNames, Durable!RowNames
<1>5. CASE req[t].op = "delete"
  <2>1. req[t].id \in DOMAIN committed /\ mem = Drop(committed, req[t].id)
    BY <1>1, <1>5 DEF After
  <2>2. Durable!Settle(Durable!Drop(committed, req[t].id))
    BY <1>2, <2>1 DEF Drop, Durable!Drop
  <2> QED BY <1>1, <2>1, <2>2 DEF Durable!Next, Durable!Delete
<1>6. CASE req[t].op = "seed"
  <2>1. committed = Durable!Empty
    BY <1>1, <1>6 DEF After, Empty, Durable!Empty
  <2>2. mem \in Durable!SeedTables
    BY <1>1, <1>6 DEF After, SeedTables, Durable!SeedTables, Tables, Durable!Tables,
                      Unique, Durable!Unique, RowNames, Durable!RowNames
  <2> QED BY <1>1, <1>2, <2>1, <2>2 DEF Durable!Next, Durable!Seed
<1> QED BY <1>1, <1>3, <1>4, <1>5, <1>6, ChangeKinds

\* A boot shows what the file holds, or nothing when it could not be read.
LEMMA BootRefines == ASSUME StoreInv, Boot PROVE Durable!Boot
<1> USE DEF StoreInv, ProtocolInv, fileVars, Empty, Durable!Empty
<1>1. OnDisk' = OnDisk
  BY DEF Boot, Load, LoadNothing, Booted, OnDisk, File!Loaded
<1>2. CASE Load
  BY <1>1, <1>2 DEF Load, Booted, Durable!Boot
<1>3. CASE LoadNothing
  <2>1. file = NoFile
    BY <1>3 DEF LoadNothing, SaveInv
  <2> QED BY <1>1, <1>3, <2>1 DEF LoadNothing, Booted, Durable!Boot, OnDisk, File!Loaded
<1> QED BY <1>2, <1>3 DEF Boot

\* Every step is a step of DurableTable or leaves what its callers see alone.
LEMMA StepRefines ==
  ASSUME StoreInv, [Next]_vars
  PROVE  [Durable!Next]_(Durable!durableVars)
<1> USE DEF StoreInv, ProtocolInv, lockVars, fileVars, threadVars, tableVars, Durable!durableVars
<1>1. CASE Boot
  BY <1>1, BootRefines DEF Durable!Next
<1>2. CASE Crash
  <2>1. OnDisk' = OnDisk
    BY <1>2 DEF Crash, File!Die, OnDisk, File!Loaded
  <2> QED BY <1>2, <2>1 DEF Crash, Durable!Next, Durable!Crash, Empty, Durable!Empty
<1>3. ASSUME NEW t \in Threads, Saving(t), stage'[t] \in {"ok", "failed"} PROVE Durable!Next
  <2>1. stage[t] \notin {"ok", "failed"}
    BY <1>3 DEF Saving, File!SaveStep, File!CreateTmp, File!Encode, File!Close,
                File!Discard, File!Rename
  <2>2. Completing(t)
    BY <1>3, <2>1 DEF Completing, Saving
  <2>3. CASE file' = file
    BY <1>3, <2>2, <2>3, CompletionRefines DEF Saving, OnDisk, File!Loaded
  <2>4. CASE file' # file
    <3>1. file' = mem
      BY <1>3, <2>4, FileChanges DEF Next, ThreadStep
    <3>2. OnDisk' = mem
      BY <3>1, StoreAssumption DEF OnDisk, File!Loaded, TypeOK
    <3> QED BY <1>3, <2>2, <3>2, CompletionRefines DEF Saving
  <2> QED BY <2>3, <2>4
<1>4. ASSUME NEW t \in Threads, Saving(t), stage'[t] \notin {"ok", "failed"}
      PROVE  UNCHANGED Durable!durableVars
  <2>1. file' = file
    <3>1. \A s \in Threads : Saving(s) => s = t
      BY <1>4 DEF Saving, LockInv
    <3> QED BY <1>4, <3>1, FileChanges
  <2> QED BY <1>4, <2>1 DEF Saving, OnDisk, File!Loaded
<1>5. ASSUME NEW t \in Threads, PersistNothing(t) PROVE Durable!Next
  <2>1. OnDisk' = OnDisk
    BY <1>5 DEF PersistNothing, OnDisk, File!Loaded
  <2> QED BY <1>5, <2>1, CompletionRefines DEF PersistNothing, Step, Completing
<1>6. ASSUME NEW t \in Threads,
             EnterLock(t) \/ Check(t) \/ Apply(t) \/ Persist(t) \/ Saved(t)
      PROVE  UNCHANGED Durable!durableVars
  BY <1>6 DEF EnterLock, Check, Apply, Persist, Saved, File!Save, File!Return, OnDisk, File!Loaded
<1>7. ASSUME NEW t \in Threads, LeaveLock(t) PROVE UNCHANGED Durable!durableVars
  BY <1>7 DEF LeaveLock, Step, LockInv, OnDisk, File!Loaded
<1>8. ASSUME NEW t \in Threads,
             EnterRead(t) \/ CopyRow(t) \/ CopyDone(t) \/ LeaveRead(t) \/ Reply(t)
      PROVE  UNCHANGED Durable!durableVars
  BY <1>8 DEF EnterRead, CopyRow, CopyDone, LeaveRead, Reply, OnDisk, File!Loaded
<1>9. ASSUME NEW t \in Clients, NEW r \in Requests, Request(t, r)
      PROVE  UNCHANGED Durable!durableVars
  BY <1>9 DEF Request, OnDisk, File!Loaded
<1>10. CASE UNCHANGED vars
  BY <1>10 DEF vars, OnDisk, File!Loaded
<1> QED
  BY <1>1, <1>2, <1>3, <1>4, <1>5, <1>6, <1>7, <1>8, <1>9, <1>10 DEF Next, ThreadStep

\* The store with its goroutines, its lock and the steps of its saves is a
\* table that changes by whole operations, each of them durable at once or,
\* when its save fails, with the next one that is saved.
THEOREM StoreRefinesTable == Spec => ImplementsDurableTable
BY InitRefines, StepRefines, StoreInvariant, PTL DEF Spec, ImplementsDurableTable, Durable!Spec
=============================================================================
