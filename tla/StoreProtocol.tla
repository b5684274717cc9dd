--------------------------- MODULE StoreProtocol ----------------------------
(***************************************************************************)
(* How a store serves concurrent requests and survives restarts: every     *)
(* goroutine of the server, the RWMutex of the store, the save that each   *)
(* change makes before it lets the lock go, and the load and the seeding   *)
(* of a boot.  The server may die at any step.                             *)
(*                                                                         *)
(* The protocol is that of Store (store.go) with the usernames as the only *)
(* data; PersonStore (store_person.go) locks, saves, loads and seeds in    *)
(* the same way.                                                           *)
(***************************************************************************)
EXTENDS UserTable, Integers, FiniteSets

CONSTANTS Clients,       \* the goroutines that serve requests
          Main,          \* the goroutine that boots the server
          Nobody,        \* not a goroutine
          NoFile, Torn,  \* see AtomicFile
          NoReq,         \* not a request
          SeedData,      \* TRUE: seed_data is set in the configuration
          LoadMayFail    \* TRUE: reading the data file at boot may fail

Threads == Clients \cup {Main}

ASSUME StoreAssumption == /\ Nobody \notin Threads /\ Main \notin Clients
                          /\ NoFile \notin Tables /\ Torn \notin Tables /\ NoFile # Torn

VARIABLES phase,      \* "down", "booting" or "serving"
          mem,        \* the users map
          pc, req,    \* where each goroutine is, and the request it serves
          got,        \* what a list request has copied so far
          result,     \* the outcome of each request
          committed,  \* history: the table as of the last completed change
          unsaved,    \* history: the last save or load was logged as failed
          storage,    \* "file" when the store has a data directory, else "memory"
          owner, active, parked,      \* the lock, see RWMutex
          file, tmp, stage, content   \* the data file, see AtomicFile

lockVars == <<owner, active, parked>>
fileVars == <<storage, file, tmp, stage, content>>
threadVars == <<pc, req, got, result>>
tableVars == <<mem, committed, unsaved>>
vars == <<phase, threadVars, tableVars, lockVars, fileVars>>

Lock == INSTANCE RWMutex
File == INSTANCE AtomicFile WITH Savers <- Threads, Contents <- Tables

Requests ==      [op : {"create"}, name : Names]
            \cup [op : {"update"}, id : Ids, name : Names]
            \cup [op : {"delete"}, id : Ids]
            \cup [op : {"list"}]

SeedReq == [op |-> "seed"]

TypeOK == /\ phase \in {"down", "booting", "serving"}
          /\ mem \in Tables /\ committed \in Tables
          /\ unsaved \in BOOLEAN
          /\ pc \in [Threads -> {"idle", "lock", "check", "apply", "persist", "saving",
                                 "unlock", "rlock", "copy", "runlock", "reply"}]
          /\ req \in [Threads -> Requests \cup {SeedReq, NoReq}]
          /\ got \in [Threads -> Tables]
          /\ result \in [Threads -> {"none", "ok", "conflict", "notfound", "skipped"}]
          /\ storage \in {"file", "memory"}
          /\ Lock!MutexTypeOK
          /\ File!FileTypeOK

OnDisk == File!Loaded(Empty)

Quiet == /\ pc = [t \in Threads |-> "idle"]
         /\ req = [t \in Threads |-> NoReq]
         /\ got = [t \in Threads |-> Empty]
         /\ result = [t \in Threads |-> "none"]

\* The server is not running; the file is one an earlier run left behind.
Init == /\ phase = "down"
        /\ mem = Empty /\ committed = Empty /\ unsaved = FALSE
        /\ Quiet
        /\ Lock!Free
        /\ File!FileInit
        /\ file # NoFile => Unique(file)
        /\ storage \in {"file", "memory"}
        /\ storage = "memory" => file = NoFile /\ tmp = NoFile

Step(t, from, to) == pc[t] = from /\ pc' = [pc EXCEPT ![t] = to]

Answer(t, r) == result' = [result EXCEPT ![t] = r]

(***************************************************************************)
(* Boot: NewStore, Seed, then the routes.                                  *)
(***************************************************************************)
Booted(t, failed) ==
    /\ mem' = t /\ committed' = t
    /\ unsaved' = failed
    /\ IF SeedData
       THEN /\ phase' = "booting"
            /\ req' = [req EXCEPT ![Main] = SeedReq]
            /\ pc' = [pc EXCEPT ![Main] = "lock"]
       ELSE phase' = "serving" /\ UNCHANGED <<req, pc>>
    /\ UNCHANGED <<got, result, lockVars, fileVars>>

\* The map is filled from the file.  An error is logged, and the boot goes on.
\* The file is one that a run of the program has left, so what fails is the
\* reading of it, before a row is decoded.
Load == /\ phase = "down" /\ storage = "file"
        /\ \/ Booted(OnDisk, FALSE)
           \/ LoadMayFail /\ Booted(Empty, TRUE)

\* A memory-only store loads nothing.
LoadNothing == /\ phase = "down" /\ storage = "memory"
               /\ Booted(Empty, FALSE)

(***************************************************************************)
(* A request arrives.  Bound: there is an id left for every create.        *)
(***************************************************************************)
RoomToCreate ==
    LET creating == {t \in Clients : req[t] # NoReq /\ req[t].op = "create"}
    IN  Cardinality(DOMAIN mem) + Cardinality(creating) < Cardinality(Ids)

Request(t, r) == /\ phase = "serving"
                 /\ r.op = "create" => RoomToCreate
                 /\ Step(t, "idle", IF r.op = "list" THEN "rlock" ELSE "lock")
                 /\ req' = [req EXCEPT ![t] = r]
                 /\ UNCHANGED <<phase, got, result, tableVars, lockVars, fileVars>>

(***************************************************************************)
(* A change: Create, Update, Delete and Seed.                              *)
(***************************************************************************)
\* Mutant: RLock in place of Lock, which keeps no other change out.
EnterLock_Shared(t) == /\ Step(t, "lock", "check")
                       /\ owner' = t
                       /\ UNCHANGED <<active, parked, phase, req, got, result, tableVars, fileVars>>

EnterLock(t) == /\ Step(t, "lock", "check")
                /\ Lock!Announce(t)
                /\ UNCHANGED <<phase, req, got, result, tableVars, fileVars>>

\* Mutant: Seed does not look whether there are users.
Verdict_SeedAlways(r) ==
    CASE r.op = "create" -> IF r.name \in RowNames(mem) THEN "conflict" ELSE "ok"
      [] r.op = "update" -> IF r.id \notin DOMAIN mem THEN "notfound"
                            ELSE IF \E i \in DOMAIN mem \ {r.id} : mem[i] = r.name
                                 THEN "conflict" ELSE "ok"
      [] r.op = "delete" -> IF r.id \notin DOMAIN mem THEN "notfound" ELSE "ok"
      [] r.op = "seed"   -> "ok"

\* The outcome of the look at the map that comes before the change.
Verdict(r) ==
    CASE r.op = "create" -> IF r.name \in RowNames(mem) THEN "conflict" ELSE "ok"
      [] r.op = "update" -> IF r.id \notin DOMAIN mem THEN "notfound"
                            ELSE IF \E i \in DOMAIN mem \ {r.id} : mem[i] = r.name
                                 THEN "conflict" ELSE "ok"
      [] r.op = "delete" -> IF r.id \notin DOMAIN mem THEN "notfound" ELSE "ok"
      [] r.op = "seed"   -> IF mem = Empty THEN "ok" ELSE "skipped"

\* Mutant: an error return that leaves the lock behind.
Check_KeepsLock(t) ==
    /\ Lock!HoldsWrite(t)
    /\ LET v == Verdict(req[t])
       IN  /\ Step(t, "check", IF v = "ok" THEN "apply" ELSE "reply")
           /\ Answer(t, v)
    /\ UNCHANGED <<phase, req, got, tableVars, lockVars, fileVars>>

Check(t) == /\ Lock!HoldsWrite(t)
            /\ LET v == Verdict(req[t])
               IN  /\ Step(t, "check", IF v = "ok" THEN "apply" ELSE "unlock")
                   /\ Answer(t, v)
            /\ UNCHANGED <<phase, req, got, tableVars, lockVars, fileVars>>

Changed(r) == 
    CASE r.op = "create" -> {Put(mem, id, r.name) : id \in Ids \ DOMAIN mem}
      [] r.op = "update" -> {Put(mem, r.id, r.name)}
      [] r.op = "delete" -> {Drop(mem, r.id)}
      [] r.op = "seed"   -> SeedTables

\* Mutant: a deletion is not saved.
Apply_DeleteUnsaved(t) ==
    /\ Step(t, "apply", IF req[t].op = "delete" THEN "unlock" ELSE "persist")
    /\ mem' \in Changed(req[t])
    /\ UNCHANGED <<phase, req, got, result, committed, unsaved, lockVars, fileVars>>

Apply(t) == /\ Step(t, "apply", "persist")
            /\ mem' \in Changed(req[t])
            /\ UNCHANGED <<phase, req, got, result, committed, unsaved, lockVars, fileVars>>

\* Mutant: the rows to save are collected before the change.
Persist_Stale(t) == /\ storage = "file"
                    /\ Step(t, "persist", "saving")
                    /\ File!Save(t, committed)
                    /\ UNCHANGED <<phase, req, got, result, storage, tableVars, lockVars>>

Persist(t) == /\ storage = "file"
              /\ Step(t, "persist", "saving")
              /\ File!Save(t, mem)
              /\ UNCHANGED <<phase, req, got, result, storage, tableVars, lockVars>>

PersistNothing(t) == /\ storage = "memory"
                     /\ Step(t, "persist", "unlock")
                     /\ committed' = mem
                     /\ UNCHANGED <<phase, req, got, result, mem, unsaved, lockVars, fileVars>>

\* One system call of saveJSON.  The last one completes the change.
Saving(t) == /\ pc[t] = "saving"
             /\ File!SaveStep(t)
             /\ committed' = IF stage'[t] \in {"ok", "failed"} THEN mem ELSE committed
             /\ unsaved' = CASE stage'[t] = "ok" -> FALSE
                             [] stage'[t] = "failed" -> TRUE
                             [] OTHER -> unsaved
             /\ UNCHANGED <<phase, mem, storage, threadVars, lockVars>>

Saved(t) == /\ Step(t, "saving", "unlock")
            /\ File!Return(t)
            /\ UNCHANGED <<phase, req, got, result, storage, tableVars, lockVars>>

LeaveLock(t) == /\ Step(t, "unlock", IF t = Main THEN "idle" ELSE "reply")
                /\ Lock!Unlock(t)
                /\ phase' = IF t = Main THEN "serving" ELSE phase
                /\ req' = IF t = Main THEN [req EXCEPT ![t] = NoReq] ELSE req
                /\ result' = IF t = Main THEN [result EXCEPT ![t] = "none"] ELSE result
                /\ UNCHANGED <<got, tableVars, fileVars>>

(***************************************************************************)
(* A list: the rows are copied one by one under the read lock.             *)
(***************************************************************************)
\* Mutant: a list that takes no lock.
EnterRead_Unlocked(t) == /\ Step(t, "rlock", "copy")
                         /\ active' = active \cup {t}
                         /\ UNCHANGED <<owner, parked, phase, req, got, result, tableVars, fileVars>>

EnterRead(t) == /\ Step(t, "rlock", "copy")
                /\ Lock!RLock(t)
                /\ UNCHANGED <<phase, req, got, result, tableVars, fileVars>>

CopyRow(t) == /\ pc[t] = "copy" /\ Lock!HoldsRead(t)
              /\ \E id \in DOMAIN mem \ DOMAIN got[t] :
                    got' = [got EXCEPT ![t] = Put(@, id, mem[id])]
              /\ UNCHANGED <<phase, pc, req, result, tableVars, lockVars, fileVars>>

CopyDone(t) == /\ Step(t, "copy", "runlock") /\ Lock!HoldsRead(t)
               /\ DOMAIN mem \subseteq DOMAIN got[t]
               /\ Answer(t, "ok")
               /\ UNCHANGED <<phase, req, got, tableVars, lockVars, fileVars>>

LeaveRead(t) == /\ Step(t, "runlock", "reply")
                /\ Lock!RUnlock(t)
                /\ UNCHANGED <<phase, req, got, result, tableVars, fileVars>>

Reply(t) == /\ Step(t, "reply", "idle")
            /\ req' = [req EXCEPT ![t] = NoReq]
            /\ got' = [got EXCEPT ![t] = Empty]
            /\ Answer(t, "none")
            /\ UNCHANGED <<phase, tableVars, lockVars, fileVars>>

\* The server dies: only the two files are left.
Crash == /\ phase # "down"
         /\ phase' = "down"
         /\ mem' = Empty /\ committed' = Empty /\ unsaved' = FALSE
         /\ pc' = [t \in Threads |-> "idle"]
         /\ req' = [t \in Threads |-> NoReq]
         /\ got' = [t \in Threads |-> Empty]
         /\ result' = [t \in Threads |-> "none"]
         /\ owner' = Nobody /\ active' = {} /\ parked' = {}
         /\ File!Die
         /\ UNCHANGED storage

ThreadStep(t) == \/ EnterLock(t) \/ Check(t) \/ Apply(t)
                 \/ Persist(t) \/ PersistNothing(t) \/ Saving(t) \/ Saved(t) \/ LeaveLock(t)
                 \/ EnterRead(t) \/ CopyRow(t) \/ CopyDone(t) \/ LeaveRead(t)
                 \/ Reply(t)

Boot == Load \/ LoadNothing

Next == \/ Boot
        \/ \E t \in Clients, r \in Requests : Request(t, r)
        \/ \E t \in Threads : ThreadStep(t)
        \/ Crash

\* The scheduler runs every goroutine that can run, and the inner mutex is
\* handed to a goroutine that has waited long enough (its starvation mode).
Fairness == /\ WF_vars(Boot)
            /\ \A t \in Threads : WF_vars(ThreadStep(t)) /\ SF_vars(EnterLock(t))

Spec == Init /\ [][Next]_vars /\ Fairness

-----------------------------------------------------------------------------
(***************************************************************************)
(* Properties.                                                             *)
(***************************************************************************)

\* Of two requests that both saw a username free only one may take it: the
\* check and the insertion are one critical section.  It holds of the map,
\* of what was loaded and of the file.
UniqueNames == Unique(mem) /\ Unique(OnDisk)

\* A list returns one table the store really had between two changes, not
\* a mixture of the rows before and after a change.
ListIsSnapshot == \A t \in Threads : pc[t] = "runlock" => got[t] = mem /\ mem = committed

\* Unless a save was logged as failed, a list shows only what is in the
\* file: a crash right after the answer loses none of it.
ListIsDurable == \A t \in Threads :
    pc[t] = "runlock" /\ storage = "file" /\ ~unsaved => got[t] = OnDisk

\* A change is answered only when it is in the file, or when its save was
\* logged as failed.
AckIsDurable == \A t \in Threads :
    pc[t] = "unlock" /\ storage = "file" /\ ~unsaved => mem = OnDisk

\* The data file is always one whole table: no crash and no failed call
\* leaves a part of one there.
FileIsWhole == file # Torn

\* A save that reported success has left exactly its value in the file, also
\* when other saves came and went before it, or died half way.
SuccessMeansSaved == File!SuccessMeansSaved

\* An error return of saveJSON means that the old data is still there: the
\* file changes in the rename of a finished encoding, to that encoding, and
\* neither before it nor in the clean-up after a failed call.
OldUntilRenamed == File!OldUntilRenamed

\* The demo rows never replace rows that are in the data file.
SeedKeepsData ==
    [][file' # file /\ pc[Main] = "saving" => OnDisk = Empty]_vars

\* Every request is answered, whoever else locks, lists or saves.
Answered == \A t \in Clients : pc[t] # "idle" ~> pc[t] = "idle"

(***************************************************************************)
(* The inductive invariant that StoreProtocolProofs proves.                *)
(***************************************************************************)
Changes == {r \in Requests : r.op # "list"} \cup {SeedReq}

\* The holder of the lock is the one goroutine in a critical section, past
\* the readers that were in before it; a reader that copies is inside or parked.
LockInv ==
    /\ \A t \in Threads :
          /\ pc[t] \in {"check", "apply", "persist", "saving", "unlock"} <=> owner = t
          /\ pc[t] \in {"apply", "persist", "saving", "unlock"} => active = {}
          /\ t \in active => pc[t] \in {"copy", "runlock"}
          /\ t \in parked => pc[t] = "copy" /\ got[t] = Empty
          /\ pc[t] = "copy" => t \in active \cup parked
          /\ pc[t] = "runlock" => t \in active
    /\ active \cap parked = {}
    /\ phase = "down" => \A t \in Threads : pc[t] = "idle"

\* What was found under the lock is still so when the change is made.
ReqInv == \A t \in Threads :
    /\ pc[t] \in {"lock", "check", "apply"} => req[t] \in Changes
    /\ pc[t] = "apply" => Verdict(req[t]) = "ok"

\* The rows copied so far are rows of the map as it is now.
CopyInv == \A t \in Threads :
    /\ pc[t] \in {"copy", "runlock"} => \A id \in DOMAIN got[t] :
                                           id \in DOMAIN mem /\ got[t][id] = mem[id]
    /\ pc[t] = "runlock" => DOMAIN mem \subseteq DOMAIN got[t]
    /\ pc[t] \notin {"copy", "runlock", "reply"} => got[t] = Empty

\* A save writes the map, and only a finished encoding is renamed.
SaveInv ==
    /\ \A t \in Threads :
          /\ stage[t] = "idle" <=> pc[t] # "saving"
          /\ pc[t] = "saving" => storage = "file" /\ content[t] = mem
          /\ stage[t] \in {"close", "rename"} => tmp = mem
          /\ stage[t] = "ok" => file = mem
    /\ file # Torn
    /\ storage = "memory" => file = NoFile

\* The map differs from the last completed change only while one is being
\* saved; and unless a save was logged as failed the file holds that change.
CommitInv ==
    /\ \/ mem = committed
       \/ \E t \in Threads : \/ pc[t] = "persist"
                             \/ pc[t] = "saving" /\ stage[t] \notin {"ok", "failed"}
    /\ storage = "file" /\ phase # "down" /\ ~unsaved => committed = OnDisk

\* u is the table s after the change r: what each operation of DurableTable allows.
After(s, r, u) ==
    CASE r.op = "create" -> /\ r.name \notin RowNames(s)
                            /\ \E id \in Ids \ DOMAIN s : u = Put(s, id, r.name)
      [] r.op = "update" -> /\ r.id \in DOMAIN s
                            /\ r.name \in RowNames(s) => r.name = s[r.id]
                            /\ u = Put(s, r.id, r.name)
      [] r.op = "delete" -> r.id \in DOMAIN s /\ u = Drop(s, r.id)
      [] r.op = "seed"   -> s = Empty /\ u \in SeedTables

\* The change of t is in the map and its save has not come back.
Completing(t) == \/ pc[t] = "persist"
                 \/ pc[t] = "saving" /\ stage[t] \notin {"ok", "failed"}

\* The map is one operation ahead of the last completed change while that
\* operation is being saved.
ChangeInv == \A t \in Threads :
    Completing(t) => req[t] \in Changes /\ After(committed, req[t], mem)

\* Only the booting goroutine runs before the routes are there, and a boot
\* that has read the file has nothing unsaved before its own save.
BootInv == /\ pc[Main] # "idle" => phase = "booting" /\ req[Main] = SeedReq
           /\ phase = "booting" => \A t \in Clients : pc[t] = "idle"
           /\ \/ LoadMayFail \/ ~unsaved \/ phase # "booting"
              \/ pc[Main] \in {"saving", "unlock"} /\ ~Completing(Main)

ProtocolInv == TypeOK /\ LockInv /\ ReqInv /\ CopyInv /\ SaveInv /\ CommitInv /\ UniqueNames

StoreInv == ProtocolInv /\ ChangeInv /\ BootInv

\* The store is a DurableTable: all of the above, seen from its callers.
Durable == INSTANCE DurableTable
             WITH table <- committed, disk <- OnDisk, alive <- phase # "down"

ImplementsDurableTable == Durable!Spec
=============================================================================
