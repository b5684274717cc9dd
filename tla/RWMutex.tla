------------------------------ MODULE RWMutex ------------------------------
(***************************************************************************)
(* sync.RWMutex as the stores use it (Store.mu, PersonStore.mu): a writer  *)
(* first takes the inner mutex, which stops new readers, and then waits    *)
(* for the readers that were in before it; the readers that arrive while a *)
(* writer is pending or inside are parked, and all of them are let in when *)
(* it unlocks, before the next writer can hold the lock.                   *)
(*                                                                         *)
(* The module is a component: it has no behaviour of its own, a module     *)
(* that takes the lock conjoins these actions with its own.                *)
(***************************************************************************)
EXTENDS FiniteSets

CONSTANTS Threads,   \* the goroutines
          Nobody     \* not a goroutine

VARIABLES owner,     \* the goroutine that holds the inner mutex, or Nobody
          active,    \* the readers inside
          parked     \* the readers that wait for the writer to leave

MutexVars == <<owner, active, parked>>

MutexTypeOK == /\ owner \in Threads \cup {Nobody}
               /\ active \subseteq Threads
               /\ parked \subseteq Threads

Free == /\ owner = Nobody
        /\ active = {}
        /\ parked = {}

\* Lock, first half: the inner mutex is free and t takes it.
Announce(t) == /\ owner = Nobody
               /\ owner' = t
               /\ UNCHANGED <<active, parked>>

\* Lock, second half: the readers that were inside have left.
HoldsWrite(t) == owner = t /\ active = {}

\* Mutant: the parked readers are not woken up.
Unlock_NoWakeUp(t) == /\ HoldsWrite(t)
                      /\ owner' = Nobody
                      /\ UNCHANGED <<active, parked>>

\* Unlock: every parked reader is inside at once.
Unlock(t) == /\ HoldsWrite(t)
             /\ owner' = Nobody
             /\ active' = parked
             /\ parked' = {}

\* RLock: inside at once, or parked behind the writer.
RLock(t) == IF owner = Nobody
            THEN active' = active \cup {t} /\ UNCHANGED <<owner, parked>>
            ELSE parked' = parked \cup {t} /\ UNCHANGED <<owner, active>>

HoldsRead(t) == t \in active

RUnlock(t) == /\ HoldsRead(t)
              /\ active' = active \ {t}
              /\ UNCHANGED <<owner, parked>>
=============================================================================
