----------------------------- MODULE AtomicFile -----------------------------
(***************************************************************************)
(* saveJSON and loadJSON of persistence.go on one path: the data file and  *)
(* its sibling .tmp file, and the steps of every save in progress.  Each   *)
(* system call is a step of its own and may fail; the process may die      *)
(* between any two of them, which leaves both files as they are.           *)
(***************************************************************************)
CONSTANTS Savers,    \* the goroutines that may call saveJSON
          Contents,  \* what a complete file can hold
          NoFile,    \* the file does not exist
          Torn       \* the file exists and is not a complete encoding; like
                     \* NoFile no content

VARIABLES file,      \* the file at path
          tmp,       \* the file at path + ".tmp"
          stage,     \* the system call each save is at
          content    \* the value each save is writing

FileVars == <<file, tmp, stage, content>>

Stages == {"idle", "create", "encode", "close", "rename", "discard", "ok", "failed"}

FileTypeOK == /\ file \in Contents \cup {NoFile, Torn}
              /\ tmp \in Contents \cup {NoFile, Torn}
              /\ stage \in [Savers -> Stages]
              /\ content \in [Savers -> Contents \cup {NoFile}]

FileInit == /\ file \in Contents \cup {NoFile}
            /\ tmp \in Contents \cup {NoFile, Torn}
            /\ stage = [s \in Savers |-> "idle"]
            /\ content = [s \in Savers |-> NoFile]

Goto(s, st) == stage' = [stage EXCEPT ![s] = st]

Save(s, v) == /\ stage[s] = "idle"
              /\ Goto(s, "create")
              /\ content' = [content EXCEPT ![s] = v]
              /\ UNCHANGED <<file, tmp>>

\* Mutant: os.Create is given path and not path + ".tmp".
CreateTmp_InPlace(s) == /\ stage[s] = "create"
                        /\ \/ Goto(s, "encode") /\ file' = Torn /\ tmp' = Torn
                           \/ Goto(s, "failed") /\ UNCHANGED <<file, tmp>>
                        /\ UNCHANGED content

\* MkdirAll and Create: what an earlier save left in the .tmp is truncated.
CreateTmp(s) == /\ stage[s] = "create"
                /\ \/ Goto(s, "encode") /\ tmp' = Torn
                   \/ Goto(s, "failed") /\ UNCHANGED tmp
                /\ UNCHANGED <<file, content>>

\* Mutant: the error of Encode is dropped.
Encode_ErrorDropped(s) == /\ stage[s] = "encode"
                          /\ Goto(s, "close")
                          /\ tmp' \in {content[s], tmp}
                          /\ UNCHANGED <<file, content>>

Encode(s) == /\ stage[s] = "encode"
             /\ \/ Goto(s, "close") /\ tmp' = content[s]
                \/ Goto(s, "discard") /\ UNCHANGED tmp
             /\ UNCHANGED <<file, content>>

Close(s) == /\ stage[s] = "close"
            /\ \E st \in {"rename", "discard"} : Goto(s, st)
            /\ UNCHANGED <<file, tmp, content>>

\* Mutant: os.Remove is given path and not tmp.
Discard_DataFile(s) == /\ stage[s] = "discard"
                       /\ Goto(s, "failed")
                       /\ file' = NoFile
                       /\ UNCHANGED <<tmp, content>>

\* os.Remove of the .tmp after a failed Encode or Close; its error is ignored.
Discard(s) == /\ stage[s] = "discard"
              /\ Goto(s, "failed")
              /\ tmp' \in {NoFile, tmp}
              /\ UNCHANGED <<file, content>>

\* A failed Rename leaves the complete .tmp behind.
Rename(s) == /\ stage[s] = "rename"
             /\ \/ Goto(s, "ok") /\ file' = tmp /\ tmp' = NoFile
                \/ Goto(s, "failed") /\ UNCHANGED <<file, tmp>>
             /\ UNCHANGED content

SaveStep(s) == CreateTmp(s) \/ Encode(s) \/ Close(s) \/ Discard(s) \/ Rename(s)

Done(s) == stage[s] \in {"ok", "failed"}

\* saveJSON has returned and its caller goes on.
Return(s) == /\ Done(s)
             /\ Goto(s, "idle")
             /\ content' = [content EXCEPT ![s] = NoFile]
             /\ UNCHANGED <<file, tmp>>

\* The process dies: the saves are gone, the two files stay as they are.
Die == /\ stage' = [s \in Savers |-> "idle"]
       /\ content' = [s \in Savers |-> NoFile]
       /\ UNCHANGED <<file, tmp>>

\* What loadJSON decodes: a file that does not exist leaves the value alone.
Loaded(empty) == IF file = NoFile THEN empty ELSE file

(***************************************************************************)
(* What the callers of saveJSON rely on.  StoreProtocol states both of its *)
(* own saves, which the write lock keeps apart ("Must be called while s.mu *)
(* write lock is held.").                                                  *)
(***************************************************************************)

\* A save that reported success has left exactly its value in the file.
SuccessMeansSaved == \A s \in Savers : stage[s] = "ok" => file = content[s]

\* A save changes the data file at most once, to its own value, and never
\* after it has failed: an error return means the old data is still there.
OldUntilRenamed ==
    [][file' # file => \E s \in Savers : /\ stage[s] = "rename"
                                         /\ stage'[s] = "ok"
                                         /\ file' = content[s]]_FileVars
=============================================================================
