-------------------------------- MODULE FileStore --------------------------------
(***************************************************************************)
(* The file storage, internal/storage/file.go: every submission becomes    *)
(* one JSON file of the table's directory, written under a temporary name  *)
(* and renamed.  Several processes may write to the same directory, each   *)
(* step on the file system may fail, and a process may die between any two *)
(* of them.                                                                *)
(*                                                                         *)
(* External: the file system, of which only the files' states are kept,    *)
(* and ULIDs (a time and 80 random bits), which are taken to be unique, so *)
(* that a call stands for its file as well.  MkdirAll and the serializer   *)
(* have no effect that another call can see.                               *)
(***************************************************************************)
CONSTANTS
  Calls,    (* the calls of Store                                           *)
  Owner     (* the process that makes each call                             *)

VARIABLES
  pc,       (* the next step of each call                                   *)
  temp,     (* the call's temporary file                                    *)
  file,     (* <ULID>.json                                                  *)
  failed    (* whether the call returns an error                            *)

vars == <<pc, temp, file, failed>>

InFlight == {"prepare", "create", "write", "close", "rename", "remove"}
Content == {"none", "partial", "full"}

TypeOK ==
  /\ pc \in [Calls -> InFlight \cup {"idle", "returned", "killed"}]
  /\ temp \in [Calls -> Content]
  /\ file \in [Calls -> Content]
  /\ failed \in [Calls -> BOOLEAN]

Init ==
  /\ pc = [c \in Calls |-> "idle"]
  /\ temp = [c \in Calls |-> "none"]
  /\ file = [c \in Calls |-> "none"]
  /\ failed = [c \in Calls |-> FALSE]

Step(c, from, to) == pc[c] = from /\ pc' = [pc EXCEPT ![c] = to]

(* A step returned an error, and the call leaves for place "to".            *)
Fail(c, from, to) ==
  /\ Step(c, from, to)
  /\ failed' = [failed EXCEPT ![c] = TRUE]
  /\ UNCHANGED <<temp, file>>

-----------------------------------------------------------------------------
(* Store.                                                                   *)

Begin(c) ==
  /\ Step(c, "idle", "prepare")
  /\ UNCHANGED <<temp, file, failed>>

(* ULID, directory and document.                                            *)
Prepare(c) ==
  /\ Step(c, "prepare", "create")
  /\ UNCHANGED <<temp, file, failed>>

PrepareFails(c) == Fail(c, "prepare", "returned")

-----------------------------------------------------------------------------
(* atomicWrite.                                                             *)

CreateTemp(c) ==
  /\ Step(c, "create", "write")
  /\ temp' = [temp EXCEPT ![c] = "partial"]
  /\ UNCHANGED <<file, failed>>

CreateTempFails(c) == Fail(c, "create", "returned")

(* Wrong: a short write is not noticed.                                     *)
WrongWrite(c) ==
  /\ Step(c, "write", "close")
  /\ temp' = [temp EXCEPT ![c] = "truncated"]
  /\ UNCHANGED <<file, failed>>

Write(c) ==
  /\ Step(c, "write", "close")
  /\ temp' = [temp EXCEPT ![c] = "full"]
  /\ UNCHANGED <<file, failed>>

(* Wrong: the error is ignored.                                             *)
WrongWriteFails(c) ==
  /\ Step(c, "write", "close")
  /\ UNCHANGED <<temp, file, failed>>

(* From here on the deferred Remove is reached on every way out.            *)
WriteFails(c) == Fail(c, "write", "remove")

Close(c) ==
  /\ Step(c, "close", "rename")
  /\ UNCHANGED <<temp, file, failed>>

CloseFails(c) == Fail(c, "close", "remove")

(* Wrong: a copy under the final name.                                      *)
WrongRename(c) ==
  /\ Step(c, "rename", "remove")
  /\ file' = [file EXCEPT ![c] = temp[c]]
  /\ UNCHANGED <<temp, failed>>

Rename(c) ==
  /\ Step(c, "rename", "remove")
  /\ file' = [file EXCEPT ![c] = temp[c]]
  /\ temp' = [temp EXCEPT ![c] = "none"]
  /\ UNCHANGED failed

RenameFails(c) == Fail(c, "rename", "remove")

(* The error of Remove is ignored: there is nothing left to remove after a  *)
(* rename.                                                                  *)
Remove(c) ==
  /\ Step(c, "remove", "returned")
  /\ \/ temp' = [temp EXCEPT ![c] = "none"]
     \/ UNCHANGED temp
  /\ UNCHANGED <<file, failed>>

-----------------------------------------------------------------------------
(* The process is killed; it may be started again and serve the calls that  *)
(* have not begun.                                                          *)
Crash(p) ==
  /\ \E c \in Calls : Owner[c] = p /\ pc[c] \in InFlight
  /\ pc' = [c \in Calls |-> IF Owner[c] = p /\ pc[c] \in InFlight THEN "killed" ELSE pc[c]]
  /\ UNCHANGED <<temp, file, failed>>

Next ==
  \/ \E c \in Calls : \/ Begin(c)
                      \/ Prepare(c) \/ PrepareFails(c)
                      \/ CreateTemp(c) \/ CreateTempFails(c)
                      \/ Write(c) \/ WriteFails(c)
                      \/ Close(c) \/ CloseFails(c)
                      \/ Rename(c) \/ RenameFails(c)
                      \/ Remove(c)
  \/ \E p \in {Owner[c] : c \in Calls} : Crash(p)

Spec == Init /\ [][Next]_vars

-----------------------------------------------------------------------------
(* "The temporary files may stay" only "in case of unexpected termination"  *)
(* (docs/stores.md), or when the call reports an error: a temporary file    *)
(* that nobody works on belongs to a call that was killed or that failed,   *)
(* and a call never leaves both files behind.                               *)
Leftovers ==
  \A c \in Calls :
    temp[c] # "none" =>
      /\ file[c] = "none"
      /\ pc[c] = "returned" => failed[c]

(* Store keeps the promises of RecordStore: whole records only, and answers *)
(* that tell the truth, whichever step fails or process dies.               *)
State(c) ==
  CASE pc[c] \in InFlight -> "running"
    [] pc[c] = "returned" -> IF failed[c] THEN "error" ELSE "ok"
    [] OTHER -> pc[c]

R == INSTANCE RecordStore WITH state <- [c \in Calls |-> State(c)], record <- file

ImplementsRecordStore == R!Spec

=============================================================================
