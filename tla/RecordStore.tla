------------------------------- MODULE RecordStore -------------------------------
(***************************************************************************)
(* What the form handler relies on when it calls Storage.Store, and what   *)
(* docs/stores.md promises for files: a submission is stored as a whole or *)
(* not at all, an answer without an error means that it is stored, an      *)
(* error that it is not, and a process that dies leaves the records of all *)
(* others as they are.  FileStore implements it.                           *)
(***************************************************************************)
CONSTANTS
  Calls,    (* the calls of Store: one submission each                      *)
  Owner     (* the process that makes each call                             *)

VARIABLES
  state,    (* where each call is                                           *)
  record    (* what a reader of the store finds for each call               *)

vars == <<state, record>>

Init ==
  /\ state = [c \in Calls |-> "idle"]
  /\ record = [c \in Calls |-> "none"]

Move(c, from, to) ==
  /\ state[c] = from
  /\ state' = [state EXCEPT ![c] = to]
  /\ UNCHANGED record

Begin(c) == Move(c, "idle", "running")

(* The record appears, with all its fields.                                 *)
Commit(c) ==
  /\ state[c] = "running"
  /\ record[c] = "none"
  /\ record' = [record EXCEPT ![c] = "full"]
  /\ UNCHANGED state

ReturnOK(c) == record[c] = "full" /\ Move(c, "running", "ok")

ReturnError(c) == record[c] = "none" /\ Move(c, "running", "error")

(* The process dies: its calls end where they are, without an answer.       *)
Crash(p) ==
  /\ state' = [c \in Calls |-> IF Owner[c] = p /\ state[c] = "running" THEN "killed"
                               ELSE state[c]]
  /\ UNCHANGED record

Next ==
  \/ \E c \in Calls : Begin(c) \/ Commit(c) \/ ReturnOK(c) \/ ReturnError(c)
  \/ \E p \in {Owner[c] : c \in Calls} : Crash(p)

Spec == Init /\ [][Next]_vars

=============================================================================
