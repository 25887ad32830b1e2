----------------------------- MODULE FileStoreProofs -----------------------------
(***************************************************************************)
(* Proofs about FileStore, for any calls and any processes.                *)
(***************************************************************************)
EXTENDS FileStore, TLAPS

-----------------------------------------------------------------------------
(* The state of one call's files at each step of atomicWrite: a file under  *)
(* its final name exists exactly when the rename was done, and then it is   *)
(* complete, no temporary file is left and no error is reported.            *)
CallInv(c) ==
  /\ pc[c] \in {"idle", "prepare", "create"} => temp[c] = "none"
  /\ pc[c] \in {"close", "rename"} => temp[c] = "full"
  /\ pc[c] \in {"idle", "prepare", "create", "write", "close", "rename"} =>
       file[c] = "none" /\ ~failed[c]
  /\ pc[c] \in {"remove", "returned"} => (failed[c] <=> file[c] = "none")
  /\ file[c] # "none" => file[c] = "full" /\ temp[c] = "none"

IInv == TypeOK /\ \A c \in Calls : CallInv(c)

(* The steps of one call, apart from Crash.                                 *)
CallStep(c) ==
  \/ Begin(c)
  \/ Prepare(c) \/ PrepareFails(c)
  \/ CreateTemp(c) \/ CreateTempFails(c)
  \/ Write(c) \/ WriteFails(c)
  \/ Close(c) \/ CloseFails(c)
  \/ Rename(c) \/ RenameFails(c)
  \/ Remove(c)

LEMMA InitIInv == Init => IInv
  BY DEF Init, IInv, TypeOK, CallInv, InFlight, Content

(* A step of one call keeps the invariant of that call ...                  *)
LEMMA OwnStep ==
  ASSUME IInv, NEW c \in Calls, CallStep(c)
  PROVE  TypeOK' /\ CallInv(c)'
<1> USE DEF IInv, TypeOK, CallInv, InFlight, Content, Step, Fail
<1>1. CASE Begin(c) \/ Prepare(c) \/ CreateTemp(c)
  BY <1>1 DEF Begin, Prepare, CreateTemp
<1>2. CASE Write(c) \/ Close(c)
  BY <1>2 DEF Write, Close
<1>3. CASE PrepareFails(c) \/ CreateTempFails(c)
  BY <1>3 DEF PrepareFails, CreateTempFails
<1>4. CASE WriteFails(c) \/ CloseFails(c) \/ RenameFails(c)
  BY <1>4 DEF WriteFails, CloseFails, RenameFails
<1>5. CASE Rename(c)
  BY <1>5 DEF Rename
<1>6. CASE Remove(c)
  BY <1>6 DEF Remove
<1>7. QED
  BY <1>1, <1>2, <1>3, <1>4, <1>5, <1>6 DEF CallStep

(* ... and leaves the files, the place and the answer of every other call   *)
(* alone.                                                                   *)
LEMMA OthersUntouched ==
  ASSUME IInv, NEW c \in Calls, CallStep(c), NEW d \in Calls \ {c}
  PROVE  /\ pc'[d] = pc[d]
         /\ temp'[d] = temp[d]
         /\ file'[d] = file[d]
         /\ failed'[d] = failed[d]
  BY DEF IInv, TypeOK, CallStep, Begin, Prepare, PrepareFails, CreateTemp, CreateTempFails,
         Write, WriteFails, Close, CloseFails, Rename, RenameFails, Remove, Step, Fail

LEMMA Inductive == IInv /\ [Next]_vars => IInv'
<1> SUFFICES ASSUME IInv, [Next]_vars PROVE IInv'
  OBVIOUS
<1>1. ASSUME NEW c \in Calls, CallStep(c) PROVE IInv'
  <2>1. TypeOK' /\ CallInv(c)'
    BY <1>1, OwnStep
  <2>2. ASSUME NEW d \in Calls \ {c} PROVE CallInv(d)'
    BY <1>1, <2>2, OthersUntouched DEF IInv, CallInv
  <2>3. QED
    BY <2>1, <2>2 DEF IInv
<1>2. ASSUME NEW p, Crash(p) PROVE IInv'
  BY <1>2 DEF Crash, IInv, TypeOK, CallInv, InFlight
<1>3. CASE UNCHANGED vars
  BY <1>3 DEF vars, IInv, TypeOK, CallInv
<1>4. QED
  BY <1>1, <1>2, <1>3 DEF Next, CallStep

LEMMA Invariance == Spec => []IInv
  BY InitIInv, Inductive, PTL DEF Spec

(* Every variable keeps its type.                                           *)
THEOREM TypeCorrect == Spec => []TypeOK
<1>1. IInv => TypeOK
  BY DEF IInv
<1>2. QED
  BY <1>1, Invariance, PTL

(* docs/stores.md: only a call that failed or was killed leaves a temporary *)
(* file behind, and none leaves both files.                                 *)
THEOREM OnlyFailuresLeaveFiles == Spec => []Leftovers
<1>1. IInv => Leftovers
  BY DEF IInv, TypeOK, Content, CallInv, Leftovers
<1>2. QED
  BY <1>1, Invariance, PTL

-----------------------------------------------------------------------------
(* A step of one call is a step of RecordStore for that call, or none: the  *)
(* rename is the commit.                                                    *)
LEMMA CallRefines ==
  ASSUME IInv, NEW c \in Calls, CallStep(c)
  PROVE  [R!Next]_(R!vars)
<1> DEFINE st  == [d \in Calls |-> State(d)]
<1> USE DEF IInv, TypeOK, CallInv
<1>0. \A d \in Calls \ {c} : State(d)' = State(d)
  BY OthersUntouched DEF State
<1>1. ASSUME UNCHANGED file, State(c)' = State(c) PROVE UNCHANGED R!vars
  <2>1. st' = st
    BY <1>0, <1>1
  <2>2. QED
    BY <1>1, <2>1 DEF R!vars
<1>2. ASSUME NEW s, UNCHANGED file, State(c)' = s PROVE st' = [st EXCEPT ![c] = s] /\ UNCHANGED file
  BY <1>0, <1>2
<1>3. CASE Begin(c)
  <2>1. State(c) = "idle" /\ State(c)' = "running" /\ UNCHANGED file
    BY <1>3 DEF Begin, Step, State, InFlight
  <2>2. st' = [st EXCEPT ![c] = "running"]
    BY <2>1, <1>2
  <2>3. R!Begin(c)
    BY <2>1, <2>2 DEF R!Begin, R!Move
  <2>4. QED
    BY <2>3 DEF R!Next
<1>4. CASE Prepare(c) \/ CreateTemp(c) \/ Write(c) \/ Close(c)
            \/ WriteFails(c) \/ CloseFails(c) \/ RenameFails(c)
  <2>1. UNCHANGED file /\ State(c)' = State(c)
    BY <1>4 DEF Prepare, CreateTemp, Write, Close, WriteFails, CloseFails, RenameFails,
                Step, Fail, State, InFlight
  <2>2. QED
    BY <2>1, <1>1
<1>5. CASE PrepareFails(c) \/ CreateTempFails(c)
  <2>1. State(c) = "running" /\ State(c)' = "error" /\ UNCHANGED file /\ file[c] = "none"
    BY <1>5 DEF PrepareFails, CreateTempFails, Step, Fail, State, InFlight
  <2>2. st' = [st EXCEPT ![c] = "error"]
    BY <2>1, <1>2
  <2>3. R!ReturnError(c)
    BY <2>1, <2>2 DEF R!ReturnError, R!Move
  <2>4. QED
    BY <2>3 DEF R!Next
<1>6. CASE Rename(c)
  <2>1. State(c) = "running" /\ State(c)' = "running"
    BY <1>6 DEF Rename, Step, State, InFlight
  <2>2. file[c] = "none" /\ file' = [file EXCEPT ![c] = "full"]
    BY <1>6 DEF Rename, Step
  <2>3. st' = st
    BY <1>0, <2>1
  <2>4. R!Commit(c)
    BY <2>1, <2>2, <2>3 DEF R!Commit
  <2>5. QED
    BY <2>4 DEF R!Next
<1>7. CASE Remove(c)
  <2>1. State(c) = "running" /\ UNCHANGED <<file, failed>>
    BY <1>7 DEF Remove, Step, State, InFlight
  <2>2. pc'[c] = "returned" /\ (failed[c] <=> file[c] = "none")
    BY <1>7 DEF Remove, Step
  <2>3. CASE failed[c]
    <3>1. State(c)' = "error"
      BY <2>1, <2>2, <2>3 DEF State, InFlight
    <3>2. st' = [st EXCEPT ![c] = "error"]
      BY <2>1, <3>1, <1>2
    <3>3. R!ReturnError(c)
      BY <2>1, <2>2, <2>3, <3>2 DEF R!ReturnError, R!Move
    <3>4. QED
      BY <3>3 DEF R!Next
  <2>4. CASE ~failed[c]
    <3>1. State(c)' = "ok"
      BY <2>1, <2>2, <2>4 DEF State, InFlight
    <3>2. st' = [st EXCEPT ![c] = "ok"]
      BY <2>1, <3>1, <1>2
    <3>3. R!ReturnOK(c)
      BY <2>1, <2>2, <2>4, <3>2 DEF R!ReturnOK, R!Move
    <3>4. QED
      BY <3>3 DEF R!Next
  <2>5. QED
    BY <2>3, <2>4
<1>8. QED
  BY <1>3, <1>4, <1>5, <1>6, <1>7 DEF CallStep

LEMMA StepRefines == IInv /\ [Next]_vars => [R!Next]_(R!vars)
<1> SUFFICES ASSUME IInv, [Next]_vars PROVE [R!Next]_(R!vars)
  OBVIOUS
<1>1. ASSUME NEW c \in Calls, CallStep(c) PROVE [R!Next]_(R!vars)
  BY <1>1, CallRefines
<1>2. ASSUME NEW p \in {Owner[c] : c \in Calls}, Crash(p) PROVE [R!Next]_(R!vars)
  <2>1. R!Crash(p)
    BY <1>2 DEF R!Crash, Crash, State, InFlight, IInv, TypeOK
  <2>2. QED
    BY <2>1 DEF R!Next
<1>3. CASE UNCHANGED vars
  BY <1>3 DEF vars, R!vars, State
<1>4. QED
  BY <1>1, <1>2, <1>3 DEF Next, CallStep

(* The file storage is atomic and truthful: whatever step fails and         *)
(* whichever process is killed, readers see whole records only, and Store   *)
(* answers without an error exactly when the record is there.               *)
THEOREM Refinement == Spec => ImplementsRecordStore
<1>1. Init => R!Init
  BY DEF Init, R!Init, State, InFlight
<1>2. QED
  BY <1>1, Invariance, StepRefines, PTL DEF Spec, ImplementsRecordStore, R!Spec

=============================================================================
