---------------------------- MODULE SubmissionProofs ----------------------------
(***************************************************************************)
(* Proofs about Submission, for any submissions and any destinations.      *)
(***************************************************************************)
EXTENDS Submission, TLAPS

-----------------------------------------------------------------------------
(* What the place of a handler says of its row, its page and its client:    *)
(* the page is rendered by the step that leaves the storage, and the        *)
(* connection is of no interest to a handler that is over.                  *)
HandlerInv(r) ==
  /\ pc[r] \in {"new", "storing", "querying"} => row[r] = "none"
  /\ pc[r] \in {"new", "storing", "querying", "executed"} => page[r] = "none"
  /\ pc[r] = "executed" \/ page[r] = "success" => row[r] \in NoError
  /\ pc[r] = "dispatching" => page[r] = "success"
  /\ page[r] = "failed" => pc[r] \in Ended /\ (storage \notin Databases => row[r] = "none")
  /\ pc[r] \in Ended => contact[r] = "over"

(* A message leaves its handler behind the success page only; a refusal     *)
(* that neither the template nor the signal explains has cost the client    *)
(* its answer; and only a handler that has seen all its messages off        *)
(* answers with that page.                                                  *)
TaskInv(r, d) ==
  /\ stage[<<r, d>>] # "idle" => page[r] = "success"
  /\ stage[<<r, d>>] = "refused" =>
       \/ <<r, d>> \in BadTemplate \/ ctxDone
       \/ contact[r] = "gone" \/ pc[r] \in {"unheard", "killed"}
  /\ pc[r] = "answered" /\ page[r] = "success" => stage[<<r, d>>] \notin {"idle", "offered"}

IInv ==
  /\ TypeOK
  /\ \A r \in Requests : HandlerInv(r)
  /\ \A r \in Requests, d \in Destinations : TaskInv(r, d)

(* The steps that concern one submission alone.                             *)
RequestStep(r) == Begin(r) \/ HandlerStep(r) \/ ContactLost(r)

(* The steps that concern one notification alone.                           *)
TaskStep(r, d) == DestinationStep(r, d) \/ TakeUp(<<r, d>>) \/ Notify(<<r, d>>)

LEMMA InitIInv == Init => IInv
<1> SUFFICES ASSUME Init PROVE IInv
  OBVIOUS
<1>1. TypeOK
  BY DEF Init, TypeOK, N!Init, N!Stages
<1>2. ASSUME NEW r \in Requests PROVE HandlerInv(r)
  BY <1>2 DEF Init, HandlerInv, Ended
<1>3. ASSUME NEW r \in Requests, NEW d \in Destinations PROVE TaskInv(r, d)
  BY <1>3 DEF Init, TaskInv, Tasks, N!Init
<1>4. QED
  BY <1>1, <1>2, <1>3 DEF IInv

-----------------------------------------------------------------------------
(* A step of one submission leaves the others alone, and the storage, the   *)
(* notifications and the process as well.                                   *)
LEMMA RequestFrame ==
  ASSUME IInv, NEW r \in Requests, RequestStep(r)
  PROVE  /\ TypeOK'
         /\ UNCHANGED <<storage, notifierVars, mainVars>>
         /\ \A q \in Requests \ {r} : /\ pc'[q] = pc[q]
                                      /\ row'[q] = row[q]
                                      /\ page'[q] = page[q]
                                      /\ contact'[q] = contact[q]
<1> USE DEF IInv, TypeOK, Goto, Return, Render, Waiting, Ended, notifierVars, mainVars
<1>1. CASE Begin(r) \/ Execute(r)
  BY <1>1 DEF Begin, Execute
<1>2. CASE Commit(r) \/ Undo(r)
  BY <1>2 DEF Commit, Undo
<1>3. CASE StoreReturns(r)
  BY <1>3 DEF StoreReturns
<1>4. CASE StoreFails(r)
  BY <1>4 DEF StoreFails
<1>5. CASE Finish(r)
  BY <1>5 DEF Finish
<1>6. CASE ContactLost(r)
  BY <1>6 DEF ContactLost
<1>7. QED
  BY <1>1, <1>2, <1>3, <1>4, <1>5, <1>6 DEF RequestStep, HandlerStep

(* What a step of a submission does to its own handler ...                  *)
LEMMA HandlerKept ==
  ASSUME IInv, NEW r \in Requests, RequestStep(r)
  PROVE  HandlerInv(r)'
<1> USE DEF IInv, TypeOK, HandlerInv, Goto, Return, Render, Waiting, Ended, Databases, NoError
<1>1. CASE Begin(r) \/ Execute(r)
  BY <1>1 DEF Begin, Execute
<1>2. CASE Commit(r) \/ Undo(r)
  BY <1>2 DEF Commit, Undo
<1>3. CASE StoreReturns(r)
  BY <1>3 DEF StoreReturns
<1>4. CASE StoreFails(r)
  BY <1>4 DEF StoreFails
<1>5. CASE Finish(r)
  BY <1>5 DEF Finish
<1>6. CASE ContactLost(r)
  BY <1>6 DEF ContactLost
<1>7. QED
  BY <1>1, <1>2, <1>3, <1>4, <1>5, <1>6 DEF RequestStep, HandlerStep

(* ... and to its notifications: a success page stays, a connection that is *)
(* gone stays gone, and the answer waits for all destinations.              *)
LEMMA TasksKept ==
  ASSUME IInv, NEW r \in Requests, RequestStep(r), NEW d \in Destinations
  PROVE  TaskInv(r, d)'
<1>0. /\ UNCHANGED <<stage, ctxDone>>
      /\ HandlerInv(r) /\ TaskInv(r, d)
  BY RequestFrame DEF IInv, notifierVars, mainVars
<1>1. /\ page[r] = "success" => page'[r] = "success"
      /\ contact[r] = "gone" => contact'[r] = "gone" \/ pc'[r] = "unheard"
      /\ pc[r] \notin {"unheard", "killed"}
  <2> USE DEF IInv, TypeOK, HandlerInv, Goto, Return, Render, Ended
  <2>1. CASE Begin(r) \/ Execute(r) \/ Commit(r) \/ Undo(r) \/ Finish(r)
    BY <2>1 DEF Begin, Execute, Commit, Undo, Finish
  <2>2. CASE StoreReturns(r)
    BY <2>2 DEF StoreReturns
  <2>3. CASE StoreFails(r)
    BY <2>3 DEF StoreFails
  <2>4. CASE ContactLost(r)
    BY <2>4 DEF ContactLost
  <2>5. QED
    BY <2>1, <2>2, <2>3, <2>4 DEF RequestStep, HandlerStep
<1>2. pc'[r] = "answered" /\ page'[r] = "success" => stage[<<r, d>>] \notin {"idle", "offered"}
  <2> USE DEF IInv, TypeOK, HandlerInv, Goto, Return, Render, Waiting
  <2>1. CASE Begin(r) \/ Execute(r) \/ Commit(r) \/ Undo(r)
    BY <2>1 DEF Begin, Execute, Commit, Undo
  <2>2. CASE StoreReturns(r)
    BY <2>2 DEF StoreReturns
  <2>3. CASE StoreFails(r)
    BY <2>3 DEF StoreFails
  <2>4. CASE ContactLost(r)
    BY <2>4 DEF ContactLost
  <2>5. CASE Finish(r)
    BY <2>5 DEF Finish
  <2>6. QED
    BY <2>1, <2>2, <2>3, <2>4, <2>5 DEF RequestStep, HandlerStep
<1>3. QED
  BY <1>0, <1>1, <1>2 DEF TaskInv

-----------------------------------------------------------------------------
(* A step of one notification: only an accepted message arrives, and a      *)
(* refusal has its reason.                                                  *)
LEMMA TaskStepKept ==
  ASSUME IInv, NEW r \in Requests, NEW d \in Destinations, TaskStep(r, d)
  PROVE  IInv'
<1>0. <<r, d>> \in Tasks
  BY DEF Tasks
<1>1. UNCHANGED <<storage, handlerVars, mainVars>>
  BY DEF TaskStep, DestinationStep, Dispatch, DispatchStops, Taken, TakeUp, Notify
<1>2. /\ stage' \in [Tasks -> N!Stages]
      /\ queued' \subseteq Tasks
      /\ \A t \in Tasks \ {<<r, d>>} : stage'[t] = stage[t]
  <2> USE <1>0 DEF IInv, TypeOK, N!Move, N!Stages
  <2>1. CASE Dispatch(r, d) \/ DispatchStops(r, d)
    BY <2>1 DEF Dispatch, DispatchStops, N!Offer, N!Refuse
  <2>2. CASE Taken(r, d)
    BY <2>2 DEF Taken, N!Accept, N!AcceptInVain
  <2>3. CASE TakeUp(<<r, d>>)
    BY <2>3 DEF TakeUp
  <2>4. CASE Notify(<<r, d>>)
    BY <2>4 DEF Notify, N!Deliver, N!Abandon
  <2>5. QED
    BY <2>1, <2>2, <2>3, <2>4 DEF TaskStep, DestinationStep
<1>3. TaskInv(r, d)'
  <2> USE <1>0, <1>1 DEF IInv, TypeOK, HandlerInv, TaskInv, handlerVars, mainVars, N!Stages
  <2>1. CASE Dispatch(r, d)
    BY <2>1 DEF Dispatch, N!Offer, N!Refuse, N!Move
  <2>2. CASE DispatchStops(r, d)
    BY <2>2 DEF DispatchStops, ContextDone, N!Refuse, N!Move
  <2>3. CASE Taken(r, d)
    BY <2>3 DEF Taken, N!Accept, N!AcceptInVain, N!Move
  <2>4. CASE Notify(<<r, d>>)
    BY <2>4 DEF Notify, N!Deliver, N!Abandon, N!Move
  <2>5. CASE TakeUp(<<r, d>>)
    BY <2>5 DEF TakeUp
  <2>6. QED
    BY <2>1, <2>2, <2>3, <2>4, <2>5 DEF TaskStep, DestinationStep
<1>4. \A q \in Requests, e \in Destinations : <<q, e>> # <<r, d>> => TaskInv(q, e)'
  BY <1>1, <1>2 DEF IInv, TaskInv, Tasks, handlerVars, mainVars
<1>5. TypeOK' /\ \A q \in Requests : HandlerInv(q)'
  BY <1>1, <1>2 DEF IInv, TypeOK, HandlerInv, NoError, handlerVars, mainVars
<1>6. QED
  BY <1>3, <1>4, <1>5 DEF IInv

-----------------------------------------------------------------------------
(* A step of the process: connections are closed and handlers killed, the   *)
(* messages in memory are lost; no page and no row changes, and nothing     *)
(* that was cancelled is taken up again.                                    *)
ProcessStep ==
  MainStep \/ (\E s \in Subsystems : NotifierReturns(s)) \/ Interrupt \/ ListenFails \/ Kill

LEMMA ProcessEffect ==
  ASSUME IInv, ProcessStep
  PROVE  /\ TypeOK'
         /\ UNCHANGED <<storage, row, page>>
         /\ ctxDone => ctxDone'
         /\ \A r \in Requests :
              \/ pc'[r] = pc[r] /\ contact'[r] = contact[r]
              \/ pc[r] \in Waiting /\ pc'[r] = pc[r] /\ contact'[r] = "gone"
              \/ pc[r] \in Waiting /\ pc'[r] = "killed" /\ contact'[r] = "over"
         /\ \A t \in Tasks :
              stage'[t] = stage[t] \/ (stage[t] = "accepted" /\ stage'[t] = "abandoned")
<1> USE DEF IInv, TypeOK, N!Stages, handlerVars, notifierVars
<1>1. CASE Interrupt \/ ListenFails \/ RunReturns
  <2>1. CASE Interrupt
    BY <2>1 DEF Interrupt
  <2>2. CASE ListenFails
    BY <2>2 DEF ListenFails
  <2>3. CASE RunReturns
    BY <2>3 DEF RunReturns
  <2>4. QED
    BY <1>1, <2>1, <2>2, <2>3
<1>2. CASE ServerClose
  BY <1>2 DEF ServerClose
<1>3. ASSUME NEW s \in Subsystems, NotifierReturns(s)
      PROVE  /\ TypeOK'
             /\ UNCHANGED <<storage, row, page, pc, contact, ctxDone>>
             /\ \A t \in Tasks :
                  stage'[t] = stage[t] \/ (stage[t] = "accepted" /\ stage'[t] = "abandoned")
  BY <1>3 DEF NotifierReturns, N!Abandon
<1>4. CASE Die
  BY <1>4 DEF Die, N!Abandon, Ended, Subsystems
<1>5. QED
  BY <1>1, <1>2, <1>3, <1>4 DEF ProcessStep, MainStep, Exit, Kill

LEMMA ProcessStepKept ==
  ASSUME IInv, ProcessStep
  PROVE  IInv'
<1> USE ProcessEffect
<1>1. ASSUME NEW r \in Requests PROVE HandlerInv(r)'
  <2>1. /\ HandlerInv(r)
        /\ \/ pc'[r] = pc[r] /\ (contact'[r] = contact[r] \/ pc[r] \notin Ended)
           \/ pc'[r] = "killed" /\ contact'[r] = "over"
        /\ UNCHANGED <<storage, row, page>>
    BY <1>1 DEF IInv, Waiting, Ended
  <2>2. NoError' = NoError
    BY <2>1 DEF NoError
  <2>3. QED
    BY <2>1, <2>2 DEF HandlerInv, Ended
<1>2. ASSUME NEW r \in Requests, NEW d \in Destinations PROVE TaskInv(r, d)'
  <2>1. <<r, d>> \in Tasks
    BY <1>2 DEF Tasks
  <2>2. QED
    BY <1>2, <2>1 DEF IInv, TaskInv, Waiting
<1>3. QED
  BY <1>1, <1>2 DEF IInv

-----------------------------------------------------------------------------
LEMMA Inductive == IInv /\ [Next]_vars => IInv'
<1> SUFFICES ASSUME IInv, [Next]_vars PROVE IInv'
  OBVIOUS
<1>1. ASSUME NEW r \in Requests, RequestStep(r) PROVE IInv'
  <2>1. ASSUME NEW q \in Requests PROVE HandlerInv(q)'
    BY <1>1, <2>1, RequestFrame, HandlerKept DEF IInv, HandlerInv, NoError
  <2>2. ASSUME NEW q \in Requests, NEW d \in Destinations PROVE TaskInv(q, d)'
    BY <1>1, <2>2, RequestFrame, TasksKept DEF IInv, TaskInv, notifierVars, mainVars
  <2>3. QED
    BY <1>1, <2>1, <2>2, RequestFrame DEF IInv
<1>2. ASSUME NEW r \in Requests, NEW d \in Destinations, TaskStep(r, d) PROVE IInv'
  BY <1>2, TaskStepKept
<1>3. CASE ProcessStep
  BY <1>3, ProcessStepKept
<1>4. CASE UNCHANGED vars
  BY <1>4 DEF vars, handlerVars, notifierVars, mainVars, IInv, TypeOK, HandlerInv, TaskInv, NoError
<1>5. ASSUME NEW t \in Tasks, TakeUp(t) \/ Notify(t) PROVE IInv'
  <2>1. PICK r \in Requests, d \in Destinations : t = <<r, d>>
    BY <1>5 DEF Tasks
  <2>2. QED
    BY <1>2, <1>5, <2>1 DEF TaskStep
<1>6. QED
  BY <1>1, <1>2, <1>3, <1>4, <1>5 DEF Next, RequestStep, TaskStep, ProcessStep

LEMMA Invariance == Spec => []IInv
  BY InitIInv, Inductive, PTL DEF Spec

(* Every variable keeps its type.                                           *)
THEOREM TypeCorrect == Spec => []TypeOK
<1>1. IInv => TypeOK
  BY DEF IInv
<1>2. QED
  BY <1>1, Invariance, PTL

(* docs/notifications.md: notifications follow the storage's word.          *)
THEOREM StoredFirst == Spec => []NotifiedOnlyIfStored
<1>1. IInv => NotifiedOnlyIfStored
  BY DEF IInv, HandlerInv, TaskInv, NotifiedOnlyIfStored
<1>2. QED
  BY <1>1, Invariance, PTL

(* The pages of submitForm say what became of the row.                      *)
THEOREM PagesTellTheTruth == Spec => []TruthfulPage
<1>1. IInv => TruthfulPage
  BY DEF IInv, HandlerInv, TruthfulPage
<1>2. QED
  BY <1>1, Invariance, PTL

(* submitForm returns, and so answers, after all of its notifications.      *)
THEOREM HandedOverBeforeAnswer == Spec => []AnsweredAfterHandover
<1>1. ASSUME IInv PROVE AnsweredAfterHandover
  <2> SUFFICES ASSUME NEW r \in Requests, pc[r] = "answered", page[r] = "success", ~ctxDone,
                      NEW d \in Destinations, <<r, d>> \notin BadTemplate
               PROVE  stage[<<r, d>>] \in N!Taken
    BY DEF AnsweredAfterHandover
  <2>1. stage[<<r, d>>] \notin {"idle", "offered", "refused"}
    BY <1>1 DEF IInv, HandlerInv, TaskInv, Ended
  <2>2. stage[<<r, d>>] \in N!Stages
    BY <1>1 DEF IInv, TypeOK, Tasks
  <2>3. QED
    BY <2>1, <2>2 DEF N!Stages, N!Taken
<1>2. QED
  BY <1>1, Invariance, PTL

=============================================================================
