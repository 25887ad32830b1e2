------------------------------ MODULE DispatchQueue ------------------------------
(***************************************************************************)
(* The in-memory queue between the form handlers and one notification      *)
(* sub-system (webhooks or AMQP).  A task is one call of Dispatch, made by *)
(* a goroutine of sendNotifications (internal/engine/form.go) for one      *)
(* stored submission and one destination of the form.  The queue is a Go   *)
(* channel, make(chan task, buffer): a send blocks while the buffer is     *)
(* full, and with Buffer = 0 it needs a receiver that is waiting for it.   *)
(*                                                                         *)
(* WebhookDispatcher and AmqpPublisher extend this module and add who      *)
(* takes the tasks out of the queue.                                       *)
(***************************************************************************)
EXTENDS Integers, Sequences, FiniteSets, Functions

CONSTANTS
  Tasks,    (* the Dispatch calls                                           *)
  Buffer,   (* capacity of the channel: --webhooks.buffer, --amqp.buffer    *)
  Retry     (* Retry[t]: the "retry" that the destination's YAML asks for   *)

ASSUME BufferAssumption == Buffer \in Nat
ASSUME RetryAssumption  == Retry \in [Tasks -> Int]

VARIABLES
  caller,   (* where each Dispatch call is                                  *)
  queue,    (* tasks in the channel's buffer, oldest first                  *)
  ctxDone   (* the process-wide context was cancelled (interrupt signal)    *)

queueVars == <<caller, queue, ctxDone>>

CallerStates == {"idle", "blocked", "ok", "failed"}

(* The tasks that wait in the buffer.                                      *)
Queued == Range(queue)

-----------------------------------------------------------------------------
(* How often a message may be tried.  Zero means "not set".                 *)

defaultRetries == 3

Retries == [t \in Tasks |-> IF Retry[t] = 0 THEN defaultRetries ELSE Retry[t]]

(* Wrong: off by one, in both directions.                                   *)
WrongIsLastAttempt(t, k) == k > Retries[t]
WrongIsLastAttemptEarly(t, k) == k + 1 >= Retries[t]

(* Attempt numbers start at 0 and a failed attempt k is the last one when   *)
(* k >= retries, so a negative value still allows one attempt.              *)
IsLastAttempt(t, k) == k >= Retries[t]

(* The documented allowance (docs/notifications.md): the first attempt and  *)
(* "retry" more, three when it is not set.                                  *)
Budget == [t \in Tasks |-> IF Retry[t] = 0 THEN 4
                           ELSE IF Retry[t] < 0 THEN 1
                           ELSE Retry[t] + 1]

-----------------------------------------------------------------------------
(* The callers.                                                             *)

QueueInit ==
  /\ caller = [t \in Tasks |-> "idle"]
  /\ queue = <<>>
  /\ ctxDone = FALSE

(* Wrong: a template's error is returned, and the task is queued as well.   *)
WrongDispatch(t) ==
  /\ caller[t] = "idle"
  /\ \/ /\ caller' = [caller EXCEPT ![t] = "blocked"]
        /\ UNCHANGED queue
     \/ /\ Len(queue) < Buffer
        /\ caller' = [caller EXCEPT ![t] = "failed"]
        /\ queue' = Append(queue, t)
  /\ UNCHANGED ctxDone

(* Dispatch renders the message's templates; if one of them fails the call  *)
(* returns at once, otherwise it reaches the select statement.              *)
Dispatch(t) ==
  /\ caller[t] = "idle"
  /\ \E c \in {"blocked", "failed"} : caller' = [caller EXCEPT ![t] = c]
  /\ UNCHANGED <<queue, ctxDone>>

(* The send case of the select: there is room in the buffer.                *)
Enqueue(t) ==
  /\ caller[t] = "blocked"
  /\ Len(queue) < Buffer
  /\ queue' = Append(queue, t)
  /\ caller' = [caller EXCEPT ![t] = "ok"]
  /\ UNCHANGED ctxDone

(* The send case when the buffer is empty and a receiver waits: it takes    *)
(* the task in the same step.  With Buffer = 0 there is no other way.       *)
Handoff(t) ==
  /\ queue = <<>>
  /\ caller[t] = "blocked"
  /\ caller' = [caller EXCEPT ![t] = "ok"]
  /\ UNCHANGED <<queue, ctxDone>>

(* Wrong: the error is dropped; the request's context does not end with the *)
(* process-wide one.                                                        *)
WrongContextDone(t) ==
  /\ caller[t] = "blocked"
  /\ caller' = [caller EXCEPT ![t] = "ok"]
  /\ UNCHANGED <<queue, ctxDone>>

WrongContextDoneDetached(t) ==
  /\ caller[t] = "blocked"
  /\ ~ctxDone
  /\ caller' = [caller EXCEPT ![t] = "failed"]
  /\ UNCHANGED <<queue, ctxDone>>

(* The ctx.Done() case of the select.  The request's context ends when the  *)
(* client goes away, at any moment, or with the process-wide context, its   *)
(* base.                                                                    *)
ContextDone(t) ==
  /\ caller[t] = "blocked"
  /\ caller' = [caller EXCEPT ![t] = "failed"]
  /\ UNCHANGED <<queue, ctxDone>>

(* Wrong: the task stays in the buffer.                                     *)
WrongTakeHead == queue # <<>> /\ UNCHANGED queueVars

(* A receive from the buffer: the oldest task.                              *)
TakeHead ==
  /\ queue # <<>>
  /\ queue' = Tail(queue)
  /\ UNCHANGED <<caller, ctxDone>>

(* The signal handler cancels the process-wide context.                     *)
Interrupt ==
  /\ ~ctxDone
  /\ ctxDone' = TRUE
  /\ UNCHANGED <<caller, queue>>

QueueTypeOK ==
  /\ caller \in [Tasks -> CallerStates]
  /\ queue \in Seq(Tasks)
  /\ ctxDone \in BOOLEAN

=============================================================================
