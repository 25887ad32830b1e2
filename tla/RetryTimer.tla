-------------------------------- MODULE RetryTimer --------------------------------
(***************************************************************************)
(* The pace of one webhook message: how long an attempt lasts and how long *)
(* the sender waits between two (Create, Send and trySend of               *)
(* internal/notifications/webhook/webhooks.go).  WebhookDispatcher leaves  *)
(* time out; here a clock counts units of five seconds, and what an        *)
(* attempt does is left out.                                               *)
(*                                                                         *)
(* Timers and the deadline of an attempt fire when they are due: time does *)
(* not pass while the sender has something to do.                          *)
(***************************************************************************)
EXTENDS Integers

CONSTANTS
  Durations,  (* values of "timeout" and "interval" in the YAML; 0 is "not  *)
              (* set"                                                       *)
  Attempts    (* values of "retry"                                          *)

VARIABLES
  task,       (* the destination's settings, after Create                   *)
  pc,         (* Send: in trySend, between two attempts, or over            *)
  attempt,    (* Send's counter                                             *)
  timer,      (* time since the attempt, or the wait, began                 *)
  ctxDone     (* the process-wide context was cancelled                     *)

vars == <<task, pc, attempt, timer, ctxDone>>

defaultTimeout  == 2    (* 10 seconds *)
defaultInterval == 3    (* 15 seconds *)
defaultRetries  == 3

Create(timeout, interval, retry) ==
  [timeout  |-> IF timeout <= 0 THEN defaultTimeout ELSE timeout,
   interval |-> IF interval <= 0 THEN defaultInterval ELSE interval,
   retry    |-> IF retry = 0 THEN defaultRetries ELSE retry]

Init ==
  /\ \E timeout, interval \in Durations, retry \in Attempts :
       task = Create(timeout, interval, retry)
  /\ pc = "trying"
  /\ attempt = 0
  /\ timer = 0
  /\ ctxDone = FALSE

-----------------------------------------------------------------------------
(* A unit of time passes.  Both trySend, by the context.WithTimeout of its  *)
(* request, and the wait, by time.After, are over when the timeout is       *)
(* reached; a cancelled context ends both at once.                          *)
Tick ==
  /\ pc # "done"
  /\ timer < task.timeout
  /\ ~ctxDone
  /\ timer' = timer + 1
  /\ UNCHANGED <<task, pc, attempt, ctxDone>>

(* trySend returns nil, before its deadline.                                *)
Delivered ==
  /\ pc = "trying"
  /\ pc' = "done"
  /\ UNCHANGED <<task, attempt, timer, ctxDone>>

(* trySend returns an error, for its deadline or earlier.                   *)
AttemptFails ==
  /\ pc = "trying"
  /\ pc' = IF attempt >= task.retry THEN "done" ELSE "waiting"
  /\ timer' = 0
  /\ UNCHANGED <<task, attempt, ctxDone>>

(* case <-time.After(wt.webhook.Timeout)                                    *)
RetryAfter ==
  /\ pc = "waiting"
  /\ timer = task.timeout
  /\ pc' = "trying"
  /\ attempt' = attempt + 1
  /\ timer' = 0
  /\ UNCHANGED <<task, ctxDone>>

(* case <-global.Done()                                                     *)
StopWaiting ==
  /\ pc = "waiting"
  /\ ctxDone
  /\ pc' = "done"
  /\ UNCHANGED <<task, attempt, timer, ctxDone>>

Interrupt ==
  /\ ~ctxDone
  /\ ctxDone' = TRUE
  /\ UNCHANGED <<task, pc, attempt, timer>>

Next == Tick \/ Delivered \/ AttemptFails \/ RetryAfter \/ StopWaiting \/ Interrupt

Spec == Init /\ [][Next]_vars

-----------------------------------------------------------------------------
(* "The server will retry delivery ... with constant `interval` between     *)
(* attempts" (docs/notifications.md): a new attempt begins when the         *)
(* interval has passed since the one before failed.                         *)
DocumentedInterval == [][attempt' # attempt => timer = task.interval]_vars

=============================================================================
