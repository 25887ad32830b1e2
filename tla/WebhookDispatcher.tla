---------------------------- MODULE WebhookDispatcher ----------------------------
(***************************************************************************)
(* The webhook sub-system, internal/notifications/webhook/webhooks.go: one *)
(* loop (Run) that takes tasks from the queue and starts a goroutine per   *)
(* task, the sender (Send), which posts the message, waits and posts again *)
(* until the remote server says 2xx or the attempts are used up.           *)
(*                                                                         *)
(* The remote server and the network are not in src/: a request may be     *)
(* refused, answered with any status, answered too late, or arrive after   *)
(* its sender stopped waiting for it.                                      *)
(***************************************************************************)
EXTENDS DispatchQueue

CONSTANT ValidURL   (* the tasks whose URL url.Parse accepts                *)

ASSUME ValidURLAssumption == ValidURL \subseteq Tasks

VARIABLES
  loop,     (* Run: in its loop, waiting for the senders, or gone           *)
  sender,   (* Send: one goroutine per task                                 *)
  attempt,  (* Send's local counter                                         *)
  wire,     (* the request of the current attempt, and its answer           *)
  stray,    (* requests given up by their sender that may still arrive      *)
  copies    (* how often the remote server processed the message            *)

senderVars == <<sender, attempt, wire, stray, copies>>
vars == <<queueVars, loop, senderVars>>

Active == {"trying", "waiting"}
Finished == {"delivered", "exhausted", "stopped", "skipped"}

TypeOK ==
  /\ QueueTypeOK
  /\ loop \in {"running", "draining", "returned"}
  /\ sender \in [Tasks -> Active \cup Finished \cup {"none"}]
  /\ attempt \in [Tasks -> Nat]
  /\ wire \in [Tasks -> {"idle", "request", "ok", "bad"}]
  /\ stray \in [Tasks -> Nat]
  /\ copies \in [Tasks -> Nat]

Init ==
  /\ QueueInit
  /\ loop = "running"
  /\ sender = [t \in Tasks |-> "none"]
  /\ attempt = [t \in Tasks |-> 0]
  /\ wire = [t \in Tasks |-> "idle"]
  /\ stray = [t \in Tasks |-> 0]
  /\ copies = [t \in Tasks |-> 0]

-----------------------------------------------------------------------------
(* Run.                                                                     *)

(* go task.Send(ctx), which returns at once when the URL is invalid.        *)
StartSend(t) ==
  /\ sender' = [sender EXCEPT ![t] = IF t \in ValidURL THEN "trying" ELSE "skipped"]
  /\ UNCHANGED <<loop, attempt, wire, stray, copies>>

(* Both cases of the select may be ready: a cancelled context does not keep *)
(* the loop from taking another task.                                       *)
Receive ==
  /\ loop = "running"
  /\ TakeHead
  /\ StartSend(Head(queue))

ReceiveDirect(t) ==
  /\ loop = "running"
  /\ Handoff(t)
  /\ StartSend(t)

LoopStops ==
  /\ loop = "running"
  /\ ctxDone
  /\ loop' = "draining"
  /\ UNCHANGED <<queueVars, senderVars>>

(* The deferred wg.Wait() is over when no sender is left.                   *)
RunReturns ==
  /\ loop = "draining"
  /\ \A t \in Tasks : sender[t] \notin Active
  /\ loop' = "returned"
  /\ UNCHANGED <<queueVars, senderVars>>

-----------------------------------------------------------------------------
(* Send and trySend.                                                        *)

(* http.DefaultClient.Do does not start a request under a cancelled context.*)
Post(t) ==
  /\ sender[t] = "trying"
  /\ wire[t] = "idle"
  /\ ~ctxDone
  /\ wire' = [wire EXCEPT ![t] = "request"]
  /\ UNCHANGED <<queueVars, loop, sender, attempt, stray, copies>>

(* trySend returned an error: wait for the next attempt, unless this was    *)
(* the last one.                                                            *)
AttemptFails(t) ==
  sender' = [sender EXCEPT ![t] = IF IsLastAttempt(t, attempt[t]) THEN "exhausted"
                                                                  ELSE "waiting"]

(* Wrong: the error is taken for a success.                                 *)
WrongPostFails(t) ==
  /\ sender[t] = "trying"
  /\ wire[t] = "idle"
  /\ sender' = [sender EXCEPT ![t] = "delivered"]
  /\ UNCHANGED <<queueVars, loop, attempt, wire, stray, copies>>

(* No connection, no request, or a context that is over already.            *)
PostFails(t) ==
  /\ sender[t] = "trying"
  /\ wire[t] = "idle"
  /\ AttemptFails(t)
  /\ UNCHANGED <<queueVars, loop, attempt, wire, stray, copies>>

Success(t) ==
  /\ sender[t] = "trying"
  /\ wire[t] = "ok"
  /\ sender' = [sender EXCEPT ![t] = "delivered"]
  /\ wire' = [wire EXCEPT ![t] = "idle"]
  /\ UNCHANGED <<queueVars, loop, attempt, stray, copies>>

(* The answer has a status other than 2xx.                                  *)
BadStatus(t) ==
  /\ sender[t] = "trying"
  /\ wire[t] = "bad"
  /\ AttemptFails(t)
  /\ wire' = [wire EXCEPT ![t] = "idle"]
  /\ UNCHANGED <<queueVars, loop, attempt, stray, copies>>

(* Wrong: neither a timeout nor the context ends a request.                 *)
WrongGiveUpRequest(t) ==
  /\ sender[t] = "trying"
  /\ wire[t] \in {"ok", "bad"}
  /\ AttemptFails(t)
  /\ wire' = [wire EXCEPT ![t] = "idle"]
  /\ UNCHANGED <<queueVars, loop, attempt, stray, copies>>

(* The attempt's timeout, the end of the global context or a broken         *)
(* connection: the answer, if there is one, is lost, and a request that is  *)
(* still on its way may arrive later.                                       *)
GiveUpRequest(t) ==
  /\ sender[t] = "trying"
  /\ wire[t] # "idle"
  /\ AttemptFails(t)
  /\ wire' = [wire EXCEPT ![t] = "idle"]
  /\ stray' = [stray EXCEPT ![t] = IF wire[t] = "request" THEN @ + 1 ELSE @]
  /\ UNCHANGED <<queueVars, loop, attempt, copies>>

(* Wrong: the counter goes the other way.                                   *)
WrongRetryAfter(t) ==
  /\ sender[t] = "waiting"
  /\ sender' = [sender EXCEPT ![t] = "trying"]
  /\ attempt' = [attempt EXCEPT ![t] = @ - 1]
  /\ UNCHANGED <<queueVars, loop, wire, stray, copies>>

RetryAfter(t) ==
  /\ sender[t] = "waiting"
  /\ sender' = [sender EXCEPT ![t] = "trying"]
  /\ attempt' = [attempt EXCEPT ![t] = @ + 1]
  /\ UNCHANGED <<queueVars, loop, wire, stray, copies>>

StopWaiting(t) ==
  /\ sender[t] = "waiting"
  /\ ctxDone
  /\ sender' = [sender EXCEPT ![t] = "stopped"]
  /\ UNCHANGED <<queueVars, loop, attempt, wire, stray, copies>>

-----------------------------------------------------------------------------
(* The remote server and the network.                                       *)

RemoteAnswers(t) ==
  /\ wire[t] = "request"
  /\ copies' = [copies EXCEPT ![t] = @ + 1]
  /\ \E a \in {"ok", "bad"} : wire' = [wire EXCEPT ![t] = a]
  /\ UNCHANGED <<queueVars, loop, sender, attempt, stray>>

StrayArrives(t) ==
  /\ stray[t] > 0
  /\ stray' = [stray EXCEPT ![t] = @ - 1]
  /\ copies' = [copies EXCEPT ![t] = @ + 1]
  /\ UNCHANGED <<queueVars, loop, sender, attempt, wire>>

StrayLost(t) ==
  /\ stray[t] > 0
  /\ stray' = [stray EXCEPT ![t] = @ - 1]
  /\ UNCHANGED <<queueVars, loop, sender, attempt, wire, copies>>

-----------------------------------------------------------------------------
Callers(t) ==
  \/ Dispatch(t)
  \/ Enqueue(t)
  \/ ContextDone(t)

CallerStep(t) == Callers(t) /\ UNCHANGED <<loop, senderVars>>

SenderStep(t) ==
  \/ Post(t)
  \/ PostFails(t)
  \/ Success(t)
  \/ BadStatus(t)
  \/ GiveUpRequest(t)
  \/ RetryAfter(t)
  \/ StopWaiting(t)

NetworkStep(t) ==
  \/ RemoteAnswers(t)
  \/ StrayArrives(t)
  \/ StrayLost(t)

Shutdown == Interrupt /\ UNCHANGED <<loop, senderVars>>

Next ==
  \/ \E t \in Tasks : \/ CallerStep(t)
                      \/ ReceiveDirect(t)
                      \/ SenderStep(t)
                      \/ NetworkStep(t)
  \/ Receive
  \/ LoopStops
  \/ RunReturns
  \/ Shutdown

(* What the Go scheduler and the timers guarantee.  Nothing is assumed of   *)
(* the remote server, of the signal, or of a client that may go away: a     *)
(* request that is never answered ends by its timeout.                      *)
Fairness ==
  /\ WF_vars(Receive)
  /\ WF_vars(LoopStops)
  /\ WF_vars(RunReturns)
  /\ \A t \in Tasks :
       /\ WF_vars(Enqueue(t) /\ UNCHANGED <<loop, senderVars>>)
       /\ WF_vars(ReceiveDirect(t))
       /\ WF_vars(ctxDone /\ ContextDone(t) /\ UNCHANGED <<loop, senderVars>>)
       /\ WF_vars(SenderStep(t))

Spec == Init /\ [][Next]_vars

FairSpec == Spec /\ Fairness

-----------------------------------------------------------------------------
(* Every task has one owner.  Once Dispatch returned nil the task is either *)
(* in the queue, once, or with its one sender; before that, and after an    *)
(* error, nobody has it.  So an error reported by Dispatch means that       *)
(* nothing was or will be sent, and no task is sent by two goroutines.      *)
SingleOwner ==
  /\ \A t \in Tasks :
       /\ caller[t] = "ok" <=> (t \in Queued \/ sender[t] # "none")
       /\ ~(t \in Queued /\ sender[t] # "none")
  /\ Cardinality(Queued) = Len(queue)

(* The remote server sees a message at most Budget[t] times, counting the   *)
(* requests that were given up and may still arrive, and never before the   *)
(* task left the queue.                                                     *)
AttemptBudget ==
  \A t \in Tasks :
    /\ copies[t] + stray[t] + (IF wire[t] = "request" THEN 1 ELSE 0) <= Budget[t]
    /\ sender[t] = "none" => copies[t] + stray[t] = 0

(* A message is not given up early: only when the attempts are used up, or  *)
(* its URL is invalid, or the process was told to stop; and one reported    *)
(* as delivered has reached the remote server.                              *)
NoEarlyGiveUp ==
  \A t \in Tasks :
    /\ sender[t] = "exhausted" => attempt[t] + 1 = Budget[t]
    /\ sender[t] = "skipped" => t \notin ValidURL
    /\ sender[t] = "stopped" => ctxDone
    /\ sender[t] = "delivered" => copies[t] > 0
    /\ (t \in Queued /\ loop # "running") => ctxDone

(* The webhook sub-system keeps the promises of module Notifier.            *)
Stage(t) ==
  CASE caller[t] = "idle" -> "idle"
    [] caller[t] = "blocked" -> "offered"
    [] caller[t] = "failed" -> "refused"
    [] caller[t] = "ok" ->
         IF sender[t] = "delivered" THEN "delivered"
         ELSE IF sender[t] \in Active \/ (sender[t] = "none" /\ loop = "running")
              THEN "accepted"
              ELSE "abandoned"

N == INSTANCE Notifier WITH stage <- [t \in Tasks |-> Stage(t)], Confirmed <- TRUE

ImplementsNotifier == N!Spec

(* A handler is never stuck in Dispatch: the queue moves on, or the context *)
(* ends.                                                                    *)
DispatchReturns ==
  \A t \in Tasks : caller[t] = "blocked" ~> caller[t] \in {"ok", "failed"}

(* While the process runs, an accepted message is taken to its end: it is   *)
(* delivered or its attempts are used up, whatever the other messages and   *)
(* the remote server do.                                                    *)
AcceptedResolved ==
  \A t \in Tasks :
    caller[t] = "ok" ~> (sender[t] \in {"delivered", "exhausted", "skipped"} \/ ctxDone)

(* After the signal, Run comes to its end even if no server ever answers.   *)
ShutdownCompletes == ctxDone ~> loop = "returned"

=============================================================================
