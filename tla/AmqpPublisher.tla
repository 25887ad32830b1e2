------------------------------ MODULE AmqpPublisher ------------------------------
(***************************************************************************)
(* The AMQP sub-system, internal/notifications/amqp/amqp.go: a fixed set   *)
(* of workers (Run) that share one queue.  A worker handles one task at a  *)
(* time (sendTask): it publishes over the connection and channel it keeps  *)
(* from earlier tasks, opening them when it has none, and after a failure  *)
(* it closes both, waits and tries again.                                  *)
(*                                                                         *)
(* The broker and the client library (amqp091) are not in src/.  Of them   *)
(* the model keeps what the code can observe: a dial or a handshake may    *)
(* fail, a connection or a channel may be closed by the other side at any  *)
(* time, publishing writes to the socket and waits for no acknowledgement, *)
(* and what was written may be lost.                                       *)
(***************************************************************************)
EXTENDS DispatchQueue

CONSTANTS
  Workers,  (* --amqp.workers goroutines                                    *)
  NoTask

ASSUME NoTaskAssumption == NoTask \notin Tasks

VARIABLES
  pc,       (* where each worker is                                         *)
  job,      (* the task it handles                                          *)
  attempt,  (* sendTask's local counter                                     *)
  conn,     (* worker.connection                                            *)
  chan,     (* worker.channel                                               *)
  sockets,  (* how many connections of the worker the broker holds open     *)
  outcome,  (* how each task ended                                          *)
  frames,   (* copies of a message written to a socket, not yet received    *)
  copies    (* copies of a message that the broker received                 *)

workerVars == <<pc, job, attempt, conn, chan, sockets, outcome>>
brokerVars == <<frames, copies>>
vars == <<queueVars, workerVars, brokerVars>>

Handle == {"nil", "live", "dead"}

(* The places of trySendTask.                                               *)
Trying == {"acquire", "dial", "handshake", "channel", "publish"}
Busy == Trying \cup {"waiting"}

TypeOK ==
  /\ QueueTypeOK
  /\ pc \in [Workers -> Busy \cup {"select", "returned"}]
  /\ job \in [Workers -> Tasks \cup {NoTask}]
  /\ attempt \in [Workers -> Nat]
  /\ conn \in [Workers -> Handle]
  /\ chan \in [Workers -> Handle]
  /\ sockets \in [Workers -> Nat]
  /\ outcome \in [Tasks -> {"none", "published", "exhausted", "stopped"}]
  /\ frames \in [Tasks -> Nat]
  /\ copies \in [Tasks -> Nat]

Init ==
  /\ QueueInit
  /\ pc = [w \in Workers |-> "select"]
  /\ job = [w \in Workers |-> NoTask]
  /\ attempt = [w \in Workers |-> 0]
  /\ conn = [w \in Workers |-> "nil"]
  /\ chan = [w \in Workers |-> "nil"]
  /\ sockets = [w \in Workers |-> 0]
  /\ outcome = [t \in Tasks |-> "none"]
  /\ frames = [t \in Tasks |-> 0]
  /\ copies = [t \in Tasks |-> 0]

Goto(w, place) == pc' = [pc EXCEPT ![w] = place]

-----------------------------------------------------------------------------
(* Run.                                                                     *)

StartTask(w, t) ==
  /\ pc[w] = "select"
  /\ Goto(w, "acquire")
  /\ job' = [job EXCEPT ![w] = t]
  /\ attempt' = [attempt EXCEPT ![w] = 0]
  /\ UNCHANGED <<conn, chan, sockets, outcome, brokerVars>>

Receive(w) == TakeHead /\ StartTask(w, Head(queue))

ReceiveDirect(w, t) == Handoff(t) /\ StartTask(w, t)

(* Wrong: the handles are forgotten, the connection is not closed.          *)
WrongClose(w, opened) ==
  /\ conn' = [conn EXCEPT ![w] = "nil"]
  /\ chan' = [chan EXCEPT ![w] = "nil"]
  /\ UNCHANGED sockets

(* worker.close: closes what is still open and forgets both handles.        *)
Close(w, opened) ==
  /\ conn' = [conn EXCEPT ![w] = "nil"]
  /\ chan' = [chan EXCEPT ![w] = "nil"]
  /\ sockets' = [sockets EXCEPT ![w] = @ - opened]

Held(w) == IF conn[w] = "live" THEN 1 ELSE 0

(* Wrong: the worker gives up without a signal; it waits for the queue to   *)
(* be closed, which nobody does.                                            *)
WrongWorkerReturns(w) ==
  /\ pc[w] = "select"
  /\ Goto(w, "returned")
  /\ Close(w, Held(w))
  /\ UNCHANGED <<queueVars, job, attempt, outcome, brokerVars>>

WrongWorkerReturnsNever(w) == pc[w] = "select" /\ FALSE /\ UNCHANGED vars

WorkerReturns(w) ==
  /\ pc[w] = "select"
  /\ ctxDone
  /\ Goto(w, "returned")
  /\ Close(w, Held(w))
  /\ UNCHANGED <<queueVars, job, attempt, outcome, brokerVars>>

-----------------------------------------------------------------------------
(* sendTask.                                                                *)

(* The task is over, and the worker returns to the select of Run.           *)
Finish(w, result) ==
  /\ Goto(w, "select")
  /\ job' = [job EXCEPT ![w] = NoTask]
  /\ outcome' = [outcome EXCEPT ![job[w]] = result]

(* Wrong: the failed connection is kept for the next attempt.               *)
WrongFailAttempt(w, opened) ==
  /\ sockets' = [sockets EXCEPT ![w] = IF pc[w] = "handshake" THEN @ - 1 ELSE @]
  /\ \/ /\ IsLastAttempt(job[w], attempt[w])
        /\ Finish(w, "exhausted")
     \/ /\ ~IsLastAttempt(job[w], attempt[w])
        /\ Goto(w, "waiting")
        /\ UNCHANGED <<job, outcome>>
  /\ UNCHANGED <<queueVars, attempt, conn, chan>>

(* trySendTask returned an error.                                           *)
FailAttempt(w, opened) ==
  /\ Close(w, opened)
  /\ \/ /\ IsLastAttempt(job[w], attempt[w])
        /\ Finish(w, "exhausted")
     \/ /\ ~IsLastAttempt(job[w], attempt[w])
        /\ Goto(w, "waiting")
        /\ UNCHANGED <<job, outcome>>
  /\ UNCHANGED <<queueVars, attempt>>

(* Wrong: the counter goes the other way.                                   *)
WrongRetryAfter(w) ==
  /\ pc[w] = "waiting"
  /\ Goto(w, "acquire")
  /\ attempt' = [attempt EXCEPT ![w] = @ - 1]
  /\ UNCHANGED <<queueVars, job, conn, chan, sockets, outcome, brokerVars>>

RetryAfter(w) ==
  /\ pc[w] = "waiting"
  /\ Goto(w, "acquire")
  /\ attempt' = [attempt EXCEPT ![w] = @ + 1]
  /\ UNCHANGED <<queueVars, job, conn, chan, sockets, outcome, brokerVars>>

StopWaiting(w) ==
  /\ pc[w] = "waiting"
  /\ ctxDone
  /\ Finish(w, "stopped")
  /\ UNCHANGED <<queueVars, attempt, conn, chan, sockets, brokerVars>>

-----------------------------------------------------------------------------
(* trySendTask, getChannel and getConnection.                               *)

GetChannel(w) ==
  /\ pc[w] = "acquire"
  /\ Goto(w, IF chan[w] # "nil" THEN "publish"
             ELSE IF conn[w] # "nil" THEN "channel"
             ELSE "dial")
  /\ UNCHANGED <<queueVars, job, attempt, conn, chan, sockets, outcome, brokerVars>>

(* The TCP connection is dialled under the attempt's context.               *)
Dial(w) ==
  /\ pc[w] = "dial"
  /\ ~ctxDone
  /\ Goto(w, "handshake")
  /\ sockets' = [sockets EXCEPT ![w] = @ + 1]
  /\ UNCHANGED <<queueVars, job, attempt, conn, chan, outcome, brokerVars>>

DialFails(w) ==
  /\ pc[w] = "dial"
  /\ FailAttempt(w, 0)
  /\ UNCHANGED brokerVars

(* The AMQP handshake.  No context and no deadline cover it.                *)
HandshakeDone(w) ==
  /\ pc[w] = "handshake"
  /\ Goto(w, "channel")
  /\ conn' = [conn EXCEPT ![w] = "live"]
  /\ UNCHANGED <<queueVars, job, attempt, chan, sockets, outcome, brokerVars>>

(* The library closes the socket of a failed handshake.                     *)
HandshakeFails(w) ==
  /\ pc[w] = "handshake"
  /\ FailAttempt(w, 1)
  /\ UNCHANGED brokerVars

OpenChannel(w) ==
  /\ pc[w] = "channel"
  /\ conn[w] = "live"
  /\ Goto(w, "publish")
  /\ chan' = [chan EXCEPT ![w] = "live"]
  /\ UNCHANGED <<queueVars, job, attempt, conn, sockets, outcome, brokerVars>>

OpenChannelFails(w) ==
  /\ pc[w] = "channel"
  /\ FailAttempt(w, Held(w))
  /\ UNCHANGED brokerVars

(* PublishWithContext returned nil: the message was written to the socket.  *)
Publish(w) ==
  /\ pc[w] = "publish"
  /\ chan[w] = "live"
  /\ frames' = [frames EXCEPT ![job[w]] = @ + 1]
  /\ Finish(w, "published")
  /\ UNCHANGED <<queueVars, attempt, conn, chan, sockets, copies>>

(* It returned an error: the channel is closed, or the write failed, which  *)
(* does not tell whether the whole message has left.                        *)
PublishFails(w) ==
  /\ pc[w] = "publish"
  /\ FailAttempt(w, Held(w))
  /\ \/ UNCHANGED frames
     \/ /\ chan[w] = "live"
        /\ frames' = [frames EXCEPT ![job[w]] = @ + 1]
  /\ UNCHANGED copies

-----------------------------------------------------------------------------
(* The broker and the network.                                              *)

Arrives(t) ==
  /\ frames[t] > 0
  /\ frames' = [frames EXCEPT ![t] = @ - 1]
  /\ copies' = [copies EXCEPT ![t] = @ + 1]
  /\ UNCHANGED <<queueVars, workerVars>>

FrameLost(t) ==
  /\ frames[t] > 0
  /\ frames' = [frames EXCEPT ![t] = @ - 1]
  /\ UNCHANGED <<queueVars, workerVars, copies>>

(* The broker closes the channel, as it does after a message for an         *)
(* exchange that does not exist.                                            *)
ChannelDies(w) ==
  /\ chan[w] = "live"
  /\ chan' = [chan EXCEPT ![w] = "dead"]
  /\ UNCHANGED <<queueVars, pc, job, attempt, conn, sockets, outcome, brokerVars>>

(* The connection breaks, with its channel.                                 *)
ConnectionDies(w) ==
  /\ conn[w] = "live"
  /\ conn' = [conn EXCEPT ![w] = "dead"]
  /\ chan' = [chan EXCEPT ![w] = IF @ = "nil" THEN "nil" ELSE "dead"]
  /\ sockets' = [sockets EXCEPT ![w] = @ - 1]
  /\ UNCHANGED <<queueVars, pc, job, attempt, outcome, brokerVars>>

-----------------------------------------------------------------------------
CallerStep(t) ==
  /\ Dispatch(t) \/ Enqueue(t) \/ ContextDone(t)
  /\ UNCHANGED <<workerVars, brokerVars>>

(* What a worker does by itself, without an answer of the broker.           *)
WorkerStep(w) ==
  \/ WorkerReturns(w)
  \/ GetChannel(w)
  \/ Dial(w)
  \/ DialFails(w)
  \/ OpenChannel(w)
  \/ OpenChannelFails(w)
  \/ Publish(w)
  \/ PublishFails(w)
  \/ RetryAfter(w)
  \/ StopWaiting(w)

Handshake(w) == HandshakeDone(w) \/ HandshakeFails(w)

BrokerStep ==
  \/ \E t \in Tasks : Arrives(t) \/ FrameLost(t)
  \/ \E w \in Workers : ChannelDies(w) \/ ConnectionDies(w)

Shutdown == Interrupt /\ UNCHANGED <<workerVars, brokerVars>>

Next ==
  \/ \E t \in Tasks : CallerStep(t)
  \/ \E w \in Workers : \/ Receive(w)
                        \/ \E t \in Tasks : ReceiveDirect(w, t)
                        \/ WorkerStep(w)
                        \/ Handshake(w)
  \/ BrokerStep
  \/ Shutdown

(* What the Go scheduler, the timers and the heartbeats of an established   *)
(* connection guarantee.                                                    *)
Fairness ==
  /\ \A w \in Workers :
       /\ WF_vars(Receive(w))
       /\ \A t \in Tasks : WF_vars(ReceiveDirect(w, t))
       /\ WF_vars(WorkerStep(w))
  /\ \A t \in Tasks :
       /\ WF_vars(Enqueue(t) /\ UNCHANGED <<workerVars, brokerVars>>)
       /\ WF_vars(ctxDone /\ ContextDone(t) /\ UNCHANGED <<workerVars, brokerVars>>)

Spec == Init /\ [][Next]_vars

FairSpec == Spec /\ Fairness

(* In addition, the broker answers or refuses every handshake, eventually.  *)
ResponsiveBroker == \A w \in Workers : WF_vars(Handshake(w))

ResponsiveSpec == FairSpec /\ ResponsiveBroker

-----------------------------------------------------------------------------
(* Every task has one owner: the queue, one worker, or the past.  No two    *)
(* workers publish the same message, and none does after Dispatch failed.   *)
SingleOwner ==
  /\ \A t \in Tasks :
       LET owners == {w \in Workers : job[w] = t} IN
       /\ caller[t] = "ok" <=> (t \in Queued \/ owners # {} \/ outcome[t] # "none")
       /\ Cardinality(owners) + (IF t \in Queued THEN 1 ELSE 0)
            + (IF outcome[t] # "none" THEN 1 ELSE 0) <= 1
  /\ Cardinality(Queued) = Len(queue)

(* A worker never loses track of a connection: the sockets the broker holds *)
(* for it are exactly the ones it can still close, whatever fails between   *)
(* the dial and the channel, and none is left when Run is over.             *)
NoSocketLeak ==
  \A w \in Workers :
    /\ sockets[w] = Held(w) + (IF pc[w] = "handshake" THEN 1 ELSE 0)
    /\ pc[w] = "returned" => sockets[w] = 0

(* "Automatically reconnect": a retry never uses the handles of the attempt *)
(* that failed, and a worker never has one handle without the other except  *)
(* while it opens them.                                                     *)
FreshRetry ==
  \A w \in Workers :
    /\ pc[w] = "waiting" => conn[w] = "nil" /\ chan[w] = "nil"
    /\ chan[w] = "nil" <=> (conn[w] = "nil" \/ pc[w] = "channel")

(* The broker gets a message at most Budget[t] times.                       *)
PublishBudget ==
  \A t \in Tasks :
    /\ copies[t] + frames[t] <= Budget[t]
    /\ (caller[t] # "ok" \/ t \in Queued) => copies[t] + frames[t] = 0

(* The AMQP sub-system keeps the promises of Notifier, except that nobody   *)
(* confirms what was published.                                             *)
Stage(t) ==
  CASE caller[t] = "idle" -> "idle"
    [] caller[t] = "blocked" -> "offered"
    [] caller[t] = "failed" -> "refused"
    [] caller[t] = "ok" ->
         IF outcome[t] = "published" THEN "delivered"
         ELSE IF \/ outcome[t] # "none"
                 \/ t \in Queued /\ \A w \in Workers : pc[w] = "returned"
              THEN "abandoned"
              ELSE "accepted"

N == INSTANCE Notifier WITH stage <- [t \in Tasks |-> Stage(t)], Confirmed <- FALSE

ImplementsNotifier == N!Spec

(* With a broker that answers, every accepted message comes to its end      *)
(* unless the process is told to stop.                                      *)
AcceptedResolved ==
  \A t \in Tasks : caller[t] = "ok" ~> (outcome[t] # "none" \/ ctxDone)

(* With a broker that answers, all workers end after the signal.            *)
ShutdownCompletes == ctxDone ~> \A w \in Workers : pc[w] = "returned"

-----------------------------------------------------------------------------
(* What the documentation says of the program, and the program does not do. *)

(* docs/notifications.md: `timeout` is the "Publish timeout".  An attempt   *)
(* would have to end, whatever the broker does.                             *)
PublishTimeout ==
  \A w \in Workers : pc[w] = "handshake" ~> pc[w] # "handshake"

=============================================================================
