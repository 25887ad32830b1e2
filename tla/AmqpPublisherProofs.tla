--------------------------- MODULE AmqpPublisherProofs ---------------------------
(***************************************************************************)
(* Proofs about AmqpPublisher, for any set of tasks and of workers, any    *)
(* buffer and any retry values.                                            *)
(***************************************************************************)
EXTENDS AmqpPublisher, FiniteSetTheorems, FunctionTheorems, TLAPS

-----------------------------------------------------------------------------
(* The channel's buffer and the attempts, as both sub-systems have them.    *)

(* A send adds its task at the end of the buffer.                           *)
LEMMA AppendRange ==
  ASSUME NEW S, NEW q \in Seq(S), NEW e \in S
  PROVE  /\ Range(Append(q, e)) = Range(q) \cup {e}
         /\ IsInjective(q) /\ e \notin Range(q) => IsInjective(Append(q, e))
<1>1. /\ DOMAIN Append(q, e) = 1..(Len(q) + 1)
      /\ DOMAIN q = 1..Len(q)
      /\ Append(q, e)[Len(q) + 1] = e
      /\ \A i \in 1..Len(q) : Append(q, e)[i] = q[i]
  OBVIOUS
<1>2. Len(q) \in Nat
  OBVIOUS
<1>3. Range(Append(q, e)) \subseteq Range(q) \cup {e}
  BY <1>1, <1>2 DEF Range
<1>4. Range(q) \cup {e} \subseteq Range(Append(q, e))
  BY <1>1, <1>2 DEF Range
<1>5. IsInjective(q) /\ e \notin Range(q) => IsInjective(Append(q, e))
  BY <1>1, <1>2 DEF Range, IsInjective
<1>6. QED
  BY <1>3, <1>4, <1>5

(* A receive takes the head, and only the head, out of the buffer.          *)
LEMMA TailRange ==
  ASSUME NEW S, NEW q \in Seq(S), q # <<>>, IsInjective(q)
  PROVE  /\ Head(q) \in S
         /\ Head(q) \in Range(q)
         /\ Range(Tail(q)) = Range(q) \ {Head(q)}
         /\ IsInjective(Tail(q))
<1>1. /\ DOMAIN Tail(q) = 1..(Len(q) - 1)
      /\ DOMAIN q = 1..Len(q)
      /\ Head(q) = q[1]
      /\ \A i \in 1..(Len(q) - 1) : Tail(q)[i] = q[i + 1]
  OBVIOUS
<1>2. Len(q) \in Nat /\ Len(q) > 0
  OBVIOUS
<1>3. Head(q) \in S /\ Head(q) \in Range(q)
  BY <1>1, <1>2 DEF Range
<1>4. Range(Tail(q)) \subseteq Range(q) \ {Head(q)}
  BY <1>1, <1>2 DEF Range, IsInjective
<1>5. ASSUME NEW e \in Range(q) \ {Head(q)} PROVE e \in Range(Tail(q))
  <2>1. PICK i \in 1..Len(q) : q[i] = e
    BY <1>1 DEF Range
  <2>2. i # 1
    BY <1>1, <1>5, <2>1
  <2>3. i - 1 \in 1..(Len(q) - 1) /\ (i - 1) + 1 = i
    BY <1>2, <2>2
  <2>4. QED
    BY <1>1, <2>1, <2>3 DEF Range
<1>6. IsInjective(Tail(q))
  BY <1>1, <1>2 DEF IsInjective
<1>7. QED
  BY <1>3, <1>4, <1>5, <1>6

(* A buffer without duplicates has as many tasks as places in use.          *)
LEMMA InjectiveCardinality ==
  ASSUME NEW S, NEW q \in Seq(S), IsInjective(q)
  PROVE  Cardinality(Range(q)) = Len(q)
<1> DEFINE f == [i \in 1..Len(q) |-> q[i]]
<1>1. Len(q) \in Nat /\ DOMAIN q = 1..Len(q)
  OBVIOUS
<1>2. f \in [1..Len(q) -> Range(q)]
  BY <1>1 DEF Range
<1>3. \A i, j \in 1..Len(q) : f[i] = f[j] => i = j
  BY <1>1 DEF IsInjective
<1>4. \A e \in Range(q) : \E i \in 1..Len(q) : f[i] = e
  BY <1>1 DEF Range
<1>5. f \in Bijection(1..Len(q), Range(q))
  BY <1>2, <1>3, <1>4, Fun_IsBij
<1>6. ExistsBijection(1..Len(q), Range(q))
  BY <1>5 DEF ExistsBijection
<1>7. QED
  BY <1>1, <1>6, FS_CountingElements

-----------------------------------------------------------------------------
(* A task has at least one attempt, and the attempt that IsLastAttempt      *)
(* singles out is the last one of its budget.                               *)
LEMMA BudgetFacts ==
  ASSUME NEW t \in Tasks
  PROVE  /\ Budget[t] \in Nat \ {0}
         /\ \A k \in Nat : k < Budget[t] /\ IsLastAttempt(t, k) => k + 1 = Budget[t]
         /\ \A k \in Nat : k < Budget[t] /\ ~IsLastAttempt(t, k) => k + 1 < Budget[t]
<1>1. Retry[t] \in Int
  BY RetryAssumption
<1>2. Retries[t] = IF Retry[t] = 0 THEN 3 ELSE Retry[t]
  BY DEF Retries, defaultRetries
<1>3. QED
  BY <1>1, <1>2 DEF Budget, IsLastAttempt

-----------------------------------------------------------------------------
(* The inductive invariant.  Its parts:                                     *)
(*                                                                         *)
(*  - Handles: where a worker is tells which handles it has, and how many   *)
(*    sockets the broker holds for it;                                      *)
(*  - Owners: each task is in one place only, position by position of the   *)
(*    queue and worker by worker;                                           *)
(*  - Account: what was written for a task that a worker handles is bounded *)
(*    by its attempt counter.  Before an attempt is over it has written     *)
(*    nothing, hence the two cases.                                         *)

Handles(w) ==
  /\ sockets[w] = Held(w) + (IF pc[w] = "handshake" THEN 1 ELSE 0)
  /\ pc[w] \in {"dial", "handshake", "waiting", "returned"} => conn[w] = "nil"
  /\ chan[w] = "nil" <=> (conn[w] = "nil" \/ pc[w] = "channel")

HandleInv == \A w \in Workers : Handles(w)

Owner(w, t) == job[w] = t

Place(t) ==
  /\ caller[t] = "ok" <=> \/ t \in Queued
                          \/ \E w \in Workers : Owner(w, t)
                          \/ outcome[t] # "none"
  /\ ~(t \in Queued /\ outcome[t] # "none")
  /\ \A w \in Workers : Owner(w, t) => t \notin Queued /\ outcome[t] = "none"

JobInv ==
  /\ \A w \in Workers : job[w] = NoTask <=> pc[w] \in {"select", "returned"}
  /\ \A v, w \in Workers : job[v] = job[w] /\ job[w] # NoTask => v = w

OwnerInv ==
  /\ JobInv
  /\ \A t \in Tasks : Place(t)
  /\ IsInjective(queue)

Sent(t) == copies[t] + frames[t]

Account(w, t) ==
  /\ attempt[w] < Budget[t]
  /\ Sent(t) <= attempt[w] + (IF pc[w] = "waiting" THEN 1 ELSE 0)
  /\ pc[w] = "waiting" => ~IsLastAttempt(t, attempt[w])

Ledger(t) ==
  /\ Sent(t) <= Budget[t]
  /\ (caller[t] # "ok" \/ t \in Queued) => Sent(t) = 0
  /\ \A w \in Workers : Owner(w, t) => Account(w, t)

BudgetInv == \A t \in Tasks : Ledger(t)

IInv == TypeOK /\ HandleInv /\ OwnerInv /\ BudgetInv

-----------------------------------------------------------------------------
(* What any step of worker w does.  It moves no other worker and nothing of *)
(* the queue; it goes on with its task, or comes to the end of it; and it   *)
(* writes a message only where it publishes.                                *)

Others(w) ==
  \A v \in Workers \ {w} :
    UNCHANGED <<pc[v], job[v], attempt[v], conn[v], chan[v], sockets[v]>>

(* The worker leaves Run, or it stays with its task: it waits after an      *)
(* attempt that was not the last one, or starts the next one, or the        *)
(* attempt goes on.                                                         *)
GoesOn(w) ==
  /\ UNCHANGED <<job, outcome>>
  /\ \/ /\ pc[w] = "select" /\ pc'[w] = "returned"
        /\ UNCHANGED frames
     \/ /\ pc[w] \in Trying /\ pc'[w] \in Trying
        /\ attempt'[w] = attempt[w]
        /\ UNCHANGED frames
     \/ /\ pc[w] \in Trying /\ pc'[w] = "waiting"
        /\ ~IsLastAttempt(job[w], attempt[w])
        /\ attempt'[w] = attempt[w]
     \/ /\ pc[w] = "waiting" /\ pc'[w] \in Trying
        /\ attempt'[w] = attempt[w] + 1
        /\ UNCHANGED frames

ComesToEnd(w) ==
  /\ pc[w] \in Busy /\ pc'[w] = "select"
  /\ pc[w] = "waiting" => UNCHANGED frames
  /\ job' = [job EXCEPT ![w] = NoTask]
  /\ \E r \in {"published", "exhausted", "stopped"} :
       outcome' = [outcome EXCEPT ![job[w]] = r]

LEMMA WorkerEffect ==
  ASSUME TypeOK, NEW w \in Workers, WorkerStep(w) \/ Handshake(w)
  PROVE  /\ UNCHANGED <<queueVars, copies>>
         /\ Others(w)
         /\ GoesOn(w) \/ ComesToEnd(w)
         /\ UNCHANGED frames \/ frames' = [frames EXCEPT ![job[w]] = @ + 1]
<1> USE DEF TypeOK, brokerVars, Others, Trying, Busy, Goto
<1>1. CASE WorkerReturns(w)
  BY <1>1 DEF WorkerReturns, Close, GoesOn
<1>2. CASE GetChannel(w)
  BY <1>2 DEF GetChannel, GoesOn
<1>3. CASE Dial(w)
  BY <1>3 DEF Dial, GoesOn
<1>4. CASE HandshakeDone(w)
  BY <1>4 DEF HandshakeDone, GoesOn
<1>5. CASE OpenChannel(w)
  BY <1>5 DEF OpenChannel, GoesOn
<1>6. CASE Publish(w)
  BY <1>6 DEF Publish, Finish, ComesToEnd
<1>7. CASE RetryAfter(w)
  BY <1>7 DEF RetryAfter, GoesOn
<1>8. CASE StopWaiting(w)
  BY <1>8 DEF StopWaiting, Finish, ComesToEnd
<1>9. ASSUME NEW n, FailAttempt(w, n), pc[w] \in Trying
      PROVE  UNCHANGED queueVars /\ Others(w) /\ (GoesOn(w) \/ ComesToEnd(w))
  <2>1. CASE IsLastAttempt(job[w], attempt[w])
    BY <1>9, <2>1 DEF FailAttempt, Close, Finish, ComesToEnd
  <2>2. CASE ~IsLastAttempt(job[w], attempt[w])
    BY <1>9, <2>2 DEF FailAttempt, Close, GoesOn
  <2>3. QED
    BY <2>1, <2>2
<1>10. CASE DialFails(w) \/ HandshakeFails(w) \/ OpenChannelFails(w)
  BY <1>9, <1>10 DEF DialFails, HandshakeFails, OpenChannelFails
<1>11. CASE PublishFails(w)
  BY <1>9, <1>11 DEF PublishFails
<1>12. QED
  BY <1>1, <1>2, <1>3, <1>4, <1>5, <1>6, <1>7, <1>8, <1>10, <1>11 DEF WorkerStep, Handshake

(* The worker that takes a task was waiting for one in the select of Run.   *)
LEMMA StartEffect ==
  ASSUME TypeOK, NEW w \in Workers, NEW t, StartTask(w, t)
  PROVE  /\ Others(w)
         /\ pc[w] = "select" /\ pc'[w] = "acquire"
         /\ job' = [job EXCEPT ![w] = t]
         /\ attempt'[w] = 0
         /\ UNCHANGED <<conn, chan, sockets, outcome, frames, copies>>
BY DEF TypeOK, StartTask, Goto, Others, brokerVars

(* On the way to the broker nothing is added to what was sent.             *)
LEMMA NetworkEffect ==
  ASSUME frames \in [Tasks -> Nat], copies \in [Tasks -> Nat],
         NEW t \in Tasks, Arrives(t) \/ FrameLost(t)
  PROVE  /\ UNCHANGED <<queueVars, workerVars>>
         /\ frames' \in [Tasks -> Nat] /\ copies' \in [Tasks -> Nat]
         /\ \A u \in Tasks : Sent(u)' <= Sent(u)
<1>1. CASE Arrives(t)
  BY <1>1 DEF Arrives, Sent
<1>2. CASE FrameLost(t)
  BY <1>2 DEF FrameLost, Sent
<1>3. QED
  BY <1>1, <1>2

-----------------------------------------------------------------------------
(* The types.  That the number of sockets stays a natural number rests on   *)
(* the handles: a worker closes only what it holds.                         *)
LEMMA TypeInit == Init => TypeOK
<1> SUFFICES ASSUME Init PROVE TypeOK
  OBVIOUS
<1>1. QueueTypeOK
  <2>1. caller \in [Tasks -> CallerStates] /\ ctxDone \in BOOLEAN
    BY DEF Init, QueueInit, CallerStates
  <2>2. queue \in Seq(Tasks)
    BY DEF Init, QueueInit
  <2>3. QED
    BY <2>1, <2>2 DEF QueueTypeOK
<1>2. QED
  BY <1>1 DEF Init, TypeOK, Handle

LEMMA TypeStep == TypeOK /\ HandleInv /\ [Next]_vars => TypeOK'
<1> SUFFICES ASSUME TypeOK, HandleInv, [Next]_vars PROVE TypeOK'
  OBVIOUS
<1>0. /\ pc \in [Workers -> Busy \cup {"select", "returned"}]
      /\ job \in [Workers -> Tasks \cup {NoTask}]
      /\ attempt \in [Workers -> Nat]
      /\ conn \in [Workers -> Handle] /\ chan \in [Workers -> Handle]
      /\ sockets \in [Workers -> Nat]
      /\ outcome \in [Tasks -> {"none", "published", "exhausted", "stopped"}]
      /\ frames \in [Tasks -> Nat] /\ copies \in [Tasks -> Nat]
  BY DEF TypeOK
<1>1. ASSUME NEW t \in Tasks, CallerStep(t) PROVE TypeOK'
  <2>1. QueueTypeOK'
    <3> USE DEF TypeOK, QueueTypeOK, CallerStates, CallerStep
    <3>1. CASE Dispatch(t)
      BY <1>1, <3>1 DEF Dispatch
    <3>2. CASE Enqueue(t)
      BY <1>1, <3>2 DEF Enqueue
    <3>3. CASE ContextDone(t)
      BY <1>1, <3>3 DEF ContextDone
    <3>4. QED
      BY <1>1, <3>1, <3>2, <3>3
  <2>2. QED
    BY <1>1, <2>1 DEF TypeOK, CallerStep, workerVars, brokerVars
<1>2. ASSUME NEW w \in Workers, NEW t \in Tasks, StartTask(w, t), QueueTypeOK' PROVE TypeOK'
  BY <1>0, <1>2 DEF TypeOK, StartTask, Goto, Trying, Busy, brokerVars
<1>3. ASSUME NEW w \in Workers, Receive(w) PROVE TypeOK'
  <2>1. queue # <<>> /\ queue \in Seq(Tasks) /\ Head(queue) \in Tasks /\ Tail(queue) \in Seq(Tasks)
    BY <1>3 DEF TypeOK, QueueTypeOK, Receive, TakeHead
  <2>2. QueueTypeOK'
    BY <1>3, <2>1 DEF TypeOK, QueueTypeOK, Receive, TakeHead
  <2>3. QED
    BY <1>2, <1>3, <2>1, <2>2 DEF Receive
<1>4. ASSUME NEW w \in Workers, NEW t \in Tasks, ReceiveDirect(w, t) PROVE TypeOK'
  <2>1. QueueTypeOK'
    BY <1>4 DEF TypeOK, QueueTypeOK, CallerStates, ReceiveDirect, Handoff
  <2>2. QED
    BY <1>2, <1>4, <2>1 DEF ReceiveDirect
<1>5. ASSUME NEW w \in Workers, WorkerStep(w) \/ Handshake(w) PROVE TypeOK'
  <2>1. /\ UNCHANGED <<caller, queue, ctxDone, copies>>
        /\ job' \in [Workers -> Tasks \cup {NoTask}]
        /\ outcome' \in [Tasks -> {"none", "published", "exhausted", "stopped"}]
        /\ frames' \in [Tasks -> Nat]
    BY <1>0, <1>5, WorkerEffect DEF queueVars, GoesOn, ComesToEnd
  <2>2. Handles(w) /\ sockets[w] \in Nat
    BY <1>0 DEF HandleInv
  <2>3. /\ pc' \in [Workers -> Busy \cup {"select", "returned"}]
        /\ attempt' \in [Workers -> Nat]
        /\ conn' \in [Workers -> Handle] /\ chan' \in [Workers -> Handle]
        /\ sockets' \in [Workers -> Nat]
    <3> USE <1>0, <2>2 DEF Goto, Close, FailAttempt, Finish, Trying, Busy, Handle, Handles, Held
    <3>1. CASE WorkerReturns(w)
      BY <3>1 DEF WorkerReturns
    <3>2. CASE GetChannel(w) \/ Dial(w) \/ HandshakeDone(w)
      BY <3>2 DEF GetChannel, Dial, HandshakeDone
    <3>3. CASE DialFails(w) \/ HandshakeFails(w)
      BY <3>3 DEF DialFails, HandshakeFails
    <3>4. CASE OpenChannel(w) \/ OpenChannelFails(w)
      BY <3>4 DEF OpenChannel, OpenChannelFails
    <3>5. CASE Publish(w) \/ PublishFails(w)
      BY <3>5 DEF Publish, PublishFails
    <3>6. CASE RetryAfter(w) \/ StopWaiting(w)
      BY <3>6 DEF RetryAfter, StopWaiting
    <3>7. QED
      BY <1>5, <3>1, <3>2, <3>3, <3>4, <3>5, <3>6 DEF WorkerStep, Handshake
  <2>4. QED
    BY <2>1, <2>3, <1>0 DEF TypeOK, QueueTypeOK
<1>6. ASSUME NEW t \in Tasks, Arrives(t) \/ FrameLost(t) PROVE TypeOK'
  BY <1>0, <1>6, NetworkEffect DEF TypeOK, QueueTypeOK, queueVars, workerVars
<1>7. ASSUME NEW w \in Workers, ChannelDies(w) \/ ConnectionDies(w) PROVE TypeOK'
  <2>1. Handles(w)
    BY DEF HandleInv
  <2>2. chan' \in [Workers -> Handle] /\ conn' \in [Workers -> Handle] /\ sockets' \in [Workers -> Nat]
    <3>1. CASE ChannelDies(w)
      BY <1>0, <3>1 DEF ChannelDies, Handle
    <3>2. CASE ConnectionDies(w)
      BY <1>0, <2>1, <3>2 DEF ConnectionDies, Handle, Handles, Held
    <3>3. QED
      BY <1>7, <3>1, <3>2
  <2>3. QED
    BY <1>7, <2>2 DEF TypeOK, QueueTypeOK, ChannelDies, ConnectionDies, queueVars, brokerVars
<1>8. CASE Shutdown
  BY <1>8 DEF TypeOK, QueueTypeOK, Shutdown, Interrupt, workerVars, brokerVars
<1>9. CASE UNCHANGED vars
  BY <1>9 DEF TypeOK, QueueTypeOK, vars, queueVars, workerVars, brokerVars
<1>10. QED
  BY <1>1, <1>3, <1>4, <1>5, <1>6, <1>7, <1>8, <1>9 DEF Next, BrokerStep


-----------------------------------------------------------------------------
(* A worker knows its handles.  An attempt that fails forgets both, whatever *)
(* it had opened; the connection may break between any two of its steps.    *)
LEMMA HandleStep == TypeOK /\ HandleInv /\ [Next]_vars => HandleInv'
<1> SUFFICES ASSUME TypeOK, HandleInv, [Next]_vars PROVE HandleInv'
  OBVIOUS
<1>0. /\ pc \in [Workers -> Busy \cup {"select", "returned"}]
      /\ conn \in [Workers -> Handle] /\ chan \in [Workers -> Handle]
      /\ sockets \in [Workers -> Nat]
  BY DEF TypeOK
<1>1. ASSUME UNCHANGED <<pc, conn, chan, sockets>> PROVE HandleInv'
  BY <1>1 DEF HandleInv, Handles, Held
<1>2. ASSUME NEW w \in Workers, Handles(w)',
             \A v \in Workers \ {w} : UNCHANGED <<pc[v], conn[v], chan[v], sockets[v]>>
      PROVE  HandleInv'
  <2>1. ASSUME NEW v \in Workers, v # w PROVE Handles(v)'
    <3>1. Handles(v) /\ UNCHANGED <<pc[v], conn[v], chan[v], sockets[v]>>
      BY <1>2, <2>1 DEF HandleInv
    <3>2. QED
      BY <3>1 DEF Handles, Held
  <2>2. QED
    BY <1>2, <2>1 DEF HandleInv
<1>3. ASSUME NEW w \in Workers, NEW t, StartTask(w, t) PROVE HandleInv'
  <2>1. pc[w] = "select" /\ pc'[w] = "acquire" /\ UNCHANGED <<conn, chan, sockets>> /\ Others(w)
    BY <1>3, StartEffect
  <2>2. Handles(w)'
    BY <2>1 DEF HandleInv, Handles, Held
  <2>3. QED
    BY <1>2, <2>1, <2>2 DEF Others
<1>4. ASSUME NEW w \in Workers, WorkerStep(w) \/ Handshake(w) PROVE HandleInv'
  <2> SUFFICES Handles(w)'
    BY <1>2, <1>4, WorkerEffect DEF Others
  <2>1. /\ Handles(w) /\ sockets[w] \in Nat
        /\ pc[w] \in Busy \cup {"select", "returned"}
        /\ conn[w] \in Handle /\ chan[w] \in Handle
    BY <1>0 DEF HandleInv
  <2> USE <1>0 DEF Goto
  <2>2. ASSUME FailAttempt(w, sockets[w]) PROVE Handles(w)'
    <3>1. /\ pc'[w] \in {"select", "waiting"}
          /\ conn'[w] = "nil" /\ chan'[w] = "nil" /\ sockets'[w] = 0
      BY <2>1, <2>2 DEF FailAttempt, Finish, Close
    <3>2. QED
      BY <3>1 DEF Handles, Held
  <2>3. CASE WorkerReturns(w)
    BY <2>1, <2>3 DEF WorkerReturns, Close, Handles, Held
  <2>4. CASE GetChannel(w)
    BY <2>1, <2>4 DEF GetChannel, Handles, Held
  <2>5. CASE Dial(w)
    BY <2>1, <2>5 DEF Dial, Handles, Held
  <2>6. CASE HandshakeDone(w)
    BY <2>1, <2>6 DEF HandshakeDone, Handles, Held
  <2>7. CASE OpenChannel(w)
    BY <2>1, <2>7 DEF OpenChannel, Handles, Held
  <2>8. CASE Publish(w)
    BY <2>1, <2>8 DEF Publish, Finish, Handles, Held
  <2>9. CASE RetryAfter(w)
    BY <2>1, <2>9 DEF RetryAfter, Handles, Held
  <2>10. CASE StopWaiting(w)
    BY <2>1, <2>10 DEF StopWaiting, Finish, Handles, Held
  <2>11. CASE DialFails(w) \/ HandshakeFails(w) \/ OpenChannelFails(w) \/ PublishFails(w)
    <3>1. FailAttempt(w, sockets[w])
      BY <2>1, <2>11 DEF DialFails, HandshakeFails, OpenChannelFails, PublishFails, Handles, Held
    <3>2. QED
      BY <2>2, <3>1
  <2>12. QED
    BY <1>4, <2>3, <2>4, <2>5, <2>6, <2>7, <2>8, <2>9, <2>10, <2>11 DEF WorkerStep, Handshake
<1>5. ASSUME NEW w \in Workers, ChannelDies(w) PROVE HandleInv'
  <2>1. Handles(w)'
    BY <1>0, <1>5 DEF HandleInv, Handles, Held, ChannelDies
  <2>2. QED
    BY <1>0, <1>2, <1>5, <2>1 DEF ChannelDies
<1>6. ASSUME NEW w \in Workers, ConnectionDies(w) PROVE HandleInv'
  <2>1. Handles(w)'
    BY <1>0, <1>6 DEF HandleInv, Handles, Held, ConnectionDies
  <2>2. QED
    BY <1>0, <1>2, <1>6, <2>1 DEF ConnectionDies
<1>7. ASSUME NEW t \in Tasks, CallerStep(t) \/ Arrives(t) \/ FrameLost(t) PROVE HandleInv'
  BY <1>1, <1>7 DEF CallerStep, Arrives, FrameLost, workerVars
<1>8. CASE Shutdown \/ UNCHANGED vars
  BY <1>1, <1>8 DEF Shutdown, vars, workerVars
<1>9. QED
  BY <1>3, <1>4, <1>5, <1>6, <1>7, <1>8 DEF Next, BrokerStep, Receive, ReceiveDirect

-----------------------------------------------------------------------------
(* A task that leaves the queue gets one worker, and a task that leaves its  *)
(* worker is over.                                                          *)
LEMMA OwnerStep == TypeOK /\ OwnerInv /\ [Next]_vars => OwnerInv'
<1> SUFFICES ASSUME TypeOK, OwnerInv, [Next]_vars PROVE OwnerInv'
  OBVIOUS
<1> USE DEF OwnerInv, JobInv, Place, Owner, Queued
<1>0. /\ caller \in [Tasks -> CallerStates] /\ queue \in Seq(Tasks)
      /\ pc \in [Workers -> Busy \cup {"select", "returned"}]
      /\ job \in [Workers -> Tasks \cup {NoTask}]
      /\ outcome \in [Tasks -> {"none", "published", "exhausted", "stopped"}]
  BY DEF TypeOK, QueueTypeOK
<1>1. ASSUME UNCHANGED <<caller, queue, pc, job, outcome>> PROVE OwnerInv'
  BY <1>1
<1>2. ASSUME NEW t \in Tasks, CallerStep(t) PROVE OwnerInv'
  <2> USE DEF CallerStep, workerVars
  <2>1. CASE Dispatch(t)
    BY <1>0, <1>2, <2>1 DEF Dispatch
  <2>2. CASE Enqueue(t)
    <3>1. /\ caller[t] = "blocked" /\ caller' = [caller EXCEPT ![t] = "ok"]
          /\ queue' = Append(queue, t) /\ t \notin Range(queue)
          /\ UNCHANGED <<pc, job, outcome>>
      BY <1>2, <2>2 DEF Enqueue
    <3>2. Range(queue') = Range(queue) \cup {t} /\ IsInjective(queue')
      BY <1>0, <3>1, AppendRange
    <3>3. QED
      BY <1>0, <3>1, <3>2
  <2>3. CASE ContextDone(t)
    BY <1>0, <1>2, <2>3 DEF ContextDone
  <2>4. QED
    BY <1>2, <2>1, <2>2, <2>3
<1>3. ASSUME NEW w \in Workers, NEW t \in Tasks, ReceiveDirect(w, t) PROVE OwnerInv'
  <2>1. /\ caller[t] = "blocked" /\ caller' = [caller EXCEPT ![t] = "ok"] /\ queue' = queue
        /\ pc[w] = "select" /\ pc'[w] = "acquire" /\ \A v \in Workers \ {w} : pc'[v] = pc[v]
        /\ job' = [job EXCEPT ![w] = t] /\ outcome' = outcome
    BY <1>3, StartEffect DEF ReceiveDirect, Handoff, Others
  <2>2. t # NoTask /\ job[w] = NoTask
    BY <2>1, NoTaskAssumption
  <2>3. /\ t \notin Range(queue) /\ outcome[t] = "none" /\ \A v \in Workers : job[v] # t
    BY <2>1
  <2>4. JobInv'
    BY <1>0, <2>1, <2>2, <2>3
  <2>5. job'[w] = t /\ \A v \in Workers \ {w} : job'[v] = job[v]
    BY <1>0, <2>1
  <2>6. Place(t)'
    BY <1>0, <2>1, <2>3, <2>5
  <2>7. ASSUME NEW u \in Tasks, u # t PROVE Place(u)'
    <3>1. /\ caller'[u] = caller[u] /\ outcome'[u] = outcome[u]
          /\ \A v \in Workers : Owner(v, u)' <=> Owner(v, u)
      BY <1>0, <2>1, <2>2, <2>5, <2>7, NoTaskAssumption
    <3>2. QED
      BY <2>1, <3>1
  <2>8. QED
    BY <2>1, <2>4, <2>6, <2>7
<1>4. ASSUME NEW w \in Workers, Receive(w) PROVE OwnerInv'
  <2>1. PICK t \in Tasks : t = Head(queue)
    BY <1>0, <1>4, TailRange DEF Receive, TakeHead
  <2>2. /\ caller' = caller
        /\ t \in Range(queue) /\ Range(queue') = Range(queue) \ {t} /\ IsInjective(queue')
    BY <1>0, <1>4, <2>1, TailRange DEF Receive, TakeHead
  <2>3. /\ pc[w] = "select" /\ pc'[w] = "acquire" /\ \A v \in Workers \ {w} : pc'[v] = pc[v]
        /\ job' = [job EXCEPT ![w] = t] /\ outcome' = outcome
    BY <1>4, <2>1, StartEffect DEF Receive, Others
  <2>4. t # NoTask /\ job[w] = NoTask
    BY <2>3, NoTaskAssumption
  <2>5. outcome[t] = "none" /\ caller[t] = "ok" /\ \A v \in Workers : job[v] # t
    BY <2>2
  <2>6. JobInv'
    BY <1>0, <2>3, <2>4, <2>5
  <2>7. job'[w] = t /\ \A v \in Workers \ {w} : job'[v] = job[v]
    BY <1>0, <2>3
  <2>8. Place(t)'
    BY <1>0, <2>2, <2>3, <2>5, <2>7
  <2>9. ASSUME NEW u \in Tasks, u # t PROVE Place(u)'
    <3>1. /\ caller'[u] = caller[u] /\ outcome'[u] = outcome[u]
          /\ u \in Range(queue') <=> u \in Range(queue)
          /\ \A v \in Workers : Owner(v, u)' <=> Owner(v, u)
      BY <1>0, <2>2, <2>3, <2>4, <2>7, <2>9, NoTaskAssumption
    <3>2. QED
      BY <3>1
  <2>10. QED
    BY <2>2, <2>6, <2>8, <2>9
<1>5. ASSUME NEW w \in Workers, WorkerStep(w) \/ Handshake(w) PROVE OwnerInv'
  <2>1. /\ caller' = caller /\ queue' = queue
        /\ \A v \in Workers \ {w} : pc'[v] = pc[v] /\ job'[v] = job[v]
    BY <1>5, WorkerEffect DEF queueVars, Others
  <2>2. CASE GoesOn(w)
    <3>1. /\ UNCHANGED <<job, outcome>>
          /\ pc[w] \in {"select", "returned"} <=> pc'[w] \in {"select", "returned"}
      BY <2>2 DEF GoesOn, Trying
    <3>2. QED
      BY <2>1, <3>1
  <2>3. CASE ComesToEnd(w)
    <3>1. PICK t \in Tasks : t = job[w]
      BY <1>0, <2>3 DEF ComesToEnd, Busy, Trying
    <3>2. /\ pc'[w] = "select" /\ job' = [job EXCEPT ![w] = NoTask]
          /\ outcome'[t] # "none" /\ \A u \in Tasks \ {t} : outcome'[u] = outcome[u]
      BY <1>0, <2>3, <3>1 DEF ComesToEnd
    <3>3. t # NoTask /\ caller[t] = "ok" /\ t \notin Range(queue)
          /\ \A v \in Workers \ {w} : job[v] # t
      BY <3>1, NoTaskAssumption
    <3>4. job'[w] = NoTask /\ \A v \in Workers \ {w} : job'[v] = job[v]
      BY <1>0, <3>2
    <3>5. JobInv'
      BY <1>0, <2>1, <3>2, <3>4
    <3>6. Place(t)'
      BY <2>1, <3>2, <3>3, <3>4
    <3>7. \A u \in Tasks \ {t} : Place(u)'
      BY <2>1, <3>1, <3>2, <3>4, NoTaskAssumption
    <3>8. QED
      BY <2>1, <3>5, <3>6, <3>7
  <2>4. QED
    BY <1>5, <2>2, <2>3, WorkerEffect
<1>6. ASSUME NEW t \in Tasks, Arrives(t) \/ FrameLost(t) PROVE OwnerInv'
  BY <1>1, <1>6 DEF Arrives, FrameLost, queueVars, workerVars
<1>7. ASSUME NEW w \in Workers, ChannelDies(w) \/ ConnectionDies(w) PROVE OwnerInv'
  BY <1>1, <1>7 DEF ChannelDies, ConnectionDies, queueVars
<1>8. CASE Shutdown \/ UNCHANGED vars
  BY <1>1, <1>8 DEF Shutdown, Interrupt, vars, queueVars, workerVars
<1>9. QED
  BY <1>2, <1>3, <1>4, <1>5, <1>6, <1>7, <1>8 DEF Next, BrokerStep

-----------------------------------------------------------------------------
(* What is written for a task never exceeds the attempts made for it.       *)
LEMMA BudgetStep == TypeOK /\ OwnerInv /\ BudgetInv /\ [Next]_vars => BudgetInv'
<1> SUFFICES ASSUME TypeOK, OwnerInv, BudgetInv, [Next]_vars PROVE BudgetInv'
  OBVIOUS
<1> USE DEF Owner
<1>0. /\ caller \in [Tasks -> CallerStates] /\ queue \in Seq(Tasks)
      /\ pc \in [Workers -> Busy \cup {"select", "returned"}]
      /\ job \in [Workers -> Tasks \cup {NoTask}]
      /\ attempt \in [Workers -> Nat]
      /\ frames \in [Tasks -> Nat] /\ copies \in [Tasks -> Nat]
      /\ \A t \in Tasks : Ledger(t) /\ Place(t)
  BY DEF TypeOK, QueueTypeOK, BudgetInv, OwnerInv
<1>1. ASSUME UNCHANGED <<caller, queue, pc, job, attempt, frames, copies>> PROVE BudgetInv'
  BY <1>0, <1>1 DEF BudgetInv, Ledger, Account, Sent, Queued
(* A task that neither moves nor is handled by a worker that moves.         *)
<1>2. ASSUME NEW u \in Tasks, UNCHANGED <<caller[u], copies[u], frames[u]>>,
             u \in Queued' => u \in Queued,
             \A w \in Workers : Owner(w, u)' => Owner(w, u) /\ UNCHANGED <<pc[w], attempt[w]>>
      PROVE  Ledger(u)'
  BY <1>0, <1>2 DEF Ledger, Account, Sent
<1>3. ASSUME NEW t \in Tasks, CallerStep(t) PROVE BudgetInv'
  <2>1. /\ caller[t] # "ok" /\ UNCHANGED <<pc, job, attempt, frames, copies>>
        /\ \A u \in Tasks \ {t} : caller'[u] = caller[u] /\ (u \in Queued' => u \in Queued)
    <3> USE DEF CallerStep, workerVars, brokerVars, Queued
    <3>1. CASE Dispatch(t)
      BY <1>0, <1>3, <3>1 DEF Dispatch
    <3>2. CASE Enqueue(t)
      BY <1>0, <1>3, <3>2, AppendRange DEF Enqueue
    <3>3. CASE ContextDone(t)
      BY <1>0, <1>3, <3>3 DEF ContextDone
    <3>4. QED
      BY <1>3, <3>1, <3>2, <3>3
  <2>2. Ledger(t)'
    <3>1. Sent(t) = 0 /\ Sent(t)' = 0 /\ \A w \in Workers : ~Owner(w, t)'
      BY <1>0, <2>1 DEF Ledger, Place, Sent
    <3>2. QED
      BY <3>1, BudgetFacts DEF Ledger
  <2>3. \A u \in Tasks \ {t} : Ledger(u)'
    BY <1>2, <2>1
  <2>4. QED
    BY <2>2, <2>3 DEF BudgetInv
<1>4. ASSUME NEW w \in Workers, NEW t \in Tasks, StartTask(w, t),
             caller[t] # "ok" \/ t \in Queued,
             \A u \in Tasks \ {t} : caller'[u] = caller[u],
             \A u \in Tasks : u \in Queued' => u \in Queued
      PROVE  BudgetInv'
  <2>1. /\ pc'[w] = "acquire" /\ attempt'[w] = 0 /\ job'[w] = t
        /\ \A v \in Workers \ {w} : UNCHANGED <<pc[v], attempt[v], job[v]>>
        /\ UNCHANGED <<frames, copies>>
    BY <1>0, <1>4, StartEffect DEF Others
  <2>2. \A v \in Workers : ~Owner(v, t)
    BY <1>0, <1>4 DEF Place
  <2>3. Ledger(t)'
    <3>1. Sent(t)' = 0
      BY <1>0, <1>4, <2>1 DEF Ledger, Sent
    <3>2. \A v \in Workers : Owner(v, t)' => v = w
      BY <2>1, <2>2
    <3>3. QED
      BY <2>1, <3>1, <3>2, BudgetFacts DEF Ledger, Account
  <2>4. \A u \in Tasks \ {t} : Ledger(u)'
    BY <1>2, <1>4, <2>1
  <2>5. QED
    BY <2>3, <2>4 DEF BudgetInv
<1>5. ASSUME NEW w \in Workers, NEW t \in Tasks, ReceiveDirect(w, t) PROVE BudgetInv'
  BY <1>0, <1>4, <1>5 DEF ReceiveDirect, Handoff, Queued
<1>6. ASSUME NEW w \in Workers, Receive(w) PROVE BudgetInv'
  <2>1. /\ Head(queue) \in Tasks /\ Head(queue) \in Queued
        /\ Queued' \subseteq Queued /\ caller' = caller
    BY <1>0, <1>6, TailRange DEF Receive, TakeHead, Queued, OwnerInv
  <2>2. QED
    BY <1>4, <1>6, <2>1 DEF Receive
<1>7. ASSUME NEW w \in Workers, WorkerStep(w) \/ Handshake(w) PROVE BudgetInv'
  <2>1. /\ caller' = caller /\ Queued' = Queued /\ copies' = copies
        /\ \A v \in Workers \ {w} : UNCHANGED <<pc[v], attempt[v], job[v]>>
        /\ GoesOn(w) \/ ComesToEnd(w)
        /\ UNCHANGED frames \/ frames' = [frames EXCEPT ![job[w]] = @ + 1]
        /\ job'[w] = job[w] \/ job'[w] = NoTask
    BY <1>0, <1>7, WorkerEffect DEF queueVars, Queued, Others, GoesOn, ComesToEnd
  <2>2. ASSUME NEW u \in Tasks, u # job[w] PROVE Ledger(u)'
    <3>1. UNCHANGED <<caller[u], copies[u], frames[u]>>
      BY <1>0, <2>1, <2>2
    <3>2. \A v \in Workers : Owner(v, u)' => Owner(v, u) /\ v # w
      BY <2>1, <2>2, NoTaskAssumption
    <3>3. QED
      BY <1>2, <2>1, <3>1, <3>2
  <2>3. ASSUME NEW t \in Tasks, t = job[w] PROVE Ledger(t)'
    <3>1. /\ caller[t] = "ok" /\ t \notin Queued /\ Account(w, t)
          /\ attempt[w] \in Nat /\ Budget[t] \in Nat
          /\ Sent(t) \in Nat /\ Sent(t)' \in {Sent(t), Sent(t) + 1}
          /\ UNCHANGED frames => Sent(t)' = Sent(t)
      BY <1>0, <2>1, <2>3, BudgetFacts DEF Ledger, Place, Sent
    <3>2. \A v \in Workers \ {w} : ~Owner(v, t)'
      BY <2>1, <2>3, NoTaskAssumption DEF OwnerInv, JobInv
    <3>3. pc[w] \in Busy
      BY <1>0, <2>3, NoTaskAssumption DEF OwnerInv, JobInv
    <3>4. CASE GoesOn(w)
      <4>1. pc[w] = "waiting" => attempt[w] + 1 < Budget[t]
        BY <3>1, BudgetFacts DEF Account
      <4>2. Sent(t)' <= Budget[t] /\ (job'[w] = t => Account(w, t)')
        BY <2>3, <3>1, <3>3, <3>4, <4>1 DEF GoesOn, Account, Busy, Trying
      <4>3. QED
        BY <2>1, <3>1, <3>2, <4>2 DEF Ledger
    <3>5. CASE ComesToEnd(w)
      <4>1. Sent(t)' <= Budget[t]
        BY <3>1, <3>5 DEF ComesToEnd, Account
      <4>2. job'[w] # t
        BY <1>0, <2>3, <3>5, NoTaskAssumption DEF ComesToEnd
      <4>3. QED
        BY <2>1, <3>1, <3>2, <4>1, <4>2 DEF Ledger
    <3>6. QED
      BY <2>1, <3>4, <3>5
  <2>4. QED
    BY <2>2, <2>3 DEF BudgetInv
<1>8. ASSUME NEW t \in Tasks, Arrives(t) \/ FrameLost(t) PROVE BudgetInv'
  <2>1. /\ UNCHANGED <<caller, queue, pc, job, attempt>>
        /\ frames' \in [Tasks -> Nat] /\ copies' \in [Tasks -> Nat]
        /\ \A u \in Tasks : Sent(u)' <= Sent(u)
    BY <1>0, <1>8, NetworkEffect DEF queueVars, workerVars
  <2>2. ASSUME NEW u \in Tasks PROVE Ledger(u)'
    <3>1. Sent(u)' <= Sent(u) /\ Sent(u) \in Nat /\ Sent(u)' \in Nat /\ Budget[u] \in Nat
      BY <1>0, <2>1, BudgetFacts DEF Sent
    <3>2. \A v \in Workers : Owner(v, u) => attempt[v] \in Nat /\ Account(v, u)
      BY <1>0 DEF Ledger
    <3>3. \A v \in Workers : Owner(v, u)' => Account(v, u)'
      BY <2>1, <3>1, <3>2 DEF Account
    <3>4. QED
      BY <1>0, <2>1, <3>1, <3>3 DEF Ledger, Queued
  <2>3. QED
    BY <2>2 DEF BudgetInv
<1>9. ASSUME NEW w \in Workers, ChannelDies(w) \/ ConnectionDies(w) PROVE BudgetInv'
  BY <1>1, <1>9 DEF ChannelDies, ConnectionDies, queueVars, brokerVars
<1>10. CASE Shutdown \/ UNCHANGED vars
  BY <1>1, <1>10 DEF Shutdown, Interrupt, vars, queueVars, workerVars, brokerVars
<1>11. QED
  BY <1>3, <1>5, <1>6, <1>7, <1>8, <1>9, <1>10 DEF Next, BrokerStep

LEMMA InitIInv == Init => IInv
<1> SUFFICES ASSUME Init PROVE IInv
  OBVIOUS
<1>1. TypeOK
  BY TypeInit
<1>2. HandleInv
  BY DEF Init, HandleInv, Handles, Held
<1>3. queue = <<>> /\ Queued = {}
  BY DEF Init, QueueInit, Queued, Range
<1>4. OwnerInv
  BY <1>3, NoTaskAssumption DEF Init, QueueInit, OwnerInv, JobInv, Place, Owner, IsInjective
<1>5. BudgetInv
  BY <1>3, NoTaskAssumption, BudgetFacts DEF Init, BudgetInv, Ledger, Sent, Owner
<1>6. QED
  BY <1>1, <1>2, <1>4, <1>5 DEF IInv

LEMMA Invariance == Spec => []IInv
<1>1. IInv /\ [Next]_vars => IInv'
  BY TypeStep, HandleStep, OwnerStep, BudgetStep DEF IInv
<1>2. QED
  BY InitIInv, <1>1, PTL DEF Spec

-----------------------------------------------------------------------------
(* The invariants that the runs check.                                      *)

(* Every variable keeps its type; in particular, a worker never closes more *)
(* connections than the broker holds for it.                                *)
THEOREM TypeCorrect == Spec => []TypeOK
<1>1. IInv => TypeOK
  BY DEF IInv
<1>2. QED
  BY Invariance, <1>1, PTL

(* A task that Dispatch accepted is in the queue, with one worker, or over, *)
(* and in one of these places only: workers never share a task.             *)
THEOREM SingleOwnership == Spec => []SingleOwner
<1>1. IInv => SingleOwner
  <2> SUFFICES ASSUME IInv PROVE SingleOwner
    OBVIOUS
  <2>1. Cardinality(Queued) = Len(queue)
    BY InjectiveCardinality DEF IInv, TypeOK, QueueTypeOK, OwnerInv, Queued
  <2>2. ASSUME NEW t \in Tasks
        PROVE  LET owners == {w \in Workers : job[w] = t}
               IN  /\ caller[t] = "ok" <=> (t \in Queued \/ owners # {} \/ outcome[t] # "none")
                   /\ Cardinality(owners) + (IF t \in Queued THEN 1 ELSE 0)
                        + (IF outcome[t] # "none" THEN 1 ELSE 0) <= 1
    <3> DEFINE owners == {w \in Workers : job[w] = t}
    <3>1. /\ Place(t)
          /\ \A v, w \in owners : v = w
      BY NoTaskAssumption DEF IInv, OwnerInv, JobInv
    <3>2. caller[t] = "ok" <=> (t \in Queued \/ owners # {} \/ outcome[t] # "none")
      BY <3>1 DEF Place, Owner
    <3>3. CASE owners = {}
      BY <3>1, <3>2, <3>3, FS_EmptySet DEF Place
    <3>4. ASSUME NEW w \in owners
          PROVE  Cardinality(owners) = 1 /\ t \notin Queued /\ outcome[t] = "none"
      <4>1. owners = {w}
        BY <3>1
      <4>2. QED
        BY <3>1, <4>1, FS_Singleton DEF Place, Owner
    <3>5. QED
      BY <3>2, <3>3, <3>4
  <2>3. QED
    BY <2>1, <2>2 DEF SingleOwner
<1>2. QED
  BY Invariance, <1>1, PTL

(* Whatever fails between the dial and the channel, a worker can still      *)
(* close every connection it opened, and closes it when Run is over.        *)
THEOREM SocketsTracked == Spec => []NoSocketLeak
<1>1. IInv => NoSocketLeak
  BY DEF IInv, HandleInv, Handles, Held, NoSocketLeak
<1>2. QED
  BY Invariance, <1>1, PTL

(* No attempt starts with the connection on which the last one failed.      *)
THEOREM RetriesAreFresh == Spec => []FreshRetry
<1>1. IInv => FreshRetry
  BY DEF IInv, HandleInv, Handles, FreshRetry
<1>2. QED
  BY Invariance, <1>1, PTL

(* The broker gets a message at most Budget[t] times, for every retry value *)
(* a form may ask for.                                                      *)
THEOREM BoundedPublishing == Spec => []PublishBudget
<1>1. IInv => PublishBudget
  BY DEF IInv, BudgetInv, Ledger, Sent, PublishBudget
<1>2. QED
  BY Invariance, <1>1, PTL

-----------------------------------------------------------------------------
(* The refinement.  A step moves one task along its stages, except the      *)
(* return of the last worker, which abandons what is still in the queue.    *)

Deserted == \A w \in Workers : pc[w] = "returned"

LEMMA StageCases ==
  ASSUME TypeOK, NEW t \in Tasks
  PROVE  /\ caller[t] = "idle" => Stage(t) = "idle"
         /\ caller[t] = "blocked" => Stage(t) = "offered"
         /\ caller[t] = "failed" => Stage(t) = "refused"
         /\ caller[t] = "ok" =>
              /\ outcome[t] = "published" => Stage(t) = "delivered"
              /\ outcome[t] \in {"exhausted", "stopped"} => Stage(t) = "abandoned"
              /\ outcome[t] = "none" /\ t \in Queued /\ Deserted => Stage(t) = "abandoned"
              /\ outcome[t] = "none" /\ ~(t \in Queued /\ Deserted) => Stage(t) = "accepted"
BY DEF TypeOK, QueueTypeOK, CallerStates, Stage, Deserted

(* The stage of a task depends on its caller, its outcome and whether it    *)
(* waits for workers that have all returned.                                *)
LEMMA StageUnchanged ==
  ASSUME NEW t \in Tasks, UNCHANGED <<caller[t], outcome[t]>>,
         (t \in Queued /\ Deserted)' <=> (t \in Queued /\ Deserted)
  PROVE  Stage(t)' = Stage(t)
BY DEF Stage, Deserted

LEMMA AbandonSome ==
  ASSUME NEW S \in SUBSET Tasks, copies' = copies,
         \A t \in S : Stage(t) = "accepted" /\ Stage(t)' = "abandoned",
         \A t \in Tasks \ S : Stage(t)' = Stage(t)
  PROVE  N!Next
<1>1. N!Abandon(S)
  BY DEF N!Abandon
<1>2. QED
  BY <1>1 DEF N!Next

LEMMA MoveOne ==
  ASSUME NEW t \in Tasks, \A u \in Tasks \ {t} : Stage(u)' = Stage(u), copies' = copies,
         \/ Stage(t) = "idle" /\ Stage(t)' \in {"offered", "refused"}
         \/ Stage(t) = "offered" /\ Stage(t)' \in {"refused", "accepted", "abandoned"}
         \/ Stage(t) = "accepted" /\ Stage(t)' = "delivered"
  PROVE  N!Next
<1>1. [u \in Tasks |-> Stage(u)]' = [[u \in Tasks |-> Stage(u)] EXCEPT ![t] = Stage(t)']
  OBVIOUS
<1>2. N!Offer(t) \/ N!Refuse(t) \/ N!Accept(t) \/ N!AcceptInVain(t) \/ N!Deliver(t)
  BY <1>1 DEF N!Offer, N!Refuse, N!Accept, N!AcceptInVain, N!Deliver, N!Move
<1>3. QED
  BY <1>2 DEF N!Next

LEMMA StepRefines == IInv /\ [Next]_vars => [N!Next]_(N!vars)
<1> SUFFICES ASSUME IInv, [Next]_vars PROVE [N!Next]_(N!vars)
  OBVIOUS
<1>0. /\ TypeOK
      /\ caller \in [Tasks -> CallerStates] /\ queue \in Seq(Tasks)
      /\ pc \in [Workers -> Busy \cup {"select", "returned"}]
      /\ job \in [Workers -> Tasks \cup {NoTask}]
      /\ outcome \in [Tasks -> {"none", "published", "exhausted", "stopped"}]
      /\ frames \in [Tasks -> Nat] /\ copies \in [Tasks -> Nat]
      /\ \A t \in Tasks : Ledger(t) /\ Place(t)
  BY DEF IInv, TypeOK, QueueTypeOK, BudgetInv, OwnerInv
<1>1. ASSUME UNCHANGED <<caller, queue, pc, outcome, copies>> PROVE UNCHANGED N!vars
  BY <1>1 DEF N!vars, Stage, Queued
<1>2. ASSUME NEW t \in Tasks, CallerStep(t) PROVE N!Next
  <2>1. UNCHANGED <<pc, outcome, copies>> /\ (Deserted' <=> Deserted)
    BY <1>2 DEF CallerStep, workerVars, brokerVars, Deserted
  <2>2. /\ \A u \in Tasks \ {t} : caller'[u] = caller[u] /\ (u \in Queued' <=> u \in Queued)
        /\ caller[t] \in {"idle", "blocked"}
        /\ \/ caller'[t] = "failed"
           \/ caller[t] = "idle" /\ caller'[t] = "blocked"
           \/ caller[t] = "blocked" /\ caller'[t] = "ok"
    <3> USE <1>0 DEF CallerStep, Queued
    <3>1. CASE Dispatch(t)
      BY <1>2, <3>1 DEF Dispatch
    <3>2. CASE Enqueue(t)
      BY <1>2, <3>2, AppendRange DEF Enqueue
    <3>3. CASE ContextDone(t)
      BY <1>2, <3>3 DEF ContextDone
    <3>4. QED
      BY <1>2, <3>1, <3>2, <3>3 DEF CallerStep
  <2>3. \A u \in Tasks \ {t} : Stage(u)' = Stage(u)
    BY <2>1, <2>2, StageUnchanged
  <2>4. outcome'[t] = "none"
    BY <1>0, <2>1, <2>2 DEF Place
  <2>5. \/ Stage(t) = "idle" /\ Stage(t)' \in {"offered", "refused"}
        \/ Stage(t) = "offered" /\ Stage(t)' \in {"refused", "accepted", "abandoned"}
    BY <2>2, <2>4 DEF Stage
  <2>6. QED
    BY <2>1, <2>3, <2>5, MoveOne
<1>3. ASSUME NEW w \in Workers, NEW t \in Tasks, ReceiveDirect(w, t) PROVE N!Next
  <2>1. /\ caller[t] = "blocked" /\ caller' = [caller EXCEPT ![t] = "ok"]
        /\ pc[w] = "select" /\ pc'[w] = "acquire"
        /\ UNCHANGED <<queue, outcome, copies>>
    BY <1>0, <1>3, StartEffect DEF ReceiveDirect, Handoff
  <2>2. ~Deserted /\ ~Deserted' /\ outcome[t] = "none"
    BY <1>0, <2>1 DEF Deserted, Place
  <2>3. \A u \in Tasks \ {t} : Stage(u)' = Stage(u)
    BY <1>0, <2>1, <2>2, StageUnchanged
  <2>4. Stage(t) = "offered" /\ Stage(t)' = "accepted"
    BY <1>0, <2>1, <2>2 DEF Stage, Deserted
  <2>5. QED
    BY <2>1, <2>3, <2>4, MoveOne
<1>4. ASSUME NEW w \in Workers, Receive(w) PROVE UNCHANGED N!vars
  <2>1. /\ pc[w] = "select" /\ pc'[w] = "acquire"
        /\ UNCHANGED <<caller, outcome, copies>>
    BY <1>0, <1>4, StartEffect DEF Receive, TakeHead
  <2>2. \A u \in Tasks : Stage(u)' = Stage(u)
    BY <2>1, StageUnchanged DEF Deserted
  <2>3. QED
    BY <2>1, <2>2 DEF N!vars
<1>5. ASSUME NEW w \in Workers, WorkerStep(w) \/ Handshake(w) PROVE [N!Next]_(N!vars)
  <2>1. /\ UNCHANGED <<caller, queue, copies>> /\ Queued' = Queued
        /\ GoesOn(w) \/ ComesToEnd(w)
    BY <1>0, <1>5, WorkerEffect DEF queueVars, Queued
  <2>2. CASE GoesOn(w)
    <3>1. outcome' = outcome /\ ~Deserted
      BY <2>2 DEF GoesOn, Deserted, Trying
    <3>2. CASE ~Deserted'
      <4>1. \A u \in Tasks : Stage(u)' = Stage(u)
        BY <2>1, <3>1, <3>2, StageUnchanged
      <4>2. QED
        BY <2>1, <4>1 DEF N!vars
    <3>3. CASE Deserted'
      <4> DEFINE S == {t \in Tasks : t \in Queued}
      <4>1. \A t \in S : Stage(t) = "accepted" /\ Stage(t)' = "abandoned"
        <5> SUFFICES ASSUME NEW t \in S PROVE Stage(t) = "accepted" /\ Stage(t)' = "abandoned"
          OBVIOUS
        <5>1. caller[t] = "ok" /\ outcome[t] = "none" /\ t \in Queued
          BY <1>0 DEF Place
        <5>2. QED
          BY <2>1, <3>1, <3>3, <5>1 DEF Stage, Deserted
      <4>2. \A t \in Tasks \ S : Stage(t)' = Stage(t)
        BY <2>1, <3>1, StageUnchanged
      <4>3. QED
        BY <2>1, <4>1, <4>2, AbandonSome
    <3>4. QED
      BY <3>2, <3>3
  <2>3. CASE ComesToEnd(w)
    <3>1. PICK t \in Tasks : t = job[w]
      BY <1>0, <2>3 DEF ComesToEnd, Busy, Trying, IInv, OwnerInv, JobInv
    <3>2. ~Deserted /\ ~Deserted'
      BY <2>3 DEF ComesToEnd, Busy, Trying, Deserted
    <3>3. /\ caller[t] = "ok" /\ outcome[t] = "none"
          /\ outcome'[t] \in {"published", "exhausted", "stopped"}
          /\ \A u \in Tasks \ {t} : outcome'[u] = outcome[u]
      BY <1>0, <2>3, <3>1 DEF ComesToEnd, Place, Owner
    <3>4. \A u \in Tasks \ {t} : Stage(u)' = Stage(u)
      BY <2>1, <3>2, <3>3, StageUnchanged
    <3>5. Stage(t) = "accepted" /\ Stage(t)' \in {"delivered", "abandoned"}
      BY <2>1, <3>2, <3>3 DEF Stage, Deserted
    <3>6. CASE Stage(t)' = "delivered"
      BY <2>1, <3>4, <3>5, <3>6, MoveOne
    <3>7. CASE Stage(t)' = "abandoned"
      <4>1. {t} \in SUBSET Tasks
        OBVIOUS
      <4>2. QED
        BY <2>1, <3>4, <3>5, <3>7, <4>1, AbandonSome
    <3>8. QED
      BY <3>5, <3>6, <3>7
  <2>4. QED
    BY <2>1, <2>2, <2>3
<1>6. ASSUME NEW t \in Tasks, Arrives(t) PROVE N!Next
  <2>1. /\ copies' = [copies EXCEPT ![t] = @ + 1] /\ frames[t] > 0
        /\ UNCHANGED <<caller, queue, pc, outcome>>
    BY <1>6 DEF Arrives, queueVars, workerVars
  <2>2. Sent(t) # 0 /\ copies[t] < Sent(t)
    BY <1>0, <2>1 DEF Sent
  <2>3. caller[t] = "ok" /\ copies[t] < Budget[t]
    BY <1>0, <2>2, BudgetFacts DEF Ledger, Sent
  <2>4. Stage(t) \in N!Taken
    BY <1>0, <2>3, StageCases DEF N!Taken
  <2>5. UNCHANGED [u \in Tasks |-> Stage(u)]
    BY <2>1 DEF Stage, Queued
  <2>6. N!Arrive(t)
    BY <2>1, <2>3, <2>4, <2>5 DEF N!Arrive
  <2>7. QED
    BY <2>6 DEF N!Next
<1>7. ASSUME NEW t \in Tasks, FrameLost(t) PROVE UNCHANGED N!vars
  BY <1>1, <1>7 DEF FrameLost, queueVars, workerVars
<1>8. ASSUME NEW w \in Workers, ChannelDies(w) \/ ConnectionDies(w) PROVE UNCHANGED N!vars
  BY <1>1, <1>8 DEF ChannelDies, ConnectionDies, queueVars, brokerVars
<1>9. CASE Shutdown \/ UNCHANGED vars
  BY <1>1, <1>9 DEF Shutdown, Interrupt, vars, queueVars, workerVars, brokerVars
<1>10. QED
  BY <1>2, <1>3, <1>4, <1>5, <1>6, <1>7, <1>8, <1>9 DEF Next, BrokerStep

(* The AMQP sub-system implements Notifier with unconfirmed delivery:       *)
(* whatever the broker, the connections, the clients and the signal do, a   *)
(* caller can rely on its promises.                                         *)
THEOREM Refinement == Spec => ImplementsNotifier
<1>1. Init => N!Init
  BY DEF Init, QueueInit, N!Init, Stage
<1>2. QED
  BY Invariance, <1>1, StepRefines, PTL DEF Spec, ImplementsNotifier, N!Spec

=============================================================================
