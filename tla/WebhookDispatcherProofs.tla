------------------------- MODULE WebhookDispatcherProofs -------------------------
(***************************************************************************)
(* Proofs about WebhookDispatcher, for any set of tasks, any buffer and    *)
(* any retry values.                                                       *)
(***************************************************************************)
EXTENDS WebhookDispatcher, FiniteSetTheorems, FunctionTheorems, TLAPS

-----------------------------------------------------------------------------
(* The channel's buffer and the attempts, as both sub-systems have them.    *)

(* A send adds its task at the end of the buffer.                           *)
LEMMA AppendRange ==
  ASSUME NEW S, NEW q \in Seq(S), NEW e \in S
  PROVE  /\ Range(Append(q, e)) = Range(q) \cup {e}
         /\ IsInjective(q) /\ e \notin Range(q) => IsInjective(Append(q, e))
<1>1. /\ DOMAIN Append(q, e) = 1..(Len(q) + 1)
      /\ DOMAIN q = 1..Len(q)
      /\ Append(q, e)[Len(q) + 1] = e
      /\ \A i \in 1..Len(q) : Append(q, e)[i] = q[i]
  OBVIOUS
<1>2. Len(q) \in Nat
  OBVIOUS
<1>3. Range(Append(q, e)) \subseteq Range(q) \cup {e}
  BY <1>1, <1>2 DEF Range
<1>4. Range(q) \cup {e} \subseteq Range(Append(q, e))
  BY <1>1, <1>2 DEF Range
<1>5. IsInjective(q) /\ e \notin Range(q) => IsInjective(Append(q, e))
  BY <1>1, <1>2 DEF Range, IsInjective
<1>6. QED
  BY <1>3, <1>4, <1>5

(* A receive takes the head, and only the head, out of the buffer.          *)
LEMMA TailRange ==
  ASSUME NEW S, NEW q \in Seq(S), q # <<>>, IsInjective(q)
  PROVE  /\ Head(q) \in S
         /\ Head(q) \in Range(q)
         /\ Range(Tail(q)) = Range(q) \ {Head(q)}
         /\ IsInjective(Tail(q))
<1>1. /\ DOMAIN Tail(q) = 1..(Len(q) - 1)
      /\ DOMAIN q = 1..Len(q)
      /\ Head(q) = q[1]
      /\ \A i \in 1..(Len(q) - 1) : Tail(q)[i] = q[i + 1]
  OBVIOUS
<1>2. Len(q) \in Nat /\ Len(q) > 0
  OBVIOUS
<1>3. Head(q) \in S /\ Head(q) \in Range(q)
  BY <1>1, <1>2 DEF Range
<1>4. Range(Tail(q)) \subseteq Range(q) \ {Head(q)}
  BY <1>1, <1>2 DEF Range, IsInjective
<1>5. ASSUME NEW e \in Range(q) \ {Head(q)} PROVE e \in Range(Tail(q))
  <2>1. PICK i \in 1..Len(q) : q[i] = e
    BY <1>1 DEF Range
  <2>2. i # 1
    BY <1>1, <1>5, <2>1
  <2>3. i - 1 \in 1..(Len(q) - 1) /\ (i - 1) + 1 = i
    BY <1>2, <2>2
  <2>4. QED
    BY <1>1, <2>1, <2>3 DEF Range
<1>6. IsInjective(Tail(q))
  BY <1>1, <1>2 DEF IsInjective
<1>7. QED
  BY <1>3, <1>4, <1>5, <1>6

(* A buffer without duplicates has as many tasks as places in use.          *)
LEMMA InjectiveCardinality ==
  ASSUME NEW S, NEW q \in Seq(S), IsInjective(q)
  PROVE  Cardinality(Range(q)) = Len(q)
<1> DEFINE f == [i \in 1..Len(q) |-> q[i]]
<1>1. Len(q) \in Nat /\ DOMAIN q = 1..Len(q)
  OBVIOUS
<1>2. f \in [1..Len(q) -> Range(q)]
  BY <1>1 DEF Range
<1>3. \A i, j \in 1..Len(q) : f[i] = f[j] => i = j
  BY <1>1 DEF IsInjective
<1>4. \A e \in Range(q) : \E i \in 1..Len(q) : f[i] = e
  BY <1>1 DEF Range
<1>5. f \in Bijection(1..Len(q), Range(q))
  BY <1>2, <1>3, <1>4, Fun_IsBij
<1>6. ExistsBijection(1..Len(q), Range(q))
  BY <1>5 DEF ExistsBijection
<1>7. QED
  BY <1>1, <1>6, FS_CountingElements

-----------------------------------------------------------------------------
(* A task has at least one attempt, and the attempt that IsLastAttempt      *)
(* singles out is the last one of its budget.                               *)
LEMMA BudgetFacts ==
  ASSUME NEW t \in Tasks
  PROVE  /\ Budget[t] \in Nat \ {0}
         /\ \A k \in Nat : k < Budget[t] /\ IsLastAttempt(t, k) => k + 1 = Budget[t]
         /\ \A k \in Nat : k < Budget[t] /\ ~IsLastAttempt(t, k) => k + 1 < Budget[t]
<1>1. Retry[t] \in Int
  BY RetryAssumption
<1>2. Retries[t] = IF Retry[t] = 0 THEN 3 ELSE Retry[t]
  BY DEF Retries, defaultRetries
<1>3. QED
  BY <1>1, <1>2 DEF Budget, IsLastAttempt

-----------------------------------------------------------------------------
(* Every variable keeps its type: Run, Send and the callers only ever       *)
(* produce the states that the code distinguishes.                          *)
LEMMA TypeInit == Init => TypeOK
<1> SUFFICES ASSUME Init PROVE TypeOK
  OBVIOUS
<1>1. QueueTypeOK
  <2>1. caller \in [Tasks -> CallerStates]
    BY DEF Init, QueueInit, CallerStates
  <2>2. queue \in Seq(Tasks)
    BY DEF Init, QueueInit
  <2>3. QED
    BY <2>1, <2>2 DEF Init, QueueInit, QueueTypeOK
<1>2. sender \in [Tasks -> Active \cup Finished \cup {"none"}]
  BY DEF Init
<1>3. QED
  BY <1>1, <1>2 DEF Init, TypeOK

LEMMA TypeStep == TypeOK /\ [Next]_vars => TypeOK'
<1> SUFFICES ASSUME TypeOK, [Next]_vars PROVE TypeOK'
  OBVIOUS
<1> USE DEF TypeOK, QueueTypeOK, CallerStates, Active, Finished, queueVars, senderVars
<1>1. ASSUME NEW t \in Tasks, CallerStep(t) PROVE TypeOK'
  <2>1. CASE Dispatch(t)
    BY <1>1, <2>1 DEF CallerStep, Dispatch
  <2>2. CASE Enqueue(t)
    BY <1>1, <2>2 DEF CallerStep, Enqueue
  <2>3. CASE ContextDone(t)
    BY <1>1, <2>3 DEF CallerStep, ContextDone
  <2>4. QED
    BY <1>1, <2>1, <2>2, <2>3 DEF CallerStep, Callers
<1>2. ASSUME NEW t \in Tasks, ReceiveDirect(t) PROVE TypeOK'
  BY <1>2 DEF ReceiveDirect, Handoff, StartSend
<1>3. ASSUME NEW t \in Tasks, SenderStep(t) PROVE TypeOK'
  <2>1. CASE Post(t)
    BY <2>1 DEF Post
  <2>2. CASE PostFails(t)
    BY <2>2 DEF PostFails, AttemptFails
  <2>3. CASE Success(t)
    BY <2>3 DEF Success
  <2>4. CASE BadStatus(t)
    BY <2>4 DEF BadStatus, AttemptFails
  <2>5. CASE GiveUpRequest(t)
    BY <2>5 DEF GiveUpRequest, AttemptFails
  <2>6. CASE RetryAfter(t)
    BY <2>6 DEF RetryAfter
  <2>7. CASE StopWaiting(t)
    BY <2>7 DEF StopWaiting
  <2>8. QED
    BY <1>3, <2>1, <2>2, <2>3, <2>4, <2>5, <2>6, <2>7 DEF SenderStep
<1>4. ASSUME NEW t \in Tasks, NetworkStep(t) PROVE TypeOK'
  <2>1. CASE RemoteAnswers(t)
    BY <2>1 DEF RemoteAnswers
  <2>2. CASE StrayArrives(t)
    BY <2>2 DEF StrayArrives
  <2>3. CASE StrayLost(t)
    BY <2>3 DEF StrayLost
  <2>4. QED
    BY <1>4, <2>1, <2>2, <2>3 DEF NetworkStep
<1>5. CASE Receive
  <2>1. queue' \in Seq(Tasks)
    BY <1>5 DEF Receive, TakeHead
  <2>2. sender' \in [Tasks -> Active \cup Finished \cup {"none"}]
    BY <1>5 DEF Receive, StartSend
  <2>3. QED
    BY <1>5, <2>1, <2>2 DEF Receive, TakeHead, StartSend
<1>6. CASE LoopStops
  BY <1>6 DEF LoopStops
<1>7. CASE RunReturns
  BY <1>7 DEF RunReturns
<1>8. CASE Shutdown
  BY <1>8 DEF Shutdown, Interrupt
<1>9. CASE UNCHANGED vars
  BY <1>9 DEF vars
<1>10. QED
  BY <1>1, <1>2, <1>3, <1>4, <1>5, <1>6, <1>7, <1>8, <1>9 DEF Next

THEOREM TypeCorrect == Spec => []TypeOK
<1>1. QED
  BY TypeInit, TypeStep, PTL DEF Spec

-----------------------------------------------------------------------------
(* The inductive invariant.  SingleOwner, AttemptBudget and NoEarlyGiveUp   *)
(* are not inductive: the budget needs the exact relation between what was  *)
(* sent and the attempt counter, and the owner of a task needs the queue    *)
(* position by position.                                                    *)

Pending(t) == IF wire[t] = "request" THEN 1 ELSE 0

Spent(t) == attempt[t] + (IF sender[t] = "trying" /\ wire[t] = "idle" THEN 0 ELSE 1)

OwnerInv ==
  /\ \A t \in Tasks :
       /\ caller[t] = "ok" <=> (t \in Queued \/ sender[t] # "none")
       /\ ~(t \in Queued /\ sender[t] # "none")
  /\ IsInjective(queue)

Counted(t) ==
  /\ attempt[t] < Budget[t]
  /\ copies[t] + stray[t] + Pending(t) <= Spent(t)
  /\ wire[t] # "idle" => sender[t] = "trying"
  /\ sender[t] = "none" => copies[t] = 0 /\ stray[t] = 0 /\ attempt[t] = 0
  /\ sender[t] = "waiting" => ~IsLastAttempt(t, attempt[t])

AttemptInv == \A t \in Tasks : Counted(t)

Outcome(t) ==
  /\ wire[t] = "ok" => copies[t] > 0
  /\ sender[t] = "exhausted" => attempt[t] + 1 = Budget[t]
  /\ sender[t] = "skipped" => t \notin ValidURL
  /\ sender[t] = "stopped" => ctxDone
  /\ sender[t] = "delivered" => copies[t] > 0

OutcomeInv ==
  /\ \A t \in Tasks : Outcome(t)
  /\ loop # "running" => ctxDone

IInv == TypeOK /\ OwnerInv /\ AttemptInv /\ OutcomeInv

LEMMA InitIInv == Init => IInv
<1> SUFFICES ASSUME Init PROVE IInv
  OBVIOUS
<1>1. TypeOK
  BY TypeInit
<1>2. OwnerInv
  BY DEF Init, QueueInit, OwnerInv, Queued, Range, IsInjective
<1>3. AttemptInv
  BY BudgetFacts DEF Init, AttemptInv, Counted, Pending, Spent
<1>4. OutcomeInv
  BY DEF Init, OutcomeInv, Outcome
<1>5. QED
  BY <1>1, <1>2, <1>3, <1>4 DEF IInv

(* No task gets a second owner.  Only the callers and the loop of Run touch *)
(* the queue, and a sender that exists never goes back to "none".           *)
LEMMA OwnerStep == TypeOK /\ OwnerInv /\ [Next]_vars => OwnerInv'
<1> SUFFICES ASSUME TypeOK, OwnerInv, [Next]_vars PROVE OwnerInv'
  OBVIOUS
<1> USE DEF OwnerInv, Queued
<1>0. /\ caller \in [Tasks -> CallerStates] /\ queue \in Seq(Tasks)
      /\ sender \in [Tasks -> Active \cup Finished \cup {"none"}]
  BY DEF TypeOK, QueueTypeOK
<1>1. ASSUME NEW t \in Tasks, CallerStep(t) PROVE OwnerInv'
  <2> USE DEF CallerStep, senderVars
  <2>1. CASE Dispatch(t)
    BY <1>0, <1>1, <2>1 DEF Dispatch
  <2>2. CASE Enqueue(t)
    <3>1. /\ queue' = Append(queue, t) /\ sender' = sender /\ sender[t] = "none"
          /\ caller' = [caller EXCEPT ![t] = "ok"] /\ t \notin Range(queue)
      BY <1>1, <2>2 DEF Enqueue
    <3>2. Range(queue') = Range(queue) \cup {t} /\ IsInjective(queue')
      BY <1>0, <3>1, AppendRange
    <3>3. QED
      BY <1>0, <3>1, <3>2
  <2>3. CASE ContextDone(t)
    BY <1>0, <1>1, <2>3 DEF ContextDone
  <2>4. QED
    BY <1>1, <2>1, <2>2, <2>3 DEF Callers
<1>2. ASSUME NEW t \in Tasks, ReceiveDirect(t) PROVE OwnerInv'
  <2>1. /\ caller[t] = "blocked" /\ caller' = [caller EXCEPT ![t] = "ok"] /\ queue' = queue
        /\ sender'[t] # "none" /\ \A u \in Tasks \ {t} : sender'[u] = sender[u]
    BY <1>0, <1>2 DEF ReceiveDirect, Handoff, StartSend
  <2>2. QED
    BY <1>0, <2>1
<1>3. ASSUME NEW t \in Tasks, SenderStep(t) PROVE OwnerInv'
  <2>1. /\ caller' = caller /\ queue' = queue
        /\ sender[t] # "none" /\ sender'[t] # "none"
        /\ \A u \in Tasks \ {t} : sender'[u] = sender[u]
    BY <1>0, <1>3 DEF SenderStep, Post, PostFails, Success, BadStatus, GiveUpRequest,
                      RetryAfter, StopWaiting, AttemptFails, queueVars
  <2>2. QED
    BY <1>0, <2>1
<1>4. ASSUME NEW t \in Tasks, NetworkStep(t) PROVE OwnerInv'
  BY <1>4 DEF NetworkStep, RemoteAnswers, StrayArrives, StrayLost, queueVars
<1>5. CASE Receive
  <2>1. /\ caller' = caller /\ queue # <<>> /\ queue' = Tail(queue)
        /\ sender' = [sender EXCEPT ![Head(queue)] =
                        IF Head(queue) \in ValidURL THEN "trying" ELSE "skipped"]
    BY <1>5 DEF Receive, TakeHead, StartSend
  <2>2. /\ Head(queue) \in Tasks /\ Head(queue) \in Range(queue)
        /\ Range(queue') = Range(queue) \ {Head(queue)} /\ IsInjective(queue')
    BY <1>0, <2>1, TailRange
  <2>3. QED
    BY <1>0, <2>1, <2>2
<1>6. CASE LoopStops
  BY <1>6 DEF LoopStops, queueVars, senderVars
<1>7. CASE RunReturns
  BY <1>7 DEF RunReturns, queueVars, senderVars
<1>8. CASE Shutdown
  BY <1>8 DEF Shutdown, Interrupt, senderVars
<1>9. CASE UNCHANGED vars
  BY <1>9 DEF vars, queueVars, senderVars
<1>10. QED
  BY <1>1, <1>2, <1>3, <1>4, <1>5, <1>6, <1>7, <1>8, <1>9 DEF Next

(* A step of one task leaves the account of every other task alone.         *)
OnlyTask(t) ==
  \A u \in Tasks \ {t} :
    /\ sender'[u] = sender[u] /\ attempt'[u] = attempt[u] /\ wire'[u] = wire[u]
    /\ stray'[u] = stray[u] /\ copies'[u] = copies[u]

(* What was sent never exceeds the attempts made.                           *)
LEMMA AttemptStep == IInv /\ [Next]_vars => AttemptInv'
<1> SUFFICES ASSUME IInv, [Next]_vars PROVE AttemptInv'
  OBVIOUS
<1>0. /\ \A t \in Tasks : Counted(t)
      /\ queue \in Seq(Tasks)
      /\ sender \in [Tasks -> Active \cup Finished \cup {"none"}]
      /\ wire \in [Tasks -> {"idle", "request", "ok", "bad"}]
      /\ attempt \in [Tasks -> Nat] /\ stray \in [Tasks -> Nat] /\ copies \in [Tasks -> Nat]
  BY DEF IInv, TypeOK, QueueTypeOK, AttemptInv
<1>1. ASSUME NEW t \in Tasks, OnlyTask(t), Counted(t)' PROVE AttemptInv'
  <2>1. ASSUME NEW u \in Tasks, u # t PROVE Counted(u)'
    <3>1. /\ sender'[u] = sender[u] /\ attempt'[u] = attempt[u] /\ wire'[u] = wire[u]
          /\ stray'[u] = stray[u] /\ copies'[u] = copies[u]
      BY <1>1, <2>1 DEF OnlyTask
    <3>2. QED
      BY <1>0, <3>1 DEF Counted, Pending, Spent, IsLastAttempt
  <2>2. QED
    BY <1>1, <2>1 DEF AttemptInv
<1>2. ASSUME NEW t \in Tasks, CallerStep(t) PROVE AttemptInv'
  BY <1>0, <1>2 DEF CallerStep, senderVars, AttemptInv, Counted, Pending, Spent
<1>3. ASSUME NEW t \in Tasks, sender[t] = "none", StartSend(t) PROVE AttemptInv'
  <2>1. OnlyTask(t)
    BY <1>0, <1>3 DEF StartSend, OnlyTask
  <2>2. /\ sender'[t] \in {"trying", "skipped"} /\ attempt'[t] = attempt[t]
        /\ wire'[t] = wire[t] /\ stray'[t] = stray[t] /\ copies'[t] = copies[t]
    BY <1>0, <1>3 DEF StartSend
  <2>3. /\ attempt[t] = 0 /\ stray[t] = 0 /\ copies[t] = 0 /\ wire[t] = "idle"
        /\ attempt[t] < Budget[t]
    BY <1>0, <1>3 DEF Counted
  <2>4. Counted(t)'
    BY <2>2, <2>3 DEF Counted, Pending, Spent
  <2>5. QED
    BY <1>1, <2>1, <2>4
<1>4. ASSUME NEW t \in Tasks, SenderStep(t) PROVE AttemptInv'
  <2> USE DEF Counted, Pending, Spent
  <2>0. /\ Counted(t) /\ sender[t] \in Active \cup Finished \cup {"none"}
        /\ wire[t] \in {"idle", "request", "ok", "bad"}
        /\ attempt[t] \in Nat /\ stray[t] \in Nat /\ copies[t] \in Nat /\ Budget[t] \in Nat
    BY <1>0, BudgetFacts
  <2>1. OnlyTask(t)
    BY <1>0, <1>4 DEF SenderStep, Post, PostFails, Success, BadStatus, GiveUpRequest,
                      RetryAfter, StopWaiting, AttemptFails, OnlyTask
  <2>2. ASSUME Post(t) PROVE Counted(t)'
    <3>1. /\ sender[t] = "trying" /\ wire[t] = "idle" /\ wire'[t] = "request"
          /\ UNCHANGED <<sender[t], attempt[t], stray[t], copies[t]>>
      BY <1>0, <2>2 DEF Post
    <3>2. QED
      BY <2>0, <3>1
  <2>3. ASSUME PostFails(t) PROVE Counted(t)'
    <3>1. /\ sender[t] = "trying" /\ wire[t] = "idle"
          /\ sender'[t] = IF IsLastAttempt(t, attempt[t]) THEN "exhausted" ELSE "waiting"
          /\ UNCHANGED <<wire[t], attempt[t], stray[t], copies[t]>>
      BY <1>0, <2>3 DEF PostFails, AttemptFails
    <3>2. QED
      BY <2>0, <3>1 DEF IsLastAttempt
  <2>4. ASSUME Success(t) PROVE Counted(t)'
    <3>1. /\ sender[t] = "trying" /\ wire[t] = "ok" /\ sender'[t] = "delivered" /\ wire'[t] = "idle"
          /\ UNCHANGED <<attempt[t], stray[t], copies[t]>>
      BY <1>0, <2>4 DEF Success
    <3>2. QED
      BY <2>0, <3>1
  <2>5. ASSUME BadStatus(t) \/ GiveUpRequest(t) PROVE Counted(t)'
    <3>1. /\ sender[t] = "trying" /\ wire[t] # "idle" /\ wire'[t] = "idle"
          /\ sender'[t] = IF IsLastAttempt(t, attempt[t]) THEN "exhausted" ELSE "waiting"
          /\ stray'[t] <= stray[t] + Pending(t) /\ stray'[t] \in Nat
          /\ UNCHANGED <<attempt[t], copies[t]>>
      BY <1>0, <2>5 DEF BadStatus, GiveUpRequest, AttemptFails
    <3>2. QED
      BY <2>0, <3>1 DEF IsLastAttempt
  <2>6. ASSUME RetryAfter(t) PROVE Counted(t)'
    <3>1. /\ sender[t] = "waiting" /\ sender'[t] = "trying" /\ attempt'[t] = attempt[t] + 1
          /\ UNCHANGED <<wire[t], stray[t], copies[t]>>
      BY <1>0, <2>6 DEF RetryAfter
    <3>2. attempt[t] + 1 < Budget[t]
      BY <1>0, <3>1, BudgetFacts
    <3>3. QED
      BY <2>0, <3>1, <3>2
  <2>7. ASSUME StopWaiting(t) PROVE Counted(t)'
    <3>1. /\ sender[t] = "waiting" /\ sender'[t] = "stopped"
          /\ UNCHANGED <<attempt[t], wire[t], stray[t], copies[t]>>
      BY <1>0, <2>7 DEF StopWaiting
    <3>2. QED
      BY <2>0, <3>1
  <2>8. QED
    BY <1>1, <1>4, <2>1, <2>2, <2>3, <2>4, <2>5, <2>6, <2>7 DEF SenderStep
<1>5. ASSUME NEW t \in Tasks, NetworkStep(t) PROVE AttemptInv'
  <2>1. OnlyTask(t)
    BY <1>0, <1>5 DEF NetworkStep, RemoteAnswers, StrayArrives, StrayLost, OnlyTask
  <2>2. /\ UNCHANGED <<sender[t], attempt[t]>>
        /\ wire'[t] # "idle" <=> wire[t] # "idle"
        /\ copies'[t] \in Nat /\ stray'[t] \in Nat
        /\ (copies[t] + stray[t] + Pending(t))' <= copies[t] + stray[t] + Pending(t)
        /\ stray[t] + Pending(t) > 0
    BY <1>0, <1>5 DEF NetworkStep, RemoteAnswers, StrayArrives, StrayLost, Pending
  <2>3. Counted(t)'
    BY <1>0, <2>2, BudgetFacts DEF Counted, Spent, Pending
  <2>4. QED
    BY <1>1, <2>1, <2>3
<1>6. CASE LoopStops \/ RunReturns \/ Shutdown \/ UNCHANGED vars
  BY <1>0, <1>6 DEF LoopStops, RunReturns, Shutdown, senderVars, vars, AttemptInv,
                    Counted, Pending, Spent
<1>7. ASSUME NEW t \in Tasks, ReceiveDirect(t) PROVE sender[t] = "none" /\ StartSend(t)
  BY <1>7 DEF IInv, OwnerInv, ReceiveDirect, Handoff
<1>8. ASSUME Receive PROVE LET t == Head(queue) IN t \in Tasks /\ sender[t] = "none" /\ StartSend(t)
  BY <1>8, <1>0, TailRange DEF IInv, OwnerInv, Queued, Receive, TakeHead
<1>9. QED
  BY <1>2, <1>3, <1>4, <1>5, <1>6, <1>7, <1>8 DEF Next

(* A task ends the way NoEarlyGiveUp allows.                                *)
LEMMA OutcomeStep == IInv /\ [Next]_vars => OutcomeInv'
<1> SUFFICES ASSUME IInv, [Next]_vars PROVE OutcomeInv'
  OBVIOUS
<1>0. /\ \A t \in Tasks : Outcome(t) /\ Counted(t)
      /\ sender \in [Tasks -> Active \cup Finished \cup {"none"}]
      /\ wire \in [Tasks -> {"idle", "request", "ok", "bad"}]
      /\ attempt \in [Tasks -> Nat] /\ stray \in [Tasks -> Nat] /\ copies \in [Tasks -> Nat]
  BY DEF IInv, TypeOK, AttemptInv, OutcomeInv
<1>1. ctxDone => ctxDone'
  BY DEF Next, CallerStep, Callers, Dispatch, Enqueue, ContextDone, ReceiveDirect, Handoff,
         SenderStep, Post, PostFails, Success, BadStatus, GiveUpRequest, RetryAfter, StopWaiting,
         NetworkStep, RemoteAnswers, StrayArrives, StrayLost, Receive, TakeHead, LoopStops,
         RunReturns, Shutdown, Interrupt, queueVars, vars
<1>2. loop' # "running" => ctxDone'
  BY <1>1 DEF IInv, OutcomeInv, Next, CallerStep, ReceiveDirect, StartSend,
         SenderStep, Post, PostFails, Success, BadStatus, GiveUpRequest, RetryAfter, StopWaiting,
         NetworkStep, RemoteAnswers, StrayArrives, StrayLost, Receive, LoopStops,
         RunReturns, Shutdown, queueVars, vars
<1>3. ASSUME NEW t \in Tasks,
             \A u \in Tasks \ {t} : UNCHANGED <<sender[u], attempt[u], wire[u], copies[u]>>,
             Outcome(t)'
      PROVE OutcomeInv'
  <2>1. ASSUME NEW u \in Tasks, u # t PROVE Outcome(u)'
    BY <1>0, <1>1, <1>3, <2>1 DEF Outcome
  <2>2. QED
    BY <1>2, <1>3, <2>1 DEF OutcomeInv
<1>4. ASSUME UNCHANGED <<sender, attempt, wire, copies>> PROVE OutcomeInv'
  BY <1>0, <1>1, <1>2, <1>4 DEF Outcome, OutcomeInv
<1>5. ASSUME NEW t \in Tasks, StartSend(t) PROVE OutcomeInv'
  <2>1. /\ sender'[t] = IF t \in ValidURL THEN "trying" ELSE "skipped"
        /\ UNCHANGED <<attempt[t], wire[t], copies[t]>>
    BY <1>0, <1>5 DEF StartSend
  <2>2. Outcome(t)'
    BY <1>0, <2>1 DEF Outcome
  <2>3. QED
    BY <1>0, <1>3, <1>5, <2>2 DEF StartSend
<1>6. ASSUME NEW t \in Tasks, SenderStep(t) PROVE OutcomeInv'
  <2>1. /\ copies'[t] = copies[t] /\ copies[t] \in Nat
        /\ \/ sender'[t] \in {"trying", "waiting"}
           \/ /\ sender'[t] = "exhausted" /\ attempt'[t] = attempt[t]
              /\ IsLastAttempt(t, attempt[t])
           \/ sender'[t] = "stopped" /\ ctxDone
           \/ sender'[t] = "delivered" /\ wire[t] = "ok"
        /\ wire'[t] \in {"idle", "request"}
    <3> USE <1>0 DEF Counted, AttemptFails
    <3>1. CASE Post(t) \/ PostFails(t) \/ Success(t)
      BY <3>1 DEF Post, PostFails, Success
    <3>2. CASE BadStatus(t) \/ GiveUpRequest(t)
      BY <3>2 DEF BadStatus, GiveUpRequest
    <3>3. CASE RetryAfter(t) \/ StopWaiting(t)
      BY <3>3 DEF RetryAfter, StopWaiting
    <3>4. QED
      BY <1>6, <3>1, <3>2, <3>3 DEF SenderStep
  <2>2. IsLastAttempt(t, attempt[t]) => attempt[t] + 1 = Budget[t]
    BY <1>0, BudgetFacts DEF Counted
  <2>3. Outcome(t)'
    BY <1>0, <1>1, <2>1, <2>2 DEF Outcome
  <2>4. \A u \in Tasks \ {t} : UNCHANGED <<sender[u], attempt[u], wire[u], copies[u]>>
    BY <1>0, <1>6 DEF SenderStep, Post, PostFails, Success, BadStatus, GiveUpRequest,
                      RetryAfter, StopWaiting, AttemptFails
  <2>5. QED
    BY <1>3, <2>3, <2>4
<1>7. ASSUME NEW t \in Tasks, NetworkStep(t) PROVE OutcomeInv'
  <2>1. /\ UNCHANGED <<sender[t], attempt[t]>>
        /\ copies'[t] >= copies[t] /\ copies[t] \in Nat /\ copies'[t] \in Nat
        /\ wire'[t] = wire[t] \/ copies'[t] > 0
    BY <1>0, <1>7 DEF NetworkStep, RemoteAnswers, StrayArrives, StrayLost
  <2>2. Outcome(t)'
    BY <1>0, <1>1, <2>1 DEF Outcome
  <2>3. \A u \in Tasks \ {t} : UNCHANGED <<sender[u], attempt[u], wire[u], copies[u]>>
    BY <1>0, <1>7 DEF NetworkStep, RemoteAnswers, StrayArrives, StrayLost
  <2>4. QED
    BY <1>3, <2>2, <2>3
<1>8. ASSUME Receive PROVE Head(queue) \in Tasks /\ StartSend(Head(queue))
  BY <1>8, TailRange DEF IInv, TypeOK, QueueTypeOK, OwnerInv, Receive, TakeHead
<1>9. QED
  BY <1>4, <1>5, <1>6, <1>7, <1>8 DEF Next, CallerStep, ReceiveDirect, LoopStops, RunReturns,
                                      Shutdown, senderVars, vars

-----------------------------------------------------------------------------
(* The invariants that the runs check.                                      *)

LEMMA Invariance == Spec => []IInv
<1>1. IInv /\ [Next]_vars => IInv'
  BY TypeStep, OwnerStep, AttemptStep, OutcomeStep DEF IInv
<1>2. QED
  BY InitIInv, <1>1, PTL DEF Spec

(* Every task has exactly one owner from the moment Dispatch returned nil.  *)
THEOREM SingleOwnership == Spec => []SingleOwner
<1>1. IInv => SingleOwner
  BY InjectiveCardinality DEF IInv, TypeOK, QueueTypeOK, OwnerInv, SingleOwner, Queued
<1>2. QED
  BY Invariance, <1>1, PTL

(* The remote server sees a message at most Budget[t] times.                *)
THEOREM BoundedAttempts == Spec => []AttemptBudget
<1>1. IInv => AttemptBudget
  <2> SUFFICES ASSUME IInv, NEW t \in Tasks
               PROVE  /\ copies[t] + stray[t] + (IF wire[t] = "request" THEN 1 ELSE 0) <= Budget[t]
                      /\ sender[t] = "none" => copies[t] + stray[t] = 0
    BY DEF AttemptBudget
  <2>1. /\ Counted(t) /\ Budget[t] \in Nat
        /\ attempt[t] \in Nat /\ stray[t] \in Nat /\ copies[t] \in Nat
    BY BudgetFacts DEF IInv, AttemptInv, TypeOK
  <2>2. QED
    BY <2>1 DEF Counted, Pending, Spent
<1>2. QED
  BY Invariance, <1>1, PTL

(* A message is given up only when its attempts are used up, its URL is     *)
(* invalid or the process was told to stop.                                 *)
THEOREM NothingGivenUpEarly == Spec => []NoEarlyGiveUp
<1>1. IInv => NoEarlyGiveUp
  BY DEF IInv, OutcomeInv, Outcome, NoEarlyGiveUp
<1>2. QED
  BY Invariance, <1>1, PTL

-----------------------------------------------------------------------------
(* The refinement.  One step of the program moves one task along its        *)
(* stages, except LoopStops, which abandons whatever is still in the queue. *)

LEMMA AbandonOne ==
  ASSUME NEW t \in Tasks, \A u \in Tasks \ {t} : Stage(u)' = Stage(u),
         Stage(t) = "accepted", Stage(t)' \in {"accepted", "abandoned"}, copies' = copies
  PROVE  [N!Next]_(N!vars)
<1>1. CASE Stage(t)' = "accepted"
  BY <1>1 DEF N!vars
<1>2. CASE Stage(t)' = "abandoned"
  <2>1. N!Abandon({t})
    BY <1>2 DEF N!Abandon
  <2>2. {t} \in SUBSET Tasks
    OBVIOUS
  <2>3. QED
    BY <2>1, <2>2 DEF N!Next
<1>3. QED
  BY <1>1, <1>2

LEMMA MoveOne ==
  ASSUME NEW t \in Tasks, \A u \in Tasks \ {t} : Stage(u)' = Stage(u), copies' = copies,
         \/ Stage(t) = "idle" /\ Stage(t)' \in {"offered", "refused"}
         \/ Stage(t) = "offered" /\ Stage(t)' \in {"refused", "accepted", "abandoned"}
         \/ Stage(t) = "accepted" /\ Stage(t)' = "delivered" /\ copies[t] > 0
  PROVE  N!Next
<1>1. [u \in Tasks |-> Stage(u)]' = [[u \in Tasks |-> Stage(u)] EXCEPT ![t] = Stage(t)']
  OBVIOUS
<1>2. \/ N!Offer(t) \/ N!Refuse(t) \/ N!Accept(t) \/ N!AcceptInVain(t) \/ N!Deliver(t)
  BY <1>1 DEF N!Offer, N!Refuse, N!Accept, N!AcceptInVain, N!Deliver, N!Move
<1>3. QED
  BY <1>2 DEF N!Next

LEMMA StepRefines == IInv /\ IInv' /\ [Next]_vars => [N!Next]_(N!vars)
<1> SUFFICES ASSUME IInv, IInv', [Next]_vars PROVE [N!Next]_(N!vars)
  OBVIOUS
<1>0. /\ caller \in [Tasks -> CallerStates] /\ queue \in Seq(Tasks)
      /\ sender \in [Tasks -> Active \cup Finished \cup {"none"}]
      /\ loop \in {"running", "draining", "returned"}
      /\ wire \in [Tasks -> {"idle", "request", "ok", "bad"}]
      /\ stray \in [Tasks -> Nat] /\ copies \in [Tasks -> Nat]
      /\ \A t \in Tasks : sender[t] # "none" => caller[t] = "ok"
      /\ \A t \in Tasks : Counted(t) /\ Outcome(t)
  BY DEF IInv, TypeOK, QueueTypeOK, OwnerInv, AttemptInv, OutcomeInv
<1>1. ASSUME UNCHANGED <<caller, sender, copies>>,
             loop' = "running" <=> loop = "running"
      PROVE  UNCHANGED N!vars
  BY <1>1 DEF N!vars, Stage
<1>2. ASSUME NEW t \in Tasks, CallerStep(t) PROVE N!Next
  <2> USE <1>0 DEF CallerStep, senderVars, Stage
  <2>1. \A u \in Tasks \ {t} : Stage(u)' = Stage(u)
    BY <1>2 DEF Callers, Dispatch, Enqueue, ContextDone
  <2>2. CASE Dispatch(t)
    BY <1>2, <2>1, <2>2, MoveOne DEF Dispatch
  <2>3. CASE Enqueue(t)
    <3>1. caller[t] = "blocked" /\ caller'[t] = "ok" /\ sender'[t] = "none"
      BY <1>2, <2>3 DEF Enqueue
    <3>2. QED
      BY <1>2, <2>1, <3>1, MoveOne
  <2>4. CASE ContextDone(t)
    BY <1>2, <2>1, <2>4, MoveOne DEF ContextDone
  <2>5. QED
    BY <1>2, <2>2, <2>3, <2>4 DEF Callers
<1>3. ASSUME NEW t \in Tasks, ReceiveDirect(t) PROVE N!Next
  <2>1. /\ caller[t] = "blocked" /\ caller'[t] = "ok" /\ sender'[t] \in {"trying", "skipped"}
        /\ copies' = copies
        /\ \A u \in Tasks \ {t} : Stage(u)' = Stage(u)
    BY <1>0, <1>3 DEF ReceiveDirect, Handoff, StartSend, Stage
  <2>2. Stage(t) = "offered" /\ Stage(t)' \in {"accepted", "abandoned"}
    BY <2>1 DEF Stage, Active
  <2>3. QED
    BY <2>1, <2>2, MoveOne
<1>4. ASSUME NEW t \in Tasks, SenderStep(t) PROVE [N!Next]_(N!vars)
  <2>1. /\ \A u \in Tasks \ {t} : Stage(u)' = Stage(u)
        /\ UNCHANGED <<caller, loop, copies>>
        /\ sender[t] \in Active /\ caller[t] = "ok"
        /\ \/ sender'[t] \in Active \cup {"exhausted", "stopped"}
           \/ sender'[t] = "delivered" /\ copies[t] > 0
    <3> USE <1>0 DEF AttemptFails, Outcome, Stage, Active, queueVars
    <3>1. CASE Post(t) \/ PostFails(t) \/ Success(t)
      BY <3>1 DEF Post, PostFails, Success
    <3>2. CASE BadStatus(t) \/ GiveUpRequest(t)
      BY <3>2 DEF BadStatus, GiveUpRequest
    <3>3. CASE RetryAfter(t) \/ StopWaiting(t)
      BY <3>3 DEF RetryAfter, StopWaiting
    <3>4. QED
      BY <1>4, <3>1, <3>2, <3>3 DEF SenderStep
  <2>2. Stage(t) = "accepted"
    BY <2>1 DEF Stage, Active
  <2>3. \/ Stage(t)' \in {"accepted", "abandoned"}
        \/ Stage(t)' = "delivered" /\ copies[t] > 0
    BY <2>1 DEF Stage, Active
  <2>4. QED
    BY <2>1, <2>2, <2>3, AbandonOne, MoveOne
<1>5. ASSUME NEW t \in Tasks, NetworkStep(t) PROVE [N!Next]_(N!vars)
  <2>1. UNCHANGED <<caller, sender, loop>>
    BY <1>5 DEF NetworkStep, RemoteAnswers, StrayArrives, StrayLost, queueVars
  <2>2. CASE copies' = copies
    BY <1>1, <2>1, <2>2
  <2>3. CASE copies' # copies
    <3>1. copies' = [copies EXCEPT ![t] = @ + 1] /\ stray[t] + Pending(t) > 0
      BY <1>0, <1>5, <2>3 DEF NetworkStep, RemoteAnswers, StrayArrives, StrayLost, Pending
    <3>2. sender[t] # "none" /\ caller[t] = "ok"
      <4>1. /\ sender[t] = "none" => stray[t] = 0
            /\ wire[t] # "idle" => sender[t] = "trying"
        BY <1>0 DEF Counted
      <4>2. QED
        BY <1>0, <3>1, <4>1 DEF Pending
    <3>3. copies'[t] <= Budget[t] /\ Budget[t] \in Nat /\ copies[t] < Budget[t]
      <4>1. /\ Counted(t)' /\ Budget[t] \in Nat
            /\ attempt'[t] \in Nat /\ stray'[t] \in Nat /\ copies'[t] \in Nat
        BY BudgetFacts DEF IInv, AttemptInv, TypeOK
      <4>2. copies'[t] <= Budget[t]
        BY <4>1 DEF Counted, Pending, Spent
      <4>3. copies'[t] = copies[t] + 1 /\ copies[t] \in Nat
        BY <1>0, <3>1
      <4>4. QED
        BY <4>1, <4>2, <4>3
    <3>4. Stage(t) \in N!Taken
      BY <1>0, <3>2 DEF Stage, N!Taken
    <3>5. UNCHANGED [u \in Tasks |-> Stage(u)]
      BY <2>1 DEF Stage
    <3>6. N!Arrive(t)
      BY <3>1, <3>3, <3>4, <3>5 DEF N!Arrive
    <3>7. QED
      BY <3>6 DEF N!Next
  <2>4. QED
    BY <2>2, <2>3
<1>6. ASSUME Receive PROVE [N!Next]_(N!vars)
  <2>1. PICK t \in Tasks : t = Head(queue) /\ t \in Queued
    BY <1>6, TailRange DEF IInv, TypeOK, QueueTypeOK, OwnerInv, Receive, TakeHead, Queued
  <2>2. /\ caller[t] = "ok" /\ sender[t] = "none" /\ loop = "running"
        /\ UNCHANGED <<caller, loop, copies>>
        /\ sender'[t] \in {"trying", "skipped"}
        /\ \A u \in Tasks \ {t} : sender'[u] = sender[u]
    BY <1>0, <1>6, <2>1 DEF IInv, OwnerInv, Receive, TakeHead, StartSend
  <2>3. \A u \in Tasks \ {t} : Stage(u)' = Stage(u)
    BY <2>2 DEF Stage
  <2>4. Stage(t) = "accepted" /\ Stage(t)' \in {"accepted", "abandoned"}
    BY <2>2 DEF Stage, Active
  <2>5. QED
    BY <2>1, <2>2, <2>3, <2>4, AbandonOne
<1>7. ASSUME LoopStops PROVE N!Next
  <2> DEFINE S == {t \in Tasks : caller[t] = "ok" /\ sender[t] = "none"}
  <2>1. loop = "running" /\ loop' = "draining" /\ UNCHANGED <<caller, sender, copies>>
    BY <1>7 DEF LoopStops, queueVars, senderVars
  <2>2. \A t \in S : Stage(t) = "accepted" /\ Stage(t)' = "abandoned"
    BY <2>1 DEF Stage, Active
  <2>3. \A t \in Tasks \ S : Stage(t)' = Stage(t)
    BY <1>0, <2>1 DEF Stage
  <2>4. N!Abandon(S)
    BY <2>1, <2>2, <2>3 DEF N!Abandon
  <2>5. S \in SUBSET Tasks
    OBVIOUS
  <2>6. QED
    BY <2>4, <2>5 DEF N!Next
<1>8. ASSUME RunReturns \/ Shutdown \/ UNCHANGED vars PROVE UNCHANGED N!vars
  BY <1>1, <1>8 DEF RunReturns, Shutdown, Interrupt, queueVars, senderVars, vars
<1>9. QED
  BY <1>2, <1>3, <1>4, <1>5, <1>6, <1>7, <1>8 DEF Next

(* The webhook sub-system implements Notifier: whatever the remote servers, *)
(* the clients and the signal do, a caller can rely on its promises.        *)
THEOREM Refinement == Spec => ImplementsNotifier
<1>1. Init => N!Init
  BY DEF Init, QueueInit, N!Init, Stage
<1>2. QED
  BY Invariance, <1>1, StepRefines, PTL DEF Spec, ImplementsNotifier, N!Spec

=============================================================================
