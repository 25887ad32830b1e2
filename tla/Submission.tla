-------------------------------- MODULE Submission --------------------------------
(***************************************************************************)
(* The server as a whole, from a submission that passed all checks to the  *)
(* end of its handler, and from the start of the process to its exit:      *)
(* submitForm and sendNotifications (internal/engine/form.go) over the     *)
(* storage and the notification sub-systems, inside run                    *)
(* (cmd/web-form/main.go).                                                 *)
(*                                                                         *)
(* Handlers run concurrently; each starts one goroutine per destination of *)
(* the form and waits for all of them.  The page is rendered before that,  *)
(* but the answer is complete only when the handler returns.  The client   *)
(* may leave, the time to answer may run out, the signal may come, the     *)
(* listener may fail and the process may be killed at any moment.          *)
(*                                                                         *)
(* The two sub-systems behind Dispatch appear as their abstract            *)
(* specification, Notifier, which WebhookDispatcher and AmqpPublisher      *)
(* implement, with their queues and the workers that empty them, because a *)
(* full queue holds the handlers; the broker may stop answering, and then  *)
(* the workers of AMQP are stuck.  Of the storage what matters is when a   *)
(* row is there and what the handler is told.                              *)
(***************************************************************************)
EXTENDS Naturals, FiniteSets

CONSTANTS
  Requests,       (* the submissions                                        *)
  Destinations,   (* the form's webhooks and AMQP definitions               *)
  Brokered,       (* the AMQP ones                                          *)
  BadTemplate,    (* messages with a template that fails to render          *)
  Buffer,         (* --webhooks.buffer and --amqp.buffer                    *)
  Workers         (* --amqp.workers                                         *)

Tasks == Requests \X Destinations

Subsystems == {"webhook", "amqp"}

ASSUME DestinationsAssumption == Brokered \subseteq Destinations /\ BadTemplate \subseteq Tasks
ASSUME QueueAssumption == Buffer \in [Subsystems -> Nat] /\ Workers \in Nat

VARIABLES
  storage,    (* --storage, and for a database --db.dialect                 *)
  pc,         (* where each handler is                                      *)
  row,        (* what has become of the submission's row                    *)
  page,       (* the page that was rendered                                 *)
  contact,    (* the connection to the client                               *)
  stage,      (* the dispatch of each notification, see Notifier            *)
  queued,     (* the messages in the buffers of the sub-systems             *)
  ctxDone,    (* the process-wide context was cancelled                     *)
  listener,   (* ListenAndServe                                             *)
  closer,     (* the listener and the connections were closed               *)
  notifiers,  (* Run of each sub-system: running or returned                *)
  process     (* run, and what comes after it                               *)

handlerVars == <<pc, row, page, contact>>
notifierVars == <<stage, queued>>
mainVars == <<ctxDone, listener, closer, notifiers, process>>
vars == <<storage, handlerVars, notifierVars, mainVars>>

(* How often a message arrives is left to the modules of the sub-systems:   *)
(* here any message that was taken may have arrived.                        *)
N == INSTANCE Notifier WITH Budget <- [t \in Tasks |-> 0], Confirmed <- FALSE,
                            copies <- [t \in Tasks |-> 0]

(* The files and the dump are "local": no one closes or loses them.         *)
Databases == {"postgres", "sqlite"}

Waiting == {"storing", "querying", "executed", "dispatching"}

(* "answered": the client got the page; "unheard": it did not.              *)
Ended == {"answered", "unheard", "killed"}

TypeOK ==
  /\ storage \in {"local"} \cup Databases
  /\ pc \in [Requests -> {"new"} \cup Waiting \cup Ended]
  /\ row \in [Requests -> {"none", "stored", "undone"}]
  /\ page \in [Requests -> {"none", "success", "failed"}]
  /\ contact \in [Requests -> {"open", "gone", "over"}]
  /\ stage \in [Tasks -> N!Stages]
  /\ queued \subseteq Tasks
  /\ {ctxDone, closer} \subseteq BOOLEAN
  /\ listener \in {"up", "down"}
  /\ notifiers \in [Subsystems -> {"running", "returned"}]
  /\ process \in {"running", "returning", "exited"}

Init ==
  /\ storage \in {"local"} \cup Databases
  /\ pc = [r \in Requests |-> "new"]
  /\ row = [r \in Requests |-> "none"]
  /\ page = [r \in Requests |-> "none"]
  /\ contact = [r \in Requests |-> "open"]
  /\ N!Init
  /\ queued = {}
  /\ ctxDone = FALSE
  /\ listener = "up"
  /\ closer = FALSE
  /\ notifiers = [s \in Subsystems |-> "running"]
  /\ process = "running"

Goto(r, from, to) == pc[r] = from /\ pc' = [pc EXCEPT ![r] = to]

(* Wrong: Dispatch is given the process-wide context.                       *)
WrongContextDone(r) == ctxDone

(* The request's context: its base is the process-wide one, and it ends     *)
(* with the connection.                                                     *)
ContextDone(r) == ctxDone \/ contact[r] = "gone"

(* The handler returns, and what is left of the answer is written, unless   *)
(* the connection is closed or --http.write-timeout has passed.             *)
Return(r, from) ==
  /\ \/ Goto(r, from, "unheard")
     \/ contact[r] = "open" /\ Goto(r, from, "answered")
  /\ contact' = [contact EXCEPT ![r] = "over"]

(* Render writes the page.  A page that fits into the buffers of the server *)
(* stays there; a larger one meets the write timeout, and a write that      *)
(* fails ends the context.                                                  *)
Render(r, view) ==
  /\ page' = [page EXCEPT ![r] = view]
  /\ UNCHANGED contact \/ contact' = [contact EXCEPT ![r] = "gone"]

-----------------------------------------------------------------------------
(* submitForm.                                                              *)

(* The handler calls Storage.Store.                                         *)
Begin(r) ==
  /\ listener = "up"
  /\ Goto(r, "new", "storing")
  /\ UNCHANGED <<storage, row, page, contact, notifierVars, mainVars>>

(* The statement, or the first write, is on its way.  Only a database can   *)
(* be closed, by the deferred Close of run.                                 *)
Execute(r) ==
  /\ storage \in Databases => process = "running"
  /\ Goto(r, "storing", "querying")
  /\ UNCHANGED <<storage, row, page, contact, notifierVars, mainVars>>

(* The row is in the database, its file is renamed or its text printed.     *)
Commit(r) ==
  /\ Goto(r, "querying", "executed")
  /\ row' = [row EXCEPT ![r] = "stored"]
  /\ UNCHANGED <<storage, page, contact, notifierVars, mainVars>>

(* PostgreSQL returns the row, and the statement fails at its end: a        *)
(* deferred constraint, a lost connection.  That error is met by            *)
(* Rows.Close, and nobody asks Rows.Err afterwards.                         *)
Undo(r) ==
  /\ storage = "postgres"
  /\ Goto(r, "querying", "executed")
  /\ row' = [row EXCEPT ![r] = "undone"]
  /\ UNCHANGED <<storage, page, contact, notifierVars, mainVars>>

(* Wrong: the page does not wait for the storage.                           *)
WrongStoreReturns(r) ==
  /\ Goto(r, "querying", "dispatching")
  /\ Render(r, "success")
  /\ UNCHANGED <<storage, row, notifierVars, mainVars>>

(* Store returns no error.  The success page is rendered before the first   *)
(* notification.                                                            *)
StoreReturns(r) ==
  /\ Goto(r, "executed", "dispatching")
  /\ Render(r, "success")
  /\ UNCHANGED <<storage, row, notifierVars, mainVars>>

(* Wrong: a return is missing.                                              *)
WrongStoreFails(r) ==
  /\ Goto(r, "storing", "dispatching")
  /\ Render(r, "failed")
  /\ UNCHANGED <<storage, row, notifierVars, mainVars>>

(* Store returns an error.  Of a database it may also mean that the answer  *)
(* to a statement that was executed did not arrive or could not be read.    *)
StoreFails(r) ==
  /\ \/ \E at \in {"storing", "querying"} : Return(r, at)
     \/ storage \in Databases /\ Return(r, "executed")
  /\ page' = [page EXCEPT ![r] = "failed"]
  /\ UNCHANGED <<storage, row, notifierVars, mainVars>>

-----------------------------------------------------------------------------
(* sendNotifications.                                                       *)

(* Wrong: one destination after the other.                                  *)
WrongDispatch(r, d) ==
  /\ pc[r] = "dispatching"
  /\ \A e \in Destinations : stage[<<r, e>>] # "offered"
  /\ IF <<r, d>> \in BadTemplate THEN N!Refuse(<<r, d>>) /\ stage[<<r, d>>] = "idle"
                                 ELSE N!Offer(<<r, d>>)
  /\ UNCHANGED <<storage, queued, handlerVars, mainVars>>

(* The goroutine of one destination renders the message and comes to the    *)
(* select of Dispatch, or fails.                                            *)
Dispatch(r, d) ==
  /\ pc[r] = "dispatching"
  /\ IF <<r, d>> \in BadTemplate THEN N!Refuse(<<r, d>>) /\ stage[<<r, d>>] = "idle"
                                 ELSE N!Offer(<<r, d>>)
  /\ UNCHANGED <<storage, queued, handlerVars, mainVars>>

(* The context ends the call.                                               *)
DispatchStops(r, d) ==
  /\ pc[r] = "dispatching"
  /\ ContextDone(r)
  /\ stage[<<r, d>>] = "offered"
  /\ N!Refuse(<<r, d>>)
  /\ UNCHANGED <<storage, queued, handlerVars, mainVars>>

Subsystem(d) == IF d \in Brokered THEN "amqp" ELSE "webhook"

Queued(s) == {t \in queued : Subsystem(t[2]) = s}

(* The messages that the sub-system has taken out of its queue.             *)
InHand(s) == {t \in Tasks \ queued : Subsystem(t[2]) = s /\ stage[t] = "accepted"}

(* Run waits for a message: the one of the webhooks starts a goroutine for  *)
(* each, a worker of AMQP is busy until its message is resolved.            *)
Receives(s) ==
  /\ notifiers[s] = "running"
  /\ s = "amqp" => Cardinality(InHand(s)) < Workers

(* The queue has room for the message, or it is empty and Run is waiting    *)
(* for the next one.  Once Run has returned, what still finds room in the   *)
(* queue stays there.                                                       *)
Taken(r, d) ==
  LET s == Subsystem(d) IN
  /\ pc[r] = "dispatching"
  /\ \/ /\ Cardinality(Queued(s)) < Buffer[s]
        /\ IF notifiers[s] = "running" THEN N!Accept(<<r, d>>) ELSE N!AcceptInVain(<<r, d>>)
        /\ queued' = queued \cup {<<r, d>>}
     \/ /\ Queued(s) = {}
        /\ Receives(s)
        /\ N!Accept(<<r, d>>)
        /\ UNCHANGED queued
  /\ UNCHANGED <<storage, handlerVars, mainVars>>

(* Wrong: the handler does not wait.                                        *)
WrongFinish(r) ==
  /\ Return(r, "dispatching")
  /\ UNCHANGED <<storage, row, page, notifierVars, mainVars>>

(* wg.Wait: every goroutine is over.                                        *)
Finish(r) ==
  /\ \A d \in Destinations : stage[<<r, d>>] \notin {"idle", "offered"}
  /\ Return(r, "dispatching")
  /\ UNCHANGED <<storage, row, page, notifierVars, mainVars>>

(* The client leaves.                                                       *)
ContactLost(r) ==
  /\ pc[r] \in Waiting
  /\ contact[r] = "open"
  /\ contact' = [contact EXCEPT ![r] = "gone"]
  /\ UNCHANGED <<storage, pc, row, page, notifierVars, mainVars>>

-----------------------------------------------------------------------------
(* The sub-systems and the remote sides.                                    *)

(* Run takes a message out of the queue.                                    *)
TakeUp(t) ==
  /\ t \in queued
  /\ Receives(Subsystem(t[2]))
  /\ queued' = queued \ {t}
  /\ UNCHANGED <<storage, stage, handlerVars, mainVars>>

Notify(t) ==
  /\ t \in InHand(Subsystem(t[2]))
  /\ notifiers[Subsystem(t[2])] = "running"
  /\ N!Deliver(t) \/ N!Abandon({t})
  /\ UNCHANGED <<storage, queued, handlerVars, mainVars>>

-----------------------------------------------------------------------------
(* run and main.                                                            *)

Interrupt ==
  /\ process = "running"
  /\ ~ctxDone
  /\ ctxDone' = TRUE
  /\ UNCHANGED <<storage, handlerVars, notifierVars, listener, closer, notifiers, process>>

(* The address is in use, a certificate is missing, accept fails: the error *)
(* is kept by the group, and nobody else notices.                           *)
ListenFails ==
  /\ process = "running"
  /\ listener = "up"
  /\ listener' = "down"
  /\ UNCHANGED <<storage, handlerVars, notifierVars, ctxDone, closer, notifiers, process>>

(* Wrong: there is nothing to close without a listener.                     *)
WrongServerClose ==
  /\ process = "running"
  /\ ctxDone
  /\ listener = "up"
  /\ closer' = TRUE
  /\ listener' = "down"
  /\ contact' = [r \in Requests |-> IF pc[r] \in Waiting THEN "gone" ELSE contact[r]]
  /\ UNCHANGED <<storage, pc, row, page, notifierVars, ctxDone, notifiers, process>>

(* server.Close closes the listener and the connections; it does not wait   *)
(* for the handlers.                                                        *)
ServerClose ==
  /\ process = "running"
  /\ ctxDone
  /\ ~closer
  /\ closer' = TRUE
  /\ listener' = "down"
  /\ contact' = [r \in Requests |-> IF pc[r] \in Waiting THEN "gone" ELSE contact[r]]
  /\ UNCHANGED <<storage, pc, row, page, notifierVars, ctxDone, notifiers, process>>

(* Run of the webhooks, or the last Run of AMQP, returns: what it has in    *)
(* hand is given up, and what is in the queue stays there.                  *)
NotifierReturns(s) ==
  /\ process = "running"
  /\ ctxDone
  /\ notifiers[s] = "running"
  /\ N!Abandon({t \in Tasks : Subsystem(t[2]) = s /\ stage[t] = "accepted"})
  /\ notifiers' = [notifiers EXCEPT ![s] = "returned"]
  /\ UNCHANGED <<storage, queued, handlerVars, ctxDone, listener, closer, process>>

(* wg.Wait is over, and the deferred calls of run close the storage.        *)
RunReturns ==
  /\ process = "running"
  /\ closer
  /\ listener = "down"
  /\ \A s \in Subsystems : notifiers[s] = "returned"
  /\ process' = "returning"
  /\ UNCHANGED <<storage, handlerVars, notifierVars, ctxDone, listener, closer, notifiers>>

(* The process ends, with handlers that are still at work, with what is in  *)
(* memory, and with its sockets.                                            *)
Die ==
  /\ process' = "exited"
  /\ listener' = "down"
  /\ closer' = TRUE
  /\ contact' = [r \in Requests |-> IF pc[r] \in Waiting THEN "over" ELSE contact[r]]
  /\ pc' = [r \in Requests |-> IF pc[r] \in Waiting THEN "killed" ELSE pc[r]]
  /\ N!Abandon({t \in Tasks : stage[t] = "accepted"})
  /\ queued' = {}
  /\ notifiers' = [s \in Subsystems |-> "returned"]
  /\ UNCHANGED <<storage, row, page, ctxDone>>

(* Close of the PostgreSQL pool waits for its connections, so for the       *)
(* statements under way; the other storages wait for nobody.                *)
Exit ==
  /\ process = "returning"
  /\ storage = "postgres" => \A r \in Requests : pc[r] \notin {"querying", "executed"}
  /\ Die

(* SIGTERM and SIGKILL; os.Interrupt is the only signal that run handles.   *)
Kill == process # "exited" /\ Die

-----------------------------------------------------------------------------
HandlerStep(r) ==
  \/ Execute(r)
  \/ Commit(r)
  \/ Undo(r)
  \/ StoreReturns(r)
  \/ StoreFails(r)
  \/ Finish(r)

DestinationStep(r, d) ==
  \/ Dispatch(r, d)
  \/ DispatchStops(r, d)
  \/ Taken(r, d)

(* One after the other: none of them is possible while another one is.      *)
MainStep ==
  \/ ServerClose
  \/ RunReturns
  \/ Exit

Next ==
  \/ \E r \in Requests : \/ Begin(r)
                         \/ HandlerStep(r)
                         \/ ContactLost(r)
                         \/ \E d \in Destinations : DestinationStep(r, d)
  \/ \E t \in Tasks : TakeUp(t) \/ Notify(t)
  \/ \E s \in Subsystems : NotifierReturns(s)
  \/ MainStep
  \/ Interrupt
  \/ ListenFails
  \/ Kill

(* The goroutines of the process go on, and the storage answers: Store has  *)
(* no timeout of its own, only the context of the request.  Nothing is      *)
(* assumed of a worker of AMQP that has a message in hand, because nothing  *)
(* ends a handshake that the broker does not answer.  Run of the webhooks   *)
(* returns after the signal by ShutdownCompletes of WebhookDispatcher.      *)
Fairness ==
  /\ \A r \in Requests :
       /\ WF_vars(HandlerStep(r))
       /\ \A d \in Destinations : WF_vars(DestinationStep(r, d))
  /\ \A s \in Subsystems : WF_vars(\E t \in Queued(s) : TakeUp(t))
  /\ WF_vars(NotifierReturns("webhook"))
  /\ WF_vars(NotifierReturns("amqp") /\ InHand("amqp") = {})
  /\ WF_vars(MainStep)

Spec == Init /\ [][Next]_vars

FairSpec == Spec /\ Fairness

-----------------------------------------------------------------------------
(* What the rows may be like when Store reports no error.                   *)
NoError == IF storage = "postgres" THEN {"stored", "undone"} ELSE {"stored"}

(* Notifications go out "after saving information to the storage, and only  *)
(* in case of success" (docs/notifications.md): nothing is offered to a     *)
(* sub-system, let alone received, unless Store reported no error, and so   *)
(* what the user was shown agrees with what the remote sides hear.          *)
NotifiedOnlyIfStored ==
  \A r \in Requests, d \in Destinations :
    stage[<<r, d>>] # "idle" => row[r] \in NoError /\ page[r] = "success"

(* The page tells the truth: success means that the storage has the row,    *)
(* but for the one case of Undo; failure of the files and of the dump that  *)
(* it has not.                                                              *)
TruthfulPage ==
  \A r \in Requests :
    /\ page[r] = "success" => row[r] \in NoError
    /\ page[r] = "failed" /\ storage \notin Databases => row[r] = "none"

(* What docs/notifications.md says of every storage: a message goes out     *)
(* after saving, and only in case of success.                               *)
SavedBeforeNotified ==
  \A r \in Requests, d \in Destinations : stage[<<r, d>>] = "delivered" => row[r] = "stored"

(* A user who has got the whole success page may close the browser: unless *)
(* the process is shutting down, every destination whose template works has *)
(* taken the message, although the page was rendered before the first       *)
(* Dispatch.  (The browser may show the first part of a page that does not  *)
(* fit into the buffers of the server before that.)                         *)
AnsweredAfterHandover ==
  \A r \in Requests :
    pc[r] = "answered" /\ page[r] = "success" /\ ~ctxDone =>
      \A d \in Destinations : <<r, d>> \notin BadTemplate => stage[<<r, d>>] \in N!Taken

(* What AcceptedResolved and ShutdownCompletes of AmqpPublisher promise,    *)
(* when handshakes are answered: no message stays with a worker.            *)
BrokerAnswers ==
  \A r \in Requests, d \in Brokered : []<>(<<r, d>> \notin InHand("amqp"))

(* "If the queue becomes full, further submissions will be blocked"         *)
(* (docs/notifications.md): for ever only if the broker does not answer,    *)
(* and even then no longer than the clients stay.  (The submissions are     *)
(* finitely many, so there is a time when none of them is waiting.)         *)
HandlersEnd ==
  /\ BrokerAnswers => []<>(\A r \in Requests : pc[r] \notin Waiting)
  /\ []<>(\A r \in Requests : pc[r] \in Waiting => contact[r] = "open")

(* "All notifications are dispatched in parallel" (docs/notifications.md):  *)
(* the webhooks of all submissions are seen off even if messages to a       *)
(* silent broker wait for ever.                                             *)
WebhooksUnaffected ==
  []<>(\A r \in Requests, d \in Destinations \ Brokered :
         pc[r] = "dispatching" => stage[<<r, d>>] \notin {"idle", "offered"})

(* The signal ends the process, with or without a working listener, unless  *)
(* a worker is stuck with a silent broker.                                  *)
SignalEnds == BrokerAnswers => (ctxDone ~> process = "exited")

=============================================================================
