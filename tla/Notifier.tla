--------------------------------- MODULE Notifier ---------------------------------
(***************************************************************************)
(* What a notification sub-system promises to the code that calls          *)
(* Dispatch, whatever the transport: the abstract specification that       *)
(* WebhookDispatcher and AmqpPublisher implement.                          *)
(*                                                                         *)
(*  - a message reaches the remote side only if its Dispatch was accepted; *)
(*  - it reaches it at most Budget[t] times, late copies included;         *)
(*  - a task that was resolved is never taken up again;                    *)
(*  - when the transport hears back from the remote side (Confirmed), a    *)
(*    message it reports as delivered has reached the remote side.         *)
(*                                                                         *)
(* It does not promise that an accepted message is delivered: the queue is *)
(* in memory, and a message is abandoned when its attempts are used up or  *)
(* the process stops.                                                      *)
(***************************************************************************)
EXTENDS Naturals

CONSTANTS
  Tasks,      (* the Dispatch calls                                         *)
  Budget,     (* Budget[t]: how many attempts task t is allowed             *)
  Confirmed   (* TRUE iff the remote side acknowledges what it receives     *)

VARIABLES
  stage,      (* what has become of each task                               *)
  copies      (* how many copies of its message the remote side has         *)

vars == <<stage, copies>>

Stages == {"idle", "offered", "refused", "accepted", "delivered", "abandoned"}

(* Stages in which the transport is, or was, in charge of the message.      *)
Taken == {"accepted", "delivered", "abandoned"}

Init ==
  /\ stage = [t \in Tasks |-> "idle"]
  /\ copies = [t \in Tasks |-> 0]

Move(t, from, to) ==
  /\ stage[t] \in from
  /\ stage' = [stage EXCEPT ![t] = to]
  /\ UNCHANGED copies

Offer(t) == Move(t, {"idle"}, "offered")

Refuse(t) == Move(t, {"idle", "offered"}, "refused")

Accept(t) == Move(t, {"offered"}, "accepted")

(* Accepted into a queue that nobody reads any more, or that cannot be sent *)
(* at all.                                                                  *)
AcceptInVain(t) == Move(t, {"offered"}, "abandoned")

Deliver(t) ==
  /\ Confirmed => copies[t] > 0
  /\ Move(t, {"accepted"}, "delivered")

(* Attempts used up, or the process stops with the tasks of S in memory.    *)
Abandon(S) ==
  /\ \A t \in S : stage[t] = "accepted"
  /\ stage' = [t \in Tasks |-> IF t \in S THEN "abandoned" ELSE stage[t]]
  /\ UNCHANGED copies

(* A copy reaches the remote side, possibly after the sender gave up on it. *)
Arrive(t) ==
  /\ stage[t] \in Taken
  /\ copies[t] < Budget[t]
  /\ copies' = [copies EXCEPT ![t] = @ + 1]
  /\ UNCHANGED stage

Next ==
  \/ \E t \in Tasks : \/ Offer(t) \/ Refuse(t) \/ Accept(t) \/ AcceptInVain(t)
                      \/ Deliver(t) \/ Arrive(t)
  \/ \E S \in SUBSET Tasks : Abandon(S)

Spec == Init /\ [][Next]_vars

=============================================================================
