---------------------------------- MODULE MCAmqp ----------------------------------
(***************************************************************************)
(* Instances of AmqpPublisher for TLC.                                     *)
(***************************************************************************)
EXTENDS AmqpPublisher, TLC

CONSTANTS t1, t2, t3, w1, w2

(* One retry; a negative value, that is one attempt.                        *)
Mixed == [t \in Tasks |-> IF t = t1 THEN 1 ELSE -1]

=============================================================================
