------------------------------- MODULE MCSubmission -------------------------------
(***************************************************************************)
(* Instances of Submission for TLC.                                        *)
(***************************************************************************)
EXTENDS Submission

CONSTANTS r1, r2, hook, amqp

(* The template of the webhook cannot handle what the first submission says.*)
OneBadTemplate == {<<r1, hook>>}

(* One slot for the webhooks; the only worker of AMQP takes its messages    *)
(* from the handlers' hands.                                                *)
SmallBuffers == [s \in Subsystems |-> IF s = "webhook" THEN 1 ELSE 0]

=============================================================================
