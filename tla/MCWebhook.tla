-------------------------------- MODULE MCWebhook --------------------------------
(***************************************************************************)
(* Instances of WebhookDispatcher for TLC.                                 *)
(***************************************************************************)
EXTENDS WebhookDispatcher, TLC

CONSTANTS t1, t2, t3

(* Three messages compete for one slot of the buffer: no retry, a message   *)
(* whose URL is invalid, and "retry" not set, that is three retries.        *)
Contended == t1 :> -1 @@ t2 :> 1 @@ t3 :> 0

=============================================================================
