------------------------------- MODULE MCRetryTimer -------------------------------
(***************************************************************************)
(* Instances of RetryTimer for TLC.                                        *)
(***************************************************************************)
EXTENDS RetryTimer

(* Retries disabled, not set, one.                                          *)
RetryValues == {-1, 0, 1}

=============================================================================
