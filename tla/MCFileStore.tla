------------------------------- MODULE MCFileStore -------------------------------
(***************************************************************************)
(* Instances of FileStore for TLC.                                         *)
(***************************************************************************)
EXTENDS FileStore, TLC

CONSTANTS c1, c2, c3, p1, p2

(* Two calls of one process and one of another.                             *)
TwoProcesses == c1 :> p1 @@ c2 :> p1 @@ c3 :> p2

=============================================================================
