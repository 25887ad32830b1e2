---------------------------------- MODULE MCForm ----------------------------------
(***************************************************************************)
(* Instances of FormSession for TLC.                                       *)
(***************************************************************************)
EXTENDS FormSession, TLC

CONSTANTS tab1, tab2, code1, wrong

TabSymmetry == Permutations(Tabs)

=============================================================================
