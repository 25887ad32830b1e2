------------------------------- MODULE MCPortal -------------------------------
(***************************************************************************)
(* Instances of Portal for TLC.                                            *)
(***************************************************************************)
EXTENDS Portal, TLC

CONSTANTS t1, t2, ann, bob

Def(file, name, policy) == [file |-> file, name |-> name, valid |-> TRUE, policy |-> policy]

(* An open form, named by its file, and one in a directory, for ann only.   *)
Shop == << Def(<<"shop">>, << >>, NoPolicy), Def(<<"shop", "staff">>, << >>, {ann}) >>

(* The definitions change their policies.                                   *)
Moved == << Def(<<"shop">>, << >>, {bob}), Def(<<"old">>, <<"shop", "staff">>, NoPolicy) >>

(* The name of one is the file of the other.                                *)
Twice == << Def(<<"shop">>, << >>, NoPolicy), Def(<<"other">>, <<"shop">>, NoPolicy) >>

Words == {"forms", "shop", "staff", "old", "other"}

Symmetry == Permutations(Tabs)

Directories == {Shop, Moved, Twice}

=============================================================================
