------------------------------- MODULE MCFormFields -------------------------------
(***************************************************************************)
(* Instances of FormFields for TLC: all definitions of a field over few    *)
(* defaults and lists of options.                                          *)
(***************************************************************************)
EXTENDS FormFields

Option(label, value) == [label |-> Text(label), value |-> Text(value)]

ValuedOptions ==
  {<<>>, <<Option("b", "a"), Option("a", "1")>>, <<Option("a", "true"), Option("", "false")>>}

Definitions(options) ==
  [type : {"string", "boolean", "integer"},
   required : BOOLEAN, hidden : BOOLEAN, disabled : BOOLEAN, multiple : BOOLEAN,
   default : {None, Broken, Empty}
               \cup {[word |-> w, padded |-> TRUE] : w \in {"a", "true"}}
               \cup {Text(w) : w \in {"a", "1", "true"}},
   options : options]

ValuedFields == Definitions(ValuedOptions)

(* Two values are the fewest that repeat, or are one too many.              *)
Sequences2 == {<<>>} \cup {<<s>> : s \in Texts} \cup (Texts \X Texts)

(* A drop-down whose options are given by their labels.                     *)
LabelFields ==
  {f \in Definitions({<<Option("a", ""), Option("1", "")>>}) :
     Widget(f) = "select" /\ f.type = "string"}

=============================================================================
