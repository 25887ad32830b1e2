-------------------------------- MODULE FormFields --------------------------------
(***************************************************************************)
(* One field of a form on its way from the definition to the page, through *)
(* the browser and ParseForm to the storage, and back to the page when the *)
(* submission was rejected: preRender (engine/form.go), the template       *)
(* form.gohtml and ParseForm (schema/parser.go).                           *)
(*                                                                         *)
(* A text is a word with or without blanks around it.  The state of an     *)
(* input element is the sequence of texts it would send.  The other fields *)
(* and the captcha are a choice: they may be refused at any submission.    *)
(* The text of a default is rendered anew for each request and is taken to *)
(* be the same each time; the form's address has no query.                 *)
(***************************************************************************)
EXTENDS Naturals, Sequences, SequencesExt

CONSTANTS
  Words,      (* what can be typed, "" included                             *)
  Numbers,    (* the words that are integers                                *)
  Matching,   (* the words that match the pattern of a string field         *)
  Fields,     (* the definitions of the field to look at                    *)
  API,        (* programs may post to the form (--http.disable-xsrf)        *)
  Posts,      (* the values a program may post for the field                *)
  None, Broken

ASSUME FieldWordsAssumption ==
  /\ {"", "true", "false"} \cup Numbers \cup Matching \subseteq Words
  /\ "" \notin Numbers

Texts == [word : Words, padded : BOOLEAN]

(* The empty option and label are texts; a default may be missing, or a     *)
(* template that fails.                                                     *)
Definition ==
  [type : {"string", "boolean", "integer"},
   required : BOOLEAN, hidden : BOOLEAN, disabled : BOOLEAN, multiple : BOOLEAN,
   default : Texts \cup {None, Broken},
   options : Seq([label : Texts, value : Texts])]

ASSUME FieldsAssumption == \A f \in Fields : f \in Definition

ASSUME PostsAssumption == \A p \in Posts : p \in Seq(Texts)

VARIABLES
  field,      (* the definition, fixed at start                             *)
  page,       (* what the browser shows                                     *)
  input,      (* the field's input element, as the user has left it         *)
  sent,       (* what the last submission brought for the field             *)
  stored      (* what it handed to Storage.Store, if it was not rejected    *)

vars == <<field, page, input, sent, stored>>

-----------------------------------------------------------------------------
Text(w) == [word |-> w, padded |-> FALSE]

Trim(t) == Text(t.word)

Empty == Text("")

Accessible(f) == ~(f.hidden \/ f.disabled)

(* A default that is not set is rendered as the empty text.                 *)
DefaultText(f) == IF f.default = None THEN Empty ELSE f.default

(* An option without a value stands for its label.                          *)
OptionValue(o) == IF o.value # Empty THEN o.value ELSE o.label

-----------------------------------------------------------------------------
(* The page.                                                                *)

OnPage(f) == [i \in DOMAIN f.options |-> OptionValue(f.options[i])]

Widget(f) ==
  CASE f.options # <<>> /\ f.multiple  -> "checkboxes"
    [] f.options # <<>> /\ ~f.multiple -> "select"
    [] f.options = <<>> /\ f.type = "boolean" -> "checkbox"
    [] OTHER -> "text"

(* What the user can make of an input element.  Number inputs hold numbers  *)
(* only, checkboxes send their values in the order of the page.             *)
Inputs(f) ==
  CASE f.hidden -> {<<>>}
    [] ~f.hidden /\ Widget(f) = "checkboxes" ->
         {SelectSeq(OnPage(f), LAMBDA v : v \in S) : S \in SUBSET ToSet(OnPage(f))}
    [] ~f.hidden /\ Widget(f) = "select" -> {<<v>> : v \in ToSet(OnPage(f))}
    [] ~f.hidden /\ Widget(f) = "checkbox" -> {<<>>, <<Text("true")>>}
    [] OTHER -> {<<t>> : t \in IF f.type = "integer"
                               THEN {Text(w) : w \in Numbers \cup {""}}
                               ELSE Texts}

(* The option whose value is the wanted text is marked, by its value alone. *)
(* A browser selects the last marked option, and the first if none is.      *)
Selected(f, wanted) ==
  LET marked == {i \in DOMAIN f.options : f.options[i].value = wanted}
      chosen == IF marked = {} THEN 1 ELSE CHOOSE i \in marked : \A j \in marked : j <= i
  IN  <<OnPage(f)[chosen]>>

(* Wrong: the default again, whatever was submitted.                        *)
WrongWanted(f, old) == DefaultText(f)

(* preRender: "if there is old value - keep it as default".                 *)
Wanted(f, old) == IF old # <<>> THEN old[1] ELSE DefaultText(f)

(* The page cannot be rendered: a default fails, or the default of a        *)
(* multiple choice is a text and the template asks it for its elements.     *)
RenderFails(f, old) ==
  /\ old = <<>>
  /\ \/ f.default = Broken
     \/ ~f.hidden /\ Widget(f) = "checkboxes"

Shown(f, old) ==
  LET wanted == Wanted(f, old) IN
  CASE f.hidden -> <<>>
    [] ~f.hidden /\ Widget(f) = "checkboxes" ->
         SelectSeq(OnPage(f), LAMBDA v : v \in ToSet(old))
    [] ~f.hidden /\ Widget(f) = "select" -> Selected(f, wanted)
    [] ~f.hidden /\ Widget(f) = "checkbox" -> IF wanted = Text("true") THEN <<wanted>> ELSE <<>>
    [] OTHER -> IF f.type = "integer" /\ wanted \notin {Text(w) : w \in Numbers}
                THEN <<Empty>>
                ELSE <<wanted>>

-----------------------------------------------------------------------------
(* ParseForm, for one field.                                                *)

OptionValues(f) == {OptionValue(f.options[i]) : i \in DOMAIN f.options}

(* The loops of Uniq and of parseValues: what they have put out after i     *)
(* values.                                                                  *)
Uniq(values) ==
  LET out[i \in 0 .. Len(values)] ==
        IF i = 0 THEN <<>>
        ELSE IF values[i] \in ToSet(out[i - 1]) THEN out[i - 1]
        ELSE Append(out[i - 1], values[i])
  IN  out[Len(values)]

(* Wrong: an unchecked box is taken for what it is.                         *)
WrongUsesDefault(f, posted) == ~Accessible(f)

(* A field that the user cannot change takes its default, and so does an    *)
(* unchecked box, which browsers do not send.                               *)
UsesDefault(f, posted) ==
  \/ ~Accessible(f)
  \/ f.type = "boolean" /\ posted = <<>> /\ f.default # None

Collected(f, posted) ==
  IF UsesDefault(f, posted) THEN <<DefaultText(f)>> ELSE Uniq(posted)

(* The words of strconv.ParseBool.                                          *)
Trues == {"1", "t", "T", "TRUE", "true", "True"}
Falses == {"0", "f", "F", "FALSE", "false", "False"}

(* Type.Parse finds a value, and a string matches the field's pattern.      *)
Fits(f, t) ==
  CASE f.type = "boolean" -> t.word \in Trues \cup Falses
    [] f.type = "integer" -> t.word \in Numbers
    [] OTHER -> t.word \in Matching

(* The value that Type.Parse finds, as a text.                              *)
Parse(f, t) ==
  IF f.type = "boolean" THEN Text(IF t.word \in Trues THEN "true" ELSE "false") ELSE Trim(t)

(* Wrong: an empty input is not skipped, so Field.Parse puts in the default.*)
WrongTrimmed(f, values) ==
  SelectSeq([i \in DOMAIN values |-> IF values[i].word = "" /\ f.default # Broken
                                  THEN DefaultText(f) ELSE Trim(values[i])],
            LAMBDA t : t # Empty)

(* parseValues: empty values are left out.                                  *)
Trimmed(f, values) ==
  LET ans[i \in 0 .. Len(values)] ==
        IF i = 0 THEN <<>>
        ELSE IF Trim(values[i]) = Empty THEN ans[i - 1]
        ELSE Append(ans[i - 1], Trim(values[i]))
  IN  ans[Len(values)]

(* Wrong: "required" is checked before empty values are left out.           *)
WrongRefused(f, posted) ==
  LET values == Collected(f, posted) IN
  \/ UsesDefault(f, posted) /\ f.default = Broken
  \/ f.options # <<>> /\ ~(ToSet(values) \subseteq OptionValues(f))
  \/ \E t \in ToSet(Trimmed(f, values)) : ~Fits(f, t)
  \/ f.required /\ values = <<>>

(* The field is refused: its default cannot be rendered, a value is not one *)
(* of the options or does not parse, or nothing is left of a required one.  *)
Refused(f, posted) ==
  LET values == Collected(f, posted) IN
  \/ UsesDefault(f, posted) /\ f.default = Broken
  \/ f.options # <<>> /\ ~(ToSet(values) \subseteq OptionValues(f))
  \/ \E t \in ToSet(Trimmed(f, values)) : ~Fits(f, t)
  \/ f.required /\ Trimmed(f, values) = <<>>

(* One value, none (no entry in the map), or the array of a multiple field. *)
Parsed(f, posted) ==
  LET values == Trimmed(f, Collected(f, posted))
      parsed == [i \in DOMAIN values |-> Parse(f, values[i])]
  IN  IF f.multiple \/ values = <<>> THEN parsed ELSE <<parsed[1]>>

-----------------------------------------------------------------------------
TypeOK ==
  /\ field \in Fields
  /\ page \in {"none", "form", "rejected", "failed", "result"}
  /\ input \in Inputs(field) \cup {<<>>}
  /\ sent # None => sent \in Seq(Texts)
  /\ stored # None => /\ ToSet(stored) \subseteq Texts
                      /\ ~field.multiple => Len(stored) <= 1

Init ==
  /\ field \in Fields
  /\ page = "none"
  /\ input = <<>>
  /\ sent = None
  /\ stored = None

(* The answer to a GET, or to a submission that was rejected.               *)
Render(kind, old) ==
  IF RenderFails(field, old)
  THEN page' = "failed" /\ input' = <<>>
  ELSE page' = kind /\ input' = Shown(field, old)

Open ==
  /\ Render("form", <<>>)
  /\ sent' = None /\ stored' = None
  /\ UNCHANGED field

Edit ==
  /\ page \in {"form", "rejected"} /\ ~field.disabled
  /\ input' \in Inputs(field)
  /\ page' = "form"
  /\ sent' = None
  /\ UNCHANGED <<field, stored>>

(* A disabled input is not sent.                                            *)
Sent == IF field.disabled THEN <<>> ELSE input

Accept(posted) ==
  /\ ~Refused(field, posted)
  /\ stored' = Parsed(field, posted)

Submit ==
  /\ page \in {"form", "rejected"}
  /\ Accept(Sent)
  /\ sent' = Sent
  /\ page' = "result" /\ input' = <<>>
  /\ UNCHANGED field

(* This field is refused, another one, or the captcha.                      *)
Reject ==
  /\ page \in {"form", "rejected"}
  /\ sent' = Sent
  /\ stored' = None
  /\ Render("rejected", Sent)
  /\ UNCHANGED field

(* A program posts to the form, whatever it likes, without a page.          *)
ApiPost ==
  /\ API
  /\ page = "none"
  /\ \E posted \in Posts : Accept(posted) /\ sent' = posted
  /\ UNCHANGED <<field, page, input>>

Next == Open \/ Edit \/ Submit \/ Reject \/ ApiPost

Spec == Init /\ [][Next]_vars

-----------------------------------------------------------------------------
(* What a set of texts says of the field: blank ones say nothing.           *)
Values(f, texts) == {Parse(f, t) : t \in {u \in texts : Trim(u) # Empty}}

(* Whatever was posted, by a page or a program, the storage gets trimmed    *)
(* values of the field's type, options only if there are any, at least one  *)
(* if the field is required, and the default if it is hidden or disabled    *)
(* ("ignored even if it was provided in POST request", docs/fields.md).     *)
DocumentedOnly ==
  stored # None =>
    /\ \A t \in ToSet(stored) : t # Empty /\ t = Trim(t) /\ Fits(field, t)
    /\ field.options # <<>> => ToSet(stored) \subseteq Values(field, ToSet(OnPage(field)))
    /\ field.required => stored # <<>>
    /\ ~Accessible(field) => ToSet(stored) = Values(field, {DefaultText(field)})

(* What was sent, by a page or a program, is what is stored: an input that  *)
(* was cleared stays empty in spite of the default, a multiple field keeps  *)
(* all that was sent and another one something of it.  The one exception is *)
(* a boolean of which nothing was sent: browsers do not tell an unchecked   *)
(* box from a missing one, and ParseForm takes the default ("corner case    *)
(* for checkbox"), whether the page showed the box checked or not.          *)
StoredAsEntered ==
  stored # None /\ Accessible(field) =>
    LET unchecked == field.type = "boolean" /\ sent = <<>>
        entered == Values(field, IF unchecked THEN {DefaultText(field)} ELSE ToSet(sent))
    IN  /\ ToSet(stored) \subseteq entered
        /\ entered # {} => stored # <<>>
        /\ field.multiple => entered \subseteq ToSet(stored)

(* The page shows the box checked without the user's doing.                 *)
CheckedByDefault(f) == Widget(f) = "checkbox" /\ DefaultText(f) = Text("true")

(* preRender: "if there is old value - keep it as default".  After a        *)
(* rejection the user finds the field as it was sent; only a box that is    *)
(* checked by default is checked again.                                     *)
ChoiceKept ==
  page = "rejected" /\ Accessible(field) =>
    \/ input = sent
    \/ CheckedByDefault(field) /\ input = <<Text("true")>>

(* A user who corrects another field of a rejected form, or the captcha,    *)
(* and sends this one again without looking at it, is not refused now if it *)
(* was all right before, and stores what he would have stored at once.      *)
SameIfSentAgain ==
  page = "rejected" /\ ~Refused(field, sent) =>
    /\ ~Refused(field, Sent)
    /\ Parsed(field, Sent) = Parsed(field, sent)

=============================================================================
