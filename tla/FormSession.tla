------------------------------- MODULE FormSession -------------------------------
(***************************************************************************)
(* The dialogue between one user's browser and the handler of one form     *)
(* (Serve and submitForm in internal/engine/form.go over internal/web).    *)
(*                                                                         *)
(* The server keeps nothing between two requests.  What the handler has to *)
(* remember travels with the user: the session (access code, time zone,    *)
(* "fresh" flag) as hidden inputs of each page, and the XSRF token both in *)
(* the page and in a cookie that all tabs share and every rendered form    *)
(* replaces.  A request and its response take time: other tabs go on, the  *)
(* response may be lost, the cookie may expire.                            *)
(*                                                                         *)
(* A response is computed in one step: the handler's result depends on the *)
(* request alone.  Text is kept only as "which value, escaped how often".  *)
(***************************************************************************)
EXTENDS Naturals, FiniteSets

CONSTANTS
  Tabs,       (* tabs of the browser                                        *)
  Codes,      (* the form's access codes; {} when it is open to everyone    *)
  Typed,      (* what the user may type as an access code                   *)
  Zone,       (* the time zone that the browser's script reports            *)
  Safe,       (* values that url.QueryEscape leaves as they are             *)
  MaxLayers,  (* escape layers that are told apart                          *)
  Captcha,    (* a captcha is configured                                    *)
  XSRF,       (* XSRF tokens are checked (--http.disable-xsrf is not given) *)
  Policy,     (* what the form's policy may say of the user's credentials   *)
  Expiry,     (* the cookie may expire while pages are open                 *)
  None

ASSUME MaxLayersAssumption == MaxLayers \in Nat \ {0, 1}
ASSUME SwitchAssumption == ({Captcha, XSRF, Expiry} \cup Policy) \subseteq BOOLEAN
ASSUME TabsAssumption == IsFiniteSet(Tabs)

VARIABLES
  cookie,     (* the _xsrf cookie of the browser                            *)
  tab,        (* the page each tab shows                                    *)
  req,        (* the request a tab has sent                                 *)
  reply,      (* the response on its way to a tab                           *)
  rows        (* what was stored, and from which kind of request            *)

vars == <<cookie, tab, req, reply, rows>>

-----------------------------------------------------------------------------
(* Values: v escaped n times.                                               *)

Value == [v : Codes \cup Typed \cup {Zone}, n : 0..MaxLayers]

Plain(v) == [v |-> v, n |-> 0]

(* EmbedSession escapes every value when it writes the page; parseSession   *)
(* takes what comes back as it is.                                          *)
Embed(x) == IF x = None \/ x.v \in Safe \/ x.n = MaxLayers
            THEN x
            ELSE [x EXCEPT !.n = @ + 1]

HasCodeAccess == Codes # {}

ValidCode(x) == x \in {Plain(c) : c \in Codes}

(* Wrong: the zone is used as the request brings it.                        *)
WrongZoneUsed(x) == IF x # None /\ x.n = 0 THEN "client" ELSE "server"

(* submitForm undoes one escaping; any other name is unknown to             *)
(* LoadLocation and the server's own zone is used.                          *)
ZoneUsed(x) == IF x # None /\ x.n <= 1 THEN "client" ELSE "server"

-----------------------------------------------------------------------------
(* Tokens are random; one that is still in use somewhere is never drawn     *)
(* again.                                                                   *)
Tokens == 1..(2 * Cardinality(Tabs) + 2)

TokensInUse ==
  {cookie} \cup {tab[t].token : t \in Tabs}
           \cup {reply[t].token : t \in {u \in Tabs : reply[u] # None}}

(* Wrong: the browser's token is used again; tokens are counted.            *)
WrongNewToken == IF cookie # 0 THEN cookie ELSE 1
WrongNewTokenCounter == cookie + 1

NewToken == CHOOSE n \in Tokens : n \notin TokensInUse

Pages == [kind : {"blank", "code", "form", "result", "forbidden"},
          token : Tokens \cup {0},
          code : Value \cup {None}, tz : Value \cup {None}, carried : 0..MaxLayers,
          fresh : BOOLEAN]

(* A page without a form of its own: nothing to submit.                     *)
Bare(kind) == [kind |-> kind, token |-> 0, code |-> None, tz |-> None, carried |-> 0,
               fresh |-> FALSE]

(* xsrf: the cookie and the page's token that the request brings are equal. *)
(* carried, here and above, is history: how many pages the zone has gone    *)
(* through since the browser's script reported it.                          *)
Requests == [post : BOOLEAN, from : {"url", "code", "form", "result"}, xsrf : BOOLEAN,
             code : Value \cup {None}, tz : Value \cup {None}, carried : 0..MaxLayers,
             fresh : BOOLEAN,
             typed : Value \cup {None}, captcha : BOOLEAN]

Rows == [from : {"url", "code", "form", "result"}, carried : 0..MaxLayers,
         zone : {"client", "server"}]

ASSUME NoneAssumption == None \notin Value \cup Pages \cup Requests

TypeOK ==
  /\ cookie \in Tokens \cup {0}
  /\ tab \in [Tabs -> Pages]
  /\ req \in [Tabs -> Requests \cup {None}]
  /\ reply \in [Tabs -> Pages \cup {None}]
  /\ rows \subseteq Rows

Init ==
  /\ cookie = 0
  /\ tab = [t \in Tabs |-> Bare("blank")]
  /\ req = [t \in Tabs |-> None]
  /\ reply = [t \in Tabs |-> None]
  /\ rows = {}

-----------------------------------------------------------------------------
(* The browser.                                                             *)

Idle(t) == req[t] = None /\ reply[t] = None

Send(t, r) ==
  /\ Idle(t)
  /\ req' = [req EXCEPT ![t] = r]
  /\ UNCHANGED <<cookie, tab, reply, rows>>

(* The form's address is opened, from the list of forms, by a link of the   *)
(* page or by reloading it.                                                 *)
Open(t) ==
  Send(t, [post |-> FALSE, from |-> "url", xsrf |-> FALSE, code |-> None, tz |-> None,
           carried |-> 0, fresh |-> FALSE, typed |-> None, captcha |-> FALSE])

(* The page's form is posted: its hidden inputs, and what the user typed.   *)
(* Of two __tz inputs the first one counts, so the script's value is only   *)
(* used when the session brought none.                                      *)
Post(t, typed, captcha) ==
  LET p == tab[t] IN
  /\ p.token # 0
  /\ Send(t, [post |-> TRUE, from |-> p.kind, xsrf |-> cookie = p.token,
              code |-> p.code, fresh |-> p.fresh,
              tz |-> IF p.kind = "form" /\ p.tz = None THEN Plain(Zone) ELSE p.tz,
              carried |-> p.carried,
              typed |-> IF p.kind = "code" THEN Plain(typed) ELSE None,
              captcha |-> captcha])

Submit(t) == \E c \in Typed, solved \in (IF Captcha THEN BOOLEAN ELSE {FALSE}) : Post(t, c, solved)

ReplyArrives(t) ==
  /\ reply[t] # None
  /\ tab' = [tab EXCEPT ![t] = reply[t]]
  /\ cookie' = IF reply[t].token # 0 THEN reply[t].token ELSE cookie
  /\ reply' = [reply EXCEPT ![t] = None]
  /\ UNCHANGED <<req, rows>>

(* The user stops waiting, clicks twice or loses the connection: the page   *)
(* stays as it is and can be submitted again, but the cookie may have       *)
(* arrived before the rest of the response was lost.                        *)
ReplyLost(t) ==
  /\ reply[t] # None
  /\ cookie' \in {cookie} \cup ({reply[t].token} \ {0})
  /\ reply' = [reply EXCEPT ![t] = None]
  /\ UNCHANGED <<tab, req, rows>>

CookieExpires ==
  /\ Expiry
  /\ cookie # 0
  /\ cookie' = 0
  /\ UNCHANGED <<tab, req, reply, rows>>

-----------------------------------------------------------------------------
(* The checks of Serve, in the code's order.                                *)

XsrfOK(r) == XSRF /\ r.post => r.xsrf

(* validateCode: a code of the session comes before the one that was typed. *)
CodeUsed(r) == IF r.code # None THEN r.code ELSE r.typed

(* Wrong: the request that brings the code goes on to submit the form.      *)
WrongFresh(r) == r.fresh

(* A typed code opens the form; the same request never submits it.          *)
Fresh(r) == r.fresh \/ (HasCodeAccess /\ r.code = None)

Admitted(r) == XsrfOK(r) /\ TRUE \in Policy

CodeOK(r) == ~HasCodeAccess \/ (r.post /\ ValidCode(CodeUsed(r)))

(* The request comes to the point where the form is processed.              *)
Processed(r) == Admitted(r) /\ CodeOK(r) /\ r.post /\ ~Fresh(r)

-----------------------------------------------------------------------------
(* The handler: one action per way Serve and submitForm end.                *)

Respond(t, page) ==
  /\ reply' = [reply EXCEPT ![t] = page]
  /\ req' = [req EXCEPT ![t] = None]
  /\ UNCHANGED <<cookie, tab>>

(* A zone that goes through one more page.                                  *)
Carry(r) == IF r.tz = None \/ r.carried = MaxLayers THEN r.carried ELSE r.carried + 1

(* A page with a form: a new token and the session, escaped.                *)
WithForm(kind, code, r, fresh) ==
  [kind |-> kind, token |-> NewToken, code |-> Embed(code), tz |-> Embed(r.tz),
   carried |-> Carry(r), fresh |-> fresh]

(* Wrong: the accepted code is not saved in the session.                    *)
WrongSessionCode(r) == r.code

SessionCode(r) == IF HasCodeAccess THEN CodeUsed(r) ELSE r.code

(* Wrong: the "fresh" flag is not consumed.                                 *)
WrongFormPage(r) == WithForm("form", SessionCode(r), r, TRUE)

FormPage(r) == WithForm("form", SessionCode(r), r, FALSE)

(* Success and failure pages have a form ("send one more time") only when   *)
(* access codes are used.                                                   *)
ResultPage(r) == IF HasCodeAccess THEN WithForm("result", SessionCode(r), r, TRUE)
                                  ELSE Bare("result")

Forbid(t) ==
  /\ req[t] # None
  /\ ~XsrfOK(req[t]) \/ FALSE \in Policy
  /\ Respond(t, Bare("forbidden"))
  /\ UNCHANGED rows

(* A GET of a protected form: the session has not been read.                *)
AskCode(t) ==
  /\ req[t] # None
  /\ Admitted(req[t])
  /\ HasCodeAccess /\ ~req[t].post
  /\ Respond(t, WithForm("code", None, req[t], FALSE))
  /\ UNCHANGED rows

RejectCode(t) ==
  LET r == req[t] IN
  /\ r # None
  /\ Admitted(r)
  /\ r.post /\ ~CodeOK(r)
  /\ Respond(t, WithForm("code", r.code, r, Fresh(r)))
  /\ UNCHANGED rows

ShowForm(t) ==
  LET r == req[t] IN
  /\ r # None
  /\ Admitted(r) /\ CodeOK(r)
  /\ Fresh(r) \/ ~r.post
  /\ Respond(t, FormPage(r))
  /\ UNCHANGED rows

(* A wrong captcha, or field errors found by ParseForm.                     *)
RejectForm(t) ==
  LET r == req[t] IN
  /\ r # None
  /\ Processed(r)
  /\ Respond(t, FormPage(r))
  /\ UNCHANGED rows

Accepted(r) == Processed(r) /\ (Captcha => r.captcha)

Row(r) == [from |-> r.from, carried |-> r.carried, zone |-> ZoneUsed(r.tz)]

(* An error of the storage does not always mean that nothing was stored:    *)
(* the database may have inserted the row when the answer is lost.          *)
StoreFails(t) ==
  LET r == req[t] IN
  /\ r # None
  /\ Accepted(r)
  /\ rows' \in {rows, rows \cup {Row(r)}}
  /\ Respond(t, ResultPage(r))

Store(t) ==
  LET r == req[t] IN
  /\ r # None
  /\ Accepted(r)
  /\ rows' = rows \cup {Row(r)}
  /\ Respond(t, ResultPage(r))

Serve(t) ==
  \/ Forbid(t)
  \/ AskCode(t)
  \/ RejectCode(t)
  \/ ShowForm(t)
  \/ RejectForm(t)
  \/ StoreFails(t)
  \/ Store(t)

Next ==
  \/ \E t \in Tabs : \/ Open(t)
                     \/ Submit(t)
                     \/ Serve(t)
                     \/ ReplyArrives(t)
                     \/ ReplyLost(t)
  \/ CookieExpires

Spec == Init /\ [][Next]_vars

-----------------------------------------------------------------------------
(* Only the form itself submits the form.  The page that asks for the code  *)
(* and the "send one more time" button post to the same address with the    *)
(* same token, and never store a row.                                       *)
OnlyFormsSubmit == \A r \in rows : r.from = "form"

(* "save code in order to re-use": whoever was let in stays in.  Every form *)
(* and result page of a protected form carries a code that will be accepted *)
(* again.                                                                   *)
CodeCarried ==
  \A t \in Tabs :
    HasCodeAccess /\ tab[t].kind \in {"form", "result"} => ValidCode(tab[t].code)

(* The dates of a row are read in the user's time zone for as long as the   *)
(* zone has gone through no more than one page since the browser reported   *)
(* it, a rejected form as well as "send one more time": submitForm undoes   *)
(* one escaping of a name such as Europe/Berlin.  After a second page they  *)
(* are silently read in the server's zone, unless the name is one that      *)
(* escaping leaves alone.                                                   *)
ZoneKept == \A r \in rows : r.zone = "client" <=> (Zone \in Safe \/ r.carried <= 1)

(* Of all the pages the user has open, at most one can be submitted: the    *)
(* one whose response came last.  A page that was overtaken, in another tab *)
(* or by a response that was lost, is refused rather than stored.           *)
OneLiveForm ==
  \A t, u \in Tabs : tab[t].token = cookie /\ tab[u].token = cookie /\ cookie # 0 => t = u

(* What was entered into a form is not thrown away: a post of the form page *)
(* is never taken for a first visit, whatever pages came before it; that    *)
(* would answer it with the empty form.                                     *)
InputCounts ==
  \A t \in Tabs : req[t] # None => (req[t].from = "form" => ~Fresh(req[t]))

=============================================================================
