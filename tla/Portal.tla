---------------------------------- MODULE Portal ----------------------------------
(***************************************************************************)
(* What is around the forms: the start of the process with the definitions *)
(* on disk (FormsFromFS, engine.New, run), the routes and the listing      *)
(* (internal/engine/server.go), the policies (Form.IsAllowed), and the     *)
(* login with its session (createAuth and the middlewares of run), used by *)
(* one browser with several tabs.                                          *)
(*                                                                         *)
(* The session manager loads the session before a handler and writes it as *)
(* a whole after it, if the handler changed it: the requests of two tabs   *)
(* may overwrite each other's changes.  The flow of the login belongs to   *)
(* the library oidc-login; here is what it asks of this program.           *)
(*                                                                         *)
(* A path is the sequence of its segments; so is the name of a form, which *)
(* may come from a file in a sub-directory.                                *)
(***************************************************************************)
EXTENDS Naturals, Sequences, SequencesExt

CONSTANTS
  Tabs,
  Users,
  Segments,   (* what paths are made of                                     *)
  Configs,    (* what --configs may contain: sequences of definitions       *)
  MaxDepth,   (* bound on the length of the paths that links lead to        *)
  NoPolicy,   (* the policy of a definition that has none                   *)
  None

Path == Seq(Segments)

Definition == [file : Path, name : Path, valid : BOOLEAN,
               policy : {NoPolicy} \cup SUBSET Users]

ASSUME SegmentsAssumption == "forms" \in Segments

ASSUME ConfigsAssumption == \A dir \in Configs : dir \in Seq(Definition)

VARIABLES
  flags,      (* --oidc.enable, --oidc.redis-url, --disable-listing         *)
  loaded,     (* what the running process has loaded, None without one      *)
  session,    (* what the session store has for the browser's cookie        *)
  phase,      (* what each tab is waiting for                               *)
  req,        (* its request                                                *)
  snap,       (* the session as it was loaded for that request              *)
  who,        (* the account with which the user logged in at the provider  *)
  page,       (* the page the tab shows                                     *)
  wish,       (* the address it asked for before it was sent to the login   *)
  alone       (* since then, no other tab was on its way through the login  *)

serverVars == <<flags, loaded>>
historyVars == <<wish, alone>>
vars == <<serverVars, session, phase, req, snap, who, page, historyVars>>

Root == << >>

(* The names the loader gives; the policy is a verdict for each user, where *)
(* an error and a result that is no boolean count as a refusal.             *)
Name(def) == IF def.name = << >> THEN def.file ELSE def.name

Forms(dir) == {[name |-> Name(dir[i]), policy |-> dir[i].policy] : i \in DOMAIN dir}

Accepted(dir) ==
  /\ \A i \in DOMAIN dir : dir[i].valid
  /\ \A i, j \in DOMAIN dir : i # j => Name(dir[i]) # Name(dir[j])

Address(name) == <<"forms">> \o name

(* Without OIDC there are no credentials, and nothing is refused.           *)
IsAllowed(f, user) == f.policy = NoPolicy \/ user = None \/ user \in f.policy

(* A form is mounted at its address and serves everything below; the        *)
(* longest address wins.                                                    *)
Mounted(path) == {f \in Forms(loaded) : IsPrefix(Address(f.name), path)}

(* Wrong: the shortest one.                                                 *)
WrongRoute(path) ==
  CHOOSE f \in Mounted(path) : \A g \in Mounted(path) : Len(f.name) <= Len(g.name)

Route(path) ==
  CHOOSE f \in Mounted(path) : \A g \in Mounted(path) : Len(g.name) <= Len(f.name)

NoSession == [user |-> None, target |-> Root]
NoRequest == [path |-> Root, post |-> FALSE, aim |-> None]
Blank == [kind |-> "blank", at |-> Root, form |-> None, user |-> None, from |-> None, links |-> {}]
Failure == [Blank EXCEPT !.kind = "error"]

Addresses == {Root} \cup {Address(f.name) : f \in UNION {Forms(dir) : dir \in Configs}}

LoginPhases == {"login", "returning", "callback"}
InFlight == {"sent", "loaded", "returning", "callback"}

SessionType == [user : Users \cup {None}, target : Path]

RequestType == [path : Path, post : BOOLEAN, aim : {None} \cup Path]

PageType ==
  [kind : {"blank", "list", "form", "result", "forbidden", "missing", "error"},
   at : Path, form : {None} \cup Path, user : Users \cup {None},
   from : Configs \cup {None}, links : SUBSET Path]

FlagsType == [oidc : BOOLEAN, shared : BOOLEAN, listing : BOOLEAN]

TypeOK ==
  /\ flags \in FlagsType
  /\ loaded \in Configs \cup {None}
  /\ session \in SessionType
  /\ phase \in [Tabs -> {"idle"} \cup InFlight \cup LoginPhases]
  /\ req \in [Tabs -> RequestType]
  /\ snap \in [Tabs -> SessionType]
  /\ who \in [Tabs -> Users \cup {None}]
  /\ page \in [Tabs -> PageType]
  /\ wish \in [Tabs -> Path]
  /\ alone \in [Tabs -> BOOLEAN]

Init ==
  /\ flags \in {f \in FlagsType : f.shared => f.oidc}
  /\ loaded = None
  /\ session = NoSession
  /\ phase = [t \in Tabs |-> "idle"]
  /\ req = [t \in Tabs |-> NoRequest]
  /\ snap = [t \in Tabs |-> NoSession]
  /\ who = [t \in Tabs |-> None]
  /\ page = [t \in Tabs |-> Blank]
  /\ wish = [t \in Tabs |-> Root]
  /\ alone = [t \in Tabs |-> FALSE]

-----------------------------------------------------------------------------
(* The process.                                                             *)

(* run loads the definitions as they are on disk by then, before anything   *)
(* is served; with a file that cannot be read, or with a name that is used  *)
(* twice, it returns.                                                       *)
Start(dir) ==
  /\ loaded = None
  /\ Accepted(dir)
  /\ loaded' = dir
  /\ UNCHANGED <<flags, session, phase, req, snap, who, page, historyVars>>

Forget == session' = NoSession /\ alone' = [t \in Tabs |-> FALSE]

(* Requests under way are lost, and so are sessions in memory.              *)
Stop ==
  /\ loaded # None
  /\ loaded' = None
  /\ IF flags.shared THEN UNCHANGED <<session, alone>> ELSE Forget
  /\ phase' = [t \in Tabs |-> IF phase[t] \in InFlight THEN "idle" ELSE phase[t]]
  /\ page' = [t \in Tabs |-> IF phase[t] \in InFlight THEN Failure ELSE page[t]]
  /\ req' = [t \in Tabs |-> IF phase[t] \in InFlight THEN NoRequest ELSE req[t]]
  /\ snap' = [t \in Tabs |-> NoSession]
  /\ UNCHANGED <<flags, wish>>
  /\ who' = [t \in Tabs |-> None]

SessionExpires ==
  /\ session # NoSession
  /\ Forget
  /\ UNCHANGED <<serverVars, phase, req, snap, who, page, wish>>

-----------------------------------------------------------------------------
(* The browser.                                                             *)

Send(t, r) ==
  /\ phase[t] = "idle"
  /\ phase' = [phase EXCEPT ![t] = "sent"]
  /\ req' = [req EXCEPT ![t] = r]
  /\ UNCHANGED <<serverVars, session, snap, who, historyVars>>

Open(t) ==
  /\ \E p \in Addresses : Send(t, [NoRequest EXCEPT !.path = p])
  /\ page' = [page EXCEPT ![t] = Blank]

(* The links of the views are relative to the directory of their page.      *)
Directory(path) == IF path = Root THEN Root ELSE Front(path)

Href(kind, name) == IF kind = "list" THEN Address(name) ELSE name

Follow(t) ==
  \E n \in page[t].links :
    LET path == Directory(page[t].at) \o Href(page[t].kind, n)
    IN  /\ Len(path) <= MaxDepth
        /\ Send(t, [path |-> path, post |-> FALSE, aim |-> n])
        /\ UNCHANGED page

Submit(t) ==
  /\ page[t].kind = "form"
  /\ Send(t, [path |-> page[t].at, post |-> TRUE, aim |-> None])
  /\ UNCHANGED page

(* The user logs in at the provider, which sends the browser back, or not.  *)
LogIn(t) ==
  /\ phase[t] = "login"
  /\ who' \in {[who EXCEPT ![t] = u] : u \in Users}
  /\ phase' = [phase EXCEPT ![t] = "returning"]
  /\ UNCHANGED <<serverVars, session, req, snap, page, historyVars>>

(* The tab shows a page, and its request or its login is over.              *)
Show(t, p) ==
  /\ phase' = [phase EXCEPT ![t] = "idle"]
  /\ page' = [page EXCEPT ![t] = p]
  /\ req' = [req EXCEPT ![t] = NoRequest]
  /\ snap' = [snap EXCEPT ![t] = NoSession]
  /\ who' = [who EXCEPT ![t] = None]
  /\ wish' = [wish EXCEPT ![t] = Root]
  /\ alone' = [alone EXCEPT ![t] = FALSE]

GiveUp(t) ==
  /\ phase[t] = "login"
  /\ Show(t, Blank)
  /\ UNCHANGED <<serverVars, session>>

-----------------------------------------------------------------------------
(* The server.                                                              *)

(* LoadAndSave: the session is read before the handler runs.                *)
Load(t) ==
  /\ loaded # None
  /\ phase[t] \in {"sent", "returning"}
  /\ phase' = [phase EXCEPT ![t] = IF @ = "sent" THEN "loaded" ELSE "callback"]
  /\ snap' = [snap EXCEPT ![t] = IF flags.oidc THEN session ELSE NoSession]
  /\ UNCHANGED <<serverVars, session, req, who, page, historyVars>>

Unreachable(t) ==
  /\ loaded = None
  /\ phase[t] \in {"sent", "returning"}
  /\ Show(t, Failure)
  /\ UNCHANGED <<serverVars, session>>

(* Wrong: an address that is there already is kept.                         *)
WrongBeforeAuth(s, path) == [s EXCEPT !.target = IF @ = Root THEN path ELSE @]

BeforeAuth(s, path) == [s EXCEPT !.target = path]

(* The library finds no token: the address is kept in the session, and the  *)
(* tab is sent to the provider.                                             *)
AskLogin(t) ==
  /\ phase[t] = "loaded"
  /\ flags.oidc
  /\ snap[t].user = None
  /\ session' = BeforeAuth(snap[t], req[t].path)
  /\ phase' = [phase EXCEPT ![t] = "login"]
  /\ wish' = [wish EXCEPT ![t] = req[t].path]
  /\ alone' = [o \in Tabs |-> o = t /\ \A p \in Tabs \ {t} : phase[p] \notin LoginPhases]
  /\ snap' = [snap EXCEPT ![t] = NoSession]
  /\ req' = [req EXCEPT ![t] = NoRequest]
  /\ page' = [page EXCEPT ![t] = Blank]
  /\ UNCHANGED <<serverVars, who>>

Listed(user) == {f \in Forms(loaded) : IsAllowed(f, user)}

(* The page at a path.  The other ways out of Serve are in FormSession.     *)
Page(kind, r, form, user, links) ==
  [kind |-> kind, at |-> r.path, form |-> form, user |-> user, from |-> loaded, links |-> links]

FormPage(r, f, user) ==
  IF ~IsAllowed(f, user) THEN Page("forbidden", r, f.name, user, {f.name})
  ELSE IF r.post THEN Page("result", r, f.name, user, {f.name})
  ELSE Page("form", r, f.name, user, {})

PageAt(r, user) ==
  IF r.path = Root /\ flags.listing THEN Page("list", r, None, user, {f.name : f \in Listed(user)})
  ELSE IF Mounted(r.path) = {} THEN [Blank EXCEPT !.kind = "missing"]
  ELSE FormPage(r, Route(r.path), user)

(* Wrong: the routes are outside the group that asks for the login.         *)
WrongAnswer(t) ==
  /\ phase[t] = "loaded"
  /\ Show(t, PageAt(req[t], snap[t].user))
  /\ UNCHANGED <<serverVars, session>>

(* The handler changes nothing in the session, so nothing is written.       *)
Answer(t) ==
  /\ phase[t] = "loaded"
  /\ flags.oidc => snap[t].user # None
  /\ Show(t, PageAt(req[t], snap[t].user))
  /\ UNCHANGED <<serverVars, session>>

(* PostAuth takes the address out of the session; without one the library   *)
(* goes to the root.                                                        *)
LoggedIn(t) ==
  /\ phase[t] = "callback"
  /\ session' = [user |-> who[t], target |-> Root]
  /\ phase' = [phase EXCEPT ![t] = "sent"]
  /\ req' = [req EXCEPT ![t] = [NoRequest EXCEPT !.path = snap[t].target]]
  /\ snap' = [snap EXCEPT ![t] = NoSession]
  /\ who' = [who EXCEPT ![t] = None]
  /\ wish' = [wish EXCEPT ![t] = Root]
  /\ alone' = [alone EXCEPT ![t] = FALSE]
  /\ UNCHANGED <<serverVars, page>>

(* The exchange with the provider fails.                                    *)
CallbackFails(t) ==
  /\ phase[t] = "callback"
  /\ Show(t, Failure)
  /\ UNCHANGED <<serverVars, session>>

-----------------------------------------------------------------------------
Browse(t) == Open(t) \/ Follow(t) \/ Submit(t) \/ LogIn(t) \/ GiveUp(t)

Handle(t) == Load(t) \/ Unreachable(t) \/ AskLogin(t) \/ Answer(t) \/ LoggedIn(t) \/ CallbackFails(t)

Next ==
  \/ \E dir \in Configs : Start(dir)
  \/ Stop
  \/ SessionExpires
  \/ \E t \in Tabs : Browse(t) \/ Handle(t)

Spec == Init /\ [][Next]_vars

-----------------------------------------------------------------------------
(* With OIDC, "users will not be allow access the form" unless its policy   *)
(* admits them, and "users will list of only allowed forms"                 *)
(* (docs/authorization.md): whatever expires, restarts or is overwritten by *)
(* another tab, nobody without a login sees a page, and a page of a form or *)
(* a link to it is only shown to a user whom the definitions admit.         *)
OnlyAdmitted ==
  flags.oidc =>
    \A t \in Tabs : page[t].kind \in {"list", "form", "result"} =>
      /\ page[t].user \in Users
      /\ \A f \in Forms(page[t].from) :
           f.name \in (IF page[t].kind = "list" THEN page[t].links ELSE {page[t].form}) =>
             f.policy = NoPolicy \/ page[t].user \in f.policy

(* What is listed can be opened, and a result can be followed by another    *)
(* submission: as long as the same user is logged in and the same           *)
(* definitions are loaded, the links of these pages lead to their form.  Of *)
(* the links of a result, only for names without a directory and from the   *)
(* form's own address: a form serves what is below it too, and from there   *)
(* the link leads further down.                                             *)
LinksOpen ==
  [][\A t \in Tabs :
       /\ phase[t] = "loaded" /\ phase'[t] = "idle" /\ loaded' = loaded
       /\ req[t].aim # None
       /\ \/ page[t].kind = "list"
          \/ /\ page[t].kind = "result"
             /\ Len(req[t].aim) = 1
             /\ page[t].at = Address(req[t].aim)
       /\ page[t].user = snap[t].user
       /\ page[t].from = loaded
       => page'[t].kind = "form" /\ page'[t].form = req[t].aim]_vars

(* The login brings the user back to the address that was asked for (BeforeAuth *)
(* and PostAuth in main.go), unless another tab went through the login at   *)
(* the same time or the session was lost.                                   *)
LandsWhereAsked ==
  [][\A t \in Tabs : phase[t] = "callback" /\ phase'[t] = "sent" /\ alone[t] =>
       req'[t].path = wish[t]]_vars

=============================================================================
