------------------------------ MODULE PortalProofs ------------------------------
(***************************************************************************)
(* Proofs about Portal, for any tabs, users and directories of             *)
(* definitions.                                                            *)
(***************************************************************************)
EXTENDS Portal, SequenceTheorems, WellFoundedInduction, TLAPS

-----------------------------------------------------------------------------
(* The forms of a directory.                                                *)

LEMMA FormsType ==
  ASSUME NEW dir \in Configs
  PROVE  Forms(dir) \subseteq [name : Path, policy : {NoPolicy} \cup SUBSET Users]
<1>1. \A i \in DOMAIN dir : dir[i] \in Definition
  BY ConfigsAssumption
<1>2. \A i \in DOMAIN dir : Name(dir[i]) \in Path
  BY <1>1 DEF Name, Definition
<1>3. QED
  BY <1>1, <1>2 DEF Forms, Definition

(* In a directory that is accepted, a name is that of one form.             *)
LEMMA OneFormPerName ==
  ASSUME NEW dir, Accepted(dir), NEW f \in Forms(dir), NEW g \in Forms(dir), f.name = g.name
  PROVE  f = g
  BY DEF Accepted, Forms

LEMMA AddressType ==
  ASSUME NEW name \in Path
  PROVE  Address(name) \in Path /\ Len(Address(name)) = Len(name) + 1
<1>1. <<"forms">> \in Seq(Segments) /\ Len(<<"forms">>) = 1
  BY SegmentsAssumption
<1>2. QED
  BY <1>1, ConcatProperties DEF Address, Path

LEMMA AddressesType == Addresses \subseteq Path
<1>1. ASSUME NEW dir \in Configs, NEW f \in Forms(dir) PROVE Address(f.name) \in Path
  BY <1>1, FormsType, AddressType
<1>2. Root \in Path
  BY EmptySeq DEF Root, Path
<1>3. QED
  BY <1>1, <1>2 DEF Addresses

(* Where something is mounted, the longest address exists: the rest of the  *)
(* path is a natural number, and one of the rests is the least.             *)
LEMMA RouteMounted ==
  ASSUME loaded \in Configs, NEW path \in Path, Mounted(path) # {}
  PROVE  /\ Route(path) \in Mounted(path)
         /\ \A g \in Mounted(path) : Len(g.name) <= Len(Route(path).name)
<1> DEFINE Rest(f) == Len(path) - Len(f.name)
           Rests == {Rest(f) : f \in Mounted(path)}
<1>1. \A f \in Mounted(path) : Len(f.name) \in Nat /\ Rest(f) \in Nat
  <2>1. ASSUME NEW f \in Mounted(path) PROVE Len(f.name) \in Nat /\ Len(f.name) + 1 <= Len(path)
    <3>1. f.name \in Path
      BY <2>1, FormsType DEF Mounted
    <3>2. Len(Address(f.name)) = Len(f.name) + 1 /\ Len(f.name) \in Nat
      BY <3>1, AddressType, LenProperties
    <3>3. Len(Address(f.name)) <= Len(path)
      BY <2>1 DEF Mounted, IsPrefix
    <3>4. QED
      BY <3>2, <3>3
  <2>2. Len(path) \in Nat
    OBVIOUS
  <2>3. QED
    BY <2>1, <2>2
<1>2. PICK n \in Rests : \A m \in Rests : ~ (<<m, n>> \in OpToRel(<, Nat))
  <2>1. Rests \subseteq Nat /\ Rests # {}
    BY <1>1
  <2>2. QED
    BY <2>1, NatLessThanWellFounded, WFMin
<1>3. PICK f \in Mounted(path) : n = Rest(f)
  OBVIOUS
<1>4. ASSUME NEW g \in Mounted(path) PROVE Len(g.name) <= Len(f.name)
  <2>1. ~ (Rest(g) < Rest(f))
    BY <1>1, <1>2, <1>3, <1>4 DEF OpToRel
  <2>2. QED
    BY <1>1, <1>4, <2>1
<1>5. QED
  BY <1>4 DEF Route

-----------------------------------------------------------------------------
(* What is served was accepted, and it is served by a process that runs.    *)
ServedInv ==
  /\ loaded # None => Accepted(loaded)
  /\ \A t \in Tabs : phase[t] \in {"loaded", "callback"} => loaded # None

(* A tab that is alone on its way through the login finds its address where *)
(* it left it: in the session, and then in what was loaded from it.         *)
LoginInv ==
  \A t \in Tabs : alone[t] /\ phase[t] \in LoginPhases =>
    /\ flags.oidc
    /\ \A p \in Tabs \ {t} : phase[p] \notin LoginPhases
    /\ IF phase[t] = "callback" THEN snap[t].target = wish[t] ELSE session.target = wish[t]

IInv == TypeOK /\ ServedInv /\ LoginInv /\ OnlyAdmitted

(* What OnlyAdmitted says of one page.                                      *)
Admitted(p) ==
  p.kind \in {"list", "form", "result"} =>
    /\ p.user \in Users
    /\ \A f \in Forms(p.from) :
         f.name \in (IF p.kind = "list" THEN p.links ELSE {p.form}) =>
           f.policy = NoPolicy \/ p.user \in f.policy

LEMMA SomeTypes ==
  /\ NoSession \in SessionType
  /\ NoRequest \in RequestType
  /\ Blank \in PageType /\ Failure \in PageType
  /\ Blank.kind = "blank" /\ Failure.kind = "error"
  /\ Root \in Path
<1>1. Root \in Path
  BY EmptySeq DEF Root, Path
<1>2. NoSession \in SessionType
  BY <1>1 DEF NoSession, SessionType
<1>3. NoRequest \in RequestType
  BY <1>1 DEF NoRequest, RequestType
<1>4. Blank \in PageType
  BY <1>1 DEF Blank, PageType
<1>5. QED
  BY <1>1, <1>2, <1>3, <1>4 DEF Blank, Failure, PageType

LEMMA InitIInv == Init => IInv
<1> SUFFICES ASSUME Init PROVE IInv
  OBVIOUS
<1>1. TypeOK
  BY SomeTypes DEF Init, TypeOK, FlagsType
<1>2. ServedInv /\ LoginInv
  BY DEF Init, ServedInv, LoginInv
<1>3. OnlyAdmitted
  BY SomeTypes DEF Init, OnlyAdmitted
<1>4. QED
  BY <1>1, <1>2, <1>3 DEF IInv

-----------------------------------------------------------------------------
(* The page of a handler: with credentials, only what the policies admit.   *)
LEMMA PageAtAdmits ==
  ASSUME loaded \in Configs, Accepted(loaded), NEW r \in RequestType,
         NEW user \in Users \cup {None}
  PROVE  /\ PageAt(r, user) \in PageType
         /\ user # None => Admitted(PageAt(r, user))
<1> DEFINE f == Route(r.path)
           P == PageAt(r, user)
<1>0. r.path \in Path
  BY DEF RequestType
<1>1. CASE r.path = Root /\ flags.listing
  <2> DEFINE links == {g.name : g \in Listed(user)}
  <2>1. P = Page("list", r, None, user, links)
    BY <1>1 DEF PageAt
  <2>2. links \in SUBSET Path
    BY FormsType DEF Listed
  <2>3. P \in PageType
    BY <1>0, <2>1, <2>2 DEF Page, PageType
  <2>4. ASSUME user # None, NEW g \in Forms(loaded), g.name \in links
        PROVE  g.policy = NoPolicy \/ user \in g.policy
    BY <2>4, OneFormPerName DEF Listed, IsAllowed
  <2>5. QED
    BY <2>1, <2>3, <2>4 DEF Page, Admitted
<1>2. CASE ~ (r.path = Root /\ flags.listing) /\ Mounted(r.path) = {}
  BY <1>2, SomeTypes DEF PageAt, Blank, PageType, Admitted
<1>3. CASE ~ (r.path = Root /\ flags.listing) /\ Mounted(r.path) # {}
  <2>1. f \in Forms(loaded) /\ f.name \in Path
    BY <1>0, <1>3, RouteMounted, FormsType DEF Mounted
  <2>2. P = FormPage(r, f, user)
    BY <1>3 DEF PageAt
  <2>3. P \in PageType
    BY <1>0, <2>1, <2>2 DEF FormPage, Page, PageType
  <2>4. ASSUME user # None, P.kind \in {"list", "form", "result"},
               NEW g \in Forms(loaded), P.form = g.name
        PROVE  g.policy = NoPolicy \/ user \in g.policy
    <3>1. IsAllowed(f, user) /\ P.form = f.name
      BY <2>2, <2>4 DEF FormPage, Page
    <3>2. f = g
      BY <2>1, <2>4, <3>1, OneFormPerName
    <3>3. QED
      BY <2>4, <3>1, <3>2 DEF IsAllowed
  <2>5. P.user = user /\ P.from = loaded /\ P.kind # "list"
    BY <2>2 DEF FormPage, Page
  <2>6. QED
    BY <2>3, <2>4, <2>5 DEF Admitted
<1>4. QED
  BY <1>1, <1>2, <1>3

-----------------------------------------------------------------------------
(* What a tab asks for is a path.                                           *)
LEMMA FollowPath ==
  ASSUME NEW at \in Path, NEW n \in Path, NEW kind
  PROVE  Directory(at) \o Href(kind, n) \in Path
<1>1. Directory(at) \in Path
  <2>1. CASE at = Root
    BY <2>1, EmptySeq DEF Directory, Root, Path
  <2>2. CASE at # Root
    <3>1. Len(at) \in Nat /\ \A i \in 1 .. Len(at) - 1 : at[i] \in Segments
      BY DEF Path
    <3>2. SubSeq(at, 1, Len(at) - 1) \in Seq(Segments)
      BY <3>1, SubSeqProperties
    <3>3. QED
      BY <2>2, <3>2 DEF Directory, Front, Path
  <2>3. QED
    BY <2>1, <2>2
<1>2. Href(kind, n) \in Path
  BY AddressType DEF Href
<1>3. QED
  BY <1>1, <1>2, ConcatProperties DEF Path

LEMMA TypeInvariant ==
  ASSUME TypeOK, ServedInv, [Next]_vars
  PROVE  TypeOK'
<1> USE SomeTypes DEF TypeOK, serverVars, historyVars
<1>1. ASSUME NEW dir \in Configs, Start(dir) PROVE TypeOK'
  BY <1>1 DEF Start
<1>2. CASE Stop
  BY <1>2 DEF Stop, Forget
<1>3. CASE SessionExpires
  BY <1>3 DEF SessionExpires, Forget
<1>4. ASSUME NEW t \in Tabs, NEW r \in RequestType, Send(t, r), page' \in [Tabs -> PageType]
      PROVE  TypeOK'
  BY <1>4 DEF Send, InFlight
<1>5. ASSUME NEW t \in Tabs, NEW p \in PageType, Show(t, p), UNCHANGED <<serverVars, session>>
      PROVE  TypeOK'
  BY <1>5 DEF Show
<1>6. ASSUME NEW t \in Tabs, Open(t) PROVE TypeOK'
  <2>1. PICK p \in Addresses : Send(t, [NoRequest EXCEPT !.path = p])
    BY <1>6 DEF Open
  <2>2. [NoRequest EXCEPT !.path = p] \in RequestType
    BY AddressesType DEF NoRequest, RequestType
  <2>3. QED
    BY <1>4, <1>6, <2>1, <2>2 DEF Open
<1>7. ASSUME NEW t \in Tabs, Follow(t) PROVE TypeOK'
  <2>1. PICK n \in page[t].links :
          LET path == Directory(page[t].at) \o Href(page[t].kind, n)
          IN  Send(t, [path |-> path, post |-> FALSE, aim |-> n]) /\ UNCHANGED page
    BY <1>7 DEF Follow
  <2>2. page[t].at \in Path /\ n \in Path
    BY <1>7 DEF PageType
  <2> DEFINE path == Directory(page[t].at) \o Href(page[t].kind, n)
  <2>3. [path |-> path, post |-> FALSE, aim |-> n] \in RequestType
    BY <2>2, FollowPath DEF RequestType
  <2>4. QED
    BY <1>4, <1>7, <2>1, <2>3
<1>8. ASSUME NEW t \in Tabs, Submit(t) PROVE TypeOK'
  <2>1. [path |-> page[t].at, post |-> TRUE, aim |-> None] \in RequestType
    BY <1>8 DEF PageType, RequestType
  <2>2. QED
    BY <1>4, <1>8, <2>1 DEF Submit
<1>9. ASSUME NEW t \in Tabs, LogIn(t) \/ Load(t) PROVE TypeOK'
  <2>1. CASE LogIn(t)
    BY <1>9, <2>1 DEF LogIn, InFlight
  <2>2. CASE Load(t)
    BY <1>9, <2>2 DEF Load, InFlight
  <2>3. QED
    BY <1>9, <2>1, <2>2
<1>10. ASSUME NEW t \in Tabs, GiveUp(t) \/ Unreachable(t) \/ CallbackFails(t) PROVE TypeOK'
  BY <1>5, <1>10 DEF GiveUp, Unreachable, CallbackFails
<1>11. ASSUME NEW t \in Tabs, AskLogin(t) PROVE TypeOK'
  <2>1. req[t].path \in Path /\ BeforeAuth(snap[t], req[t].path) \in SessionType
    BY <1>11 DEF BeforeAuth, RequestType, SessionType
  <2>2. QED
    BY <1>11, <2>1 DEF AskLogin, LoginPhases
<1>12. ASSUME NEW t \in Tabs, Answer(t) PROVE TypeOK'
  <2>1. loaded \in Configs /\ Accepted(loaded)
    BY <1>12 DEF Answer, ServedInv
  <2>2. snap[t].user \in Users \cup {None} /\ req[t] \in RequestType
    BY <1>12 DEF SessionType
  <2>3. PageAt(req[t], snap[t].user) \in PageType
    BY <2>1, <2>2, PageAtAdmits
  <2>4. QED
    BY <1>5, <1>12, <2>3 DEF Answer
<1>13. ASSUME NEW t \in Tabs, LoggedIn(t) PROVE TypeOK'
  <2>1. [NoRequest EXCEPT !.path = snap[t].target] \in RequestType
    BY <1>13 DEF NoRequest, RequestType, SessionType
  <2>2. [user |-> who[t], target |-> Root] \in SessionType
    BY <1>13 DEF SessionType
  <2>3. QED
    BY <1>13, <2>1, <2>2 DEF LoggedIn, InFlight
<1>14. CASE UNCHANGED vars
  BY <1>14 DEF vars
<1>15. QED
  BY <1>1, <1>2, <1>3, <1>6, <1>7, <1>8, <1>9, <1>10, <1>11, <1>12, <1>13, <1>14
     DEF Next, Browse, Handle

LEMMA ServedInvariant ==
  ASSUME TypeOK, ServedInv, [Next]_vars
  PROVE  ServedInv'
<1> USE DEF TypeOK, ServedInv, Accepted, Forms, serverVars, historyVars
<1>1. ASSUME NEW dir \in Configs, Start(dir) PROVE ServedInv'
  BY <1>1 DEF Start
<1>2. CASE Stop
  BY <1>2 DEF Stop, InFlight
<1>3. CASE SessionExpires \/ UNCHANGED vars
  BY <1>3 DEF SessionExpires, vars
<1>4. ASSUME NEW t \in Tabs, Browse(t) PROVE ServedInv'
  BY <1>4 DEF Browse, Open, Follow, Submit, Send, LogIn, GiveUp, Show
<1>5. ASSUME NEW t \in Tabs, Handle(t) PROVE ServedInv'
  BY <1>5 DEF Handle, Load, Unreachable, AskLogin, Answer, LoggedIn, CallbackFails, Show
<1>6. QED
  BY <1>1, <1>2, <1>3, <1>4, <1>5 DEF Next

(* The session changes when a tab is sent to the login, which ends the      *)
(* loneliness of all others, when a tab comes back from it, which a lonely  *)
(* other one rules out, and when it is forgotten.                           *)
LEMMA LoginInvariant ==
  ASSUME TypeOK, LoginInv, [Next]_vars
  PROVE  LoginInv'
<1> USE DEF TypeOK, LoginInv, LoginPhases, InFlight, serverVars, historyVars
<1>1. ASSUME NEW dir \in Configs, Start(dir) PROVE LoginInv'
  BY <1>1 DEF Start
<1>2. CASE Stop
  BY <1>2 DEF Stop, Forget
<1>3. CASE SessionExpires
  BY <1>3 DEF SessionExpires, Forget
<1>4. CASE UNCHANGED vars
  BY <1>4 DEF vars
<1>5. ASSUME NEW t \in Tabs, Open(t) \/ Follow(t) \/ Submit(t) PROVE LoginInv'
  <2>1. PICK r : Send(t, r)
    BY <1>5 DEF Open, Follow, Submit
  <2>2. QED
    BY <1>5, <2>1 DEF Send
<1>6. ASSUME NEW t \in Tabs, NEW p, Show(t, p), UNCHANGED <<serverVars, session>> PROVE LoginInv'
  BY <1>6 DEF Show
<1>7. ASSUME NEW t \in Tabs, LogIn(t) PROVE LoginInv'
  BY <1>7 DEF LogIn
<1>8. ASSUME NEW t \in Tabs, Load(t) PROVE LoginInv'
  BY <1>8 DEF Load
<1>9. ASSUME NEW t \in Tabs, AskLogin(t) PROVE LoginInv'
  <2>1. session'.target = wish'[t]
    BY <1>9 DEF AskLogin, BeforeAuth, SessionType
  <2>2. /\ phase' = [phase EXCEPT ![t] = "login"] /\ flags' = flags /\ flags.oidc
        /\ alone' = [o \in Tabs |-> o = t /\ \A p \in Tabs \ {t} : phase[p] \notin LoginPhases]
    BY <1>9 DEF AskLogin
  <2>3. QED
    BY <1>9, <2>1, <2>2
<1>10. ASSUME NEW t \in Tabs, LoggedIn(t) PROVE LoginInv'
  BY <1>10 DEF LoggedIn
<1>11. ASSUME NEW t \in Tabs, Answer(t) \/ GiveUp(t) \/ Unreachable(t) \/ CallbackFails(t)
       PROVE  LoginInv'
  BY <1>6, <1>11 DEF Answer, GiveUp, Unreachable, CallbackFails
<1>12. QED
  BY <1>1, <1>2, <1>3, <1>4, <1>5, <1>7, <1>8, <1>9, <1>10, <1>11 DEF Next, Browse, Handle

(* A page is shown, kept, or replaced by one that shows nothing.            *)
LEMMA AdmittedInvariant ==
  ASSUME TypeOK, ServedInv, OnlyAdmitted, [Next]_vars
  PROVE  OnlyAdmitted'
<1> USE SomeTypes
<1>1. /\ OnlyAdmitted <=> (flags.oidc => \A t \in Tabs : Admitted(page[t]))
      /\ OnlyAdmitted' <=> (flags'.oidc => \A t \in Tabs : Admitted(page'[t]))
  BY DEF OnlyAdmitted, Admitted, Forms
<1>2. Admitted(Blank) /\ Admitted(Failure)
  BY DEF Admitted
<1>3. flags' = flags
  BY DEF Next, Browse, Handle, Start, Stop, SessionExpires, Open, Follow, Submit, Send, LogIn,
     GiveUp, Load, Unreachable, AskLogin, Answer, LoggedIn, CallbackFails, serverVars, vars
<1>4. ASSUME flags.oidc, NEW u \in Tabs, page'[u] \notin {page[u], Blank, Failure}
      PROVE  Admitted(page'[u])
  <2>1. PICK t \in Tabs : Answer(t)
    BY <1>4 DEF TypeOK, Next, Browse, Handle, Start, Stop, SessionExpires, Open, Follow, Submit,
       Send, LogIn, GiveUp, Load, Unreachable, AskLogin, LoggedIn, CallbackFails, Show, vars,
       serverVars
  <2>2. loaded \in Configs /\ Accepted(loaded)
    BY <2>1 DEF Answer, TypeOK, ServedInv
  <2>3. snap[t].user \in Users \cup {None} /\ snap[t].user # None /\ req[t] \in RequestType
    BY <1>4, <2>1 DEF Answer, TypeOK, SessionType
  <2>4. Admitted(PageAt(req[t], snap[t].user))
    BY <2>2, <2>3, PageAtAdmits
  <2>5. page'[u] = PageAt(req[t], snap[t].user)
    BY <1>4, <2>1 DEF Answer, Show, TypeOK
  <2>6. QED
    BY <2>4, <2>5
<1>5. QED
  BY <1>1, <1>2, <1>3, <1>4

LEMMA Inductive == IInv /\ [Next]_vars => IInv'
  BY TypeInvariant, ServedInvariant, LoginInvariant, AdmittedInvariant DEF IInv

LEMMA Invariance == Spec => []IInv
  BY InitIInv, Inductive, PTL DEF Spec

-----------------------------------------------------------------------------
(* The links.                                                               *)

(* The address of a form is served by this form: what is mounted above it   *)
(* is shorter, and nothing that is as long and a prefix is another one.     *)
LEMMA OwnAddress ==
  ASSUME loaded \in Configs, Accepted(loaded), NEW f \in Forms(loaded)
  PROVE  Mounted(Address(f.name)) # {} /\ Route(Address(f.name)) = f
<1> DEFINE path == Address(f.name)
           g == Route(path)
<1>1. f.name \in Path /\ path \in Path /\ Len(path) = Len(f.name) + 1
  BY FormsType, AddressType
<1>2. f \in Mounted(path)
  BY <1>1 DEF Mounted, IsPrefix
<1>3. g \in Forms(loaded) /\ IsPrefix(Address(g.name), path) /\ Len(f.name) <= Len(g.name)
  BY <1>1, <1>2, RouteMounted DEF Mounted
<1>4. g.name \in Path /\ Address(g.name) \in Path /\ Len(Address(g.name)) = Len(g.name) + 1
  BY <1>3, FormsType, AddressType
<1>5. Len(g.name) \in Nat /\ Len(f.name) \in Nat
  BY <1>1, <1>4 DEF Path
<1>6. Len(Address(g.name)) = Len(path)
  <2>1. Len(Address(g.name)) <= Len(path)
    BY <1>3 DEF IsPrefix
  <2>2. QED
    BY <1>1, <1>3, <1>4, <1>5, <2>1
<1>7. Address(g.name) = path
  <2>1. SubSeq(Address(g.name), 1, Len(path)) = SubSeq(path, 1, Len(path))
    BY <1>3, <1>6 DEF IsPrefix
  <2>2. QED
    BY <1>1, <1>4, <1>6, <2>1, SubSeqFull DEF Path
<1>8. g.name = f.name
  <2>1. <<"forms">> \in Seq(Segments)
    BY SegmentsAssumption
  <2>2. QED
    BY <1>1, <1>4, <1>7, <2>1, ConcatSimplifications DEF Address, Path
<1>9. QED
  BY <1>2, <1>3, <1>8, OneFormPerName

(* From the listing, and from the address of a form without a directory, a  *)
(* link is the address of what it names.                                    *)
LEMMA HomeLink ==
  ASSUME NEW n \in Path
  PROVE  /\ Directory(Root) \o Href("list", n) = Address(n)
         /\ Len(n) = 1 => Directory(Address(n)) \o Href("result", n) = Address(n)
<1>1. Address(n) \in Path /\ Len(Address(n)) = Len(n) + 1
  BY AddressType
<1>2. Directory(Root) \o Href("list", n) = Address(n)
  BY <1>1, ConcatEmptySeq DEF Directory, Root, Href, Path
<1>3. ASSUME Len(n) = 1 PROVE Directory(Address(n)) = <<"forms">>
  <2>1. <<"forms">> \in Seq(Segments) /\ Len(<<"forms">>) = 1
    BY SegmentsAssumption
  <2>2. Len(Address(n)) = 2 /\ Address(n) # Root
    BY <1>1, <1>3, EmptySeq DEF Root
  <2>3. Directory(Address(n)) = SubSeq(Address(n), 1, 1)
    BY <2>2 DEF Directory, Front
  <2>4. Address(n)[1] = "forms"
    BY <2>1, <1>3, ConcatProperties DEF Address, Path
  <2>5. /\ SubSeq(Address(n), 1, 1) \in Seq(Segments)
        /\ Len(SubSeq(Address(n), 1, 1)) = 1
        /\ SubSeq(Address(n), 1, 1)[1] = "forms"
    BY <2>4, SegmentsAssumption, SubSeqProperties
  <2>6. SubSeq(Address(n), 1, 1) = <<"forms">>
    <3> DEFINE s == SubSeq(Address(n), 1, 1)
               z == <<"forms">>
    <3>1. z \in Seq(Segments) /\ Len(z) = 1 /\ z[1] = "forms"
      BY <2>1
    <3>2. s \in Seq(Segments) /\ Len(s) = 1 /\ s[1] = "forms"
      BY <2>5
    <3> HIDE DEF s, z
    <3>3. s = z
      BY <3>1, <3>2, SeqEqual
    <3>4. QED
      BY <3>3 DEF s, z
  <2>7. QED
    BY <2>3, <2>6
<1>4. QED
  BY <1>2, <1>3 DEF Href, Address

(* The links of a list or of a result are to forms of the definitions that  *)
(* were loaded then, for whose user they are; the list is at the root.      *)
Linked(p) ==
  /\ p.kind = "list" => p.at = Root
  /\ p.kind \in {"list", "result"} =>
       \A n \in p.links : \E f \in Forms(p.from) : f.name = n /\ IsAllowed(f, p.user)

(* A tab that follows a link is still on the page that has it.              *)
Following(t) ==
  phase[t] \in {"sent", "loaded"} /\ req[t].aim # None =>
    /\ req[t].aim \in page[t].links
    /\ ~ req[t].post
    /\ req[t].path = Directory(page[t].at) \o Href(page[t].kind, req[t].aim)

LinkInv == \A t \in Tabs : Linked(page[t]) /\ Following(t)

LEMMA InitLinkInv == Init => LinkInv
  BY DEF Init, LinkInv, Linked, Following, Blank, NoRequest

LEMMA PageAtLinked ==
  ASSUME loaded \in Configs, NEW r \in RequestType, NEW user
  PROVE  Linked(PageAt(r, user))
<1> DEFINE f == Route(r.path)
<1>1. CASE r.path = Root /\ flags.listing
  BY <1>1 DEF PageAt, Page, Listed, Linked
<1>2. CASE ~ (r.path = Root /\ flags.listing) /\ Mounted(r.path) = {}
  BY <1>2 DEF PageAt, Blank, Linked
<1>3. CASE ~ (r.path = Root /\ flags.listing) /\ Mounted(r.path) # {}
  <2>1. f \in Forms(loaded)
    BY <1>3, RouteMounted DEF Mounted, RequestType
  <2>2. PageAt(r, user) = FormPage(r, f, user)
    BY <1>3 DEF PageAt
  <2>3. QED
    BY <2>1, <2>2 DEF FormPage, Page, Linked
<1>4. QED
  BY <1>1, <1>2, <1>3

LEMMA LinkInvariant ==
  ASSUME TypeOK, ServedInv, LinkInv, [Next]_vars
  PROVE  LinkInv'
<1> USE SomeTypes DEF TypeOK, serverVars, historyVars
<1>1. LinkInv' <=> \A u \in Tabs : Linked(page'[u]) /\ Following(u)'
  BY DEF LinkInv, Linked, Forms, IsAllowed, Name
<1>2. Linked(Blank) /\ Linked(Failure)
  BY DEF Linked
<1>3. ASSUME NEW u \in Tabs, page'[u] = page[u], phase'[u] = phase[u], req'[u] = req[u]
      PROVE  Linked(page'[u]) /\ Following(u)'
  BY <1>3 DEF Following, LinkInv
<1>4. ASSUME NEW u \in Tabs, Linked(page'[u]),
             phase'[u] \notin {"sent", "loaded"} \/ req'[u].aim = None
      PROVE  Linked(page'[u]) /\ Following(u)'
  BY <1>4 DEF Following
<1>5. ASSUME UNCHANGED <<phase, req, page>> PROVE LinkInv'
  BY <1>1, <1>3, <1>5
<1>6. ASSUME NEW t \in Tabs, NEW p, Linked(p), Show(t, p) PROVE LinkInv'
  BY <1>1, <1>3, <1>4, <1>6 DEF Show
<1>7. ASSUME NEW dir \in Configs, Start(dir) PROVE LinkInv'
  BY <1>5, <1>7 DEF Start
<1>8. CASE SessionExpires \/ UNCHANGED vars
  BY <1>5, <1>8 DEF SessionExpires, vars
<1>9. CASE Stop
  <2>1. ASSUME NEW u \in Tabs, phase[u] \in InFlight PROVE Linked(page'[u]) /\ Following(u)'
    BY <1>2, <1>4, <1>9, <2>1 DEF Stop
  <2>2. ASSUME NEW u \in Tabs, phase[u] \notin InFlight PROVE Linked(page'[u]) /\ Following(u)'
    BY <1>3, <1>9, <2>2 DEF Stop
  <2>3. QED
    BY <1>1, <2>1, <2>2
<1>10. ASSUME NEW t \in Tabs, Open(t) PROVE LinkInv'
  <2>1. PICK q \in Addresses : Send(t, [NoRequest EXCEPT !.path = q])
    BY <1>10 DEF Open
  <2>2. req' = [req EXCEPT ![t] = [NoRequest EXCEPT !.path = q]] /\ req'[t].aim = None
    BY <2>1 DEF Send, NoRequest
  <2>3. page' = [page EXCEPT ![t] = Blank] /\ phase' = [phase EXCEPT ![t] = "sent"]
    BY <1>10, <2>1 DEF Open, Send
  <2>4. QED
    BY <1>1, <1>2, <1>3, <1>4, <2>2, <2>3
<1>11. ASSUME NEW t \in Tabs, Follow(t) PROVE LinkInv'
  <2>1. PICK n \in page[t].links :
          LET path == Directory(page[t].at) \o Href(page[t].kind, n)
          IN  Send(t, [path |-> path, post |-> FALSE, aim |-> n]) /\ UNCHANGED page
    BY <1>11 DEF Follow
  <2> DEFINE r == [path |-> Directory(page[t].at) \o Href(page[t].kind, n),
                   post |-> FALSE, aim |-> n]
  <2>2. page' = page /\ req' = [req EXCEPT ![t] = r] /\ phase' = [phase EXCEPT ![t] = "sent"]
    BY <2>1 DEF Send
  <2>3. Linked(page'[t]) /\ Following(t)'
    BY <2>2 DEF Following, LinkInv
  <2>4. QED
    BY <1>1, <1>3, <2>2, <2>3
<1>12. ASSUME NEW t \in Tabs, Submit(t) PROVE LinkInv'
  <2>1. page' = page /\ req'[t].aim = None
    BY <1>12 DEF Submit, Send
  <2>2. QED
    BY <1>1, <1>3, <1>4, <1>12, <2>1 DEF Submit, Send, LinkInv
<1>13. ASSUME NEW t \in Tabs, LogIn(t) PROVE LinkInv'
  <2>1. page' = page /\ req' = req /\ phase' = [phase EXCEPT ![t] = "returning"]
    BY <1>13 DEF LogIn
  <2>2. QED
    BY <1>1, <1>3, <1>4, <2>1 DEF LinkInv
<1>14. ASSUME NEW t \in Tabs, Load(t) PROVE LinkInv'
  <2>1. /\ page' = page /\ req' = req
        /\ phase' = [phase EXCEPT ![t] = IF @ = "sent" THEN "loaded" ELSE "callback"]
    BY <1>14 DEF Load
  <2>2. Linked(page'[t]) /\ Following(t)'
    BY <1>14, <2>1 DEF Load, Following, LinkInv
  <2>3. QED
    BY <1>1, <1>3, <2>1, <2>2
<1>15. ASSUME NEW t \in Tabs, AskLogin(t) PROVE LinkInv'
  <2>1. /\ page' = [page EXCEPT ![t] = Blank] /\ req' = [req EXCEPT ![t] = NoRequest]
        /\ phase' = [phase EXCEPT ![t] = "login"]
    BY <1>15 DEF AskLogin
  <2>2. QED
    BY <1>1, <1>2, <1>3, <1>4, <2>1
<1>16. ASSUME NEW t \in Tabs, LoggedIn(t) PROVE LinkInv'
  <2>1. /\ page' = page /\ phase' = [phase EXCEPT ![t] = "sent"]
        /\ req' = [req EXCEPT ![t] = [NoRequest EXCEPT !.path = snap[t].target]]
    BY <1>16 DEF LoggedIn
  <2>2. req'[t].aim = None
    BY <2>1 DEF NoRequest
  <2>3. QED
    BY <1>1, <1>3, <1>4, <2>1, <2>2 DEF LinkInv
<1>17. ASSUME NEW t \in Tabs, GiveUp(t) \/ Unreachable(t) \/ CallbackFails(t) PROVE LinkInv'
  BY <1>2, <1>6, <1>17 DEF GiveUp, Unreachable, CallbackFails
<1>18. ASSUME NEW t \in Tabs, Answer(t) PROVE LinkInv'
  <2>1. loaded \in Configs
    BY <1>18 DEF Answer, ServedInv
  <2>2. Linked(PageAt(req[t], snap[t].user))
    BY <2>1, PageAtLinked
  <2>3. QED
    BY <1>6, <1>18, <2>2 DEF Answer
<1>19. QED
  BY <1>7, <1>8, <1>9, <1>10, <1>11, <1>12, <1>13, <1>14, <1>15, <1>16, <1>17, <1>18
     DEF Next, Browse, Handle

LEMMA LinkInvariance == Spec => []LinkInv
<1>1. IInv /\ LinkInv /\ [Next]_vars => LinkInv'
  BY LinkInvariant DEF IInv
<1>2. QED
  BY <1>1, InitLinkInv, Invariance, PTL DEF Spec

-----------------------------------------------------------------------------
(* Every variable keeps its type: paths stay paths, links included.         *)
THEOREM TypeCorrect == Spec => []TypeOK
<1>1. IInv => TypeOK
  BY DEF IInv
<1>2. QED
  BY <1>1, Invariance, PTL

(* docs/authorization.md: with OIDC, forms, results and links are for the   *)
(* users whom the definitions admit.                                        *)
THEOREM Admission == Spec => []OnlyAdmitted
<1>1. IInv => OnlyAdmitted
  BY DEF IInv
<1>2. QED
  BY <1>1, Invariance, PTL

(* main.go, BeforeAuth and PostAuth: an undisturbed login comes back to the *)
(* address that was asked for.                                              *)
THEOREM LoginReturns == Spec => LandsWhereAsked
<1> DEFINE A == \A t \in Tabs : phase[t] = "callback" /\ phase'[t] = "sent" /\ alone[t] =>
                  req'[t].path = wish[t]
<1>1. ASSUME IInv, Next, NEW t \in Tabs, phase[t] = "callback", phase'[t] = "sent", alone[t]
      PROVE  req'[t].path = wish[t]
  <2>1. LoggedIn(t)
    BY <1>1 DEF IInv, TypeOK, Next, Browse, Handle, Start, Stop, SessionExpires, Open, Follow,
       Submit, Send, LogIn, GiveUp, Load, Unreachable, AskLogin, Answer, LoggedIn, CallbackFails,
       Show, serverVars
  <2>2. snap[t].target = wish[t]
    BY <1>1 DEF IInv, LoginInv, LoginPhases
  <2>3. QED
    BY <1>1, <2>1, <2>2 DEF LoggedIn, IInv, TypeOK, NoRequest
<1>2. IInv /\ [Next]_vars => [A]_vars
  BY <1>1
<1>3. QED
  BY <1>2, Invariance, PTL DEF Spec, LandsWhereAsked

(* server.go, listed and mounted; list.gohtml and success.gohtml: as long   *)
(* as the user and the definitions are the same, what is listed opens,      *)
(* whatever its name.  The link of a result opens its form again if the     *)
(* form's name has no slash and the result is shown at the form's own       *)
(* address; of other results nothing is said, because their links are       *)
(* relative to another directory.                                           *)
THEOREM LinksLeadHome == Spec => LinksOpen
<1> DEFINE A ==
      \A t \in Tabs :
        /\ phase[t] = "loaded" /\ phase'[t] = "idle" /\ loaded' = loaded
        /\ req[t].aim # None
        /\ \/ page[t].kind = "list"
           \/ /\ page[t].kind = "result"
              /\ Len(req[t].aim) = 1
              /\ page[t].at = Address(req[t].aim)
        /\ page[t].user = snap[t].user
        /\ page[t].from = loaded
        => page'[t].kind = "form" /\ page'[t].form = req[t].aim
<1>1. ASSUME IInv, LinkInv, Next, NEW t \in Tabs,
             phase[t] = "loaded", phase'[t] = "idle", loaded' = loaded, req[t].aim # None,
             \/ page[t].kind = "list"
             \/ /\ page[t].kind = "result"
                /\ Len(req[t].aim) = 1
                /\ page[t].at = Address(req[t].aim),
             page[t].user = snap[t].user, page[t].from = loaded
      PROVE  page'[t].kind = "form" /\ page'[t].form = req[t].aim
  <2> DEFINE n == req[t].aim
             user == snap[t].user
  <2>1. Answer(t)
    <3>1. PICK u \in Tabs : Browse(u) \/ Handle(u)
      BY <1>1 DEF Next, Start, Stop, SessionExpires
    <3>2. phase \in [Tabs -> {"idle"} \cup InFlight \cup LoginPhases]
      BY <1>1 DEF IInv, TypeOK
    <3>3. CASE Browse(u)
      BY <1>1, <3>2, <3>3 DEF Browse, Open, Follow, Submit, Send, LogIn, GiveUp, Show
    <3>4. CASE Handle(u)
      BY <1>1, <3>2, <3>4 DEF Handle, Load, Unreachable, AskLogin, LoggedIn, CallbackFails,
         Answer, Show
    <3>5. QED
      BY <3>1, <3>3, <3>4
  <2>2. loaded \in Configs /\ Accepted(loaded)
    BY <1>1 DEF IInv, TypeOK, ServedInv
  <2>3. page'[t] = PageAt(req[t], user)
    BY <1>1, <2>1 DEF Answer, Show, IInv, TypeOK
  <2>4. Linked(page[t]) /\ Following(t)
    BY <1>1 DEF LinkInv
  <2>5. /\ n \in page[t].links /\ ~ req[t].post
        /\ req[t].path = Directory(page[t].at) \o Href(page[t].kind, n)
    BY <1>1, <2>4 DEF Following
  <2>6. PICK f \in Forms(loaded) : f.name = n /\ IsAllowed(f, user)
    BY <1>1, <2>4, <2>5 DEF Linked
  <2>7. n \in Path
    BY <2>2, <2>6, FormsType
  <2>8. req[t].path = Address(n)
    <3>1. CASE page[t].kind = "list"
      BY <2>4, <2>5, <2>7, <3>1, HomeLink DEF Linked
    <3>2. CASE page[t].kind = "result" /\ Len(n) = 1 /\ page[t].at = Address(n)
      BY <2>5, <2>7, <3>2, HomeLink
    <3>3. QED
      BY <1>1, <3>1, <3>2
  <2>9. req[t].path # Root /\ Mounted(req[t].path) # {} /\ Route(req[t].path) = f
    <3>1. Mounted(Address(n)) # {} /\ Route(Address(n)) = f
      BY <2>2, <2>6, OwnAddress
    <3>2. Address(n) # Root
      BY <2>7, AddressType, EmptySeq DEF Root, Path
    <3>3. QED
      BY <2>8, <3>1, <3>2
  <2>10. PageAt(req[t], user) = FormPage(req[t], f, user)
    BY <2>9 DEF PageAt
  <2>11. PageAt(req[t], user) = Page("form", req[t], f.name, user, {})
    BY <2>5, <2>6, <2>10 DEF FormPage
  <2>12. QED
    BY <2>3, <2>6, <2>11 DEF Page
<1>2. IInv /\ LinkInv /\ [Next]_vars => [A]_vars
  BY <1>1
<1>3. QED
  BY <1>2, Invariance, LinkInvariance, PTL DEF Spec, LinksOpen

=============================================================================
