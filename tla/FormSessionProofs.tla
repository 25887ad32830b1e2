---------------------------- MODULE FormSessionProofs ----------------------------
(***************************************************************************)
(* Proofs about FormSession, for any number of tabs, any access codes, any *)
(* set of values that escaping leaves alone and any configuration.         *)
(***************************************************************************)
EXTENDS FormSession, FiniteSetTheorems, FunctionTheorems, TLAPS

-----------------------------------------------------------------------------
(* The inductive invariant.  The server keeps nothing, so the invariant is  *)
(* about what travels: the session that each kind of page carries, open or  *)
(* still on its way, and the session that each request brings back.         *)

(* A code that was let in: escaping may have spoilt it since.               *)
AcceptedCode(x) == x # None /\ x.v \in Codes /\ (x.v \in Safe => x.n = 0)

(* x is a page or a request: the zone has been escaped by every page it     *)
(* went through, or by none.                                                *)
ZoneOK(x) ==
  x.tz # None => x.tz.v = Zone /\ x.tz.n = (IF Zone \in Safe THEN 0 ELSE x.carried)

(* The page that asks for a code never carries one that would be accepted:  *)
(* what was typed is not kept, and a code that was refused stays refused.   *)
PageOK(p) ==
  /\ p.kind \in {"blank", "forbidden"} => p.token = 0
  /\ p.kind = "code" => HasCodeAccess /\ (p.code = None \/ ~ValidCode(p.code))
  /\ p.kind = "form" => ~p.fresh
  /\ p.kind = "result" /\ ~HasCodeAccess => p.token = 0
  /\ p.kind = "result" /\ HasCodeAccess => p.fresh
  /\ p.kind \in {"form", "result"} /\ HasCodeAccess => AcceptedCode(p.code)
  /\ ~HasCodeAccess => p.code = None
  /\ p.tz = None => p.carried = 0
  /\ ZoneOK(p)

RequestOK(r) ==
  /\ r.from = "url" => ~r.post
  /\ r.from = "code" => HasCodeAccess /\ (r.code = None \/ ~ValidCode(r.code))
  /\ r.from = "form" => ~r.fresh /\ r.tz # None
  /\ r.from = "form" /\ HasCodeAccess => AcceptedCode(r.code)
  /\ r.from = "result" => r.fresh
  /\ ~HasCodeAccess => r.code = None
  /\ r.tz = None => r.carried = 0
  /\ ZoneOK(r)

SessionInv ==
  /\ \A t \in Tabs : PageOK(tab[t])
  /\ \A t \in Tabs : reply[t] # None => PageOK(reply[t])
  /\ \A t \in Tabs : req[t] # None => RequestOK(req[t])

(* No two pages have the same token, whether a tab shows them or they are   *)
(* on their way.                                                            *)
TokenInv ==
  /\ \A t, u \in Tabs : tab[t].token = tab[u].token => t = u \/ tab[t].token = 0
  /\ \A t, u \in Tabs : reply[t] # None =>
       /\ tab[u].token = reply[t].token => reply[t].token = 0
       /\ reply[u] # None /\ reply[u].token = reply[t].token => t = u \/ reply[t].token = 0

RowInv ==
  \A r \in rows :
    /\ r.from = "form"
    /\ r.zone = "client" <=> (Zone \in Safe \/ r.carried <= 1)

IInv == TypeOK /\ SessionInv /\ TokenInv /\ RowInv

-----------------------------------------------------------------------------
(* A token that is not in use can always be drawn: each tab shows one page  *)
(* and waits for at most one more.                                          *)

LEMMA ImageCardinality ==
  ASSUME NEW S, IsFiniteSet(S), NEW f
  PROVE  /\ IsFiniteSet({f[x] : x \in S})
         /\ Cardinality({f[x] : x \in S}) <= Cardinality(S)
<1> DEFINE T == {f[x] : x \in S}
           g == [x \in S |-> f[x]]
<1>1. g \in Surjection(S, T)
  BY DEF Surjection
<1>2. QED
  BY <1>1, FS_Surjection

LEMMA UnionCardinality ==
  ASSUME NEW S, NEW T, IsFiniteSet(S), IsFiniteSet(T)
  PROVE  /\ IsFiniteSet(S \cup T)
         /\ Cardinality(S \cup T) <= Cardinality(S) + Cardinality(T)
<1>1. IsFiniteSet(S \cap T)
  BY FS_Intersection
<1>2. Cardinality(S) \in Nat /\ Cardinality(T) \in Nat /\ Cardinality(S \cap T) \in Nat
  BY <1>1, FS_CardinalityType
<1>3. /\ IsFiniteSet(S \cup T)
      /\ Cardinality(S \cup T) = Cardinality(S) + Cardinality(T) - Cardinality(S \cap T)
  BY FS_Union
<1>4. QED
  BY <1>2, <1>3

LEMMA FreshToken == NewToken \in Tokens /\ NewToken \notin TokensInUse
<1> DEFINE n == Cardinality(Tabs)
           shown == {tab[t].token : t \in Tabs}
           waiting == {u \in Tabs : reply[u] # None}
           coming == {reply[t].token : t \in waiting}
<1>1. n \in Nat
  BY TabsAssumption, FS_CardinalityType
<1>2. IsFiniteSet(shown) /\ Cardinality(shown) <= n
  <2> DEFINE f == [t \in Tabs |-> tab[t].token]
  <2>1. shown = {f[t] : t \in Tabs}
    OBVIOUS
  <2> HIDE DEF f, shown
  <2>2. QED
    BY <2>1, TabsAssumption, ImageCardinality
<1>3. IsFiniteSet(coming) /\ Cardinality(coming) <= n
  <2> DEFINE f == [t \in waiting |-> reply[t].token]
  <2>1. IsFiniteSet(waiting) /\ Cardinality(waiting) <= n /\ Cardinality(waiting) \in Nat
    <3>1. waiting \in SUBSET Tabs
      OBVIOUS
    <3>2. QED
      BY <3>1, TabsAssumption, FS_Subset, FS_CardinalityType
  <2>2. coming = {f[t] : t \in waiting}
    OBVIOUS
  <2> HIDE DEF f, waiting, coming
  <2>3. IsFiniteSet(coming) /\ Cardinality(coming) <= Cardinality(waiting)
    BY <2>1, <2>2, ImageCardinality
  <2>4. Cardinality(coming) \in Nat
    BY <2>3, FS_CardinalityType
  <2>5. QED
    BY <1>1, <2>1, <2>3, <2>4
<1>4. IsFiniteSet(TokensInUse) /\ Cardinality(TokensInUse) <= 2 * n + 1
  <2>1. IsFiniteSet({cookie}) /\ Cardinality({cookie}) = 1
    BY FS_Singleton
  <2>2. /\ IsFiniteSet({cookie} \cup shown)
        /\ Cardinality({cookie} \cup shown) <= 1 + Cardinality(shown)
    BY <1>2, <2>1, UnionCardinality
  <2>3. /\ IsFiniteSet({cookie} \cup shown \cup coming)
        /\ Cardinality({cookie} \cup shown \cup coming)
             <= Cardinality({cookie} \cup shown) + Cardinality(coming)
    BY <1>3, <2>2, UnionCardinality
  <2>4. TokensInUse = {cookie} \cup shown \cup coming
    BY DEF TokensInUse
  <2>5. /\ Cardinality(shown) \in Nat /\ Cardinality(coming) \in Nat
        /\ Cardinality({cookie} \cup shown) \in Nat
        /\ Cardinality({cookie} \cup shown \cup coming) \in Nat
    BY <1>2, <1>3, <2>2, <2>3, FS_CardinalityType
  <2>6. QED
    BY <1>1, <1>2, <1>3, <2>2, <2>3, <2>4, <2>5
<1>5. IsFiniteSet(Tokens) /\ Cardinality(Tokens) = 2 * n + 2
  BY <1>1, FS_Interval DEF Tokens
<1>6. Cardinality(TokensInUse) \in Nat
  BY <1>4, FS_CardinalityType
<1>7. ~(Tokens \subseteq TokensInUse)
  BY <1>1, <1>4, <1>5, <1>6, FS_Subset
<1>8. QED
  BY <1>7 DEF NewToken

-----------------------------------------------------------------------------
(* What escaping does to a value of the session.                            *)

LEMMA NoneIsNoRecord == None \notin Value /\ None \notin Pages /\ None \notin Requests
BY NoneAssumption

LEMMA EmbedFacts ==
  ASSUME NEW x \in Value \cup {None}
  PROVE  /\ Embed(x) \in Value \cup {None}
         /\ Embed(x) = None <=> x = None
         /\ x # None => /\ Embed(x).v = x.v
                        /\ Embed(x).n = 0 => x.n = 0
                        /\ x.v \in Safe => Embed(x) = x
<1>1. CASE x = None
  BY <1>1 DEF Embed
<1>2. CASE x # None /\ (x.v \in Safe \/ x.n = MaxLayers)
  BY <1>2 DEF Embed
<1>3. CASE x # None /\ ~(x.v \in Safe \/ x.n = MaxLayers)
  <2>1. x \in Value /\ Embed(x) = [x EXCEPT !.n = @ + 1]
    BY <1>3 DEF Embed
  <2>2. x.n \in 0..MaxLayers /\ x.n + 1 \in 0..MaxLayers /\ x.v \in Codes \cup Typed \cup {Zone}
    BY <1>3, <2>1, MaxLayersAssumption DEF Value
  <2>3. Embed(x) = [v |-> x.v, n |-> x.n + 1]
    BY <2>1 DEF Value
  <2>4. QED
    BY <1>3, <2>2, <2>3, NoneIsNoRecord DEF Value
<1>4. QED
  BY <1>1, <1>2, <1>3

(* A value in plain text is valid only if it was never escaped.             *)
LEMMA ValidFacts ==
  ASSUME NEW x \in Value \cup {None}
  PROVE  ValidCode(x) <=> x # None /\ x.v \in Codes /\ x.n = 0
<1>1. CASE x = None
  <2>1. ASSUME NEW c \in Codes PROVE Plain(c) # None
    <3>1. Plain(c) \in Value
      BY MaxLayersAssumption DEF Plain, Value
    <3>2. QED
      BY <3>1, NoneIsNoRecord
  <2>2. QED
    BY <1>1, <2>1 DEF ValidCode
<1>2. CASE x \in Value
  <2>1. x = [v |-> x.v, n |-> x.n]
    BY <1>2 DEF Value
  <2>2. QED
    BY <1>2, <2>1, NoneIsNoRecord DEF ValidCode, Plain
<1>3. QED
  BY <1>1, <1>2

(* What was refused stays refused on the next page, and what was accepted   *)
(* is accepted again unless escaping changes it.                            *)
LEMMA EmbedKeepsVerdict ==
  ASSUME NEW x \in Value \cup {None}
  PROVE  /\ x = None \/ ~ValidCode(x) => Embed(x) = None \/ ~ValidCode(Embed(x))
         /\ ValidCode(x) => AcceptedCode(Embed(x))
<1>1. /\ Embed(x) \in Value \cup {None}
      /\ Embed(x) = None <=> x = None
      /\ x # None => /\ Embed(x).v = x.v
                     /\ Embed(x).n = 0 => x.n = 0
                     /\ x.v \in Safe => Embed(x) = x
  BY EmbedFacts
<1>2. x = None \/ ~ValidCode(x) => Embed(x) = None \/ ~ValidCode(Embed(x))
  BY <1>1, ValidFacts
<1>3. ValidCode(x) => AcceptedCode(Embed(x))
  BY <1>1, ValidFacts DEF AcceptedCode
<1>4. QED
  BY <1>2, <1>3

(* One more page, one more escaping.                                        *)
LEMMA ZoneCarried ==
  ASSUME NEW r, r.tz \in Value \cup {None}, r.carried \in 0..MaxLayers,
         r.tz = None => r.carried = 0, ZoneOK(r),
         NEW p, p.tz = Embed(r.tz), p.carried = Carry(r)
  PROVE  p.carried \in 0..MaxLayers /\ (p.tz = None => p.carried = 0) /\ ZoneOK(p)
<1>1. CASE r.tz = None
  BY <1>1 DEF Embed, Carry, ZoneOK
<1>2. CASE r.tz # None
  <2>1. r.tz \in Value /\ r.tz.v = Zone /\ r.tz.n = (IF Zone \in Safe THEN 0 ELSE r.carried)
    BY <1>2 DEF ZoneOK
  <2>2. /\ p.carried \in 0..MaxLayers
        /\ p.carried = IF r.carried = MaxLayers THEN r.carried ELSE r.carried + 1
    BY <1>2, MaxLayersAssumption DEF Carry
  <2>3. p.tz # None
    BY <1>2, EmbedFacts
  <2>4. CASE Zone \in Safe \/ r.tz.n = MaxLayers
    <3>1. p.tz = r.tz
      BY <2>1, <2>4 DEF Embed
    <3>2. QED
      BY <2>1, <2>2, <2>3, <2>4, <3>1 DEF ZoneOK
  <2>5. CASE ~(Zone \in Safe \/ r.tz.n = MaxLayers)
    <3>1. p.tz = [r.tz EXCEPT !.n = @ + 1]
      BY <1>2, <2>1, <2>5 DEF Embed
    <3>2. p.tz.v = Zone /\ p.tz.n = r.tz.n + 1
      BY <2>1, <3>1 DEF Value
    <3>3. QED
      BY <2>1, <2>2, <2>3, <2>5, <3>2 DEF ZoneOK
  <2>6. QED
    BY <2>4, <2>5
<1>3. QED
  BY <1>1, <1>2

-----------------------------------------------------------------------------
(* The pages of the handler.                                                *)

LEMMA BareFacts ==
  ASSUME NEW kind \in {"blank", "result", "forbidden"}, kind = "result" => ~HasCodeAccess
  PROVE  Bare(kind) \in Pages /\ PageOK(Bare(kind)) /\ Bare(kind).token = 0
<1>1. Bare(kind) \in Pages /\ Bare(kind).token = 0
  BY MaxLayersAssumption DEF Bare, Pages
<1>2. PageOK(Bare(kind))
  BY DEF Bare, PageOK, ZoneOK
<1>3. QED
  BY <1>1, <1>2

(* The session that a request brings has come from a page.                  *)
LEMMA RequestFacts ==
  ASSUME TypeOK, SessionInv, NEW t \in Tabs, req[t] # None
  PROVE  /\ req[t] \in Requests /\ RequestOK(req[t])
         /\ req[t].code \in Value \cup {None} /\ req[t].tz \in Value \cup {None}
         /\ req[t].carried \in 0..MaxLayers
         /\ CodeUsed(req[t]) \in Value \cup {None}
         /\ SessionCode(req[t]) \in Value \cup {None}
         /\ req[t].post \in BOOLEAN /\ req[t].fresh \in BOOLEAN
         /\ Fresh(req[t]) \in BOOLEAN
<1>1. req[t] \in Requests /\ RequestOK(req[t])
  BY DEF TypeOK, SessionInv
<1>2. QED
  BY <1>1 DEF Requests, CodeUsed, SessionCode, Fresh

LEMMA FormPageFacts ==
  ASSUME TypeOK, SessionInv, NEW t \in Tabs, req[t] # None, CodeOK(req[t])
  PROVE  /\ FormPage(req[t]) \in Pages /\ PageOK(FormPage(req[t]))
         /\ FormPage(req[t]).token = NewToken
<1> DEFINE r == req[t]
           p == FormPage(r)
<1>1. /\ RequestOK(r) /\ r.tz \in Value \cup {None} /\ r.code \in Value \cup {None}
      /\ SessionCode(r) \in Value \cup {None} /\ r.carried \in 0..MaxLayers
  BY RequestFacts
<1>z. ASSUME NEW q, q.tz = Embed(r.tz), q.carried = Carry(r)
      PROVE  q.carried \in 0..MaxLayers /\ (q.tz = None => q.carried = 0) /\ ZoneOK(q)
  BY <1>1, <1>z, ZoneCarried DEF RequestOK
<1>2. /\ p \in Pages /\ p.kind = "form" /\ p.token = NewToken /\ ~p.fresh
      /\ p.code = Embed(SessionCode(r)) /\ p.tz = Embed(r.tz) /\ p.carried = Carry(r)
  <2>1. p = WithForm("form", SessionCode(r), r, FALSE)
    BY DEF FormPage
  <2>2. Carry(r) \in 0..MaxLayers
    BY <1>1, MaxLayersAssumption DEF Carry
  <2> HIDE DEF r, p
  <2>3. QED
    BY <1>1, <2>1, <2>2, FreshToken, EmbedFacts DEF WithForm, Pages
<1>3. HasCodeAccess => AcceptedCode(p.code)
  BY <1>1, <1>2, EmbedKeepsVerdict DEF CodeOK, SessionCode
<1>4. ~HasCodeAccess => p.code = None
  BY <1>1, <1>2, EmbedFacts DEF SessionCode, RequestOK
<1>5. ZoneOK(p) /\ (p.tz = None => p.carried = 0)
  BY <1>2, <1>z
<1>6. PageOK(p)
  BY <1>2, <1>3, <1>4, <1>5 DEF PageOK
<1>7. QED
  BY <1>2, <1>6

LEMMA ResultPageFacts ==
  ASSUME TypeOK, SessionInv, NEW t \in Tabs, req[t] # None, CodeOK(req[t])
  PROVE  /\ ResultPage(req[t]) \in Pages /\ PageOK(ResultPage(req[t]))
         /\ ResultPage(req[t]).token \in {0, NewToken}
<1> DEFINE r == req[t]
           p == ResultPage(r)
<1>1. /\ RequestOK(r) /\ r.tz \in Value \cup {None} /\ r.code \in Value \cup {None}
      /\ SessionCode(r) \in Value \cup {None} /\ r.carried \in 0..MaxLayers
  BY RequestFacts
<1>z. ASSUME NEW q, q.tz = Embed(r.tz), q.carried = Carry(r)
      PROVE  q.carried \in 0..MaxLayers /\ (q.tz = None => q.carried = 0) /\ ZoneOK(q)
  BY <1>1, <1>z, ZoneCarried DEF RequestOK
<1>2. CASE ~HasCodeAccess
  BY <1>2, BareFacts DEF ResultPage
<1>3. CASE HasCodeAccess
  <2>1. /\ p \in Pages /\ p.kind = "result" /\ p.token = NewToken /\ p.fresh
        /\ p.code = Embed(SessionCode(r)) /\ p.tz = Embed(r.tz) /\ p.carried = Carry(r)
    <3>1. p = WithForm("result", SessionCode(r), r, TRUE)
      BY <1>3 DEF ResultPage
    <3>2. Carry(r) \in 0..MaxLayers
      BY <1>1, MaxLayersAssumption DEF Carry
    <3> HIDE DEF r, p
    <3>3. QED
      BY <1>1, <3>1, <3>2, FreshToken, EmbedFacts DEF WithForm, Pages
  <2>2. AcceptedCode(p.code)
    BY <1>1, <1>3, <2>1, EmbedKeepsVerdict DEF CodeOK, SessionCode
  <2>3. ZoneOK(p) /\ (p.tz = None => p.carried = 0)
    BY <2>1, <1>z
  <2>4. PageOK(p)
    BY <1>3, <2>1, <2>2, <2>3 DEF PageOK
  <2>5. QED
    BY <2>1, <2>4
<1>4. QED
  BY <1>2, <1>3

LEMMA CodePageFacts ==
  ASSUME NEW code \in Value \cup {None}, NEW fresh \in BOOLEAN,
         NEW r \in Requests, RequestOK(r),
         HasCodeAccess, code = None \/ ~ValidCode(code)
  PROVE  LET p == WithForm("code", code, r, fresh)
         IN  p \in Pages /\ PageOK(p) /\ p.token = NewToken
<1> DEFINE p == WithForm("code", code, r, fresh)
<1>1. r.tz \in Value \cup {None} /\ r.carried \in 0..MaxLayers /\ Carry(r) \in 0..MaxLayers
  BY MaxLayersAssumption DEF Requests, Carry
<1>2. /\ p \in Pages /\ p.kind = "code" /\ p.token = NewToken
      /\ p.code = Embed(code) /\ p.tz = Embed(r.tz) /\ p.carried = Carry(r)
  BY <1>1, FreshToken, EmbedFacts DEF WithForm, Pages
<1>3. ZoneOK(p) /\ (p.tz = None => p.carried = 0)
  BY <1>1, <1>2, ZoneCarried DEF RequestOK
<1>4. PageOK(p)
  BY <1>2, <1>3, EmbedKeepsVerdict DEF PageOK
<1>5. QED
  BY <1>2, <1>4

(* What the handler does with any request: it answers with a page of its    *)
(* kind and a token that nobody has, and stores at most one row, only for a *)
(* request that came through all checks.                                    *)
LEMMA ServeEffect ==
  ASSUME TypeOK, SessionInv, NEW t \in Tabs, Serve(t)
  PROVE  /\ req[t] # None
         /\ \E p \in Pages :
              /\ PageOK(p) /\ p.token \in {0, NewToken}
              /\ Respond(t, p)
         /\ \/ rows' = rows
            \/ Accepted(req[t]) /\ rows' = rows \cup {Row(req[t])}
<1> DEFINE r == req[t]
<1>1. CASE Forbid(t)
  BY <1>1, BareFacts DEF Forbid
<1>2. CASE AskCode(t)
  <2>1. r # None /\ HasCodeAccess /\ rows' = rows /\ Respond(t, WithForm("code", None, r, FALSE))
    BY <1>2 DEF AskCode
  <2>2. QED
    BY <2>1, RequestFacts, CodePageFacts
<1>3. CASE RejectCode(t)
  <2>1. /\ r # None /\ rows' = rows /\ r.post /\ ~CodeOK(r)
        /\ Respond(t, WithForm("code", r.code, r, Fresh(r)))
    BY <1>3 DEF RejectCode
  <2>2. HasCodeAccess /\ (r.code = None \/ ~ValidCode(r.code))
    BY <2>1 DEF CodeOK, CodeUsed
  <2>3. r.code \in Value \cup {None} /\ Fresh(r) \in BOOLEAN /\ r \in Requests /\ RequestOK(r)
    BY <2>1, RequestFacts
  <2>4. QED
    BY <2>1, <2>2, <2>3, CodePageFacts
<1>4. CASE ShowForm(t) \/ RejectForm(t)
  <2>1. r # None /\ CodeOK(r) /\ rows' = rows /\ Respond(t, FormPage(r))
    BY <1>4 DEF ShowForm, RejectForm, Processed
  <2>2. QED
    BY <2>1, FormPageFacts
<1>5. CASE StoreFails(t) \/ Store(t)
  <2>1. /\ r # None /\ Accepted(r) /\ Respond(t, ResultPage(r))
        /\ rows' = rows \/ rows' = rows \cup {Row(r)}
    BY <1>5 DEF StoreFails, Store
  <2>2. CodeOK(r)
    BY <2>1 DEF Accepted, Processed
  <2>3. QED
    BY <2>1, <2>2, ResultPageFacts
<1>6. QED
  BY <1>1, <1>2, <1>3, <1>4, <1>5 DEF Serve

(* What the browser sends: the session of the page, and the browser's time  *)
(* zone if the page has none.                                               *)
LEMMA SubmitEffect ==
  ASSUME TypeOK, SessionInv, NEW t \in Tabs, Open(t) \/ Submit(t)
  PROVE  /\ UNCHANGED <<cookie, tab, reply, rows>>
         /\ \E r \in Requests : RequestOK(r) /\ req' = [req EXCEPT ![t] = r]
<1>1. CASE Open(t)
  <2> DEFINE r == [post |-> FALSE, from |-> "url", xsrf |-> FALSE, code |-> None, tz |-> None,
                   carried |-> 0, fresh |-> FALSE, typed |-> None, captcha |-> FALSE]
  <2>1. r \in Requests /\ RequestOK(r)
    BY MaxLayersAssumption DEF Requests, RequestOK, ZoneOK
  <2>2. UNCHANGED <<cookie, tab, reply, rows>> /\ req' = [req EXCEPT ![t] = r]
    BY <1>1 DEF Open, Send
  <2>3. QED
    BY <2>1, <2>2
<1>2. ASSUME NEW c \in Typed, NEW solved \in BOOLEAN, Post(t, c, solved)
      PROVE  /\ UNCHANGED <<cookie, tab, reply, rows>>
             /\ \E r \in Requests : RequestOK(r) /\ req' = [req EXCEPT ![t] = r]
  <2> DEFINE p == tab[t]
             zone == IF p.kind = "form" /\ p.tz = None THEN Plain(Zone) ELSE p.tz
             typed == IF p.kind = "code" THEN Plain(c) ELSE None
             r == [post |-> TRUE, from |-> p.kind, xsrf |-> cookie = p.token,
                   code |-> p.code, fresh |-> p.fresh, tz |-> zone,
                   carried |-> p.carried, typed |-> typed,
                   captcha |-> solved]
  <2>1. /\ p \in Pages /\ PageOK(p) /\ p.token # 0
        /\ UNCHANGED <<cookie, tab, reply, rows>> /\ req' = [req EXCEPT ![t] = r]
    BY <1>2 DEF TypeOK, SessionInv, Post, Send
  <2>2. /\ p.code \in Value \cup {None} /\ p.tz \in Value \cup {None} /\ p.fresh \in BOOLEAN
        /\ p.carried \in 0..MaxLayers
        /\ p.kind \in {"blank", "code", "form", "result", "forbidden"}
    BY <2>1 DEF Pages
  <2>3. p.kind \in {"code", "form", "result"} /\ (p.kind = "result" => HasCodeAccess)
    BY <2>1, <2>2 DEF PageOK
  <2>4. \A v \in Codes \cup Typed \cup {Zone} : Plain(v) \in Value /\ Plain(v) # None
    <3>1. \A v \in Codes \cup Typed \cup {Zone} : Plain(v) \in Value
      BY MaxLayersAssumption DEF Plain, Value
    <3>2. QED
      BY <3>1, NoneIsNoRecord
  <2>5. /\ zone \in Value \cup {None} /\ (p.kind = "form" => zone # None)
        /\ zone = None => p.carried = 0
        /\ zone # None => zone.v = Zone /\ zone.n = (IF Zone \in Safe THEN 0 ELSE p.carried)
    BY <2>1, <2>2, <2>4 DEF PageOK, ZoneOK, Plain
  <2>6. typed \in Value \cup {None}
    BY <2>4
  <2> HIDE DEF zone, typed
  <2>7. r \in Requests
    BY <2>2, <2>3, <2>5, <2>6 DEF Requests
  <2>8. RequestOK(r)
    BY <2>1, <2>3, <2>5 DEF PageOK, RequestOK, ZoneOK
  <2>9. QED
    BY <2>1, <2>7, <2>8
<1>3. QED
  BY <1>1, <1>2 DEF Submit

-----------------------------------------------------------------------------
(* The steps of the invariant.                                              *)

LEMMA TypeStep == TypeOK /\ SessionInv /\ [Next]_vars => TypeOK'
<1> SUFFICES ASSUME TypeOK, SessionInv, [Next]_vars PROVE TypeOK'
  OBVIOUS
<1>0. /\ cookie \in Tokens \cup {0} /\ tab \in [Tabs -> Pages]
      /\ req \in [Tabs -> Requests \cup {None}]
      /\ reply \in [Tabs -> Pages \cup {None}] /\ rows \subseteq Rows
  BY DEF TypeOK
<1>1. ASSUME NEW t \in Tabs, Open(t) \/ Submit(t) PROVE TypeOK'
  BY <1>0, <1>1, SubmitEffect DEF TypeOK
<1>2. ASSUME NEW t \in Tabs, Serve(t) PROVE TypeOK'
  <2>1. /\ UNCHANGED <<cookie, tab>>
        /\ reply' \in [Tabs -> Pages \cup {None}] /\ req' \in [Tabs -> Requests \cup {None}]
    BY <1>0, <1>2, ServeEffect DEF Respond
  <2>2. req[t] # None => Row(req[t]) \in Rows
    BY RequestFacts DEF Row, Rows, ZoneUsed, Requests
  <2>3. rows' \subseteq Rows
    BY <1>0, <1>2, <2>2, ServeEffect
  <2>4. QED
    BY <1>0, <2>1, <2>3 DEF TypeOK
<1>3. ASSUME NEW t \in Tabs, ReplyArrives(t) \/ ReplyLost(t) PROVE TypeOK'
  <2>1. reply[t] \in Pages /\ reply[t].token \in Tokens \cup {0}
    BY <1>0, <1>3 DEF ReplyArrives, ReplyLost, Pages
  <2>2. CASE ReplyArrives(t)
    BY <1>0, <2>1, <2>2 DEF ReplyArrives, TypeOK
  <2>3. CASE ReplyLost(t)
    BY <1>0, <2>1, <2>3 DEF ReplyLost, TypeOK
  <2>4. QED
    BY <1>3, <2>2, <2>3
<1>4. CASE CookieExpires
  BY <1>0, <1>4 DEF CookieExpires, TypeOK
<1>5. CASE UNCHANGED vars
  BY <1>0, <1>5 DEF vars, TypeOK
<1>6. QED
  BY <1>1, <1>2, <1>3, <1>4, <1>5 DEF Next

(* Every page, and every request, carries a session that its kind allows.   *)
LEMMA SessionStep == TypeOK /\ SessionInv /\ [Next]_vars => SessionInv'
<1> SUFFICES ASSUME TypeOK, SessionInv, [Next]_vars PROVE SessionInv'
  OBVIOUS
<1>0. /\ tab \in [Tabs -> Pages] /\ req \in [Tabs -> Requests \cup {None}]
      /\ reply \in [Tabs -> Pages \cup {None}]
      /\ \A t \in Tabs : PageOK(tab[t])
      /\ \A t \in Tabs : reply[t] # None => PageOK(reply[t])
      /\ \A t \in Tabs : req[t] # None => RequestOK(req[t])
  BY DEF TypeOK, SessionInv
<1>1. ASSUME NEW t \in Tabs, Open(t) \/ Submit(t) PROVE SessionInv'
  <2>1. PICK r \in Requests : RequestOK(r) /\ req' = [req EXCEPT ![t] = r]
    BY <1>1, SubmitEffect
  <2>2. UNCHANGED <<tab, reply>>
    BY <1>1, SubmitEffect
  <2>3. QED
    BY <1>0, <2>1, <2>2 DEF SessionInv
<1>2. ASSUME NEW t \in Tabs, Serve(t) PROVE SessionInv'
  <2>1. PICK p \in Pages : PageOK(p) /\ Respond(t, p)
    BY <1>2, ServeEffect
  <2>2. QED
    BY <1>0, <2>1 DEF SessionInv, Respond
<1>3. ASSUME NEW t \in Tabs, ReplyArrives(t) PROVE SessionInv'
  BY <1>0, <1>3 DEF ReplyArrives, SessionInv
<1>4. ASSUME NEW t \in Tabs, ReplyLost(t) PROVE SessionInv'
  BY <1>0, <1>4 DEF ReplyLost, SessionInv
<1>5. CASE CookieExpires \/ UNCHANGED vars
  BY <1>0, <1>5 DEF CookieExpires, vars, SessionInv
<1>6. QED
  BY <1>1, <1>2, <1>3, <1>4, <1>5 DEF Next

(* The token of a new page is nobody else's, and stays with its page.       *)
LEMMA TokenStep == TypeOK /\ SessionInv /\ TokenInv /\ [Next]_vars => TokenInv'
<1> SUFFICES ASSUME TypeOK, SessionInv, TokenInv, [Next]_vars PROVE TokenInv'
  OBVIOUS
<1>0. tab \in [Tabs -> Pages] /\ reply \in [Tabs -> Pages \cup {None}]
  BY DEF TypeOK
<1>1. ASSUME UNCHANGED <<tab, reply>> PROVE TokenInv'
  BY <1>1 DEF TokenInv
<1>2. ASSUME NEW t \in Tabs, Serve(t) PROVE TokenInv'
  <2>1. PICK p \in Pages : p.token \in {0, NewToken} /\ Respond(t, p)
    BY <1>2, ServeEffect
  <2>2. /\ \A u \in Tabs : tab[u].token # NewToken
        /\ \A u \in Tabs : reply[u] # None => reply[u].token # NewToken
    BY FreshToken DEF TokensInUse
  <2>3. tab' = tab /\ reply' = [reply EXCEPT ![t] = p]
    BY <2>1 DEF Respond
  <2>4. QED
    BY <1>0, <2>1, <2>2, <2>3 DEF TokenInv
<1>3. ASSUME NEW t \in Tabs, ReplyArrives(t) PROVE TokenInv'
  <2>1. /\ reply[t] # None /\ tab' = [tab EXCEPT ![t] = reply[t]]
        /\ reply' = [reply EXCEPT ![t] = None]
    BY <1>3 DEF ReplyArrives
  <2>2. QED
    BY <1>0, <2>1 DEF TokenInv
<1>4. ASSUME NEW t \in Tabs, ReplyLost(t) PROVE TokenInv'
  BY <1>0, <1>4 DEF ReplyLost, TokenInv
<1>5. ASSUME NEW t \in Tabs, Open(t) \/ Submit(t) PROVE TokenInv'
  BY <1>1, <1>5, SubmitEffect
<1>6. CASE CookieExpires \/ UNCHANGED vars
  BY <1>1, <1>6 DEF CookieExpires, vars
<1>7. QED
  BY <1>2, <1>3, <1>4, <1>5, <1>6 DEF Next

(* A row is stored for a post of the form page alone, whose zone is lost    *)
(* if and only if two pages have escaped it.                                *)
LEMMA RowStep == TypeOK /\ SessionInv /\ RowInv /\ [Next]_vars => RowInv'
<1> SUFFICES ASSUME TypeOK, SessionInv, RowInv, [Next]_vars PROVE RowInv'
  OBVIOUS
<1>1. ASSUME rows' = rows PROVE RowInv'
  BY <1>1 DEF RowInv
<1>2. ASSUME NEW t \in Tabs, Serve(t), Accepted(req[t]), rows' = rows \cup {Row(req[t])}
      PROVE  RowInv'
  <2> DEFINE r == req[t]
  <2>1. /\ r \in Requests /\ RequestOK(r) /\ r.tz \in Value \cup {None}
        /\ CodeOK(r) /\ r.post /\ ~Fresh(r)
    BY <1>2, ServeEffect, RequestFacts DEF Accepted, Processed
  <2>2. r.from \in {"url", "code", "form", "result"}
    BY <2>1 DEF Requests
  <2>3. r.from = "form"
    BY <2>1, <2>2 DEF RequestOK, Fresh, CodeOK, CodeUsed
  <2>4. ZoneUsed(r.tz) = "client" <=> (Zone \in Safe \/ r.carried <= 1)
    <3>1. r.tz # None /\ r.tz.n = (IF Zone \in Safe THEN 0 ELSE r.carried)
      BY <2>1, <2>3 DEF RequestOK, ZoneOK
    <3>2. QED
      BY <3>1 DEF ZoneUsed
  <2>5. QED
    BY <1>2, <2>3, <2>4 DEF RowInv, Row
<1>3. ASSUME NEW t \in Tabs, Serve(t) PROVE RowInv'
  BY <1>1, <1>2, <1>3, ServeEffect
<1>4. ASSUME NEW t \in Tabs, Open(t) \/ Submit(t) \/ ReplyArrives(t) \/ ReplyLost(t) PROVE RowInv'
  BY <1>1, <1>4, SubmitEffect DEF ReplyArrives, ReplyLost
<1>5. CASE CookieExpires \/ UNCHANGED vars
  BY <1>1, <1>5 DEF CookieExpires, vars
<1>6. QED
  BY <1>3, <1>4, <1>5 DEF Next

LEMMA InitIInv == Init => IInv
<1> SUFFICES ASSUME Init PROVE IInv
  OBVIOUS
<1>1. \A t \in Tabs : tab[t] = Bare("blank") /\ req[t] = None /\ reply[t] = None
  BY DEF Init
<1>2. TypeOK
  BY BareFacts DEF Init, TypeOK
<1>3. SessionInv
  BY <1>1, BareFacts DEF SessionInv
<1>4. TokenInv
  BY <1>1, BareFacts DEF TokenInv
<1>5. RowInv
  BY DEF Init, RowInv
<1>6. QED
  BY <1>2, <1>3, <1>4, <1>5 DEF IInv

LEMMA Invariance == Spec => []IInv
<1>1. IInv /\ [Next]_vars => IInv'
  BY TypeStep, SessionStep, TokenStep, RowStep DEF IInv
<1>2. QED
  BY InitIInv, <1>1, PTL DEF Spec

-----------------------------------------------------------------------------
(* The invariants that the runs check.                                      *)

(* Every page, request and row keeps its type; in particular a page never   *)
(* needs more tokens than the model has.                                    *)
THEOREM TypeCorrect == Spec => []TypeOK
<1>1. IInv => TypeOK
  BY DEF IInv
<1>2. QED
  BY Invariance, <1>1, PTL

(* A row comes from the form page, never from the page that asks for the    *)
(* code or from "send one more time", in any order of any number of tabs.   *)
THEOREM FormsSubmit == Spec => []OnlyFormsSubmit
<1>1. IInv => OnlyFormsSubmit
  BY DEF IInv, RowInv, OnlyFormsSubmit
<1>2. QED
  BY Invariance, <1>1, PTL

(* Whoever was let in stays in, for codes that escaping leaves alone.  For  *)
(* other codes the claim is wrong: the invariant's AcceptedCode says what   *)
(* remains of it.                                                           *)
THEOREM SafeCodesCarried == Spec => [](Codes \subseteq Safe => CodeCarried)
<1>1. IInv => (Codes \subseteq Safe => CodeCarried)
  <2> SUFFICES ASSUME IInv, Codes \subseteq Safe, NEW t \in Tabs,
                      HasCodeAccess, tab[t].kind \in {"form", "result"}
               PROVE  ValidCode(tab[t].code)
    BY DEF CodeCarried
  <2>1. AcceptedCode(tab[t].code)
    BY DEF IInv, SessionInv, PageOK
  <2>2. tab[t].code \in Value \cup {None}
    BY DEF IInv, TypeOK, Pages
  <2>3. QED
    BY <2>1, <2>2, ValidFacts DEF AcceptedCode
<1>2. QED
  BY Invariance, <1>1, PTL

(* For every time zone and any number of tabs, pages and rejections: the    *)
(* user's zone is what the dates of a row are read in if and only if        *)
(* escaping leaves its name alone or at most one page has carried it.       *)
THEOREM ZoneSurvivesOnePage == Spec => []ZoneKept
<1>1. IInv => ZoneKept
  BY DEF IInv, RowInv, ZoneKept
<1>2. QED
  BY Invariance, <1>1, PTL

(* Of all pages that are open at most one matches the cookie.               *)
THEOREM AtMostOneLiveForm == Spec => []OneLiveForm
<1>1. IInv => OneLiveForm
  BY DEF IInv, TokenInv, OneLiveForm
<1>2. QED
  BY Invariance, <1>1, PTL

(* A post of the form page is never taken for a first visit.                *)
THEOREM NoInputDropped == Spec => []InputCounts
<1>1. IInv => InputCounts
  BY DEF IInv, SessionInv, RequestOK, AcceptedCode, InputCounts, Fresh
<1>2. QED
  BY Invariance, <1>1, PTL

=============================================================================
