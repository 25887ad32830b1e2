---------------------------- MODULE FormFieldsProofs ----------------------------
(***************************************************************************)
(* Proofs about FormFields, for any words, any definitions of a field and  *)
(* posts of any length.                                                    *)
(***************************************************************************)
EXTENDS FormFields, SequenceTheorems, WellFoundedInduction, TLAPS

-----------------------------------------------------------------------------
(* Loops.  Induction up to a bound, with a set in the place of a predicate: *)
(* otherwise there would be a least number that is not in it.               *)
LEMMA BoundedInduction ==
  ASSUME NEW n \in Nat, NEW G, 0 \in G, \A i \in 1 .. n : i - 1 \in G => i \in G
  PROVE  \A i \in 0 .. n : i \in G
<1> DEFINE T == {i \in 0 .. n : i \notin G}
<1> SUFFICES ASSUME T # {} PROVE FALSE
  OBVIOUS
<1>1. PICK i \in T : \A j \in T : ~ (<<j, i>> \in OpToRel(<, Nat))
  <2>1. T \subseteq Nat
    OBVIOUS
  <2>2. QED
    BY <2>1, NatLessThanWellFounded, WFMin
<1>2. i \in 1 .. n /\ i \notin G
  OBVIOUS
<1>3. i - 1 \in T
  BY <1>2
<1>4. <<i - 1, i>> \in OpToRel(<, Nat)
  BY <1>2 DEF OpToRel
<1>5. QED
  BY <1>1, <1>3, <1>4

(* g[i] is what a loop over n values has made of a after i of them.         *)
Runs(n, S, a, step, g) ==
  /\ g \in [0 .. n -> S]
  /\ g[0] = a
  /\ \A i \in 1 .. n : g[i] = step[i][g[i - 1]]

(* A loop that goes over n values and changes a variable of type S at each  *)
(* of them has a result: the recursive functions of the model are defined.  *)
LEMMA LoopRuns ==
  ASSUME NEW n \in Nat, NEW S, NEW a \in S, NEW step \in [1 .. n -> [S -> S]]
  PROVE  \E g : Runs(n, S, a, step, g)
<1> DEFINE G == {k \in 0 .. n : \E g : Runs(k, S, a, step, g)}
<1>1. 0 \in G
  <2> DEFINE g == [i \in 0 .. 0 |-> a]
  <2>1. g \in [0 .. 0 -> S]
    OBVIOUS
  <2>2. g[0] = a
    OBVIOUS
  <2> HIDE DEF g
  <2>3. QED
    BY <2>1, <2>2 DEF Runs
<1>2. ASSUME NEW k \in 1 .. n, k - 1 \in G PROVE k \in G
  <2>1. PICK g : Runs(k - 1, S, a, step, g)
    BY <1>2
  <2>2x. g \in [0 .. (k - 1) -> S] /\ g[0] = a /\ \A i \in 1 .. (k - 1) : g[i] = step[i][g[i - 1]]
    BY <2>1 DEF Runs
  <2> DEFINE e == step[k][g[k - 1]]
             h == [i \in 0 .. k |-> IF i = k THEN e ELSE g[i]]
  <2>2. e \in S
    <3>1. k - 1 \in 0 .. (k - 1)
      OBVIOUS
    <3>2. g[k - 1] \in S
      BY <2>2x, <3>1
    <3>3. QED
      BY <3>2
  <2>3. h \in [0 .. k -> S]
    <3>1. ASSUME NEW i \in 0 .. k PROVE (IF i = k THEN e ELSE g[i]) \in S
      <4>1. i # k => i \in 0 .. (k - 1)
        OBVIOUS
      <4> HIDE DEF e
      <4>2. QED
        BY <2>2x, <2>2, <4>1
    <3> HIDE DEF e
    <3>2. QED
      BY <3>1
  <2>4. \A i \in 0 .. (k - 1) : h[i] = g[i]
    <3> HIDE DEF e
    <3>1. QED
      OBVIOUS
  <2>5. h[k] = e
    <3> HIDE DEF e
    <3>1. QED
      OBVIOUS
  <2>6. \A i \in 1 .. k : h[i] = step[i][h[i - 1]]
    <3>1. ASSUME NEW i \in 1 .. k, i # k PROVE h[i] = step[i][h[i - 1]]
      <4>1. i \in 1 .. (k - 1) /\ i \in 0 .. (k - 1) /\ i - 1 \in 0 .. (k - 1)
        BY <3>1
      <4> HIDE DEF h
      <4>2. QED
        BY <2>2x, <2>4, <4>1
    <3>2. h[k] = step[k][h[k - 1]]
      <4>1. k - 1 \in 0 .. (k - 1)
        OBVIOUS
      <4> HIDE DEF h
      <4>2. QED
        BY <2>4, <2>5, <4>1
    <3> HIDE DEF h
    <3>3. QED
      BY <3>1, <3>2
  <2>7. h[0] = a
    <3> HIDE DEF h
    <3>1. QED
      BY <2>2x, <2>4
  <2> HIDE DEF h
  <2>8. QED
    BY <2>3, <2>6, <2>7 DEF Runs
<1>3. n \in G
  <2> HIDE DEF G
  <2>1. \A k \in 0 .. n : k \in G
    BY <1>1, <1>2, BoundedInduction
  <2>2. QED
    BY <2>1
<1>4. QED
  BY <1>3

(* An appended element joins the set of the others.                         *)
LEMMA ToSetAppend ==
  ASSUME NEW S, NEW s \in Seq(S), NEW e \in S
  PROVE  ToSet(Append(s, e)) = ToSet(s) \cup {e}
<1>1. /\ DOMAIN Append(s, e) = 1 .. (Len(s) + 1)
      /\ DOMAIN s = 1 .. Len(s) /\ Len(s) \in Nat
      /\ Append(s, e)[Len(s) + 1] = e
      /\ \A i \in 1 .. Len(s) : Append(s, e)[i] = s[i]
  OBVIOUS
<1>2. QED
  BY <1>1 DEF ToSet

(* What a sequence and the set of its elements say of each other.           *)
LEMMA ToSetFacts ==
  ASSUME NEW S, NEW s \in Seq(S)
  PROVE  /\ ToSet(s) \subseteq S
         /\ ToSet(s) = {} <=> s = <<>>
         /\ s # <<>> => Head(s) \in ToSet(s) /\ Len(s) >= 1 /\ Head(s) = s[1]
         /\ ToSet(<<>>) = {}
         /\ \A e \in S : ToSet(<<e>>) = {e}
<1>1. DOMAIN s = 1 .. Len(s) /\ Len(s) \in Nat /\ \A i \in 1 .. Len(s) : s[i] \in S
  OBVIOUS
<1>2. s # <<>> => Len(s) >= 1 /\ Head(s) = s[1]
  BY EmptySeq
<1>3. ToSet(s) \subseteq S
  BY <1>1 DEF ToSet
<1>4. s # <<>> => s[1] \in ToSet(s)
  BY <1>1, <1>2 DEF ToSet
<1>5. ToSet(<<>>) = {}
  BY DEF ToSet
<1>6. \A e \in S : ToSet(<<e>>) = {e}
  <2> SUFFICES ASSUME NEW e \in S PROVE ToSet(<<e>>) = {e}
    OBVIOUS
  <2>1. DOMAIN <<e>> = {1} /\ <<e>>[1] = e
    OBVIOUS
  <2>2. QED
    BY <2>1 DEF ToSet
<1>7. QED
  BY <1>2, <1>3, <1>4, <1>5, <1>6
(* A sequence of at most one element, of which the set is known.            *)
LEMMA OnlyElement ==
  ASSUME NEW S, NEW s \in Seq(S), Len(s) <= 1, NEW e \in S, ToSet(s) = {e}
  PROVE  s = <<e>>
<1>1. s # <<>>
  BY ToSetFacts
<1>2. Len(s) # 0
  BY <1>1, EmptySeq
<1>3. Len(s) = 1 /\ s[1] \in ToSet(s)
  BY <1>2 DEF ToSet
<1>4. <<e>> \in Seq(S) /\ Len(<<e>>) = 1 /\ <<e>>[1] = e /\ s[1] = e
  BY <1>3
<1>5. QED
  BY <1>3, <1>4, SeqEqual

(* The same of its head: a field with one value takes it.                   *)
LEMMA OnlyHead ==
  ASSUME NEW S, NEW s \in Seq(S), Len(s) <= 1
  PROVE  s # <<>> => s = <<Head(s)>>
<1>1. s # <<>> => Len(s) # 0
  BY EmptySeq
<1>2. ASSUME Len(s) # 0 PROVE s = <<Head(s)>>
  <2>1. Len(s) = 1 /\ DOMAIN s = 1 .. 1
    <3>1. Len(s) \in Nat /\ DOMAIN s = 1 .. Len(s)
      BY LenProperties
    <3>2. \A n \in Nat : n <= 1 /\ n # 0 => n = 1
      OBVIOUS
    <3>3. QED
      BY <1>2, <3>1, <3>2, Zenon
  <2>2. ToSet(s) = {s[1]}
    BY <2>1 DEF ToSet
  <2>3. Head(s) = s[1] /\ Head(s) \in S
    BY <1>2, HeadTailProperties, EmptySeq
  <2>4. QED
    BY <2>2, <2>3, OnlyElement
<1>3. QED
  BY <1>1, <1>2

-----------------------------------------------------------------------------
(* ParseForm's loops.                                                       *)

(* Trimming twice is trimming once; neither the empty text nor "true" has   *)
(* blanks.                                                                  *)
LEMMA TextFacts ==
  /\ Empty \in Texts /\ Text("true") \in Texts /\ Text("false") \in Texts
  /\ \A t \in Texts : Trim(t) \in Texts /\ Trim(Trim(t)) = Trim(t)
  /\ Trim(Empty) = Empty /\ Trim(Text("true")) = Text("true") /\ Text("true") # Empty
  BY FieldWordsAssumption DEF Empty, Text, Texts, Trim

(* What the loop of parseValues has put out, step by step.                  *)
LEMMA TrimmedLoop ==
  ASSUME NEW f, NEW values \in Seq(Texts)
  PROVE  \E g \in [0 .. Len(values) -> Seq(Texts)] :
           /\ g[0] = <<>>
           /\ \A i \in 1 .. Len(values) :
                g[i] = IF Trim(values[i]) = Empty THEN g[i - 1]
                       ELSE Append(g[i - 1], Trim(values[i]))
           /\ Trimmed(f, values) = g[Len(values)]
<1> DEFINE n == Len(values)
           S == Seq(Texts)
           After(i, s) == IF Trim(values[i]) = Empty THEN s ELSE Append(s, Trim(values[i]))
           Q(h) == h = [i \in 0 .. Len(values) |->
                          IF i = 0 THEN <<>> ELSE After(i, h[i - 1])]
           step == [i \in 1 .. n |-> [s \in S |-> After(i, s)]]
<1>1. n \in Nat /\ \A i \in 1 .. n : Trim(values[i]) \in Texts
  BY TextFacts
<1>2. <<>> \in S
  OBVIOUS
<1>3. \A i \in 1 .. n : \A s \in S : After(i, s) \in S
  BY <1>1, AppendProperties
<1>4. /\ step \in [1 .. n -> [S -> S]]
      /\ \A i \in 1 .. n : \A s \in S : step[i][s] = After(i, s)
  <2> HIDE DEF After, S, n
  <2>1. QED
    BY <1>3
<1>5. PICK g : g \in [0 .. n -> S] /\ g[0] = <<>> /\ \A i \in 1 .. n : g[i] = step[i][g[i - 1]]
  <2> HIDE DEF step, S, n
  <2>1. \E g : Runs(n, S, <<>>, step, g)
    BY <1>1, <1>2, <1>4, LoopRuns
  <2>2. QED
    BY <2>1 DEF Runs
<1>6. \A i \in 1 .. n : g[i] = After(i, g[i - 1])
  <2> HIDE DEF step, S, After
  <2>1. \A i \in 1 .. n : i - 1 \in 0 .. n
    BY <1>1
  <2>2. QED
    BY <1>4, <1>5, <2>1
<1>7. Q(g)
  <2> DEFINE F(i) == IF i = 0 THEN <<>> ELSE After(i, g[i - 1])
  <2>1. \A i \in 0 .. n : g[i] = F(i)
    <3> HIDE DEF After, S, step
    <3>1. QED
      BY <1>1, <1>5, <1>6
  <2>2. g = [i \in 0 .. n |-> F(i)]
    <3> HIDE DEF F, S, step
    <3>1. QED
      BY <1>5, <2>1
  <2>3. QED
    BY <2>2
<1>8. PICK h : Q(h) /\ Trimmed(f, values) = h[Len(values)]
  <2> DEFINE c == CHOOSE h : Q(h)
  <2>1. Trimmed(f, values) = c[Len(values)]
    BY Zenon DEF Trimmed
  <2>2. Q(c)
    <3> HIDE DEF Q
    <3>1. QED
      BY <1>7, Zenon
  <2>3. QED
    BY <2>1, <2>2, Zenon
<1>9. \A i \in 0 .. n : h[i] = g[i]
  <2> DEFINE G == {i \in 0 .. n : h[i] = g[i]}
  <2>1. h[0] = <<>> /\ \A i \in 1 .. n : h[i] = After(i, h[i - 1])
    <3> HIDE DEF After, S, step
    <3>1. QED
      BY <1>1, <1>8
  <2>2. 0 \in G
    BY <1>1, <1>5, <2>1
  <2>3. \A i \in 1 .. n : i - 1 \in G => i \in G
    <3> HIDE DEF After, step, S
    <3>1. QED
      BY <1>1, <1>6, <2>1
  <2>4. \A i \in 0 .. n : i \in G
    <3> HIDE DEF G, n
    <3>1. QED
      BY <1>1, <2>2, <2>3, BoundedInduction
  <2>5. QED
    BY <2>4
<1>10. Trimmed(f, values) = g[Len(values)]
  BY <1>1, <1>8, <1>9
<1>11. QED
  <2> HIDE DEF step
  <2>1. QED
    BY <1>5, <1>6, <1>10
(* parseValues gives the trimmed values, the empty ones left out.           *)
LEMMA TrimmedFacts ==
  ASSUME NEW f, NEW values \in Seq(Texts)
  PROVE  /\ Trimmed(f, values) \in Seq(Texts)
         /\ Len(Trimmed(f, values)) <= Len(values)
         /\ ToSet(Trimmed(f, values)) = {Trim(t) : t \in ToSet(values)} \ {Empty}
<1> DEFINE n == Len(values)
           Done(i) == {Trim(values[j]) : j \in 1 .. i} \ {Empty}
<1>1. PICK g \in [0 .. n -> Seq(Texts)] :
        /\ g[0] = <<>>
        /\ \A i \in 1 .. n : g[i] = IF Trim(values[i]) = Empty THEN g[i - 1]
                                    ELSE Append(g[i - 1], Trim(values[i]))
        /\ Trimmed(f, values) = g[n]
  BY TrimmedLoop
<1>2. n \in Nat /\ DOMAIN values = 1 .. n /\ \A i \in 1 .. n : Trim(values[i]) \in Texts
  BY TextFacts
<1> DEFINE G == {i \in 0 .. n : Len(g[i]) <= i /\ ToSet(g[i]) = Done(i)}
<1>3. 0 \in G
  <2>1. ToSet(<<>>) = {} /\ Done(0) = {} /\ Len(<<>>) = 0
    BY DEF ToSet
  <2>2. QED
    BY <1>1, <1>2, <2>1
<1>4. ASSUME NEW i \in 1 .. n, i - 1 \in G PROVE i \in G
  <2>1. g[i - 1] \in Seq(Texts) /\ Len(g[i - 1]) <= i - 1 /\ ToSet(g[i - 1]) = Done(i - 1)
    <3>1. i - 1 \in 0 .. n
      BY <1>2
    <3>2. QED
      BY <1>1, <1>4, <3>1
  <2>2. Done(i) = (Done(i - 1) \cup {Trim(values[i])}) \ {Empty}
    <3>1. 1 .. i = (1 .. (i - 1)) \cup {i}
      BY <1>2
    <3>2. QED
      BY <3>1
  <2>3. CASE Trim(values[i]) = Empty
    <3>1. g[i] = g[i - 1] /\ Done(i) = Done(i - 1)
      BY <1>1, <2>2, <2>3
    <3> HIDE DEF Done
    <3>2. QED
      BY <1>2, <2>1, <3>1
  <2>4. CASE Trim(values[i]) # Empty
    <3>1. g[i] = Append(g[i - 1], Trim(values[i])) /\ Done(i) = Done(i - 1) \cup {Trim(values[i])}
      BY <1>1, <2>2, <2>4
    <3> HIDE DEF Done
    <3>2. ToSet(g[i]) = Done(i)
      BY <1>2, <2>1, <3>1, ToSetAppend
    <3>3. Len(g[i]) <= i
      BY <1>2, <2>1, <3>1
    <3>4. QED
      BY <1>2, <3>2, <3>3
  <2>5. QED
    BY <2>3, <2>4
<1>5. n \in G
  <2> HIDE DEF G, n
  <2>1. \A i \in 0 .. n : i \in G
    BY <1>2, <1>3, <1>4, BoundedInduction
  <2>2. QED
    BY <1>2, <2>1
<1>6. Done(n) = {Trim(t) : t \in ToSet(values)} \ {Empty}
  BY <1>2 DEF ToSet
<1>7. QED
  <2> HIDE DEF Done
  <2>1. QED
    BY <1>1, <1>2, <1>5, <1>6

(* What the loop of Uniq has put out, step by step.                         *)
LEMMA UniqLoop ==
  ASSUME NEW values \in Seq(Texts)
  PROVE  \E g \in [0 .. Len(values) -> Seq(Texts)] :
           /\ g[0] = <<>>
           /\ \A i \in 1 .. Len(values) :
                g[i] = IF values[i] \in ToSet(g[i - 1]) THEN g[i - 1]
                       ELSE Append(g[i - 1], values[i])
           /\ Uniq(values) = g[Len(values)]
<1> DEFINE n == Len(values)
           S == Seq(Texts)
           After(i, s) == IF values[i] \in ToSet(s) THEN s ELSE Append(s, values[i])
           Q(h) == h = [i \in 0 .. Len(values) |->
                          IF i = 0 THEN <<>> ELSE After(i, h[i - 1])]
           step == [i \in 1 .. n |-> [s \in S |-> After(i, s)]]
<1>1. n \in Nat /\ \A i \in 1 .. n : values[i] \in Texts
  OBVIOUS
<1>2. <<>> \in S
  OBVIOUS
<1>3. \A i \in 1 .. n : \A s \in S : After(i, s) \in S
  BY <1>1, AppendProperties
<1>4. /\ step \in [1 .. n -> [S -> S]]
      /\ \A i \in 1 .. n : \A s \in S : step[i][s] = After(i, s)
  <2> HIDE DEF After, S, n
  <2>1. QED
    BY <1>3
<1>5. PICK g : g \in [0 .. n -> S] /\ g[0] = <<>> /\ \A i \in 1 .. n : g[i] = step[i][g[i - 1]]
  <2> HIDE DEF step, S, n
  <2>1. \E g : Runs(n, S, <<>>, step, g)
    BY <1>1, <1>2, <1>4, LoopRuns
  <2>2. QED
    BY <2>1 DEF Runs
<1>6. \A i \in 1 .. n : g[i] = After(i, g[i - 1])
  <2> HIDE DEF step, S, After
  <2>1. \A i \in 1 .. n : i - 1 \in 0 .. n
    BY <1>1
  <2>2. QED
    BY <1>4, <1>5, <2>1
<1>7. Q(g)
  <2> DEFINE F(i) == IF i = 0 THEN <<>> ELSE After(i, g[i - 1])
  <2>1. \A i \in 0 .. n : g[i] = F(i)
    <3> HIDE DEF After, S, step
    <3>1. QED
      BY <1>1, <1>5, <1>6
  <2>2. g = [i \in 0 .. n |-> F(i)]
    <3> HIDE DEF F, S, step
    <3>1. QED
      BY <1>5, <2>1
  <2>3. QED
    BY <2>2
<1>8. PICK h : Q(h) /\ Uniq(values) = h[Len(values)]
  <2> DEFINE c == CHOOSE h : Q(h)
  <2>1. Uniq(values) = c[Len(values)]
    BY Zenon DEF Uniq
  <2>2. Q(c)
    <3> HIDE DEF Q
    <3>1. QED
      BY <1>7, Zenon
  <2>3. QED
    BY <2>1, <2>2, Zenon
<1>9. \A i \in 0 .. n : h[i] = g[i]
  <2> DEFINE G == {i \in 0 .. n : h[i] = g[i]}
  <2>1. h[0] = <<>> /\ \A i \in 1 .. n : h[i] = After(i, h[i - 1])
    <3> HIDE DEF After, S, step
    <3>1. QED
      BY <1>1, <1>8
  <2>2. 0 \in G
    BY <1>1, <1>5, <2>1
  <2>3. \A i \in 1 .. n : i - 1 \in G => i \in G
    <3> HIDE DEF After, step, S
    <3>1. QED
      BY <1>1, <1>6, <2>1
  <2>4. \A i \in 0 .. n : i \in G
    <3> HIDE DEF G, n
    <3>1. QED
      BY <1>1, <2>2, <2>3, BoundedInduction
  <2>5. QED
    BY <2>4
<1>10. Uniq(values) = g[Len(values)]
  BY <1>1, <1>8, <1>9
<1>11. QED
  <2> HIDE DEF step
  <2>1. QED
    BY <1>5, <1>6, <1>10

(* Uniq gives each of the values, once.                                     *)
LEMMA UniqFacts ==
  ASSUME NEW values \in Seq(Texts)
  PROVE  /\ Uniq(values) \in Seq(Texts)
         /\ Len(Uniq(values)) <= Len(values)
         /\ ToSet(Uniq(values)) = ToSet(values)
<1> DEFINE n == Len(values)
           Done(i) == {values[j] : j \in 1 .. i}
<1>1. PICK g \in [0 .. n -> Seq(Texts)] :
        /\ g[0] = <<>>
        /\ \A i \in 1 .. n : g[i] = IF values[i] \in ToSet(g[i - 1]) THEN g[i - 1]
                                    ELSE Append(g[i - 1], values[i])
        /\ Uniq(values) = g[n]
  BY UniqLoop
<1>2. n \in Nat /\ DOMAIN values = 1 .. n /\ \A i \in 1 .. n : values[i] \in Texts
  OBVIOUS
<1> DEFINE G == {i \in 0 .. n : Len(g[i]) <= i /\ ToSet(g[i]) = Done(i)}
<1>3. 0 \in G
  <2>1. ToSet(<<>>) = {} /\ Done(0) = {} /\ Len(<<>>) = 0
    BY DEF ToSet
  <2>2. QED
    BY <1>1, <1>2, <2>1
<1>4. ASSUME NEW i \in 1 .. n, i - 1 \in G PROVE i \in G
  <2>1. g[i - 1] \in Seq(Texts) /\ Len(g[i - 1]) <= i - 1 /\ ToSet(g[i - 1]) = Done(i - 1)
    <3>1. i - 1 \in 0 .. n
      BY <1>2
    <3>2. QED
      BY <1>1, <1>4, <3>1
  <2>2. Done(i) = Done(i - 1) \cup {values[i]}
    <3>1. 1 .. i = (1 .. (i - 1)) \cup {i}
      BY <1>2
    <3>2. QED
      BY <3>1
  <2>3. CASE values[i] \in ToSet(g[i - 1])
    <3>1. g[i] = g[i - 1] /\ Done(i) = Done(i - 1)
      BY <1>1, <2>1, <2>2, <2>3
    <3> HIDE DEF Done
    <3>2. QED
      BY <1>2, <2>1, <3>1
  <2>4. CASE values[i] \notin ToSet(g[i - 1])
    <3>1. g[i] = Append(g[i - 1], values[i]) /\ Done(i) = Done(i - 1) \cup {values[i]}
      BY <1>1, <2>2, <2>4
    <3> HIDE DEF Done
    <3>2. ToSet(g[i]) = Done(i)
      BY <1>2, <2>1, <3>1, ToSetAppend
    <3>3. Len(g[i]) <= i
      BY <1>2, <2>1, <3>1
    <3>4. QED
      BY <1>2, <3>2, <3>3
  <2>5. QED
    BY <2>3, <2>4
<1>5. n \in G
  <2> HIDE DEF G, n
  <2>1. \A i \in 0 .. n : i \in G
    BY <1>2, <1>3, <1>4, BoundedInduction
  <2>2. QED
    BY <1>2, <2>1
<1>6. Done(n) = ToSet(values)
  BY <1>2 DEF ToSet
<1>7. QED
  <2> HIDE DEF Done
  <2>1. QED
    BY <1>1, <1>2, <1>5, <1>6

-----------------------------------------------------------------------------
(* The page.                                                                *)

(* The page with a multiple choice cannot be rendered: only its definition  *)
(* is ever seen by a user.                                                  *)
CanFill(f) == f.hidden \/ Widget(f) # "checkboxes"

(* What a browser sends back is what the template compares with.            *)
ShownByValue(f) == \A i \in DOMAIN f.options : OptionValue(f.options[i]) = f.options[i].value

(* A definition's options and default are texts; the page and ParseForm see *)
(* the same options.                                                        *)
LEMMA FieldFacts ==
  ASSUME NEW f \in Definition
  PROVE  /\ f.default # Broken => DefaultText(f) \in Texts
         /\ f.options # <<>> => 1 \in DOMAIN f.options
         /\ \A i \in DOMAIN f.options : OnPage(f)[i] \in Texts
         /\ \A i \in DOMAIN f.options : OnPage(f)[i] = OptionValue(f.options[i])
         /\ ToSet(OnPage(f)) = OptionValues(f) /\ OptionValues(f) \subseteq Texts
         /\ \A v \in OptionValues(f) : \E i \in DOMAIN f.options : v = OptionValue(f.options[i])
         /\ \E n \in Nat : DOMAIN f.options = 1 .. n
<1> DEFINE O == [label : Texts, value : Texts]
<1>1. f.options \in Seq(O) /\ f.default \in Texts \cup {None, Broken}
  BY DEF Definition
<1>2. /\ DOMAIN f.options = 1 .. Len(f.options) /\ Len(f.options) \in Nat
      /\ \A i \in DOMAIN f.options : f.options[i] \in O
  <2> HIDE DEF O
  <2>1. QED
    BY <1>1
<1>3. \A i \in DOMAIN f.options : OptionValue(f.options[i]) \in Texts
  BY <1>2 DEF OptionValue
<1>4. \A i \in DOMAIN f.options : OnPage(f)[i] = OptionValue(f.options[i])
  BY DEF OnPage
<1>5. DOMAIN OnPage(f) = DOMAIN f.options
  BY DEF OnPage
<1>6. ToSet(OnPage(f)) = OptionValues(f)
  BY <1>4, <1>5 DEF ToSet, OptionValues
<1>7. f.options # <<>> => 1 \in DOMAIN f.options
  <2>1. f.options # <<>> => Len(f.options) # 0
    BY <1>1, EmptySeq
  <2>2. QED
    BY <1>2, <2>1
<1>8. f.default # Broken => DefaultText(f) \in Texts
  BY <1>1, TextFacts DEF DefaultText
<1>9. /\ OptionValues(f) \subseteq Texts
      /\ \A v \in OptionValues(f) : \E i \in DOMAIN f.options : v = OptionValue(f.options[i])
  BY <1>3 DEF OptionValues
<1>10. QED
  BY <1>2, <1>3, <1>4, <1>6, <1>7, <1>8, <1>9

(* A browser selects one of the options, and a marked one if there is one.  *)
LEMMA SelectedFacts ==
  ASSUME NEW f \in Definition, f.options # <<>>, NEW wanted
  PROVE  \E i \in DOMAIN f.options :
           /\ Selected(f, wanted) = <<OptionValue(f.options[i])>>
           /\ (\E j \in DOMAIN f.options : f.options[j].value = wanted)
                => f.options[i].value = wanted
<1> DEFINE marked == {i \in DOMAIN f.options : f.options[i].value = wanted}
           Latest(i) == \A j \in marked : j <= i
           chosen == IF marked = {} THEN 1 ELSE CHOOSE i \in marked : Latest(i)
<1>1. PICK n \in Nat : DOMAIN f.options = 1 .. n
  BY FieldFacts
<1>2. ASSUME marked # {} PROVE \E i \in marked : Latest(i)
  <2> DEFINE back == {k \in Nat : \E i \in marked : k = n - i}
  <2>1. back # {}
    BY <1>1, <1>2
  <2>2. PICK k \in back : \A l \in back : ~ (<<l, k>> \in OpToRel(<, Nat))
    <3>1. back \subseteq Nat
      OBVIOUS
    <3> HIDE DEF back
    <3>2. QED
      BY <2>1, <3>1, NatLessThanWellFounded, WFMin
  <2>3. PICK i \in marked : k = n - i
    OBVIOUS
  <2>4. ASSUME NEW j \in marked PROVE j <= i
    <3>1. n - j \in back
      BY <1>1
    <3>2. ~ (<<n - j, k>> \in OpToRel(<, Nat))
      BY <2>2, <3>1
    <3>3. ~ (n - j < k)
      BY <3>1, <3>2 DEF OpToRel
    <3>4. QED
      BY <1>1, <2>3, <3>3
  <2>5. QED
    BY <2>4
<1>3. marked # {} => chosen \in marked
  <2> HIDE DEF marked, Latest
  <2>1. QED
    BY <1>2
<1>4. chosen \in DOMAIN f.options
  BY <1>3, FieldFacts
<1>5. Selected(f, wanted) = <<OnPage(f)[chosen]>>
  BY DEF Selected
<1>6. QED
  <2>1. OnPage(f)[chosen] = OptionValue(f.options[chosen])
    BY <1>4, FieldFacts
  <2>2. (\E j \in DOMAIN f.options : f.options[j].value = wanted)
           => f.options[chosen].value = wanted
    <3> HIDE DEF chosen
    <3>1. QED
      BY <1>3
  <2> HIDE DEF chosen
  <2>3. QED
    BY <1>4, <1>5, <2>1, <2>2

(* A page that can be filled in sends at most one text for the field.       *)
OneText(v) == v = <<>> \/ \E t \in Texts : v = <<t>>

(* Such a post is a sequence of texts.                                      *)
LEMMA OneTextFacts ==
  ASSUME NEW v, OneText(v)
  PROVE  v \in Seq(Texts) /\ Len(v) <= 1
<1>1. CASE v = <<>>
  BY <1>1
<1>2. ASSUME NEW t \in Texts, v = <<t>> PROVE v \in Seq(Texts) /\ Len(v) <= 1
  BY <1>2
<1>3. QED
  BY <1>1, <1>2 DEF OneText

(* What the input elements can send, kind by kind.                          *)
LEMMA InputsFacts ==
  ASSUME NEW f \in Definition, CanFill(f)
  PROVE  /\ \A v \in Inputs(f) : OneText(v)
         /\ Inputs(f) # {}
         /\ f.hidden => Inputs(f) = {<<>>}
         /\ ~f.hidden /\ Widget(f) = "select" => Inputs(f) = {<<v>> : v \in OptionValues(f)}
         /\ ~f.hidden /\ Widget(f) = "checkbox" => Inputs(f) = {<<>>, <<Text("true")>>}
         /\ ~f.hidden /\ Widget(f) = "text" /\ f.type = "integer" =>
              Inputs(f) = {<<t>> : t \in {Text(w) : w \in Numbers \cup {""}}}
         /\ ~f.hidden /\ Widget(f) = "text" /\ f.type # "integer" =>
              Inputs(f) = {<<t>> : t \in Texts}
<1>1. CASE f.hidden
  BY <1>1 DEF Inputs, OneText
<1>2. CASE ~f.hidden /\ Widget(f) = "select"
  <2>1. Inputs(f) = {<<v>> : v \in OptionValues(f)}
    BY <1>2, FieldFacts DEF Inputs
  <2>2. OptionValues(f) # {}
    BY <1>2, FieldFacts DEF Widget, OptionValues
  <2>3. OptionValues(f) \subseteq Texts
    BY FieldFacts
  <2>4. \A v \in Inputs(f) : OneText(v)
    BY <2>1, <2>3 DEF OneText
  <2>5. QED
    BY <1>2, <2>1, <2>2, <2>4
<1>3. CASE ~f.hidden /\ Widget(f) = "checkbox"
  BY <1>3, TextFacts DEF Inputs, OneText
<1>4. CASE ~f.hidden /\ Widget(f) = "text" /\ f.type = "integer"
  <2>1. Inputs(f) = {<<t>> : t \in {Text(w) : w \in Numbers \cup {""}}}
    BY <1>4 DEF Inputs
  <2>2. \A w \in Numbers \cup {""} : Text(w) \in Texts
    BY FieldWordsAssumption DEF Text, Texts
  <2>3. QED
    BY <1>4, <2>1, <2>2 DEF OneText
<1>5. CASE ~f.hidden /\ Widget(f) = "text" /\ f.type # "integer"
  <2>1. Inputs(f) = {<<t>> : t \in Texts}
    BY <1>5 DEF Inputs
  <2>2. QED
    BY <1>5, <2>1, TextFacts DEF OneText
<1>6. f.hidden \/ Widget(f) \in {"select", "checkbox", "text"}
  BY DEF CanFill, Widget, Definition
<1>7. QED
  BY <1>1, <1>2, <1>3, <1>4, <1>5, <1>6

(* The page shows nothing that a user could not have put there.             *)
LEMMA ShownIsInput ==
  ASSUME NEW f \in Definition, CanFill(f), NEW old, OneText(old), ~RenderFails(f, old)
  PROVE  Shown(f, old) \in Inputs(f)
<1> DEFINE wanted == Wanted(f, old)
<1>1. wanted \in Texts
  BY FieldFacts DEF Wanted, RenderFails, OneText
<1>2. CASE f.hidden
  BY <1>2, InputsFacts DEF Shown
<1>3. CASE ~f.hidden /\ Widget(f) = "select"
  <2>1. Shown(f, old) = Selected(f, wanted)
    BY <1>3 DEF Shown
  <2>2. f.options # <<>>
    BY <1>3 DEF Widget
  <2>3. \E v \in OptionValues(f) : Selected(f, wanted) = <<v>>
    BY <2>2, SelectedFacts DEF OptionValues
  <2>4. QED
    BY <1>3, <2>1, <2>3, InputsFacts
<1>4. CASE ~f.hidden /\ Widget(f) = "checkbox"
  <2>1. Shown(f, old) = IF wanted = Text("true") THEN <<wanted>> ELSE <<>>
    BY <1>4 DEF Shown
  <2>2. QED
    BY <1>4, <2>1, InputsFacts
<1>5. CASE ~f.hidden /\ Widget(f) = "text"
  <2>1. Shown(f, old) = IF f.type = "integer" /\ wanted \notin {Text(w) : w \in Numbers}
                        THEN <<Empty>> ELSE <<wanted>>
    BY <1>5 DEF Shown
  <2>2. CASE f.type = "integer"
    <3>1. Inputs(f) = {<<t>> : t \in {Text(w) : w \in Numbers \cup {""}}}
      BY <1>5, <2>2, InputsFacts
    <3>2. QED
      BY <2>1, <2>2, <3>1 DEF Empty
  <2>3. CASE f.type # "integer"
    BY <1>1, <1>5, <2>1, <2>3, InputsFacts
  <2>4. QED
    BY <2>2, <2>3
<1>6. QED
  BY <1>2, <1>3, <1>4, <1>5 DEF CanFill, Widget, Definition

(* A rejected page shows again what was sent.                               *)
LEMMA ShownIsKept ==
  ASSUME NEW f \in Definition, CanFill(f), Accessible(f), ShownByValue(f),
         NEW v \in Inputs(f), ~RenderFails(f, v)
  PROVE  \/ Shown(f, v) = v
         \/ CheckedByDefault(f) /\ Shown(f, v) = <<Text("true")>>
<1>1. ~f.hidden /\ OneText(v)
  BY InputsFacts DEF Accessible
<1>2. CASE Widget(f) = "select"
  <2>1. PICK i \in DOMAIN f.options : v = <<OptionValue(f.options[i])>>
    <3>1. Inputs(f) = {<<u>> : u \in OptionValues(f)}
      BY <1>1, <1>2, InputsFacts
    <3>2. QED
      BY <3>1 DEF OptionValues
  <2>2. f.options[i].value = v[1] /\ Wanted(f, v) = v[1]
    BY <2>1 DEF ShownByValue, Wanted
  <2>3. PICK k \in DOMAIN f.options : /\ Selected(f, v[1]) = <<OptionValue(f.options[k])>>
                                      /\ f.options[k].value = v[1]
    <3>1. f.options # <<>>
      BY <1>2 DEF Widget
    <3>2. QED
      BY <2>2, <3>1, SelectedFacts
  <2>4. Selected(f, v[1]) = <<v[1]>>
    BY <2>3 DEF ShownByValue
  <2>5. QED
    BY <1>1, <1>2, <2>1, <2>2, <2>4 DEF Shown
<1>3. CASE Widget(f) = "checkbox"
  <2>1. Shown(f, v) = IF Wanted(f, v) = Text("true") THEN <<Wanted(f, v)>> ELSE <<>>
    BY <1>1, <1>3 DEF Shown
  <2>2. Inputs(f) = {<<>>, <<Text("true")>>}
    BY <1>1, <1>3, InputsFacts
  <2>3. CASE v = <<>>
    <3>1. Wanted(f, v) = DefaultText(f) /\ f.default # Broken
      BY <2>3 DEF Wanted, RenderFails
    <3>2. QED
      BY <1>3, <2>1, <2>3, <3>1, TextFacts DEF CheckedByDefault
  <2>4. CASE v = <<Text("true")>>
    <3>1. Wanted(f, v) = Text("true")
      BY <2>4 DEF Wanted
    <3>2. QED
      BY <2>1, <2>4, <3>1
  <2>5. QED
    BY <2>2, <2>3, <2>4
<1>4. CASE Widget(f) = "text"
  <2>1. PICK t \in Texts : v = <<t>> /\ (f.type = "integer" => t \in {Text(w) : w \in Numbers \cup {""}})
    <3>1. \A w \in Numbers \cup {""} : Text(w) \in Texts
      BY FieldWordsAssumption DEF Text, Texts
    <3>2. CASE f.type = "integer"
      <4>1. Inputs(f) = {<<t>> : t \in {Text(w) : w \in Numbers \cup {""}}}
        BY <1>1, <1>4, <3>2, InputsFacts
      <4>2. QED
        BY <3>1, <4>1
    <3>3. CASE f.type # "integer"
      <4>1. Inputs(f) = {<<t>> : t \in Texts}
        BY <1>1, <1>4, <3>3, InputsFacts
      <4>2. QED
        BY <3>3, <4>1
    <3>4. QED
      BY <3>2, <3>3
  <2>2. Shown(f, v) = IF f.type = "integer" /\ t \notin {Text(w) : w \in Numbers}
                      THEN <<Empty>> ELSE <<t>>
    BY <1>1, <1>4, <2>1 DEF Shown, Wanted
  <2>3. QED
    BY <2>1, <2>2 DEF Empty
<1>5. QED
  BY <1>1, <1>2, <1>3, <1>4 DEF CanFill, Widget, Definition

-----------------------------------------------------------------------------
(* ParseForm.                                                               *)

(* ParseForm looks at the default alone, or at what was posted.             *)
LEMMA CollectedFacts ==
  ASSUME NEW f \in Definition, NEW posted \in Seq(Texts),
         ~(UsesDefault(f, posted) /\ f.default = Broken)
  PROVE  /\ Collected(f, posted) \in Seq(Texts)
         /\ UsesDefault(f, posted) => /\ ToSet(Collected(f, posted)) = {DefaultText(f)}
                                      /\ Len(Collected(f, posted)) = 1
         /\ ~UsesDefault(f, posted) => /\ ToSet(Collected(f, posted)) = ToSet(posted)
                                       /\ Len(Collected(f, posted)) <= Len(posted)
<1>1. CASE UsesDefault(f, posted)
  <2>1. Collected(f, posted) = <<DefaultText(f)>> /\ DefaultText(f) \in Texts
    BY <1>1, FieldFacts DEF Collected
  <2>2. QED
    BY <1>1, <2>1, ToSetFacts
<1>2. CASE ~UsesDefault(f, posted)
  <2>1. Collected(f, posted) = Uniq(posted)
    BY <1>2 DEF Collected
  <2>2. QED
    BY <1>2, <2>1, UniqFacts
<1>3. QED
  BY <1>1, <1>2

(* The value of a text is a text, neither empty nor with blanks around it,  *)
(* and of the field's type as the text was.                                 *)
LEMMA ParseFacts ==
  ASSUME NEW f \in Definition, NEW t \in Texts
  PROVE  /\ Parse(f, t) \in Texts /\ Parse(f, Trim(t)) = Parse(f, t)
         /\ Trim(Parse(f, t)) = Parse(f, t)
         /\ Trim(t) # Empty => Parse(f, t) # Empty
         /\ Fits(f, Trim(t)) <=> Fits(f, t)
         /\ Fits(f, t) => Fits(f, Parse(f, t))
<1>1. Trim(t).word = t.word
  BY DEF Trim, Text
<1>2. CASE f.type = "boolean"
  <2>1. Parse(f, t) \in {Text("true"), Text("false")} /\ Parse(f, Trim(t)) = Parse(f, t)
    BY <1>1, <1>2 DEF Parse
  <2>2. Fits(f, Text("true")) /\ Fits(f, Text("false"))
    BY <1>2 DEF Fits, Text, Trues, Falses
  <2>3. /\ Text("false") # Empty /\ Trim(Text("false")) = Text("false")
        /\ Text("true") # Empty /\ Trim(Text("true")) = Text("true")
    BY DEF Text, Empty, Trim
  <2>4. Fits(f, Trim(t)) <=> Fits(f, t)
    BY <1>1 DEF Fits
  <2>5. QED
    BY <2>1, <2>2, <2>3, <2>4, TextFacts
<1>3. CASE f.type # "boolean"
  <2>1. Parse(f, t) = Trim(t) /\ Parse(f, Trim(t)) = Trim(Trim(t))
    BY <1>3 DEF Parse
  <2>2. Fits(f, Trim(t)) <=> Fits(f, t)
    BY <1>1 DEF Fits
  <2>3. QED
    BY <2>1, <2>2, TextFacts
<1>4. QED
  BY <1>2, <1>3

(* The values that parseValues leaves are those of the texts it was given.  *)
LEMMA ValuesFacts ==
  ASSUME NEW f \in Definition, NEW texts \in Seq(Texts)
  PROVE  {Parse(f, t) : t \in ToSet(Trimmed(f, texts))} = Values(f, ToSet(texts))
<1> DEFINE T == ToSet(texts)
           left == ToSet(Trimmed(f, texts))
<1>1. T \subseteq Texts /\ left = {Trim(t) : t \in T} \ {Empty}
  BY ToSetFacts, TrimmedFacts
<1> HIDE DEF T, left
<1>2. \A t \in T : Parse(f, Trim(t)) = Parse(f, t)
  BY <1>1, ParseFacts
<1>3. {Parse(f, t) : t \in left} \subseteq Values(f, T)
  <2> SUFFICES ASSUME NEW t \in left PROVE Parse(f, t) \in Values(f, T)
    OBVIOUS
  <2>1. PICK u \in T : t = Trim(u) /\ t # Empty
    BY <1>1
  <2>2. QED
    BY <1>2, <2>1 DEF Values
<1>4. Values(f, T) \subseteq {Parse(f, t) : t \in left}
  <2> SUFFICES ASSUME NEW u \in T, Trim(u) # Empty PROVE Parse(f, u) \in {Parse(f, t) : t \in left}
    BY DEF Values
  <2>1. Trim(u) \in left
    BY <1>1
  <2>2. QED
    BY <1>2, <2>1
<1>5. QED
  BY <1>3, <1>4 DEF T, left

(* What is stored are values of the field, one unless it is multiple.       *)
LEMMA ParsedFacts ==
  ASSUME NEW f \in Definition, NEW posted \in Seq(Texts),
         ~(UsesDefault(f, posted) /\ f.default = Broken),
         NEW texts, texts = Collected(f, posted),
         NEW values, values = Trimmed(f, texts)
  PROVE  /\ Parsed(f, posted) \in Seq(Texts)
         /\ ToSet(Parsed(f, posted)) \subseteq Values(f, ToSet(texts))
         /\ f.multiple \/ Len(texts) <= 1 => ToSet(Parsed(f, posted)) = Values(f, ToSet(texts))
         /\ values = <<>> <=> Parsed(f, posted) = <<>>
         /\ Values(f, ToSet(texts)) = {} <=> values = <<>>
         /\ ~f.multiple => Len(Parsed(f, posted)) <= 1
<1> DEFINE parsed == [i \in DOMAIN values |-> Parse(f, values[i])]
<1>1. texts \in Seq(Texts)
  BY CollectedFacts
<1>2. values \in Seq(Texts) /\ Len(values) <= Len(texts)
  BY <1>1, TrimmedFacts
<1>3. {Parse(f, t) : t \in ToSet(values)} = Values(f, ToSet(texts))
  BY <1>1, ValuesFacts
<1>4. DOMAIN values = 1 .. Len(values) /\ Len(values) \in Nat /\ Len(texts) \in Nat
  BY <1>1, <1>2, LenProperties
<1>5. /\ parsed \in Seq(Texts) /\ Len(parsed) = Len(values)
      /\ ToSet(parsed) = {Parse(f, t) : t \in ToSet(values)}
  <2>1. \A i \in 1 .. Len(values) : values[i] \in Texts /\ Parse(f, values[i]) \in Texts
    BY <1>2, ParseFacts
  <2>2. parsed \in [1 .. Len(values) -> Texts]
    BY <1>4, <2>1
  <2>3. parsed \in Seq(Texts) /\ Len(parsed) = Len(values)
    BY <1>4, <2>2, SeqDef, LenProperties
  <2>4. ToSet(parsed) = {Parse(f, values[i]) : i \in DOMAIN values}
    BY <1>4 DEF ToSet
  <2>5. ToSet(values) = {values[i] : i \in DOMAIN values}
    BY DEF ToSet
  <2>6. QED
    BY <2>3, <2>4, <2>5
<1>6. values = <<>> <=> Values(f, ToSet(texts)) = {}
  <2>1. values = <<>> <=> ToSet(values) = {}
    BY <1>2, ToSetFacts
  <2>2. QED
    BY <1>3, <2>1
<1>7. parsed = <<>> <=> values = <<>>
  <2>1. values = <<>> <=> ToSet(values) = {}
    BY <1>2, ToSetFacts
  <2>2. parsed = <<>> <=> ToSet(parsed) = {}
    BY <1>5, ToSetFacts
  <2> HIDE DEF parsed
  <2>3. QED
    BY <1>5, <2>1, <2>2
<1>8. Parsed(f, posted) = IF f.multiple \/ values = <<>> THEN parsed ELSE <<parsed[1]>>
  BY DEF Parsed
<1> HIDE DEF parsed
<1>9. CASE f.multiple \/ values = <<>>
  <2>1. Parsed(f, posted) = parsed
    BY <1>8, <1>9
  <2>2. Len(<<>>) = 0
    OBVIOUS
  <2>3. values = <<>> => Len(parsed) <= 1
    BY <1>5, <2>2
  <2>4. QED
    BY <1>3, <1>5, <1>6, <1>7, <1>9, <2>1, <2>3
<1>10. CASE ~(f.multiple \/ values = <<>>)
  <2>1. parsed # <<>> /\ Parsed(f, posted) = <<parsed[1]>>
    BY <1>7, <1>8, <1>10
  <2>2. parsed[1] \in ToSet(parsed) /\ parsed[1] \in Texts
    BY <1>5, <2>1, ToSetFacts
  <2>3. ToSet(Parsed(f, posted)) = {parsed[1]}
    BY <2>1, <2>2, ToSetFacts, EmptySeq
  <2>4. Parsed(f, posted) \in Seq(Texts) /\ Len(Parsed(f, posted)) = 1
    BY <2>1, <2>2
  <2>5. Len(texts) <= 1 => Len(parsed) <= 1
    BY <1>2, <1>4, <1>5
  <2>6. Len(texts) <= 1 => parsed = <<parsed[1]>>
    BY <1>5, <2>1, <2>5, OnlyHead, ToSetFacts
  <2>7. Parsed(f, posted) # <<>>
    BY <2>3, ToSetFacts, <2>4
  <2>8. Len(texts) <= 1 => ToSet(Parsed(f, posted)) = Values(f, ToSet(texts))
    BY <1>3, <1>5, <2>1, <2>6
  <2>9. ToSet(Parsed(f, posted)) \subseteq Values(f, ToSet(texts))
    BY <1>3, <1>5, <2>2, <2>3
  <2>10. Len(Parsed(f, posted)) <= 1
    BY <2>4
  <2>11. QED
    BY <1>6, <1>10, <2>4, <2>7, <2>8, <2>9, <2>10
<1>11. QED
  BY <1>9, <1>10

-----------------------------------------------------------------------------
(* The inductive invariant: what is stored was sent and accepted by         *)
(* ParseForm; a page for the user has an input that he can set and shows    *)
(* after a rejection what was sent.                                         *)
Accepted(posted) == ~Refused(field, posted) /\ stored = Parsed(field, posted)

PageForUser ==
  page \in {"form", "rejected"} =>
    CanFill(field) /\ input \in Inputs(field) /\ stored = None

KeptAfterRejection ==
  page = "rejected" =>
    /\ sent = <<>> \/ sent \in Inputs(field)
    /\ Accessible(field) => sent \in Inputs(field)
    /\ ~RenderFails(field, sent)
    /\ input = Shown(field, sent)

StoredAccepted == stored # None => sent \in Seq(Texts) /\ Accepted(sent)

IInv == TypeOK /\ PageForUser /\ KeptAfterRejection /\ StoredAccepted

(* What was accepted is documented, whatever was posted.                    *)
LEMMA AcceptedIsDocumented ==
  ASSUME field \in Definition, NEW posted \in Seq(Texts), Accepted(posted)
  PROVE  DocumentedOnly
<1> DEFINE texts == Collected(field, posted)
           values == Trimmed(field, texts)
<1>1. /\ ~(UsesDefault(field, posted) /\ field.default = Broken)
      /\ field.options # <<>> => ToSet(texts) \subseteq OptionValues(field)
      /\ \A t \in ToSet(values) : Fits(field, t)
      /\ field.required => values # <<>>
      /\ stored = Parsed(field, posted)
  BY DEF Accepted, Refused
<1>2. texts \in Seq(Texts)
  BY <1>1, CollectedFacts
<1>3. ToSet(values) = {Trim(t) : t \in ToSet(texts)} \ {Empty} /\ ToSet(texts) \subseteq Texts
  BY <1>2, TrimmedFacts, ToSetFacts
<1>4. ~Accessible(field) => ToSet(texts) = {DefaultText(field)} /\ Len(texts) <= 1
  <2>1. ~Accessible(field) => ToSet(texts) = {DefaultText(field)} /\ Len(texts) = 1
    BY <1>1, CollectedFacts DEF UsesDefault
  <2> HIDE DEF texts
  <2>2. Len(texts) = 1 => Len(texts) <= 1
    <3>1. \A n \in Nat : n = 1 => n <= 1
      OBVIOUS
    <3>2. Len(texts) \in Nat
      BY <1>2, LenProperties
    <3>3. QED
      BY <3>1, <3>2, Zenon
  <2>3. QED
    BY <2>1, <2>2, Zenon
<1> HIDE DEF texts, values
<1>5. /\ ToSet(stored) \subseteq Values(field, ToSet(texts))
      /\ Len(texts) <= 1 => ToSet(stored) = Values(field, ToSet(texts))
      /\ values = <<>> <=> stored = <<>>
  BY <1>1, ParsedFacts DEF texts, values
<1>6. \A t \in ToSet(stored) : t # Empty /\ t = Trim(t) /\ Fits(field, t)
  <2> SUFFICES ASSUME NEW t \in ToSet(stored)
               PROVE  t # Empty /\ t = Trim(t) /\ Fits(field, t)
    OBVIOUS
  <2>1. PICK u \in ToSet(texts) : t = Parse(field, u) /\ Trim(u) # Empty
    BY <1>5 DEF Values
  <2>2. u \in Texts /\ Trim(u) \in ToSet(values)
    BY <1>3, <2>1
  <2>3. QED
    BY <1>1, <2>1, <2>2, ParseFacts
<1>7. field.options # <<>> => ToSet(stored) \subseteq Values(field, ToSet(OnPage(field)))
  BY <1>1, <1>5, FieldFacts DEF Values, texts
<1>8. field.required => stored # <<>>
  BY <1>1, <1>5 DEF values, texts
<1>9. ~Accessible(field) => ToSet(stored) = Values(field, {DefaultText(field)})
  BY <1>4, <1>5
<1>10. QED
  BY <1>6, <1>7, <1>8, <1>9 DEF DocumentedOnly

(* What was sent and accepted is stored as it is, an unchecked box as its   *)
(* default.                                                                 *)
LEMMA AcceptedIsAsEntered ==
  ASSUME field \in Definition, sent \in Seq(Texts), Accepted(sent)
  PROVE  StoredAsEntered
<1> SUFFICES ASSUME Accessible(field) PROVE StoredAsEntered
  BY DEF StoredAsEntered
<1> DEFINE texts == Collected(field, sent)
           unchecked == field.type = "boolean" /\ sent = <<>>
           entered == Values(field, IF unchecked THEN {DefaultText(field)} ELSE ToSet(sent))
<1>1. /\ ~(UsesDefault(field, sent) /\ field.default = Broken)
      /\ stored = Parsed(field, sent)
  BY DEF Accepted, Refused
<1>2. UsesDefault(field, sent) <=> unchecked /\ field.default # None
  BY DEF UsesDefault
<1>3. /\ UsesDefault(field, sent) => ToSet(texts) = {DefaultText(field)}
      /\ ~UsesDefault(field, sent) => ToSet(texts) = ToSet(sent)
  BY <1>1, CollectedFacts
<1>4. Values(field, ToSet(texts)) = entered
  <2>1. CASE UsesDefault(field, sent)
    BY <1>2, <1>3, <2>1
  <2>2. CASE ~UsesDefault(field, sent) /\ ~unchecked
    BY <1>3, <2>2
  <2>3. CASE ~UsesDefault(field, sent) /\ unchecked
    <3>1. DefaultText(field) = Empty
      BY <1>2, <2>3 DEF DefaultText
    <3>2. entered = {}
      BY <2>3, <3>1, TextFacts DEF Values
    <3>3. ToSet(texts) = {}
      BY <1>3, <2>3 DEF ToSet
    <3> HIDE DEF texts, entered
    <3>4. QED
      BY <3>2, <3>3 DEF Values
  <2>4. QED
    BY <2>1, <2>2, <2>3
<1>5. PICK values : values = Trimmed(field, texts)
  OBVIOUS
<1> HIDE DEF texts
<1>6. /\ ToSet(stored) \subseteq Values(field, ToSet(texts))
      /\ field.multiple => ToSet(stored) = Values(field, ToSet(texts))
      /\ values = <<>> <=> stored = <<>>
      /\ Values(field, ToSet(texts)) = {} <=> values = <<>>
  BY <1>1, <1>5, ParsedFacts DEF texts
<1>7. /\ ToSet(stored) \subseteq entered
      /\ entered # {} => stored # <<>>
      /\ field.multiple => entered \subseteq ToSet(stored)
  <2> HIDE DEF entered
  <2>1. QED
    BY <1>4, <1>6
<1>8. QED
  BY <1>7 DEF StoredAsEntered

(* ParseForm sees no more of a post than what it collects of it.            *)
LEMMA CollectedDecides ==
  ASSUME NEW f, NEW a, NEW b, Collected(f, a) = Collected(f, b),
         (UsesDefault(f, a) /\ f.default = Broken) <=> (UsesDefault(f, b) /\ f.default = Broken)
  PROVE  (Refused(f, a) <=> Refused(f, b)) /\ Parsed(f, a) = Parsed(f, b)
BY DEF Refused, Parsed

(* A rejected page that is sent as it is says what was said before.         *)
LEMMA SentAgain ==
  ASSUME field \in Definition, CanFill(field), ShownByValue(field),
         sent = <<>> \/ sent \in Inputs(field), Accessible(field) => sent \in Inputs(field),
         ~RenderFails(field, sent), input = Shown(field, sent)
  PROVE  (Refused(field, Sent) <=> Refused(field, sent)) /\ Parsed(field, Sent) = Parsed(field, sent)
<1>1. CASE ~Accessible(field)
  <2>1. UsesDefault(field, Sent) /\ UsesDefault(field, sent)
    BY <1>1 DEF UsesDefault
  <2>2. Collected(field, Sent) = Collected(field, sent)
    BY <2>1 DEF Collected
  <2>3. QED
    BY <2>1, <2>2, CollectedDecides
<1>2. CASE Accessible(field)
  <2>1. Sent = input /\ sent \in Inputs(field) /\ ~field.hidden
    BY <1>2 DEF Sent, Accessible
  <2>2. CASE input = sent
    BY <2>1, <2>2
  <2>3. CASE CheckedByDefault(field) /\ input = <<Text("true")>> /\ input # sent
    <3>1. /\ Widget(field) = "checkbox" /\ field.type = "boolean"
          /\ DefaultText(field) = Text("true")
      <4>1. Widget(field) = "checkbox" /\ DefaultText(field) = Text("true")
        BY <2>3 DEF CheckedByDefault
      <4>2. QED
        BY <4>1 DEF Widget
    <3>2. sent = <<>>
      BY <2>1, <2>3, <3>1, InputsFacts
    <3>3. field.default # None /\ field.default # Broken
      BY <3>1, <3>2, TextFacts DEF RenderFails, DefaultText
    <3>4. UsesDefault(field, sent) => Collected(field, sent) = <<Text("true")>>
      BY <3>1, <3>3 DEF Collected, DefaultText
    <3>5. UsesDefault(field, sent)
      BY <3>1, <3>2, <3>3 DEF UsesDefault
    <3>6. Collected(field, input) = <<Text("true")>>
      <4>1. Uniq(input) = <<Text("true")>>
        <5>1. input \in Seq(Texts) /\ ToSet(input) = {Text("true")} /\ Len(input) <= 1
          <6>1. \A t \in Texts : <<t>> \in Seq(Texts) /\ Len(<<t>>) <= 1
            OBVIOUS
          <6>2. QED
            BY <2>3, <6>1, TextFacts, ToSetFacts, EmptySeq
        <5>2. Uniq(input) \in Seq(Texts) /\ Len(Uniq(input)) <= 1 /\ ToSet(Uniq(input)) = {Text("true")}
          BY <5>1, UniqFacts
        <5>3. QED
          BY <5>2, TextFacts, OnlyElement
      <4>2. ~UsesDefault(field, input)
        BY <1>2, <2>3 DEF UsesDefault
      <4>3. QED
        BY <4>1, <4>2 DEF Collected
    <3>7. QED
      BY <2>1, <3>3, <3>4, <3>5, <3>6, CollectedDecides
  <2>4. QED
    BY <1>2, <2>1, <2>2, <2>3, ShownIsKept
<1>3. QED
  BY <1>1, <1>2

-----------------------------------------------------------------------------
(* The inductive invariant holds at first, and each action keeps it.        *)
LEMMA InitIInv == Init => IInv
  BY DEF Init, IInv, TypeOK, PageForUser, KeptAfterRejection, StoredAccepted

(* What a page for the user holds is all right for a post.                  *)
LEMMA SentFacts ==
  ASSUME IInv, page \in {"form", "rejected"}
  PROVE  /\ field \in Definition /\ CanFill(field)
         /\ OneText(Sent) /\ Sent \in Seq(Texts)
         /\ Accessible(field) => Sent \in Inputs(field)
         /\ Sent = <<>> \/ Sent \in Inputs(field)
<1>1. field \in Definition /\ CanFill(field) /\ input \in Inputs(field)
  BY FieldsAssumption DEF IInv, TypeOK, PageForUser
<1>2. OneText(Sent) /\ (Accessible(field) => Sent = input) /\ (Sent = <<>> \/ Sent = input)
  BY <1>1, InputsFacts DEF Sent, OneText, Accessible
<1>3. QED
  BY <1>1, <1>2, OneTextFacts

(* A first page comes from the default alone.                               *)
LEMMA OpenStep == IInv /\ Open => IInv'
<1> SUFFICES ASSUME IInv, Open PROVE IInv'
  OBVIOUS
<1>1. /\ field' = field /\ sent' = None /\ stored' = None
      /\ field \in Fields /\ field \in Definition
  BY FieldsAssumption DEF Open, IInv, TypeOK
<1>2. CASE RenderFails(field, <<>>)
  <2>1. page' = "failed" /\ input' = <<>>
    BY <1>2 DEF Open, Render
  <2>2. QED
    BY <1>1, <2>1 DEF IInv, TypeOK, PageForUser, KeptAfterRejection, StoredAccepted
<1>3. CASE ~RenderFails(field, <<>>)
  <2>1. page' = "form" /\ input' = Shown(field, <<>>)
    BY <1>3 DEF Open, Render
  <2>2. CanFill(field)
    BY <1>3 DEF RenderFails, CanFill
  <2>3. input' \in Inputs(field)
    BY <1>1, <1>3, <2>1, <2>2, ShownIsInput DEF OneText
  <2>4. QED
    BY <1>1, <2>1, <2>2, <2>3
       DEF IInv, TypeOK, PageForUser, KeptAfterRejection, StoredAccepted
<1>4. QED
  BY <1>2, <1>3

(* The user sets the input element to what it can hold.                     *)
LEMMA EditStep == IInv /\ Edit => IInv'
<1> SUFFICES ASSUME IInv, Edit PROVE IInv'
  OBVIOUS
<1>1. /\ field' = field /\ sent' = None /\ stored' = stored /\ stored = None
      /\ page' = "form" /\ input' \in Inputs(field) /\ CanFill(field)
  BY DEF Edit, IInv, PageForUser
<1>2. TypeOK'
  BY <1>1 DEF IInv, TypeOK
<1>3. PageForUser' /\ KeptAfterRejection'
  BY <1>1 DEF PageForUser, KeptAfterRejection
<1>4. StoredAccepted'
  BY <1>1 DEF StoredAccepted
<1>5. QED
  BY <1>2, <1>3, <1>4 DEF IInv

(* An accepted post leaves stored as it must be.                            *)
LEMMA AcceptFacts ==
  ASSUME field \in Definition, field' = field, NEW posted \in Seq(Texts), Accept(posted),
         sent' = posted
  PROVE  /\ StoredAccepted'
         /\ ToSet(stored') \subseteq Texts
         /\ ~field.multiple => Len(stored') <= 1
<1>1. ~Refused(field, posted) /\ stored' = Parsed(field, posted)
  BY DEF Accept
<1>2. StoredAccepted'
  BY <1>1 DEF StoredAccepted, Accepted
<1>3. ~(UsesDefault(field, posted) /\ field.default = Broken)
  BY <1>1 DEF Refused
<1>4. stored' \in Seq(Texts) /\ (~field.multiple => Len(stored') <= 1)
  BY <1>1, <1>3, ParsedFacts
<1>5. QED
  BY <1>2, <1>4, ToSetFacts

(* The result page is about what the page had sent.                         *)
LEMMA SubmitStep == IInv /\ Submit => IInv'
<1> SUFFICES ASSUME IInv, Submit PROVE IInv'
  OBVIOUS
<1>1. /\ field' = field /\ sent' = Sent /\ page' = "result" /\ input' = <<>>
      /\ Accept(Sent) /\ page \in {"form", "rejected"}
  BY DEF Submit
<1>2. /\ field \in Definition /\ CanFill(field)
      /\ OneText(Sent) /\ Sent \in Seq(Texts)
      /\ Accessible(field) => Sent \in Inputs(field)
  BY <1>1, SentFacts
<1>3. /\ StoredAccepted'
      /\ ToSet(stored') \subseteq Texts /\ (~field.multiple => Len(stored') <= 1)
  <2>1. PICK posted \in Seq(Texts) : posted = Sent
    BY <1>2
  <2>2. Accept(posted) /\ sent' = posted
    BY <1>1, <2>1
  <2>3. QED
    BY <1>1, <1>2, <2>2, AcceptFacts
<1>4. TypeOK'
  BY <1>1, <1>2, <1>3 DEF IInv, TypeOK
<1>5. PageForUser' /\ KeptAfterRejection'
  BY <1>1 DEF PageForUser, KeptAfterRejection
<1>6. QED
  BY <1>3, <1>4, <1>5 DEF IInv

(* The rejected page is made from what was sent, if it can be made at all.  *)
LEMMA RejectStep == IInv /\ Reject => IInv'
<1> SUFFICES ASSUME IInv, Reject PROVE IInv'
  OBVIOUS
<1>1. /\ field' = field /\ sent' = Sent /\ stored' = None
      /\ page \in {"form", "rejected"} /\ field \in Fields
      /\ Render("rejected", Sent)
  BY DEF Reject, IInv, TypeOK
<1>2. /\ field \in Definition /\ CanFill(field)
      /\ OneText(Sent) /\ Sent \in Seq(Texts)
      /\ Accessible(field) => Sent \in Inputs(field)
      /\ Sent = <<>> \/ Sent \in Inputs(field)
  BY <1>1, SentFacts
<1>3. CASE RenderFails(field, Sent)
  <2>1. page' = "failed" /\ input' = <<>>
    BY <1>1, <1>3 DEF Render
  <2>2. QED
    BY <1>1, <1>2, <2>1
       DEF IInv, TypeOK, PageForUser, KeptAfterRejection, StoredAccepted
<1>4. CASE ~RenderFails(field, Sent)
  <2>1. page' = "rejected" /\ input' = Shown(field, Sent)
    BY <1>1, <1>4 DEF Render
  <2>2. input' \in Inputs(field)
    BY <1>2, <1>4, <2>1, ShownIsInput
  <2>3. KeptAfterRejection'
    BY <1>1, <1>2, <1>4, <2>1 DEF KeptAfterRejection
  <2>4. QED
    BY <1>1, <1>2, <2>1, <2>2, <2>3
       DEF IInv, TypeOK, PageForUser, StoredAccepted
<1>5. QED
  BY <1>3, <1>4

(* A program's post goes the same way, without a page.                      *)
LEMMA ApiPostStep == IInv /\ ApiPost => IInv'
<1> SUFFICES ASSUME IInv, ApiPost PROVE IInv'
  OBVIOUS
<1>1. PICK posted \in Posts : Accept(posted) /\ sent' = posted
  BY DEF ApiPost
<1>2. /\ field' = field /\ page' = "none" /\ input' = input
      /\ field \in Fields /\ field \in Definition
  BY FieldsAssumption DEF ApiPost, IInv, TypeOK
<1>3. posted \in Seq(Texts)
  BY PostsAssumption
<1>4. /\ StoredAccepted'
      /\ ToSet(stored') \subseteq Texts /\ (~field.multiple => Len(stored') <= 1)
  BY <1>1, <1>2, <1>3, AcceptFacts
<1>5. TypeOK'
  BY <1>1, <1>2, <1>3, <1>4 DEF IInv, TypeOK
<1>6. PageForUser' /\ KeptAfterRejection'
  BY <1>2 DEF PageForUser, KeptAfterRejection
<1>7. QED
  BY <1>4, <1>5, <1>6 DEF IInv

(* Hence every step keeps it.                                               *)
LEMMA NextIInv == IInv /\ [Next]_vars => IInv'
<1>1. IInv /\ UNCHANGED vars => IInv'
  BY DEF vars, IInv, TypeOK, PageForUser, KeptAfterRejection, StoredAccepted, Accepted
<1>2. QED
  BY <1>1, OpenStep, EditStep, SubmitStep, RejectStep, ApiPostStep DEF Next

(* In every state what is stored was accepted, and the page is one of its   *)
(* field.                                                                   *)
THEOREM Invariance == Spec => []IInv
  BY InitIInv, NextIInv, PTL DEF Spec

-----------------------------------------------------------------------------
(* The variables keep to their types: a rejected submission never leaves a  *)
(* half-stored value, and nothing on the page is out of a user's reach.     *)
THEOREM TypeCorrect == Spec => []TypeOK
  BY Invariance, PTL DEF IInv

(* ParseForm: whatever is posted, by whom and in which order, what is       *)
(* handed to the storage is what the documentation says of the field.       *)
THEOREM Documented == Spec => []DocumentedOnly
<1>1. IInv => DocumentedOnly
  <2> SUFFICES ASSUME IInv, stored # None PROVE DocumentedOnly
    BY DEF DocumentedOnly
  <2>1. sent \in Seq(Texts) /\ Accepted(sent) /\ field \in Definition
    BY FieldsAssumption DEF IInv, TypeOK, StoredAccepted
  <2>2. QED
    BY <2>1, AcceptedIsDocumented
<1>2. QED
  BY <1>1, Invariance, PTL

(* What a page or a program sent is what is stored, of a field of any      *)
(* kind, a multiple choice included: neither the default nor a value that   *)
(* was removed comes back, except for the boolean of which nothing was sent.*)
THEOREM Entered == Spec => []StoredAsEntered
<1>1. IInv => StoredAsEntered
  <2> SUFFICES ASSUME IInv, stored # None PROVE StoredAsEntered
    BY DEF StoredAsEntered
  <2>1. sent \in Seq(Texts) /\ Accepted(sent) /\ field \in Definition
    BY FieldsAssumption DEF IInv, TypeOK, StoredAccepted
  <2>2. QED
    BY <2>1, AcceptedIsAsEntered
<1>2. QED
  BY <1>1, Invariance, PTL

(* A rejected page keeps what was chosen where the template compares with   *)
(* what the browser sends: options given by their labels alone are not kept.*)
(* A multiple choice has no such page: none of its pages can be rendered.   *)
THEOREM Kept == Spec => [](ShownByValue(field) => ChoiceKept)
<1>1. IInv => (ShownByValue(field) => ChoiceKept)
  <2> SUFFICES ASSUME IInv, ShownByValue(field), page = "rejected", Accessible(field)
               PROVE  \/ input = sent
                      \/ CheckedByDefault(field) /\ input = <<Text("true")>>
    BY DEF ChoiceKept
  <2>1. field \in Definition
    BY FieldsAssumption DEF IInv, TypeOK
  <2>2. /\ CanFill(field) /\ sent \in Inputs(field)
        /\ ~RenderFails(field, sent) /\ input = Shown(field, sent)
    BY DEF IInv, PageForUser, KeptAfterRejection
  <2>3. QED
    BY <2>1, <2>2, ShownIsKept
<1>2. QED
  BY <1>1, Invariance, PTL

(* Under the same condition a rejected form that is sent again as it is     *)
(* shown is judged as before and stores what it would have stored.          *)
THEOREM SentAgainAsBefore == Spec => [](ShownByValue(field) => SameIfSentAgain)
<1>1. IInv => (ShownByValue(field) => SameIfSentAgain)
  <2> SUFFICES ASSUME IInv, ShownByValue(field), page = "rejected" PROVE SameIfSentAgain
    BY DEF SameIfSentAgain
  <2>1. field \in Definition
    BY FieldsAssumption DEF IInv, TypeOK
  <2>2. /\ CanFill(field) /\ (sent = <<>> \/ sent \in Inputs(field))
        /\ Accessible(field) => sent \in Inputs(field)
        /\ ~RenderFails(field, sent) /\ input = Shown(field, sent)
    BY DEF IInv, PageForUser, KeptAfterRejection
  <2>3. QED
    BY <2>1, <2>2, SentAgain DEF SameIfSentAgain
<1>2. QED
  BY <1>1, Invariance, PTL

=============================================================================
