---------------------------- MODULE PacketProofs ----------------------------
(***************************************************************************)
(* Theorems about Packet, for packets made of any words: the encoders of   *)
(* the server and of the client write every packet alike, and what either  *)
(* writes the other reads back.                                            *)
(***************************************************************************)
EXTENDS Packet, SublistProofs, TLAPS

-----------------------------------------------------------------------------
(* Texts. *)

\* Two sequences one behind the other: length, elements, and the two parts again.
LEMMA ConcatFacts ==
  ASSUME NEW T, NEW s \in Seq(T), NEW t \in Seq(T)
  PROVE  /\ s \o t \in Seq(T) /\ Len(s \o t) = Len(s) + Len(t) /\ Len(s) \in Nat /\ Len(t) \in Nat
         /\ \A i \in 1 .. Len(s) : (s \o t)[i] = s[i]
         /\ \A i \in 1 .. Len(t) : (s \o t)[Len(s) + i] = t[i]
         /\ SubSeq(s \o t, 1, Len(s)) = s
         /\ SubSeq(s \o t, Len(s) + 1, Len(s \o t)) = t
         /\ s \o << >> = s /\ << >> \o s = s
OBVIOUS

\* Where the parentheses are does not matter.
LEMMA Assoc ==
  ASSUME NEW T, NEW s \in Seq(T), NEW t \in Seq(T), NEW u \in Seq(T)
  PROVE  (s \o t) \o u = s \o (t \o u)
OBVIOUS

\* A symbol of the whole is one of either part.
LEMMA HasConcat ==
  ASSUME NEW T, NEW s \in Seq(T), NEW t \in Seq(T), NEW c
  PROVE  /\ Has(s \o t, c) <=> Has(s, c) \/ Has(t, c)
         /\ \A x : Has(<<x>>, c) <=> x = c
         /\ ~Has(<< >>, c)
<1>1. /\ Len(s) \in Nat /\ DOMAIN s = 1 .. Len(s) /\ Len(t) \in Nat /\ DOMAIN t = 1 .. Len(t)
      /\ DOMAIN (s \o t) = 1 .. Len(s) + Len(t)
      /\ \A i \in 1 .. Len(s) : (s \o t)[i] = s[i]
      /\ \A i \in 1 .. Len(t) : (s \o t)[Len(s) + i] = t[i]
  OBVIOUS
<1>2. ASSUME Has(s \o t, c) PROVE Has(s, c) \/ Has(t, c)
  <2>1. PICK i \in 1 .. Len(s) + Len(t) : (s \o t)[i] = c
    BY <1>1, <1>2 DEF Has
  <2>2. CASE i \in 1 .. Len(s)
    BY <1>1, <2>1, <2>2 DEF Has
  <2>3. CASE i \notin 1 .. Len(s)
    <3>1. i - Len(s) \in 1 .. Len(t) /\ Len(s) + (i - Len(s)) = i
      BY <1>1, <2>3
    <3> QED BY <1>1, <2>1, <3>1 DEF Has
  <2> QED BY <2>2, <2>3
<1>3. ASSUME Has(s, c) PROVE Has(s \o t, c)
  BY <1>1, <1>3 DEF Has
<1>4. ASSUME Has(t, c) PROVE Has(s \o t, c)
  <2>1. \A i \in 1 .. Len(t) : Len(s) + i \in 1 .. Len(s) + Len(t)
    BY <1>1
  <2> QED BY <1>1, <1>4, <2>1 DEF Has
<1>5. (\A x : Has(<<x>>, c) <=> x = c) /\ ~Has(<< >>, c)
  BY DEF Has
<1> QED BY <1>2, <1>3, <1>4, <1>5

\* The first separator of a text.
LEMMA Cut ==
  ASSUME NEW T, NEW s \in Seq(T), NEW t \in Seq(T), NEW c \in T, ~Has(s, c)
  PROVE  /\ Has(s \o (<<c>> \o t), c)
         /\ Before(s \o (<<c>> \o t), c) = s
         /\ After(s \o (<<c>> \o t), c) = t
<1> DEFINE r == <<c>> \o t
           u == s \o r
           I == {i \in 1 .. Len(u) : u[i] = c}
<1>1. /\ r \in Seq(T) /\ Len(r) = Len(t) + 1 /\ r[1] = c
      /\ Len(t) \in Nat /\ Len(s) \in Nat
      /\ SubSeq(r, 2, Len(r)) = t
  OBVIOUS
<1> HIDE DEF r
<1>2. /\ u \in Seq(T) /\ Len(u) = Len(s) + Len(r)
      /\ \A i \in 1 .. Len(s) : u[i] = s[i] /\ s[i] # c
      /\ u[Len(s) + 1] = c
  <2>0. u \in Seq(T) /\ Len(u) = Len(s) + Len(r)
    BY <1>1
  <2>1. \A i \in 1 .. Len(s) : u[i] = s[i]
    BY <1>1
  <2>2. 1 \in 1 .. Len(r) /\ u[Len(s) + 1] = r[1]
    BY <1>1, ConcatFacts
  <2>3. \A i \in 1 .. Len(s) : s[i] # c
    BY DEF Has
  <2> QED BY <1>1, <2>0, <2>1, <2>2, <2>3
<1>3. Len(s) + 1 \in I /\ \A i \in I : Len(s) + 1 <= i
  BY <1>1, <1>2
<1>4. Min(I) = Len(s) + 1
  <2>1. \A x \in I : x \in Nat
    BY <1>1, <1>2
  <2>2. \A x \in I : (\A y \in I : x <= y) => x = Len(s) + 1
    BY <1>1, <1>3, <2>1
  <2> HIDE DEF I
  <2> QED BY <1>3, <2>2 DEF Min
<1>5. Has(u, c)
  <2>1. DOMAIN u = 1 .. Len(u)
    BY <1>2
  <2>2. Len(s) + 1 \in 1 .. Len(u)
    BY <1>1, <1>2
  <2> QED BY <1>2, <2>1, <2>2 DEF Has
<1>6. SelectInSeq(u, LAMBDA x : x = c) = Len(s) + 1
  BY <1>3, <1>4 DEF SelectInSeq
<1>7. SubSeq(u, 1, (Len(s) + 1) - 1) = s /\ SubSeq(u, (Len(s) + 1) + 1, Len(u)) = t
  <2>1. SubSeq(u, 1, Len(s)) = s
    BY <1>1, ConcatFacts
  <2>2. SubSeq(u, Len(s) + 2, Len(u)) = t
    <3> DEFINE v == s \o <<c>>
    <3>1. v \in Seq(T) /\ Len(v) = Len(s) + 1 /\ <<c>> \in Seq(T)
      OBVIOUS
    <3>2. u = v \o t
      BY <3>1, Assoc DEF r
    <3> HIDE DEF v, u
    <3>3. SubSeq(v \o t, Len(v) + 1, Len(v \o t)) = t
      BY <3>1, ConcatFacts
    <3>4. Len(v) + 1 = Len(s) + 2
      BY <1>1, <3>1
    <3> QED BY <3>2, <3>3, <3>4
  <2>3. (Len(s) + 1) - 1 = Len(s) /\ (Len(s) + 1) + 1 = Len(s) + 2
    BY <1>1
  <2> QED BY <2>1, <2>2, <2>3
<1>8. Before(u, c) = s /\ After(u, c) = t
  BY <1>5, <1>6, <1>7 DEF Before, After
<1> QED BY <1>5, <1>8 DEF u, r

\* A text without the separator is all before it.
LEMMA NoCut ==
  ASSUME NEW s, NEW c, ~Has(s, c)
  PROVE  Before(s, c) = s /\ After(s, c) = <<>>
BY DEF Before, After

\* A text between two symbols.
Wrap(a, s, b) == <<a>> \o s \o <<b>>

\* The brackets come off again.
LEMMA Inner ==
  ASSUME NEW T, NEW s \in Seq(T), NEW a \in T, NEW b \in T
  PROVE  /\ Wrap(a, s, b) \in Seq(T) /\ Wrap(a, s, b) # << >>
         /\ Head(Wrap(a, s, b)) = a /\ Last(Wrap(a, s, b)) = b
         /\ Len(Wrap(a, s, b)) = Len(s) + 2
         /\ SubSeq(Wrap(a, s, b), 2, Len(Wrap(a, s, b)) - 1) = s
<1> DEFINE v == <<a>> \o s
           u == v \o <<b>>
<1>1. /\ v \in Seq(T) /\ Len(v) = Len(s) + 1 /\ Len(s) \in Nat /\ v[1] = a
      /\ \A i \in 1 .. Len(s) : v[i + 1] = s[i]
  OBVIOUS
<1> HIDE DEF v
<1>2. /\ u \in Seq(T) /\ Len(u) = Len(s) + 2 /\ u[Len(s) + 2] = b
      /\ \A i \in 1 .. Len(s) + 1 : u[i] = v[i]
  BY <1>1
<1> HIDE DEF u
<1>3. Head(u) = a /\ Last(u) = b /\ u # <<>>
  BY <1>1, <1>2 DEF Last
<1>4. SubSeq(u, 2, Len(u) - 1) = s
  <2> DEFINE w == SubSeq(u, 2, Len(u) - 1)
  <2>1. w \in Seq(T) /\ Len(w) = Len(s) /\ \A i \in 1 .. Len(s) : w[i] = u[i + 1]
    BY <1>1, <1>2
  <2>2. \A i \in 1 .. Len(s) : u[i + 1] = s[i]
    BY <1>1, <1>2
  <2> HIDE DEF w
  <2>3. w = s
    BY <2>1, <2>2
  <2> QED BY <2>3 DEF w
<1>5. Wrap(a, s, b) = u
  BY DEF Wrap, u, v
<1> QED BY <1>2, <1>3, <1>4, <1>5


(* The same facts, for texts. *)

\* The same facts, of texts.
LEMMA ConcatT ==
  ASSUME NEW s \in Text, NEW t \in Text
  PROVE  /\ s \o t \in Text /\ Len(s \o t) = Len(s) + Len(t) /\ Len(s) \in Nat /\ Len(t) \in Nat
         /\ \A i \in 1 .. Len(s) : (s \o t)[i] = s[i]
         /\ \A i \in 1 .. Len(t) : (s \o t)[Len(s) + i] = t[i]
         /\ SubSeq(s \o t, 1, Len(s)) = s
         /\ SubSeq(s \o t, Len(s) + 1, Len(s \o t)) = t
         /\ s \o << >> = s /\ << >> \o s = s
BY ConcatFacts DEF Text

\* The same of three texts, for Assoc.
LEMMA AssocT ==
  ASSUME NEW s \in Text, NEW t \in Text, NEW u \in Text
  PROVE  (s \o t) \o u = s \o (t \o u)
BY Assoc DEF Text

\* The same, for HasConcat.
LEMMA HasT ==
  ASSUME NEW s \in Text, NEW t \in Text, NEW c
  PROVE  /\ Has(s \o t, c) <=> Has(s, c) \/ Has(t, c)
         /\ \A x : Has(<<x>>, c) <=> x = c
         /\ ~Has(<< >>, c)
BY HasConcat DEF Text

\* The same, for Cut.
LEMMA CutT ==
  ASSUME NEW s \in Text, NEW t \in Text, NEW c \in Symbol, ~Has(s, c)
  PROVE  /\ Has(s \o (<<c>> \o t), c)
         /\ Before(s \o (<<c>> \o t), c) = s
         /\ After(s \o (<<c>> \o t), c) = t
BY Cut DEF Text

\* The same, for Inner.
LEMMA InnerT ==
  ASSUME NEW s \in Text, NEW a \in Symbol, NEW b \in Symbol
  PROVE  /\ Wrap(a, s, b) \in Text /\ Wrap(a, s, b) # << >>
         /\ Head(Wrap(a, s, b)) = a /\ Last(Wrap(a, s, b)) = b
         /\ Len(Wrap(a, s, b)) = Len(s) + 2
         /\ SubSeq(Wrap(a, s, b), 2, Len(Wrap(a, s, b)) - 1) = s
BY Inner DEF Text

\* What the encoders write of their own is in the alphabet.
LEMMA Symbols ==
  /\ COLON \in Symbol /\ PLUS \in Symbol /\ MARK \in Symbol /\ NL \in Symbol
  /\ QUOTED_NL \in Symbol /\ "{" \in Symbol /\ "}" \in Symbol /\ "[" \in Symbol
  /\ "]" \in Symbol
  /\ \A n \in DOMAIN Numeral : Numeral[n] \in Symbol
  /\ \A t \in DOMAIN MSG_TYPES : MSG_TYPES[t] \in Symbol
BY DEF Symbol, Range

\* What a text is, without its definition.
LEMMA TextFacts ==
  /\ \A x \in Symbol : <<x>> \in Text /\ Len(<<x>>) = 1 /\ <<x>>[1] = x /\ Head(<<x>>) = x
  /\ << >> \in Text /\ Len(<< >>) = 0
  /\ \A s \in Text : /\ Len(s) \in Nat /\ DOMAIN s = 1 .. Len(s)
                       /\ s # << >> => Len(s) > 0 /\ Head(s) = s[1]
                       /\ \A i \in 1 .. Len(s) : s[i] \in Symbol
  /\ \A s, t \in Text : s \o t \in Text /\ Len(s \o t) = Len(s) + Len(t)
BY DEF Text

-----------------------------------------------------------------------------
(* JSON. *)

\* There is one argument, or none.
LEMMA ArgsFacts ==
  Args = {<< >>} \union {<<a>> : a \in {a \in Text : a # << >> /\ ~Has(a, QUOTED_NL)}}
<1>1. ASSUME NEW x \in Args, x # << >>
      PROVE  x = <<x[1]>> /\ x[1] \in Text /\ x[1] # << >> /\ ~Has(x[1], QUOTED_NL)
  <2>1. x \in Seq(Text) /\ Len(x) = 1
    BY <1>1 DEF Args
  <2> QED BY <1>1, <2>1 DEF Args
<1>2. ASSUME NEW a \in Text, a # << >>, ~Has(a, QUOTED_NL) PROVE <<a>> \in Args
  BY <1>2 DEF Args
<1>3. << >> \in Args
  BY DEF Args
<1> QED BY <1>1, <1>2, <1>3

\* A line feed is escaped, and comes back, and no other symbol is touched.
LEMMA Replaced ==
  ASSUME NEW a \in Text, ~Has(a, QUOTED_NL)
  PROVE  LET b == ReplaceAll(a, NL, QUOTED_NL)
         IN  /\ b \in Text /\ Len(b) = Len(a)
             /\ ReplaceAll(b, QUOTED_NL, NL) = a
             /\ \A c : c # QUOTED_NL /\ Has(b, c) => Has(a, c)
             /\ \A c : c # NL /\ Has(a, c) => Has(b, c)
<1> DEFINE b == ReplaceAll(a, NL, QUOTED_NL)
<1>1. Len(a) \in Nat /\ DOMAIN a = 1 .. Len(a) /\ \A i \in 1 .. Len(a) : a[i] \in Symbol
  BY DEF Text
<1>2. /\ b \in Text /\ Len(b) = Len(a)
      /\ \A i \in 1 .. Len(a) : b[i] = IF a[i] = NL THEN QUOTED_NL ELSE a[i]
  <2>1. b = [i \in 1 .. Len(a) |-> IF a[i] = NL THEN QUOTED_NL ELSE a[i]]
    BY DEF ReplaceAll
  <2>2. \A i \in 1 .. Len(a) : (IF a[i] = NL THEN QUOTED_NL ELSE a[i]) \in Symbol
    BY <1>1, Symbols
  <2> HIDE DEF b
  <2> QED BY <1>1, <2>1, <2>2 DEF Text
<1> HIDE DEF b
<1>3. \A i \in 1 .. Len(a) : a[i] # QUOTED_NL
  BY <1>1 DEF Has
<1>4. ReplaceAll(b, QUOTED_NL, NL) = [i \in 1 .. Len(a) |-> IF b[i] = QUOTED_NL THEN NL ELSE b[i]]
  BY <1>2 DEF ReplaceAll
<1>5. ReplaceAll(b, QUOTED_NL, NL) = a
  <2>1. \A i \in 1 .. Len(a) : (IF b[i] = QUOTED_NL THEN NL ELSE b[i]) = a[i]
    BY <1>2, <1>3
  <2>2. a = [i \in 1 .. Len(a) |-> a[i]]
    BY <1>1 DEF Text
  <2> QED BY <1>4, <2>1, <2>2
<1>6. DOMAIN b = 1 .. Len(a)
  BY <1>1, <1>2 DEF Text
<1>7. \A c : c # QUOTED_NL /\ Has(b, c) => Has(a, c)
  BY <1>1, <1>2, <1>6 DEF Has
<1>8. \A c : c # NL /\ Has(a, c) => Has(b, c)
  BY <1>1, <1>2, <1>6 DEF Has
<1> QED BY <1>2, <1>5, <1>7, <1>8 DEF b

\* What json.dumps and JSON.stringify write, json.loads and JSON.parse read.
LEMMA Json ==
  ASSUME NEW args \in Args
  PROVE  /\ Dumps(args) \in Text /\ Dumps(args) # << >>
         /\ IsJson(Dumps(args)) /\ Loads(Dumps(args)) = args
         /\ \A c : c \notin {"[", "]", QUOTED_NL} /\ Has(Dumps(args), c)
                   => args # << >> /\ Has(args[1], c)
         /\ \A c : c # NL /\ args # << >> /\ Has(args[1], c) => Has(Dumps(args), c)
<1> DEFINE body == IF args = << >> THEN << >> ELSE ReplaceAll(args[1], NL, QUOTED_NL)
           u == Wrap("[", body, "]")
<1>1. args = << >> \/ (/\ args # << >> /\ args = <<args[1]>> /\ args[1] \in Text /\ args[1] # << >>
                       /\ ~Has(args[1], QUOTED_NL))
  BY ArgsFacts
<1>2. /\ body \in Text /\ (args = << >> <=> body = << >>)
      /\ (args # << >> => <<ReplaceAll(body, QUOTED_NL, NL)>> = args)
      /\ \A c : c # QUOTED_NL /\ Has(body, c) => args # << >> /\ Has(args[1], c)
      /\ \A c : c # NL /\ args # << >> /\ Has(args[1], c) => Has(body, c)
  <2>1. CASE args = << >>
    <3>1. body = << >>
      BY <2>1
    <3> HIDE DEF body
    <3> QED BY <2>1, <3>1 DEF Text, Has
  <2>2. CASE args # << >>
    <3> DEFINE y == ReplaceAll(args[1], NL, QUOTED_NL)
    <3>1. /\ y \in Text /\ Len(y) = Len(args[1]) /\ ReplaceAll(y, QUOTED_NL, NL) = args[1]
          /\ \A c : c # QUOTED_NL /\ Has(y, c) => Has(args[1], c)
          /\ \A c : c # NL /\ Has(args[1], c) => Has(y, c)
      BY <1>1, <2>2, Replaced
    <3>2. body = y
      BY <2>2
    <3> HIDE DEF body, y
    <3>3. y # << >>
      BY <1>1, <2>2, <3>1 DEF Text
    <3> QED BY <1>1, <2>2, <3>1, <3>2, <3>3
  <2> QED BY <2>1, <2>2
<1>3. Dumps(args) = u
  BY DEF Dumps, Wrap
<1> HIDE DEF body
<1>4. /\ u \in Text /\ u # <<>> /\ Head(u) = "[" /\ Last(u) = "]" /\ Len(u) = Len(body) + 2
      /\ SubSeq(u, 2, Len(u) - 1) = body
  <2>1. body \in Text /\ "[" \in Symbol /\ "]" \in Symbol
    BY <1>2, Symbols
  <2> HIDE DEF u
  <2>2. u = Wrap("[", body, "]")
    BY DEF u
  <2>3. /\ Wrap("[", body, "]") \in Text /\ Wrap("[", body, "]") # << >>
        /\ Head(Wrap("[", body, "]")) = "[" /\ Last(Wrap("[", body, "]")) = "]"
        /\ Len(Wrap("[", body, "]")) = Len(body) + 2
        /\ SubSeq(Wrap("[", body, "]"), 2, Len(Wrap("[", body, "]")) - 1) = body
    BY <2>1, InnerT
  <2> QED BY <2>2, <2>3
<1>5. Len(body) \in Nat /\ (body = << >> <=> Len(body) = 0)
  BY <1>2 DEF Text
<1>6. \A c : Has(u, c) <=> c = "[" \/ Has(body, c) \/ c = "]"
  <2>1. <<"[">> \in Text /\ <<"]">> \in Text /\ <<"[">> \o body \in Text
    BY <1>2, TextFacts, Symbols
  <2> QED BY <1>2, <2>1, HasT DEF Wrap
<1> HIDE DEF u
<1>7. IsJson(u)
  BY <1>4, <1>5 DEF IsJson
<1>8. Loads(u) = args
  <2>1. Len(u) = 2 <=> args = << >>
    BY <1>2, <1>4, <1>5
  <2> QED BY <1>2, <1>4, <2>1 DEF Loads
<1> QED BY <1>2, <1>3, <1>4, <1>6, <1>7, <1>8

\* The name and the arguments of an event come back from its JSON.
LEMMA JsonEvent ==
  ASSUME NEW name \in Text, name # << >>, ~Has(name, COLON), NEW args \in Args
  PROVE  LET t == DumpsEvent(name, args)
         IN  t \in Text /\ t # << >> /\ IsJsonEvent(t) /\ EventName(t) = name /\ EventArgs(t) = args
<1> DEFINE d == Dumps(args)
           x == IF args = << >> THEN << >> ELSE <<COLON>> \o d
           inner == name \o x
           t == Wrap("{", inner, "}")
<1>0. /\ d \in Text /\ IsJson(d) /\ Loads(d) = args
      /\ COLON \in Symbol /\ <<COLON>> \in Text /\ << >> \in Text
      /\ <<"{">> \in Text /\ <<"}">> \in Text
  BY Json, TextFacts, Symbols
<1>1. x \in Text /\ (args = << >> => x = << >>) /\ (args # << >> => x = <<COLON>> \o d)
  BY <1>0, TextFacts
<1>2. DumpsEvent(name, args) = t
  <2>1. DumpsEvent(name, args) = <<"{">> \o name \o x \o <<"}">>
    BY DEF DumpsEvent
  <2> HIDE DEF x
  <2>2. (<<"{">> \o name) \o x = <<"{">> \o (name \o x)
    BY <1>0, <1>1, AssocT
  <2> QED BY <2>1, <2>2 DEF Wrap
<1> HIDE DEF x, d
<1>3. inner \in Text /\ Len(inner) = Len(name) + Len(x) /\ Len(name) > 0 /\ Len(x) \in Nat
      /\ Len(name) \in Nat
  BY <1>1, TextFacts
<1>4. (args = << >> => ~Has(inner, COLON) /\ inner = name)
  BY <1>1, ConcatT
<1>5. args # << >> => Has(inner, COLON) /\ Before(inner, COLON) = name /\ After(inner, COLON) = d
  <2>1. /\ Has(name \o (<<COLON>> \o d), COLON)
        /\ Before(name \o (<<COLON>> \o d), COLON) = name
        /\ After(name \o (<<COLON>> \o d), COLON) = d
    BY <1>0, CutT, Symbols
  <2> QED BY <1>1, <2>1
<1> HIDE DEF inner
<1>6. /\ t \in Text /\ t # <<>> /\ Head(t) = "{" /\ Last(t) = "}" /\ Len(t) = Len(inner) + 2
      /\ SubSeq(t, 2, Len(t) - 1) = inner
  <2>1. inner \in Text /\ "{" \in Symbol /\ "}" \in Symbol
    BY <1>3, Symbols
  <2>2. t = Wrap("{", inner, "}")
    OBVIOUS
  <2> HIDE DEF t
  <2> QED BY <2>1, <2>2, InnerT
<1> HIDE DEF t
<1>7. Len(t) > 2
  <2>1. Len(inner) \in Nat /\ Len(inner) > 0
    BY <1>3
  <2>2. Len(t) = Len(inner) + 2
    BY <1>6
  <2> QED BY <2>1, <2>2
<1>8. IsJsonEvent(t)
  BY <1>0, <1>4, <1>5, <1>6, <1>7 DEF IsJsonEvent
<1>9. EventName(t) = name
  BY <1>4, <1>5, <1>6, NoCut DEF EventName
<1>10. EventArgs(t) = args
  BY <1>0, <1>4, <1>5, <1>6 DEF EventArgs
<1> QED BY <1>2, <1>6, <1>8, <1>9, <1>10

-----------------------------------------------------------------------------
(* Packets. *)

\* The four parts of a text that is written part by part.
Written(ty, id, e, d) == <<ty, COLON>> \o id \o <<COLON>> \o e \o Optional(COLON, d)

\* split(":", 3), and the regular expression of the client, find the four parts.
LEMMA Parts ==
  ASSUME NEW ty \in Symbol, ty # COLON, NEW id \in Text, ~Has(id, COLON),
         NEW e \in Text, ~Has(e, COLON), NEW d \in Text
  PROVE  LET t == Written(ty, id, e, d)
         IN  /\ t \in Text /\ Has(t, COLON) /\ Has(After(t, COLON), COLON)
             /\ Split(t) = [type |-> <<ty>>, id |-> id, endpoint |-> e, data |-> d]
<1> DEFINE o == Optional(COLON, d)
           r2 == e \o o
           r1 == id \o (<<COLON>> \o r2)
           t == <<ty>> \o (<<COLON>> \o r1)
<1>1. o \in Text /\ (d = << >> => o = << >>) /\ (d # << >> => o = <<COLON>> \o d)
  BY TextFacts, Symbols DEF Optional
<1> HIDE DEF o
<1>2. <<ty>> \in Text /\ <<COLON>> \in Text /\ COLON \in Symbol /\ ~Has(<<ty>>, COLON)
  BY TextFacts, Symbols, HasT
<1>3. r2 \in Text /\ Before(r2, COLON) = e /\ After(r2, COLON) = d
  <2>0. r2 \in Text
    BY <1>1, TextFacts
  <2>1. CASE d = << >>
    <3>1. r2 = e
      BY <1>1, <2>1, ConcatT, TextFacts
    <3> HIDE DEF r2
    <3> QED BY <2>0, <2>1, <3>1, NoCut
  <2>2. CASE d # << >>
    <3>1. r2 = e \o (<<COLON>> \o d)
      BY <1>1, <2>2
    <3> HIDE DEF r2
    <3> QED BY <1>2, <2>0, <3>1, CutT
  <2> QED BY <2>1, <2>2
<1> HIDE DEF r2
<1>4. r1 \in Text /\ Has(r1, COLON) /\ Before(r1, COLON) = id /\ After(r1, COLON) = r2
  BY <1>2, <1>3, CutT, TextFacts
<1> HIDE DEF r1
<1>5. t \in Text /\ Has(t, COLON) /\ Before(t, COLON) = <<ty>> /\ After(t, COLON) = r1
  BY <1>2, <1>4, CutT, TextFacts
<1>6. Written(ty, id, e, d) = t
  <2>0. <<ty, COLON>> \in Text
    BY <1>2 DEF Text
  <2>1. PICK a \in Text : a = <<ty, COLON>>
    BY <2>0
  <2>2. PICK c \in Text : c = <<COLON>>
    BY <1>2
  <2>3. Written(ty, id, e, d) = (((a \o id) \o c) \o e) \o o
    BY <2>1, <2>2 DEF Written, o
  <2>4. (((a \o id) \o c) \o e) \o o = a \o (id \o (c \o (e \o o)))
    <3>1. \A x \in Text : (((a \o id) \o c) \o e) \o x = a \o (id \o (c \o (e \o x)))
      BY SMTT(60) DEF Text
    <3>2. o \in Text
      BY <1>1
    <3> QED BY <3>1, <3>2, Zenon
  <2>5. a \o (id \o (c \o (e \o o))) = a \o r1
    BY <2>2 DEF r1, r2
  <2>6. a \o r1 = t
    BY <1>2, <1>4, <2>1 DEF Text
  <2> HIDE DEF t
  <2> QED BY <2>3, <2>4, <2>5, <2>6
<1> HIDE DEF t
<1> QED BY <1>3, <1>4, <1>5, <1>6 DEF Split

\* A number is read as it was written, and is none of the parsers' characters.
LEMMA Numbers ==
  ASSUME NEW n \in DOMAIN Numeral
  PROVE  /\ Numeral[n] \in Symbol /\ Numeral[n] # COLON /\ Numeral[n] # PLUS /\ Numeral[n] # MARK
         /\ <<Numeral[n]>> \in Text /\ <<Numeral[n]>> # << >>
         /\ IsNumber(<<Numeral[n]>>) /\ Number(<<Numeral[n]>>) = n
         /\ ~Has(<<Numeral[n]>>, COLON) /\ ~Has(<<Numeral[n]>>, PLUS)
         /\ ~Has(<<Numeral[n]>>, MARK)
<1>1. Numeral[n] \in Range(Numeral)
  BY DEF Range
<1>2. /\ Numeral[n] \in Symbol /\ Numeral[n] # COLON /\ Numeral[n] # PLUS /\ Numeral[n] # MARK
  BY <1>1, PacketAssumption, Symbols
<1>3. <<Numeral[n]>> \in Text /\ <<Numeral[n]>> # << >> /\ Len(<<Numeral[n]>>) = 1
      /\ <<Numeral[n]>>[1] = Numeral[n]
  BY <1>2, TextFacts
<1>4. IsNumber(<<Numeral[n]>>)
  BY <1>1, <1>3 DEF IsNumber
<1>5. \A m \in DOMAIN Numeral : Numeral[m] = Numeral[n] => m = n
  BY PacketAssumption DEF IsInjective
<1>6. Number(<<Numeral[n]>>) = n
  BY <1>3, <1>5 DEF Number
<1>7. \A c : Has(<<Numeral[n]>>, c) <=> Numeral[n] = c
  BY <1>3, HasT
<1> QED BY <1>2, <1>3, <1>4, <1>6, <1>7

\* So is a type.
LEMMA TypesOfPackets ==
  ASSUME NEW ty \in Types
  PROVE  /\ MSG_TYPES[ty] \in Symbol /\ MSG_TYPES[ty] # COLON
         /\ MSG_TYPES[ty] \in Range(MSG_TYPES) /\ KeyOf(MSG_TYPES, MSG_TYPES[ty]) = ty
         /\ MSG_TYPES[ty] = MSG_TYPES.json <=> ty = "json"
         /\ MSG_TYPES[ty] = MSG_TYPES.ack <=> ty = "ack"
<1>1. ty \in DOMAIN MSG_TYPES
  BY DEF MSG_TYPES, Types
<1>2. MSG_TYPES[ty] \in Range(MSG_TYPES) /\ MSG_TYPES[ty] \in Symbol
  BY <1>1, Symbols DEF Range
<1>3. MSG_TYPES[ty] # COLON
  BY DEF MSG_TYPES, Types, COLON
<1>4. \A x \in DOMAIN MSG_TYPES : MSG_TYPES[x] = MSG_TYPES[ty] => x = ty
  BY DEF MSG_TYPES, Types
<1>5. KeyOf(MSG_TYPES, MSG_TYPES[ty]) = ty
  BY <1>1, <1>4 DEF KeyOf
<1>6. "json" \in DOMAIN MSG_TYPES /\ "ack" \in DOMAIN MSG_TYPES
      /\ MSG_TYPES["json"] = MSG_TYPES.json /\ MSG_TYPES["ack"] = MSG_TYPES.ack
  BY DEF MSG_TYPES
<1> QED BY <1>2, <1>3, <1>4, <1>5, <1>6

\* The id, with the '+' of one that asks for the arguments.
LEMMA IdParts ==
  ASSUME NEW p, Sound(p)
  PROVE  /\ IdPart(p) \in Text /\ ~Has(IdPart(p), COLON)
         /\ IdPart(p) = << >> <=> p.id = 0
         /\ p.id # 0 => /\ IsNumber(Before(IdPart(p), PLUS)) /\ Number(Before(IdPart(p), PLUS)) = p.id
                        /\ Has(IdPart(p), PLUS) <=> p.ack = "data"
<1>1. p.id \in {0} \union (DOMAIN Numeral)
  BY DEF Sound, PacketType
<1>2. CASE p.id = 0
  BY <1>2, TextFacts, HasT DEF IdPart
<1>3. CASE p.id # 0 /\ p.ack # "data"
  <2>1. IdPart(p) = <<Numeral[p.id]>>
    BY <1>1, <1>3, Numbers, ConcatT DEF IdPart
  <2> QED BY <1>1, <1>3, <2>1, Numbers, NoCut
<1>4. CASE p.id # 0 /\ p.ack = "data"
  <2>1. IdPart(p) = <<Numeral[p.id]>> \o <<PLUS>>
    BY <1>4 DEF IdPart
  <2>2. PICK s \in Text : s = <<Numeral[p.id]>> /\ ~Has(s, COLON) /\ ~Has(s, PLUS)
                       /\ IsNumber(s) /\ Number(s) = p.id /\ s # << >>
    BY <1>1, <1>4, Numbers
  <2>3. <<PLUS>> = <<PLUS>> \o << >> /\ <<PLUS>> \in Text
    BY TextFacts, Symbols, ConcatT
  <2>4. /\ Has(s \o <<PLUS>>, PLUS) /\ Before(s \o <<PLUS>>, PLUS) = s
    <3>1. PICK c \in Symbol : c = PLUS
      BY Symbols
    <3>2. PICK r \in Text : r = << >>
      BY TextFacts
    <3>3. Has(s \o (<<c>> \o r), c) /\ Before(s \o (<<c>> \o r), c) = s
      BY <2>2, <3>1, CutT
    <3> QED BY <2>3, <3>1, <3>2, <3>3
  <2>5. ~Has(s \o <<PLUS>>, COLON)
    BY <2>2, <2>3, HasT DEF PLUS, COLON
  <2>6. s \o <<PLUS>> \in Text /\ Len(s \o <<PLUS>>) = Len(s) + 1 /\ Len(s) \in Nat
    BY <2>3, ConcatT, TextFacts, Symbols
  <2>7. s \o <<PLUS>> # << >>
    BY <2>6, TextFacts
  <2> QED BY <1>4, <2>1, <2>2, <2>4, <2>5, <2>6, <2>7
<1> QED BY <1>2, <1>3, <1>4

\* What follows the endpoint.
LEMMA DataParts ==
  ASSUME NEW p, Sound(p)
  PROVE  /\ ClientData(p) \in Text
         /\ p.type \in {"connect", "message"} => ClientData(p) = p.data
         /\ p.type = "json" => IsJson(ClientData(p)) /\ Loads(ClientData(p))[1] = p.data
         /\ p.type = "event" => /\ IsJsonEvent(ClientData(p)) /\ EventName(ClientData(p)) = p.name
                                /\ EventArgs(ClientData(p)) = p.args
         /\ p.type = "ack" =>
              /\ IsNumber(Before(ClientData(p), PLUS))
              /\ Number(Before(ClientData(p), PLUS)) = p.ackId
              /\ Has(ClientData(p), PLUS) <=> p.args # << >>
              /\ p.args # << >> => After(ClientData(p), PLUS) = Dumps(p.args)
              /\ p.args = << >> => ClientData(p) = <<Numeral[p.ackId]>>
<1>1. /\ p.type \in Types /\ p.data \in Text /\ p.args \in Args /\ p.name \in Text
      /\ p.type = "ack" => p.ackId \in DOMAIN Numeral
  BY DEF Sound, PacketType
<1>2. CASE p.type \in {"connect", "message"}
  BY <1>1, <1>2 DEF ClientData, PayloadOf, HasPayload
<1>3. CASE p.type = "json"
  <2>1. <<p.data>> \in Args
    BY <1>1, <1>3 DEF Args, Sound
  <2>2. ClientData(p) = Dumps(<<p.data>>)
    BY <1>3 DEF ClientData, PayloadOf, HasPayload
  <2>3. IsJson(ClientData(p)) /\ Loads(ClientData(p)) = <<p.data>> /\ ClientData(p) \in Text
    BY <2>1, <2>2, Json
  <2> QED BY <1>3, <2>3
<1>4. CASE p.type = "event"
  <2>1. ClientData(p) = DumpsEvent(p.name, p.args)
    BY <1>4 DEF ClientData, PayloadOf, HasPayload
  <2>2. p.name # << >> /\ ~Has(p.name, COLON)
    BY <1>4 DEF Sound
  <2> QED BY <1>1, <1>4, <2>1, <2>2, JsonEvent
<1>5. CASE p.type = "ack"
  <2>1. PICK num \in Text : /\ num = <<Numeral[p.ackId]>> /\ IsNumber(num) /\ Number(num) = p.ackId
                            /\ ~Has(num, PLUS)
    BY <1>1, <1>5, Numbers
  <2>0. ClientData(p) = <<Numeral[p.ackId]>> \o
                          (IF p.args = << >> THEN << >> ELSE <<PLUS>> \o Dumps(p.args))
    BY <1>5 DEF ClientData, HasPayload
  <2>2. CASE p.args = << >>
    <3>1. ClientData(p) = num \o << >>
      BY <2>0, <2>1, <2>2
    <3>2. ClientData(p) = num
      BY <3>1, ConcatT
    <3> QED BY <1>5, <2>1, <2>2, <3>2, NoCut
  <2>3. CASE p.args # << >>
    <3>1. PICK c \in Symbol : c = PLUS
      BY Symbols
    <3>2. PICK d \in Text : d = Dumps(p.args)
      BY <1>1, Json
    <3>3. ClientData(p) = num \o (<<c>> \o d)
      BY <2>0, <2>1, <2>3, <3>1, <3>2
    <3>4. <<c>> \o d \in Text /\ num \o (<<c>> \o d) \in Text
      BY TextFacts
    <3>5. /\ Has(num \o (<<c>> \o d), c) /\ Before(num \o (<<c>> \o d), c) = num
          /\ After(num \o (<<c>> \o d), c) = d
      BY <2>1, <3>1, CutT
    <3> QED BY <1>5, <2>1, <2>3, <3>1, <3>2, <3>3, <3>4, <3>5
  <2> QED BY <2>2, <2>3
<1>6. CASE p.type \in {"disconnect", "heartbeat", "noop"}
  BY <1>6, TextFacts DEF ClientData, HasPayload
<1> QED BY <1>1, <1>2, <1>3, <1>4, <1>5, <1>6 DEF Types

\* What the client writes, cut into its parts, and what its header says.
LEMMA ClientParts ==
  ASSUME NEW p, Sound(p)
  PROVE  LET t == ClientEncode(p)
             s == Split(t)
         IN  /\ t \in Text /\ Has(t, COLON) /\ Has(After(t, COLON), COLON)
             /\ s = [type |-> <<MSG_TYPES[p.type]>>, id |-> IdPart(p), endpoint |-> p.endpoint,
                     data |-> ClientData(p)]
             /\ Header(s) = [Blank EXCEPT !.type = p.type, !.endpoint = p.endpoint,
                                          !.id = p.id, !.ack = p.ack]
<1> DEFINE t == ClientEncode(p)
           s == Split(t)
<1>1. /\ p.type \in Types /\ p.endpoint \in Text /\ ~Has(p.endpoint, COLON)
      /\ p.id = 0 <=> p.ack = "none"
      /\ p.ack \in {"none", "true", "data"}
  BY DEF Sound, PacketType
<1>2. PICK ty \in Symbol : /\ ty = MSG_TYPES[p.type] /\ ty # COLON
                           /\ KeyOf(MSG_TYPES, ty) = p.type
  BY <1>1, TypesOfPackets
<1>3. t = Written(ty, IdPart(p), p.endpoint, ClientData(p))
  BY <1>2 DEF ClientEncode, Written
<1> HIDE DEF t
<1>4. /\ t \in Text /\ Has(t, COLON) /\ Has(After(t, COLON), COLON)
      /\ s = [type |-> <<ty>>, id |-> IdPart(p), endpoint |-> p.endpoint, data |-> ClientData(p)]
  BY <1>1, <1>2, <1>3, IdParts, DataParts, Parts
<1> HIDE DEF s
<1>5. /\ s.type[1] = ty /\ s.id = IdPart(p) /\ s.endpoint = p.endpoint
  BY <1>4
<1>6. Header(s) = [Blank EXCEPT !.type = p.type, !.endpoint = p.endpoint, !.id = p.id, !.ack = p.ack]
  <2>1. /\ p.id = IF s.id = << >> THEN 0 ELSE Number(Before(s.id, PLUS))
        /\ p.ack = IF s.id = << >> THEN "none" ELSE IF Has(s.id, PLUS) THEN "data" ELSE "true"
    BY <1>1, <1>5, IdParts
  <2>2. p.type = KeyOf(MSG_TYPES, s.type[1]) /\ p.endpoint = s.endpoint
    BY <1>2, <1>5
  <2> QED BY <2>1, <2>2 DEF Header
<1> QED BY <1>2, <1>4, <1>6 DEF s, t

-----------------------------------------------------------------------------
(* The two ends agree. *)

\* The server's encode() and the client's encodePacket() write a packet alike.
THEOREM SameText ==
  ASSUME NEW p, Sound(p)
  PROVE  Encode(p) = ClientEncode(p)
<1> DEFINE ty == MSG_TYPES[p.type]
           e  == p.endpoint
<1>1. p.type \in Types /\ p.args \in Args /\ e \in Text /\ IdPart(p) \in Text
  BY IdParts DEF Sound, PacketType
<1> HIDE DEF e
<1>2. PICK w \in Text : w = <<ty, COLON>>
  <2>1. ty \in Symbol /\ COLON \in Symbol
    BY <1>1, TypesOfPackets, Symbols
  <2>2. <<ty, COLON>> \in Text
    BY <2>1 DEF Text
  <2> QED BY <2>2
<1>3. PICK c \in Text : c = <<COLON>>
  BY TextFacts, Symbols
<1>4. PICK i \in Text : i = IdPart(p)
  BY <1>1
<1>5. PICK o \in Text : o = Optional(COLON, ClientData(p))
  <2>1. ClientData(p) \in Text
    BY DataParts
  <2> QED BY <2>1, TextFacts, Symbols DEF Optional
<1>6. ClientEncode(p) = (((w \o i) \o c) \o e) \o o
  BY <1>2, <1>3, <1>4, <1>5 DEF ClientEncode, e
<1>7. p.type \notin HasPayload => i = << >> /\ w \o i = w
  <2>1. p.type \notin HasPayload => i = << >>
    BY <1>4 DEF IdPart, Sound
  <2> QED BY <2>1, ConcatT
<1>8. CASE p.type \in HasPayload
  <2>1. Encode(p) = w \o (((i \o c) \o e) \o o)
    BY <1>2, <1>3, <1>4, <1>5, <1>8 DEF Encode, ClientData, HasPayload, e
  <2>2. (((w \o i) \o c) \o e) \o o = w \o (((i \o c) \o e) \o o)
    BY <1>1, SMTT(60) DEF Text
  <2> QED BY <1>6, <2>1, <2>2
<1>9. CASE p.type \in {"disconnect", "connect"}
  <2>1. ClientData(p) = p.data
    BY <1>9 DEF ClientData, HasPayload, Sound
  <2>2. Encode(p) = w \o ((c \o e) \o o)
    BY <1>2, <1>3, <1>5, <1>9, <2>1 DEF Encode, HasPayload, e
  <2>3. ((w \o c) \o e) \o o = w \o ((c \o e) \o o)
    BY <1>1, SMTT(60) DEF Text
  <2> QED BY <1>6, <1>7, <1>9, <2>2, <2>3 DEF HasPayload
<1>10. CASE p.type \in {"heartbeat", "noop"}
  <2>1. Encode(p) = w \o c
    BY <1>2, <1>3, <1>10 DEF Encode, HasPayload
  <2>2. e = << >> /\ o = << >>
    BY <1>5, <1>10 DEF ClientData, HasPayload, Sound, Optional, e
  <2>3. ((w \o c) \o << >>) \o << >> = w \o c
    BY <1>1, SMTT(60) DEF Text
  <2> QED BY <1>6, <1>7, <1>10, <2>1, <2>2, <2>3 DEF HasPayload
<1>11. CASE p.type = "ack"
  <2>1. PICK y \in Text : y = IF p.args = << >> THEN << >> ELSE <<PLUS>> \o Dumps(p.args)
    BY <1>1, Json, TextFacts, Symbols
  <2>2. PICK num \in Symbol : num = Numeral[p.ackId]
    BY <1>11, Numbers DEF Sound
  <2>3. PICK n \in Text : n = <<num>>
    BY TextFacts
  <2>4. PICK cn \in Text : cn = <<COLON, num>>
    <3>1. COLON \in Symbol
      BY Symbols
    <3>2. <<COLON, num>> \in Text
      BY <3>1 DEF Text
    <3> QED BY <3>2
  <2>5. PICK ce \in Text : ce = c \o e
    BY <1>1, TextFacts
  <2>6. Encode(p) = w \o ((ce \o cn) \o y)
    BY <1>2, <1>3, <1>11, <2>1, <2>2, <2>4, <2>5 DEF Encode, HasPayload, e
  <2>7. ClientData(p) = n \o y
    BY <1>11, <2>1, <2>2, <2>3 DEF ClientData, HasPayload
  <2>8. n \o y # << >>
    BY <2>3, TextFacts
  <2>9. o = c \o (n \o y)
    BY <1>3, <1>5, <2>7, <2>8 DEF Optional
  <2>10. c \o (n \o y) = cn \o y
    <3>1. cn = c \o n
      BY <1>3, <2>3, <2>4 DEF Text
    <3> QED BY <3>1, SMTT(60) DEF Text
  <2>11. (ce \o cn) \o y = ce \o (cn \o y)
    BY SMTT(60) DEF Text
  <2>12. ((w \o c) \o e) \o o = w \o (ce \o o)
    BY <1>1, <2>5, SMTT(60) DEF Text
  <2> QED BY <1>6, <1>7, <1>11, <2>6, <2>9, <2>10, <2>11, <2>12 DEF HasPayload
<1> QED BY <1>1, <1>8, <1>9, <1>10, <1>11 DEF Types, HasPayload

\* What the client writes, decode() reads back: type, endpoint, id, name and arguments
\* alike.  A '+' among the arguments of an ack is the exception.
THEOREM ServerReads ==
  ASSUME NEW p, Sound(p),
         p.type = "ack" /\ p.args # << >> => ~Has(p.args[1], PLUS)
  PROVE  Decode(ClientEncode(p)) = p
<1> DEFINE t == ClientEncode(p)
           s == Split(t)
           d == ClientData(p)
<1> SUFFICES Decode(t) = p
  OBVIOUS
<1>0. /\ Has(t, COLON) /\ Has(After(t, COLON), COLON)
      /\ s = [type |-> <<MSG_TYPES[p.type]>>, id |-> IdPart(p), endpoint |-> p.endpoint, data |-> d]
      /\ Header(s) = [Blank EXCEPT !.type = p.type, !.endpoint = p.endpoint,
                                   !.id = p.id, !.ack = p.ack]
  BY ClientParts, Zenon
<1> HIDE DEF s, t, d
<1>1. /\ Has(t, COLON) /\ Has(After(t, COLON), COLON)
      /\ s.type = <<MSG_TYPES[p.type]>> /\ s.id = IdPart(p) /\ s.data = d
      /\ Header(s) = [Blank EXCEPT !.type = p.type, !.endpoint = p.endpoint,
                                   !.id = p.id, !.ack = p.ack]
  BY <1>0
<1>2. p.type \in Types /\ p \in PacketType
  BY DEF Sound, PacketType
<1>3. /\ Len(s.type) = 1 /\ s.type[1] = MSG_TYPES[p.type] /\ s.type[1] \in Range(MSG_TYPES)
      /\ s.type[1] = MSG_TYPES.json <=> p.type = "json"
      /\ s.type[1] = MSG_TYPES.ack <=> p.type = "ack"
  <2>1. PICK ty : ty = MSG_TYPES[p.type]
    OBVIOUS
  <2>2. s.type = <<ty>>
    BY <1>1, <2>1
  <2> HIDE DEF s
  <2> QED BY <1>2, <2>1, <2>2, TypesOfPackets
<1>4. s.id # << >> => IsNumber(Before(s.id, PLUS))
  BY <1>1, IdParts
<1> HIDE DEF s
<1>5. p.type = "ack" => AckDecodes(d)
  <2>1. p.args \in Args
    BY <1>2 DEF PacketType
  <2>2. /\ IsJson(Dumps(p.args))
        /\ \A c : c \notin {"[", "]", QUOTED_NL} /\ Has(Dumps(p.args), c)
                   => p.args # << >> /\ Has(p.args[1], c)
    BY <2>1, Json
  <2>3. PLUS \notin {"[", "]", QUOTED_NL}
    BY DEF PLUS, QUOTED_NL
  <2>4. p.type = "ack" => ~Has(Dumps(p.args), PLUS)
    BY <2>2, <2>3
  <2>5. CASE p.type = "ack" /\ p.args = << >>
    <3>1. ~Has(d, PLUS) /\ IsNumber(Before(d, PLUS))
      BY <2>5, DataParts DEF d
    <3> QED BY <3>1, NoCut DEF AckDecodes
  <2>6. CASE p.type = "ack" /\ p.args # << >>
    <3>1. Has(d, PLUS) /\ IsNumber(Before(d, PLUS)) /\ After(d, PLUS) = Dumps(p.args)
      BY <2>6, DataParts DEF d
    <3> QED BY <2>2, <2>4, <2>6, <3>1 DEF AckDecodes
  <2> QED BY <2>5, <2>6
<1>6. p.type = "json" => IsJson(d)
  BY DataParts DEF d
<1>7. Decodable(t)
  <2>1. CASE p.type = "json"
    BY <1>1, <1>3, <1>4, <1>6, <2>1 DEF Decodable, s
  <2>2. CASE p.type = "ack"
    BY <1>1, <1>3, <1>4, <1>5, <2>2 DEF Decodable, s
  <2>3. CASE p.type \notin {"json", "ack"}
    BY <1>1, <1>3, <1>4, <2>3 DEF Decodable, s
  <2> QED BY <2>1, <2>2, <2>3
<1>8. p = [type |-> p.type, id |-> p.id, ack |-> p.ack, endpoint |-> p.endpoint,
           name |-> p.name, args |-> p.args, data |-> p.data, ackId |-> p.ackId]
  BY <1>2 DEF PacketType
<1>9. PICK h : /\ h = Header(s)
                /\ h = [type |-> p.type, id |-> p.id, ack |-> p.ack, endpoint |-> p.endpoint,
                        name |-> << >>, args |-> << >>, data |-> << >>, ackId |-> 0]
  BY <1>1 DEF Blank
<1>10. h.type = p.type
  BY <1>9
<1>11. CASE p.type \in {"connect", "message"}
  <2>1. d = p.data /\ p.args = << >> /\ p.name = << >> /\ p.ackId = 0
    BY <1>11, DataParts DEF d, Sound
  <2>2. Decode(t) = [h EXCEPT !.data = d]
    BY <1>1, <1>7, <1>9, <1>10, <1>11 DEF Decode, s
  <2> QED BY <1>8, <1>9, <2>1, <2>2
<1>12. CASE p.type = "json"
  <2>1. Loads(d)[1] = p.data /\ p.args = << >> /\ p.name = << >> /\ p.ackId = 0
    BY <1>12, DataParts DEF d, Sound
  <2>2. Decode(t) = [h EXCEPT !.data = Loads(d)[1]]
    BY <1>1, <1>7, <1>9, <1>10, <1>12 DEF Decode, s
  <2> QED BY <1>8, <1>9, <2>1, <2>2
<1>13. CASE p.type = "event"
  <2>1. /\ IsJsonEvent(d) /\ EventName(d) = p.name /\ EventArgs(d) = p.args
        /\ p.data = << >> /\ p.ackId = 0
    BY <1>13, DataParts DEF d, Sound
  <2>2. Decode(t) = [h EXCEPT !.name = EventName(d), !.args = EventArgs(d)]
    BY <1>1, <1>7, <1>9, <1>10, <1>13, <2>1 DEF Decode, s
  <2>3. PICK k : k = [h EXCEPT !.name = p.name]
    OBVIOUS
  <2>4. Decode(t) = [k EXCEPT !.args = p.args]
    BY <2>1, <2>2, <2>3
  <2>5. k = [type |-> p.type, id |-> p.id, ack |-> p.ack, endpoint |-> p.endpoint,
             name |-> p.name, args |-> << >>, data |-> << >>, ackId |-> 0]
    BY <1>9, <2>3
  <2> QED BY <1>8, <2>1, <2>4, <2>5
<1>14. CASE p.type = "ack"
  <2>1. /\ Number(Before(d, PLUS)) = p.ackId
        /\ p.args = IF Has(d, PLUS) THEN Loads(After(d, PLUS)) ELSE << >>
    BY <1>2, <1>14, DataParts, Json DEF d, PacketType
  <2>2. p.data = << >> /\ p.name = << >>
    BY <1>14 DEF Sound
  <2>3. Decode(t) = [h EXCEPT !.ackId = Number(Before(d, PLUS)),
                              !.args  = IF Has(d, PLUS) THEN Loads(After(d, PLUS)) ELSE << >>]
    BY <1>1, <1>7, <1>9, <1>10, <1>14 DEF Decode, s
  <2>4. PICK k : k = [h EXCEPT !.ackId = p.ackId]
    OBVIOUS
  <2>5. Decode(t) = [k EXCEPT !.args = p.args]
    BY <2>1, <2>3, <2>4
  <2>6. k = [type |-> p.type, id |-> p.id, ack |-> p.ack, endpoint |-> p.endpoint,
             name |-> << >>, args |-> << >>, data |-> << >>, ackId |-> p.ackId]
    BY <1>9, <2>4
  <2> QED BY <1>8, <2>2, <2>5, <2>6
<1>15. CASE p.type \in {"disconnect", "heartbeat", "noop"}
  <2>1. p.data = << >> /\ p.name = << >> /\ p.args = << >> /\ p.ackId = 0
    BY <1>15 DEF Sound
  <2>2. Decode(t) = h
    BY <1>1, <1>7, <1>9, <1>10, <1>15 DEF Decode, s
  <2> QED BY <1>8, <1>9, <2>1, <2>2
<1> QED BY <1>2, <1>11, <1>12, <1>13, <1>14, <1>15 DEF Types

\* An ack whose arguments hold a '+' does not decode.
THEOREM PlusBreaks ==
  ASSUME NEW p, Sound(p), p.type = "ack", p.args # << >>, Has(p.args[1], PLUS)
  PROVE  Decode(ClientEncode(p)) = Invalid
<1> DEFINE t == ClientEncode(p)
           s == Split(t)
           d == ClientData(p)
<1>1. s = [type |-> <<MSG_TYPES[p.type]>>, id |-> IdPart(p), endpoint |-> p.endpoint, data |-> d]
  BY ClientParts, Zenon
<1> HIDE DEF s, t, d
<1>2. s.data = d /\ s.type[1] = MSG_TYPES.ack /\ s.type[1] # MSG_TYPES.json
  BY <1>1 DEF MSG_TYPES
<1>3. Has(d, PLUS) /\ After(d, PLUS) = Dumps(p.args)
  BY DataParts DEF d
<1>4. Has(Dumps(p.args), PLUS)
  BY Json DEF Sound, PacketType, PLUS, NL
<1>5. ~AckDecodes(d)
  BY <1>3, <1>4 DEF AckDecodes
<1>6. ~Decodable(t)
  BY <1>2, <1>5 DEF Decodable, s
<1> QED BY <1>6 DEF Decode, t

\* What the server writes, decodePacket() of the client reads back, acks with a '+' included.
THEOREM ClientReads ==
  ASSUME NEW p, Sound(p)
  PROVE  ClientDecode(Encode(p)) = p
<1> DEFINE t == ClientEncode(p)
           s == Split(t)
           d == ClientData(p)
<1> SUFFICES ClientDecode(t) = p
  BY SameText
<1>0. /\ s = [type |-> <<MSG_TYPES[p.type]>>, id |-> IdPart(p), endpoint |-> p.endpoint, data |-> d]
      /\ Header(s) = [Blank EXCEPT !.type = p.type, !.endpoint = p.endpoint,
                                   !.id = p.id, !.ack = p.ack]
  BY ClientParts, Zenon
<1> HIDE DEF s, t, d
<1>1. s.data = d
  BY <1>0
<1>2. p.type \in Types /\ p \in PacketType
  BY DEF Sound, PacketType
<1>3. p = [type |-> p.type, id |-> p.id, ack |-> p.ack, endpoint |-> p.endpoint,
           name |-> p.name, args |-> p.args, data |-> p.data, ackId |-> p.ackId]
  BY <1>2 DEF PacketType
<1>4. PICK h : /\ h = Header(s)
                /\ h = [type |-> p.type, id |-> p.id, ack |-> p.ack, endpoint |-> p.endpoint,
                        name |-> << >>, args |-> << >>, data |-> << >>, ackId |-> 0]
  BY <1>0 DEF Blank
<1>5. h.type = p.type
  BY <1>4
<1>6. CASE p.type \in {"connect", "message"}
  <2>1. d = p.data /\ p.args = << >> /\ p.name = << >> /\ p.ackId = 0
    BY <1>6, DataParts DEF d, Sound
  <2>2. ClientDecode(t) = [h EXCEPT !.data = d]
    BY <1>1, <1>4, <1>5, <1>6 DEF ClientDecode, s
  <2> QED BY <1>3, <1>4, <2>1, <2>2
<1>7. CASE p.type = "json"
  <2>1. IsJson(d) /\ Loads(d)[1] = p.data /\ p.args = << >> /\ p.name = << >> /\ p.ackId = 0
    BY <1>7, DataParts DEF d, Sound
  <2>2. ClientDecode(t) = [h EXCEPT !.data = Loads(d)[1]]
    BY <1>1, <1>4, <1>5, <1>7, <2>1 DEF ClientDecode, s
  <2> QED BY <1>3, <1>4, <2>1, <2>2
<1>8. CASE p.type = "event"
  <2>1. /\ IsJsonEvent(d) /\ EventName(d) = p.name /\ EventArgs(d) = p.args
        /\ p.data = << >> /\ p.ackId = 0
    BY <1>8, DataParts DEF d, Sound
  <2>2. ClientDecode(t) = [h EXCEPT !.name = EventName(d), !.args = EventArgs(d)]
    BY <1>1, <1>4, <1>5, <1>8, <2>1 DEF ClientDecode, s
  <2>3. PICK k : k = [h EXCEPT !.name = p.name]
    OBVIOUS
  <2>4. ClientDecode(t) = [k EXCEPT !.args = p.args]
    BY <2>1, <2>2, <2>3
  <2>5. k = [type |-> p.type, id |-> p.id, ack |-> p.ack, endpoint |-> p.endpoint,
             name |-> p.name, args |-> << >>, data |-> << >>, ackId |-> 0]
    BY <1>4, <2>3
  <2> QED BY <1>3, <2>1, <2>4, <2>5
<1>9. CASE p.type = "ack"
  <2>1. /\ IsNumber(Before(d, PLUS)) /\ Number(Before(d, PLUS)) = p.ackId
        /\ p.args = IF IsJson(After(d, PLUS)) THEN Loads(After(d, PLUS)) ELSE << >>
    <3>1. CASE p.args = << >>
      <4>1. ~Has(d, PLUS)
        BY <1>9, <3>1, DataParts DEF d
      <4>2. After(d, PLUS) = << >>
        BY <4>1, NoCut
      <4>3. ~IsJson(<< >>)
        BY TextFacts DEF IsJson
      <4> QED BY <1>9, <3>1, <4>2, <4>3, DataParts DEF d
    <3>2. CASE p.args # << >>
      BY <1>2, <1>9, <3>2, DataParts, Json DEF d, PacketType
    <3> QED BY <3>1, <3>2
  <2>2. p.data = << >> /\ p.name = << >>
    BY <1>9 DEF Sound
  <2>3. ClientDecode(t) = [h EXCEPT !.ackId = Number(Before(d, PLUS)),
                              !.args  = IF IsJson(After(d, PLUS)) THEN Loads(After(d, PLUS))
                                        ELSE << >>]
    BY <1>1, <1>4, <1>5, <1>9, <2>1 DEF ClientDecode, s
  <2>4. PICK k : k = [h EXCEPT !.ackId = p.ackId]
    OBVIOUS
  <2>5. ClientDecode(t) = [k EXCEPT !.args = p.args]
    BY <2>1, <2>3, <2>4
  <2>6. k = [type |-> p.type, id |-> p.id, ack |-> p.ack, endpoint |-> p.endpoint,
             name |-> << >>, args |-> << >>, data |-> << >>, ackId |-> p.ackId]
    BY <1>4, <2>4
  <2> QED BY <1>3, <2>2, <2>5, <2>6
<1>10. CASE p.type \in {"disconnect", "heartbeat", "noop"}
  <2>1. p.data = << >> /\ p.name = << >> /\ p.args = << >> /\ p.ackId = 0
    BY <1>10 DEF Sound
  <2>2. ClientDecode(t) = h
    BY <1>1, <1>4, <1>5, <1>10 DEF ClientDecode, s
  <2> QED BY <1>3, <1>4, <2>1, <2>2
<1> QED BY <1>2, <1>6, <1>7, <1>8, <1>9, <1>10 DEF Types

=============================================================================
