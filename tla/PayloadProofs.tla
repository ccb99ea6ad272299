---------------------------- MODULE PayloadProofs ----------------------------
(***************************************************************************)
(* What PacketProofs shows of one packet, for the payloads that carry      *)
(* several: the response to a poll brings what was put in it, and a POST   *)
(* what _request_body() reads of it.                                       *)
(*                                                                         *)
(* The loops of the framings, and the texts they work on, are dealt with   *)
(* by induction on natural numbers with a set: it contains 0 and, with     *)
(* every number, the next.                                                 *)
(***************************************************************************)
EXTENDS PacketProofs

-----------------------------------------------------------------------------
(* Payloads. *)

\* Messages whose lengths are written, as encode_payload() and the client write them.
Framed(msgs) ==
  /\ msgs \in Seq(Text)
  /\ \A k \in 1 .. Len(msgs) : Len(msgs[k]) \in DOMAIN Numeral

\* One turn of the loops takes one message.
LEMMA Turn ==
  ASSUME NEW m \in Text, Len(m) \in DOMAIN Numeral, NEW r \in Text
  PROVE  /\ Frame(m) \in Text /\ Len(Frame(m)) = Len(m) + 3
         /\ Frame(m) \o r \in Text /\ Frame(m) \o r # << >> /\ Head(Frame(m) \o r) = MARK
         /\ Has(Tail(Frame(m) \o r), MARK)
         /\ FirstMessage(Frame(m) \o r) = m /\ Left(Frame(m) \o r) = r
<1>1. PICK num \in Symbol : num = Numeral[Len(m)]
  BY Numbers
<1>2. PICK n \in Text : n = <<num>> /\ Number(n) = Len(m) /\ ~Has(n, MARK)
  BY <1>1, Numbers
<1>3. PICK c \in Symbol : c = MARK
  BY Symbols
<1>4. PICK b \in Text : b = m \o r
  BY TextFacts
<1>5. PICK u \in Text : u = n \o (<<c>> \o b)
  BY TextFacts
<1>6. Has(u, MARK) /\ Before(u, MARK) = n /\ After(u, MARK) = b
  BY <1>2, <1>3, <1>5, CutT
<1>7. Frame(m) = <<c, num, c>> \o m
  BY <1>1, <1>3 DEF Frame
<1>8. Frame(m) \in Text /\ Len(Frame(m)) = Len(m) + 3
  BY <1>7, SMTT(60) DEF Text
<1>9. Frame(m) \o r = <<c>> \o u
  <2>1. Frame(m) \o r = <<c, num, c>> \o b
    BY <1>4, <1>7, SMTT(60) DEF Text
  <2>2. u = <<num, c>> \o b
    BY <1>2, <1>5, SMTT(60) DEF Text
  <2>3. <<c>> \o (<<num, c>> \o b) = <<c, num, c>> \o b
    BY SMTT(60) DEF Text
  <2> QED BY <2>1, <2>2, <2>3
<1>10. PICK t \in Text : t = Frame(m) \o r
  BY <1>8, TextFacts
<1>11. t # << >> /\ Head(t) = c /\ Tail(t) = u
  BY <1>9, <1>10, SMTT(60) DEF Text
<1>12. Upto(b, Len(m)) = m /\ From(b, Len(m)) = r
  <2>1. /\ SubSeq(b, 1, Len(m)) = m /\ SubSeq(b, Len(m) + 1, Len(b)) = r
        /\ Len(b) = Len(m) + Len(r) /\ Len(m) \in Nat /\ Len(r) \in Nat
    BY <1>4, ConcatT
  <2>2. (IF Len(m) < Len(b) THEN Len(m) ELSE Len(b)) = Len(m)
    <3>1. \A x, y \in Nat : (IF x < x + y THEN x ELSE x + y) = x
      OBVIOUS
    <3> QED BY <2>1, <3>1
  <2> QED BY <2>1, <2>2 DEF Upto, From
<1>13. FirstMessage(t) = m /\ Left(t) = r
  BY <1>2, <1>6, <1>11, <1>12 DEF FirstMessage, Left
<1> QED BY <1>3, <1>6, <1>8, <1>10, <1>11, <1>13

\* What the frames are made of, from either end.
LEMMA FramesFacts ==
  ASSUME NEW msgs, Framed(msgs), Len(msgs) > 0
  PROVE  \E left \in [0 .. Len(msgs) -> Text] :
           /\ left[0] = Frames(msgs) /\ left[Len(msgs)] = << >>
           /\ \A k \in 1 .. Len(msgs) : left[k - 1] = Frame(msgs[k]) \o left[k]
<1>0. PICK n \in Nat : n = Len(msgs)
  BY DEF Framed
<1> DEFINE fr == [i \in DOMAIN msgs |-> Frame(msgs[i])]
<1>1. n \in Nat /\ n > 0 /\ DOMAIN msgs = 1 .. n
      /\ \A k \in 1 .. n : msgs[k] \in Text /\ Len(msgs[k]) \in DOMAIN Numeral
  BY <1>0 DEF Framed
<1>2. fr \in Seq(Text) /\ Len(fr) = n /\ \A k \in 1 .. n : fr[k] = Frame(msgs[k]) /\ fr[k] \in Text
  <2>1. \A k \in 1 .. n : Frame(msgs[k]) \in Text
    BY <1>1, Turn, TextFacts
  <2> QED BY <1>1, <2>1
<1> HIDE DEF fr
\* The texts that end in each of the messages.
<1>3. PICK pre \in [1 .. n -> Text] :
        /\ FlattenSeq(fr) = pre[n] /\ pre[1] = fr[1]
        /\ \A i \in 2 .. n : pre[i] = pre[i - 1] \o fr[i]
  <2> DEFINE Solves(g) == g = [i \in 1 .. n |-> IF i = 1 THEN fr[i] ELSE g[i - 1] \o fr[i]]
  <2>1. \A i \in 1 .. n, v \in Text : v \o fr[i] \in Text /\ fr[1] \in Text
    BY <1>1, <1>2, TextFacts
  <2>2. PICK Step \in [1 .. n -> [Text -> Text]] :
          \A i \in 1 .. n, v \in Text : Step[i][v] = IF i = 1 THEN fr[1] ELSE v \o fr[i]
    <3> DEFINE S == [i \in 1 .. n |-> [v \in Text |-> IF i = 1 THEN fr[1] ELSE v \o fr[i]]]
    <3>1. S \in [1 .. n -> [Text -> Text]]
      BY <1>1, <2>1
    <3>2. \A i \in 1 .. n, v \in Text : S[i][v] = IF i = 1 THEN fr[1] ELSE v \o fr[i]
      OBVIOUS
    <3> HIDE DEF S
    <3> QED BY <3>1, <3>2
  <2>3. PICK f \in [0 .. n -> Text] : \A i \in 1 .. n : f[i] = Step[i][f[i - 1]]
    <3>1. PICK x \in Text : x = << >>
      BY TextFacts
    <3>2. PICK h : Recursive(h, n, Text, x, Step)
      BY Recursion
    <3> QED BY <3>2 DEF Recursive
  <2>4. PICK g : g = [i \in 1 .. n |-> f[i]]
    OBVIOUS
  <2>5. \A i \in 1 .. n : g[i] = IF i = 1 THEN fr[i] ELSE g[i - 1] \o fr[i]
    <3> SUFFICES ASSUME NEW i \in 1 .. n PROVE g[i] = IF i = 1 THEN fr[i] ELSE g[i - 1] \o fr[i]
      OBVIOUS
    <3>1. g[i] = f[i] /\ f[i - 1] \in Text /\ f[i] = IF i = 1 THEN fr[1] ELSE f[i - 1] \o fr[i]
      <4>1. i - 1 \in 0 .. n /\ f[i - 1] \in Text
        BY <1>1, <2>3
      <4>2. f[i] = Step[i][f[i - 1]]
        BY <2>3
      <4> QED BY <2>2, <2>4, <4>1, <4>2
    <3>2. i # 1 => g[i - 1] = f[i - 1]
      BY <1>1, <2>4
    <3> QED BY <3>1, <3>2
  <2>6. Solves(g)
    BY <2>4, <2>5
  <2>7. PICK pre : Solves(pre) /\ FlattenSeq(fr) = pre[n]
    <3>1. FlattenSeq(fr) = (CHOOSE h : Solves(h))[n]
      BY <1>1, <1>2 DEF FlattenSeq
    <3>2. Solves(CHOOSE h : Solves(h))
      <4> HIDE DEF Solves
      <4> QED BY <2>6
    <3> QED BY <3>1, <3>2
  <2>8. pre[1] = fr[1] /\ \A i \in 2 .. n : pre[i] = pre[i - 1] \o fr[i]
    <3>1. ASSUME NEW i \in 2 .. n PROVE pre[i] = pre[i - 1] \o fr[i]
      <4>1. i \in 1 .. n /\ i # 1
        OBVIOUS
      <4> QED BY <2>7, <4>1
    <3>2. pre[1] = fr[1]
      BY <1>1, <2>7
    <3> QED BY <3>1, <3>2
  <2>9. \A i \in 1 .. n : pre[i] \in Text
    <3> DEFINE N == {k \in Nat : k + 1 \in 1 .. n => pre[k + 1] \in Text}
    <3>1. 0 \in N
      BY <1>1, <1>2, <2>8
    <3>2. ASSUME NEW k \in Nat, k \in N PROVE k + 1 \in N
      <4> SUFFICES ASSUME k + 2 \in 1 .. n PROVE pre[k + 2] \in Text
        OBVIOUS
      <4>1. pre[k + 1] \in Text /\ k + 2 \in 2 .. n /\ (k + 2) - 1 = k + 1
        BY <1>1, <3>2
      <4>2. pre[k + 2] = pre[k + 1] \o fr[k + 2]
        BY <2>8, <4>1
      <4> QED BY <1>2, <4>1, <4>2, TextFacts
    <3> HIDE DEF N
    <3>3. Nat \subseteq N
      BY <3>1, <3>2, NatSetInduction
    <3>4. \A i \in 1 .. n : i - 1 \in N /\ (i - 1) + 1 = i
      BY <1>1, <3>3
    <3> QED BY <3>4 DEF N
  <2>10. pre \in [1 .. n -> Text]
    BY <2>7, <2>9
  <2> QED BY <2>7, <2>8, <2>10
<1>4. PICK w \in Text : w = Frames(msgs) /\ w = pre[n]
  <2>1. Frames(msgs) = pre[n]
    BY <1>3 DEF Frames, fr
  <2> QED BY <1>1, <1>3, <2>1
<1>5. PICK left : left = [k \in 0 .. n |-> IF k = 0 THEN w ELSE SubSeq(w, Len(pre[k]) + 1, Len(w))]
  OBVIOUS
\* What is left behind the k-th text, from the last one down.
<1>6. ASSUME NEW k \in 2 .. n, left[k] \in Text, w = pre[k] \o left[k]
      PROVE  /\ left[k - 1] = fr[k] \o left[k]
             /\ left[k - 1] \in Text /\ w = pre[k - 1] \o left[k - 1]
  <2>1. k \in 1 .. n /\ k - 1 \in 1 .. n /\ k - 1 \in 0 .. n /\ k - 1 # 0
    OBVIOUS
  <2>2. PICK a \in Text, b \in Text, c \in Text : a = pre[k - 1] /\ b = fr[k] /\ c = left[k]
    BY <1>2, <1>6, <2>1
  <2>3. PICK r \in Text : r = b \o c
    BY TextFacts
  <2>4. w = (a \o b) \o c
    BY <1>3, <1>6, <2>2
  <2>5. w = a \o r
    <3>1. (a \o b) \o c = a \o (b \o c)
      BY SMTT(60) DEF Text
    <3> QED BY <2>3, <2>4, <3>1
  <2>6. SubSeq(w, Len(a) + 1, Len(w)) = r
    BY <2>5, ConcatT
  <2>7. left[k - 1] = r
    BY <1>5, <2>1, <2>2, <2>6
  <2> QED BY <2>2, <2>3, <2>5, <2>7
<1>7. left[n] = << >> /\ w = pre[n] \o left[n]
  <2>1. left[n] = SubSeq(w, Len(w) + 1, Len(w))
    BY <1>1, <1>4, <1>5
  <2>2. SubSeq(w, Len(w) + 1, Len(w)) = << >>
    BY SMTT(60) DEF Text
  <2>3. w \o << >> = w
    BY ConcatT
  <2> QED BY <1>4, <2>1, <2>2, <2>3
<1> DEFINE Splits(k) == left[k] \in Text /\ w = pre[k] \o left[k]
<1>8. \A k \in 1 .. n : Splits(k)
  <2> DEFINE N == {j \in Nat : j < n => Splits(n - j)}
  <2>1. Splits(n)
    BY <1>7, TextFacts
  <2>2. \A k \in 2 .. n : Splits(k) => Splits(k - 1)
    BY <1>6
  <2> HIDE DEF Splits
  <2>3. 0 \in N
    <3>1. n - 0 = n
      OBVIOUS
    <3> QED BY <2>1, <3>1
  <2>4. ASSUME NEW j \in Nat, j \in N PROVE j + 1 \in N
    <3> SUFFICES ASSUME j + 1 < n PROVE Splits(n - (j + 1))
      OBVIOUS
    <3>1. PICK k \in 2 .. n : k = n - j /\ k - 1 = n - (j + 1)
      OBVIOUS
    <3>2. Splits(k)
      BY <2>4, <3>1
    <3> QED BY <2>2, <3>1, <3>2
  <2> HIDE DEF N
  <2>5. Nat \subseteq N
    BY <2>3, <2>4, NatSetInduction
  <2>6. \A k \in 1 .. n : n - k \in N /\ n - k < n /\ n - (n - k) = k
    BY <2>5
  <2> QED BY <2>6 DEF N
<1>9. \A k \in 1 .. n : left[k - 1] = fr[k] \o left[k]
  <2> SUFFICES ASSUME NEW k \in 1 .. n PROVE left[k - 1] = fr[k] \o left[k]
    OBVIOUS
  <2>1. CASE k = 1
    <3>1. left[0] = w /\ k - 1 = 0 /\ pre[k] = fr[k]
      BY <1>3, <1>5, <2>1
    <3> QED BY <1>8, <3>1
  <2>2. CASE k # 1
    <3>1. k \in 2 .. n
      BY <2>2
    <3> QED BY <1>6, <1>8, <3>1
  <2> QED BY <2>1, <2>2
<1>10. left \in [0 .. n -> Text] /\ left[0] = w
  <2>1. left[0] = w
    BY <1>5
  <2>2. \A k \in 0 .. n : left[k] \in Text
    BY <1>8, <2>1
  <2> QED BY <1>5, <2>1, <2>2
<1> QED BY <1>0, <1>1, <1>2, <1>4, <1>7, <1>9, <1>10

\* A text from which n turns take the messages msgs, and what each of them leaves.
Chain(R, n, msgs) ==
  /\ R \in [0 .. n -> Text] /\ R[n] = << >>
  /\ \A k \in 1 .. n : /\ R[k - 1] # << >> /\ Len(R[k - 1]) >= Len(R[k]) + 3
                       /\ FirstMessage(R[k - 1]) = msgs[k] /\ Left(R[k - 1]) = R[k]

\* The loops go along such a chain.
LEMMA Turns ==
  ASSUME NEW R, NEW n \in Nat, n > 0, NEW msgs, Chain(R, n, msgs), NEW t, t = R[0]
  PROVE  /\ n \in DOMAIN LeftAfter(t) /\ DOMAIN LeftAfter(t) \subseteq Nat
         /\ LeftAfter(t)[n] = << >>
         /\ \A k \in 1 .. n : LeftAfter(t)[k - 1] = R[k - 1]
<1>1. R \in [0 .. n -> Text] /\ R[n] = << >>
  BY DEF Chain
<1>3. t \in Text /\ t = R[0]
  BY <1>1
<1>4. ASSUME NEW k \in 1 .. n
      PROVE  /\ R[k - 1] # << >> /\ Left(R[k - 1]) = R[k]
             /\ Len(R[k - 1]) >= Len(R[k]) + 3
  BY DEF Chain
<1>5. Len(t) \in Nat /\ 3 * n <= Len(t)
  <2>1. PICK L \in [0 .. n -> Nat], l \in Nat : l = Len(t) /\ \A k \in 0 .. n : L[k] = Len(R[k])
    <3>1. \A k \in 0 .. n : Len(R[k]) \in Nat
      BY <1>1, TextFacts
    <3> DEFINE f == [k \in 0 .. n |-> Len(R[k])]
    <3>2. f \in [0 .. n -> Nat] /\ \A k \in 0 .. n : f[k] = Len(R[k])
      BY <3>1
    <3> HIDE DEF f
    <3> QED BY <1>3, <3>2, TextFacts
  <2>2. ASSUME NEW k \in 1 .. n PROVE L[k - 1] >= L[k] + 3
    <3>1. k - 1 \in 0 .. n /\ k \in 0 .. n
      OBVIOUS
    <3>2. L[k - 1] = Len(R[k - 1]) /\ L[k] = Len(R[k])
      BY <2>1, <3>1
    <3>3. Len(R[k - 1]) >= Len(R[k]) + 3
      BY <1>4
    <3> QED BY <3>2, <3>3
  <2> DEFINE Fits(k) == L[k] + 3 * k <= l
             N == {k \in Nat : k <= n => Fits(k)}
  <2>3. 0 \in N
    BY <1>3, <2>1
  <2>4. ASSUME NEW k \in Nat, k \in N PROVE k + 1 \in N
    <3>1. ASSUME k + 1 <= n PROVE Fits(k + 1)
      <4>1. k + 1 \in 1 .. n /\ (k + 1) - 1 = k /\ Fits(k)
        BY <2>4, <3>1
      <4>2. L[k] >= L[k + 1] + 3 /\ L[k] \in Nat /\ L[k + 1] \in Nat
        BY <2>2, <4>1
      <4> QED BY <4>1, <4>2
    <3> HIDE DEF Fits
    <3> QED BY <3>1
  <2> HIDE DEF N
  <2>5. Nat \subseteq N
    BY <2>3, <2>4, NatSetInduction
  <2>6. Fits(n) /\ L[n] \in Nat
    BY <2>5 DEF N
  <2> QED BY <2>1, <2>6
<1>6. PICK d \in Nat : d = Len(t) \div 3 /\ n <= d
  <2>1. \A x \in Nat : 3 * n <= x => x \div 3 \in Nat /\ n <= x \div 3
    OBVIOUS
  <2> QED BY <1>5, <2>1
<1>12. n <= d
  BY <1>6
<1> DEFINE Step(x) == IF x = << >> THEN << >> ELSE Left(x)
           Solves(f) == f = [k \in 0 .. d |-> IF k = 0 THEN t ELSE Step(f[k - 1])]
<1>7. \A k \in 1 .. n : R[k] = Step(R[k - 1])
  BY <1>4
<1>8. PICK left : left = LeftAfter(t) /\ Solves(left)
  <2>1. LeftAfter(t) = CHOOSE f : Solves(f)
    BY <1>6 DEF LeftAfter
  <2> DEFINE g == [k \in 0 .. d |-> IF k <= n THEN R[k] ELSE << >>]
  <2>2. \A k \in 0 .. d : g[k] = IF k = 0 THEN t ELSE Step(g[k - 1])
    <3> SUFFICES ASSUME NEW k \in 0 .. d PROVE g[k] = IF k = 0 THEN t ELSE Step(g[k - 1])
      OBVIOUS
    <3>1. CASE k = 0
      BY <1>3, <3>1
    <3>2. CASE k \in 1 .. n
      <4>1. g[k] = R[k] /\ g[k - 1] = R[k - 1]
        BY <3>2
      <4> HIDE DEF g, Step
      <4> QED BY <1>7, <3>2, <4>1
    <3>3. CASE k > n
      <4>1. g[k] = << >>
        BY <3>3
      <4>2. g[k - 1] = << >>
        <5>1. CASE k - 1 = n
          BY <1>1, <3>3, <5>1
        <5>2. CASE k - 1 # n
          BY <3>3, <5>2
        <5> QED BY <5>1, <5>2
      <4> HIDE DEF g
      <4> QED BY <3>3, <4>1, <4>2
    <3> QED BY <3>1, <3>2, <3>3
  <2>3. Solves(g)
    <3>1. g = [k \in 0 .. d |-> g[k]]
      OBVIOUS
    <3> HIDE DEF g, Step
    <3> QED BY <2>2, <3>1
  <2>4. Solves(CHOOSE f : Solves(f))
    <3> HIDE DEF Solves, g
    <3> QED BY <2>3
  <2> QED BY <2>1, <2>4
<1>9. DOMAIN left = 0 .. d /\ left[0] = t /\ \A k \in 1 .. d : left[k] = Step(left[k - 1])
  <2> HIDE DEF Step
  <2>1. left = [k \in 0 .. d |-> IF k = 0 THEN t ELSE Step(left[k - 1])]
    BY <1>8
  <2>2. DOMAIN left = 0 .. d
    BY <2>1
  <2>3. \A k \in 0 .. d : left[k] = IF k = 0 THEN t ELSE Step(left[k - 1])
    BY <2>1
  <2>4. 0 \in 0 .. d /\ \A k \in 1 .. d : k \in 0 .. d /\ k # 0
    BY <1>12
  <2> QED BY <2>2, <2>3, <2>4
<1>10. \A k \in 0 .. n : left[k] = R[k]
  <2> DEFINE N == {k \in Nat : k <= n => left[k] = R[k]}
  <2>1. 0 \in N
    BY <1>3, <1>9
  <2>2. ASSUME NEW k \in Nat, k \in N PROVE k + 1 \in N
    <3> SUFFICES ASSUME k + 1 <= n PROVE left[k + 1] = R[k + 1]
      OBVIOUS
    <3>1. k <= n
      OBVIOUS
    <3>2. left[k] = R[k]
      BY <2>2, <3>1
    <3>3. k + 1 \in 1 .. n /\ k + 1 \in 1 .. d /\ (k + 1) - 1 = k
      BY <1>12
    <3> HIDE DEF Step
    <3> QED BY <1>7, <1>9, <3>2, <3>3
  <2> HIDE DEF N
  <2>3. Nat \subseteq N
    BY <2>1, <2>2, NatSetInduction
  <2> QED BY <2>3 DEF N
<1>11. \A k \in 1 .. n : left[k - 1] = R[k - 1]
  BY <1>10
<1>13. n \in DOMAIN left /\ DOMAIN left \subseteq Nat /\ left[n] = << >>
  BY <1>1, <1>6, <1>9, <1>10
<1> HIDE DEF Solves
<1> QED BY <1>8, <1>11, <1>13

\* What encode_payload() and the client write is such a text: frame by frame.
FrameByFrame(R, n, msgs) ==
  /\ R[0] = Frames(msgs)
  /\ \A k \in 1 .. n : /\ R[k - 1] = Frame(msgs[k]) \o R[k]
                       /\ Head(R[k - 1]) = MARK /\ Has(Tail(R[k - 1]), MARK)

LEMMA FrameChain ==
  ASSUME NEW msgs, Framed(msgs), NEW n \in Nat, n = Len(msgs), n > 0
  PROVE  \E R : Chain(R, n, msgs) /\ FrameByFrame(R, n, msgs)
<1>1. n = Len(msgs) /\ n > 0
  OBVIOUS
<1>2. PICK R \in [0 .. n -> Text] :
        /\ R[0] = Frames(msgs) /\ R[n] = << >>
        /\ \A k \in 1 .. n : R[k - 1] = Frame(msgs[k]) \o R[k]
  BY <1>1, FramesFacts
<1>4. ASSUME NEW k \in 1 .. n
      PROVE  /\ R[k - 1] # << >> /\ Head(R[k - 1]) = MARK /\ Has(Tail(R[k - 1]), MARK)
             /\ FirstMessage(R[k - 1]) = msgs[k] /\ Left(R[k - 1]) = R[k]
             /\ Len(R[k - 1]) >= Len(R[k]) + 3
  <2>1. PICK m \in Text, r \in Text : m = msgs[k] /\ Len(m) \in DOMAIN Numeral /\ r = R[k]
    BY <1>1, <1>2 DEF Framed
  <2>2. R[k - 1] = Frame(m) \o r
    BY <1>2, <2>1
  <2>3. /\ Len(Frame(m)) = Len(m) + 3 /\ Frame(m) \in Text
        /\ Frame(m) \o r # << >> /\ Head(Frame(m) \o r) = MARK
        /\ Has(Tail(Frame(m) \o r), MARK)
        /\ FirstMessage(Frame(m) \o r) = m /\ Left(Frame(m) \o r) = r
    BY <2>1, Turn
  <2>4. Len(Frame(m) \o r) = Len(Frame(m)) + Len(r) /\ Len(m) \in Nat /\ Len(r) \in Nat
    <3>1. PICK f \in Text : f = Frame(m)
      BY <2>3
    <3>2. Len(f \o r) = Len(f) + Len(r)
      BY TextFacts
    <3> QED BY <3>1, <3>2, TextFacts
  <2>5. Len(Frame(m) \o r) >= Len(r) + 3
    BY <2>3, <2>4
  <2> QED BY <2>1, <2>2, <2>3, <2>5
<1>5. Chain(R, n, msgs)
  BY <1>2, <1>4 DEF Chain
<1>6. FrameByFrame(R, n, msgs)
  BY <1>2, <1>4 DEF FrameByFrame
<1> QED BY <1>5, <1>6

\* The loops take the messages one by one, and nothing is left.
LEMMA LoopFacts ==
  ASSUME NEW msgs, Framed(msgs), NEW n \in Nat, n = Len(msgs), n > 0, NEW t, t = Frames(msgs)
  PROVE  /\ t \in Text /\ t # << >> /\ Head(t) = MARK
         /\ n \in DOMAIN LeftAfter(t) /\ DOMAIN LeftAfter(t) \subseteq Nat
         /\ LeftAfter(t)[n] = << >>
         /\ \A k \in 1 .. n : /\ LeftAfter(t)[k - 1] # << >>
                              /\ Has(Tail(LeftAfter(t)[k - 1]), MARK)
                              /\ FirstMessage(LeftAfter(t)[k - 1]) = msgs[k]
<1>0. PICK R : Chain(R, n, msgs) /\ FrameByFrame(R, n, msgs)
  BY FrameChain
<1>1. /\ Chain(R, n, msgs) /\ R[0] = Frames(msgs)
      /\ \A k \in 1 .. n : Head(R[k - 1]) = MARK /\ Has(Tail(R[k - 1]), MARK)
  BY <1>0 DEF FrameByFrame
<1>2. /\ n \in DOMAIN LeftAfter(t) /\ DOMAIN LeftAfter(t) \subseteq Nat
      /\ LeftAfter(t)[n] = << >>
      /\ \A k \in 1 .. n : LeftAfter(t)[k - 1] = R[k - 1]
  BY <1>1, Turns
<1>3. /\ R[0] \in Text
      /\ \A k \in 1 .. n : R[k - 1] # << >> /\ FirstMessage(R[k - 1]) = msgs[k]
  BY <1>1 DEF Chain
<1>4. t # << >> /\ Head(t) = MARK
  <2>1. 1 \in 1 .. n /\ 1 - 1 = 0
    OBVIOUS
  <2> QED BY <1>1, <1>3, <2>1
<1> QED BY <1>1, <1>2, <1>3, <1>4

\* One message, or several.
LEMMA OneMessage ==
  ASSUME NEW msgs, Framed(msgs), Len(msgs) = 1
  PROVE  msgs = <<msgs[1]>>
BY DEF Framed

\* The loop of the server ends when nothing is left.
LEMMA Unframes ==
  ASSUME NEW R, NEW n \in Nat, n > 0, NEW msgs, Chain(R, n, msgs)
  PROVE  Unframe(R[0]) = [k \in 1 .. n |-> msgs[k]]
<1>2. PICK t, left : t = R[0] /\ left = LeftAfter(t)
  OBVIOUS
<1>1. /\ n \in DOMAIN left /\ DOMAIN left \subseteq Nat /\ left[n] = << >>
      /\ \A k \in 1 .. n : left[k - 1] = R[k - 1]
  BY <1>2, Turns
<1>3. /\ n \in DOMAIN left /\ DOMAIN left \subseteq Nat /\ left[n] = << >>
      /\ \A k \in 1 .. n : left[k - 1] # << >> /\ FirstMessage(left[k - 1]) = msgs[k]
  BY <1>1 DEF Chain
<1> DEFINE S == {k \in DOMAIN left : left[k] = << >>}
<1>4. n \in S /\ \A k \in S : k >= n
  <2> SUFFICES ASSUME NEW k \in S, k < n PROVE FALSE
    BY <1>3
  <2>1. k \in Nat /\ k + 1 \in 1 .. n /\ (k + 1) - 1 = k
    BY <1>3
  <2> QED BY <1>3, <2>1
<1>5. Min(S) = n
  <2>1. \A x \in S : x \in Nat
    BY <1>3
  <2>2. \A x \in S : (\A y \in S : x <= y) => x = n
    BY <1>4, <2>1
  <2>3. n \in S /\ \A y \in S : n <= y
    BY <1>4, <2>1
  <2> HIDE DEF S
  <2> QED BY <2>2, <2>3 DEF Min
<1>6. Unframe(t) = Messages(left, n)
  BY <1>2, <1>5 DEF Unframe
<1>7. Messages(left, n) = [k \in 1 .. n |-> msgs[k]]
  BY <1>3 DEF Messages
<1> QED BY <1>2, <1>6, <1>7

\* After the last message, then.
LEMMA ServerLoop ==
  ASSUME NEW msgs, Framed(msgs), Len(msgs) > 0
  PROVE  Unframe(Frames(msgs)) = msgs
<1>1. PICK n \in Nat : n = Len(msgs) /\ n > 0
  BY DEF Framed
<1>2. PICK R : Chain(R, n, msgs) /\ R[0] = Frames(msgs)
  BY <1>1, FrameChain DEF FrameByFrame
<1>3. msgs = [k \in 1 .. n |-> msgs[k]]
  BY <1>1 DEF Framed
<1> QED BY <1>1, <1>2, <1>3, Unframes

\* The loop of the client ends when no mark is left: after the last message too.
LEMMA ClientLoop ==
  ASSUME NEW msgs, Framed(msgs), Len(msgs) > 0
  PROVE  ClientUnframe(Frames(msgs)) = msgs
<1>1. PICK n \in Nat : n = Len(msgs) /\ n > 0
  BY DEF Framed
<1>2. PICK t, left : t = Frames(msgs) /\ left = LeftAfter(t)
  OBVIOUS
<1>3. /\ n \in DOMAIN left /\ DOMAIN left \subseteq Nat /\ left[n] = << >>
      /\ \A k \in 1 .. n : /\ left[k - 1] # << >> /\ Has(Tail(left[k - 1]), MARK)
                           /\ FirstMessage(left[k - 1]) = msgs[k]
  BY <1>1, <1>2, LoopFacts
<1> DEFINE S == {k \in DOMAIN left : left[k] = << >> \/ ~Has(Tail(left[k]), MARK)}
<1>4. n \in S /\ \A k \in S : k >= n
  <2> SUFFICES ASSUME NEW k \in S, k < n PROVE FALSE
    BY <1>3
  <2>1. k \in Nat /\ k + 1 \in 1 .. n /\ (k + 1) - 1 = k
    BY <1>3
  <2> QED BY <1>3, <2>1
<1>5. Min(S) = n
  <2>1. \A x \in S : x \in Nat
    BY <1>3
  <2>2. \A x \in S : (\A y \in S : x <= y) => x = n
    BY <1>4, <2>1
  <2>3. n \in S /\ \A y \in S : n <= y
    BY <1>4, <2>1
  <2> HIDE DEF S
  <2> QED BY <2>2, <2>3 DEF Min
<1>6. ClientUnframe(t) = Messages(left, n)
  BY <1>2, <1>5 DEF ClientUnframe
<1>7. Messages(left, n) = [k \in 1 .. n |-> msgs[k]]
  BY <1>3 DEF Messages
<1>8. msgs = [k \in 1 .. n |-> msgs[k]]
  BY <1>1 DEF Framed
<1> QED BY <1>2, <1>6, <1>7, <1>8

\* What the client packs in a POST, decode_payload() takes out again: the same
\* messages, in the same order.
THEOREM ServerUnpacks ==
  ASSUME NEW msgs, Framed(msgs), Len(msgs) > 0,
         \A k \in 1 .. Len(msgs) : msgs[k] # << >> /\ Head(msgs[k]) # MARK
  PROVE  DecodePayload(ClientEncodePayload(msgs)) = msgs
<1>1. CASE Len(msgs) = 1
  BY <1>1, OneMessage DEF DecodePayload, ClientEncodePayload
<1>2. CASE Len(msgs) # 1
  <2>1. PICK n \in Nat : n = Len(msgs) /\ n > 0
    BY DEF Framed
  <2>2. ClientEncodePayload(msgs) = Frames(msgs)
    BY <1>2 DEF ClientEncodePayload
  <2>3. Head(Frames(msgs)) = MARK
    BY <2>1, LoopFacts
  <2> QED BY <2>2, <2>3, ServerLoop DEF DecodePayload
<1> QED BY <1>1, <1>2

\* What encode_payload() packs in a response to a poll, the client takes out again.
THEOREM ClientUnpacks ==
  ASSUME NEW msgs, Framed(msgs), Len(msgs) > 0,
         \A k \in 1 .. Len(msgs) : msgs[k] # << >> /\ Head(msgs[k]) # MARK
  PROVE  ClientDecodePayload(EncodePayload(msgs)) = msgs
<1>1. CASE Len(msgs) = 1
  BY <1>1, OneMessage DEF ClientDecodePayload, EncodePayload
<1>2. CASE Len(msgs) # 1
  <2>1. PICK n \in Nat : n = Len(msgs) /\ n > 0
    BY DEF Framed
  <2>2. EncodePayload(msgs) = Frames(msgs)
    BY <1>2 DEF EncodePayload
  <2>3. Head(Frames(msgs)) = MARK
    BY <2>1, LoopFacts
  <2> QED BY <2>2, <2>3, ClientLoop DEF ClientDecodePayload
<1> QED BY <1>1, <1>2

\* No packet looks like a payload: a text starts as what is at its front does.
LEMMA HeadT ==
  ASSUME NEW a \in Text, a # << >>, NEW b \in Text
  PROVE  a \o b \in Text /\ a \o b # << >> /\ Head(a \o b) = Head(a)
BY DEF Text

\* A packet starts with the digit of its type, so that it is not taken for a payload.
LEMMA PacketsHaveNoMark ==
  ASSUME NEW p, Sound(p)
  PROVE  /\ Encode(p) \in Text /\ Encode(p) # << >> /\ Head(Encode(p)) # MARK
         /\ ClientEncode(p) = Encode(p)
<1>1. p.type \in Types /\ p.endpoint \in Text
  BY DEF Sound, PacketType
<1>2. MSG_TYPES[p.type] \in Symbol /\ MSG_TYPES[p.type] # MARK
  BY <1>1, TypesOfPackets DEF MSG_TYPES, Types, MARK
<1>3. PICK w \in Text : w = <<MSG_TYPES[p.type], COLON>> /\ w # << >> /\ Head(w) = MSG_TYPES[p.type]
  <2>1. COLON \in Symbol
    BY Symbols
  <2>2. <<MSG_TYPES[p.type], COLON>> \in Text
    BY <1>2, <2>1 DEF Text
  <2> QED BY <2>2
<1>4. PICK i \in Text, c \in Text, e \in Text, o \in Text :
        /\ i = IdPart(p) /\ c = <<COLON>> /\ e = p.endpoint
        /\ o = Optional(COLON, ClientData(p))
  <2>1. Optional(COLON, ClientData(p)) \in Text
    <3>1. PICK d \in Text : d = ClientData(p)
      BY DataParts
    <3>2. <<COLON>> \o d \in Text
      BY TextFacts, Symbols
    <3> QED BY <3>1, <3>2 DEF Optional
  <2>2. IdPart(p) \in Text /\ <<COLON>> \in Text
    BY IdParts, TextFacts, Symbols
  <2> QED BY <1>1, <2>1, <2>2
<1>5. ClientEncode(p) = ((w \o i) \o c) \o (e \o o)
  <2>1. ClientEncode(p) = (((w \o i) \o c) \o e) \o o
    BY <1>3, <1>4 DEF ClientEncode
  <2>2. (w \o i) \o c \in Text
    BY TextFacts
  <2> QED BY <2>1, <2>2, AssocT
<1>6. PICK x \in Text : x = w \o i /\ x # << >> /\ Head(x) = Head(w)
  BY <1>3, HeadT
<1>7. PICK y \in Text : y = x \o c /\ y # << >> /\ Head(y) = Head(w)
  BY <1>6, HeadT
<1>8. PICK z \in Text : z = e \o o
  BY TextFacts
<1>9. y \o z \in Text /\ y \o z # << >> /\ Head(y \o z) = Head(w)
  BY <1>7, HeadT
<1>10. ClientEncode(p) = y \o z
  BY <1>5, <1>6, <1>7, <1>8
<1> QED BY <1>2, <1>3, <1>9, <1>10, SameText

\* Packets that fit in a payload: the length of each text can be written.
Sendable(ps) ==
  /\ ps \in Seq(PacketType) /\ Len(ps) > 0
  /\ \A k \in 1 .. Len(ps) : Sound(ps[k]) /\ Len(Encode(ps[k])) \in DOMAIN Numeral

\* Their texts can be packed.
LEMMA TextsFramed ==
  ASSUME NEW ps, Sendable(ps), NEW texts, texts = [k \in 1 .. Len(ps) |-> Encode(ps[k])]
  PROVE  /\ Framed(texts) /\ Len(texts) = Len(ps)
         /\ \A k \in 1 .. Len(texts) : texts[k] # << >> /\ Head(texts[k]) # MARK
<1>1. PICK n \in Nat : n = Len(ps)
  BY DEF Sendable
<1>2. \A k \in 1 .. n : /\ Encode(ps[k]) \in Text /\ Encode(ps[k]) # << >>
                        /\ Head(Encode(ps[k])) # MARK
                        /\ Len(Encode(ps[k])) \in DOMAIN Numeral
  BY <1>1, PacketsHaveNoMark DEF Sendable
<1>3. texts = [k \in 1 .. n |-> Encode(ps[k])]
  BY <1>1
<1>4. texts \in Seq(Text) /\ Len(texts) = n
  BY <1>2, <1>3
<1> QED BY <1>1, <1>2, <1>3, <1>4 DEF Framed

\* A response to a poll brings the client the packets that the server put in it, in
\* their order: encode(), encode_payload(), decodePayload(), decodePacket().
THEOREM PollArrives ==
  ASSUME NEW ps, Sendable(ps), NEW texts, texts = [k \in 1 .. Len(ps) |-> Encode(ps[k])]
  PROVE  LET got == ClientDecodePayload(EncodePayload(texts))
         IN  [k \in 1 .. Len(got) |-> ClientDecode(got[k])] = ps
<1>1. PICK n \in Nat : n = Len(ps) /\ n > 0
  BY DEF Sendable
<1>2. ClientDecodePayload(EncodePayload(texts)) = texts /\ Len(texts) = n
  BY <1>1, TextsFramed, ClientUnpacks
<1>3. \A k \in 1 .. n : ClientDecode(texts[k]) = ps[k]
  BY <1>1, ClientReads DEF Sendable
<1>4. ps = [k \in 1 .. n |-> ps[k]]
  BY <1>1 DEF Sendable
<1> QED BY <1>2, <1>3, <1>4

\* The body of a POST brings the server the packets that the client put in it, in
\* their order, but for the acks with a '+': encodePacket(), encodePayload(),
\* decode_payload(), decode().
THEOREM PostArrives ==
  ASSUME NEW ps, Sendable(ps), NEW texts, texts = [k \in 1 .. Len(ps) |-> ClientEncode(ps[k])],
         \A k \in 1 .. Len(ps) :
           ps[k].type = "ack" /\ ps[k].args # << >> => ~Has(ps[k].args[1], PLUS)
  PROVE  LET got == DecodePayload(ClientEncodePayload(texts))
         IN  [k \in 1 .. Len(got) |-> Decode(got[k])] = ps
<1>1. PICK n \in Nat : n = Len(ps) /\ n > 0
  BY DEF Sendable
<1>2. texts = [k \in 1 .. Len(ps) |-> Encode(ps[k])]
  BY SameText DEF Sendable
<1>3. DecodePayload(ClientEncodePayload(texts)) = texts /\ Len(texts) = n
  BY <1>1, <1>2, TextsFramed, ServerUnpacks
<1>4. \A k \in 1 .. n : Decode(texts[k]) = ps[k]
  BY <1>1, ServerReads DEF Sendable
<1>5. ps = [k \in 1 .. n |-> ps[k]]
  BY <1>1 DEF Sendable
<1> QED BY <1>3, <1>4, <1>5

-----------------------------------------------------------------------------
(* Line feeds. *)

\* Two symbols.
LEMMA Pair ==
  ASSUME NEW T, NEW x \in T, NEW y \in T
  PROVE  <<x>> \o <<y>> = <<x, y>>
<1>1. <<x>> \in Seq(T) /\ <<y>> \in Seq(T)
  OBVIOUS
<1>2. <<x>> \o <<y>> \in Seq(T)
  BY <1>1
<1>3. PICK s \in Seq(T) : s = <<x>> \o <<y>>
  BY <1>2
<1>4. <<x, y>> \in Seq(T)
  OBVIOUS
<1>5. Len(s) = 2 /\ Len(<<x, y>>) = 2
  BY <1>1, <1>3
<1>6. s[1] = x /\ s[2] = y
  BY <1>1, <1>3
<1>7. s = <<x, y>>
  BY <1>4, <1>5, <1>6
<1> QED BY <1>3, <1>7

\* A text with a symbol in it, cut at the first.
LEMMA Uncut ==
  ASSUME NEW b \in Text, NEW c, Has(b, c)
  PROVE  \E s \in Text, r \in Text : b = s \o (<<c>> \o r) /\ ~Has(s, c)
<1>1. Len(b) \in Nat /\ DOMAIN b = 1 .. Len(b) /\ \A i \in 1 .. Len(b) : b[i] \in Symbol
  BY TextFacts
<1> DEFINE I == {i \in 1 .. Len(b) : b[i] = c}
<1>2. I \in SUBSET Nat /\ I # {}
  BY <1>1 DEF Has
<1>3. PICK k \in I : \A i \in I : k <= i
  BY <1>2, Least
<1>4. k \in 1 .. Len(b) /\ b[k] = c /\ \A i \in 1 .. k - 1 : b[i] # c
  BY <1>1, <1>3
<1> HIDE DEF I
<1>5. PICK s, r : s = SubSeq(b, 1, k - 1) /\ r = SubSeq(b, k + 1, Len(b))
  OBVIOUS
<1>6. s \in Text /\ r \in Text /\ Len(s) = k - 1 /\ \A i \in 1 .. k - 1 : s[i] = b[i]
  <2>1. k \in Nat /\ k - 1 \in Nat /\ k - 1 <= Len(b)
    BY <1>1, <1>4
  <2>2. s = [i \in 1 .. k - 1 |-> b[i]]
    BY <1>5, <2>1
  <2>3. \A i \in 1 .. k - 1 : b[i] \in Symbol
    BY <1>1, <2>1
  <2>4. s \in Seq(Symbol) /\ Len(s) = k - 1
    BY <2>1, <2>2, <2>3
  <2>5. r \in Seq(Symbol)
    BY <1>1, <1>5, <2>1 DEF Text
  <2> QED BY <2>2, <2>4, <2>5 DEF Text
<1>7. b = s \o (<<c>> \o r)
  <2> DEFINE z == [i \in 1 .. Len(b) - k + 1 |-> b[k - 1 + i]]
  <2>0. k \in Nat /\ k > 0 /\ k <= Len(b)
    BY <1>1, <1>4
  <2>1. r = [i \in 1 .. Len(b) - k |-> b[k + i]]
    BY <1>1, <1>5, <2>0
  <2>2. c \in Symbol /\ <<c>> \in Seq(Symbol) /\ r \in Seq(Symbol) /\ Len(r) = Len(b) - k
    BY <1>1, <1>4, <1>6, <2>0, <2>1 DEF Text
  <2>3. <<c>> \o r = z
    <3>1. Len(<<c>> \o r) = Len(b) - k + 1 /\ DOMAIN (<<c>> \o r) = 1 .. Len(b) - k + 1
      BY <1>1, <2>0, <2>2
    <3>2. \A i \in 1 .. Len(b) - k + 1 : (<<c>> \o r)[i] = b[k - 1 + i]
      BY <1>1, <1>4, <2>0, <2>1, <2>2
    <3>3. PICK y \in Seq(Symbol), m \in Nat : y = <<c>> \o r /\ m = Len(b) - k + 1
      <4>1. Len(b) - k + 1 \in Nat
        BY <1>1, <2>0
      <4>2. <<c>> \o r \in Seq(Symbol)
        BY <2>2
      <4> QED BY <4>1, <4>2
    <3>4. y = [i \in 1 .. m |-> y[i]]
      BY <3>1, <3>3
    <3> QED BY <3>2, <3>3, <3>4
  <2>4. z \in Seq(Symbol) /\ Len(z) = Len(b) - k + 1
    BY <1>1, <2>0
  <2>5. DOMAIN (s \o z) = 1 .. Len(b) /\ s \o z \in Seq(Symbol)
    BY <1>1, <1>6, <2>0, <2>4 DEF Text
  <2>6. \A i \in 1 .. Len(b) : (s \o z)[i] = b[i]
    <3> SUFFICES ASSUME NEW i \in 1 .. Len(b) PROVE (s \o z)[i] = b[i]
      OBVIOUS
    <3>1. CASE i < k
      <4>1. (s \o z)[i] = s[i]
        BY <1>1, <1>6, <2>0, <2>4, <3>1 DEF Text
      <4> QED BY <1>1, <1>6, <2>0, <3>1, <4>1
    <3>2. CASE i >= k
      <4>1. PICK j \in 1 .. Len(b) - k + 1 : i = k - 1 + j
        <5>1. i - k + 1 \in 1 .. Len(b) - k + 1 /\ i = k - 1 + (i - k + 1)
          BY <1>1, <2>0, <3>2
        <5> QED BY <5>1
      <4>2. z[j] = b[k - 1 + j]
        OBVIOUS
      <4> HIDE DEF z
      <4>3. (s \o z)[Len(s) + j] = z[j]
        BY <1>6, <2>4, <4>1, ConcatFacts DEF Text
      <4> QED BY <1>6, <4>1, <4>2, <4>3
    <3>3. i < k \/ i >= k
      BY <1>1, <2>0
    <3> HIDE DEF z
    <3> QED BY <3>1, <3>2, <3>3
  <2> HIDE DEF z
  <2>7. s \o z = b
    <3>1. b \in Seq(Symbol) /\ DOMAIN b = 1 .. Len(b)
      BY <1>1 DEF Text
    <3>2. PICK y \in Seq(Symbol) : y = s \o z
      BY <2>5
    <3>3. DOMAIN y = DOMAIN b /\ \A i \in DOMAIN b : y[i] = b[i]
      BY <2>5, <2>6, <3>1, <3>2
    <3>4. y = b
      BY <3>1, <3>3
    <3> QED BY <3>2, <3>4
  <2> QED BY <2>3, <2>7
<1>8. ~Has(s, c)
  BY <1>4, <1>6, TextFacts DEF Has
<1> QED BY <1>6, <1>7, <1>8

\* readline() passes over what has no line feed.
LEMMA BeforeConcat ==
  ASSUME NEW a \in Text, NEW b \in Text, NEW c \in Symbol, ~Has(a, c), Has(b, c)
  PROVE  /\ Has(a \o b, c) /\ Before(a \o b, c) = a \o Before(b, c)
         /\ Before(b, c) \in Text /\ Len(Before(b, c)) < Len(b)
<1>1. PICK s \in Text, r \in Text : b = s \o (<<c>> \o r) /\ ~Has(s, c)
  BY Uncut
<1>2. Before(b, c) = s
  BY <1>1, CutT
<1>3. PICK u \in Text : u = a \o s
  BY TextFacts
<1>4. ~Has(u, c)
  BY <1>1, <1>3, HasT
<1>5. PICK x \in Text : x = <<c>> \o r /\ Len(x) = Len(r) + 1
  <2>1. PICK n \in Nat : n = Len(r)
    BY TextFacts
  <2>2. <<c>> \in Text /\ Len(<<c>>) = 1
    BY TextFacts
  <2>3. <<c>> \o r \in Text /\ Len(<<c>> \o r) = 1 + n
    BY <2>1, <2>2, TextFacts
  <2>4. 1 + n = n + 1
    OBVIOUS
  <2> QED BY <2>1, <2>3, <2>4
<1>6. a \o b = u \o x
  <2>1. a \o (s \o x) = (a \o s) \o x
    BY AssocT
  <2> QED BY <1>1, <1>3, <1>5, <2>1
<1>7. Has(u \o x, c) /\ Before(u \o x, c) = u
  BY <1>4, <1>5, CutT
<1>8. Len(s) < Len(b)
  <2>1. Len(b) = Len(s) + (Len(r) + 1) /\ Len(s) \in Nat /\ Len(r) \in Nat
    BY <1>1, <1>5, TextFacts
  <2> QED BY <2>1
<1> QED BY <1>2, <1>3, <1>6, <1>7, <1>8

\* Two texts without it make one without it.
LEMMA Clear ==
  ASSUME NEW a \in Text, NEW b \in Text, NEW c, ~Has(a, c), ~Has(b, c)
  PROVE  a \o b \in Text /\ ~Has(a \o b, c)
BY HasT, TextFacts

LEMMA HasEither ==
  \A a, b \in Text : a \o b \in Text /\ (Has(a, NL) \/ Has(b, NL) => Has(a \o b, NL))
BY HasT, TextFacts

LEMMA ClearSymbol ==
  ASSUME NEW x \in Symbol, NEW c, x # c
  PROVE  <<x>> \in Text /\ ~Has(<<x>>, c)
BY HasT, TextFacts

\* What readline() makes of a text with a line feed.
Line(t) == Before(t, NL) \o <<NL>>

LEMMA LineConcat ==
  ASSUME NEW a \in Text, NEW b \in Text, ~Has(a, NL), Has(b, NL)
  PROVE  /\ Has(a \o b, NL) /\ Line(a \o b) = a \o Line(b)
         /\ Line(b) \in Text /\ Line(b) # << >> /\ Len(Line(b)) <= Len(b)
<1>1. NL \in Symbol /\ <<NL>> \in Text /\ Len(<<NL>>) = 1
  BY TextFacts, Symbols
<1>2. PICK s \in Text : /\ s = Before(b, NL) /\ Len(s) < Len(b)
                        /\ Has(a \o b, NL) /\ Before(a \o b, NL) = a \o s
  BY <1>1, BeforeConcat
<1>3. (a \o s) \o <<NL>> = a \o (s \o <<NL>>)
  BY <1>1, AssocT
<1>4. /\ s \o <<NL>> \in Text /\ Len(s \o <<NL>>) = Len(s) + 1 /\ Len(s) \in Nat /\ Len(b) \in Nat
  BY <1>1, TextFacts
<1>5. s \o <<NL>> # << >> /\ Len(s \o <<NL>>) <= Len(b)
  BY <1>2, <1>4, TextFacts
<1> QED BY <1>2, <1>3, <1>4, <1>5 DEF Line

-----------------------------------------------------------------------------
(* Packets, line by line. *)

Good == {p \in PacketType : Sound(p) /\ Lines(p)}

\* JSON escapes a line feed.
LEMMA JsonIsOneLine ==
  ASSUME NEW args \in Args
  PROVE  Dumps(args) \in Text /\ ~Has(Dumps(args), NL)
<1> DEFINE body == IF args = << >> THEN << >> ELSE ReplaceAll(args[1], NL, QUOTED_NL)
<1>1. Dumps(args) \in Text
  BY Json
<1>2. body \in Text /\ ~Has(body, NL)
  <2>1. CASE args = << >>
    BY <2>1, TextFacts DEF Has
  <2>2. CASE args # << >>
    <3>1. args[1] \in Text /\ ~Has(args[1], QUOTED_NL)
      BY <2>2, ArgsFacts
    <3>2. PICK a \in Text : a = args[1]
      BY <3>1
    <3>3. ReplaceAll(a, NL, QUOTED_NL) = [i \in 1 .. Len(a) |-> IF a[i] = NL THEN QUOTED_NL ELSE a[i]]
      BY DEF ReplaceAll
    <3>4. NL # QUOTED_NL
      BY DEF NL, QUOTED_NL
    <3>5. ~Has(ReplaceAll(a, NL, QUOTED_NL), NL)
      BY <3>3, <3>4 DEF Has
    <3>6. ReplaceAll(a, NL, QUOTED_NL) \in Text
      BY <3>1, <3>2, Replaced
    <3> QED BY <2>2, <3>2, <3>5, <3>6
  <2> QED BY <2>1, <2>2
<1>3. Dumps(args) = <<"[">> \o body \o <<"]">>
  BY DEF Dumps
<1> HIDE DEF body
<1>4. "[" # NL /\ "]" # NL
  BY DEF NL
<1>5. PICK x \in Text, y \in Text : x = <<"[">> /\ y = <<"]">> /\ ~Has(x, NL) /\ ~Has(y, NL)
  BY <1>4, Symbols, ClearSymbol
<1>6. PICK z \in Text : z = x \o body /\ ~Has(z, NL)
  BY <1>2, <1>5, Clear
<1>7. ~Has(z \o y, NL)
  BY <1>5, <1>6, Clear
<1> QED BY <1>1, <1>3, <1>5, <1>6, <1>7

\* The symbols that the encoders write are no line feed.
LEMMA NoLineFeed ==
  /\ \A n \in DOMAIN Numeral : Numeral[n] # NL
  /\ \A ty \in Types : MSG_TYPES[ty] # NL
  /\ COLON # NL /\ PLUS # NL /\ MARK # NL
<1>1. \A n \in DOMAIN Numeral : Numeral[n] # NL
  BY PacketAssumption DEF Range
<1>2. \A ty \in Types : MSG_TYPES[ty] # NL
  BY DEF MSG_TYPES, Types, NL
<1> QED BY <1>1, <1>2 DEF COLON, PLUS, MARK, NL

LEMMA DataIsOneLine ==
  ASSUME NEW p \in Good
  PROVE  ClientData(p) \in Text /\ (~Multiline(p) => ~Has(ClientData(p), NL))
<1>1. Sound(p) /\ Lines(p) /\ p \in PacketType
  BY DEF Good
<1>2. ClientData(p) \in Text
  BY <1>1, DataParts
<1>3. /\ p.type \in Types /\ p.args \in Args /\ p.data \in Text /\ p.name \in Text
      /\ ~Has(p.name, NL) /\ (p.type = "connect" => ~Has(p.data, NL))
      /\ (p.type = "ack" => p.ackId \in DOMAIN Numeral)
  BY <1>1 DEF Lines, PacketType, Sound
<1>4. CASE p.type \in {"connect", "message"}
  BY <1>1, <1>2, <1>3, <1>4, DataParts DEF Multiline
<1>5. CASE p.type = "json"
  <2>1. <<p.data>> \in Args
    BY <1>1, <1>3, <1>5, ArgsFacts DEF Sound
  <2>2. ClientData(p) = Dumps(<<p.data>>)
    BY <1>5 DEF ClientData, PayloadOf, HasPayload
  <2> QED BY <2>1, <2>2, JsonIsOneLine
<1>6. CASE p.type = "event"
  <2>1. ClientData(p) = DumpsEvent(p.name, p.args)
    BY <1>6 DEF ClientData, PayloadOf, HasPayload
  <2>2. PICK d \in Text : d = Dumps(p.args) /\ ~Has(d, NL)
    BY <1>3, JsonIsOneLine
  <2>3. PICK x \in Text : x = (IF p.args = << >> THEN << >> ELSE <<COLON>> \o d) /\ ~Has(x, NL)
    <3>1. << >> \in Text /\ <<COLON>> \in Text /\ <<COLON>> \o d \in Text
      BY TextFacts, Symbols
    <3>2. ~Has(<< >>, NL) /\ ~Has(<<COLON>> \o d, NL)
      BY <2>2, <3>1, NoLineFeed, HasT
    <3> QED BY <3>1, <3>2
  <2>4. PICK b \in Text, e \in Text : b = <<"{">> /\ e = <<"}">> /\ ~Has(b, NL) /\ ~Has(e, NL)
    <3>1. "{" # NL /\ "}" # NL
      BY DEF NL
    <3> QED BY <3>1, Symbols, ClearSymbol
  <2>5. PICK m \in Text : m = p.name /\ ~Has(m, NL)
    BY <1>3
  <2>6. PICK y \in Text : y = b \o m /\ ~Has(y, NL)
    BY <2>4, <2>5, Clear
  <2>7. PICK z \in Text : z = y \o x /\ ~Has(z, NL)
    BY <2>3, <2>6, Clear
  <2>8. ~Has(z \o e, NL)
    BY <2>4, <2>7, Clear
  <2>9. ClientData(p) = z \o e
    BY <2>1, <2>2, <2>3, <2>4, <2>5, <2>6, <2>7 DEF DumpsEvent
  <2> QED BY <1>2, <2>8, <2>9
<1>7. CASE p.type = "ack"
  <2>1. ClientData(p) = <<Numeral[p.ackId]>> \o
                          (IF p.args = << >> THEN << >> ELSE <<PLUS>> \o Dumps(p.args))
    BY <1>7 DEF ClientData, HasPayload
  <2>2. PICK d \in Text : d = Dumps(p.args) /\ ~Has(d, NL)
    BY <1>3, JsonIsOneLine
  <2>3. PICK x \in Text : x = (IF p.args = << >> THEN << >> ELSE <<PLUS>> \o d) /\ ~Has(x, NL)
    <3>1. << >> \in Text /\ <<PLUS>> \in Text /\ <<PLUS>> \o d \in Text
      BY TextFacts, Symbols
    <3>2. ~Has(<< >>, NL) /\ ~Has(<<PLUS>> \o d, NL)
      BY <2>2, <3>1, NoLineFeed, HasT
    <3> QED BY <3>1, <3>2
  <2>4. PICK m \in Text : m = <<Numeral[p.ackId]>> /\ ~Has(m, NL)
    <3>1. PICK n \in Symbol : n = Numeral[p.ackId] /\ n # NL
      BY <1>3, <1>7, Numbers, NoLineFeed
    <3> QED BY <3>1, ClearSymbol
  <2>5. ~Has(m \o x, NL)
    BY <2>3, <2>4, Clear
  <2> QED BY <1>2, <2>1, <2>2, <2>3, <2>4, <2>5
<1>8. CASE p.type \in {"disconnect", "heartbeat", "noop"}
  BY <1>8, TextFacts DEF ClientData, HasPayload, Has
<1> QED BY <1>3, <1>4, <1>5, <1>6, <1>7, <1>8 DEF Types

\* An ack at which decode() raises.
Plus(p) == p.type = "ack" /\ p.args # << >> /\ Has(p.args[1], PLUS)

\* What the codecs do to a packet of this system.
LEMMA Codec ==
  ASSUME NEW p \in Good
  PROVE  /\ Encode(p) \in Text /\ Encode(p) # << >> /\ Head(Encode(p)) # MARK
         /\ ClientEncode(p) = Encode(p) /\ ClientDecode(Encode(p)) = p
         /\ ~Plus(p) => Decode(Encode(p)) = p
         /\ Plus(p) => Decode(Encode(p)) = Invalid
<1>1. Sound(p)
  BY DEF Good
<1>2. /\ Encode(p) \in Text /\ Encode(p) # << >> /\ Head(Encode(p)) # MARK
      /\ ClientEncode(p) = Encode(p)
  BY <1>1, PacketsHaveNoMark
<1>3. ClientDecode(Encode(p)) = p
  BY <1>1, ClientReads
<1>4. ~Plus(p) => Decode(ClientEncode(p)) = p
  BY <1>1, ServerReads DEF Plus
<1>5. Plus(p) => Decode(ClientEncode(p)) = Invalid
  BY <1>1, PlusBreaks DEF Plus
<1> QED BY <1>2, <1>3, <1>4, <1>5

\* A line feed stays where it is when what follows it is cut off.
LEMMA LineFacts ==
  ASSUME NEW t \in Text, Has(t, NL)
  PROVE  /\ Line(t) \in Text /\ Line(t) # << >> /\ Len(Line(t)) <= Len(t)
         /\ Has(Line(t), NL) /\ Line(Line(t)) = Line(t)
<1>1. << >> \in Text /\ ~Has(<< >>, NL)
  BY TextFacts, HasT
<1>2. Line(t) \in Text /\ Line(t) # << >> /\ Len(Line(t)) <= Len(t)
  BY <1>1, LineConcat
<1>3. PICK s \in Text, r \in Text, c \in Symbol : t = s \o (<<c>> \o r) /\ ~Has(s, c) /\ c = NL
  BY Uncut, Symbols
<1>4. Before(t, c) = s
  BY <1>3, CutT
<1>5. Line(t) = s \o (<<c>> \o << >>)
  BY <1>3, <1>4, ConcatT, TextFacts DEF Line
<1>6. PICK e \in Text : e = << >>
  BY <1>1
<1>7. Has(s \o (<<c>> \o e), c) /\ Before(s \o (<<c>> \o e), c) = s
  BY <1>3, CutT
<1> QED BY <1>2, <1>3, <1>4, <1>5, <1>6, <1>7 DEF Line

\* What the server reads of a packet is a packet, and reads the same again.
LEMMA Reading ==
  ASSUME NEW p \in Good
  PROVE  /\ AsRead(p) \in Good /\ AsRead(AsRead(p)) = AsRead(p)
         /\ ~Multiline(p) => AsRead(p) = p
         /\ Multiline(AsRead(p)) <=> Multiline(p)
         /\ AsRead(p).type = p.type /\ AsRead(p).id = p.id /\ AsRead(p).ack = p.ack
         /\ AsRead(p).endpoint = p.endpoint /\ AsRead(p).name = p.name
         /\ AsRead(p).args = p.args /\ AsRead(p).ackId = p.ackId
<1>1. CASE ~Multiline(p)
  BY <1>1 DEF AsRead
<1>2. CASE Multiline(p)
  <2>1. p \in PacketType /\ Sound(p) /\ Lines(p) /\ p.data \in Text /\ Has(p.data, NL)
    BY <1>2 DEF Good, PacketType, Multiline
  <2>2. PICK d \in Text : d = Line(p.data) /\ Has(d, NL) /\ Line(d) = d
    BY <2>1, LineFacts
  <2>3. PICK q : q = [p EXCEPT !.data = d]
    OBVIOUS
  <2>4. AsRead(p) = q
    BY <1>2, <2>2, <2>3 DEF AsRead, FirstLine, Line
  <2>5. /\ q \in PacketType /\ q.type = p.type /\ q.id = p.id /\ q.ack = p.ack
        /\ q.endpoint = p.endpoint /\ q.name = p.name /\ q.args = p.args
        /\ q.ackId = p.ackId /\ q.data = d
    BY <2>1, <2>3 DEF PacketType
  <2>6. q.type = "message"
    BY <1>2, <2>5 DEF Multiline
  <2>7. Sound(q)
    BY <2>1, <2>5, <2>6 DEF Sound
  <2>8. Lines(q)
    BY <2>1, <2>5, <2>6 DEF Lines
  <2>9. Multiline(q)
    BY <2>2, <2>5, <2>6 DEF Multiline
  <2>10. AsRead(q) = q
    <3>1. AsRead(q) = [q EXCEPT !.data = Line(d)]
      BY <2>5, <2>9 DEF AsRead, FirstLine, Line
    <3>2. [q EXCEPT !.data = q.data] = q
      BY <2>5 DEF PacketType
    <3> QED BY <2>2, <2>5, <3>1, <3>2
  <2> QED BY <1>2, <2>4, <2>5, <2>7, <2>8, <2>9, <2>10 DEF Good
<1> QED BY <1>1, <1>2

\* The text of a packet that has a line feed is cut to the text of what is read.
LEMMA EncodeLine ==
  ASSUME NEW p \in Good
  PROVE  /\ ~Multiline(p) => ~Has(Encode(p), NL)
         /\ Multiline(p) => Has(Encode(p), NL) /\ Line(Encode(p)) = Encode(AsRead(p))
<1>1. /\ Sound(p) /\ p.type \in Types /\ p.id \in {0} \union (DOMAIN Numeral)
      /\ p.endpoint \in Text /\ ~Has(p.endpoint, NL)
  BY DEF Good, Lines, PacketType
<1>2. PICK w \in Text : w = <<MSG_TYPES[p.type], COLON>> /\ ~Has(w, NL)
  <2>1. MSG_TYPES[p.type] \in Symbol /\ COLON \in Symbol
    BY <1>1, TypesOfPackets, Symbols
  <2>2. PICK a \in Text, b \in Text : /\ a = <<MSG_TYPES[p.type]>> /\ b = <<COLON>>
                                      /\ ~Has(a, NL) /\ ~Has(b, NL)
    BY <1>1, <2>1, NoLineFeed, ClearSymbol
  <2>3. a \o b = <<MSG_TYPES[p.type], COLON>>
    <3>1. PICK x \in Symbol, y \in Symbol : x = MSG_TYPES[p.type] /\ y = COLON
      BY <2>1
    <3>2. <<x>> \o <<y>> = <<x, y>>
      BY Pair
    <3> QED BY <2>2, <3>1, <3>2
  <2> QED BY <2>2, <2>3, Clear
<1>3. PICK i \in Text : i = IdPart(p) /\ ~Has(i, NL)
  <2>1. CASE p.id = 0
    BY <2>1, TextFacts, HasT DEF IdPart
  <2>2. CASE p.id # 0
    <3>1. PICK n \in Symbol : n = Numeral[p.id] /\ n # NL
      BY <1>1, <2>2, Numbers, NoLineFeed
    <3>2. PICK a \in Text : a = <<n>> /\ ~Has(a, NL)
      <4>1. <<n>> \in Text /\ ~Has(<<n>>, NL)
        BY <3>1, ClearSymbol
      <4> QED BY <4>1
    <3>3. PICK b \in Text : b = (IF p.ack = "data" THEN <<PLUS>> ELSE << >>) /\ ~Has(b, NL)
      BY NoLineFeed, Symbols, ClearSymbol, TextFacts, HasT
    <3>4. IdPart(p) = a \o b
      BY <2>2, <3>1, <3>2, <3>3 DEF IdPart
    <3> QED BY <3>2, <3>3, <3>4, Clear
  <2> QED BY <2>1, <2>2
<1>4. PICK c \in Text : c = <<COLON>> /\ ~Has(c, NL)
  BY NoLineFeed, Symbols, ClearSymbol
<1>5. PICK e \in Text : e = p.endpoint /\ ~Has(e, NL)
  BY <1>1
<1>6. PICK f \in Text : f = ((w \o i) \o c) \o e /\ ~Has(f, NL)
  <2>1. PICK x \in Text : x = w \o i /\ ~Has(x, NL)
    BY <1>2, <1>3, Clear
  <2>2. PICK y \in Text : y = x \o c /\ ~Has(y, NL)
    BY <1>4, <2>1, Clear
  <2> QED BY <1>5, <2>1, <2>2, Clear
<1>7. Encode(p) = f \o Optional(COLON, ClientData(p))
  BY <1>2, <1>3, <1>4, <1>5, <1>6, Codec DEF ClientEncode
<1>10. \A u \in Text : (f \o c) \o u = f \o (c \o u)
  BY AssocT
<1>8. CASE ~Multiline(p)
  <2>1. PICK o \in Text : o = Optional(COLON, ClientData(p)) /\ ~Has(o, NL)
    <3>1. PICK d \in Text : d = ClientData(p) /\ ~Has(d, NL)
      BY <1>8, DataIsOneLine
    <3>2. c \o d \in Text /\ ~Has(c \o d, NL)
      BY <1>4, <3>1, Clear
    <3> QED BY <1>4, <3>1, <3>2, TextFacts DEF Optional
  <2> QED BY <1>6, <1>7, <1>8, <2>1, Clear
<1>9. CASE Multiline(p)
  <2>1. PICK d \in Text : d = p.data /\ Has(d, NL)
    BY <1>9 DEF Good, PacketType, Multiline
  <2>2. ClientData(p) = d /\ d # << >>
    <3>1. ClientData(p) = p.data
      BY <1>9 DEF ClientData, PayloadOf, HasPayload, Multiline
    <3> QED BY <2>1, <3>1, HasT
  <2>3. PICK g \in Text : g = f \o c /\ ~Has(g, NL)
    BY <1>4, <1>6, Clear
  <2>4. Encode(p) = g \o d
    <3>1. Encode(p) = f \o (c \o d)
      BY <1>4, <1>7, <2>2 DEF Optional
    <3>2. (f \o c) \o d = f \o (c \o d)
      BY <1>10
    <3> QED BY <2>3, <3>1, <3>2
  <2>5. PICK l \in Text : l = Line(d) /\ l # << >>
    BY <2>1, LineFacts
  <2>6. Has(g \o d, NL) /\ Line(g \o d) = g \o l
    BY <2>1, <2>3, <2>5, LineConcat
  <2>7. Encode(AsRead(p)) = g \o l
    <3>1. PICK q \in Good : q = AsRead(p)
      BY Reading
    <3>2. q.data = l /\ q.type = "message" /\ p.type = "message"
      <4>1. p \in PacketType
        BY DEF Good
      <4> QED BY <1>9, <2>1, <2>5, <3>1, <4>1, Reading DEF AsRead, FirstLine, Line, Multiline, PacketType
    <3>3. ClientData(q) = l
      BY <3>2 DEF ClientData, PayloadOf, HasPayload
    <3>4. IdPart(q) = i /\ q.endpoint = e /\ MSG_TYPES[q.type] = MSG_TYPES[p.type]
      BY <1>3, <1>5, <3>1, Reading DEF IdPart
    <3>5. Encode(q) = f \o Optional(COLON, l)
      BY <1>2, <1>4, <1>6, <3>3, <3>4, Codec DEF ClientEncode
    <3>6. Encode(q) = f \o (c \o l)
      BY <1>4, <2>5, <3>5 DEF Optional
    <3>7. (f \o c) \o l = f \o (c \o l)
      BY <1>10
    <3> QED BY <2>3, <3>1, <3>6, <3>7
  <2> QED BY <1>9, <2>4, <2>6, <2>7
<1> QED BY <1>8, <1>9

-----------------------------------------------------------------------------
(* What the server takes from a POST. *)

\* Every number can be written.
AllNumbers == DOMAIN Numeral = Nat

LEMMA Downward ==
  ASSUME NEW n \in Nat, NEW S, n \in S, \A k \in 1 .. n : k \in S => k - 1 \in S
  PROVE  0 .. n \subseteq S
<1> DEFINE N == {j \in Nat : j <= n => n - j \in S}
<1>1. 0 \in N
  OBVIOUS
<1>2. ASSUME NEW j \in Nat, j \in N PROVE j + 1 \in N
  <2> SUFFICES ASSUME j + 1 <= n PROVE n - (j + 1) \in S
    OBVIOUS
  <2>1. n - j \in 1 .. n /\ n - j \in S /\ (n - j) - 1 = n - (j + 1)
    BY <1>2
  <2> QED BY <2>1
<1> HIDE DEF N
<1>3. Nat \subseteq N
  BY <1>1, <1>2, NatSetInduction
<1>4. ASSUME NEW k \in 0 .. n PROVE k \in S
  <2>1. n - k \in N /\ n - k <= n /\ n - (n - k) = k
    BY <1>3
  <2> QED BY <2>1 DEF N
<1> QED BY <1>4

\* What is in front of a message in a payload.
Length(m) == <<MARK, Numeral[Len(m)], MARK>>

LEMMA LengthFacts ==
  ASSUME NEW m \in Text, Len(m) \in DOMAIN Numeral
  PROVE  /\ Length(m) \in Text /\ Len(Length(m)) = 3 /\ ~Has(Length(m), NL)
         /\ Frame(m) = Length(m) \o m
<1>1. PICK x \in Symbol, y \in Symbol : x = MARK /\ y = Numeral[Len(m)] /\ x # NL /\ y # NL
  BY Symbols, NoLineFeed
<1>2. Length(m) = <<x, y, x>>
  BY <1>1 DEF Length
<1>3. <<x, y, x>> \in Text /\ Len(<<x, y, x>>) = 3
  BY DEF Text
<1>4. \A i \in 1 .. 3 : <<x, y, x>>[i] # NL
  BY <1>1
<1>5. ~Has(<<x, y, x>>, NL)
  BY <1>4 DEF Has
<1> QED BY <1>2, <1>3, <1>5 DEF Frame, Length

\* What a turn of the loop makes of a message that the body does not hold to its end.
LEMMA LastTurn ==
  ASSUME NEW m \in Text, Len(m) \in DOMAIN Numeral, NEW l \in Text, Len(l) <= Len(m)
  PROVE  /\ Length(m) \o l \in Text /\ Length(m) \o l # << >> /\ Len(Length(m) \o l) = Len(l) + 3
         /\ Head(Length(m) \o l) = MARK
         /\ FirstMessage(Length(m) \o l) = l /\ Left(Length(m) \o l) = << >>
<1>1. PICK num \in Symbol : num = Numeral[Len(m)]
  BY Numbers
<1>2. PICK n \in Text : n = <<num>> /\ Number(n) = Len(m) /\ ~Has(n, MARK)
  BY <1>1, Numbers
<1>3. PICK c \in Symbol : c = MARK
  BY Symbols
<1>4. PICK u \in Text : u = n \o (<<c>> \o l)
  BY TextFacts
<1>5. Before(u, MARK) = n /\ After(u, MARK) = l
  BY <1>2, <1>3, <1>4, CutT
<1>6. PICK t \in Text : t = Length(m) \o l /\ Len(t) = Len(l) + 3
  <2>1. PICK h \in Text : h = Length(m) /\ Len(h) = 3
    BY LengthFacts
  <2>2. h \o l \in Text /\ Len(h \o l) = Len(h) + Len(l) /\ Len(l) \in Nat
    BY TextFacts
  <2>3. Len(h \o l) = Len(l) + 3
    BY <2>1, <2>2
  <2> QED BY <2>1, <2>2, <2>3
<1>7. t = <<c>> \o u
  <2>1. t = <<c, num, c>> \o l
    BY <1>1, <1>3, <1>6 DEF Length
  <2>2. u = <<num, c>> \o l
    BY <1>2, <1>4, SMTT(60) DEF Text
  <2>3. <<c>> \o (<<num, c>> \o l) = <<c, num, c>> \o l
    BY SMTT(60) DEF Text
  <2> QED BY <2>1, <2>2, <2>3
<1>8. t # << >> /\ Head(t) = c /\ Tail(t) = u
  BY <1>7, SMTT(60) DEF Text
<1>9. Upto(l, Len(m)) = l /\ From(l, Len(m)) = << >>
  <2>1. PICK x \in Nat, y \in Nat : x = Len(m) /\ y = Len(l) /\ y <= x
    BY TextFacts
  <2>2. (IF x < y THEN x ELSE y) = y
    BY <2>1
  <2>3. SubSeq(l, 1, y) = l
    BY <2>1 DEF Text
  <2>4. SubSeq(l, x + 1, y) = << >>
    BY <2>1 DEF Text
  <2> QED BY <2>1, <2>2, <2>3, <2>4 DEF Upto, From
<1>10. FirstMessage(t) = l /\ Left(t) = << >>
  BY <1>2, <1>5, <1>8, <1>9 DEF FirstMessage, Left
<1> QED BY <1>3, <1>6, <1>8, <1>10

\* The first line of a text goes no further than its first line feed.
LEMMA UpToLineFeed ==
  ASSUME NEW s \in Text, NEW r \in Text, NEW c \in Symbol, ~Has(s, c)
  PROVE  \A b \in Text : /\ Has((s \o (<<c>> \o r)) \o b, c)
                         /\ Before((s \o (<<c>> \o r)) \o b, c) = s
<1> SUFFICES ASSUME NEW b \in Text
             PROVE  /\ Has((s \o (<<c>> \o r)) \o b, c)
                    /\ Before((s \o (<<c>> \o r)) \o b, c) = s
  OBVIOUS
<1>1. PICK x \in Text : x = <<c>>
  BY TextFacts
<1>2. (s \o (x \o r)) \o b = s \o (x \o (r \o b))
  <2>1. \A t \in Text : (s \o t) \o b = s \o (t \o b)
    BY AssocT
  <2>2. x \o r \in Text /\ (x \o r) \o b = x \o (r \o b)
    BY AssocT, TextFacts
  <2> QED BY <2>1, <2>2
<1>3. PICK y \in Text : y = r \o b
  BY TextFacts
<1>4. Has(s \o (<<c>> \o y), c) /\ Before(s \o (<<c>> \o y), c) = s
  BY CutT
<1> QED BY <1>1, <1>2, <1>3, <1>4

LEMMA LineFirst ==
  ASSUME NEW a \in Text, NEW b \in Text, Has(a, NL)
  PROVE  Has(a \o b, NL) /\ Line(a \o b) = Line(a)
<1>1. PICK s \in Text, r \in Text, c \in Symbol : a = s \o (<<c>> \o r) /\ ~Has(s, c) /\ c = NL
  BY Uncut, Symbols
<1>2. Before(a, c) = s
  BY <1>1, CutT
<1>3. Has(a \o b, c) /\ Before(a \o b, c) = s
  BY <1>1, UpToLineFeed
<1> QED BY <1>1, <1>2, <1>3 DEF Line

\* What the server takes from the body of a POST.
Taken(t) == DecodePayload(RequestBody(t))

\* The texts of the packets, as far as they are read.
ReadTexts(ps, m) == [k \in 1 .. m |-> Encode(AsRead(ps[k]))]

\* A POST of one packet.
LEMMA OnePost ==
  ASSUME NEW p \in Good
  PROVE  ClientEncode(p) \in Text /\ Taken(ClientEncode(p)) = <<Encode(AsRead(p))>>
<1>1. PICK t \in Text : t = Encode(p) /\ t = ClientEncode(p) /\ t # << >> /\ Head(t) # MARK
  BY Codec
<1>2. CASE ~Multiline(p)
  <2>1. RequestBody(t) = t /\ AsRead(p) = p
    BY <1>1, <1>2, EncodeLine, Reading DEF RequestBody
  <2> QED BY <1>1, <2>1 DEF Taken, DecodePayload
<1>3. CASE Multiline(p)
  <2>1. RequestBody(t) = Encode(AsRead(p))
    BY <1>1, <1>3, EncodeLine DEF RequestBody, Line
  <2>2. Head(Encode(AsRead(p))) # MARK
    BY Reading, Codec
  <2> QED BY <1>1, <2>1, <2>2 DEF Taken, DecodePayload
<1> QED BY <1>2, <1>3

\* The frames of the packets' texts, and what the turns of the loop leave of them.
Framing(R, n, ps, t) ==
  /\ R \in [0 .. n -> Text] /\ R[n] = << >> /\ R[0] = t /\ Head(R[0]) = MARK
  /\ \A k \in 1 .. n : R[k - 1] = Frame(Encode(ps[k])) \o R[k]
  /\ Chain(R, n, [k \in 1 .. n |-> Encode(ps[k])])

\* The body of a POST of the packets.
PostOf(ps) == ClientEncodePayload([k \in DOMAIN ps |-> ClientEncode(ps[k])])

LEMMA PostChain ==
  ASSUME AllNumbers, NEW n \in Nat, n > 1, NEW ps, ps \in Seq(Good), Len(ps) = n
  PROVE  \E R : Framing(R, n, ps, PostOf(ps))
<1>1. PICK msgs : msgs = [k \in 1 .. n |-> Encode(ps[k])]
  OBVIOUS
<1>2. \A k \in 1 .. n : ps[k] \in Good /\ msgs[k] \in Text /\ msgs[k] = Encode(ps[k])
                        /\ ClientEncode(ps[k]) = msgs[k]
  BY <1>1, Codec
<1>3. msgs \in Seq(Text) /\ Len(msgs) = n
  BY <1>1, <1>2
<1>4. Framed(msgs)
  <2>1. \A k \in 1 .. n : Len(msgs[k]) \in DOMAIN Numeral
    BY <1>2, TextFacts DEF AllNumbers
  <2> QED BY <1>3, <2>1 DEF Framed
<1>5. [k \in DOMAIN ps |-> ClientEncode(ps[k])] = msgs
  BY <1>1, <1>2
<1>6. ClientEncodePayload(msgs) = Frames(msgs)
  BY <1>3 DEF ClientEncodePayload
<1>7. PICK R : Chain(R, n, msgs) /\ FrameByFrame(R, n, msgs)
  BY <1>3, <1>4, FrameChain
<1>8. R \in [0 .. n -> Text] /\ R[n] = << >>
  BY <1>7 DEF Chain
<1>9. R[0] = Frames(msgs) /\ \A k \in 1 .. n : R[k - 1] = Frame(Encode(ps[k])) \o R[k]
  BY <1>2, <1>7 DEF FrameByFrame
<1>10. Head(R[0]) = MARK
  <2>1. 1 \in 1 .. n /\ 1 - 1 = 0
    OBVIOUS
  <2> QED BY <1>7, <2>1 DEF FrameByFrame
<1> QED BY <1>1, <1>5, <1>6, <1>7, <1>8, <1>9, <1>10 DEF Framing, PostOf

\* Several packets without a line feed arrive as they are.
LEMMA WholePost ==
  ASSUME AllNumbers, NEW n \in Nat, n > 1, NEW ps, ps \in Seq(Good), Len(ps) = n,
         \A k \in 1 .. n : ~Multiline(ps[k])
  PROVE  PostOf(ps) \in Text /\ Taken(PostOf(ps)) = ReadTexts(ps, n)
<1> DEFINE t == PostOf(ps)
<1>0. PICK R : Framing(R, n, ps, PostOf(ps))
  BY PostChain
<1> HIDE DEF t
<1>1. PICK msgs :
        /\ R \in [0 .. n -> Text] /\ R[n] = << >> /\ R[0] = t /\ Head(R[0]) = MARK
        /\ \A k \in 1 .. n : R[k - 1] = Frame(Encode(ps[k])) \o R[k]
        /\ msgs = [k \in 1 .. n |-> Encode(ps[k])] /\ Chain(R, n, msgs)
  BY <1>0 DEF Framing, t
<1>2. \A k \in 0 .. n : R[k] \in Text
  BY <1>1
<1> DEFINE S == {k \in 0 .. n : ~Has(R[k], NL)}
<1>3. n \in S
  BY <1>1, HasT, TextFacts
<1>4. ASSUME NEW k \in 1 .. n, k \in S PROVE k - 1 \in S
  <2>1. ps[k] \in Good /\ ~Multiline(ps[k]) /\ k - 1 \in 0 .. n
    OBVIOUS
  <2>2. PICK m \in Text : m = Encode(ps[k]) /\ ~Has(m, NL)
    BY <2>1, Codec, EncodeLine
  <2>3. PICK h \in Text : h = Length(m) /\ ~Has(h, NL) /\ Frame(m) = h \o m
    <3>1. Len(m) \in DOMAIN Numeral
      BY TextFacts DEF AllNumbers
    <3> QED BY <3>1, LengthFacts
  <2>4. PICK f \in Text : f = h \o m /\ ~Has(f, NL)
    BY <2>2, <2>3, Clear
  <2>5. PICK r \in Text : r = R[k] /\ ~Has(r, NL)
    BY <1>2, <1>4
  <2>6. ~Has(f \o r, NL)
    BY <2>4, <2>5, Clear
  <2>7. R[k - 1] = f \o r
    BY <1>1, <2>2, <2>3, <2>4, <2>5
  <2> QED BY <2>1, <2>6, <2>7
<1> HIDE DEF S
<1>5. 0 .. n \subseteq S
  BY <1>3, <1>4, Downward
<1>6. RequestBody(t) = t
  BY <1>1, <1>5 DEF RequestBody, S
<1>7. Unframe(t) = [k \in 1 .. n |-> msgs[k]]
  <2>1. n > 0 /\ Chain(R, n, msgs)
    BY <1>1
  <2>2. Unframe(R[0]) = [k \in 1 .. n |-> msgs[k]]
    BY <2>1, Unframes
  <2> QED BY <1>1, <2>2
<1>8. \A k \in 1 .. n : AsRead(ps[k]) = ps[k]
  BY Reading
<1>9. ReadTexts(ps, n) = [k \in 1 .. n |-> msgs[k]]
  BY <1>1, <1>8 DEF ReadTexts
<1>10. t \in Text /\ Taken(t) = ReadTexts(ps, n)
  BY <1>1, <1>2, <1>6, <1>7, <1>9 DEF Taken, DecodePayload
<1> QED BY <1>10 DEF t

\* The text of a payload whose m-th packet is the first with a line feed, cut there.
LEMMA CutPost ==
  ASSUME AllNumbers, NEW n \in Nat, n > 1, NEW ps, ps \in Seq(Good), Len(ps) = n,
         NEW m \in 1 .. n, Multiline(ps[m]), \A k \in 1 .. m - 1 : ~Multiline(ps[k])
  PROVE  PostOf(ps) \in Text /\ Taken(PostOf(ps)) = ReadTexts(ps, m)
<1>0. PICK R : Framing(R, n, ps, PostOf(ps))
  BY PostChain
<1>1. PICK t : /\ t = PostOf(ps)
               /\ R \in [0 .. n -> Text] /\ R[n] = << >> /\ R[0] = t /\ Head(R[0]) = MARK
               /\ \A k \in 1 .. n : R[k - 1] = Frame(Encode(ps[k])) \o R[k]
  BY <1>0 DEF Framing
<1>2. \A k \in 0 .. n : R[k] \in Text
  BY <1>1
<1>3. \A k \in 1 .. n : ps[k] \in Good
  OBVIOUS
<1>4. ASSUME NEW k \in 1 .. n
      PROVE  \E e \in Text, h \in Text : /\ e = Encode(ps[k]) /\ h = Length(e) /\ ~Has(h, NL)
                                        /\ Frame(e) = h \o e /\ R[k - 1] = h \o (e \o R[k])
                                        /\ Len(e) \in DOMAIN Numeral
  <2>1. PICK e \in Text : e = Encode(ps[k])
    BY <1>3, Codec
  <2>2. Len(e) \in DOMAIN Numeral
    BY TextFacts DEF AllNumbers
  <2>3. PICK h \in Text : h = Length(e) /\ ~Has(h, NL) /\ Frame(e) = h \o e
    BY <2>2, LengthFacts
  <2>4. PICK r \in Text : r = R[k]
    BY <1>2
  <2>5. (h \o e) \o r = h \o (e \o r)
    BY AssocT
  <2> QED BY <1>1, <2>1, <2>2, <2>3, <2>4, <2>5
\* The line feed is in every rest up to there.
<1> DEFINE S == {k \in 0 .. m - 1 : Has(R[k], NL)}
<1>5. m - 1 \in S
  <2>1. PICK e \in Text, h \in Text : e = Encode(ps[m]) /\ R[m - 1] = h \o (e \o R[m])
    BY <1>4
  <2>2. Has(e, NL)
    BY <1>3, <2>1, EncodeLine
  <2>3. PICK r \in Text : r = R[m]
    BY <1>2
  <2>4. PICK x \in Text : x = e \o r /\ Has(x, NL)
    BY <2>2, HasEither
  <2>5. Has(h \o x, NL)
    BY <2>4, HasEither
  <2>6. Has(R[m - 1], NL)
    BY <2>1, <2>3, <2>4, <2>5
  <2> QED BY <2>6
<1>6. ASSUME NEW k \in 1 .. m - 1, k \in S PROVE k - 1 \in S
  <2>0. k \in 1 .. n
    OBVIOUS
  <2>1. PICK e \in Text, h \in Text : R[k - 1] = h \o (e \o R[k])
    BY <1>4, <2>0
  <2>2. PICK r \in Text : r = R[k] /\ Has(r, NL)
    BY <1>2, <1>6, <2>0
  <2>3. PICK x \in Text : x = e \o r /\ Has(x, NL)
    BY <2>2, HasEither
  <2>4. Has(h \o x, NL)
    BY <2>3, HasEither
  <2>5. Has(R[k - 1], NL) /\ k - 1 \in 0 .. m - 1
    BY <2>1, <2>2, <2>3, <2>4
  <2> QED BY <2>5
<1> HIDE DEF S
<1>7. \A k \in 0 .. m - 1 : Has(R[k], NL)
  <2>1. 0 .. m - 1 \subseteq S
    BY <1>5, <1>6, Downward
  <2> QED BY <2>1 DEF S
\* The rests of the text that is cut.
<1> DEFINE Q == [k \in 0 .. m |-> IF k = m THEN << >> ELSE Line(R[k])]
           msgs == ReadTexts(ps, m)
<1>8. Q \in [0 .. m -> Text] /\ Q[m] = << >>
  BY <1>2, <1>7, LineFacts, TextFacts
<1>9. ASSUME NEW k \in 1 .. m
      PROVE  /\ Q[k - 1] # << >> /\ Len(Q[k - 1]) >= Len(Q[k]) + 3
             /\ FirstMessage(Q[k - 1]) = msgs[k] /\ Left(Q[k - 1]) = Q[k]
             /\ k = 1 => Head(Q[0]) = MARK
  <2>0. k \in 1 .. n /\ k - 1 \in 0 .. m - 1 /\ Q[k - 1] = Line(R[k - 1])
    OBVIOUS
  <2>1. PICK e \in Text, h \in Text :
          /\ e = Encode(ps[k]) /\ h = Length(e) /\ ~Has(h, NL)
          /\ Frame(e) = h \o e /\ R[k - 1] = h \o (e \o R[k])
          /\ Len(e) \in DOMAIN Numeral
    BY <1>4, <2>0
  <2>2. PICK r \in Text : r = R[k]
    BY <1>2, <2>0
  <2>3. msgs[k] = Encode(AsRead(ps[k]))
    BY DEF ReadTexts
  <2>4. CASE k = m
    <3>1. Has(e, NL) /\ Line(e) = Encode(AsRead(ps[k]))
      BY <1>3, <2>1, <2>4, EncodeLine
    <3>2. PICK l \in Text : l = Line(e) /\ Len(l) <= Len(e)
      BY <3>1, LineFacts
    <3>3. PICK x \in Text : x = e \o r /\ Has(x, NL) /\ Line(x) = l
      BY <3>1, <3>2, LineFirst, TextFacts
    <3>4. Line(h \o x) = h \o l
      BY <2>1, <3>3, LineConcat
    <3>5. /\ Length(e) \o l # << >> /\ Len(Length(e) \o l) = Len(l) + 3
          /\ Head(Length(e) \o l) = MARK
          /\ FirstMessage(Length(e) \o l) = l /\ Left(Length(e) \o l) = << >>
      BY <2>1, <3>2, LastTurn
    <3>6. Q[k - 1] = Length(e) \o l /\ Q[k] = << >>
      BY <1>8, <2>0, <2>1, <2>2, <2>4, <3>3, <3>4
    <3>7. Len(l) + 3 >= Len(<< >>) + 3
      BY TextFacts
    <3>8. Q[k - 1] # << >> /\ FirstMessage(Q[k - 1]) = msgs[k] /\ Left(Q[k - 1]) = Q[k]
      <4> HIDE DEF Q, msgs
      <4> QED BY <2>3, <3>1, <3>2, <3>5, <3>6
    <3>9. Len(Q[k - 1]) >= Len(Q[k]) + 3 /\ Head(Q[k - 1]) = MARK
      <4> HIDE DEF Q, msgs
      <4> QED BY <3>5, <3>6, <3>7
    <3>10. k = 1 => k - 1 = 0
      OBVIOUS
    <3> HIDE DEF Q, msgs
    <3> QED BY <3>8, <3>9, <3>10
  <2>5. CASE k # m
    <3>1. k \in 0 .. m - 1 /\ k \in 1 .. m - 1 /\ Has(r, NL) /\ Q[k] = Line(r)
      BY <1>7, <2>2, <2>5
    <3>2. ~Multiline(ps[k])
      BY <3>1
    <3>3. ~Has(e, NL) /\ AsRead(ps[k]) = ps[k]
      BY <1>3, <2>0, <2>1, <3>2, EncodeLine, Reading
    <3>4. PICK l \in Text : l = Line(r)
      BY <3>1, LineFacts
    <3>5. PICK x \in Text : x = e \o r /\ Has(x, NL) /\ Line(x) = e \o l
      <4>1. Has(e \o r, NL) /\ Line(e \o r) = e \o Line(r)
        BY <3>1, <3>3, LineConcat
      <4>2. e \o r \in Text
        BY TextFacts
      <4> QED BY <3>4, <4>1, <4>2
    <3>6. Line(h \o x) = h \o (e \o l)
      <4>1. Line(h \o x) = h \o Line(x)
        BY <2>1, <3>5, LineConcat
      <4> QED BY <3>5, <4>1
    <3>7. h \o (e \o l) = Frame(e) \o l
      <4>1. (h \o e) \o l = h \o (e \o l)
        BY AssocT
      <4> QED BY <2>1, <4>1
    <3>8. /\ Frame(e) \in Text /\ Len(Frame(e)) = Len(e) + 3
          /\ Frame(e) \o l # << >> /\ Head(Frame(e) \o l) = MARK
          /\ FirstMessage(Frame(e) \o l) = e /\ Left(Frame(e) \o l) = l
      BY <2>1, Turn
    <3>9. Len(Frame(e) \o l) >= Len(l) + 3
      <4>1. PICK f \in Text : f = Frame(e)
        BY <3>8
      <4>2. Len(f \o l) = Len(f) + Len(l) /\ Len(l) \in Nat /\ Len(e) \in Nat
        BY TextFacts
      <4>3. Len(f) = Len(e) + 3
        BY <3>8, <4>1
      <4> QED BY <4>1, <4>2, <4>3
    <3>10. Q[k - 1] = Frame(e) \o l /\ Q[k] = l
      BY <2>0, <2>1, <2>2, <3>1, <3>4, <3>5, <3>6, <3>7
    <3>11. Q[k - 1] # << >> /\ FirstMessage(Q[k - 1]) = msgs[k] /\ Left(Q[k - 1]) = Q[k]
      <4> HIDE DEF Q, msgs
      <4> QED BY <2>1, <2>3, <3>3, <3>8, <3>10
    <3>12. Len(Q[k - 1]) >= Len(Q[k]) + 3 /\ Head(Q[k - 1]) = MARK
      <4> HIDE DEF Q, msgs
      <4> QED BY <3>8, <3>9, <3>10
    <3>13. k = 1 => k - 1 = 0
      OBVIOUS
    <3> HIDE DEF Q, msgs
    <3> QED BY <3>11, <3>12, <3>13
  <2> QED BY <2>4, <2>5
<1>10. Chain(Q, m, msgs)
  <2> HIDE DEF Q, msgs
  <2> QED BY <1>8, <1>9 DEF Chain
<1>11. Unframe(Q[0]) = msgs
  <2>1. msgs = [k \in 1 .. m |-> msgs[k]]
    BY DEF ReadTexts
  <2>2. m \in Nat /\ m > 0
    OBVIOUS
  <2> HIDE DEF Q, msgs
  <2>3. Unframe(Q[0]) = [k \in 1 .. m |-> msgs[k]]
    BY <1>10, <2>2, Unframes
  <2> QED BY <2>1, <2>3
<1>12. RequestBody(t) = Q[0] /\ Head(Q[0]) = MARK
  <2>1. 0 \in 0 .. m - 1 /\ Q[0] = Line(R[0])
    OBVIOUS
  <2>2. Has(t, NL) /\ Q[0] = Line(t)
    BY <1>1, <1>7, <2>1
  <2>3. Head(Q[0]) = MARK
    <3>1. 1 \in 1 .. m
      OBVIOUS
    <3> HIDE DEF Q
    <3> QED BY <1>9, <3>1
  <2> HIDE DEF Q
  <2> QED BY <2>2, <2>3 DEF RequestBody, Line
<1> HIDE DEF Q
<1>13. t \in Text
  BY <1>1, <1>2
<1> QED BY <1>1, <1>11, <1>12, <1>13 DEF Taken, DecodePayload

\* What the server takes from a POST: the packets in it as it reads them, all of them
\* unless there is a line feed in a message, and then at least the first.
THEOREM PostBody ==
  ASSUME AllNumbers, NEW ps \in Seq(Good), ps # << >>
  PROVE  /\ PostOf(ps) \in Text
         /\ \E m \in 1 .. Len(ps) :
              /\ Taken(PostOf(ps)) = ReadTexts(ps, m)
              /\ (\A k \in 1 .. Len(ps) : ~Multiline(ps[k])) => m = Len(ps)
<1>1. PICK n \in Nat : n = Len(ps) /\ n > 0
  OBVIOUS
<1>2. PICK t : t = PostOf(ps)
  OBVIOUS
<1>3. CASE n = 1
  <2>1. PICK p \in Good : p = ps[1]
    BY <1>1, <1>3
  <2>2. PICK x : x = ClientEncode(p)
    OBVIOUS
  <2>3. [k \in DOMAIN ps |-> ClientEncode(ps[k])] = <<x>>
    <3>1. DOMAIN ps = 1 .. 1 /\ \A k \in 1 .. 1 : ClientEncode(ps[k]) = x
      <4>0. DOMAIN ps = 1 .. Len(ps)
        OBVIOUS
      <4>1. DOMAIN ps = 1 .. 1
        BY <1>1, <1>3, <4>0
      <4>2. \A k \in 1 .. 1 : k = 1
        OBVIOUS
      <4> QED BY <2>1, <2>2, <4>1, <4>2
    <3>2. [k \in DOMAIN ps |-> ClientEncode(ps[k])] = [k \in 1 .. 1 |-> x]
      BY <3>1
    <3>3. [k \in 1 .. 1 |-> x] = <<x>>
      OBVIOUS
    <3> QED BY <3>2, <3>3
  <2>4. t = x
    <3>1. Len(<<x>>) = 1 /\ <<x>>[1] = x
      OBVIOUS
    <3> QED BY <1>2, <2>3, <3>1 DEF ClientEncodePayload, PostOf
  <2>5. ReadTexts(ps, 1) = <<Encode(AsRead(p))>>
    BY <2>1 DEF ReadTexts
  <2>6. t \in Text /\ Taken(t) = ReadTexts(ps, 1)
    BY <2>2, <2>4, <2>5, OnePost
  <2>7. 1 \in 1 .. n /\ n = 1
    BY <1>3
  <2> QED BY <1>1, <1>2, <2>6, <2>7
<1>4. CASE n > 1 /\ \A k \in 1 .. n : ~Multiline(ps[k])
  <2>1. t \in Text /\ Taken(t) = ReadTexts(ps, n) /\ n \in 1 .. n
    BY <1>1, <1>2, <1>4, WholePost
  <2> QED BY <1>1, <1>2, <2>1
<1>5. CASE n > 1 /\ \E k \in 1 .. n : Multiline(ps[k])
  <2> DEFINE M == {k \in 1 .. n : Multiline(ps[k])}
  <2>1. M \in SUBSET Nat /\ M # {}
    BY <1>5
  <2>2. PICK m \in M : \A k \in M : m <= k
    BY <2>1, Least
  <2>3. m \in 1 .. n /\ Multiline(ps[m]) /\ \A k \in 1 .. m - 1 : ~Multiline(ps[k])
    BY <2>2
  <2>4. t \in Text /\ Taken(t) = ReadTexts(ps, m)
    BY <1>1, <1>2, <1>5, <2>3, CutPost
  <2> QED BY <1>1, <1>2, <1>5, <2>3, <2>4
<1> QED BY <1>1, <1>3, <1>4, <1>5

=============================================================================
