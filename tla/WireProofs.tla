----------------------------- MODULE WireProofs -----------------------------
(***************************************************************************)
(* Proofs about Wire, for all scripts, any set of words and any number of  *)
(* heartbeats: the safety properties of a page and its session hold, if    *)
(* every number can be written (AllNumbers).                               *)
(*                                                                         *)
(* The inductive invariant IInv says where the packets of either side are  *)
(* once they are sent: those of the server in one line: DownLine; those    *)
(* of the client each in one place: Carried and Spread, and in one line    *)
(* too as long as no POST crosses another one: UpLine.  What ids and       *)
(* acks are about follows from what was said so far: UpApart, DownApart,   *)
(* UpAcks, DownAcks, Fired, Called.                                        *)
(***************************************************************************)
EXTENDS Wire, PayloadProofs, FiniteSetTheorems

-----------------------------------------------------------------------------
(* The packets of this system. *)

Spoken == {p \in Good : p.type # "heartbeat"}

\* What carries a heartbeat, of either side.
Beating == Encode(Heartbeat)

\* What the client's listener of a packet answers, and what the handler of the server.
Reply(q)  == Ack(q, IF q.ack = "data" THEN q.args ELSE <<>>)
Answer(p) == Ack(p, p.args)

LEMMA BlankFacts ==
  /\ Blank \in PacketType /\ \A p \in PacketType : DOMAIN p = DOMAIN Blank
  /\ Sound(Blank) /\ Lines(Blank)
<1>1. << >> \in Text /\ << >> \in Args
  BY TextFacts, ArgsFacts
<1>2. Blank \in PacketType
  BY <1>1 DEF Blank, PacketType, Types
<1>3. \A p \in PacketType : DOMAIN p = DOMAIN Blank
  BY DEF Blank, PacketType
<1>4. \A c : ~Has(<< >>, c)
  BY TextFacts, HasT
<1>5. Sound(Blank) /\ Lines(Blank)
  BY <1>2, <1>4 DEF Blank, Sound, Lines, HasPayload
<1> QED BY <1>2, <1>3, <1>5

LEMMA Beats ==
  /\ Heartbeat \in Good /\ Beating \in Text /\ Heartbeat.type = "heartbeat"
  /\ ClientDecode(Beating) = Heartbeat /\ Decode(Beating) = Heartbeat
  /\ AsRead(Heartbeat) = Heartbeat
  /\ \A p \in Good : p.type = "heartbeat" => p = Heartbeat
<1>1. Heartbeat = [Blank EXCEPT !.type = "heartbeat"] /\ Blank \in PacketType
  BY BlankFacts DEF Heartbeat
<1>2. /\ Heartbeat \in PacketType /\ Heartbeat.type = "heartbeat" /\ Heartbeat.id = 0
      /\ Heartbeat.ack = "none" /\ Heartbeat.endpoint = << >> /\ Heartbeat.name = << >>
      /\ Heartbeat.args = << >> /\ Heartbeat.data = << >> /\ Heartbeat.ackId = 0
  <2>1. << >> \in Text /\ << >> \in Args
    BY TextFacts, ArgsFacts
  <2> QED BY <2>1 DEF Heartbeat, Blank, PacketType, Types
<1>3. \A c : ~Has(<< >>, c)
  BY TextFacts, HasT
<1>4. Sound(Heartbeat) /\ Lines(Heartbeat)
  BY <1>2, <1>3 DEF Sound, Lines, HasPayload
<1>5. Heartbeat \in Good
  BY <1>2, <1>4 DEF Good
<1>6. ~Plus(Heartbeat) /\ ~Multiline(Heartbeat)
  BY <1>2 DEF Plus, Multiline
<1>7. ASSUME NEW p \in Good, p.type = "heartbeat" PROVE p = Heartbeat
  <2>1. /\ p \in PacketType /\ p.id = 0 /\ p.ack = "none" /\ p.endpoint = << >> /\ p.name = << >>
        /\ p.args = << >> /\ p.data = << >> /\ p.ackId = 0
    BY <1>7 DEF Good, Sound, HasPayload
  <2> QED BY <1>2, <1>7, <2>1 DEF PacketType
<1>8. /\ Beating \in Text /\ ClientDecode(Beating) = Heartbeat /\ Decode(Beating) = Heartbeat
  BY <1>5, <1>6, Codec DEF Beating
<1> QED BY <1>2, <1>5, <1>6, <1>7, <1>8, Reading

\* A text is that of one packet.
LEMMA OneText ==
  \A p, q \in Good : Encode(p) = Encode(q) => p = q
BY Codec

LEMMA Plain ==
  ASSUME NEW p \in Good
  PROVE  /\ p.type # "message" => AsRead(p) = p
         /\ Plus(AsRead(p)) <=> Plus(p)
         /\ p \in Spoken <=> AsRead(p) \in Spoken
         /\ p \in PacketType /\ p.id \in Nat /\ p.args \in Args /\ p.name \in Text
<1>1. p.type # "message" => AsRead(p) = p
  BY Reading DEF Multiline
<1>2. Plus(AsRead(p)) <=> Plus(p)
  BY Reading DEF Plus
<1>3. p \in Spoken <=> AsRead(p) \in Spoken
  BY Reading DEF Spoken
<1>4. p \in PacketType /\ p.id \in Nat /\ p.args \in Args /\ p.name \in Text
  <2>1. p \in PacketType
    BY DEF Good
  <2>2. p.id \in {0} \union (DOMAIN Numeral) /\ p.args \in Args /\ p.name \in Text
    BY <2>1 DEF PacketType
  <2>3. DOMAIN Numeral \subseteq Nat
    BY PacketAssumption
  <2> QED BY <2>1, <2>2, <2>3
<1> QED BY <1>1, <1>2, <1>3, <1>4

\* What decode() makes of the text of a packet that came in a POST.
LEMMA Decoded ==
  ASSUME NEW s \in Good, NEW p, p = Decode(Encode(AsRead(s)))
  PROVE  /\ Plus(s) => p = Invalid
         /\ ~Plus(s) => p = AsRead(s) /\ p \in Good /\ p # Invalid /\ p.name # NoText
         /\ ~Encodable(InvalidPacket)
<1>1. PICK r \in Good : r = AsRead(s) /\ (Plus(r) <=> Plus(s))
  BY Reading, Plain
<1>2. Plus(s) => p = Invalid
  BY <1>1, Codec
<1>3. ~Plus(s) => p = r
  BY <1>1, Codec
<1>4. r.type \in Types /\ r.name \in Text
  BY DEF Good, PacketType
<1>5. Invalid.type = "invalid" /\ "invalid" \notin Types
  BY DEF Invalid, Blank, Types
<1>6. r # Invalid
  BY <1>4, <1>5
<1>7. r.name # NoText
  BY <1>4, WireAssumption
<1>8. InvalidPacket.endpoint = NoText
  BY DEF InvalidPacket, Blank
<1> QED BY <1>1, <1>2, <1>3, <1>6, <1>7, <1>8 DEF Encodable

\* A packet of a script, as it is sent.
LEMMA Sending ==
  ASSUME AllNumbers, NEW t \in PacketType, Unsent(t), t.type # "heartbeat", NEW n \in Nat, n # 0
  PROVE  /\ t.ack = "none" => t \in Spoken
         /\ t.ack # "none" => [t EXCEPT !.id = n] \in Spoken
<1>1. PICK u : u = [t EXCEPT !.ack = "none"]
  OBVIOUS
<1>2. /\ u \in PacketType /\ u.type = t.type /\ u.id = t.id /\ u.endpoint = t.endpoint
      /\ u.name = t.name /\ u.args = t.args /\ u.data = t.data /\ u.ackId = t.ackId /\ u.ack = "none"
  BY <1>1 DEF PacketType
<1>3. Sound(u) /\ t.id = 0 /\ Lines(t) /\ (t.ack # "none" => t.type \in HasPayload)
  BY <1>1 DEF Unsent
<1>4. CASE t.ack = "none"
  <2>1. t = u
    BY <1>2, <1>4 DEF PacketType
  <2> QED BY <1>3, <1>4, <2>1 DEF Spoken, Good
<1>5. CASE t.ack # "none"
  <2>1. PICK p : p = [t EXCEPT !.id = n]
    OBVIOUS
  <2>2. /\ p \in PacketType /\ p.type = t.type /\ p.id = n /\ p.endpoint = t.endpoint
        /\ p.name = t.name /\ p.args = t.args /\ p.data = t.data /\ p.ackId = t.ackId /\ p.ack = t.ack
    BY <2>1 DEF PacketType, AllNumbers
  <2>3. Sound(p)
    BY <1>2, <1>3, <1>5, <2>2 DEF Sound
  <2>4. Lines(p)
    BY <1>3, <2>2 DEF Lines
  <2> QED BY <1>5, <2>1, <2>2, <2>3, <2>4 DEF Spoken, Good
<1> QED BY <1>4, <1>5

\* An ack of a packet that has an id.
LEMMA Acking ==
  ASSUME NEW q \in Good, q.id # 0, NEW args \in {<< >>, q.args}
  PROVE  /\ Ack(q, args) \in Spoken /\ AsRead(Ack(q, args)) = Ack(q, args)
         /\ Ack(q, args).type = "ack" /\ Ack(q, args).id = 0 /\ Ack(q, args).ackId = q.id
         /\ Ack(q, args).endpoint = q.endpoint /\ Ack(q, args).args = args
<1>1. PICK a : a = Ack(q, args)
  OBVIOUS
<1>2. /\ q \in PacketType /\ q.id \in DOMAIN Numeral /\ q.endpoint \in Text /\ q.args \in Args
      /\ ~Has(q.endpoint, COLON) /\ ~Has(q.endpoint, NL)
  BY DEF Good, PacketType, Sound, Lines
<1>3. args \in Args /\ << >> \in Text
  BY <1>2, ArgsFacts, TextFacts
<1>4. /\ a \in PacketType /\ a.type = "ack" /\ a.id = 0 /\ a.ack = "none"
      /\ a.endpoint = q.endpoint /\ a.name = << >> /\ a.args = args /\ a.data = << >>
      /\ a.ackId = q.id
  BY <1>1, <1>2, <1>3 DEF Ack, Blank, PacketType, Types
<1>5. \A c : ~Has(<< >>, c)
  BY TextFacts, HasT
<1>6. Sound(a) /\ Lines(a)
  BY <1>2, <1>4, <1>5 DEF Sound, Lines, HasPayload
<1>7. a \in Spoken
  BY <1>4, <1>6 DEF Spoken, Good
<1>8. AsRead(a) = a
  BY <1>4, <1>7, Plain DEF Spoken
<1> QED BY <1>1, <1>4, <1>7, <1>8

-----------------------------------------------------------------------------
(* Sequences of them. *)

LEMMA AppendRange ==
  ASSUME NEW T, NEW s \in Seq(T), NEW x \in T
  PROVE  /\ Append(s, x) \in Seq(T) /\ Range(Append(s, x)) = Range(s) \union {x}
         /\ Len(s) \in Nat /\ DOMAIN s = 1 .. Len(s) /\ DOMAIN Append(s, x) = 1 .. Len(s) + 1
         /\ Append(s, x)[Len(s) + 1] = x /\ \A i \in 1 .. Len(s) : Append(s, x)[i] = s[i]
<1>1. /\ Append(s, x) \in Seq(T) /\ Len(s) \in Nat /\ DOMAIN s = 1 .. Len(s)
      /\ DOMAIN Append(s, x) = 1 .. Len(s) + 1
      /\ Append(s, x)[Len(s) + 1] = x /\ \A i \in 1 .. Len(s) : Append(s, x)[i] = s[i]
  OBVIOUS
<1>2. Range(Append(s, x)) = Range(s) \union {x}
  <2>1. ASSUME NEW y \in Range(Append(s, x)) PROVE y \in Range(s) \union {x}
    <3>1. PICK i \in 1 .. Len(s) + 1 : y = Append(s, x)[i]
      BY <1>1 DEF Range
    <3>2. i \in 1 .. Len(s) \/ i = Len(s) + 1
      BY <1>1
    <3> QED BY <1>1, <3>1, <3>2 DEF Range
  <2>2. ASSUME NEW y \in Range(s) \union {x} PROVE y \in Range(Append(s, x))
    <3>1. \A i \in 1 .. Len(s) : i \in 1 .. Len(s) + 1
      BY <1>1
    <3>2. Len(s) + 1 \in 1 .. Len(s) + 1
      BY <1>1
    <3> QED BY <1>1, <3>1, <3>2 DEF Range
  <2> QED BY <2>1, <2>2
<1> QED BY <1>1, <1>2

LEMMA HeadTail ==
  ASSUME NEW T, NEW s \in Seq(T), s # << >>
  PROVE  /\ Head(s) \in T /\ Tail(s) \in Seq(T) /\ s = <<Head(s)>> \o Tail(s) /\ Head(s) = s[1]
         /\ 1 \in DOMAIN s /\ Len(s) \in Nat /\ DOMAIN s = 1 .. Len(s) /\ Len(s) > 0
         /\ DOMAIN Tail(s) = 1 .. Len(s) - 1 /\ \A i \in DOMAIN Tail(s) : Tail(s)[i] = s[i + 1]
<1>1. /\ Head(s) \in T /\ Tail(s) \in Seq(T) /\ Head(s) = s[1]
      /\ 1 \in DOMAIN s /\ Len(s) \in Nat /\ DOMAIN s = 1 .. Len(s) /\ Len(s) > 0
  OBVIOUS
<1>2. DOMAIN Tail(s) = 1 .. Len(s) - 1 /\ \A i \in DOMAIN Tail(s) : Tail(s)[i] = s[i + 1]
  OBVIOUS
<1>3. s = <<Head(s)>> \o Tail(s)
  OBVIOUS
<1> QED BY <1>1, <1>2, <1>3

LEMMA RangeOf ==
  ASSUME NEW T, NEW s \in Seq(T)
  PROVE  Range(s) \subseteq T /\ \A i \in DOMAIN s : s[i] \in Range(s)
BY DEF Range

LEMMA ConcatRange ==
  ASSUME NEW T, NEW s \in Seq(T), NEW t \in Seq(T)
  PROVE  Range(s \o t) = Range(s) \union Range(t)
<1>1. /\ s \o t \in Seq(T) /\ Len(s) \in Nat /\ Len(t) \in Nat
      /\ DOMAIN s = 1 .. Len(s) /\ DOMAIN t = 1 .. Len(t) /\ DOMAIN (s \o t) = 1 .. Len(s) + Len(t)
  OBVIOUS
<1>2. /\ \A i \in 1 .. Len(s) : i \in 1 .. Len(s) + Len(t) /\ (s \o t)[i] = s[i]
      /\ \A i \in 1 .. Len(t) : Len(s) + i \in 1 .. Len(s) + Len(t) /\ (s \o t)[Len(s) + i] = t[i]
  BY <1>1, ConcatFacts
<1>3. ASSUME NEW x \in Range(s \o t) PROVE x \in Range(s) \union Range(t)
  <2>1. PICK i \in 1 .. Len(s) + Len(t) : x = (s \o t)[i]
    BY <1>1 DEF Range
  <2>2. i \in 1 .. Len(s) \/ (i - Len(s) \in 1 .. Len(t) /\ Len(s) + (i - Len(s)) = i)
    BY <1>1
  <2> QED BY <1>1, <1>2, <2>1, <2>2 DEF Range
<1>4. ASSUME NEW x \in Range(s) \union Range(t) PROVE x \in Range(s \o t)
  BY <1>1, <1>2 DEF Range
<1> QED BY <1>3, <1>4

\* The loop over two sequences is the loop over the one, and then over the other.
LEMMA KeepConcat ==
  ASSUME NEW T, NEW S, NEW s \in Seq(T)
  PROVE  \A t \in Seq(T) : Keep(s \o t, S) = Keep(s, S) \o Keep(t, S)
<1> DEFINE P == {t \in Seq(T) : Keep(s \o t, S) = Keep(s, S) \o Keep(t, S)}
<1>1. << >> \in P
  <2>1. Keep(s, S) \in Seq(T)
    BY KeepType
  <2>2. s \o << >> = s /\ Keep(s, S) \o << >> = Keep(s, S)
    BY <2>1
  <2>3. Keep(s \o << >>, S) = Keep(s, S) \o Keep(<< >>, S)
    BY <2>2, KeepEmpty
  <2>4. << >> \in Seq(T)
    OBVIOUS
  <2> QED BY <2>3, <2>4
<1>2. ASSUME NEW t \in Seq(T), NEW x \in T, t \in P PROVE Append(t, x) \in P
  <2>1. PICK k \in Seq(T), l \in Seq(T) : k = Keep(s, S) /\ l = Keep(t, S)
    BY KeepType
  <2>2. s \o Append(t, x) = Append(s \o t, x) /\ s \o t \in Seq(T) /\ Append(t, x) \in Seq(T)
    OBVIOUS
  <2>3. Keep(s \o Append(t, x), S) = IF x \in S THEN Append(Keep(s \o t, S), x) ELSE Keep(s \o t, S)
    BY <2>2, KeepAppend
  <2>4. Keep(Append(t, x), S) = IF x \in S THEN Append(l, x) ELSE l
    BY <2>1, KeepAppend
  <2>5. Keep(s \o t, S) = k \o l
    BY <1>2, <2>1
  <2>6. k \o Append(l, x) = Append(k \o l, x)
    OBVIOUS
  <2> QED BY <2>1, <2>2, <2>3, <2>4, <2>5, <2>6
<1> HIDE DEF P
<1>3. Seq(T) \subseteq P
  BY <1>1, <1>2, SeqSetInduction
<1> QED BY <1>3 DEF P

LEMMA KeepHead ==
  ASSUME NEW T, NEW S, NEW x \in T
  PROVE  \A t \in Seq(T) :
           Keep(<<x>> \o t, S) = IF x \in S THEN <<x>> \o Keep(t, S) ELSE Keep(t, S)
<1> SUFFICES ASSUME NEW t \in Seq(T)
             PROVE  Keep(<<x>> \o t, S) = IF x \in S THEN <<x>> \o Keep(t, S) ELSE Keep(t, S)
  OBVIOUS
<1>1. <<x>> \in Seq(T) /\ << >> \in Seq(T) /\ <<x>> = Append(<< >>, x)
  OBVIOUS
<1>2. Keep(<<x>>, S) = IF x \in S THEN <<x>> ELSE << >>
  <2>1. PICK e \in Seq(T) : e = << >> /\ Keep(e, S) = << >>
    BY <1>1, KeepEmpty
  <2>2. Keep(Append(e, x), S) = IF x \in S THEN Append(Keep(e, S), x) ELSE Keep(e, S)
    BY KeepAppend
  <2> QED BY <1>1, <2>1, <2>2
<1>3. Keep(<<x>> \o t, S) = Keep(<<x>>, S) \o Keep(t, S)
  BY <1>1, KeepConcat
<1>4. Keep(t, S) \in Seq(T)
  BY KeepType
<1>5. << >> \o Keep(t, S) = Keep(t, S)
  BY <1>4
<1> QED BY <1>2, <1>3, <1>5

\* Texts of packets, and the packets that are read from them.
Coded == {Encode(p) : p \in Good}

ReadBack(q) == [k \in 1 .. Len(q) |-> ClientDecode(q[k])]

LEMMA CodedFacts ==
  /\ Coded \subseteq Text /\ Beating \in Coded
  /\ \A x \in Coded : ClientDecode(x) \in Good /\ Encode(ClientDecode(x)) = x
  /\ \A p \in Good : Encode(p) \in Coded /\ Encode(AsRead(p)) \in Coded
  /\ \A x \in Coded : x # Beating <=> ClientDecode(x) \in Spoken
<1>1. Coded \subseteq Text
  BY Codec DEF Coded
<1>2. \A x \in Coded : ClientDecode(x) \in Good /\ Encode(ClientDecode(x)) = x
  BY Codec DEF Coded
<1>3. \A p \in Good : Encode(p) \in Coded /\ Encode(AsRead(p)) \in Coded
  BY Reading DEF Coded
<1>4. \A x \in Coded : x # Beating <=> ClientDecode(x) \in Spoken
  BY <1>2, Beats DEF Spoken, Beating
<1> QED BY <1>1, <1>2, <1>3, <1>4, Beats DEF Beating

LEMMA ReadBackFacts ==
  ASSUME NEW q \in Seq(Coded)
  PROVE  /\ ReadBack(q) \in Seq(Good) /\ Len(ReadBack(q)) = Len(q) /\ Len(q) \in Nat
         /\ \A x \in Coded : ReadBack(Append(q, x)) = Append(ReadBack(q), ClientDecode(x))
         /\ q # << >> => ReadBack(q) = <<ClientDecode(Head(q))>> \o ReadBack(Tail(q))
<1>1. /\ Len(q) \in Nat /\ \A k \in 1 .. Len(q) : q[k] \in Coded
  OBVIOUS
<1>2. ReadBack(q) \in Seq(Good) /\ Len(ReadBack(q)) = Len(q)
  BY <1>1, CodedFacts DEF ReadBack
<1>3. ASSUME NEW x \in Coded PROVE ReadBack(Append(q, x)) = Append(ReadBack(q), ClientDecode(x))
  <2>1. PICK n \in Nat : n = Len(q)
    BY <1>1
  <2>2. Len(Append(q, x)) = n + 1 /\ Append(q, x)[n + 1] = x /\ \A k \in 1 .. n : Append(q, x)[k] = q[k]
    BY <2>1
  <2>3. PICK r \in Seq(Good), y \in Good : r = ReadBack(q) /\ y = ClientDecode(x) /\ Len(r) = n
    BY <1>2, <2>1, CodedFacts
  <2>4. \A k \in 1 .. n : r[k] = ClientDecode(q[k])
    BY <2>1, <2>3 DEF ReadBack
  <2>5. /\ Append(r, y) \in Seq(Good) /\ Len(Append(r, y)) = n + 1 /\ Append(r, y)[n + 1] = y
        /\ \A k \in 1 .. n : Append(r, y)[k] = r[k]
    BY <2>3
  <2>6. \A k \in 1 .. n + 1 : Append(r, y)[k] = ClientDecode(Append(q, x)[k])
    <3> SUFFICES ASSUME NEW k \in 1 .. n + 1 PROVE Append(r, y)[k] = ClientDecode(Append(q, x)[k])
      OBVIOUS
    <3>1. k \in 1 .. n \/ k = n + 1
      OBVIOUS
    <3> QED BY <2>2, <2>3, <2>4, <2>5, <3>1
  <2>7. PICK z \in Seq(Good) : z = Append(r, y)
    BY <2>5
  <2>8. z = [k \in 1 .. n + 1 |-> z[k]]
    <3>1. DOMAIN z = 1 .. Len(z) /\ Len(z) = n + 1
      BY <2>5, <2>7
    <3> QED BY <3>1
  <2>9. ReadBack(Append(q, x)) = [k \in 1 .. n + 1 |-> ClientDecode(Append(q, x)[k])]
    BY <2>2 DEF ReadBack
  <2> QED BY <2>3, <2>6, <2>7, <2>8, <2>9
<1>4. ASSUME q # << >> PROVE ReadBack(q) = <<ClientDecode(Head(q))>> \o ReadBack(Tail(q))
  <2>1. PICK n \in Nat : n = Len(q) /\ n > 0
    BY <1>1, <1>4
  <2>2. PICK h \in Coded, t \in Seq(Coded) :
          /\ h = Head(q) /\ t = Tail(q) /\ h = q[1] /\ DOMAIN t = 1 .. n - 1
          /\ \A i \in 1 .. n - 1 : t[i] = q[i + 1]
    <3>1. /\ Head(q) \in Coded /\ Tail(q) \in Seq(Coded) /\ Head(q) = q[1]
          /\ DOMAIN Tail(q) = 1 .. Len(q) - 1 /\ \A i \in DOMAIN Tail(q) : Tail(q)[i] = q[i + 1]
      BY <1>4, HeadTail
    <3> QED BY <2>1, <3>1
  <2>3. Len(t) = n - 1
    BY <2>1, <2>2
  <2>4. PICK r \in Seq(Good), y \in Good : r = ReadBack(t) /\ y = ClientDecode(h)
    <3>1. \A k \in 1 .. Len(t) : t[k] \in Coded
      OBVIOUS
    <3>2. ReadBack(t) \in Seq(Good)
      BY <3>1, CodedFacts DEF ReadBack
    <3> QED BY <3>2, CodedFacts
  <2>5. Len(r) = n - 1 /\ \A k \in 1 .. n - 1 : r[k] = ClientDecode(t[k])
    BY <2>3, <2>4, <2>1 DEF ReadBack
  <2>6. /\ <<y>> \o r \in Seq(Good) /\ Len(<<y>> \o r) = n /\ (<<y>> \o r)[1] = y
        /\ \A k \in 1 .. n - 1 : (<<y>> \o r)[k + 1] = r[k]
    BY <2>1, <2>5
  <2>7. PICK z \in Seq(Good) : z = <<y>> \o r
    BY <2>6
  <2>8. \A k \in 1 .. n : z[k] = ClientDecode(q[k])
    <3> SUFFICES ASSUME NEW k \in 1 .. n PROVE z[k] = ClientDecode(q[k])
      OBVIOUS
    <3>1. CASE k = 1
      BY <2>2, <2>4, <2>6, <2>7, <3>1
    <3>2. CASE k # 1
      <4>1. k - 1 \in 1 .. n - 1 /\ (k - 1) + 1 = k
        BY <3>2
      <4> QED BY <2>2, <2>5, <2>6, <2>7, <4>1
    <3> QED BY <3>1, <3>2
  <2>9. z = [k \in 1 .. n |-> z[k]]
    BY <2>6, <2>7
  <2> QED BY <2>1, <2>2, <2>4, <2>7, <2>8, <2>9 DEF ReadBack
<1> QED BY <1>1, <1>2, <1>3, <1>4

LEMMA ReadBackConcat ==
  ASSUME NEW q \in Seq(Coded)
  PROVE  \A r \in Seq(Coded) : ReadBack(q \o r) = ReadBack(q) \o ReadBack(r)
<1> DEFINE P == {r \in Seq(Coded) : ReadBack(q \o r) = ReadBack(q) \o ReadBack(r)}
<1>0. ReadBack(q) \in Seq(Good)
  BY ReadBackFacts
<1>1. << >> \in P
  <2>1. ReadBack(<< >>) = << >>
    BY DEF ReadBack
  <2>2. q \o << >> = q /\ ReadBack(q) \o << >> = ReadBack(q)
    BY <1>0
  <2>3. ReadBack(q \o << >>) = ReadBack(q) \o ReadBack(<< >>)
    BY <2>1, <2>2
  <2>4. << >> \in Seq(Coded)
    OBVIOUS
  <2> QED BY <2>3, <2>4
<1>2. ASSUME NEW r \in Seq(Coded), NEW x \in Coded, r \in P PROVE Append(r, x) \in P
  <2>1. PICK k \in Seq(Good), l \in Seq(Good), y \in Good :
          k = ReadBack(q) /\ l = ReadBack(r) /\ y = ClientDecode(x)
    BY ReadBackFacts, CodedFacts
  <2>2. q \o Append(r, x) = Append(q \o r, x) /\ q \o r \in Seq(Coded) /\ Append(r, x) \in Seq(Coded)
    OBVIOUS
  <2>3. ReadBack(Append(q \o r, x)) = Append(ReadBack(q \o r), y)
    BY <2>1, <2>2, ReadBackFacts
  <2>4. ReadBack(Append(r, x)) = Append(l, y)
    BY <2>1, ReadBackFacts
  <2>5. k \o Append(l, y) = Append(k \o l, y)
    OBVIOUS
  <2> QED BY <1>2, <2>1, <2>2, <2>3, <2>4, <2>5
<1> HIDE DEF P
<1>3. Seq(Coded) \subseteq P
  BY <1>1, <1>2, SeqSetInduction
<1> QED BY <1>3 DEF P

-----------------------------------------------------------------------------
(* The invariant. *)

PostType == [text : {t \in Text : Taken(t) \in Seq(Coded)}, served : BOOLEAN]

CallType == [asked : Spoken, ack : Spoken]

\* What is where: packets at the client and in the logs, texts in the queues.
ClientTypes ==
  /\ connected \in BOOLEAN /\ doBuffer \in BOOLEAN
  /\ buffer \in Seq(Spoken) /\ hearing \in Seq(Good) /\ ackPackets \in [Endpoints -> Nat]

NetTypes == posts \in Seq(PostType) /\ crossed \in BOOLEAN

ServerTypes ==
  /\ server_queue \in Seq(Coded) /\ client_queue \in Seq(Coded)
  /\ receiving \in BOOLEAN /\ beats \in 0 .. MaxBeats /\ ack_counter \in Nat

LogTypes ==
  /\ sent \in Seq(Spoken) /\ got \in Seq(Spoken) /\ emitted \in Seq(Spoken) /\ heard \in Seq(Spoken)

\* The callbacks of either side wait for packets that it sent.
Callbacks ==
  /\ acks \subseteq Range(sent) /\ \A a \in acks : a.id # 0
  /\ ack_callbacks \subseteq Range(emitted) /\ \A a \in ack_callbacks : a.id # 0

Types0 == ClientTypes /\ NetTypes /\ ServerTypes /\ LogTypes /\ Callbacks

\* What the scripts have left is yet to be sent, and differs.
UpRest ==
  /\ up \in Seq(PacketType)
  /\ \A i \in DOMAIN up : /\ Unsent(up[i]) /\ up[i].type \in HasPayload \union {"connect"}
                          /\ up[i].endpoint \in Endpoints
  /\ \A i, j \in DOMAIN up : AsRead(up[i]) = AsRead(up[j]) => i = j
  /\ \A i \in DOMAIN up, s \in Range(sent) : AsRead(s) # AsRead(up[i])

DownRest ==
  /\ down \in Seq(PacketType) /\ Once(down)
  /\ \A i \in DOMAIN down : /\ Unsent(down[i]) /\ down[i].type \in HasPayload
                            /\ down[i] \notin Range(emitted)

\* The server can tell the packets of the client apart, and an endpoint's ids are its own.
UpApart ==
  /\ \A s, t \in Range(sent) : AsRead(s) = AsRead(t) => s = t
  /\ \A s \in Range(sent) : s.id # 0 => s.endpoint \in Endpoints /\ s.id <= ackPackets[s.endpoint]
  /\ \A s, t \in Range(sent) : s.id # 0 /\ s.id = t.id /\ s.endpoint = t.endpoint => s = t

\* The server says nothing twice, and its ids are the session's.
DownApart ==
  /\ Once(emitted)
  /\ \A s \in Range(emitted) : s.id <= ack_counter
  /\ \A s, t \in Range(emitted) : s.id # 0 /\ s.id = t.id => s = t

\* An ack answers a packet that came.
UpAcks ==
  \A s \in Range(sent) : s.type = "ack" => \E q \in Range(heard) : q.id # 0 /\ s = Reply(q)

DownAcks ==
  \A s \in Range(emitted) :
    /\ s.type = "ack" => \E p \in Range(got) : p.id # 0 /\ s = Answer(p)
    /\ s.type = "connect" => s \in Range(got)

\* What the client has yet to hear is on its way, in order, until the connection is lost.
DownWire == hearing \o ReadBack(client_queue)

DownLine ==
  \E rest \in Seq(Spoken) :
    emitted = heard \o rest /\ (connected => rest = Keep(DownWire, Spoken))

\* A buffer without a POST in flight is empty.
Buffered == connected /\ ~doBuffer => buffer = << >>

\* The same of what the server has yet to get, as long as no two POSTs are in flight.
InPost == IF posts = << >> \/ posts[1].served THEN << >> ELSE Taken(posts[1].text)

UpWire == ReadBack(server_queue \o InPost) \o buffer

\* What the server has yet to log is on its way; once the receiver loop has ended, it is
\* what the loop ended at, and all that the client sent after it.
Ahead(rest) ==
  /\ receiving => rest = Keep(UpWire, Spoken)
  /\ ~receiving => rest # << >> /\ Plus(rest[1])

UpLine ==
  ~crossed /\ Multilines = {} =>
    /\ Len(posts) <= 1
    /\ \E rest \in Seq(Spoken) : sent = got \o rest /\ Ahead(rest)

\* In any order: the k-th text of a place, which is the log of the server, its queue, the
\* buffer of the client, or a POST that is not served.
At(w, k, x) ==
  \/ w = 0 /\ k \in DOMAIN got /\ x = Encode(got[k])
  \/ w = 1 /\ k \in DOMAIN server_queue /\ x = server_queue[k]
  \/ w = 2 /\ k \in DOMAIN buffer /\ x = Encode(AsRead(buffer[k]))
  \/ \E i \in DOMAIN posts : /\ w = i + 2 /\ ~posts[i].served
                             /\ k \in DOMAIN Taken(posts[i].text) /\ x = Taken(posts[i].text)[k]

\* Each is a heartbeat, or was sent.
Carried ==
  \A w, k, x : At(w, k, x) => x = Beating \/ \E s \in Range(sent) : x = Encode(AsRead(s))

\* A packet is in one place, once.
Spread ==
  \A w1, k1, w2, k2, x :
    At(w1, k1, x) /\ At(w2, k2, x) /\ x # Beating => w1 = w2 /\ k1 = k2

\* A callback that ran waits no more, and got what its packet asked for.
Fired ==
  /\ fired \in Seq(CallType)
  /\ \A i \in DOMAIN fired : /\ fired[i].asked \in Range(sent) \ acks /\ fired[i].asked.id # 0
                             /\ fired[i].ack.args = fired[i].asked.args
  /\ \A i, j \in DOMAIN fired : fired[i].asked = fired[j].asked => i = j

Called ==
  /\ called \in Seq(CallType)
  /\ \A i \in DOMAIN called :
       /\ called[i].asked \in Range(emitted) \ ack_callbacks /\ called[i].asked.id # 0
       /\ called[i].ack.args = IF called[i].asked.ack = "data" THEN called[i].asked.args ELSE << >>
  /\ \A i, j \in DOMAIN called : called[i].asked = called[j].asked => i = j

\* The receiver loop ends only for an ack with a '+'.
LoopLives == receiving \/ \E s \in Range(sent) : Plus(s)

IInv ==
  /\ AllNumbers
  /\ Types0 /\ UpRest /\ DownRest /\ UpApart /\ DownApart /\ UpAcks /\ DownAcks
  /\ DownLine /\ Buffered /\ UpLine /\ Carried /\ Spread /\ Fired /\ Called /\ LoopLives

LEMMA InitInv == AllNumbers /\ Init => IInv
<1> SUFFICES ASSUME AllNumbers, Init PROVE IInv
  OBVIOUS
<1> USE DEF Init
<1>1. Types0
  <2>0. MaxBeats \in Nat
    BY WireAssumption
  <2>1. ClientTypes
    <3>1. buffer \in Seq(Spoken) /\ hearing \in Seq(Good) /\ ackPackets \in [Endpoints -> Nat]
      OBVIOUS
    <3>2. connected = TRUE /\ doBuffer = FALSE
      BY Zenon
    <3> QED BY <3>1, <3>2, Zenon DEF ClientTypes
  <2>2. NetTypes
    <3>1. posts \in Seq(PostType)
      OBVIOUS
    <3>2. crossed = FALSE
      BY Zenon
    <3> QED BY <3>1, <3>2, Zenon DEF NetTypes
  <2>3. ServerTypes
    BY <2>0 DEF ServerTypes
  <2>4. LogTypes
    BY DEF LogTypes
  <2> QED BY <2>1, <2>2, <2>3, <2>4 DEF Types0, Callbacks
<1>2. Range(sent) = {} /\ Range(emitted) = {} /\ DOMAIN << >> = {}
  BY DEF Range
<1>3. PICK s \in Scripts : up = s.up /\ down = s.down
  OBVIOUS
<1>4. UpRest
  <2>1. /\ up \in Seq(PacketType)
        /\ \A i \in DOMAIN up : Unsent(up[i]) /\ up[i].type \in HasPayload \union {"connect"}
        /\ \A i, j \in DOMAIN up : AsRead(up[i]) = AsRead(up[j]) => i = j
    BY <1>3, WireAssumption
  <2>2. \A i \in DOMAIN up : up[i].endpoint \in Endpoints
    BY <1>3 DEF Endpoints
  <2> QED BY <1>2, <2>1, <2>2 DEF UpRest
<1>5. DownRest
  <2>1. /\ down \in Seq(PacketType) /\ Once(down)
        /\ \A i \in DOMAIN down : Unsent(down[i]) /\ down[i].type \in HasPayload
    BY <1>3, WireAssumption
  <2> QED BY <1>2, <2>1 DEF DownRest
<1>6. UpApart /\ UpAcks /\ DownAcks
  BY <1>2 DEF UpApart, UpAcks, DownAcks
<1>7. DownApart
  BY <1>2 DEF DownApart, Once
<1>8. ReadBack(<< >>) = << >>
  BY DEF ReadBack
<1>9. DownLine
  <2>1. DownWire = << >> /\ << >> \o << >> = << >> /\ << >> \in Seq(Spoken)
    BY <1>8 DEF DownWire
  <2> QED BY <2>1, KeepEmpty DEF DownLine
<1>10. UpLine
  <2>1. UpWire = << >> /\ << >> \o << >> = << >> /\ << >> \in Seq(Spoken) /\ Len(<< >>) = 0
    BY <1>8 DEF UpWire, InPost
  <2>2. Keep(UpWire, Spoken) = << >> /\ sent = got \o << >> /\ Len(posts) <= 1
    BY <2>1, KeepEmpty
  <2>3. receiving
    BY Zenon
  <2> QED BY <2>1, <2>2, <2>3 DEF UpLine, Ahead
<1>11. Carried /\ Spread
  BY <1>2 DEF Carried, Spread, At
<1>12. Fired /\ Called
  BY <1>2 DEF Fired, Called
<1>13. Buffered /\ LoopLives
  BY DEF Buffered, LoopLives
<1> QED BY <1>1, <1>4, <1>5, <1>6, <1>7, <1>9, <1>10, <1>11, <1>12, <1>13 DEF IInv

-----------------------------------------------------------------------------
(* What a step does. *)

\* What the receiver loop decoded was sent.
LEMMA GotSent ==
  ASSUME Types0, Carried
  PROVE  \A g \in Range(got) : g \in Spoken /\ \E s \in Range(sent) : s \in Spoken /\ g = AsRead(s)
<1> SUFFICES ASSUME NEW g \in Range(got)
             PROVE  g \in Spoken /\ \E s \in Range(sent) : s \in Spoken /\ g = AsRead(s)
  OBVIOUS
<1>1. PICK k \in DOMAIN got : g = got[k]
  BY DEF Range
<1>2. g \in Spoken /\ g \in Good /\ g # Heartbeat
  BY <1>1, Beats DEF Types0, LogTypes, Spoken
<1>3. At(0, k, Encode(g))
  BY <1>1 DEF At
<1>4. Encode(g) # Beating
  BY <1>2, Beats, OneText DEF Beating
<1>5. PICK s \in Range(sent) : Encode(g) = Encode(AsRead(s))
  BY <1>3, <1>4 DEF Carried
<1>6. s \in Spoken /\ s \in Good
  BY RangeOf DEF Types0, LogTypes, Spoken
<1>7. g = AsRead(s)
  BY <1>2, <1>5, <1>6, OneText, Reading
<1> QED BY <1>2, <1>6, <1>7

\* What the client heard was sent.
LEMMA HeardEmitted ==
  ASSUME Types0, DownLine
  PROVE  Range(heard) \subseteq Range(emitted)
<1>1. PICK rest \in Seq(Spoken) : emitted = heard \o rest
  BY DEF DownLine
<1>2. heard \in Seq(Spoken)
  BY DEF Types0, LogTypes
<1> QED BY <1>1, <1>2, ConcatRange

\* The application of the client speaks.
Speaks(p) ==
  /\ p \in Spoken /\ Submit(p) /\ p.type # "ack"
  /\ \A s \in Range(sent) : AsRead(s) # AsRead(p)
  /\ up' \in Seq(PacketType) /\ UpRest
  /\ \A i \in DOMAIN up' : /\ i + 1 \in DOMAIN up /\ up'[i] = up[i + 1]
                           /\ AsRead(up'[i]) # AsRead(p)
  /\ \/ p.id = 0 /\ UNCHANGED <<ackPackets, acks>>
     \/ /\ p.id # 0 /\ p.endpoint \in Endpoints /\ p.id = ackPackets[p.endpoint] + 1
        /\ ackPackets' = [ackPackets EXCEPT ![p.endpoint] = @ + 1]
        /\ acks' = acks \union {p}

LEMMA ClientSpeaks ==
  ASSUME IInv, ClientSend
  PROVE  \E p : Speaks(p)
<1>1. AllNumbers /\ Types0 /\ UpRest /\ UpApart
  BY DEF IInv
<1>2. up \in Seq(PacketType) /\ up # << >> /\ up' = Tail(up)
  BY <1>1 DEF UpRest, ClientSend
<1>3. PICK t : t = Head(up)
  OBVIOUS
<1>4. /\ t \in PacketType /\ t = up[1] /\ 1 \in DOMAIN up /\ up' \in Seq(PacketType)
      /\ DOMAIN up = 1 .. Len(up) /\ Len(up) \in Nat
      /\ DOMAIN up' = 1 .. Len(up) - 1 /\ \A i \in DOMAIN up' : up'[i] = up[i + 1]
  BY <1>2, <1>3, HeadTail
<1>5. \A i \in DOMAIN up' : i + 1 \in DOMAIN up /\ i + 1 # 1 /\ up'[i] = up[i + 1]
  BY <1>4
<1>6. /\ Unsent(t) /\ t.type \in HasPayload \union {"connect"} /\ t.endpoint \in Endpoints
      /\ \A i \in DOMAIN up : AsRead(up[i]) = AsRead(t) => i = 1
      /\ \A s \in Range(sent) : AsRead(s) # AsRead(t)
  BY <1>1, <1>4 DEF UpRest
<1>7. t.id = 0 /\ t.type # "heartbeat" /\ t.type # "ack"
  BY <1>6 DEF Unsent, HasPayload
<1>8. CASE t.ack = "none"
  <2>1. Submit(t) /\ UNCHANGED <<ackPackets, acks>>
    BY <1>3, <1>8 DEF ClientSend
  <2>2. t \in Spoken
    <3>1. 1 \in Nat /\ 1 # 0
      OBVIOUS
    <3> QED BY <1>1, <1>4, <1>6, <1>7, <1>8, <3>1, Sending
  <2>3. Speaks(t)
    BY <1>1, <1>4, <1>5, <1>6, <1>7, <2>1, <2>2 DEF Speaks
  <2> QED BY <2>3
<1>9. CASE t.ack # "none"
  <2> DEFINE e == t.endpoint
  <2>1. PICK n \in Nat : n = ackPackets[e] + 1 /\ n # 0 /\ ackPackets \in [Endpoints -> Nat]
    BY <1>1, <1>6 DEF Types0, ClientTypes
  <2>2. PICK p : p = [t EXCEPT !.id = n]
    OBVIOUS
  <2>3. /\ ackPackets' = [ackPackets EXCEPT ![e] = @ + 1] /\ acks' = acks \union {p} /\ Submit(p)
    BY <1>3, <1>9, <2>1, <2>2 DEF ClientSend, NextId
  <2>4. p \in Spoken /\ p \in Good
    BY <1>1, <1>4, <1>6, <1>7, <1>9, <2>1, <2>2, Sending DEF Spoken
  <2>5. p.id = n /\ p.endpoint = e /\ p.type = t.type
    BY <1>4, <2>2 DEF PacketType
  <2>6. ASSUME NEW s \in Range(sent), AsRead(s) = AsRead(p) PROVE FALSE
    <3>1. s \in Good
      BY <1>1, RangeOf DEF Types0, LogTypes, Spoken
    <3>2. s.id = n /\ s.endpoint = e
      BY <2>4, <2>5, <2>6, <3>1, Reading
    <3>3. s.id <= ackPackets[e]
      BY <1>1, <2>1, <3>2 DEF UpApart
    <3>4. ackPackets[e] \in Nat
      BY <1>6, <2>1
    <3> QED BY <2>1, <3>2, <3>3, <3>4
  <2>7. ASSUME NEW i \in DOMAIN up' PROVE AsRead(up'[i]) # AsRead(p)
    <3>1. PICK u : u = up'[i] /\ u \in PacketType /\ Unsent(u)
      BY <1>1, <1>4, <1>5 DEF UpRest
    <3>2. AsRead(u).id = 0
      BY <3>1 DEF AsRead, FirstLine, Unsent, PacketType
    <3>3. AsRead(p).id = n
      BY <2>4, <2>5, Reading
    <3> QED BY <2>1, <3>1, <3>2, <3>3
  <2>8. Speaks(p)
    BY <1>1, <1>4, <1>5, <1>6, <1>7, <2>1, <2>3, <2>4, <2>5, <2>6, <2>7 DEF Speaks
  <2> QED BY <2>8
<1> QED BY <1>8, <1>9

\* The server sends a packet: of its application, or in answer to one of the client.
Emits(p) ==
  /\ p \in Spoken /\ SendPacket(p) /\ p \notin Range(emitted)
  /\ down' \in Seq(PacketType) /\ DownRest
  /\ \A i \in DOMAIN down' : down'[i] # p
  /\ \/ down' = down
     \/ \A i \in DOMAIN down' : i + 1 \in DOMAIN down /\ down'[i] = down[i + 1]
  /\ \/ p.id = 0 /\ UNCHANGED <<ack_counter, ack_callbacks>>
     \/ /\ p.id # 0 /\ p.id = ack_counter + 1 /\ ack_counter' = p.id
        /\ ack_callbacks' = ack_callbacks \union {p}

LEMMA ServerSpeaks ==
  ASSUME IInv, ServerEmit
  PROVE  \E p : Emits(p) /\ p.type \in HasPayload
<1>1. AllNumbers /\ Types0 /\ DownRest /\ DownApart
  BY DEF IInv
<1>2. down \in Seq(PacketType) /\ down # << >> /\ down' = Tail(down)
  BY <1>1 DEF DownRest, ServerEmit
<1>3. PICK t : t = Head(down)
  OBVIOUS
<1>4. /\ t \in PacketType /\ t = down[1] /\ 1 \in DOMAIN down /\ down' \in Seq(PacketType)
      /\ DOMAIN down = 1 .. Len(down) /\ Len(down) \in Nat
      /\ DOMAIN down' = 1 .. Len(down) - 1 /\ \A i \in DOMAIN down' : down'[i] = down[i + 1]
  BY <1>2, <1>3, HeadTail
<1>5. \A i \in DOMAIN down' : i + 1 \in DOMAIN down /\ i + 1 # 1 /\ down'[i] = down[i + 1]
  BY <1>4
<1>6. /\ Unsent(t) /\ t.type \in HasPayload /\ t \notin Range(emitted)
      /\ \A i \in DOMAIN down : down[i] = t => i = 1
  BY <1>1, <1>4 DEF DownRest, Once
<1>7. t.id = 0 /\ t.type # "heartbeat"
  BY <1>6 DEF Unsent, HasPayload
<1>8. PICK n \in Nat : n = ack_counter + 1 /\ n # 0 /\ ack_counter \in Nat
  BY <1>1 DEF Types0, ServerTypes
<1>9. CASE t.ack = "none"
  <2>1. SendPacket(t) /\ UNCHANGED <<ack_counter, ack_callbacks>>
    BY <1>3, <1>9 DEF ServerEmit
  <2>2. t \in Spoken
    BY <1>1, <1>4, <1>6, <1>7, <1>8, <1>9, Sending
  <2>3. Emits(t)
    BY <1>1, <1>4, <1>5, <1>6, <1>7, <2>1, <2>2 DEF Emits
  <2> QED BY <1>6, <2>3
<1>10. CASE t.ack # "none"
  <2>2. PICK p : p = [t EXCEPT !.id = n]
    OBVIOUS
  <2>3. ack_counter' = n /\ ack_callbacks' = ack_callbacks \union {p} /\ SendPacket(p)
    BY <1>3, <1>8, <1>10, <2>2 DEF ServerEmit, MsgId
  <2>4. p \in Spoken
    BY <1>1, <1>4, <1>6, <1>7, <1>8, <1>10, <2>2, Sending
  <2>5. p.id = n /\ p.type = t.type
    BY <1>4, <2>2 DEF PacketType
  <2>6. p \notin Range(emitted)
    BY <1>1, <1>8, <2>5 DEF DownApart
  <2>7. ASSUME NEW i \in DOMAIN down' PROVE down'[i] # p
    BY <1>1, <1>5, <1>8, <2>5 DEF DownRest, Unsent
  <2>8. Emits(p)
    BY <1>1, <1>4, <1>5, <1>8, <2>3, <2>4, <2>5, <2>6, <2>7 DEF Emits
  <2> QED BY <1>6, <2>5, <2>8
<1> QED BY <1>9, <1>10

LEMMA AppendConcat ==
  ASSUME NEW T, NEW s \in Seq(T), NEW x \in T
  PROVE  \A t \in Seq(T) : Append(s, x) \o t = s \o (<<x>> \o t)
<1>1. <<x>> \in Seq(T) /\ Append(s, x) = s \o <<x>>
  OBVIOUS
<1>2. \A t \in Seq(T) : (s \o <<x>>) \o t = s \o (<<x>> \o t)
  BY <1>1, Assoc
<1> QED BY <1>1, <1>2

\* The client takes the next packet of a response, which is the next of what was sent.
LEMMA NextHeard ==
  ASSUME IInv, Hear
  PROVE  LET p == Head(hearing) IN
         /\ p \in Good /\ connected /\ hearing # << >>
         /\ p.type # "heartbeat" =>
              \E rest \in Seq(Spoken) :
                /\ emitted = Append(heard, p) \o rest
                /\ rest = Keep(Tail(hearing) \o ReadBack(client_queue), Spoken)
         /\ p.type = "heartbeat" =>
              \E rest \in Seq(Spoken) :
                /\ emitted = heard \o rest
                /\ rest = Keep(Tail(hearing) \o ReadBack(client_queue), Spoken)
<1>1. Types0 /\ DownLine /\ connected /\ hearing # << >>
  BY DEF IInv, Hear
<1>2. hearing \in Seq(Good) /\ heard \in Seq(Spoken) /\ client_queue \in Seq(Coded)
  BY <1>1 DEF Types0, ClientTypes, LogTypes, ServerTypes
<1>3. PICK p \in Good, t \in Seq(Good) :
        p = Head(hearing) /\ t = Tail(hearing) /\ hearing = <<p>> \o t
  <2>1. /\ Head(hearing) \in Good /\ Tail(hearing) \in Seq(Good)
        /\ hearing = <<Head(hearing)>> \o Tail(hearing)
    BY <1>1, <1>2, HeadTail
  <2> QED BY <2>1
<1>4. PICK c \in Seq(Good) : c = ReadBack(client_queue)
  BY <1>2, ReadBackFacts
<1>5. PICK u \in Seq(Good) : u = t \o c
  <2>1. t \o c \in Seq(Good)
    OBVIOUS
  <2> QED BY <2>1
<1>6. DownWire = <<p>> \o u
  BY <1>3, <1>4, <1>5 DEF DownWire
<1>7. PICK all \in Seq(Spoken) : emitted = heard \o all /\ all = Keep(<<p>> \o u, Spoken)
  BY <1>1, <1>6 DEF DownLine
<1>8. Keep(<<p>> \o u, Spoken) = IF p \in Spoken THEN <<p>> \o Keep(u, Spoken) ELSE Keep(u, Spoken)
  <2>1. p \in Good /\ u \in Seq(Good)
    BY <1>3
  <2> QED BY <2>1, KeepHead
<1>9. PICK rest \in Seq(Spoken) : rest = Keep(u, Spoken)
  <2>1. Keep(u, Spoken) \in Seq(Good \cap Spoken)
    BY KeepType
  <2>2. Good \cap Spoken = Spoken
    BY DEF Spoken
  <2> QED BY <2>1, <2>2
<1>10. p \in Spoken <=> p.type # "heartbeat"
  BY <1>3 DEF Spoken
<1>11. ASSUME p \in Spoken PROVE heard \o (<<p>> \o rest) = Append(heard, p) \o rest
  <2>1. PICK h \in Seq(Spoken) : h = heard
    BY <1>2
  <2>2. Append(h, p) \o rest = h \o (<<p>> \o rest)
    BY <1>11, AppendConcat
  <2> QED BY <2>1, <2>2
<1> QED BY <1>1, <1>3, <1>4, <1>5, <1>7, <1>8, <1>9, <1>10, <1>11

\* Nothing is heard twice.
LEMMA HeardOnce ==
  ASSUME Types0, DownApart, NEW p \in Spoken, NEW rest \in Seq(Spoken),
         emitted = Append(heard, p) \o rest
  PROVE  p \in Range(emitted) /\ p \notin Range(heard)
<1>1. heard \in Seq(Spoken) /\ Once(emitted)
  BY DEF Types0, LogTypes, DownApart
<1>2. PICK a \in Seq(Spoken), n \in Nat :
        /\ a = Append(heard, p) /\ n = Len(heard) /\ Len(a) = n + 1 /\ DOMAIN heard = 1 .. n
        /\ a[n + 1] = p /\ \A i \in 1 .. n : a[i] = heard[i]
  <2>1. /\ Append(heard, p) \in Seq(Spoken) /\ Len(heard) \in Nat /\ DOMAIN heard = 1 .. Len(heard)
        /\ Append(heard, p)[Len(heard) + 1] = p
        /\ \A i \in 1 .. Len(heard) : Append(heard, p)[i] = heard[i]
    BY <1>1, AppendRange
  <2>2. Len(Append(heard, p)) = Len(heard) + 1
    BY <1>1
  <2> QED BY <2>1, <2>2
<1>3. \A i \in 1 .. n + 1 : i \in DOMAIN emitted /\ emitted[i] = a[i]
  <2>1. DOMAIN (a \o rest) = 1 .. Len(a) + Len(rest) /\ Len(rest) \in Nat
    OBVIOUS
  <2>2. \A i \in 1 .. Len(a) : (a \o rest)[i] = a[i]
    BY ConcatFacts
  <2> QED BY <1>2, <2>1, <2>2
<1>4. p \in Range(emitted)
  <2>1. n + 1 \in 1 .. n + 1
    OBVIOUS
  <2>2. n + 1 \in DOMAIN emitted /\ emitted[n + 1] = p
    BY <1>2, <1>3, <2>1
  <2> QED BY <2>2 DEF Range
<1>5. ASSUME p \in Range(heard) PROVE FALSE
  <2>1. PICK i \in 1 .. n : heard[i] = p
    BY <1>2, <1>5 DEF Range
  <2>2. i \in 1 .. n + 1 /\ n + 1 \in 1 .. n + 1 /\ i # n + 1
    OBVIOUS
  <2>3. emitted[i] = p /\ emitted[n + 1] = p
    BY <1>2, <1>3, <2>1, <2>2
  <2> QED BY <1>1, <1>3, <2>2, <2>3 DEF Once
<1> QED BY <1>4, <1>5

\* The callbacks of at most one packet.
LEMMA RunsOne ==
  ASSUME NEW W \in SUBSET Spoken, NEW p \in Spoken, \A a, b \in W : a = b
  PROVE  \/ W = {} /\ Runs(W, p) = << >>
         \/ \E a \in W : /\ W = {a} /\ Runs(W, p) = <<[asked |-> a, ack |-> p]>>
                         /\ [asked |-> a, ack |-> p] \in CallType
<1>1. CASE W = {}
  <2>1. {[asked |-> a, ack |-> p] : a \in W} = {}
    BY <1>1
  <2>2. Cardinality({}) = 0
    BY FS_EmptySet
  <2>3. PICK c : c = SetToSeq({})
    OBVIOUS
  <2>4. << >> \in [1 .. 0 -> {}] /\ DOMAIN << >> = {} /\ 1 .. 0 = {}
    OBVIOUS
  <2>5. c = CHOOSE f \in [1 .. 0 -> {}] : IsInjective(f)
    BY <2>2, <2>3 DEF SetToSeq
  <2>6. IsInjective(<< >>)
    BY <2>4 DEF IsInjective
  <2>7. c = << >>
    <3>1. c \in [1 .. 0 -> {}]
      BY <2>4, <2>5, <2>6
    <3>2. c \in Seq({}) /\ Len(c) = 0
      BY <3>1
    <3> QED BY <3>2
  <2> QED BY <1>1, <2>1, <2>3, <2>7 DEF Runs
<1>2. CASE W # {}
  <2>1. PICK a \in W : W = {a}
    BY <1>2
  <2>2. PICK r : r = [asked |-> a, ack |-> p]
    OBVIOUS
  <2>3. {[asked |-> b, ack |-> p] : b \in W} = {r}
    BY <2>1, <2>2
  <2>4. Cardinality({r}) = 1
    BY FS_Singleton
  <2>5. PICK g : g = <<r>>
    OBVIOUS
  <2>6. g \in [1 .. 1 -> {r}] /\ IsInjective(g)
    BY <2>5 DEF IsInjective
  <2>7. \A f \in [1 .. 1 -> {r}] : f = g
    BY <2>5
  <2>8. PICK c : c = SetToSeq({r})
    OBVIOUS
  <2>9. c = CHOOSE f \in [1 .. 1 -> {r}] : IsInjective(f)
    BY <2>4, <2>8 DEF SetToSeq
  <2>10. c = g
    BY <2>6, <2>7, <2>9
  <2>11. Runs(W, p) = <<r>>
    BY <2>3, <2>5, <2>8, <2>10 DEF Runs
  <2>12. r \in CallType
    BY <2>1, <2>2 DEF CallType
  <2> QED BY <2>1, <2>2, <2>11, <2>12
<1> QED BY <1>1, <1>2

\* The client handles a packet of the server, for the first time.
Handles(p) ==
  /\ p \in Spoken /\ p \in Range(emitted) \ Range(heard) /\ heard' = Append(heard, p)

\* It runs the callback that waits for it, if any does.
RunsCallback(p) ==
  /\ p.type = "ack" /\ UNCHANGED <<doBuffer, buffer, netVars, sent>>
  /\ \/ UNCHANGED <<acks, fired>>
     \/ \E a \in acks : /\ acks' = acks \ {a} /\ a.args = p.args
                        /\ fired' = Append(fired, [asked |-> a, ack |-> p])

\* It answers it.
Replies(p) ==
  /\ p.id # 0 /\ Reply(p) \in Spoken /\ Submit(Reply(p)) /\ UNCHANGED <<acks, fired>>
  /\ \A s \in Range(sent) : AsRead(s) # AsRead(Reply(p))

LEMMA HearSteps ==
  ASSUME IInv, Hear
  PROVE  /\ connected /\ hearing' = Tail(hearing)
         /\ UNCHANGED <<scriptVars, connected, ackPackets, serverVars, got, called, emitted>>
         /\ \/ /\ Head(hearing).type = "heartbeat" /\ PostOn(posts, Beating)
               /\ UNCHANGED <<buffer, acks, sent, heard, fired>>
            \/ \E p : /\ p = Head(hearing) /\ p.type # "heartbeat" /\ Handles(p)
                      /\ \/ RunsCallback(p)
                         \/ Replies(p)
                         \/ UNCHANGED <<acks, fired, doBuffer, buffer, netVars, sent>>
<1>1. /\ Types0 /\ DownApart /\ UpAcks /\ DownAcks /\ UpApart /\ Carried /\ DownLine
      /\ connected /\ hearing' = Tail(hearing)
      /\ UNCHANGED <<scriptVars, connected, ackPackets, serverVars, got, called, emitted>>
  BY DEF IInv, Hear
<1>2. PICK p : p = Head(hearing)
  OBVIOUS
<1>3. p \in Good
  BY <1>2, NextHeard
<1>4. CASE p.type = "heartbeat"
  <2>1. ClientEncode(Heartbeat) = Beating
    BY Beats, Codec DEF Beating
  <2>2. PostOn(posts, Beating) /\ UNCHANGED <<buffer, acks, sent, heard, fired>>
    BY <1>2, <1>4, <2>1 DEF Hear
  <2> QED BY <1>1, <1>2, <1>4, <2>2
<1>5. CASE p.type # "heartbeat"
  <2>1. HearPacket(p)
    BY <1>2, <1>5 DEF Hear
  <2>2. p \in Spoken
    BY <1>3, <1>5 DEF Spoken
  <2>3. p \in Range(emitted) /\ p \notin Range(heard)
    <3>1. PICK rest \in Seq(Spoken) : emitted = Append(heard, p) \o rest
      BY <1>2, <1>5, NextHeard
    <3> QED BY <1>1, <2>2, <3>1, HeardOnce
  <2>4. Handles(p)
    BY <2>1, <2>2, <2>3 DEF Handles, HearPacket
  <2>5. CASE p.type = "ack"
    <3>1. /\ acks' = acks \ Asked(p) /\ fired' = fired \o Runs(Asked(p), p)
          /\ UNCHANGED <<doBuffer, buffer, netVars, sent>>
      BY <2>1, <2>5 DEF HearPacket, HasPayload
    <3>2. \A a \in acks : a \in Spoken /\ a \in Range(sent) /\ a.id # 0
      BY <1>1, RangeOf DEF Types0, LogTypes, Callbacks
    <3>3. fired \in Seq(CallType)
      BY DEF IInv, Fired
    <3>4. PICK g \in Range(got) : g.id # 0 /\ p = Answer(g)
      BY <1>1, <2>3, <2>5 DEF DownAcks
    <3>5. PICK s \in Range(sent) : s \in Spoken /\ g = AsRead(s) /\ g \in Spoken
      BY <1>1, GotSent
    <3>6. /\ p.ackId = s.id /\ p.endpoint = s.endpoint /\ p.args = s.args /\ s.id # 0
      <4>1. g \in Good /\ s \in Good /\ g.args \in {<< >>, g.args}
        BY <3>5 DEF Spoken
      <4>2. p.ackId = g.id /\ p.endpoint = g.endpoint /\ p.args = g.args
        BY <3>4, <4>1, Acking DEF Answer
      <4>3. g.id = s.id /\ g.endpoint = s.endpoint /\ g.args = s.args
        BY <3>5, <4>1, Reading
      <4> QED BY <3>4, <4>2, <4>3
    <3>7. \A a \in Asked(p) : a = s /\ a \in acks /\ a \in Spoken
      BY <1>1, <3>2, <3>6 DEF Asked, UpApart
    <3>8. PICK W : W = Asked(p) /\ W \subseteq Spoken /\ W \subseteq acks /\ \A a \in W : a = s
      BY <3>7
    <3>9. \/ W = {} /\ Runs(W, p) = << >>
          \/ \E a \in W : /\ W = {a} /\ Runs(W, p) = <<[asked |-> a, ack |-> p]>>
                          /\ [asked |-> a, ack |-> p] \in CallType
      BY <2>2, <3>8, RunsOne
    <3>10. RunsCallback(p)
      <4>1. CASE W = {} /\ Runs(W, p) = << >>
        <5>1. acks' = acks /\ fired' = fired \o << >> /\ fired \o << >> = fired
          BY <3>1, <3>3, <3>8, <4>1
        <5> QED BY <2>5, <3>1, <5>1 DEF RunsCallback
      <4>2. CASE \E a \in W : /\ W = {a} /\ Runs(W, p) = <<[asked |-> a, ack |-> p]>>
                              /\ [asked |-> a, ack |-> p] \in CallType
        <5>1. PICK a \in W : /\ W = {a} /\ Runs(W, p) = <<[asked |-> a, ack |-> p]>>
                             /\ [asked |-> a, ack |-> p] \in CallType
          BY <4>2
        <5>2. PICK r \in CallType : r = [asked |-> a, ack |-> p]
          BY <5>1
        <5>3. fired' = fired \o <<r>> /\ fired \o <<r>> = Append(fired, r)
          <6>1. fired \o <<r>> = Append(fired, r)
            BY <3>3, <5>2
          <6>2. Runs(Asked(p), p) = <<r>>
            BY <3>8, <5>1, <5>2
          <6> QED BY <3>1, <6>1, <6>2
        <5>4. acks' = acks \ {a} /\ a \in acks /\ a.args = p.args
          BY <3>1, <3>6, <3>8, <5>1
        <5> QED BY <2>5, <3>1, <5>2, <5>3, <5>4 DEF RunsCallback
      <4> QED BY <3>9, <4>1, <4>2
    <3> QED BY <1>1, <1>2, <1>5, <2>4, <3>10
  <2>6. CASE p.type \in HasPayload /\ p.ack # "none"
    <3>1. Submit(Reply(p)) /\ UNCHANGED <<acks, fired>>
      BY <2>1, <2>6 DEF HearPacket, HasPayload, Reply
    <3>2. p.id # 0
      BY <1>3, <2>6 DEF Good, Sound
    <3>3. PICK r : r = Reply(p) /\ r \in Spoken /\ AsRead(r) = r /\ r.type = "ack" /\ r.ackId = p.id
      <4>1. (IF p.ack = "data" THEN p.args ELSE << >>) \in {<< >>, p.args}
        OBVIOUS
      <4> QED BY <1>3, <3>2, <4>1, Acking DEF Reply
    <3>4. ASSUME NEW s \in Range(sent), AsRead(s) = AsRead(r) PROVE FALSE
      <4>1. s \in Good
        BY <1>1, RangeOf DEF Types0, LogTypes, Spoken
      <4>2. s = r
        BY <3>3, <3>4, <4>1, Reading DEF Multiline
      <4>3. PICK q \in Range(heard) : q.id # 0 /\ s = Reply(q)
        BY <1>1, <3>3, <4>2 DEF UpAcks
      <4>4. q \in Good /\ q \in Range(emitted)
        BY <1>1, HeardEmitted, RangeOf DEF Types0, LogTypes, Spoken
      <4>5. s.ackId = q.id
        <5>1. (IF q.ack = "data" THEN q.args ELSE << >>) \in {<< >>, q.args}
          OBVIOUS
        <5> QED BY <4>3, <4>4, <5>1, Acking DEF Reply
      <4>6. q = p
        BY <1>1, <2>3, <3>2, <3>3, <4>2, <4>4, <4>5 DEF DownApart
      <4> QED BY <2>3, <4>3, <4>6
    <3>5. Replies(p)
      BY <3>1, <3>2, <3>3, <3>4 DEF Replies
    <3> QED BY <1>1, <1>2, <1>5, <2>4, <3>5
  <2>7. CASE p.type # "ack" /\ ~(p.type \in HasPayload /\ p.ack # "none")
    <3>1. UNCHANGED <<acks, fired, doBuffer, buffer, netVars, sent>>
      BY <2>1, <2>7 DEF HearPacket
    <3> QED BY <1>1, <1>2, <1>5, <2>4, <3>1
  <2> QED BY <2>5, <2>6, <2>7
<1> QED BY <1>4, <1>5

\* The receiver loop decodes a packet of the client, for the first time.
Decodes(g) ==
  /\ g \in Spoken /\ Head(server_queue) = Encode(g) /\ got' = Append(got, g)
  /\ g \notin Range(got) /\ UNCHANGED receiving

\* It runs the callback that waits for it, if any does.
RunsReply(g) ==
  /\ g.type = "ack" /\ UNCHANGED <<client_queue, emitted>>
  /\ \/ UNCHANGED <<ack_callbacks, called>>
     \/ \E a \in ack_callbacks :
          /\ ack_callbacks' = ack_callbacks \ {a}
          /\ g.args = IF a.ack = "data" THEN a.args ELSE << >>
          /\ called' = Append(called, [asked |-> a, ack |-> g])

\* It answers it.
Answers(g) ==
  /\ UNCHANGED <<ack_callbacks, called>>
  /\ \E q : /\ Emits(q)
            /\ \/ q = g /\ g.type = "connect"
               \/ q = Answer(g) /\ g.id # 0 /\ q.type = "ack"

\* What the receiver loop reads is what the client sent.
LEMMA ReceiveTexts ==
  ASSUME IInv, Receive
  PROVE  LET x == Head(server_queue) IN
         /\ x \in Coded /\ server_queue # << >> /\ receiving
         /\ \/ x = Beating
            \/ \E s \in Range(sent) :
                 /\ s \in Spoken /\ AsRead(s) \in Spoken /\ x = Encode(AsRead(s))
                 /\ AsRead(s) \notin Range(got)
<1>1. /\ Types0 /\ Carried /\ Spread /\ server_queue # << >> /\ receiving
  BY DEF IInv, Receive
<1>2. PICK x : x = Head(server_queue)
  OBVIOUS
<1>3. x \in Coded /\ 1 \in DOMAIN server_queue /\ x = server_queue[1]
  BY <1>1, <1>2, HeadTail DEF Types0, ServerTypes
<1>4. At(1, 1, x)
  BY <1>3 DEF At
<1>5. CASE x # Beating
  <2>1. PICK s \in Range(sent) : x = Encode(AsRead(s))
    BY <1>1, <1>4, <1>5 DEF Carried
  <2>2. s \in Good /\ s \in Spoken
    BY <1>1, RangeOf DEF Types0, LogTypes, Spoken
  <2>3. AsRead(s) \in Spoken
    BY <2>2, Plain
  <2>4. ASSUME AsRead(s) \in Range(got) PROVE FALSE
    <3>1. PICK k \in DOMAIN got : AsRead(s) = got[k]
      BY <2>4 DEF Range
    <3>2. At(0, k, x)
      BY <2>1, <3>1 DEF At
    <3>3. 0 = 1
      BY <1>1, <1>4, <1>5, <3>2 DEF Spread
    <3> QED BY <3>3
  <2> QED BY <1>1, <1>2, <1>3, <2>1, <2>2, <2>3, <2>4
<1> QED BY <1>1, <1>2, <1>3, <1>5

LEMMA ReceiveSteps ==
  ASSUME IInv, Receive
  PROVE  /\ receiving /\ server_queue # << >> /\ server_queue' = Tail(server_queue)
         /\ UNCHANGED <<scriptVars, clientVars, netVars, beats, ack_counter, sent, heard, fired>>
         /\ \/ /\ Head(server_queue) = Beating
               /\ UNCHANGED <<got, receiving, client_queue, emitted, ack_callbacks, called>>
            \/ /\ \E s \in Range(sent) : s \in Spoken /\ Plus(s) /\ Head(server_queue) = Encode(s)
               /\ receiving' = FALSE
               /\ UNCHANGED <<got, client_queue, emitted, ack_callbacks, called>>
            \/ \E g : /\ Decodes(g)
                      /\ \/ RunsReply(g)
                         \/ Answers(g)
                         \/ UNCHANGED <<client_queue, emitted, ack_callbacks, called>>
<1>1. /\ Types0 /\ Carried /\ DownLine /\ DownRest /\ DownApart /\ DownAcks /\ UpAcks /\ UpApart
      /\ receiving /\ server_queue # << >> /\ server_queue' = Tail(server_queue)
      /\ UNCHANGED <<scriptVars, clientVars, netVars, beats, ack_counter, sent, heard, fired>>
  BY DEF IInv, Receive
<1>2. PICK x, p : x = Head(server_queue) /\ p = Decode(x)
  OBVIOUS
<1>3. (CASE p = Invalid /\ Encodable(InvalidPacket) ->
             SendPacket(InvalidPacket) /\ UNCHANGED <<got, receiving, ack_callbacks, called>>
        [] (p = Invalid /\ ~Encodable(InvalidPacket)) \/ p.name = NoText ->
             /\ receiving' = FALSE
             /\ UNCHANGED <<got, client_queue, emitted, ack_callbacks, called>>
        [] p.type = "heartbeat" ->
             UNCHANGED <<got, receiving, client_queue, emitted, ack_callbacks, called>>
        [] OTHER -> got' = Append(got, p) /\ Process(p) /\ UNCHANGED receiving)
  BY <1>2 DEF Receive
<1>4. CASE x = Beating
  <2>1. p = Heartbeat /\ p \in Good /\ p.type = "heartbeat"
    BY <1>2, <1>4, Beats
  <2>2. ~Plus(p) /\ p = Decode(Encode(AsRead(p)))
    BY <1>2, <1>4, <2>1, Beats DEF Plus, Beating
  <2>3. p # Invalid /\ p.name # NoText /\ ~Encodable(InvalidPacket)
    BY <2>1, <2>2, Decoded
  <2>4. UNCHANGED <<got, receiving, client_queue, emitted, ack_callbacks, called>>
    BY <1>3, <2>1, <2>3
  <2> QED BY <1>1, <1>2, <1>4, <2>4
<1>5. CASE x # Beating
  <2>1. PICK s \in Range(sent) :
          /\ s \in Spoken /\ AsRead(s) \in Spoken /\ x = Encode(AsRead(s)) /\ AsRead(s) \notin Range(got)
    BY <1>2, <1>5, ReceiveTexts
  <2>2. s \in Good /\ p = Decode(Encode(AsRead(s)))
    BY <1>2, <2>1 DEF Spoken
  <2>3. ~Encodable(InvalidPacket)
    BY <2>2, Decoded
  <2>4. CASE Plus(s)
    <3>1. p = Invalid
      BY <2>2, <2>4, Decoded
    <3>2. receiving' = FALSE /\ UNCHANGED <<got, client_queue, emitted, ack_callbacks, called>>
      <4>1. p.type # "heartbeat"
        BY <3>1 DEF Invalid, Blank
      <4> QED BY <1>3, <2>3, <3>1, <4>1
    <3>3. s.type = "ack"
      BY <2>4 DEF Plus
    <3>4. x = Encode(s)
      BY <2>1, <2>2, <3>3, Reading DEF Multiline
    <3> QED BY <1>1, <1>2, <2>1, <2>4, <3>2, <3>4
  <2>5. CASE ~Plus(s)
    <3>1. p = AsRead(s) /\ p # Invalid /\ p.name # NoText
      BY <2>2, <2>5, Decoded
    <3>2. p \in Spoken /\ p \in Good /\ p.type # "heartbeat" /\ p \notin Range(got)
      BY <2>1, <3>1 DEF Spoken
    <3>3. got' = Append(got, p) /\ Process(p) /\ UNCHANGED receiving
      BY <1>3, <3>1, <3>2
    <3>4. Decodes(p)
      BY <1>2, <2>1, <3>1, <3>2, <3>3 DEF Decodes
    <3>5. /\ s.id = p.id /\ s.endpoint = p.endpoint /\ s.type = p.type /\ s.args = p.args
      BY <2>2, <3>1, Reading
    <3>6. down \in Seq(PacketType) /\ down' = down /\ \A i \in DOMAIN down : down[i].type \in HasPayload
      BY <1>1 DEF DownRest, scriptVars
    <3>7. CASE p.type = "connect"
      <4>1. SendPacket(p) /\ UNCHANGED <<ack_callbacks, called>>
        BY <3>3, <3>7 DEF Process, HasPayload
      <4>2. p \notin Range(emitted)
        BY <1>1, <3>2, <3>7 DEF DownAcks
      <4>3. p.id = 0
        BY <3>2, <3>7 DEF Good, Sound, HasPayload
      <4>4. \A i \in DOMAIN down' : down'[i] # p
        BY <3>6, <3>7 DEF HasPayload
      <4>5. Emits(p)
        BY <1>1, <3>2, <3>6, <4>1, <4>2, <4>3, <4>4 DEF Emits
      <4>6. Answers(p)
        BY <3>7, <4>1, <4>5 DEF Answers
      <4> QED BY <1>1, <3>4, <4>6
    <3>8. CASE p.type = "ack"
      <4> DEFINE W == {a \in ack_callbacks : a.id = p.ackId}
      <4>1. /\ ack_callbacks' = ack_callbacks \ W /\ called' = called \o Runs(W, p)
            /\ UNCHANGED <<client_queue, emitted>>
        BY <3>3, <3>8 DEF Process, HasPayload
      <4>2. s = p /\ s.type = "ack"
        BY <2>2, <3>1, <3>5, <3>8, Reading DEF Multiline
      <4>3. PICK q \in Range(heard) : q.id # 0 /\ s = Reply(q)
        BY <1>1, <4>2 DEF UpAcks
      <4>4. q \in Good /\ q \in Range(emitted)
        BY <1>1, HeardEmitted, RangeOf DEF Types0, LogTypes, Spoken
      <4>5. p.ackId = q.id /\ p.args = IF q.ack = "data" THEN q.args ELSE << >>
        <5>1. (IF q.ack = "data" THEN q.args ELSE << >>) \in {<< >>, q.args}
          OBVIOUS
        <5> QED BY <4>2, <4>3, <4>4, <5>1, Acking DEF Reply
      <4>6. \A a \in ack_callbacks : a \in Range(emitted) /\ a \in Spoken
        BY <1>1, RangeOf DEF Types0, LogTypes, Callbacks
      <4>7. \A a \in W : a = q /\ a \in ack_callbacks /\ a \in Spoken
        BY <1>1, <4>3, <4>4, <4>5, <4>6 DEF DownApart
      <4>8. called \in Seq(CallType)
        BY DEF IInv, Called
      <4>9. PICK V : V = W /\ V \subseteq Spoken /\ V \subseteq ack_callbacks /\ \A a \in V : a = q
        BY <4>7
      <4>10. ack_callbacks' = ack_callbacks \ V /\ called' = called \o Runs(V, p)
        BY <4>1, <4>9
      <4> HIDE DEF W
      <4>11. \/ V = {} /\ Runs(V, p) = << >>
             \/ \E a \in V : /\ V = {a} /\ Runs(V, p) = <<[asked |-> a, ack |-> p]>>
                             /\ [asked |-> a, ack |-> p] \in CallType
        <5>1. V \in SUBSET Spoken /\ p \in Spoken
          BY <3>2, <4>9
        <5>2. \A a, b \in V : a = b
          BY <4>9
        <5> QED BY <5>1, <5>2, RunsOne
      <4>12. RunsReply(p)
        <5>1. CASE V = {} /\ Runs(V, p) = << >>
          <6>1. ack_callbacks' = ack_callbacks /\ called' = called \o << >> /\ called \o << >> = called
            BY <4>8, <4>10, <5>1
          <6> QED BY <3>8, <4>1, <6>1 DEF RunsReply
        <5>2. CASE \E a \in V : /\ V = {a} /\ Runs(V, p) = <<[asked |-> a, ack |-> p]>>
                                /\ [asked |-> a, ack |-> p] \in CallType
          <6>1. PICK a \in V : /\ V = {a} /\ Runs(V, p) = <<[asked |-> a, ack |-> p]>>
                               /\ [asked |-> a, ack |-> p] \in CallType
            BY <5>2
          <6>2. PICK r \in CallType : r = [asked |-> a, ack |-> p]
            BY <6>1
          <6>3. called' = Append(called, r)
            <7>1. called \o <<r>> = Append(called, r)
              BY <4>8, <6>2
            <7> QED BY <4>10, <6>1, <6>2, <7>1
          <6>4. ack_callbacks' = ack_callbacks \ {a} /\ a \in ack_callbacks
            BY <4>9, <4>10, <6>1
          <6>5. p.args = IF a.ack = "data" THEN a.args ELSE << >>
            BY <4>5, <4>9
          <6> QED BY <3>8, <4>1, <6>2, <6>3, <6>4, <6>5 DEF RunsReply
        <5> QED BY <4>11, <5>1, <5>2
      <4> QED BY <1>1, <3>4, <4>12
    <3>9. CASE p.type \in HasPayload /\ p.ack = "data"
      <4>1. PICK q : q = Answer(p)
        OBVIOUS
      <4>2. p.id # 0
        BY <3>2, <3>9 DEF Good, Sound
      <4>3. SendPacket(q) /\ UNCHANGED <<ack_callbacks, called>>
        BY <3>3, <3>9, <4>1 DEF Process, HasPayload, Answer
      <4>4. /\ q \in Spoken /\ q.type = "ack" /\ q.id = 0 /\ q.ackId = p.id /\ q.endpoint = p.endpoint
        <5>1. p.args \in {<< >>, p.args}
          OBVIOUS
        <5> QED BY <3>2, <4>1, <4>2, <5>1, Acking DEF Answer
      <4>5. ASSUME q \in Range(emitted) PROVE FALSE
        <5>1. PICK g \in Range(got) : g.id # 0 /\ q = Answer(g)
          BY <1>1, <4>4, <4>5 DEF DownAcks
        <5>2. PICK r \in Range(sent) : r \in Spoken /\ g = AsRead(r) /\ g \in Spoken
          BY <1>1, GotSent
        <5>3. q.ackId = g.id /\ q.endpoint = g.endpoint /\ g.id = r.id /\ g.endpoint = r.endpoint
          <6>1. g.args \in {<< >>, g.args} /\ g \in Good /\ r \in Good
            BY <5>2 DEF Spoken
          <6> QED BY <5>1, <5>2, <6>1, Acking, Reading DEF Answer
        <5>4. r = s
          BY <1>1, <3>5, <4>2, <4>4, <5>3 DEF UpApart
        <5> QED BY <3>1, <3>2, <5>1, <5>2, <5>4
      <4>6. \A i \in DOMAIN down' : down'[i] # q
        BY <3>6, <4>4 DEF HasPayload
      <4>7. Emits(q)
        BY <1>1, <3>6, <4>3, <4>4, <4>5, <4>6 DEF Emits
      <4>8. Answers(p)
        BY <4>1, <4>2, <4>3, <4>4, <4>7 DEF Answers
      <4> QED BY <1>1, <3>4, <4>8
    <3>10. CASE p.type \notin {"connect", "ack"} /\ ~(p.type \in HasPayload /\ p.ack = "data")
      <4>1. UNCHANGED <<client_queue, emitted, ack_callbacks, called>>
        BY <3>3, <3>10 DEF Process
      <4> QED BY <1>1, <3>4, <4>1
    <3> QED BY <3>7, <3>8, <3>9, <3>10
  <2> QED BY <2>4, <2>5
<1> QED BY <1>4, <1>5

-----------------------------------------------------------------------------
(* Every step keeps what is said of the packets that were sent. *)

LEMMA Steps ==
  [Next]_vars => \/ ClientSend \/ Hear \/ ServerEmit \/ Receive \/ ConnectionLost \/ Poll \/ Beat
                 \/ (\E i \in DOMAIN posts : ServePost(i))
                 \/ (\E i \in DOMAIN posts : PostDone(i))
                 \/ UNCHANGED vars
BY DEF Next

\* Only the client's application and its handler change what the client knows.
LEMMA ClientFrame ==
  ASSUME [Next]_vars, ~ClientSend, ~Hear
  PROVE  up' = up /\ sent' = sent /\ ackPackets' = ackPackets /\ acks' = acks
         /\ heard' = heard /\ fired' = fired
<1>1. CASE ServerEmit
  BY <1>1 DEF ServerEmit, clientVars, upLog
<1>2. CASE Receive
  BY <1>2 DEF Receive, clientVars, scriptVars
<1>3. CASE ConnectionLost
  BY <1>3 DEF ConnectionLost, upLog, downLog, scriptVars
<1>4. CASE Poll
  BY <1>4 DEF Poll, upLog, downLog, scriptVars
<1>5. CASE Beat
  BY <1>5 DEF Beat, clientVars, upLog, downLog, scriptVars
<1>6. CASE \E i \in DOMAIN posts : ServePost(i)
  BY <1>6 DEF ServePost, clientVars, upLog, downLog, scriptVars
<1>7. CASE \E i \in DOMAIN posts : PostDone(i)
  BY <1>7 DEF PostDone, upLog, downLog, scriptVars
<1>8. CASE UNCHANGED vars
  BY <1>8 DEF vars, clientVars, upLog, downLog, scriptVars
<1> QED BY <1>1, <1>2, <1>3, <1>4, <1>5, <1>6, <1>7, <1>8, Steps

\* Only the server's application and its receiver loop change what the server knows.
LEMMA ServerFrame ==
  ASSUME [Next]_vars, ~ServerEmit, ~Receive
  PROVE  down' = down /\ emitted' = emitted /\ ack_counter' = ack_counter
         /\ ack_callbacks' = ack_callbacks /\ got' = got /\ called' = called
         /\ receiving' = receiving
<1>1. CASE ClientSend
  BY <1>1 DEF ClientSend, serverVars, downLog
<1>2. CASE Hear
  BY <1>2 DEF Hear, serverVars, scriptVars
<1>3. CASE ConnectionLost
  BY <1>3 DEF ConnectionLost, upLog, downLog, scriptVars
<1>4. CASE Poll
  BY <1>4 DEF Poll, upLog, downLog, scriptVars
<1>5. CASE Beat
  BY <1>5 DEF Beat, upLog, downLog, scriptVars
<1>6. CASE \E i \in DOMAIN posts : ServePost(i)
  BY <1>6 DEF ServePost, upLog, downLog, scriptVars
<1>7. CASE \E i \in DOMAIN posts : PostDone(i)
  BY <1>7 DEF PostDone, upLog, downLog, scriptVars, serverVars
<1>8. CASE UNCHANGED vars
  BY <1>8 DEF vars, serverVars, upLog, downLog, scriptVars
<1> QED BY <1>1, <1>2, <1>3, <1>4, <1>5, <1>6, <1>7, <1>8, Steps

LEMMA SentApart ==
  ASSUME Types0, UpApart, NEW p \in Spoken, sent' = Append(sent, p),
         \A s \in Range(sent) : AsRead(s) # AsRead(p),
         \/ p.id = 0 /\ ackPackets' = ackPackets
         \/ /\ p.id # 0 /\ p.endpoint \in Endpoints /\ p.id = ackPackets[p.endpoint] + 1
            /\ ackPackets' = [ackPackets EXCEPT ![p.endpoint] = @ + 1]
  PROVE  UpApart'
<1>1. Range(sent') = Range(sent) \union {p}
  BY AppendRange DEF Types0, LogTypes
<1>2. ackPackets \in [Endpoints -> Nat]
  BY DEF Types0, ClientTypes
<1>3. \A s \in Range(sent) : s.id \in Nat
  BY RangeOf, Plain DEF Types0, LogTypes, Spoken
<1>4. p.id \in Nat
  BY Plain DEF Spoken
<1>5. \A s, t \in Range(sent') : AsRead(s) = AsRead(t) => s = t
  BY <1>1 DEF UpApart
<1>6. CASE p.id = 0 /\ ackPackets' = ackPackets
  BY <1>1, <1>5, <1>6 DEF UpApart
<1>7. CASE /\ p.id # 0 /\ p.endpoint \in Endpoints /\ p.id = ackPackets[p.endpoint] + 1
           /\ ackPackets' = [ackPackets EXCEPT ![p.endpoint] = @ + 1]
  <2>1. \A e \in Endpoints : /\ ackPackets[e] \in Nat
                             /\ ackPackets'[e] = IF e = p.endpoint THEN ackPackets[e] + 1 ELSE ackPackets[e]
    BY <1>2, <1>7
  <2>2. \A s \in Range(sent') : s.id # 0 => s.endpoint \in Endpoints /\ s.id <= ackPackets'[s.endpoint]
    <3> SUFFICES ASSUME NEW s \in Range(sent'), s.id # 0
                 PROVE  s.endpoint \in Endpoints /\ s.id <= ackPackets'[s.endpoint]
      OBVIOUS
    <3>1. CASE s \in Range(sent)
      <4>1. s.endpoint \in Endpoints /\ s.id <= ackPackets[s.endpoint] /\ s.id \in Nat
        BY <1>3, <3>1 DEF UpApart
      <4> QED BY <2>1, <4>1
    <3>2. CASE s = p
      BY <1>4, <1>7, <2>1, <3>2
    <3> QED BY <1>1, <3>1, <3>2
  <2>3. \A s \in Range(sent) : s.id # 0 /\ s.endpoint = p.endpoint => s.id # p.id
    <3> SUFFICES ASSUME NEW s \in Range(sent), s.id # 0, s.endpoint = p.endpoint, s.id = p.id PROVE FALSE
      OBVIOUS
    <3>1. s.id <= ackPackets[p.endpoint] /\ ackPackets[p.endpoint] \in Nat
      BY <1>7, <2>1 DEF UpApart
    <3> QED BY <1>7, <3>1
  <2>4. \A s, t \in Range(sent') : s.id # 0 /\ s.id = t.id /\ s.endpoint = t.endpoint => s = t
    BY <1>1, <2>3 DEF UpApart
  <2> QED BY <1>5, <2>2, <2>4 DEF UpApart
<1> QED BY <1>6, <1>7

LEMMA UpRestNext == IInv /\ [Next]_vars => UpRest'
<1> SUFFICES ASSUME IInv, [Next]_vars PROVE UpRest'
  OBVIOUS
<1>1. Types0 /\ UpRest
  BY DEF IInv
<1>2. CASE ClientSend
  <2>1. PICK p : Speaks(p)
    BY <1>2, ClientSpeaks
  <2>2. Range(sent') = Range(sent) \union {p}
    <3>1. sent \in Seq(Spoken) /\ p \in Spoken /\ sent' = Append(sent, p)
      BY <1>1, <2>1 DEF Types0, LogTypes, Speaks, Submit
    <3> QED BY <3>1, AppendRange
  <2>3. /\ up' \in Seq(PacketType) /\ UpRest
        /\ \A i \in DOMAIN up' : /\ i + 1 \in DOMAIN up /\ up'[i] = up[i + 1]
                                 /\ AsRead(up'[i]) # AsRead(p)
    BY <2>1 DEF Speaks
  <2>4. \A i \in DOMAIN up' : /\ Unsent(up'[i]) /\ up'[i].type \in HasPayload \union {"connect"}
                              /\ up'[i].endpoint \in Endpoints
    BY <2>3 DEF UpRest
  <2>5. \A i, j \in DOMAIN up' : AsRead(up'[i]) = AsRead(up'[j]) => i = j
    <3> SUFFICES ASSUME NEW i \in DOMAIN up', NEW j \in DOMAIN up', AsRead(up'[i]) = AsRead(up'[j])
                 PROVE  i = j
      OBVIOUS
    <3>1. i + 1 = j + 1
      BY <2>3 DEF UpRest
    <3>2. i \in Nat /\ j \in Nat
      BY <2>3
    <3> QED BY <3>1, <3>2
  <2>6. \A i \in DOMAIN up', s \in Range(sent') : AsRead(s) # AsRead(up'[i])
    BY <2>2, <2>3 DEF UpRest
  <2> QED BY <2>3, <2>4, <2>5, <2>6 DEF UpRest
<1>3. CASE Hear
  <2>1. up' = up
    BY <1>3, HearSteps DEF scriptVars
  <2>2. CASE sent' = sent
    BY <1>1, <2>1, <2>2 DEF UpRest
  <2>3. CASE \E p : Replies(p)
    <3>1. PICK p : Replies(p)
      BY <2>3
    <3>2. PICK r \in Spoken : r = Reply(p) /\ sent' = Append(sent, r) /\ r.type = "ack"
      BY <3>1 DEF Replies, Submit, Reply, Ack, Blank
    <3>3. Range(sent') = Range(sent) \union {r}
      BY <1>1, <3>2, AppendRange DEF Types0, LogTypes
    <3>4. AsRead(r).type = "ack"
      BY <3>2, Reading DEF Spoken
    <3>5. \A i \in DOMAIN up : AsRead(up[i]).type \in HasPayload \union {"connect"}
      <4>1. \A i \in DOMAIN up : up[i] \in PacketType /\ up[i].type \in HasPayload \union {"connect"}
        BY <1>1 DEF UpRest
      <4> QED BY <4>1 DEF AsRead, FirstLine, PacketType
    <3>6. \A i \in DOMAIN up, s \in Range(sent') : AsRead(s) # AsRead(up[i])
      BY <1>1, <3>3, <3>4, <3>5 DEF UpRest, HasPayload
    <3> QED BY <1>1, <2>1, <3>6 DEF UpRest
  <2> QED BY <1>3, <2>2, <2>3, HearSteps DEF RunsCallback
<1>4. CASE ~ClientSend /\ ~Hear
  BY <1>1, <1>4, ClientFrame DEF UpRest
<1> QED BY <1>2, <1>3, <1>4

LEMMA UpApartNext == IInv /\ [Next]_vars => UpApart'
<1> SUFFICES ASSUME IInv, [Next]_vars PROVE UpApart'
  OBVIOUS
<1>1. Types0 /\ UpApart
  BY DEF IInv
<1>2. CASE ClientSend
  <2>1. PICK p : Speaks(p)
    BY <1>2, ClientSpeaks
  <2>2. /\ p \in Spoken /\ sent' = Append(sent, p) /\ \A s \in Range(sent) : AsRead(s) # AsRead(p)
        /\ \/ p.id = 0 /\ ackPackets' = ackPackets
           \/ /\ p.id # 0 /\ p.endpoint \in Endpoints /\ p.id = ackPackets[p.endpoint] + 1
              /\ ackPackets' = [ackPackets EXCEPT ![p.endpoint] = @ + 1]
    BY <2>1 DEF Speaks, Submit
  <2> QED BY <1>1, <2>2, SentApart
<1>3. CASE Hear
  <2>1. ackPackets' = ackPackets
    BY <1>3, HearSteps
  <2>2. CASE sent' = sent
    BY <1>1, <2>1, <2>2 DEF UpApart
  <2>3. CASE \E p : Replies(p)
    <3>1. PICK p : Replies(p)
      BY <2>3
    <3>2. PICK r \in Spoken : r = Reply(p) /\ sent' = Append(sent, r) /\ r.id = 0
      BY <3>1 DEF Replies, Submit, Reply, Ack, Blank
    <3>3. \A s \in Range(sent) : AsRead(s) # AsRead(r)
      BY <3>1, <3>2 DEF Replies
    <3> QED BY <1>1, <2>1, <3>2, <3>3, SentApart
  <2> QED BY <1>3, <2>2, <2>3, HearSteps DEF RunsCallback
<1>4. CASE ~ClientSend /\ ~Hear
  BY <1>1, <1>4, ClientFrame DEF UpApart
<1> QED BY <1>2, <1>3, <1>4

LEMMA DownRestNext == IInv /\ [Next]_vars => DownRest' /\ DownApart'
<1> SUFFICES ASSUME IInv, [Next]_vars PROVE DownRest' /\ DownApart'
  OBVIOUS
<1>1. Types0 /\ DownRest /\ DownApart
  BY DEF IInv
<1>2. ASSUME NEW p, Emits(p) PROVE DownRest' /\ DownApart'
  <2>1. /\ p \in Spoken /\ emitted' = Append(emitted, p) /\ p \notin Range(emitted)
        /\ down' \in Seq(PacketType)
        /\ \A i \in DOMAIN down' : down'[i] # p
        /\ \/ down' = down
           \/ \A i \in DOMAIN down' : i + 1 \in DOMAIN down /\ down'[i] = down[i + 1]
    BY <1>2 DEF Emits, SendPacket
  <2>2. /\ Range(emitted') = Range(emitted) \union {p} /\ DOMAIN emitted' = 1 .. Len(emitted) + 1
        /\ emitted'[Len(emitted) + 1] = p /\ \A i \in 1 .. Len(emitted) : emitted'[i] = emitted[i]
        /\ DOMAIN emitted = 1 .. Len(emitted) /\ Len(emitted) \in Nat
    BY <1>1, <2>1, AppendRange DEF Types0, LogTypes
  <2>3. DownRest'
    <3>1. CASE down' = down
      BY <1>1, <2>1, <2>2, <3>1 DEF DownRest
    <3>2. CASE \A i \in DOMAIN down' : i + 1 \in DOMAIN down /\ down'[i] = down[i + 1]
      <4>1. \A i \in DOMAIN down' : /\ Unsent(down'[i]) /\ down'[i].type \in HasPayload
                                    /\ down'[i] \notin Range(emitted')
        BY <1>1, <2>1, <2>2, <3>2 DEF DownRest
      <4>2. Once(down')
        <5> SUFFICES ASSUME NEW i \in DOMAIN down', NEW j \in DOMAIN down', down'[i] = down'[j]
                     PROVE  i = j
          BY DEF Once
        <5>1. i + 1 = j + 1
          BY <1>1, <3>2 DEF DownRest, Once
        <5>2. i \in Nat /\ j \in Nat
          BY <2>1
        <5> QED BY <5>1, <5>2
      <4> QED BY <2>1, <4>1, <4>2 DEF DownRest
    <3> QED BY <2>1, <3>1, <3>2
  <2>4. Once(emitted')
    <3> SUFFICES ASSUME NEW i \in DOMAIN emitted', NEW j \in DOMAIN emitted', emitted'[i] = emitted'[j]
                 PROVE  i = j
      BY DEF Once
    <3>1. (i \in 1 .. Len(emitted) \/ i = Len(emitted) + 1) /\ (j \in 1 .. Len(emitted) \/ j = Len(emitted) + 1)
      BY <2>2
    <3>2. \A k \in 1 .. Len(emitted) : emitted[k] \in Range(emitted)
      BY <2>2 DEF Range
    <3>3. CASE i \in 1 .. Len(emitted) /\ j \in 1 .. Len(emitted)
      BY <1>1, <2>2, <3>3 DEF DownApart, Once
    <3> QED BY <2>1, <2>2, <3>1, <3>2, <3>3
  <2>5. CASE p.id = 0 /\ ack_counter' = ack_counter
    <3>1. ack_counter \in Nat
      BY <1>1 DEF Types0, ServerTypes
    <3> QED BY <1>1, <2>2, <2>3, <2>4, <2>5, <3>1 DEF DownApart
  <2>6. CASE p.id # 0 /\ p.id = ack_counter + 1 /\ ack_counter' = p.id
    <3>1. ack_counter \in Nat
      BY <1>1 DEF Types0, ServerTypes
    <3>2. \A s \in Range(emitted) : s.id \in Nat
      BY <1>1, RangeOf, Plain DEF Types0, LogTypes, Spoken
    <3>3. \A s \in Range(emitted') : s.id <= ack_counter'
      BY <1>1, <2>2, <2>6, <3>1, <3>2 DEF DownApart
    <3>4. \A s \in Range(emitted) : s.id # p.id
      BY <1>1, <2>6, <3>1, <3>2 DEF DownApart
    <3>5. \A s, t \in Range(emitted') : s.id # 0 /\ s.id = t.id => s = t
      BY <1>1, <2>2, <3>4 DEF DownApart
    <3> QED BY <2>3, <2>4, <3>3, <3>5 DEF DownApart
  <2> QED BY <1>2, <2>5, <2>6 DEF Emits
<1>3. CASE ServerEmit
  BY <1>2, <1>3, ServerSpeaks
<1>4. CASE Receive
  <2>1. CASE \E g : Answers(g)
    BY <1>2, <2>1 DEF Answers
  <2>2. down' = down /\ ack_counter' = ack_counter
    BY <1>4, ReceiveSteps DEF scriptVars
  <2>3. CASE emitted' = emitted
    BY <1>1, <2>2, <2>3 DEF DownRest, DownApart
  <2> QED BY <1>4, <2>1, <2>3, ReceiveSteps DEF RunsReply
<1>5. CASE ~ServerEmit /\ ~Receive
  BY <1>1, <1>5, ServerFrame DEF DownRest, DownApart
<1> QED BY <1>3, <1>4, <1>5

LEMMA UpAcksNext == IInv /\ [Next]_vars => UpAcks'
<1> SUFFICES ASSUME IInv, [Next]_vars PROVE UpAcks'
  OBVIOUS
<1>1. Types0 /\ UpAcks
  BY DEF IInv
<1>2. CASE ClientSend
  <2>1. PICK p : Speaks(p)
    BY <1>2, ClientSpeaks
  <2>2. p \in Spoken /\ p.type # "ack" /\ sent' = Append(sent, p) /\ heard' = heard
    BY <1>2, <2>1 DEF Speaks, Submit, ClientSend, downLog
  <2>3. Range(sent') = Range(sent) \union {p}
    BY <1>1, <2>2, AppendRange DEF Types0, LogTypes
  <2> QED BY <1>1, <2>2, <2>3 DEF UpAcks
<1>3. CASE Hear
  <2>1. CASE sent' = sent /\ heard' = heard
    BY <1>1, <2>1 DEF UpAcks
  <2>2. CASE \E p : /\ Handles(p)
                    /\ (RunsCallback(p) \/ Replies(p)
                        \/ UNCHANGED <<acks, fired, doBuffer, buffer, netVars, sent>>)
    <3>1. PICK p : /\ Handles(p)
                   /\ (RunsCallback(p) \/ Replies(p)
                       \/ UNCHANGED <<acks, fired, doBuffer, buffer, netVars, sent>>)
      BY <2>2
    <3>2. Range(heard') = Range(heard) \union {p}
      <4>1. p \in Spoken /\ heard' = Append(heard, p)
        BY <3>1 DEF Handles
      <4> QED BY <1>1, <4>1, AppendRange DEF Types0, LogTypes
    <3>3. CASE sent' = sent
      BY <1>1, <3>2, <3>3 DEF UpAcks
    <3>4. CASE Replies(p)
      <4>1. Reply(p) \in Spoken /\ sent' = Append(sent, Reply(p)) /\ p.id # 0
        BY <3>4 DEF Replies, Submit
      <4>2. Range(sent') = Range(sent) \union {Reply(p)}
        BY <1>1, <4>1, AppendRange DEF Types0, LogTypes
      <4> QED BY <1>1, <3>2, <4>1, <4>2 DEF UpAcks
    <3> QED BY <3>1, <3>3, <3>4 DEF RunsCallback
  <2> QED BY <1>3, <2>1, <2>2, HearSteps
<1>4. CASE ~ClientSend /\ ~Hear
  BY <1>1, <1>4, ClientFrame DEF UpAcks
<1> QED BY <1>2, <1>3, <1>4

LEMMA DownAcksNext == IInv /\ [Next]_vars => DownAcks'
<1> SUFFICES ASSUME IInv, [Next]_vars PROVE DownAcks'
  OBVIOUS
<1>1. Types0 /\ DownAcks
  BY DEF IInv
<1>2. CASE ServerEmit
  <2>1. PICK p : Emits(p) /\ p.type \in HasPayload
    BY <1>2, ServerSpeaks
  <2>2. p \in Spoken /\ emitted' = Append(emitted, p) /\ got' = got
    BY <1>2, <2>1 DEF Emits, SendPacket, ServerEmit, upLog
  <2>3. Range(emitted') = Range(emitted) \union {p}
    BY <1>1, <2>2, AppendRange DEF Types0, LogTypes
  <2> QED BY <1>1, <2>1, <2>2, <2>3 DEF DownAcks, HasPayload
<1>3. CASE Receive
  <2>1. CASE got' = got /\ emitted' = emitted
    BY <1>1, <2>1 DEF DownAcks
  <2>2. CASE \E g : /\ Decodes(g)
                    /\ (RunsReply(g) \/ Answers(g)
                        \/ UNCHANGED <<client_queue, emitted, ack_callbacks, called>>)
    <3>1. PICK g : /\ Decodes(g)
                   /\ (RunsReply(g) \/ Answers(g)
                       \/ UNCHANGED <<client_queue, emitted, ack_callbacks, called>>)
      BY <2>2
    <3>2. Range(got') = Range(got) \union {g}
      <4>1. g \in Spoken /\ got' = Append(got, g)
        BY <3>1 DEF Decodes
      <4> QED BY <1>1, <4>1, AppendRange DEF Types0, LogTypes
    <3>3. CASE emitted' = emitted
      BY <1>1, <3>2, <3>3 DEF DownAcks
    <3>4. CASE Answers(g)
      <4>1. PICK q : Emits(q) /\ (\/ q = g /\ g.type = "connect"
                                  \/ q = Answer(g) /\ g.id # 0 /\ q.type = "ack")
        BY <3>4 DEF Answers
      <4>2. q \in Spoken /\ emitted' = Append(emitted, q)
        BY <4>1 DEF Emits, SendPacket
      <4>3. Range(emitted') = Range(emitted) \union {q}
        BY <1>1, <4>2, AppendRange DEF Types0, LogTypes
      <4> QED BY <1>1, <3>2, <4>1, <4>3 DEF DownAcks
    <3> QED BY <3>1, <3>3, <3>4 DEF RunsReply
  <2> QED BY <1>3, <2>1, <2>2, ReceiveSteps
<1>4. CASE ~ServerEmit /\ ~Receive
  BY <1>1, <1>4, ServerFrame DEF DownAcks
<1> QED BY <1>2, <1>3, <1>4

\* One more callback runs: that of a packet that waited.
LEMMA OneMore ==
  ASSUME NEW f \in Seq(CallType), NEW S, NEW W, NEW r \in CallType, r.asked \in S, r.asked \in W,
         \A i \in DOMAIN f : f[i].asked \in S \ W,
         \A i, j \in DOMAIN f : f[i].asked = f[j].asked => i = j
  PROVE  /\ Append(f, r) \in Seq(CallType)
         /\ \A i \in DOMAIN Append(f, r) : (i \in DOMAIN f /\ Append(f, r)[i] = f[i]) \/ Append(f, r)[i] = r
         /\ \A i \in DOMAIN Append(f, r) : Append(f, r)[i].asked \in S \ (W \ {r.asked})
         /\ \A i, j \in DOMAIN Append(f, r) : Append(f, r)[i].asked = Append(f, r)[j].asked => i = j
<1>1. PICK h : h = Append(f, r)
  OBVIOUS
<1>2. /\ h \in Seq(CallType) /\ Len(f) \in Nat /\ DOMAIN f = 1 .. Len(f) /\ DOMAIN h = 1 .. Len(f) + 1
      /\ h[Len(f) + 1] = r /\ \A i \in 1 .. Len(f) : h[i] = f[i]
  BY <1>1, AppendRange
<1>3. \A i \in DOMAIN h : (i \in DOMAIN f /\ h[i] = f[i]) \/ (i = Len(f) + 1 /\ h[i] = r)
  BY <1>2
<1>4. \A i \in DOMAIN h : h[i].asked \in S \ (W \ {r.asked})
  BY <1>3
<1>5. \A i, j \in DOMAIN h : h[i].asked = h[j].asked => i = j
  <2> SUFFICES ASSUME NEW i \in DOMAIN h, NEW j \in DOMAIN h, h[i].asked = h[j].asked
               PROVE  i = j
    OBVIOUS
  <2>1. CASE i \in DOMAIN f /\ h[i] = f[i] /\ j \in DOMAIN f /\ h[j] = f[j]
    BY <2>1
  <2>2. CASE i \in DOMAIN f /\ h[i] = f[i] /\ h[j] = r
    BY <2>2
  <2>3. CASE j \in DOMAIN f /\ h[j] = f[j] /\ h[i] = r
    BY <2>3
  <2> QED BY <1>3, <2>1, <2>2, <2>3
<1> QED BY <1>1, <1>2, <1>3, <1>4, <1>5

LEMMA FiredNext ==
  IInv /\ [Next]_vars => Fired' /\ acks' \subseteq Range(sent') /\ \A a \in acks' : a.id # 0
<1> SUFFICES ASSUME IInv, [Next]_vars
             PROVE  Fired' /\ acks' \subseteq Range(sent') /\ \A a \in acks' : a.id # 0
  OBVIOUS
<1>1. /\ Types0 /\ Fired /\ acks \subseteq Range(sent) /\ \A a \in acks : a.id # 0 /\ a \in Range(sent)
      /\ sent \in Seq(Spoken) /\ fired \in Seq(CallType)
  BY DEF IInv, Types0, Callbacks, LogTypes, Fired
<1>2. CASE ClientSend
  <2>1. PICK p : Speaks(p)
    BY <1>2, ClientSpeaks
  <2>2. /\ p \in Spoken /\ sent' = Append(sent, p) /\ fired' = fired
        /\ \A s \in Range(sent) : AsRead(s) # AsRead(p)
        /\ acks' = acks \/ (acks' = acks \union {p} /\ p.id # 0)
    BY <1>2, <2>1 DEF Speaks, Submit, ClientSend, downLog
  <2>3. Range(sent') = Range(sent) \union {p} /\ p \notin Range(sent)
    BY <1>1, <2>2, AppendRange
  <2>4. \A i \in DOMAIN fired : fired[i].asked \in Range(sent') \ acks'
    BY <1>1, <2>2, <2>3 DEF Fired
  <2> QED BY <1>1, <2>2, <2>3, <2>4 DEF Fired
<1>3. CASE Hear
  <2>1. CASE UNCHANGED <<acks, sent, fired>>
    BY <1>1, <2>1 DEF Fired
  <2>2. CASE \E p : Replies(p)
    <3>1. PICK p : Replies(p)
      BY <2>2
    <3>2. PICK r \in Spoken : sent' = Append(sent, r) /\ acks' = acks /\ fired' = fired
      BY <3>1 DEF Replies, Submit
    <3>3. Range(sent') = Range(sent) \union {r}
      BY <1>1, <3>2, AppendRange
    <3> QED BY <1>1, <3>2, <3>3 DEF Fired
  <2>3. CASE \E p : p \in Spoken /\ RunsCallback(p)
    <3>1. PICK p \in Spoken : RunsCallback(p)
      BY <2>3
    <3>2. sent' = sent
      BY <3>1 DEF RunsCallback
    <3>3. CASE acks' = acks /\ fired' = fired
      BY <1>1, <3>2, <3>3 DEF Fired
    <3>4. CASE \E a \in acks : /\ acks' = acks \ {a} /\ a.args = p.args
                               /\ fired' = Append(fired, [asked |-> a, ack |-> p])
      <4>1. PICK a \in acks : /\ acks' = acks \ {a} /\ a.args = p.args
                              /\ fired' = Append(fired, [asked |-> a, ack |-> p])
        BY <3>4
      <4>0. PICK r : r = [asked |-> a, ack |-> p]
        OBVIOUS
      <4>2. r \in CallType /\ r.asked = a /\ r.ack = p /\ a \in Range(sent) /\ a.id # 0
        BY <1>1, <4>0, <4>1, RangeOf DEF CallType
      <4>3. /\ \A i \in DOMAIN fired : fired[i].asked \in Range(sent) \ acks
            /\ \A i, j \in DOMAIN fired : fired[i].asked = fired[j].asked => i = j
        BY <1>1 DEF Fired
      <4>4. PICK S : S = Range(sent)
        OBVIOUS
      <4>5. /\ fired' \in Seq(CallType)
            /\ \A i \in DOMAIN fired' : (i \in DOMAIN fired /\ fired'[i] = fired[i]) \/ fired'[i] = r
            /\ \A i \in DOMAIN fired' : fired'[i].asked \in S \ (acks \ {a})
            /\ \A i, j \in DOMAIN fired' : fired'[i].asked = fired'[j].asked => i = j
        BY <1>1, <4>0, <4>1, <4>2, <4>3, <4>4, OneMore
      <4>6. \A i \in DOMAIN fired' : fired'[i].asked.id # 0 /\ fired'[i].ack.args = fired'[i].asked.args
        BY <1>1, <4>1, <4>2, <4>5 DEF Fired
      <4> QED BY <1>1, <3>2, <4>1, <4>4, <4>5, <4>6 DEF Fired
    <3> QED BY <3>1, <3>3, <3>4 DEF RunsCallback
  <2> QED BY <1>3, <2>1, <2>2, <2>3, HearSteps DEF Handles
<1>4. CASE ~ClientSend /\ ~Hear
  BY <1>1, <1>4, ClientFrame DEF Fired
<1> QED BY <1>2, <1>3, <1>4

LEMMA CalledNext ==
  IInv /\ [Next]_vars =>
    Called' /\ ack_callbacks' \subseteq Range(emitted') /\ \A a \in ack_callbacks' : a.id # 0
<1> SUFFICES ASSUME IInv, [Next]_vars
             PROVE  Called' /\ ack_callbacks' \subseteq Range(emitted') /\ \A a \in ack_callbacks' : a.id # 0
  OBVIOUS
<1>1. /\ Types0 /\ Called /\ ack_callbacks \subseteq Range(emitted)
      /\ \A a \in ack_callbacks : a.id # 0 /\ a \in Range(emitted)
      /\ emitted \in Seq(Spoken) /\ called \in Seq(CallType)
  BY DEF IInv, Types0, Callbacks, LogTypes, Called
<1>2. ASSUME called' = called, NEW p, Emits(p)
      PROVE  Called' /\ ack_callbacks' \subseteq Range(emitted') /\ \A a \in ack_callbacks' : a.id # 0
  <2>1. /\ p \in Spoken /\ emitted' = Append(emitted, p) /\ p \notin Range(emitted)
        /\ ack_callbacks' = ack_callbacks \/ (ack_callbacks' = ack_callbacks \union {p} /\ p.id # 0)
    BY <1>2 DEF Emits, SendPacket
  <2>2. Range(emitted') = Range(emitted) \union {p}
    BY <1>1, <2>1, AppendRange
  <2>3. \A i \in DOMAIN called : called[i].asked \in Range(emitted') \ ack_callbacks'
    BY <1>1, <2>1, <2>2 DEF Called
  <2> QED BY <1>1, <1>2, <2>1, <2>2, <2>3 DEF Called
<1>3. CASE ServerEmit
  <2>1. called' = called
    BY <1>3 DEF ServerEmit, upLog
  <2> QED BY <1>2, <1>3, <2>1, ServerSpeaks
<1>4. CASE Receive
  <2>1. CASE UNCHANGED <<emitted, ack_callbacks, called>>
    BY <1>1, <2>1 DEF Called
  <2>2. CASE \E g : Answers(g)
    BY <1>2, <2>2 DEF Answers
  <2>3. CASE \E g : g \in Spoken /\ RunsReply(g)
    <3>1. PICK g \in Spoken : RunsReply(g)
      BY <2>3
    <3>2. emitted' = emitted
      BY <3>1 DEF RunsReply
    <3>3. CASE ack_callbacks' = ack_callbacks /\ called' = called
      BY <1>1, <3>2, <3>3 DEF Called
    <3>4. CASE \E a \in ack_callbacks :
                 /\ ack_callbacks' = ack_callbacks \ {a}
                 /\ g.args = IF a.ack = "data" THEN a.args ELSE << >>
                 /\ called' = Append(called, [asked |-> a, ack |-> g])
      <4>1. PICK a \in ack_callbacks :
              /\ ack_callbacks' = ack_callbacks \ {a}
              /\ g.args = (IF a.ack = "data" THEN a.args ELSE << >>)
              /\ called' = Append(called, [asked |-> a, ack |-> g])
        BY <3>4
      <4>0. PICK r : r = [asked |-> a, ack |-> g]
        OBVIOUS
      <4>2. r \in CallType /\ r.asked = a /\ r.ack = g /\ a \in Range(emitted) /\ a.id # 0
        BY <1>1, <4>0, <4>1, RangeOf DEF CallType
      <4>3. /\ \A i \in DOMAIN called : called[i].asked \in Range(emitted) \ ack_callbacks
            /\ \A i, j \in DOMAIN called : called[i].asked = called[j].asked => i = j
        BY <1>1 DEF Called
      <4>4. PICK S : S = Range(emitted)
        OBVIOUS
      <4>5. /\ called' \in Seq(CallType)
            /\ \A i \in DOMAIN called' : (i \in DOMAIN called /\ called'[i] = called[i]) \/ called'[i] = r
            /\ \A i \in DOMAIN called' : called'[i].asked \in S \ (ack_callbacks \ {a})
            /\ \A i, j \in DOMAIN called' : called'[i].asked = called'[j].asked => i = j
        BY <1>1, <4>0, <4>1, <4>2, <4>3, <4>4, OneMore
      <4>6. \A i \in DOMAIN called' :
              /\ called'[i].asked.id # 0
              /\ called'[i].ack.args = IF called'[i].asked.ack = "data" THEN called'[i].asked.args ELSE << >>
        BY <1>1, <4>1, <4>2, <4>5 DEF Called
      <4> QED BY <1>1, <3>2, <4>1, <4>4, <4>5, <4>6 DEF Called
    <3> QED BY <3>1, <3>3, <3>4 DEF RunsReply
  <2> QED BY <1>4, <2>1, <2>2, <2>3, ReceiveSteps DEF Decodes
<1>5. CASE ~ServerEmit /\ ~Receive
  BY <1>1, <1>5, ServerFrame DEF Called
<1> QED BY <1>3, <1>4, <1>5

\* The logs keep what is in them.
LEMMA LogsNext ==
  IInv /\ [Next]_vars => LogTypes' /\ LoopLives'
<1> SUFFICES ASSUME IInv, [Next]_vars PROVE LogTypes' /\ LoopLives'
  OBVIOUS
<1>1. Types0 /\ LogTypes /\ LoopLives
  BY DEF IInv, Types0
<1>2. sent' = sent \/ \E p \in Spoken : sent' = Append(sent, p)
  <2>1. CASE ClientSend
    BY <2>1, ClientSpeaks DEF Speaks, Submit
  <2>2. CASE Hear
    BY <2>2, HearSteps DEF RunsCallback, Replies, Submit
  <2> QED BY <2>1, <2>2, ClientFrame
<1>3. heard' = heard \/ \E p \in Spoken : heard' = Append(heard, p)
  <2>1. CASE ClientSend
    BY <2>1 DEF ClientSend, downLog
  <2>2. CASE Hear
    BY <2>2, HearSteps DEF Handles
  <2> QED BY <2>1, <2>2, ClientFrame
<1>4. emitted' = emitted \/ \E p \in Spoken : emitted' = Append(emitted, p)
  <2>1. CASE ServerEmit
    BY <2>1, ServerSpeaks DEF Emits, SendPacket
  <2>2. CASE Receive
    BY <2>2, ReceiveSteps DEF RunsReply, Answers, Emits, SendPacket
  <2> QED BY <2>1, <2>2, ServerFrame
<1>5. got' = got \/ \E p \in Spoken : got' = Append(got, p)
  <2>1. CASE ServerEmit
    BY <2>1 DEF ServerEmit, upLog
  <2>2. CASE Receive
    BY <2>2, ReceiveSteps DEF Decodes
  <2> QED BY <2>1, <2>2, ServerFrame
<1>6. LogTypes'
  <2>1. \A s \in Seq(Spoken), p \in Spoken : Append(s, p) \in Seq(Spoken)
    OBVIOUS
  <2>2. sent' \in Seq(Spoken)
    BY <1>1, <1>2, <2>1 DEF LogTypes
  <2>3. heard' \in Seq(Spoken)
    BY <1>1, <1>3, <2>1 DEF LogTypes
  <2>4. emitted' \in Seq(Spoken)
    BY <1>1, <1>4, <2>1 DEF LogTypes
  <2>5. got' \in Seq(Spoken)
    BY <1>1, <1>5, <2>1 DEF LogTypes
  <2> QED BY <2>2, <2>3, <2>4, <2>5 DEF LogTypes
<1>7. Range(sent) \subseteq Range(sent')
  <2>1. CASE \E p \in Spoken : sent' = Append(sent, p)
    <3>1. PICK p \in Spoken : sent' = Append(sent, p)
      BY <2>1
    <3>2. sent \in Seq(Spoken)
      BY <1>1 DEF LogTypes
    <3> QED BY <3>1, <3>2, AppendRange
  <2> QED BY <1>2, <2>1
<1>8. receiving' = receiving \/ \E s \in Range(sent) : Plus(s)
  <2>1. CASE ServerEmit
    BY <2>1 DEF ServerEmit
  <2>2. CASE Receive
    BY <2>2, ReceiveSteps DEF Decodes
  <2> QED BY <2>1, <2>2, ServerFrame
<1>9. LoopLives'
  BY <1>1, <1>7, <1>8 DEF LoopLives
<1> QED BY <1>6, <1>9

-----------------------------------------------------------------------------
(* Every step keeps the types. *)

LEMMA Removed ==
  ASSUME NEW T, NEW s \in Seq(T), NEW i \in DOMAIN s
  PROVE  /\ RemoveAt(s, i) \in Seq(T) /\ DOMAIN RemoveAt(s, i) = 1 .. Len(s) - 1
         /\ Len(RemoveAt(s, i)) = Len(s) - 1
         /\ \A j \in 1 .. Len(s) - 1 : RemoveAt(s, i)[j] = IF j < i THEN s[j] ELSE s[j + 1]
<1>1. PICK n \in Nat : n = Len(s) /\ DOMAIN s = 1 .. n
  OBVIOUS
<1>2. i \in 1 .. n
  BY <1>1
<1>3. PICK a \in Seq(T) : a = SubSeq(s, 1, i - 1)
  <2>1. SubSeq(s, 1, i - 1) \in Seq(T)
    BY <1>1, <1>2
  <2> QED BY <2>1
<1>4. PICK b \in Seq(T) : b = SubSeq(s, i + 1, n)
  <2>1. SubSeq(s, i + 1, n) \in Seq(T)
    BY <1>1, <1>2
  <2> QED BY <2>1
<1>5. Len(a) = i - 1 /\ \A j \in 1 .. i - 1 : a[j] = s[j]
  BY <1>1, <1>2, <1>3
<1>6. Len(b) = n - i /\ \A j \in 1 .. n - i : b[j] = s[i + j]
  BY <1>1, <1>2, <1>4
<1>7. PICK c : c = a \o b
  OBVIOUS
<1>8. c = RemoveAt(s, i)
  BY <1>1, <1>3, <1>4, <1>7 DEF RemoveAt
<1>9. c \in Seq(T) /\ Len(c) = n - 1 /\ DOMAIN c = 1 .. n - 1
  <2>1. c \in Seq(T) /\ Len(c) = Len(a) + Len(b)
    BY <1>7
  <2>2. Len(c) = n - 1
    BY <1>2, <1>5, <1>6, <2>1
  <2> QED BY <2>1, <2>2
<1>10. \A j \in 1 .. n - 1 : c[j] = IF j < i THEN s[j] ELSE s[j + 1]
  <2> SUFFICES ASSUME NEW j \in 1 .. n - 1 PROVE c[j] = IF j < i THEN s[j] ELSE s[j + 1]
    OBVIOUS
  <2>1. CASE j < i
    <3>1. j \in 1 .. i - 1
      BY <1>2, <2>1
    <3>2. (a \o b)[j] = a[j]
      BY <1>5, <3>1, ConcatFacts
    <3> QED BY <1>5, <1>7, <2>1, <3>1, <3>2
  <2>2. CASE ~(j < i)
    <3>0. j - (i - 1) \in 1 .. n - i /\ j = (i - 1) + (j - (i - 1)) /\ i + (j - (i - 1)) = j + 1
      BY <1>2, <2>2
    <3>1. PICK k \in 1 .. n - i : j = (i - 1) + k /\ i + k = j + 1
      BY <3>0
    <3>2. (a \o b)[Len(a) + k] = b[k]
      <4>1. k \in 1 .. Len(b)
        BY <1>6
      <4> QED BY <4>1, ConcatFacts
    <3> QED BY <1>5, <1>6, <1>7, <2>2, <3>1, <3>2
  <2> QED BY <2>1, <2>2
<1> QED BY <1>1, <1>8, <1>9, <1>10

\* The POST of one packet.
LEMMA PostOne ==
  ASSUME NEW p \in Good
  PROVE  /\ [text |-> ClientEncode(p), served |-> FALSE] \in PostType
         /\ Taken(ClientEncode(p)) = <<Encode(AsRead(p))>> /\ Encode(AsRead(p)) \in Coded
<1>1. Encode(AsRead(p)) \in Coded
  BY CodedFacts
<1>2. ClientEncode(p) \in Text /\ Taken(ClientEncode(p)) = <<Encode(AsRead(p))>>
  BY OnePost
<1>3. <<Encode(AsRead(p))>> \in Seq(Coded)
  BY <1>1
<1> QED BY <1>1, <1>2, <1>3 DEF PostType

LEMMA PostBeat ==
  /\ [text |-> Beating, served |-> FALSE] \in PostType /\ Taken(Beating) = <<Beating>>
<1>1. Heartbeat \in Good /\ AsRead(Heartbeat) = Heartbeat /\ ClientEncode(Heartbeat) = Beating
  BY Beats, Codec DEF Beating
<1>2. Encode(AsRead(Heartbeat)) = Beating
  BY <1>1 DEF Beating
<1> QED BY <1>1, <1>2, PostOne

LEMMA TextsCoded ==
  ASSUME NEW ps \in Seq(Good), NEW m \in 0 .. Len(ps)
  PROVE  /\ ReadTexts(ps, m) \in Seq(Coded) /\ Len(ReadTexts(ps, m)) = m
         /\ DOMAIN ReadTexts(ps, m) = 1 .. m
         /\ \A k \in 1 .. m : ReadTexts(ps, m)[k] = Encode(AsRead(ps[k]))
<1>1. Len(ps) \in Nat /\ \A k \in 1 .. Len(ps) : ps[k] \in Good
  OBVIOUS
<1>2. \A k \in 1 .. m : Encode(AsRead(ps[k])) \in Coded
  BY <1>1, CodedFacts
<1> QED BY <1>1, <1>2 DEF ReadTexts

\* The answer of a POST lets the buffer go.
Flushes(others) ==
  \/ buffer = << >> /\ posts' = others /\ doBuffer' = FALSE /\ crossed' = crossed
  \/ /\ buffer # << >>
     /\ \E text \in Text, m \in 1 .. Len(buffer) :
          /\ PostOn(others, text) /\ [text |-> text, served |-> FALSE] \in PostType
          /\ Taken(text) = ReadTexts(buffer, m)
          /\ (\A k \in 1 .. Len(buffer) : ~Multiline(buffer[k])) => m = Len(buffer)

LEMMA FlushSteps ==
  ASSUME IInv, NEW i \in DOMAIN posts, PostDone(i)
  PROVE  /\ posts[i].served /\ buffer' = << >> /\ connected
         /\ UNCHANGED <<scriptVars, connected, ackPackets, acks, hearing, serverVars, upLog, downLog>>
         /\ Flushes(RemoveAt(posts, i))
<1>1. /\ posts[i].served /\ connected /\ Flush(RemoveAt(posts, i))
      /\ UNCHANGED <<scriptVars, connected, ackPackets, acks, hearing, serverVars, upLog, downLog>>
  BY DEF PostDone
<1>2. AllNumbers /\ buffer \in Seq(Spoken)
  BY DEF IInv, Types0, ClientTypes
<1>3. buffer \in Seq(Good)
  BY <1>2 DEF Spoken
<1>4. CASE buffer = << >>
  BY <1>1, <1>4 DEF Flush, Flushes
<1>5. CASE buffer # << >>
  <2>1. PostOn(RemoveAt(posts, i), PostOf(buffer)) /\ buffer' = << >>
    BY <1>1, <1>5 DEF Flush, PostOf
  <2>2. /\ PostOf(buffer) \in Text
        /\ \E m \in 1 .. Len(buffer) :
             /\ Taken(PostOf(buffer)) = ReadTexts(buffer, m)
             /\ (\A k \in 1 .. Len(buffer) : ~Multiline(buffer[k])) => m = Len(buffer)
    BY <1>2, <1>3, <1>5, PostBody
  <2>3. PICK m \in 1 .. Len(buffer) :
             /\ Taken(PostOf(buffer)) = ReadTexts(buffer, m)
             /\ (\A k \in 1 .. Len(buffer) : ~Multiline(buffer[k])) => m = Len(buffer)
    BY <2>2
  <2>4. ReadTexts(buffer, m) \in Seq(Coded)
    <3>1. Len(buffer) \in Nat
      BY <1>3
    <3>2. m \in 0 .. Len(buffer)
      BY <3>1
    <3> QED BY <1>3, <3>2, TextsCoded
  <2>5. [text |-> PostOf(buffer), served |-> FALSE] \in PostType
    BY <2>2, <2>3, <2>4 DEF PostType
  <2> QED BY <1>1, <1>5, <2>1, <2>2, <2>3, <2>5 DEF Flushes
<1> QED BY <1>4, <1>5

\* The client puts a packet into a POST, or behind others in its buffer.
LEMMA SubmitSteps ==
  ASSUME IInv, NEW p \in Spoken, Submit(p)
  PROVE  /\ sent' = Append(sent, p)
         /\ \/ /\ connected /\ ~doBuffer /\ buffer = << >> /\ buffer' = buffer
               /\ PostOn(posts, ClientEncode(p))
            \/ buffer' = Append(buffer, p) /\ UNCHANGED <<netVars, doBuffer>> /\ ~(connected /\ ~doBuffer)
BY DEF IInv, Buffered, Submit

LEMMA BufferedNext == IInv /\ [Next]_vars => Buffered'
<1> SUFFICES ASSUME IInv, [Next]_vars, connected', ~doBuffer' PROVE buffer' = << >>
  BY DEF Buffered
<1>1. Buffered
  BY DEF IInv
<1>2. ASSUME NEW p \in Spoken, Submit(p), connected' = connected PROVE FALSE
  <2>1. CASE PostOn(posts, ClientEncode(p))
    BY <2>1, Zenon DEF PostOn
  <2>2. CASE UNCHANGED <<netVars, doBuffer>> /\ ~(connected /\ ~doBuffer)
    <3>1. doBuffer' = doBuffer /\ connected' = connected
      BY <1>2, <2>2
    <3> QED BY <2>2, <3>1
  <2> QED BY <1>2, <2>1, <2>2, SubmitSteps
<1>3. CASE ClientSend
  <2>1. connected' = connected
    BY <1>3 DEF ClientSend
  <2> QED BY <1>2, <1>3, <2>1, ClientSpeaks DEF Speaks
<1>4. CASE Hear
  <2>1. connected' = connected
    BY <1>4, HearSteps
  <2>2. ~PostOn(posts, Beating)
    BY DEF PostOn
  <2>3. CASE UNCHANGED <<doBuffer, buffer>>
    BY <1>1, <2>1, <2>3 DEF Buffered
  <2> QED BY <1>2, <1>4, <2>1, <2>2, <2>3, HearSteps DEF RunsCallback, Replies
<1>5. CASE \E i \in DOMAIN posts : PostDone(i)
  BY <1>5, FlushSteps
<1>6. CASE ConnectionLost
  BY <1>6 DEF ConnectionLost
<1>7. CASE UNCHANGED <<connected, doBuffer, buffer>>
  BY <1>1, <1>7 DEF Buffered
<1>8. CASE ServerEmit \/ Receive \/ Poll \/ Beat \/ (\E i \in DOMAIN posts : ServePost(i)) \/ UNCHANGED vars
  BY <1>7, <1>8 DEF ServerEmit, Receive, Poll, Beat, ServePost, clientVars, vars
<1> QED BY <1>3, <1>4, <1>5, <1>6, <1>8, Steps

LEMMA PollSteps ==
  ASSUME IInv, Poll
  PROVE  /\ connected /\ hearing = << >> /\ client_queue # << >> /\ client_queue' = << >>
         /\ hearing' = ReadBack(client_queue)
         /\ UNCHANGED <<scriptVars, connected, doBuffer, buffer, ackPackets, acks, netVars, server_queue,
                        receiving, beats, ack_counter, ack_callbacks, upLog, downLog>>
<1>1. AllNumbers /\ client_queue \in Seq(Coded) /\ client_queue # << >>
  BY DEF IInv, Types0, ServerTypes, Poll
<1>2. PICK q \in Seq(Coded) : q = client_queue
  BY <1>1
<1>3. PICK n \in Nat : n = Len(q) /\ n > 0 /\ DOMAIN q = 1 .. n
  BY <1>1, <1>2
<1>4. \A k \in 1 .. n : q[k] \in Coded
  BY <1>3
<1>5. \A x \in Coded : x \in Text /\ x # << >> /\ Head(x) # MARK /\ Len(x) \in DOMAIN Numeral
  <2> SUFFICES ASSUME NEW x \in Coded
               PROVE  x \in Text /\ x # << >> /\ Head(x) # MARK /\ Len(x) \in DOMAIN Numeral
    OBVIOUS
  <2>1. PICK p \in Good : x = Encode(p)
    BY DEF Coded
  <2>2. x \in Text /\ x # << >> /\ Head(x) # MARK
    BY <2>1, Codec
  <2>3. Len(x) \in Nat
    BY <2>2, TextFacts
  <2> QED BY <1>1, <2>2, <2>3 DEF AllNumbers
<1>6. q \in Seq(Text)
  BY <1>3, <1>4, <1>5
<1>7. Framed(q)
  BY <1>3, <1>4, <1>5, <1>6 DEF Framed
<1>8. ClientDecodePayload(EncodePayload(q)) = q
  BY <1>3, <1>4, <1>5, <1>7, ClientUnpacks
<1>9. hearing' = [k \in DOMAIN q |-> ClientDecode(q[k])]
  BY <1>2, <1>8 DEF Poll
<1>10. hearing' = ReadBack(client_queue)
  BY <1>2, <1>3, <1>9 DEF ReadBack
<1> QED BY <1>10 DEF Poll

LEMMA ClientTypesNext == IInv /\ [Next]_vars => ClientTypes'
<1> SUFFICES ASSUME IInv, [Next]_vars PROVE ClientTypes'
  OBVIOUS
<1>1. /\ ClientTypes /\ connected \in BOOLEAN /\ doBuffer \in BOOLEAN /\ buffer \in Seq(Spoken)
      /\ hearing \in Seq(Good) /\ ackPackets \in [Endpoints -> Nat] /\ client_queue \in Seq(Coded)
  BY DEF IInv, Types0, ClientTypes, ServerTypes
<1>2. << >> \in Seq(Spoken) /\ \A p \in Spoken : Append(buffer, p) \in Seq(Spoken)
  BY <1>1
<1>3. ASSUME NEW ps, NEW text, PostOn(ps, text) PROVE doBuffer' \in BOOLEAN
  BY <1>3, Zenon DEF PostOn
<1>4. ASSUME NEW p \in Spoken, Submit(p)
      PROVE  doBuffer' \in BOOLEAN /\ buffer' \in Seq(Spoken)
  BY <1>1, <1>2, <1>3, <1>4, SubmitSteps
<1>5. CASE ClientSend
  <2>1. PICK p : Speaks(p)
    BY <1>5, ClientSpeaks
  <2>2. doBuffer' \in BOOLEAN /\ buffer' \in Seq(Spoken)
    BY <1>4, <2>1 DEF Speaks
  <2>3. connected' = connected /\ hearing' = hearing
    BY <1>5 DEF ClientSend
  <2>4. ackPackets' \in [Endpoints -> Nat]
    <3>1. \/ ackPackets' = ackPackets
          \/ p.endpoint \in Endpoints /\ ackPackets' = [ackPackets EXCEPT ![p.endpoint] = @ + 1]
      BY <2>1 DEF Speaks
    <3>2. \A e \in Endpoints : ackPackets[e] + 1 \in Nat
      BY <1>1
    <3> QED BY <1>1, <3>1, <3>2
  <2>5. connected' \in BOOLEAN /\ hearing' \in Seq(Good)
    BY <1>1, <2>3
  <2> QED BY <2>2, <2>4, <2>5 DEF ClientTypes
<1>6. CASE Hear
  <2>1. connected' = connected /\ ackPackets' = ackPackets /\ hearing' = Tail(hearing) /\ hearing # << >>
    BY <1>6, HearSteps DEF Hear
  <2>2. hearing' \in Seq(Good)
    BY <1>1, <2>1, HeadTail
  <2>3. connected' \in BOOLEAN /\ ackPackets' \in [Endpoints -> Nat]
    BY <1>1, <2>1
  <2>4. doBuffer' \in BOOLEAN /\ buffer' \in Seq(Spoken)
    <3>1. CASE doBuffer' = doBuffer /\ buffer' = buffer
      BY <1>1, <3>1
    <3>2. CASE PostOn(posts, Beating) /\ buffer' = buffer
      BY <1>1, <1>3, <3>2
    <3>3. CASE \E p : Replies(p)
      BY <1>4, <3>3 DEF Replies
    <3> QED BY <1>6, <3>1, <3>2, <3>3, HearSteps DEF RunsCallback
  <2> QED BY <2>2, <2>3, <2>4 DEF ClientTypes
<1>7. CASE \E i \in DOMAIN posts : PostDone(i)
  <2>1. PICK i \in DOMAIN posts : PostDone(i)
    BY <1>7
  <2>2. /\ connected' = connected /\ ackPackets' = ackPackets /\ hearing' = hearing /\ buffer' = << >>
        /\ Flushes(RemoveAt(posts, i))
    BY <2>1, FlushSteps
  <2>3. doBuffer' \in BOOLEAN
    <3>1. CASE doBuffer' = FALSE
      BY <3>1, Zenon
    <3> QED BY <1>3, <2>2, <3>1 DEF Flushes
  <2>4. connected' \in BOOLEAN /\ ackPackets' \in [Endpoints -> Nat] /\ hearing' \in Seq(Good)
    BY <1>1, <2>2
  <2> QED BY <1>2, <2>2, <2>3, <2>4 DEF ClientTypes
<1>8. CASE ConnectionLost
  <2>1. UNCHANGED <<doBuffer, buffer, hearing, ackPackets>> /\ connected' = FALSE
    BY <1>8 DEF ConnectionLost
  <2>2. connected' \in BOOLEAN
    BY <2>1, Zenon
  <2>3. doBuffer' \in BOOLEAN /\ buffer' \in Seq(Spoken) /\ hearing' \in Seq(Good) /\ ackPackets' \in [Endpoints -> Nat]
    BY <1>1, <2>1
  <2> QED BY <2>2, <2>3 DEF ClientTypes
<1>9. CASE Poll
  <2>1. UNCHANGED <<connected, doBuffer, buffer, ackPackets>> /\ hearing' = ReadBack(client_queue)
    BY <1>9, PollSteps
  <2>2. hearing' \in Seq(Good)
    BY <1>1, <2>1, ReadBackFacts
  <2>3. /\ connected' \in BOOLEAN /\ doBuffer' \in BOOLEAN /\ buffer' \in Seq(Spoken)
        /\ ackPackets' \in [Endpoints -> Nat]
    BY <1>1, <2>1
  <2> QED BY <2>2, <2>3 DEF ClientTypes
<1>10. CASE ServerEmit \/ Receive \/ Beat \/ (\E i \in DOMAIN posts : ServePost(i)) \/ UNCHANGED vars
  <2>1. UNCHANGED <<connected, doBuffer, buffer, hearing, ackPackets>>
    BY <1>10 DEF ServerEmit, Receive, Beat, ServePost, clientVars, vars
  <2> QED BY <1>1, <2>1 DEF ClientTypes
<1> QED BY <1>5, <1>6, <1>7, <1>8, <1>9, <1>10, Steps

LEMMA NetTypesNext == IInv /\ [Next]_vars => NetTypes'
<1> SUFFICES ASSUME IInv, [Next]_vars PROVE NetTypes'
  OBVIOUS
<1>1. posts \in Seq(PostType) /\ crossed \in BOOLEAN
  BY DEF IInv, Types0, NetTypes
<1>2. ASSUME NEW ps \in Seq(PostType), NEW text, PostOn(ps, text),
             [text |-> text, served |-> FALSE] \in PostType
      PROVE  NetTypes'
  <2>1. posts' = Append(ps, [text |-> text, served |-> FALSE]) /\ crossed' = (crossed \/ ps # << >>)
    BY <1>2 DEF PostOn
  <2>2. posts' \in Seq(PostType)
    BY <1>2, <2>1
  <2>3. crossed' \in BOOLEAN
    BY <2>1, Zenon
  <2> QED BY <2>2, <2>3 DEF NetTypes
<1>3. CASE posts' = posts /\ crossed' = crossed
  BY <1>1, <1>3 DEF NetTypes
<1>4. ASSUME NEW p \in Spoken, Submit(p) PROVE NetTypes'
  <2>1. p \in Good
    BY DEF Spoken
  <2> QED BY <1>1, <1>2, <1>3, <1>4, <2>1, SubmitSteps, PostOne DEF netVars
<1>5. CASE ClientSend
  BY <1>4, <1>5, ClientSpeaks DEF Speaks
<1>6. CASE Hear
  <2>1. CASE PostOn(posts, Beating)
    BY <1>1, <1>2, <2>1, PostBeat
  <2>2. CASE \E p : Replies(p)
    BY <1>4, <2>2 DEF Replies
  <2> QED BY <1>3, <1>6, <2>1, <2>2, HearSteps DEF RunsCallback, netVars
<1>7. CASE \E i \in DOMAIN posts : PostDone(i)
  <2>1. PICK i \in DOMAIN posts : PostDone(i)
    BY <1>7
  <2>2. PICK others \in Seq(PostType) : Flushes(others)
    BY <1>1, <2>1, FlushSteps, Removed
  <2>3. CASE posts' = others /\ crossed' = crossed
    BY <1>1, <2>2, <2>3 DEF NetTypes
  <2> QED BY <1>2, <2>2, <2>3 DEF Flushes
<1>8. CASE \E i \in DOMAIN posts : ServePost(i)
  <2>1. PICK i \in DOMAIN posts : ServePost(i)
    BY <1>8
  <2>2. posts' = [posts EXCEPT ![i].served = TRUE] /\ crossed' = crossed
    BY <2>1 DEF ServePost
  <2>3. posts[i] \in PostType
    BY <1>1
  <2>4. TRUE \in BOOLEAN
    BY Zenon
  <2>5. PICK r : r = [posts[i] EXCEPT !.served = TRUE]
    OBVIOUS
  <2>6. r \in PostType
    BY <2>3, <2>4, <2>5 DEF PostType
  <2>7. posts' = [posts EXCEPT ![i] = r]
    BY <2>2, <2>5
  <2>8. posts' \in Seq(PostType)
    BY <1>1, <2>6, <2>7
  <2> QED BY <1>1, <2>2, <2>8 DEF NetTypes
<1>9. CASE ServerEmit \/ Receive \/ Poll \/ Beat \/ ConnectionLost \/ UNCHANGED vars
  BY <1>3, <1>9 DEF ServerEmit, Receive, Poll, Beat, ConnectionLost, netVars, vars
<1> QED BY <1>5, <1>6, <1>7, <1>8, <1>9, Steps

LEMMA ServerTypesNext == IInv /\ [Next]_vars => ServerTypes'
<1> SUFFICES ASSUME IInv, [Next]_vars PROVE ServerTypes'
  OBVIOUS
<1>1. /\ server_queue \in Seq(Coded) /\ client_queue \in Seq(Coded)
      /\ receiving \in BOOLEAN /\ beats \in 0 .. MaxBeats /\ ack_counter \in Nat
  BY DEF IInv, Types0, ServerTypes
<1>2. ASSUME NEW p, Emits(p)
      PROVE  client_queue' \in Seq(Coded) /\ ack_counter' \in Nat
  <2>1. p \in Good /\ client_queue' = Append(client_queue, Encode(p))
    BY <1>2 DEF Emits, SendPacket, Spoken
  <2>2. Encode(p) \in Coded
    BY <2>1, CodedFacts
  <2>3. ack_counter' = ack_counter \/ ack_counter' = ack_counter + 1
    BY <1>2 DEF Emits
  <2> QED BY <1>1, <2>1, <2>2, <2>3
<1>3. CASE ServerEmit
  <2>1. client_queue' \in Seq(Coded) /\ ack_counter' \in Nat
    BY <1>2, <1>3, ServerSpeaks
  <2>2. UNCHANGED <<server_queue, receiving, beats>>
    BY <1>3 DEF ServerEmit
  <2> QED BY <1>1, <2>1, <2>2 DEF ServerTypes
<1>4. CASE Receive
  <2>1. server_queue' = Tail(server_queue) /\ server_queue # << >> /\ beats' = beats /\ ack_counter' = ack_counter
    BY <1>4, ReceiveSteps
  <2>2. server_queue' \in Seq(Coded)
    BY <1>1, <2>1, HeadTail
  <2>3. client_queue' \in Seq(Coded)
    <3>1. CASE client_queue' = client_queue
      BY <1>1, <3>1
    <3>2. CASE \E g : Answers(g)
      BY <1>2, <3>2 DEF Answers
    <3> QED BY <1>4, <3>1, <3>2, ReceiveSteps DEF RunsReply
  <2>4. receiving' \in BOOLEAN
    <3>1. CASE receiving' = receiving
      BY <1>1, <3>1
    <3>2. CASE receiving' = FALSE
      BY <3>2, Zenon
    <3> QED BY <1>4, <3>1, <3>2, ReceiveSteps DEF Decodes
  <2> QED BY <1>1, <2>1, <2>2, <2>3, <2>4 DEF ServerTypes
<1>5. CASE \E i \in DOMAIN posts : ServePost(i)
  <2>1. PICK i \in DOMAIN posts : ServePost(i)
    BY <1>5
  <2>2. /\ UNCHANGED <<client_queue, receiving, beats, ack_counter>>
        /\ server_queue' = server_queue \o Taken(posts[i].text)
    BY <2>1 DEF ServePost, Taken
  <2>3. Taken(posts[i].text) \in Seq(Coded)
    <3>1. posts \in Seq(PostType)
      BY DEF IInv, Types0, NetTypes
    <3>2. posts[i] \in PostType
      BY <3>1
    <3> QED BY <3>2 DEF PostType
  <2>4. server_queue' \in Seq(Coded)
    BY <1>1, <2>2, <2>3
  <2> QED BY <1>1, <2>2, <2>4 DEF ServerTypes
<1>6. CASE Beat
  <2>1. /\ UNCHANGED <<server_queue, receiving, ack_counter>> /\ beats < MaxBeats /\ beats' = beats + 1
        /\ client_queue' = Append(client_queue, Beating)
    BY <1>6 DEF Beat, Beating
  <2>2. client_queue' \in Seq(Coded)
    BY <1>1, <2>1, CodedFacts
  <2>3. beats' \in 0 .. MaxBeats
    <3>1. MaxBeats \in Nat
      BY WireAssumption
    <3> QED BY <1>1, <2>1, <3>1
  <2> QED BY <1>1, <2>1, <2>2, <2>3 DEF ServerTypes
<1>7. CASE ConnectionLost \/ Poll
  <2>1. /\ UNCHANGED <<server_queue, receiving, ack_counter, beats>>
        /\ client_queue' = client_queue \/ client_queue' = << >>
    BY <1>7 DEF ConnectionLost, Poll
  <2>2. client_queue' \in Seq(Coded)
    <3>1. << >> \in Seq(Coded)
      OBVIOUS
    <3> QED BY <1>1, <2>1, <3>1
  <2> QED BY <1>1, <2>1, <2>2 DEF ServerTypes
<1>8. CASE ClientSend \/ Hear \/ (\E i \in DOMAIN posts : PostDone(i)) \/ UNCHANGED vars
  <2>1. UNCHANGED <<server_queue, client_queue, receiving, beats, ack_counter>>
    BY <1>8 DEF ClientSend, Hear, PostDone, serverVars, vars
  <2> QED BY <1>1, <2>1 DEF ServerTypes
<1> QED BY <1>3, <1>4, <1>5, <1>6, <1>7, <1>8, Steps

LEMMA TypesNext == IInv /\ [Next]_vars => Types0'
BY ClientTypesNext, NetTypesNext, ServerTypesNext, LogsNext, FiredNext, CalledNext DEF Types0, Callbacks

-----------------------------------------------------------------------------
(* Every step keeps what is on its way to the client in order. *)

LEMMA KeepSpoken ==
  ASSUME NEW u \in Seq(Good)
  PROVE  /\ Keep(u, Spoken) \in Seq(Spoken)
         /\ \A p \in Good : Keep(Append(u, p), Spoken) =
                              IF p \in Spoken THEN Append(Keep(u, Spoken), p) ELSE Keep(u, Spoken)
<1>1. Keep(u, Spoken) \in Seq(Good \cap Spoken)
  BY KeepType
<1>2. Good \cap Spoken = Spoken
  BY DEF Spoken
<1>3. \A p \in Good : Keep(Append(u, p), Spoken) =
                        IF p \in Spoken THEN Append(Keep(u, Spoken), p) ELSE Keep(u, Spoken)
  BY KeepAppend
<1> QED BY <1>1, <1>2, <1>3

LEMMA DownLineNext == IInv /\ [Next]_vars => DownLine'
<1> SUFFICES ASSUME IInv, [Next]_vars PROVE DownLine'
  OBVIOUS
<1>1. /\ hearing \in Seq(Good) /\ client_queue \in Seq(Coded) /\ emitted \in Seq(Spoken)
      /\ heard \in Seq(Spoken) /\ DownLine
  BY DEF IInv, Types0, ClientTypes, ServerTypes, LogTypes
<1>2. PICK rest \in Seq(Spoken) : emitted = heard \o rest /\ (connected => rest = Keep(DownWire, Spoken))
  BY <1>1 DEF DownLine
<1>3. PICK h \in Seq(Good), c \in Seq(Good) :
        h = hearing /\ c = ReadBack(client_queue) /\ h \o c \in Seq(Good) /\ DownWire = h \o c
  <2>1. ReadBack(client_queue) \in Seq(Good)
    BY <1>1, ReadBackFacts
  <2>2. hearing \o ReadBack(client_queue) \in Seq(Good)
    BY <1>1, <2>1
  <2> QED BY <1>1, <2>1, <2>2 DEF DownWire
<1>4. ASSUME NEW x \in Coded, client_queue' = Append(client_queue, x), hearing' = hearing
      PROVE  DownWire' = Append(h \o c, ClientDecode(x)) /\ ClientDecode(x) \in Good
  <2>1. ReadBack(client_queue') = Append(c, ClientDecode(x)) /\ ClientDecode(x) \in Good
    BY <1>1, <1>3, <1>4, ReadBackFacts, CodedFacts
  <2>2. \A y \in Good : h \o Append(c, y) = Append(h \o c, y)
    OBVIOUS
  <2> QED BY <1>3, <1>4, <2>1, <2>2 DEF DownWire
<1>5. ASSUME NEW p, Emits(p), hearing' = hearing, heard' = heard, connected' = connected
      PROVE  DownLine'
  <2>1. /\ p \in Spoken /\ p \in Good /\ emitted' = Append(emitted, p)
        /\ client_queue' = Append(client_queue, Encode(p))
    BY <1>5 DEF Emits, SendPacket, Spoken
  <2>2. Encode(p) \in Coded /\ ClientDecode(Encode(p)) = p
    BY <2>1, CodedFacts, Codec
  <2>3. DownWire' = Append(h \o c, p)
    BY <1>4, <1>5, <2>1, <2>2
  <2>4. Keep(DownWire', Spoken) = Append(Keep(h \o c, Spoken), p)
    BY <1>3, <2>1, <2>3, KeepSpoken
  <2>5. Append(rest, p) \in Seq(Spoken) /\ heard \o Append(rest, p) = Append(heard \o rest, p)
    <3>1. PICK k \in Seq(Spoken) : k = heard
      BY <1>1
    <3>2. Append(rest, p) \in Seq(Spoken) /\ k \o Append(rest, p) = Append(k \o rest, p)
      BY <2>1
    <3> QED BY <3>1, <3>2
  <2>6. emitted' = heard' \o Append(rest, p)
    BY <1>2, <1>5, <2>1, <2>5
  <2>7. connected' => Append(rest, p) = Keep(DownWire', Spoken)
    BY <1>2, <1>3, <1>5, <2>4
  <2> QED BY <2>5, <2>6, <2>7 DEF DownLine
<1>6. ASSUME emitted' = emitted, heard' = heard, connected' => connected,
             connected => Keep(DownWire', Spoken) = Keep(DownWire, Spoken)
      PROVE  DownLine'
  BY <1>2, <1>6 DEF DownLine
<1>7. CASE ServerEmit
  <2>1. hearing' = hearing /\ heard' = heard /\ connected' = connected
    BY <1>7 DEF ServerEmit, clientVars
  <2> QED BY <1>5, <1>7, <2>1, ServerSpeaks
<1>8. CASE Receive
  <2>1. hearing' = hearing /\ heard' = heard /\ connected' = connected
    BY <1>8, ReceiveSteps DEF clientVars
  <2>2. CASE client_queue' = client_queue /\ emitted' = emitted
    <3>1. DownWire' = DownWire
      BY <2>1, <2>2 DEF DownWire
    <3> QED BY <1>6, <2>1, <2>2, <3>1
  <2>3. CASE \E g : Answers(g)
    BY <1>5, <2>1, <2>3 DEF Answers
  <2> QED BY <1>8, <2>2, <2>3, ReceiveSteps DEF RunsReply
<1>9. CASE Beat
  <2>1. /\ hearing' = hearing /\ heard' = heard /\ connected' = connected /\ emitted' = emitted
        /\ client_queue' = Append(client_queue, Beating)
    BY <1>9 DEF Beat, Beating, clientVars, downLog
  <2>2. Beating \in Coded /\ ClientDecode(Beating) = Heartbeat /\ Heartbeat \in Good /\ Heartbeat \notin Spoken
    BY Beats, CodedFacts DEF Spoken
  <2>3. DownWire' = Append(h \o c, Heartbeat)
    BY <1>4, <2>1, <2>2
  <2>4. Keep(DownWire', Spoken) = Keep(DownWire, Spoken)
    BY <1>3, <2>2, <2>3, KeepSpoken
  <2> QED BY <1>6, <2>1, <2>4
<1>10. CASE Poll
  <2>1. /\ hearing = << >> /\ hearing' = ReadBack(client_queue) /\ client_queue' = << >>
        /\ emitted' = emitted /\ heard' = heard /\ connected' = connected
    BY <1>10, PollSteps DEF downLog
  <2>2. ReadBack(<< >>) = << >>
    BY DEF ReadBack
  <2>3. c \o << >> = c /\ << >> \o c = c
    OBVIOUS
  <2>4. DownWire' = DownWire
    BY <1>3, <2>1, <2>2, <2>3 DEF DownWire
  <2> QED BY <1>6, <2>1, <2>4
<1>11. CASE Hear
  <2>1. /\ connected /\ connected' = connected /\ hearing' = Tail(hearing) /\ client_queue' = client_queue
        /\ emitted' = emitted
    BY <1>11, HearSteps DEF serverVars
  <2>2. DownWire' = Tail(hearing) \o ReadBack(client_queue)
    BY <2>1 DEF DownWire
  <2>3. CASE Head(hearing).type = "heartbeat"
    <3>1. heard' = heard
      BY <1>11, <2>3, HearSteps
    <3>2. PICK r \in Seq(Spoken) : /\ emitted = heard \o r
                                   /\ r = Keep(Tail(hearing) \o ReadBack(client_queue), Spoken)
      BY <1>11, <2>3, NextHeard
    <3> QED BY <2>1, <2>2, <3>1, <3>2 DEF DownLine
  <2>4. CASE Head(hearing).type # "heartbeat"
    <3>1. heard' = Append(heard, Head(hearing))
      BY <1>11, <2>4, HearSteps DEF Handles
    <3>2. PICK r \in Seq(Spoken) : /\ emitted = Append(heard, Head(hearing)) \o r
                                   /\ r = Keep(Tail(hearing) \o ReadBack(client_queue), Spoken)
      BY <1>11, <2>4, NextHeard
    <3> QED BY <2>1, <2>2, <3>1, <3>2 DEF DownLine
  <2> QED BY <2>3, <2>4
<1>12. CASE ConnectionLost
  <2>1. emitted' = emitted /\ heard' = heard /\ connected' = FALSE
    BY <1>12 DEF ConnectionLost, downLog
  <2>2. ~connected'
    BY <2>1, Zenon
  <2> QED BY <1>2, <2>1, <2>2 DEF DownLine
<1>13. CASE ClientSend \/ (\E i \in DOMAIN posts : ServePost(i) \/ PostDone(i)) \/ UNCHANGED vars
  <2>1. UNCHANGED <<emitted, heard, connected, hearing, client_queue>>
    BY <1>13 DEF ClientSend, ServePost, PostDone, serverVars, clientVars, downLog, vars
  <2>2. DownWire' = DownWire
    BY <2>1 DEF DownWire
  <2> QED BY <1>6, <2>1, <2>2
<1> QED BY <1>7, <1>8, <1>9, <1>10, <1>11, <1>12, <1>13, Steps

-----------------------------------------------------------------------------
(* Every step keeps what is on its way to the server in order. *)

LEMMA UpWireFacts ==
  ASSUME Types0
  PROVE  /\ InPost \in Seq(Coded) /\ server_queue \o InPost \in Seq(Coded)
         /\ ReadBack(server_queue \o InPost) \in Seq(Good)
         /\ buffer \in Seq(Good) /\ buffer \in Seq(Spoken) /\ UpWire \in Seq(Good)
         /\ server_queue \in Seq(Coded) /\ posts \in Seq(PostType)
         /\ sent \in Seq(Spoken) /\ got \in Seq(Spoken)
<1>1. /\ server_queue \in Seq(Coded) /\ posts \in Seq(PostType) /\ buffer \in Seq(Spoken)
      /\ sent \in Seq(Spoken) /\ got \in Seq(Spoken)
  BY DEF Types0, ServerTypes, NetTypes, ClientTypes, LogTypes
<1>2. InPost \in Seq(Coded)
  <2>1. CASE posts = << >> \/ posts[1].served
    BY <2>1 DEF InPost
  <2>2. CASE posts # << >> /\ ~posts[1].served
    <3>1. posts[1] \in PostType
      BY <1>1, <2>2, HeadTail
    <3> QED BY <2>2, <3>1 DEF InPost, PostType
  <2> QED BY <2>1, <2>2
<1>3. server_queue \o InPost \in Seq(Coded)
  BY <1>1, <1>2
<1>4. ReadBack(server_queue \o InPost) \in Seq(Good) /\ buffer \in Seq(Good)
  <2>1. ReadBack(server_queue \o InPost) \in Seq(Good)
    BY <1>3, ReadBackFacts
  <2> QED BY <1>1, <2>1 DEF Spoken
<1>5. UpWire \in Seq(Good)
  BY <1>4 DEF UpWire
<1> QED BY <1>1, <1>2, <1>3, <1>4, <1>5

\* What has happened is not undone.
LEMMA Calm ==
  ASSUME IInv, [Next]_vars, ~crossed', Multilines' = {}
  PROVE  ~crossed /\ Multilines = {}
<1>1. sent \in Seq(Spoken)
  BY DEF IInv, Types0, LogTypes
<1>2. Range(sent) \subseteq Range(sent')
  <2>1. sent' = sent \/ \E p \in Spoken : sent' = Append(sent, p)
    <3>1. CASE ClientSend
      BY <3>1, ClientSpeaks DEF Speaks, Submit
    <3>2. CASE Hear
      BY <3>2, HearSteps DEF RunsCallback, Replies, Submit
    <3> QED BY <3>1, <3>2, ClientFrame
  <2>2. CASE \E p \in Spoken : sent' = Append(sent, p)
    BY <1>1, <2>2, AppendRange
  <2> QED BY <2>1, <2>2
<1>3. Multilines = {}
  BY <1>2 DEF Multilines
<1>4. ASSUME crossed PROVE FALSE
  <2>1. ASSUME NEW ps, NEW text, PostOn(ps, text) PROVE FALSE
    BY <1>4, <2>1, Zenon DEF PostOn
  <2>2. ASSUME crossed' = crossed PROVE FALSE
    BY <1>4, <2>2, Zenon
  <2>3. ASSUME NEW p \in Spoken, Submit(p) PROVE FALSE
    BY <2>1, <2>2, <2>3, SubmitSteps DEF netVars
  <2>4. CASE ClientSend
    BY <2>3, <2>4, ClientSpeaks DEF Speaks
  <2>5. CASE Hear
    BY <2>1, <2>2, <2>3, <2>5, HearSteps DEF RunsCallback, Replies, netVars
  <2>6. CASE \E i \in DOMAIN posts : PostDone(i)
    BY <2>1, <2>2, <2>6, FlushSteps DEF Flushes
  <2>7. CASE ServerEmit \/ Receive \/ Poll \/ Beat \/ ConnectionLost \/ UNCHANGED vars
             \/ (\E i \in DOMAIN posts : ServePost(i))
    <3>1. crossed' = crossed
      BY <2>7 DEF ServerEmit, Receive, Poll, Beat, ConnectionLost, ServePost, netVars, vars
    <3> QED BY <2>2, <3>1
  <2> QED BY <2>4, <2>5, <2>6, <2>7, Steps
<1> QED BY <1>3, <1>4

\* A POST that crosses no other one is alone.
LEMMA Alone ==
  ASSUME NEW ps \in Seq(PostType), NEW text, PostOn(ps, text), ~crossed'
  PROVE  ps = << >> /\ posts' = <<[text |-> text, served |-> FALSE]>> /\ Len(posts') = 1
         /\ posts' # << >> /\ InPost' = Taken(text)
<1>1. ps = << >>
  BY Zenon DEF PostOn
<1>2. posts' = Append(ps, [text |-> text, served |-> FALSE])
  BY DEF PostOn
<1>3. PICK r : r = [text |-> text, served |-> FALSE]
  OBVIOUS
<1>4. posts' = <<r>> /\ Len(<<r>>) = 1 /\ <<r>> # << >> /\ <<r>>[1] = r
  BY <1>1, <1>2, <1>3
<1>5. r.text = text /\ r.served = FALSE
  BY <1>3
<1>6. ~r.served
  BY <1>5, Zenon
<1>7. InPost' = Taken(text)
  BY <1>4, <1>5, <1>6 DEF InPost
<1> QED BY <1>1, <1>3, <1>4, <1>7

LEMMA SubmitWire ==
  ASSUME IInv, NEW p \in Spoken, Submit(p), server_queue' = server_queue, ~crossed',
         ~Multiline(p), Len(posts) <= 1
  PROVE  /\ Len(posts') <= 1
         /\ UpWire' = Append(UpWire, p)
<1>1. /\ Types0 /\ p \in Good /\ AsRead(p) = p /\ Encode(p) \in Coded /\ ClientDecode(Encode(p)) = p
  BY CodedFacts, Codec, Reading DEF IInv, Spoken
<1>2. PICK q \in Seq(Coded), i \in Seq(Coded), b \in Seq(Good) :
        q = server_queue /\ i = InPost /\ b = buffer /\ posts \in Seq(PostType)
  BY <1>1, UpWireFacts
<1>3. PICK r \in Seq(Good) : r = ReadBack(q \o i)
  BY <1>1, <1>2, UpWireFacts
<1>4. UpWire = r \o b
  BY <1>2, <1>3 DEF UpWire
<1>5. CASE buffer = << >> /\ buffer' = buffer /\ PostOn(posts, ClientEncode(p))
  <2>1. /\ posts = << >> /\ Len(posts') = 1 /\ Len(posts') <= 1 /\ InPost' = Taken(ClientEncode(p))
    <3>1. posts = << >> /\ Len(posts') = 1 /\ InPost' = Taken(ClientEncode(p))
      BY <1>2, <1>5, Alone
    <3> QED BY <3>1
  <2>2. InPost' = <<Encode(p)>>
    BY <1>1, <2>1, PostOne
  <2>3. i = << >>
    BY <1>2, <2>1 DEF InPost
  <2>4. q \o i = q /\ q \o <<Encode(p)>> = Append(q, Encode(p))
    BY <1>1, <2>3
  <2>5. ReadBack(server_queue' \o InPost') = Append(r, p)
    BY <1>1, <1>2, <1>3, <2>2, <2>4, ReadBackFacts
  <2>6. \A z \in Seq(Good) : z \o << >> = z
    OBVIOUS
  <2>7. Append(r, p) \in Seq(Good)
    BY <1>1
  <2>8. UpWire' = Append(r, p) /\ UpWire = r
    BY <1>2, <1>4, <1>5, <2>5, <2>6, <2>7 DEF UpWire
  <2> QED BY <2>1, <2>8
<1>6. CASE buffer' = Append(buffer, p) /\ posts' = posts
  <2>1. InPost' = i
    BY <1>2, <1>6 DEF InPost
  <2>2. UpWire' = r \o Append(b, p)
    BY <1>2, <1>3, <1>6, <2>1 DEF UpWire
  <2>3. r \o Append(b, p) = Append(r \o b, p)
    BY <1>1
  <2>4. Len(posts') <= 1
    BY <1>6
  <2> QED BY <1>4, <2>2, <2>3, <2>4
<1> QED BY <1>5, <1>6, SubmitSteps DEF netVars

\* What waits in the buffer was sent.
LEMMA BufferPlain ==
  ASSUME IInv, Multilines = {}
  PROVE  \A k \in 1 .. Len(buffer) : ~Multiline(buffer[k])
<1>1. /\ Carried /\ buffer \in Seq(Spoken) /\ sent \in Seq(Spoken) /\ DOMAIN buffer = 1 .. Len(buffer)
  BY DEF IInv, Types0, ClientTypes, LogTypes
<1> SUFFICES ASSUME NEW k \in 1 .. Len(buffer), Multiline(buffer[k]) PROVE FALSE
  OBVIOUS
<1>2. PICK p \in Good : p = buffer[k] /\ p \in Spoken
  BY <1>1 DEF Spoken
<1>3. At(2, k, Encode(AsRead(p)))
  BY <1>1, <1>2 DEF At
<1>4. AsRead(p) \in Spoken /\ AsRead(p) \in Good
  BY <1>2, Plain DEF Spoken
<1>5. Encode(AsRead(p)) # Beating
  BY <1>4, Beats, OneText DEF Beating, Spoken
<1>6. PICK s \in Range(sent) : Encode(AsRead(p)) = Encode(AsRead(s))
  BY <1>1, <1>3, <1>5 DEF Carried
<1>7. s \in Good
  BY <1>1, RangeOf DEF Spoken
<1>8. AsRead(p) = AsRead(s)
  BY <1>4, <1>6, <1>7, OneText, Reading
<1>9. Multiline(s)
  BY <1>2, <1>7, <1>8, Reading
<1> QED BY <1>6, <1>9 DEF Multilines

LEMMA BackFromTexts ==
  ASSUME NEW ps \in Seq(Good), NEW n \in Nat, n = Len(ps), \A k \in 1 .. n : ~Multiline(ps[k])
  PROVE  ReadBack(ReadTexts(ps, n)) = ps
<1>1. \A k \in 1 .. n : ps[k] \in Good
  OBVIOUS
<1>2. \A k \in 1 .. n : ClientDecode(Encode(AsRead(ps[k]))) = ps[k]
  BY <1>1, Reading, Codec
<1>3. PICK t : t = ReadTexts(ps, n)
  OBVIOUS
<1>4. Len(t) = n /\ \A k \in 1 .. n : t[k] = Encode(AsRead(ps[k]))
  <2>1. n \in 0 .. Len(ps)
    OBVIOUS
  <2> QED BY <1>3, <2>1, TextsCoded
<1>5. ReadBack(t) = [k \in 1 .. n |-> ps[k]]
  BY <1>2, <1>4 DEF ReadBack
<1>6. ps = [k \in 1 .. n |-> ps[k]]
  OBVIOUS
<1> QED BY <1>3, <1>5, <1>6

\* The only POST there is.
LEMMA OnlyPost ==
  ASSUME posts \in Seq(PostType), NEW i \in DOMAIN posts, Len(posts) <= 1
  PROVE  i = 1 /\ Len(posts) = 1 /\ DOMAIN posts = {1} /\ posts # << >> /\ posts[1] \in PostType
<1>1. Len(posts) \in Nat /\ DOMAIN posts = 1 .. Len(posts) /\ \A j \in DOMAIN posts : posts[j] \in PostType
  OBVIOUS
<1>2. i \in 1 .. Len(posts)
  BY <1>1
<1>3. i = 1 /\ Len(posts) = 1
  BY <1>1, <1>2
<1>4. DOMAIN posts = {1}
  BY <1>1, <1>3
<1>5. posts # << >>
  <2>1. Len(<< >>) = 0
    OBVIOUS
  <2> QED BY <1>3, <2>1
<1> QED BY <1>1, <1>3, <1>4, <1>5

LEMMA FlushWire ==
  ASSUME IInv, NEW i \in DOMAIN posts, PostDone(i), ~crossed', Multilines = {}, Len(posts) <= 1
  PROVE  Len(posts') <= 1 /\ UpWire' = UpWire
<1>1. /\ posts[i].served /\ buffer' = << >> /\ server_queue' = server_queue
      /\ Flushes(RemoveAt(posts, i)) /\ Types0
  BY FlushSteps DEF serverVars, IInv
<1>2. PICK q \in Seq(Coded), b \in Seq(Good) :
        q = server_queue /\ b = buffer /\ posts \in Seq(PostType)
  BY <1>1, UpWireFacts
<1>3. i = 1 /\ Len(posts) = 1
  BY <1>2, OnlyPost
<1>4. PICK others \in Seq(PostType) : others = RemoveAt(posts, i) /\ Len(others) = 0
  <2>1. RemoveAt(posts, i) \in Seq(PostType) /\ Len(RemoveAt(posts, i)) = Len(posts) - 1
    BY <1>2, Removed
  <2>2. Len(RemoveAt(posts, i)) = 0
    BY <1>3, <2>1
  <2> QED BY <2>1, <2>2
<1>5. others = << >>
  BY <1>4
<1>6. UpWire = ReadBack(q) \o b
  <2>1. InPost = << >>
    BY <1>1, <1>3 DEF InPost
  <2>2. q \o << >> = q
    OBVIOUS
  <2> QED BY <1>2, <2>1, <2>2 DEF UpWire
<1>7. PICK r \in Seq(Good) : r = ReadBack(q)
  BY ReadBackFacts
<1>8. CASE buffer = << >> /\ posts' = others
  <2>1. InPost' = << >> /\ Len(<< >>) <= 1
    BY <1>5, <1>8 DEF InPost
  <2>2. q \o << >> = q
    OBVIOUS
  <2>3. UpWire' = ReadBack(q) \o << >>
    BY <1>1, <1>2, <2>1, <2>2 DEF UpWire
  <2> QED BY <1>2, <1>5, <1>6, <1>8, <2>1, <2>3
<1>9. CASE buffer # << >> /\ ~(buffer = << >> /\ posts' = others)
  <2>1. PICK text \in Text, m \in 1 .. Len(buffer) :
          /\ PostOn(others, text) /\ Taken(text) = ReadTexts(buffer, m)
          /\ (\A k \in 1 .. Len(buffer) : ~Multiline(buffer[k])) => m = Len(buffer)
    BY <1>1, <1>4, <1>9 DEF Flushes
  <2>2. Len(posts') = 1 /\ InPost' = Taken(text)
    BY <2>1, Alone
  <2>3. PICK n \in Nat : n = Len(b)
    OBVIOUS
  <2>4. m = n /\ \A k \in 1 .. n : ~Multiline(b[k])
    BY <1>2, <2>1, <2>3, BufferPlain
  <2>5. PICK t \in Seq(Coded) : t = ReadTexts(b, n) /\ InPost' = t
    <3>1. n \in 0 .. Len(b)
      BY <2>3
    <3>2. ReadTexts(b, n) \in Seq(Coded)
      BY <3>1, TextsCoded
    <3> QED BY <1>2, <2>1, <2>2, <2>4, <3>2
  <2>6. ReadBack(t) = b
    BY <2>3, <2>4, <2>5, BackFromTexts
  <2>7. ReadBack(q \o t) = r \o b
    BY <1>7, <2>6, ReadBackConcat
  <2>8. (r \o b) \o << >> = r \o b
    <3>1. r \o b \in Seq(Good)
      OBVIOUS
    <3> QED BY <3>1
  <2>9. UpWire' = (r \o b) \o << >>
    BY <1>1, <1>2, <2>5, <2>7 DEF UpWire
  <2> QED BY <1>6, <1>7, <2>2, <2>8, <2>9
<1> QED BY <1>1, <1>4, <1>8, <1>9 DEF Flushes

LEMMA ServeWire ==
  ASSUME IInv, NEW i \in DOMAIN posts, ServePost(i), Len(posts) <= 1
  PROVE  Len(posts') <= 1 /\ UpWire' = UpWire
<1>1. /\ ~posts[i].served /\ posts' = [posts EXCEPT ![i].served = TRUE] /\ buffer' = buffer
      /\ server_queue' = server_queue \o Taken(posts[i].text) /\ Types0
  BY DEF ServePost, Taken, IInv, clientVars
<1>2. PICK q \in Seq(Coded), j \in Seq(Coded), b \in Seq(Good) :
        q = server_queue /\ j = InPost /\ b = buffer /\ posts \in Seq(PostType)
  BY <1>1, UpWireFacts
<1>3. i = 1 /\ Len(posts) = 1 /\ DOMAIN posts = {1}
  BY <1>2, OnlyPost
<1>4. posts # << >> /\ Len(<< >>) = 0
  BY <1>2, OnlyPost
<1>5. j = Taken(posts[1].text)
  BY <1>1, <1>2, <1>3, <1>4 DEF InPost
<1>6. DOMAIN posts' = {1} /\ Len(posts') = 1 /\ posts'[1] = [posts[1] EXCEPT !.served = TRUE]
  BY <1>1, <1>2, <1>3
<1>7. posts[1] \in PostType
  BY <1>2, OnlyPost
<1>8. posts'[1].served = TRUE
  BY <1>6, <1>7 DEF PostType
<1>9. posts'[1].served
  BY <1>8, Zenon
<1>10. InPost' = << >>
  BY <1>9 DEF InPost
<1>11. server_queue' \o InPost' = q \o j
  <2>1. q \o j \in Seq(Coded)
    OBVIOUS
  <2>2. (q \o j) \o << >> = q \o j
    BY <2>1
  <2> QED BY <1>1, <1>2, <1>3, <1>5, <1>10, <2>2
<1>12. UpWire' = UpWire
  BY <1>1, <1>2, <1>11 DEF UpWire
<1> QED BY <1>6, <1>12

LEMMA SpokenFirst ==
  /\ \A p \in Spoken, s, t \in Seq(Spoken) : Append(s, p) \o t = s \o (<<p>> \o t)
  /\ \A p \in Good, t \in Seq(Good) :
       Keep(<<p>> \o t, Spoken) = IF p \in Spoken THEN <<p>> \o Keep(t, Spoken) ELSE Keep(t, Spoken)
<1>1. ASSUME NEW p \in Spoken, NEW s \in Seq(Spoken), NEW t \in Seq(Spoken)
      PROVE  Append(s, p) \o t = s \o (<<p>> \o t)
  BY AppendConcat
<1>2. ASSUME NEW p \in Good, NEW t \in Seq(Good)
      PROVE  Keep(<<p>> \o t, Spoken) = IF p \in Spoken THEN <<p>> \o Keep(t, Spoken) ELSE Keep(t, Spoken)
  BY KeepHead
<1> QED BY <1>1, <1>2

\* The first of what is ahead is the one after all that was logged.
LEMMA FirstAhead ==
  /\ \A r \in Seq(Spoken), p \in Spoken :
       r # << >> => Append(r, p) # << >> /\ Append(r, p)[1] = r[1]
  /\ \A h, r \in Seq(Spoken) :
       r # << >> => Len(h) + 1 \in DOMAIN (h \o r) /\ (h \o r)[Len(h) + 1] = r[1]
  OBVIOUS

\* What the receiver loop takes was the first on its way.
LEMMA ReceiveWire ==
  ASSUME IInv, Receive, NEW rest \in Seq(Spoken), sent = got \o rest,
         Ahead(rest)
  PROVE  /\ posts' = posts
         /\ \E r \in Seq(Spoken) : sent' = got' \o r /\ Ahead(r)'
<1>1. /\ receiving /\ server_queue # << >> /\ server_queue' = Tail(server_queue)
      /\ posts' = posts /\ buffer' = buffer /\ sent' = sent /\ Types0
  BY ReceiveSteps DEF clientVars, netVars, IInv
<1>2. PICK q \in Seq(Coded), i \in Seq(Coded), b \in Seq(Good), h \in Seq(Spoken) :
        q = server_queue /\ i = InPost /\ b = buffer /\ h = got
  BY <1>1, UpWireFacts
<1>3. PICK x \in Coded, t \in Seq(Coded) : x = Head(q) /\ t = Tail(q) /\ q = <<x>> \o t
  <2>1. q # << >>
    BY <1>1, <1>2
  <2>2. Head(q) \in Coded /\ Tail(q) \in Seq(Coded) /\ q = <<Head(q)>> \o Tail(q)
    BY <2>1, HeadTail
  <2> QED BY <2>2
<1>4. InPost' = i
  BY <1>1, <1>2 DEF InPost
<1>5. PICK w \in Seq(Coded) : w = t \o i
  <2>1. t \o i \in Seq(Coded)
    OBVIOUS
  <2> QED BY <2>1
<1>6. q \o i = <<x>> \o w
  <2>1. (<<x>> \o t) \o i = <<x>> \o (t \o i)
    OBVIOUS
  <2> QED BY <1>3, <1>5, <2>1
<1>7. PICK u \in Seq(Good), y \in Good : u = ReadBack(w) /\ y = ClientDecode(x)
  BY ReadBackFacts, CodedFacts
<1>8. ReadBack(q \o i) = <<y>> \o u
  <2>1. PICK z \in Seq(Coded) : z = <<x>> \o w
    <3>1. <<x>> \o w \in Seq(Coded)
      OBVIOUS
    <3> QED BY <3>1
  <2>2. z # << >> /\ Head(z) = x /\ Tail(z) = w
    BY <2>1
  <2> QED BY <1>6, <1>7, <2>1, <2>2, ReadBackFacts
<1>9. PICK v \in Seq(Good) : v = u \o b
  <2>1. u \o b \in Seq(Good)
    OBVIOUS
  <2> QED BY <2>1
<1>10. UpWire' = v
  BY <1>1, <1>2, <1>3, <1>4, <1>5, <1>7, <1>9 DEF UpWire
<1>11. UpWire = <<y>> \o v
  <2>1. UpWire = (<<y>> \o u) \o b
    BY <1>2, <1>8 DEF UpWire
  <2>2. (<<y>> \o u) \o b = <<y>> \o (u \o b)
    OBVIOUS
  <2> QED BY <1>9, <2>1, <2>2
<1>12. PICK k \in Seq(Spoken) : k = Keep(v, Spoken)
  BY KeepSpoken
<1>13. rest = IF y \in Spoken THEN <<y>> \o k ELSE k
  <2>1. Keep(<<y>> \o v, Spoken) = IF y \in Spoken THEN <<y>> \o Keep(v, Spoken) ELSE Keep(v, Spoken)
    BY SpokenFirst, Zenon
  <2>2. rest = Keep(UpWire, Spoken)
    BY <1>1 DEF Ahead
  <2> QED BY <1>11, <1>12, <2>1, <2>2
<1>14. CASE x = Beating /\ got' = got /\ receiving' = receiving
  <2>1. y \notin Spoken
    BY <1>7, <1>14, CodedFacts
  <2>2. k = rest
    BY <1>13, <2>1
  <2>3. sent' = got' \o k
    BY <1>1, <1>14, <2>2
  <2>4. Ahead(k)'
    BY <1>10, <1>12, <1>1, <1>14 DEF Ahead
  <2> QED BY <1>1, <2>3, <2>4
<1>15. CASE receiving' = FALSE /\ got' = got /\ \E s \in Spoken : Plus(s) /\ x = Encode(s)
  <2>1. ~receiving'
    BY <1>15, Zenon
  <2>2. PICK s \in Spoken : Plus(s) /\ x = Encode(s)
    BY <1>15
  <2>3. y = s
    BY <1>7, <2>2, Codec DEF Spoken
  <2>4. rest = <<s>> \o k
    BY <1>13, <2>2, <2>3
  <2>5. rest # << >> /\ rest[1] = s
    BY <2>4
  <2>6. Ahead(rest)'
    BY <2>1, <2>2, <2>5 DEF Ahead
  <2> QED BY <1>1, <1>15, <2>6
<1>16. CASE \E g : Decodes(g)
  <2>1. PICK g \in Spoken : x = Encode(g) /\ got' = Append(h, g)
    BY <1>2, <1>3, <1>16 DEF Decodes
  <2>2. y = g
    BY <1>7, <2>1, Codec DEF Spoken
  <2>3. rest = <<g>> \o k
    BY <1>13, <2>1, <2>2
  <2>4. sent = Append(h, g) \o k
    <3>1. Append(h, g) \o k = h \o (<<g>> \o k)
      BY SpokenFirst, Zenon
    <3>2. sent = h \o rest
      BY <1>2
    <3> QED BY <2>3, <3>1, <3>2
  <2>5. receiving'
    BY <1>1, <1>16, Zenon DEF Decodes
  <2>6. Ahead(k)'
    BY <1>10, <1>12, <2>5 DEF Ahead
  <2> QED BY <1>1, <1>2, <2>1, <2>4, <2>6
<1>17. \/ x = Beating /\ got' = got /\ receiving' = receiving
       \/ receiving' = FALSE /\ got' = got /\ \E s \in Spoken : Plus(s) /\ x = Encode(s)
       \/ \E g : Decodes(g)
  BY <1>2, <1>3, ReceiveSteps
<1> QED BY <1>14, <1>15, <1>16, <1>17

\* A heartbeat that crosses nothing is not one of the packets that the server logs.
LEMMA BeatWire ==
  ASSUME IInv, PostOn(posts, Beating), ~crossed', buffer' = buffer, server_queue' = server_queue
  PROVE  Len(posts') <= 1 /\ Keep(UpWire', Spoken) = Keep(UpWire, Spoken)
<1>1. Types0
  BY DEF IInv
<1>2. PICK q \in Seq(Coded), b \in Seq(Good) :
        q = server_queue /\ b = buffer /\ posts \in Seq(PostType)
  BY <1>1, UpWireFacts
<1>3. posts = << >> /\ Len(posts') = 1 /\ InPost' = <<Beating>>
  BY <1>2, Alone, PostBeat
<1>4. PICK r \in Seq(Good) : r = ReadBack(q)
  BY ReadBackFacts
<1>5. q \o << >> = q /\ q \o <<Beating>> = Append(q, Beating)
  BY CodedFacts
<1>6. InPost = << >>
  BY <1>3 DEF InPost
<1>7. UpWire = r \o b
  BY <1>2, <1>4, <1>5, <1>6 DEF UpWire
<1>8. ReadBack(Append(q, Beating)) = Append(r, Heartbeat)
  BY <1>4, ReadBackFacts, CodedFacts, Beats
<1>9. UpWire' = Append(r, Heartbeat) \o b
  BY <1>2, <1>3, <1>5, <1>8 DEF UpWire
<1>10. Heartbeat \notin Spoken /\ Heartbeat \in Good
  BY Beats DEF Spoken
<1>11. Keep(Append(r, Heartbeat), Spoken) = Keep(r, Spoken)
  BY <1>10, KeepSpoken
<1>12. Append(r, Heartbeat) \in Seq(Good)
  BY <1>10
<1>13. Keep(Append(r, Heartbeat) \o b, Spoken) = Keep(r \o b, Spoken)
  <2>1. Keep(Append(r, Heartbeat) \o b, Spoken) = Keep(Append(r, Heartbeat), Spoken) \o Keep(b, Spoken)
    BY <1>12, KeepConcat
  <2>2. Keep(r \o b, Spoken) = Keep(r, Spoken) \o Keep(b, Spoken)
    BY KeepConcat
  <2> QED BY <1>11, <2>1, <2>2
<1>14. Len(posts') <= 1
  BY <1>3
<1> QED BY <1>7, <1>9, <1>13, <1>14

\* What is submitted is the last on its way.
LEMMA SubmitLine ==
  ASSUME IInv, NEW p \in Spoken, Submit(p), UNCHANGED serverVars, got' = got, ~crossed',
         Multilines' = {}, Len(posts) <= 1, NEW rest \in Seq(Spoken), sent = got \o rest,
         Ahead(rest)
  PROVE  /\ Len(posts') <= 1
         /\ \E r \in Seq(Spoken) : sent' = got' \o r /\ Ahead(r)'
<1>1. server_queue' = server_queue /\ receiving' = receiving /\ Types0 /\ p \in Good
  BY DEF serverVars, IInv, Spoken
<1>2. PICK h \in Seq(Spoken), s \in Seq(Spoken), u \in Seq(Good) : h = got /\ s = sent /\ u = UpWire
  BY <1>1, UpWireFacts
<1>3. sent' = Append(s, p)
  BY <1>2, SubmitSteps
<1>4. ~Multiline(p)
  <2>1. p \in Range(sent')
    BY <1>3, AppendRange
  <2> QED BY <2>1 DEF Multilines
<1>5. Len(posts') <= 1 /\ UpWire' = Append(u, p)
  BY <1>1, <1>2, <1>4, SubmitWire
<1>6. Keep(UpWire', Spoken) = Append(Keep(u, Spoken), p)
  BY <1>1, <1>5, KeepSpoken
<1>7. s = h \o rest
  BY <1>2
<1>8. Append(h \o rest, p) = h \o Append(rest, p) /\ Append(rest, p) \in Seq(Spoken)
  <2>1. Append(rest, p) \in Seq(Spoken)
    OBVIOUS
  <2>2. \A t1 \in Seq(Spoken) : h \o Append(t1, p) = Append(h \o t1, p)
    OBVIOUS
  <2> QED BY <2>1, <2>2
<1>9. sent' = got' \o Append(rest, p)
  BY <1>2, <1>3, <1>7, <1>8
<1>10. Ahead(Append(rest, p))'
  <2>1. CASE receiving
    <3>1. rest = Keep(UpWire, Spoken)
      BY <2>1 DEF Ahead
    <3> QED BY <1>1, <1>2, <1>6, <2>1, <3>1 DEF Ahead
  <2>2. CASE ~receiving
    <3>1. rest # << >> /\ Plus(rest[1])
      BY <2>2 DEF Ahead
    <3>2. Append(rest, p) # << >> /\ Append(rest, p)[1] = rest[1]
      BY <3>1, FirstAhead, Zenon
    <3> QED BY <1>1, <2>2, <3>1, <3>2 DEF Ahead
  <2> QED BY <2>1, <2>2
<1> QED BY <1>5, <1>8, <1>9, <1>10

LEMMA UpLineNext == IInv /\ [Next]_vars => UpLine'
<1> SUFFICES ASSUME IInv, [Next]_vars, ~crossed', Multilines' = {}
             PROVE  /\ Len(posts') <= 1
                    /\ \E r \in Seq(Spoken) :
                         sent' = got' \o r /\ Ahead(r)'
  BY DEF UpLine
<1>1. ~crossed /\ Multilines = {} /\ UpLine
  BY Calm DEF IInv
<1>2. PICK rest \in Seq(Spoken) : sent = got \o rest /\ Ahead(rest)
  BY <1>1 DEF UpLine
<1>3. Len(posts) <= 1
  BY <1>1 DEF UpLine
<1>4. ASSUME sent' = sent, got' = got, receiving' = receiving, Len(posts') <= 1,
             Keep(UpWire', Spoken) = Keep(UpWire, Spoken)
      PROVE  /\ Len(posts') <= 1
             /\ \E r \in Seq(Spoken) : sent' = got' \o r /\ Ahead(r)'
  <2>1. Ahead(rest)'
    BY <1>2, <1>4 DEF Ahead
  <2> QED BY <1>2, <1>4, <2>1
<1>5. ASSUME UNCHANGED <<sent, got, receiving, posts, server_queue, buffer>>
      PROVE  Len(posts') <= 1 /\ UpWire' = UpWire
  BY <1>3, <1>5 DEF UpWire, InPost
<1>6. CASE ClientSend
  <2>1. PICK p : Speaks(p)
    BY <1>6, ClientSpeaks
  <2>2. p \in Spoken /\ Submit(p) /\ UNCHANGED serverVars /\ got' = got
    BY <1>6, <2>1 DEF Speaks, ClientSend
  <2> QED BY <1>2, <1>3, <2>2, SubmitLine
<1>7. CASE Hear
  <2>1. UNCHANGED serverVars /\ got' = got
    BY <1>7, HearSteps
  <2>2. CASE PostOn(posts, Beating) /\ UNCHANGED <<buffer, sent>>
    <3>1. Len(posts') <= 1 /\ Keep(UpWire', Spoken) = Keep(UpWire, Spoken)
      BY <2>1, <2>2, BeatWire DEF serverVars
    <3> QED BY <1>4, <2>1, <2>2, <3>1 DEF serverVars
  <2>3. CASE \E p : Replies(p)
    BY <1>2, <1>3, <2>1, <2>3, SubmitLine DEF Replies
  <2>4. CASE UNCHANGED <<buffer, netVars, sent>>
    BY <1>4, <1>5, <2>1, <2>4 DEF serverVars, netVars
  <2> QED BY <1>7, <2>2, <2>3, <2>4, HearSteps DEF RunsCallback
<1>8. CASE Receive
  BY <1>2, <1>3, <1>8, ReceiveWire
<1>9. ASSUME NEW i \in DOMAIN posts, PostDone(i)
      PROVE  /\ Len(posts') <= 1
             /\ \E r \in Seq(Spoken) : sent' = got' \o r /\ Ahead(r)'
  <2>1. sent' = sent /\ got' = got /\ receiving' = receiving
    BY <1>9, FlushSteps DEF serverVars, upLog
  <2>2. Len(posts') <= 1 /\ UpWire' = UpWire
    BY <1>1, <1>3, <1>9, FlushWire
  <2> QED BY <1>4, <2>1, <2>2
<1>10. ASSUME NEW i \in DOMAIN posts, ServePost(i)
       PROVE  /\ Len(posts') <= 1
              /\ \E r \in Seq(Spoken) : sent' = got' \o r /\ Ahead(r)'
  <2>1. sent' = sent /\ got' = got /\ receiving' = receiving
    BY <1>10 DEF ServePost, upLog
  <2>2. Len(posts') <= 1 /\ UpWire' = UpWire
    BY <1>3, <1>10, ServeWire
  <2> QED BY <1>4, <2>1, <2>2
<1>11. CASE ServerEmit \/ ConnectionLost \/ Poll \/ Beat \/ UNCHANGED vars
  <2>1. UNCHANGED <<sent, got, receiving, posts, server_queue, buffer>>
    BY <1>11 DEF ServerEmit, ConnectionLost, Poll, Beat, vars, clientVars, netVars, serverVars, upLog
  <2> QED BY <1>4, <1>5, <2>1
<1> QED BY <1>6, <1>7, <1>8, <1>9, <1>10, <1>11, Steps

-----------------------------------------------------------------------------
(* No step doubles what the client says. *)

\* The k-th text of the i-th POST, which is not served.
Waits(ps, i, k, x) ==
  /\ i \in DOMAIN ps /\ ~ps[i].served
  /\ k \in DOMAIN Taken(ps[i].text) /\ x = Taken(ps[i].text)[k]

LEMMA Places ==
  ASSUME Types0, NEW w, NEW k, NEW x, At(w, k, x)
  PROVE  /\ w \in Nat /\ k \in Nat \ {0}
         /\ w = 0 => k \in 1 .. Len(got) /\ x = Encode(got[k])
         /\ w = 1 => k \in 1 .. Len(server_queue) /\ x = server_queue[k]
         /\ w = 2 => k \in 1 .. Len(buffer) /\ x = Encode(AsRead(buffer[k]))
         /\ w > 2 => w - 2 \in 1 .. Len(posts) /\ Waits(posts, w - 2, k, x)
<1>1. /\ DOMAIN got = 1 .. Len(got) /\ Len(got) \in Nat
      /\ DOMAIN buffer = 1 .. Len(buffer) /\ Len(buffer) \in Nat
      /\ DOMAIN server_queue = 1 .. Len(server_queue) /\ Len(server_queue) \in Nat
      /\ DOMAIN posts = 1 .. Len(posts) /\ Len(posts) \in Nat /\ \A i \in DOMAIN posts : posts[i] \in PostType
  BY DEF Types0, ClientTypes, NetTypes, ServerTypes, LogTypes
<1>2. CASE w = 0 /\ k \in DOMAIN got /\ x = Encode(got[k])
  BY <1>1, <1>2
<1>3. CASE w = 1 /\ k \in DOMAIN server_queue /\ x = server_queue[k]
  BY <1>1, <1>3
<1>4. CASE w = 2 /\ k \in DOMAIN buffer /\ x = Encode(AsRead(buffer[k]))
  BY <1>1, <1>4
<1>5. CASE \E i \in DOMAIN posts : w = i + 2 /\ Waits(posts, i, k, x)
  <2>1. PICK i \in DOMAIN posts : w = i + 2 /\ Waits(posts, i, k, x)
    BY <1>5
  <2>2. i \in Nat /\ i > 0 /\ w - 2 = i /\ w > 2
    BY <1>1, <2>1
  <2>3. Taken(posts[i].text) \in Seq(Coded)
    BY <1>1 DEF PostType
  <2>4. k \in DOMAIN Taken(posts[i].text)
    BY <2>1 DEF Waits
  <2>5. k \in Nat \ {0}
    BY <2>3, <2>4
  <2> QED BY <1>1, <2>1, <2>2, <2>5
<1> QED BY <1>2, <1>3, <1>4, <1>5 DEF At, Waits

LEMMA ThePlaces ==
  /\ \A k \in DOMAIN got : At(0, k, Encode(got[k]))
  /\ \A k \in DOMAIN server_queue : At(1, k, server_queue[k])
  /\ \A k \in DOMAIN buffer : At(2, k, Encode(AsRead(buffer[k])))
  /\ \A i, k, x : Waits(posts, i, k, x) => At(i + 2, k, x)
<1>1. \A i, k, x : Waits(posts, i, k, x) => At(i + 2, k, x)
  BY DEF At, Waits
<1> QED BY <1>1 DEF At

\* One more text, which is a heartbeat or that of a packet just sent.
LEMMA OneMoreText ==
  ASSUME Carried, Spread, NEW w0, NEW k0, NEW x0, Range(sent) \subseteq Range(sent'),
         \/ x0 = Beating
         \/ /\ \E p \in Range(sent') : x0 = Encode(AsRead(p))
            /\ \A s \in Range(sent) : x0 # Encode(AsRead(s)),
         \A w, k, x : At(w, k, x)' => At(w, k, x) \/ (w = w0 /\ k = k0 /\ x = x0)
  PROVE  Carried' /\ Spread'
<1>1. Carried'
  <2> SUFFICES ASSUME NEW w, NEW k, NEW x, At(w, k, x)'
               PROVE  x = Beating \/ \E s \in Range(sent') : x = Encode(AsRead(s))
    BY DEF Carried, Beating
  <2>1. CASE At(w, k, x)
    BY <2>1 DEF Carried
  <2>2. CASE x = x0
    BY <2>2
  <2> QED BY <2>1, <2>2
<1>2. Spread'
  <2> SUFFICES ASSUME NEW w1, NEW k1, NEW w2, NEW k2, NEW x, At(w1, k1, x)', At(w2, k2, x)', x # Beating
               PROVE  w1 = w2 /\ k1 = k2
    BY DEF Spread, Beating
  <2>1. ASSUME NEW w, NEW k, At(w, k, x) PROVE x # x0
    <3>1. \E s \in Range(sent) : x = Encode(AsRead(s))
      BY <2>1 DEF Carried
    <3> QED BY <3>1
  <2>2. CASE At(w1, k1, x) /\ At(w2, k2, x)
    BY <2>2 DEF Spread
  <2>3. CASE x = x0
    BY <2>1, <2>3
  <2> QED BY <2>2, <2>3
<1> QED BY <1>1, <1>2

LEMMA NewPlaces ==
  ASSUME NEW w, NEW k, NEW x, At(w, k, x)'
  PROVE  \/ w = 0 /\ k \in DOMAIN got' /\ x = Encode(got'[k])
         \/ w = 1 /\ k \in DOMAIN server_queue' /\ x = server_queue'[k]
         \/ w = 2 /\ k \in DOMAIN buffer' /\ x = Encode(AsRead(buffer'[k]))
         \/ \E i \in DOMAIN posts' : w = i + 2 /\ Waits(posts', i, k, x)
BY DEF At, Waits

LEMMA PostedWaits ==
  ASSUME NEW ps \in Seq(PostType), NEW text, PostOn(ps, text),
         NEW j, NEW k, NEW x, Waits(posts', j, k, x)
  PROVE  \/ Waits(ps, j, k, x)
         \/ j = Len(ps) + 1 /\ k \in DOMAIN Taken(text) /\ x = Taken(text)[k]
<1>1. PICK r : r = [text |-> text, served |-> FALSE] /\ posts' = Append(ps, r)
  BY DEF PostOn
<1>2. /\ Len(ps) \in Nat /\ DOMAIN ps = 1 .. Len(ps) /\ DOMAIN posts' = 1 .. Len(ps) + 1
      /\ posts'[Len(ps) + 1] = r /\ \A i \in 1 .. Len(ps) : posts'[i] = ps[i]
  BY <1>1
<1>3. j \in 1 .. Len(ps) \/ j = Len(ps) + 1
  BY <1>2 DEF Waits
<1>4. CASE j \in 1 .. Len(ps)
  <2>1. posts'[j] = ps[j] /\ j \in DOMAIN ps
    BY <1>2, <1>4
  <2> QED BY <2>1 DEF Waits
<1>5. CASE j = Len(ps) + 1
  <2>1. posts'[j].text = text
    BY <1>1, <1>2, <1>5
  <2> QED BY <1>5, <2>1 DEF Waits
<1> QED BY <1>3, <1>4, <1>5

\* A POST of one text, past the buffer.
LEMMA PostPlaces ==
  ASSUME Types0, NEW text, NEW x0, PostOn(posts, text), Taken(text) = <<x0>>,
         got' = got, server_queue' = server_queue, buffer' = buffer,
         NEW w, NEW k, NEW x, At(w, k, x)'
  PROVE  At(w, k, x) \/ (w = Len(posts) + 3 /\ k = 1 /\ x = x0)
<1>1. posts \in Seq(PostType) /\ Len(posts) \in Nat
  BY DEF Types0, NetTypes
<1>2. CASE \E i \in DOMAIN posts' : w = i + 2 /\ Waits(posts', i, k, x)
  <2>1. PICK i \in DOMAIN posts' : w = i + 2 /\ Waits(posts', i, k, x)
    BY <1>2
  <2>2. CASE Waits(posts, i, k, x)
    BY <2>1, <2>2, ThePlaces
  <2>3. CASE i = Len(posts) + 1 /\ k \in DOMAIN Taken(text) /\ x = Taken(text)[k]
    <3>1. k = 1 /\ x = x0
      BY <2>3
    <3> QED BY <1>1, <2>1, <2>3, <3>1
  <2> QED BY <1>1, <2>1, <2>2, <2>3, PostedWaits
<1> QED BY <1>2, NewPlaces, ThePlaces

LEMMA SubmitSpread ==
  ASSUME IInv, NEW p \in Spoken, Submit(p), got' = got, server_queue' = server_queue,
         \A s \in Range(sent) : AsRead(s) # AsRead(p)
  PROVE  Carried' /\ Spread'
<1>1. Types0 /\ Carried /\ Spread /\ p \in Good
  BY DEF IInv, Spoken
<1>2. sent \in Seq(Spoken) /\ buffer \in Seq(Spoken) /\ Len(buffer) \in Nat /\ DOMAIN buffer = 1 .. Len(buffer)
  BY <1>1 DEF Types0, LogTypes, ClientTypes
<1>3. Range(sent') = Range(sent) \union {p}
  <2>1. sent' = Append(sent, p)
    BY SubmitSteps
  <2> QED BY <1>2, <2>1, AppendRange
<1>4. PICK x0 : x0 = Encode(AsRead(p))
  OBVIOUS
<1>5. \A s \in Range(sent) : x0 # Encode(AsRead(s))
  <2> SUFFICES ASSUME NEW s \in Range(sent), x0 = Encode(AsRead(s)) PROVE FALSE
    OBVIOUS
  <2>1. s \in Good
    BY <1>2, RangeOf DEF Spoken
  <2>2. AsRead(s) \in Good /\ AsRead(p) \in Good
    BY <1>1, <2>1, Reading
  <2>3. AsRead(s) = AsRead(p)
    BY <1>4, <2>2, OneText
  <2> QED BY <2>3
<1>6. Range(sent) \subseteq Range(sent') /\ \E q \in Range(sent') : x0 = Encode(AsRead(q))
  BY <1>3, <1>4
<1>7. CASE PostOn(posts, ClientEncode(p)) /\ buffer' = buffer
  <2>1. Taken(ClientEncode(p)) = <<x0>>
    BY <1>1, <1>4, PostOne
  <2>2. \A w, k, x : At(w, k, x)' => At(w, k, x) \/ (w = Len(posts) + 3 /\ k = 1 /\ x = x0)
    BY <1>1, <1>7, <2>1, PostPlaces
  <2> QED BY <1>1, <1>5, <1>6, <2>2, OneMoreText
<1>8. CASE posts' = posts /\ buffer' = Append(buffer, p)
  <2>1. ASSUME NEW w, NEW k, NEW x, At(w, k, x)'
        PROVE  At(w, k, x) \/ (w = 2 /\ k = Len(buffer) + 1 /\ x = x0)
    <3>1. CASE w = 2 /\ k \in DOMAIN buffer' /\ x = Encode(AsRead(buffer'[k]))
      <4>1. /\ k \in DOMAIN buffer \/ k = Len(buffer) + 1
            /\ k \in DOMAIN buffer => buffer'[k] = buffer[k]
            /\ k = Len(buffer) + 1 => buffer'[k] = p
        BY <1>2, <1>8, <3>1, AppendRange
      <4> QED BY <1>4, <3>1, <4>1, ThePlaces
    <3>2. CASE \E i \in DOMAIN posts' : w = i + 2 /\ Waits(posts', i, k, x)
      BY <1>8, <3>2, ThePlaces
    <3> QED BY <2>1, <3>1, <3>2, NewPlaces, ThePlaces
  <2> QED BY <1>1, <1>5, <1>6, <2>1, OneMoreText
<1> QED BY <1>7, <1>8, SubmitSteps DEF netVars

LEMMA BeatSpread ==
  ASSUME IInv, PostOn(posts, Beating), UNCHANGED <<got, server_queue, buffer, sent>>
  PROVE  Carried' /\ Spread'
<1>1. Types0 /\ Carried /\ Spread
  BY DEF IInv
<1>2. Taken(Beating) = <<Beating>>
  BY PostBeat
<1>3. PICK n : n = Len(posts) + 3
  OBVIOUS
<1>4. \A w, k, x : At(w, k, x)' => At(w, k, x) \/ (w = n /\ k = 1 /\ x = Beating)
  BY <1>1, <1>2, <1>3, PostPlaces
<1>5. Range(sent) \subseteq Range(sent')
  OBVIOUS
<1> QED BY <1>1, <1>4, <1>5, OneMoreText

\* What comes from an old place, was sent.
LEMMA CarriedOn ==
  ASSUME Carried, Range(sent) \subseteq Range(sent'),
         \A w, k, x : At(w, k, x)' /\ x # Beating => \E v, j : At(v, j, x)
  PROVE  Carried'
<1> SUFFICES ASSUME NEW w, NEW k, NEW x, At(w, k, x)', x # Beating
             PROVE  \E s \in Range(sent') : x = Encode(AsRead(s))
  BY DEF Carried, Beating
<1>1. PICK v, j : At(v, j, x)
  OBVIOUS
<1> QED BY <1>1 DEF Carried

\* The texts of a POST go to the end of the queue.
LEMMA ServePlaces ==
  ASSUME Types0, NEW i \in DOMAIN posts, ServePost(i), NEW w, NEW k, NEW x, At(w, k, x)'
  PROVE  \/ At(w, k, x) /\ w # i + 2 /\ (w = 1 => k <= Len(server_queue))
         \/ w = 1 /\ k \in Nat /\ k - Len(server_queue) > 0 /\ At(i + 2, k - Len(server_queue), x)
<1>1. /\ ~posts[i].served /\ posts' = [posts EXCEPT ![i].served = TRUE] /\ buffer' = buffer
      /\ server_queue' = server_queue \o Taken(posts[i].text) /\ got' = got
  BY DEF ServePost, Taken, clientVars, upLog
<1>2. /\ posts \in Seq(PostType) /\ i \in Nat \ {0} /\ DOMAIN posts' = DOMAIN posts
      /\ posts[i] \in PostType /\ \A j \in DOMAIN posts : j # i => posts'[j] = posts[j]
      /\ posts'[i] = [posts[i] EXCEPT !.served = TRUE]
      /\ DOMAIN posts \subseteq Nat \ {0}
  <2>1. posts \in Seq(PostType) /\ DOMAIN posts = 1 .. Len(posts) /\ Len(posts) \in Nat
    BY DEF Types0, NetTypes
  <2> QED BY <1>1, <2>1
<1>3. posts'[i].served
  <2>1. posts'[i].served = TRUE
    BY <1>2 DEF PostType
  <2> QED BY <2>1, Zenon
<1>4. PICK t \in Seq(Coded) : t = Taken(posts[i].text)
  BY <1>2 DEF PostType
<1>5. CASE w = 1 /\ k \in DOMAIN server_queue' /\ x = server_queue'[k]
  <2>1. PICK q \in Seq(Coded), n \in Nat : q = server_queue /\ n = Len(q) /\ DOMAIN q = 1 .. n
    BY DEF Types0, ServerTypes
  <2>2. /\ DOMAIN (q \o t) = 1 .. n + Len(t) /\ Len(t) \in Nat /\ DOMAIN t = 1 .. Len(t)
        /\ \A j \in 1 .. n : (q \o t)[j] = q[j]
        /\ \A j \in 1 .. Len(t) : (q \o t)[n + j] = t[j]
    <3>1. Len(q \o t) = n + Len(t) /\ Len(t) \in Nat /\ q \o t \in Seq(Coded)
      BY <2>1, ConcatFacts
    <3>2. DOMAIN (q \o t) = 1 .. Len(q \o t) /\ DOMAIN t = 1 .. Len(t)
      BY <3>1
    <3> QED BY <2>1, <3>1, <3>2, ConcatFacts
  <2>3. k \in 1 .. n + Len(t) /\ x = (q \o t)[k]
    BY <1>1, <1>4, <1>5, <2>1, <2>2
  <2>4. CASE k \in 1 .. n
    <3>1. x = q[k] /\ k \in DOMAIN server_queue /\ k <= Len(server_queue)
      BY <2>1, <2>2, <2>3, <2>4
    <3>2. w # i + 2
      BY <1>2, <1>5
    <3> QED BY <1>5, <2>1, <3>1, <3>2, ThePlaces
  <2>5. CASE k - n \in 1 .. Len(t)
    <3>1. n + (k - n) = k /\ k - n > 0 /\ k \in Nat
      BY <2>3, <2>5
    <3>2. x = t[k - n] /\ k - n \in DOMAIN t
      BY <2>2, <2>3, <2>5, <3>1
    <3>3. Waits(posts, i, k - n, x)
      BY <1>1, <1>4, <3>2 DEF Waits
    <3> QED BY <1>5, <2>1, <3>1, <3>3, ThePlaces
  <2> QED BY <2>2, <2>3, <2>4, <2>5
<1>6. CASE \E j \in DOMAIN posts' : w = j + 2 /\ Waits(posts', j, k, x)
  <2>1. PICK j \in DOMAIN posts' : w = j + 2 /\ Waits(posts', j, k, x)
    BY <1>6
  <2>2. j # i
    BY <1>3, <2>1 DEF Waits
  <2>3. Waits(posts, j, k, x)
    BY <1>2, <2>1, <2>2 DEF Waits
  <2>4. j \in Nat \ {0}
    BY <1>2
  <2>5. w # i + 2 /\ w # 1
    BY <1>2, <2>1, <2>2, <2>4
  <2> QED BY <2>1, <2>3, <2>5, ThePlaces
<1>7. CASE (w = 0 /\ k \in DOMAIN got' /\ x = Encode(got'[k]))
           \/ (w = 2 /\ k \in DOMAIN buffer' /\ x = Encode(AsRead(buffer'[k])))
  <2>1. At(w, k, x) /\ w \in {0, 2}
    BY <1>1, <1>7, ThePlaces
  <2>2. w # i + 2 /\ w # 1
    BY <1>2, <2>1
  <2> QED BY <2>1, <2>2
<1> QED BY <1>5, <1>6, <1>7, NewPlaces

LEMMA ServeSpread ==
  ASSUME IInv, NEW i \in DOMAIN posts, ServePost(i)
  PROVE  Carried' /\ Spread'
<1>1. Types0 /\ Carried /\ Spread /\ sent' = sent
  BY DEF IInv, ServePost, upLog
<1>2. Carried'
  <2>1. \A w, k, x : At(w, k, x)' => \E v, j : At(v, j, x)
    BY <1>1, ServePlaces
  <2>2. Range(sent) \subseteq Range(sent')
    BY <1>1
  <2> QED BY <1>1, <2>1, <2>2, CarriedOn
<1>3. i \in Nat /\ Len(server_queue) \in Nat
  <2>1. posts \in Seq(PostType) /\ server_queue \in Seq(Coded)
    BY <1>1 DEF Types0, NetTypes, ServerTypes
  <2> QED BY <2>1
<1>4. Spread'
  <2> SUFFICES ASSUME NEW w1, NEW k1, NEW w2, NEW k2, NEW x, At(w1, k1, x)', At(w2, k2, x)', x # Beating
               PROVE  w1 = w2 /\ k1 = k2
    BY DEF Spread, Beating
  <2> DEFINE Stays(w, k) == At(w, k, x) /\ w # i + 2 /\ (w = 1 => k <= Len(server_queue))
             Goes(w, k)  == /\ w = 1 /\ k \in Nat /\ k - Len(server_queue) > 0
                            /\ At(i + 2, k - Len(server_queue), x)
  <2>1. (Stays(w1, k1) \/ Goes(w1, k1)) /\ (Stays(w2, k2) \/ Goes(w2, k2))
    BY <1>1, ServePlaces
  <2>2. CASE Stays(w1, k1) /\ Stays(w2, k2)
    BY <1>1, <2>2 DEF Spread
  <2>3. ASSUME NEW v, NEW j, NEW w, NEW k, Stays(v, j), Goes(w, k) PROVE FALSE
    BY <1>1, <2>3 DEF Spread
  <2>4. CASE Goes(w1, k1) /\ Goes(w2, k2)
    <3>1. k1 - Len(server_queue) = k2 - Len(server_queue)
      BY <1>1, <2>4 DEF Spread
    <3> QED BY <1>3, <2>4, <3>1
  <2> QED BY <2>1, <2>2, <2>3, <2>4
<1> QED BY <1>2, <1>4

\* The POST that is answered held nothing more; the next one takes the buffer.
LEMMA FlushPlaces ==
  ASSUME IInv, NEW i \in DOMAIN posts, PostDone(i), NEW w, NEW k, NEW x, At(w, k, x)'
  PROVE  \/ At(w, k, x) /\ w \in 0 .. i + 1 /\ w # 2
         \/ w \in i + 2 .. Len(posts) + 1 /\ At(w + 1, k, x)
         \/ w = Len(posts) + 2 /\ At(2, k, x)
<1>1. /\ posts[i].served /\ buffer' = << >> /\ server_queue' = server_queue /\ got' = got
      /\ Flushes(RemoveAt(posts, i)) /\ Types0
  BY FlushSteps DEF serverVars, upLog, IInv
<1>2. PICK n \in Nat : n = Len(posts)
  BY <1>1 DEF Types0, NetTypes
<1>3. posts \in Seq(PostType) /\ DOMAIN posts = 1 .. n /\ i \in 1 .. n
  BY <1>1, <1>2 DEF Types0, NetTypes
<1>4. PICK others \in Seq(PostType) :
        /\ others = RemoveAt(posts, i) /\ DOMAIN others = 1 .. n - 1 /\ Len(others) = n - 1
        /\ \A j \in 1 .. n - 1 : others[j] = IF j < i THEN posts[j] ELSE posts[j + 1]
  BY <1>2, <1>3, Removed
<1>5. DOMAIN buffer' = {}
  BY <1>1
<1>6. ASSUME NEW j, w = j + 2, Waits(others, j, k, x)
      PROVE  \/ At(w, k, x) /\ w \in 0 .. i + 1 /\ w # 2
             \/ w \in i + 2 .. n + 1 /\ At(w + 1, k, x)
  <2>1. j \in 1 .. n - 1
    BY <1>4, <1>6 DEF Waits
  <2>2. CASE j < i
    <3>1. Waits(posts, j, k, x)
      <4>1. others[j] = posts[j] /\ j \in DOMAIN posts
        BY <1>3, <1>4, <2>1, <2>2
      <4> QED BY <1>6, <4>1 DEF Waits
    <3> QED BY <1>3, <1>6, <2>1, <2>2, <3>1, ThePlaces
  <2>3. CASE ~(j < i)
    <3>1. Waits(posts, j + 1, k, x)
      <4>1. others[j] = posts[j + 1] /\ j + 1 \in DOMAIN posts
        BY <1>3, <1>4, <2>1, <2>3
      <4> QED BY <1>6, <4>1 DEF Waits
    <3>2. At((j + 1) + 2, k, x)
      BY <3>1, ThePlaces
    <3>3. (j + 1) + 2 = w + 1 /\ w \in i + 2 .. n + 1
      BY <1>3, <1>6, <2>1, <2>3
    <3> QED BY <3>2, <3>3
  <2> QED BY <2>2, <2>3
<1>7. CASE \E j \in DOMAIN posts' : w = j + 2 /\ Waits(posts', j, k, x)
  <2>1. PICK j \in DOMAIN posts' : w = j + 2 /\ Waits(posts', j, k, x)
    BY <1>7
  <2>2. CASE Waits(others, j, k, x)
    BY <1>2, <1>6, <2>1, <2>2
  <2>3. CASE posts' = others
    BY <2>1, <2>2, <2>3
  <2>4. CASE posts' # others
    <3>1. PICK text \in Text, m \in 1 .. Len(buffer) :
            PostOn(others, text) /\ Taken(text) = ReadTexts(buffer, m)
      BY <1>1, <1>4, <2>4 DEF Flushes
    <3>2. CASE j = Len(others) + 1 /\ k \in DOMAIN Taken(text) /\ x = Taken(text)[k]
      <4>1. w = n + 2
        BY <1>4, <2>1, <3>2
      <4>2. k \in 1 .. m /\ x = Encode(AsRead(buffer[k]))
        BY <3>1, <3>2 DEF ReadTexts
      <4>3. k \in DOMAIN buffer
        BY <1>1, <4>2 DEF Types0, ClientTypes
      <4> QED BY <1>2, <4>1, <4>2, <4>3, ThePlaces
    <3> QED BY <2>1, <2>2, <3>1, <3>2, PostedWaits
  <2> QED BY <2>3, <2>4
<1>8. CASE (w = 0 /\ k \in DOMAIN got' /\ x = Encode(got'[k]))
           \/ (w = 1 /\ k \in DOMAIN server_queue' /\ x = server_queue'[k])
  <2>1. At(w, k, x) /\ w \in {0, 1}
    BY <1>1, <1>8, ThePlaces
  <2>2. w \in 0 .. i + 1 /\ w # 2
    BY <1>3, <2>1
  <2> QED BY <2>1, <2>2
<1> QED BY <1>5, <1>7, <1>8, NewPlaces

LEMMA FlushSpread ==
  ASSUME IInv, NEW i \in DOMAIN posts, PostDone(i)
  PROVE  Carried' /\ Spread'
<1>1. Types0 /\ Carried /\ Spread /\ sent' = sent
  BY FlushSteps DEF IInv, upLog
<1>2. Carried'
  <2>1. \A w, k, x : At(w, k, x)' => \E v, j : At(v, j, x)
    BY FlushPlaces
  <2>2. Range(sent) \subseteq Range(sent')
    BY <1>1
  <2> QED BY <1>1, <2>1, <2>2, CarriedOn
<1>3. i \in Nat /\ Len(posts) \in Nat /\ i > 0 /\ i <= Len(posts)
  <2>1. posts \in Seq(PostType)
    BY <1>1 DEF Types0, NetTypes
  <2> QED BY <2>1
<1>4. Spread'
  <2> SUFFICES ASSUME NEW w1, NEW k1, NEW w2, NEW k2, NEW x, At(w1, k1, x)', At(w2, k2, x)', x # Beating
               PROVE  w1 = w2 /\ k1 = k2
    BY DEF Spread, Beating
  <2> DEFINE Was(w, v) == \/ v = w /\ w \in 0 .. i + 1 /\ w # 2
                          \/ w \in i + 2 .. Len(posts) + 1 /\ v = w + 1
                          \/ w = Len(posts) + 2 /\ v = 2
  <2>1. PICK v1, v2 : Was(w1, v1) /\ At(v1, k1, x) /\ Was(w2, v2) /\ At(v2, k2, x)
    <3>1. \A w, k : At(w, k, x)' => \E v : Was(w, v) /\ At(v, k, x)
      BY FlushPlaces
    <3> QED BY <3>1
  <2>2. v1 = v2 /\ k1 = k2
    BY <1>1, <2>1 DEF Spread
  <2>3. w1 = w2
    BY <1>3, <2>1, <2>2
  <2> QED BY <2>2, <2>3
<1> QED BY <1>2, <1>4

\* The first of the queue goes to the log, or nowhere.
LEMMA ReceivePlaces ==
  ASSUME IInv, Receive, NEW w, NEW k, NEW x, At(w, k, x)'
  PROVE  \/ At(w, k, x) /\ w # 1 /\ (w = 0 => k <= Len(got))
         \/ w = 1 /\ k \in Nat \ {0} /\ At(1, k + 1, x)
         \/ w = 0 /\ k = Len(got) + 1 /\ At(1, 1, x)
<1>1. /\ receiving /\ server_queue # << >> /\ server_queue' = Tail(server_queue)
      /\ posts' = posts /\ buffer' = buffer /\ Types0
      /\ got' = got \/ \E g : Decodes(g)
  BY ReceiveSteps DEF clientVars, netVars, IInv
<1>2. server_queue \in Seq(Coded) /\ got \in Seq(Spoken) /\ Len(got) \in Nat /\ DOMAIN got = 1 .. Len(got)
  BY <1>1 DEF Types0, ServerTypes, LogTypes
<1>3. /\ Len(server_queue) \in Nat /\ DOMAIN server_queue = 1 .. Len(server_queue)
      /\ 1 \in DOMAIN server_queue /\ Head(server_queue) = server_queue[1]
      /\ DOMAIN Tail(server_queue) = 1 .. Len(server_queue) - 1
      /\ \A j \in DOMAIN Tail(server_queue) : Tail(server_queue)[j] = server_queue[j + 1]
  BY <1>1, <1>2, HeadTail
<1>4. CASE w = 1 /\ k \in DOMAIN server_queue' /\ x = server_queue'[k]
  <2>1. k \in 1 .. Len(server_queue) - 1 /\ x = server_queue[k + 1]
    BY <1>1, <1>3, <1>4
  <2>2. k \in Nat \ {0} /\ k + 1 \in DOMAIN server_queue
    BY <1>3, <2>1
  <2> QED BY <1>4, <2>1, <2>2, ThePlaces
<1>5. CASE w = 0 /\ k \in DOMAIN got' /\ x = Encode(got'[k])
  <2>1. CASE got' = got
    BY <1>2, <1>5, <2>1, ThePlaces
  <2>2. CASE \E g : Decodes(g)
    <3>1. PICK g \in Spoken : Head(server_queue) = Encode(g) /\ got' = Append(got, g)
      BY <2>2 DEF Decodes
    <3>2. /\ k \in DOMAIN got \/ k = Len(got) + 1
          /\ k \in DOMAIN got => got'[k] = got[k]
          /\ k = Len(got) + 1 => got'[k] = g
      BY <1>2, <1>5, <3>1, AppendRange
    <3>3. CASE k \in DOMAIN got
      BY <1>2, <1>5, <3>2, <3>3, ThePlaces
    <3>4. CASE k = Len(got) + 1
      <4>1. x = server_queue[1]
        BY <1>3, <1>5, <3>1, <3>2, <3>4
      <4> QED BY <1>3, <1>5, <3>4, <4>1, ThePlaces
    <3> QED BY <3>2, <3>3, <3>4
  <2> QED BY <1>1, <2>1, <2>2
<1>6. CASE w = 2 /\ k \in DOMAIN buffer' /\ x = Encode(AsRead(buffer'[k]))
  BY <1>1, <1>6, ThePlaces
<1>7. CASE \E j \in DOMAIN posts' : w = j + 2 /\ Waits(posts', j, k, x)
  <2>1. PICK j \in DOMAIN posts' : w = j + 2 /\ Waits(posts', j, k, x)
    BY <1>7
  <2>2. j \in Nat \ {0}
    <3>1. posts \in Seq(PostType)
      BY <1>1 DEF Types0, NetTypes
    <3> QED BY <1>1, <2>1, <3>1
  <2>3. At(w, k, x)
    BY <1>1, <2>1, ThePlaces
  <2>4. w # 0 /\ w # 1
    BY <2>1, <2>2
  <2> QED BY <2>3, <2>4
<1> QED BY <1>4, <1>5, <1>6, <1>7, NewPlaces

LEMMA ReceiveSpread ==
  ASSUME IInv, Receive
  PROVE  Carried' /\ Spread'
<1>1. Types0 /\ Carried /\ Spread /\ sent' = sent
  BY ReceiveSteps DEF IInv
<1>2. Carried'
  <2>1. \A w, k, x : At(w, k, x)' => \E v, j : At(v, j, x)
    BY ReceivePlaces
  <2>2. Range(sent) \subseteq Range(sent')
    BY <1>1
  <2> QED BY <1>1, <2>1, <2>2, CarriedOn
<1>3. Spread'
  <2> SUFFICES ASSUME NEW w1, NEW k1, NEW w2, NEW k2, NEW x, At(w1, k1, x)', At(w2, k2, x)', x # Beating
               PROVE  w1 = w2 /\ k1 = k2
    BY DEF Spread, Beating
  <2> DEFINE Was(w, k, v, j) == \/ w = v /\ k = j /\ w # 1 /\ (w = 0 => k <= Len(got))
                                \/ w = 1 /\ v = 1 /\ k \in Nat \ {0} /\ j = k + 1
                                \/ w = 0 /\ k = Len(got) + 1 /\ v = 1 /\ j = 1
  <2>1. PICK v1, j1, v2, j2 :
          Was(w1, k1, v1, j1) /\ At(v1, j1, x) /\ Was(w2, k2, v2, j2) /\ At(v2, j2, x)
    <3>1. \A w, k : At(w, k, x)' => \E v, j : Was(w, k, v, j) /\ At(v, j, x)
      BY ReceivePlaces
    <3> QED BY <3>1
  <2>2. v1 = v2 /\ j1 = j2
    BY <1>1, <2>1 DEF Spread
  <2>3. Len(got) \in Nat
    BY <1>1 DEF Types0, LogTypes
  <2> QED BY <2>1, <2>2, <2>3
<1> QED BY <1>2, <1>3

LEMMA SpreadNext == IInv /\ [Next]_vars => Carried' /\ Spread'
<1> SUFFICES ASSUME IInv, [Next]_vars PROVE Carried' /\ Spread'
  OBVIOUS
<1>1. Carried /\ Spread
  BY DEF IInv
<1>2. ASSUME UNCHANGED <<got, server_queue, buffer, posts, sent>>
      PROVE  Carried' /\ Spread'
  BY <1>1, <1>2 DEF Carried, Spread, At, Beating
<1>3. CASE ClientSend
  <2>1. PICK p : Speaks(p)
    BY <1>3, ClientSpeaks
  <2>2. /\ p \in Spoken /\ Submit(p) /\ \A s \in Range(sent) : AsRead(s) # AsRead(p)
        /\ got' = got /\ server_queue' = server_queue
    BY <1>3, <2>1 DEF Speaks, ClientSend, serverVars
  <2> QED BY <2>2, SubmitSpread
<1>4. CASE Hear
  <2>1. got' = got /\ server_queue' = server_queue
    BY <1>4, HearSteps DEF serverVars
  <2>2. CASE PostOn(posts, Beating) /\ UNCHANGED <<buffer, sent>>
    BY <2>1, <2>2, BeatSpread
  <2>3. CASE \E p : Replies(p)
    BY <2>1, <2>3, SubmitSpread DEF Replies
  <2>4. CASE UNCHANGED <<buffer, netVars, sent>>
    BY <1>2, <2>1, <2>4 DEF netVars
  <2> QED BY <1>4, <2>2, <2>3, <2>4, HearSteps DEF RunsCallback
<1>5. CASE ServerEmit \/ ConnectionLost \/ Poll \/ Beat \/ UNCHANGED vars
  <2>1. UNCHANGED <<got, server_queue, buffer, posts, sent>>
    BY <1>5 DEF ServerEmit, ConnectionLost, Poll, Beat, vars, clientVars, netVars, serverVars, upLog
  <2> QED BY <1>2, <2>1
<1> QED BY <1>3, <1>4, <1>5, Steps, ReceiveSpread, ServeSpread, FlushSpread

-----------------------------------------------------------------------------
(* The theorems. *)

LEMMA StepInv == IInv /\ [Next]_vars => IInv'
<1> SUFFICES ASSUME IInv, [Next]_vars PROVE IInv'
  OBVIOUS
<1>1. AllNumbers'
  BY DEF IInv, AllNumbers
<1> QED BY <1>1, TypesNext, UpRestNext, DownRestNext, UpApartNext, UpAcksNext, DownAcksNext,
           DownLineNext, BufferedNext, UpLineNext, SpreadNext, FiredNext, CalledNext, LogsNext
        DEF IInv

LEMMA Invariance == AllNumbers => (Spec => []IInv)
<1> SUFFICES ASSUME AllNumbers PROVE Spec => []IInv
  OBVIOUS
<1>1. Init => IInv
  BY InitInv
<1> QED BY <1>1, StepInv, PTL DEF Spec

\* Every variable has its type.
THEOREM WireTypes == AllNumbers => (Spec => []TypeOK)
<1>1. ASSUME IInv PROVE TypeOK
  <2>1. Types0 /\ UpRest /\ DownRest /\ UpApart /\ DownApart /\ Fired /\ Called
    BY <1>1 DEF IInv
  <2>2. \A s \in {up, down, buffer, hearing, sent, got, emitted, heard} : s \in Seq(PacketType)
    <3>1. \A s : s \in Seq(Spoken) \/ s \in Seq(Good) => s \in Seq(PacketType)
      BY DEF Spoken, Good
    <3> QED BY <2>1, <3>1 DEF Types0, ClientTypes, LogTypes, UpRest, DownRest
  <2>3. \A s \in {up, down, buffer, hearing, sent, got, emitted, heard} :
          \A i \in DOMAIN s : DOMAIN s[i] = DOMAIN Blank
    <3> SUFFICES ASSUME NEW s \in {up, down, buffer, hearing, sent, got, emitted, heard},
                        NEW i \in DOMAIN s
                 PROVE  DOMAIN s[i] = DOMAIN Blank
      OBVIOUS
    <3>1. s \in Seq(PacketType)
      BY <2>2
    <3>2. s[i] \in PacketType
      BY <3>1
    <3> QED BY <3>2, BlankFacts
  <2>4. \A s \in {fired, called} : \A i \in DOMAIN s : DOMAIN s[i] = {"asked", "ack"}
    <3> SUFFICES ASSUME NEW s \in {fired, called}, NEW i \in DOMAIN s
                 PROVE  DOMAIN s[i] = {"asked", "ack"}
      OBVIOUS
    <3>1. s \in Seq(CallType)
      BY <2>1 DEF Fired, Called
    <3>2. s[i] \in CallType
      BY <3>1
    <3> QED BY <3>2 DEF CallType
  <2>5. \A i \in DOMAIN posts : DOMAIN posts[i] = {"text", "served"} /\ posts[i].served \in BOOLEAN
    <3> SUFFICES ASSUME NEW i \in DOMAIN posts
                 PROVE  DOMAIN posts[i] = {"text", "served"} /\ posts[i].served \in BOOLEAN
      OBVIOUS
    <3>1. posts[i] \in PostType
      BY <2>1 DEF Types0, NetTypes
    <3> QED BY <3>1 DEF PostType
  <2>6. \A a \in acks : a.id \in 1 .. ackPackets[a.endpoint]
    <3> SUFFICES ASSUME NEW a \in acks PROVE a.id \in 1 .. ackPackets[a.endpoint]
      OBVIOUS
    <3>1. a \in Range(sent) /\ a.id # 0 /\ sent \in Seq(Spoken)
      BY <2>1 DEF Types0, Callbacks, LogTypes
    <3>2. a.endpoint \in Endpoints /\ a.id <= ackPackets[a.endpoint]
      BY <2>1, <3>1 DEF UpApart
    <3>3. a.id \in Nat
      BY <3>1, RangeOf, Plain DEF Spoken
    <3>4. ackPackets[a.endpoint] \in Nat
      BY <2>1, <3>2 DEF Types0, ClientTypes
    <3> QED BY <3>1, <3>2, <3>3, <3>4
  <2>7. \A a \in ack_callbacks : a.id \in 1 .. ack_counter
    <3> SUFFICES ASSUME NEW a \in ack_callbacks PROVE a.id \in 1 .. ack_counter
      OBVIOUS
    <3>1. a \in Range(emitted) /\ a.id # 0 /\ emitted \in Seq(Spoken) /\ ack_counter \in Nat
      BY <2>1 DEF Types0, Callbacks, LogTypes, ServerTypes
    <3>2. a.id <= ack_counter
      BY <2>1, <3>1 DEF DownApart
    <3>3. a.id \in Nat
      BY <3>1, RangeOf, Plain DEF Spoken
    <3> QED BY <3>1, <3>2, <3>3
  <2>8. /\ connected \in BOOLEAN /\ doBuffer \in BOOLEAN /\ crossed \in BOOLEAN /\ receiving \in BOOLEAN
        /\ ackPackets \in [Endpoints -> Nat] /\ ack_counter \in Nat /\ beats \in 0 .. MaxBeats
    BY <2>1 DEF Types0, ClientTypes, NetTypes, ServerTypes
  <2> QED BY <2>3, <2>4, <2>5, <2>6, <2>7, <2>8 DEF TypeOK
<1> QED BY <1>1, Invariance, PTL

LEMMA OnceBefore ==
  ASSUME NEW T, NEW s \in Seq(T)
  PROVE  \A t \in Seq(T) : Once(s \o t) => Once(s)
<1> SUFFICES ASSUME NEW t \in Seq(T), Once(s \o t) PROVE Once(s)
  OBVIOUS
<1>1. /\ DOMAIN s = 1 .. Len(s) /\ Len(s) \in Nat /\ Len(t) \in Nat
      /\ DOMAIN (s \o t) = 1 .. Len(s) + Len(t)
  OBVIOUS
<1>2. \A i \in DOMAIN s : i \in DOMAIN (s \o t) /\ (s \o t)[i] = s[i]
  BY <1>1, ConcatFacts
<1> QED BY <1>2 DEF Once

LEMMA PrefixOf ==
  ASSUME NEW T, NEW s \in Seq(T)
  PROVE  \A t \in Seq(T) : IsPrefix(s, s \o t)
<1> SUFFICES ASSUME NEW t \in Seq(T) PROVE IsPrefix(s, s \o t)
  OBVIOUS
<1>1. SubSeq(s, 1, Len(s)) = s /\ SubSeq(s \o t, 1, Len(s)) = s
  <2>1. SubSeq(s, 1, Len(s)) = s
    OBVIOUS
  <2> QED BY <2>1, ConcatFacts
<1>2. Len(s) <= Len(s \o t)
  BY ConcatFacts
<1> QED BY <1>1, <1>2 DEF IsPrefix

\* What either side decodes is what the other sent, once; a message of the client in which
\* there is a line feed may be cut behind it.
THEOREM NothingAltered == AllNumbers => (Spec => []Unaltered)
<1>1. ASSUME IInv PROVE Unaltered
  <2>1. Types0 /\ Carried /\ Spread /\ DownLine /\ DownApart
    BY <1>1 DEF IInv
  <2>2. got \in Seq(Spoken) /\ heard \in Seq(Spoken)
    BY <2>1 DEF Types0, LogTypes
  <2>3. Range(got) \subseteq Range(sent) \union {FirstLine(p) : p \in Multilines}
    <3> SUFFICES ASSUME NEW g \in Range(got)
                 PROVE  g \in Range(sent) \union {FirstLine(p) : p \in Multilines}
      OBVIOUS
    <3>1. PICK s \in Range(sent) : g = AsRead(s)
      BY <2>1, GotSent
    <3> QED BY <3>1 DEF AsRead, Multilines
  <2>4. Once(got)
    <3> SUFFICES ASSUME NEW i \in DOMAIN got, NEW j \in DOMAIN got, got[i] = got[j] PROVE i = j
      BY DEF Once
    <3>1. PICK x : x = Encode(got[i])
      OBVIOUS
    <3>2. At(0, i, x) /\ At(0, j, x)
      BY <3>1, ThePlaces
    <3>3. x # Beating
      <4>1. got[i] \in Spoken /\ got[i] \in Good
        BY <2>2 DEF Spoken
      <4>2. got[i] # Heartbeat
        BY <4>1, Beats DEF Spoken
      <4> QED BY <3>1, <4>1, <4>2, Beats, OneText DEF Beating
    <3> QED BY <2>1, <3>2, <3>3 DEF Spread
  <2>5. Once(heard)
    <3>1. PICK rest \in Seq(Spoken) : emitted = heard \o rest
      BY <2>1 DEF DownLine
    <3> QED BY <2>1, <2>2, <3>1, OnceBefore DEF DownApart
  <2>6. Range(heard) \subseteq Range(emitted)
    BY <2>1, HeardEmitted
  <2> QED BY <2>3, <2>4, <2>5, <2>6 DEF Unaltered
<1> QED BY <1>1, Invariance, PTL

\* Each side hears the other in the order in which it spoke: the client always, the server
\* as long as no POST crosses another one and no line feed is sent.
THEOREM InOrderAlways == AllNumbers => (Spec => []InOrder)
<1>1. ASSUME IInv PROVE InOrder
  <2>1. /\ DownLine /\ UpLine /\ got \in Seq(Spoken) /\ heard \in Seq(Spoken)
    BY <1>1 DEF IInv, Types0, LogTypes
  <2>2. IsPrefix(heard, emitted)
    <3>1. PICK rest \in Seq(Spoken) : emitted = heard \o rest
      BY <2>1 DEF DownLine
    <3> QED BY <2>1, <3>1, PrefixOf
  <2>3. ASSUME ~crossed, Multilines = {} PROVE IsPrefix(got, sent)
    <3>1. PICK rest \in Seq(Spoken) : sent = got \o rest
      BY <2>1, <2>3 DEF UpLine
    <3> QED BY <2>1, <3>1, PrefixOf
  <2> QED BY <2>2, <2>3 DEF InOrder
<1> QED BY <1>1, Invariance, PTL

\* The callback of a client's event runs once, with what the handler returned for it.
THEOREM AnswersMatch == AllNumbers => (Spec => []OwnAnswer)
<1>1. ASSUME IInv PROVE OwnAnswer
  BY <1>1 DEF IInv, Fired, OwnAnswer
<1> QED BY <1>1, Invariance, PTL

\* The callback of a server's packet runs once, with what the listener gave to ack() for it.
THEOREM RepliesMatch == AllNumbers => (Spec => []OwnReply)
<1>1. ASSUME IInv PROVE OwnReply
  BY <1>1 DEF IInv, Called, OwnReply
<1> QED BY <1>1, Invariance, PTL

\* Where the receiver loop ends: at an ack with a '+' in its arguments, and, as long as no
\* POST crosses another one and no line feed is sent, at the one that follows all it handled.
THEOREM EndedAtPlus == AllNumbers => (Spec => []EndsAtPlus)
<1>1. ASSUME IInv, ~receiving PROVE EndsAtPlus
  <2>1. LoopLives /\ UpLine /\ got \in Seq(Spoken)
    BY <1>1 DEF IInv, Types0, LogTypes
  <2>2. CASE ~crossed /\ Multilines = {}
    <3>1. PICK rest \in Seq(Spoken) : sent = got \o rest /\ Ahead(rest)
      BY <2>1, <2>2 DEF UpLine
    <3>2. rest # << >> /\ Plus(rest[1])
      BY <1>1, <3>1 DEF Ahead
    <3>3. Len(got) + 1 \in DOMAIN (got \o rest) /\ (got \o rest)[Len(got) + 1] = rest[1]
      BY <2>1, <3>2, FirstAhead, Zenon
    <3>4. Len(got) + 1 \in DOMAIN sent /\ Plus(sent[Len(got) + 1])
      BY <3>1, <3>2, <3>3, Zenon
    <3>5. \E i \in DOMAIN sent : Plus(sent[i]) /\ i = Len(got) + 1
      BY <3>4, Zenon
    <3> QED BY <3>5 DEF EndsAtPlus, Plus
  <2>3. CASE ~(~crossed /\ Multilines = {})
    <3>1. PICK s \in Range(sent) : Plus(s)
      BY <1>1, <2>1 DEF LoopLives
    <3>2. PICK i \in DOMAIN sent : sent[i] = s
      BY DEF Range
    <3> QED BY <2>3, <3>1, <3>2 DEF EndsAtPlus, Plus
  <2> QED BY <2>2, <2>3
<1>2. ASSUME receiving PROVE EndsAtPlus
  BY <1>2 DEF EndsAtPlus
<1>3. IInv => EndsAtPlus
  BY <1>1, <1>2
<1> QED BY <1>3, Invariance, PTL

=============================================================================
