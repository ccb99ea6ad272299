---------------------------- MODULE OutboundProofs ----------------------------
(***************************************************************************)
(* Proofs about Outbound, for every set of consumers, whatever transports  *)
(* they are, and every bound on the messages.                              *)
(***************************************************************************)
EXTENDS Outbound, SublistProofs, FiniteSetTheorems, TLAPS

-----------------------------------------------------------------------------
(* Sequences of messages, and the sets of what is in them. *)

\* Messages rise in a queue, whatever None there is between them.
Rises(s) == \A i, j \in 1 .. Len(s) : i < j /\ s[i] \in Msg /\ s[j] \in Msg => s[i] < s[j]

NoRepeat(s) == \A i, j \in 1 .. Len(s) : s[i] = s[j] => i = j

LEMMA MsgFacts == Msg \subseteq Nat /\ \A n \in Nat : n \in Msg <=> n > 0
BY DEF Msg, None

LEMMA MsgSeqs == ASSUME NEW s \in Seq(Msg) PROVE s \in Seq(Nat)
BY MsgFacts, SeqMono

LEMMA RangeConcat ==
  ASSUME NEW s \in Seq(Nat), NEW t \in Seq(Nat)
  PROVE  Range(s \o t) = Range(s) \union Range(t)
<1>1. /\ Len(s) \in Nat /\ DOMAIN s = 1 .. Len(s) /\ Len(t) \in Nat /\ DOMAIN t = 1 .. Len(t)
      /\ DOMAIN (s \o t) = 1 .. Len(s) + Len(t)
      /\ \A i \in 1 .. Len(s) : (s \o t)[i] = s[i]
      /\ \A i \in 1 .. Len(t) : (s \o t)[Len(s) + i] = t[i]
  OBVIOUS
<1>2. \A i \in 1 .. Len(s) + Len(t) : i \in 1 .. Len(s) \/ i - Len(s) \in 1 .. Len(t)
  BY <1>1
<1>3. \A i \in 1 .. Len(t) : Len(s) + i \in 1 .. Len(s) + Len(t)
  BY <1>1
<1>4. Range(s \o t) \subseteq Range(s) \union Range(t)
  <2> SUFFICES ASSUME NEW i \in 1 .. Len(s) + Len(t)
               PROVE  (s \o t)[i] \in Range(s) \union Range(t)
    BY <1>1 DEF Range
  <2>1. CASE i \in 1 .. Len(s)
    BY <1>1, <2>1 DEF Range
  <2>2. CASE i - Len(s) \in 1 .. Len(t)
    <3>1. (s \o t)[i] = t[i - Len(s)]
      BY <1>1, <2>2
    <3> QED BY <1>1, <2>2, <3>1 DEF Range
  <2> QED BY <1>2, <2>1, <2>2
<1>5. Range(s) \union Range(t) \subseteq Range(s \o t)
  <2>1. \A i \in 1 .. Len(s) : s[i] \in Range(s \o t)
    BY <1>1 DEF Range
  <2>2. \A i \in 1 .. Len(t) : t[i] \in Range(s \o t)
    BY <1>1, <1>3 DEF Range
  <2> QED BY <1>1, <2>1, <2>2 DEF Range
<1> QED BY <1>4, <1>5

LEMMA RangeFacts ==
  ASSUME NEW s \in Seq(Nat)
  PROVE  /\ Range(<<>>) = {} /\ \A x : Range(<<x>>) = {x}
         /\ \A x \in Nat : Range(Append(s, x)) = Range(s) \union {x}
         /\ s # <<>> => /\ Head(s) \in Nat /\ Tail(s) \in Seq(Nat)
                        /\ Range(s) = {Head(s)} \union Range(Tail(s))
         /\ Range(s) \subseteq Nat
         /\ \A x : x \in Range(s) <=> Occurs(s, x)
<1>0. Len(s) \in Nat /\ DOMAIN s = 1 .. Len(s) /\ \A i \in 1 .. Len(s) : s[i] \in Nat
  OBVIOUS
<1>1. \A x : x \in Range(s) <=> Occurs(s, x)
  BY <1>0 DEF Range, Occurs
<1>2. Range(s) \subseteq Nat
  BY <1>0 DEF Range
<1>3. Range(<<>>) = {} /\ \A x : Range(<<x>>) = {x}
  BY DEF Range
<1>4. ASSUME NEW x \in Nat PROVE Range(Append(s, x)) = Range(s) \union {x}
  <2>1. Append(s, x) = s \o <<x>> /\ <<x>> \in Seq(Nat)
    OBVIOUS
  <2> QED BY <1>3, <2>1, RangeConcat
<1>5. ASSUME s # <<>>
      PROVE  /\ Head(s) \in Nat /\ Tail(s) \in Seq(Nat)
             /\ Range(s) = {Head(s)} \union Range(Tail(s))
  <2>1. s = <<Head(s)>> \o Tail(s) /\ <<Head(s)>> \in Seq(Nat) /\ Tail(s) \in Seq(Nat)
        /\ Head(s) \in Nat
    BY <1>5
  <2>2. Range(<<Head(s)>> \o Tail(s)) = Range(<<Head(s)>>) \union Range(Tail(s))
    BY <2>1, RangeConcat
  <2> QED BY <1>3, <2>1, <2>2
<1> QED BY <1>1, <1>2, <1>3, <1>4, <1>5

\* What encode_payload() makes of what was in the queue.
LEMMA PayloadFacts ==
  ASSUME NEW q \in Seq(Nat), q # <<>>
  PROVE  LET p == EncodePayload(q)
         IN  /\ p \in Seq(Msg) /\ p \in Seq(Nat)
             /\ Head(q) = None => p = <<>>
             /\ Head(q) # None => Range(p) = Messages(q) /\ p # <<>>
             /\ None \notin Range(q) => p = q
             /\ Rises(q) => Rises(p)
<1> DEFINE p == EncodePayload(q)
           k == Keep(q, Msg)
<1>1. p = IF Head(q) = None THEN <<>> ELSE k
  BY DEF EncodePayload
<1>2. k \in Seq(Msg) /\ k \in Seq(Nat) /\ \A x \in Msg : Occurs(q, x) <=> Occurs(k, x)
  <2>1. Nat \cap Msg = Msg
    BY MsgFacts
  <2> QED BY <2>1, KeepType
<1>3. Range(k) = Messages(q)
  <2>1. Range(k) \subseteq Msg
    BY <1>2 DEF Range
  <2>2. \A x \in Msg : x \in Range(q) <=> x \in Range(k)
    BY <1>2, RangeFacts
  <2>3. Range(q) \subseteq Nat
    BY RangeFacts
  <2> QED BY <2>1, <2>2, <2>3 DEF Messages, Msg
<1>4. Rises(q) => Rises(k)
  BY <1>2, MsgFacts, KeepRising DEF Rises
<1>5. Head(q) # None => k # <<>>
  <2>1. Head(q) \in Range(q)
    BY RangeFacts
  <2>2. Head(q) # None => Head(q) \in Range(k)
    BY <1>3, <2>1 DEF Messages
  <2> QED BY <2>2, RangeFacts
<1>6. None \notin Range(q) => k = q /\ Head(q) # None
  <2> SUFFICES ASSUME None \notin Range(q) PROVE k = q /\ Head(q) # None
    OBVIOUS
  <2>1. q \in Seq(Msg)
    <3>1. \A i \in 1 .. Len(q) : q[i] \in Msg
      BY DEF Range, Msg
    <3> QED BY <3>1
  <2> QED BY <2>1, KeepAll, RangeFacts
<1>7. << >> \in Seq(Msg) /\ << >> \in Seq(Nat) /\ Rises(<< >>)
  BY DEF Rises
<1> QED BY <1>1, <1>2, <1>3, <1>4, <1>5, <1>6, <1>7

-----------------------------------------------------------------------------
(* The inductive invariant. *)

\* Only the write of a payload has messages in its hand.
HandsEmpty == \A c \in Consumers : pc[c] # "writing" => hand[c] = <<>>

\* What kill() leaves behind: the killalls to come, and one None, behind which there is
\* nothing but messages that were emitted later.
Killed ==
  /\ state # "DISCONNECTING" => killalls = {} /\ None \notin Range(queue)
  /\ mark <= emitted
  /\ \A i, j \in 1 .. Len(queue) : queue[i] = None /\ i < j => queue[j] > mark

\* Messages are queued, written and received once.
Single ==
  /\ Rises(queue) /\ \A c \in Consumers : Rises(hand[c])
  /\ NoRepeat(inbox)

\* Sets of messages: Q queued, I received, H[c] written by c, L lost and D dropped make
\* up those up to n, and no two of them have one in common.
Apart(Q, I, H, L, D, n) ==
  /\ Q \union I \union L \union D \union UNION {H[c] : c \in Consumers} = 1 .. n
  /\ \A m \in Q : m \notin I /\ m \notin L /\ m \notin D /\ \A c \in Consumers : m \notin H[c]
  /\ \A m \in I : m \notin L /\ m \notin D /\ \A c \in Consumers : m \notin H[c]
  /\ \A m \in L : m \notin D /\ \A c \in Consumers : m \notin H[c]
  /\ \A m \in D : \A c \in Consumers : m \notin H[c]
  /\ \A c, d \in Consumers : c # d => \A m \in H[c] : m \notin H[d]

Hands == [c \in Consumers |-> Range(hand[c])]

Spread == Apart(Messages(queue), Range(inbox), Hands, lost, dropped, emitted)

IInv == TypeOK /\ HandsEmpty /\ Killed /\ Single /\ Spread /\ DropsOnlyLate

-----------------------------------------------------------------------------
(* How messages move. *)

LEMMA ApartCovers ==
  ASSUME NEW Q, NEW I, NEW H, NEW L, NEW D, NEW n
  PROVE  Q \union I \union L \union D \union UNION {H[c] : c \in Consumers} = 1 .. n
           <=> \A m : m \in 1 .. n <=> m \in Q \/ m \in I \/ m \in L \/ m \in D
                                       \/ \E c \in Consumers : m \in H[c]
OBVIOUS

LEMMA MoveIn ==
  ASSUME NEW Q, NEW I, NEW H, NEW L, NEW D, NEW n \in Nat, Apart(Q, I, H, L, D, n)
  PROVE  Apart(Q \union {n + 1}, I, H, L, D, n + 1)
<1>1. n + 1 \notin 1 .. n /\ 1 .. n + 1 = 1 .. n \union {n + 1}
  OBVIOUS
<1> DEFINE new == n + 1
<1>2. new \notin 1 .. n /\ 1 .. new = 1 .. n \union {new}
  BY <1>1
<1> HIDE DEF new
<1>3. Apart(Q \union {new}, I, H, L, D, new)
  BY <1>2, ApartCovers DEF Apart
<1> QED BY <1>3 DEF new

LEMMA MoveToHand ==
  ASSUME NEW Q, NEW I, NEW H \in [Consumers -> SUBSET Nat], NEW L, NEW D, NEW n,
         Apart(Q, I, H, L, D, n), NEW c \in Consumers, H[c] = {},
         NEW R \in SUBSET Nat, R \subseteq Q, NEW X, X \subseteq Q, \A m \in X : m \notin R
  PROVE  Apart(Q \ (R \union X), I, [H EXCEPT ![c] = R], L, D \union X, n)
<1> DEFINE G == [H EXCEPT ![c] = R]
<1>1. G[c] = R /\ \A d \in Consumers : d # c => G[d] = H[d]
  OBVIOUS
<1> HIDE DEF G
<1>2. \A m : (\E d \in Consumers : m \in G[d]) <=> m \in R \/ \E d \in Consumers : m \in H[d]
  BY <1>1
<1>3. \A m : m \in 1 .. n <=> m \in Q \/ m \in I \/ m \in L \/ m \in D
                               \/ \E d \in Consumers : m \in H[d]
  BY ApartCovers DEF Apart
<1> DEFINE P == Q \ (R \union X)
           E == D \union X
<1>4. \A m : m \in 1 .. n <=> m \in P \/ m \in I \/ m \in L \/ m \in E
                               \/ \E d \in Consumers : m \in G[d]
  BY <1>2, <1>3
<1>5. P \union I \union L \union E \union UNION {G[d] : d \in Consumers} = 1 .. n
  <2> HIDE DEF P, E
  <2> QED BY <1>4, ApartCovers
<1>6. /\ \A m \in P : m \notin I /\ m \notin L /\ m \notin E /\ m \notin R /\ m \in Q
      /\ \A m \in I : m \notin L /\ m \notin E /\ m \notin R
      /\ \A m \in L : m \notin E /\ m \notin R
      /\ \A m \in E : m \notin R
      /\ \A m \in P \union I \union L \union E \union R : \A d \in Consumers : m \notin H[d]
  BY DEF Apart
<1>7. \A d, e \in Consumers : d # e => \A m \in H[d] : m \notin H[e]
  BY DEF Apart
<1> HIDE DEF P, E
<1>8. \A d, e \in Consumers : d # e => \A m \in G[d] : m \notin G[e]
  BY <1>1, <1>6, <1>7
<1>9. \A m \in P \union I \union L \union E : \A d \in Consumers : m \notin G[d]
  BY <1>1, <1>6
<1>10. Apart(P, I, G, L, E, n)
  BY <1>5, <1>6, <1>8, <1>9 DEF Apart
<1> QED BY <1>10 DEF G, P, E

LEMMA MoveToInbox ==
  ASSUME NEW Q, NEW I, NEW H \in [Consumers -> SUBSET Nat], NEW L, NEW D, NEW n,
         Apart(Q, I, H, L, D, n), NEW c \in Consumers
  PROVE  Apart(Q, I \union H[c], [H EXCEPT ![c] = {}], L, D, n)
<1> DEFINE G == [H EXCEPT ![c] = {}]
           J == I \union H[c]
<1>1. G[c] = {} /\ \A d \in Consumers : d # c => G[d] = H[d]
  OBVIOUS
<1> HIDE DEF G
<1>2. \A m : (\E d \in Consumers : m \in H[d]) <=> m \in H[c] \/ \E d \in Consumers : m \in G[d]
  BY <1>1
<1>3. \A m : m \in 1 .. n <=> m \in Q \/ m \in I \/ m \in L \/ m \in D
                               \/ \E d \in Consumers : m \in H[d]
  BY ApartCovers DEF Apart
<1>4. \A m : m \in 1 .. n <=> m \in Q \/ m \in J \/ m \in L \/ m \in D
                               \/ \E d \in Consumers : m \in G[d]
  BY <1>2, <1>3
<1>5. Q \union J \union L \union D \union UNION {G[d] : d \in Consumers} = 1 .. n
  <2> HIDE DEF J
  <2> QED BY <1>4, ApartCovers
<1>6. /\ \A m \in Q : m \notin J /\ m \notin L /\ m \notin D
      /\ \A m \in J : m \notin L /\ m \notin D
      /\ \A m \in L : m \notin D
  BY DEF Apart
<1>7. \A m \in Q \union J \union L \union D : \A d \in Consumers : m \notin G[d]
  BY <1>1 DEF Apart
<1>8. \A d, e \in Consumers : d # e => \A m \in G[d] : m \notin G[e]
  BY <1>1 DEF Apart
<1> HIDE DEF J
<1>9. Apart(Q, J, G, L, D, n)
  BY <1>5, <1>6, <1>7, <1>8 DEF Apart
<1> QED BY <1>9 DEF G, J

LEMMA MoveToLost ==
  ASSUME NEW Q, NEW I, NEW H \in [Consumers -> SUBSET Nat], NEW L, NEW D, NEW n,
         Apart(Q, I, H, L, D, n), NEW J, J \subseteq Consumers
  PROVE  Apart(Q, I, [c \in Consumers |-> IF c \in J THEN {} ELSE H[c]],
               L \union UNION {H[c] : c \in J}, D, n)
<1> DEFINE G == [c \in Consumers |-> IF c \in J THEN {} ELSE H[c]]
           M == L \union UNION {H[c] : c \in J}
<1>1. \A c \in Consumers : G[c] = IF c \in J THEN {} ELSE H[c]
  OBVIOUS
<1>2. \A m : m \in M <=> m \in L \/ \E c \in J : m \in H[c]
  OBVIOUS
<1> HIDE DEF G, M
<1>3. \A m : m \in L \/ (\E d \in Consumers : m \in H[d])
             <=> m \in M \/ \E d \in Consumers : m \in G[d]
  BY <1>1, <1>2
<1>4. \A m : m \in 1 .. n <=> m \in Q \/ m \in I \/ m \in L \/ m \in D
                               \/ \E d \in Consumers : m \in H[d]
  BY ApartCovers DEF Apart
<1>5. \A m : m \in 1 .. n <=> m \in Q \/ m \in I \/ m \in M \/ m \in D
                               \/ \E d \in Consumers : m \in G[d]
  BY <1>3, <1>4
<1>6. Q \union I \union M \union D \union UNION {G[d] : d \in Consumers} = 1 .. n
  BY <1>5, ApartCovers
<1>7. /\ \A m \in Q : m \notin I /\ m \notin M /\ m \notin D
      /\ \A m \in I : m \notin M /\ m \notin D
      /\ \A m \in M : m \notin D
  BY <1>2 DEF Apart
<1>8. \A m \in Q \union I \union M \union D : \A d \in Consumers : m \notin G[d]
  BY <1>1, <1>2 DEF Apart
<1>9. \A d, e \in Consumers : d # e => \A m \in G[d] : m \notin G[e]
  BY <1>1 DEF Apart
<1>10. Apart(Q, I, G, M, D, n)
  BY <1>6, <1>7, <1>8, <1>9 DEF Apart
<1> QED BY <1>10 DEF G, M

-----------------------------------------------------------------------------
(* What a consumer takes. *)

\* Consumer c takes p from the queue and X is left out, as TakeAll and TakeOne do it.
Takes(c, p, X) ==
  /\ queue # <<>> /\ pc[c] \in {"idle", "waiting"}
  /\ p \in Seq(Msg)
  /\ Rises(queue) => Rises(p)
  /\ hand' = [hand EXCEPT ![c] = p]
  /\ \/ Kind[c] # "websocket" /\ queue' = <<>> /\ p = EncodePayload(queue)
     \/ Kind[c] = "websocket" /\ queue' = Tail(queue)
  /\ X = Messages(queue) \ (Range(p) \union Messages(queue'))
  /\ Range(p) \subseteq Messages(queue) \ X
  /\ Rises(queue) => \A x \in Range(p), y \in Messages(queue') : x < y
  /\ X # {} => Head(queue) = None
  /\ dropped' = dropped \union X
  /\ pc' = [pc EXCEPT ![c] = pc'[c]]
  /\ pc'[c] = "writing" \/ (pc'[c] = "dead" /\ p = <<>> /\ None \in Range(queue))
  /\ UNCHANGED <<sockVars, emitted, inbox, lost, jobs>>

\* A message in front of a queue that rises is before those behind it.
LEMMA TailRises ==
  ASSUME NEW q \in Seq(Nat), q # <<>>, Rises(q)
  PROVE  Rises(Tail(q)) /\ (Head(q) \in Msg => \A y \in Messages(Tail(q)) : Head(q) < y)
<1>1. /\ Len(q) \in Nat /\ Len(q) >= 1 /\ Len(Tail(q)) = Len(q) - 1 /\ Tail(q) \in Seq(Nat)
      /\ Head(q) = q[1]
      /\ \A i \in 1 .. Len(q) - 1 : Tail(q)[i] = q[i + 1] /\ i + 1 \in 1 .. Len(q)
      /\ \A i \in 1 .. Len(q) : q[i] \in Nat
  OBVIOUS
<1>2. \A i, j \in 1 .. Len(q) - 1 : i < j => i + 1 < j + 1
  BY <1>1
<1>3. Rises(Tail(q))
  BY <1>1, <1>2 DEF Rises
<1>4. ASSUME Head(q) \in Msg, NEW y \in Messages(Tail(q)) PROVE Head(q) < y
  <2>1. PICK i \in 1 .. Len(q) - 1 : Tail(q)[i] = y
    BY <1>1 DEF Messages, Range
  <2>2. i + 1 \in 1 .. Len(q) /\ 1 \in 1 .. Len(q) /\ 1 < i + 1 /\ q[i + 1] = y
    BY <1>1, <2>1
  <2>3. q[1] \in Msg /\ q[i + 1] \in Msg
    BY <1>1, <1>4, <2>2 DEF Messages, Msg
  <2> QED BY <1>1, <2>2, <2>3 DEF Rises
<1> QED BY <1>3, <1>4

LEMMA TakeAllTakes ==
  ASSUME TypeOK, NEW c \in Consumers, queue # <<>>, pc[c] \in {"idle", "waiting"},
         Kind[c] # "websocket", TakeAll(c), UNCHANGED <<sockVars, emitted, inbox, lost, jobs>>
  PROVE  \E p, X : Takes(c, p, X)
<1> DEFINE p == EncodePayload(queue)
           X == Messages(queue) \ Range(p)
<1>1. /\ queue' = <<>> /\ hand' = [hand EXCEPT ![c] = p] /\ dropped' = dropped \union X
      /\ pc' = [pc EXCEPT ![c] = IF Kind[c] = "chunk" /\ p = <<>> THEN "dead" ELSE "writing"]
  BY DEF TakeAll
<1>2. /\ p \in Seq(Msg) /\ (Rises(queue) => Rises(p))
      /\ Head(queue) = None => p = <<>>
      /\ Head(queue) # None => Range(p) = Messages(queue) /\ p # <<>>
      /\ queue \in Seq(Nat)
  BY PayloadFacts DEF TypeOK
<1>3. Range(<<>>) = {} /\ Messages(<<>>) = {} /\ Head(queue) \in Range(queue)
  BY <1>2, RangeFacts DEF Messages
<1>4. Range(p) \subseteq Messages(queue) /\ (X # {} => Head(queue) = None)
  BY <1>2, <1>3
<1>5. pc'[c] = IF Kind[c] = "chunk" /\ p = <<>> THEN "dead" ELSE "writing"
  BY <1>1 DEF TypeOK
<1>6. pc'[c] = "writing" \/ (pc'[c] = "dead" /\ p = <<>> /\ None \in Range(queue))
  BY <1>2, <1>3, <1>5
<1> HIDE DEF p
<1>7. Takes(c, p, X)
  BY <1>1, <1>2, <1>3, <1>4, <1>5, <1>6 DEF Takes, p
<1> QED BY <1>7

LEMMA TakeOneTakes ==
  ASSUME TypeOK, HandsEmpty, NEW c \in Consumers, queue # <<>>, pc[c] = "waiting",
         Kind[c] = "websocket", TakeOne(c), UNCHANGED <<sockVars, emitted, inbox, lost, jobs>>
  PROVE  \E p, X : Takes(c, p, X)
<1> DEFINE p == IF Head(queue) = None THEN <<>> ELSE <<Head(queue)>>
<1>1. /\ queue \in Seq(Nat) /\ Head(queue) \in Nat /\ Tail(queue) \in Seq(Nat)
      /\ Range(queue) = {Head(queue)} \union Range(Tail(queue))
  BY RangeFacts DEF TypeOK
<1>2. p \in Seq(Msg) /\ Rises(p) /\ Range(p) = {Head(queue)} \ {None}
  <2>1. CASE Head(queue) = None
    <3>1. << >> \in Seq(Msg) /\ << >> \in Seq(Nat) /\ Rises(<< >>)
      BY DEF Rises
    <3>2. Range(<< >>) = {}
      BY <3>1, RangeFacts
    <3> QED BY <2>1, <3>1, <3>2
  <2>2. CASE Head(queue) # None
    <3>1. <<Head(queue)>> \in Seq(Msg) /\ Len(<<Head(queue)>>) = 1
      BY <1>1, <2>2 DEF Msg
    <3>2. Range(<<Head(queue)>>) = {Head(queue)}
      BY <1>1, RangeFacts
    <3> QED BY <2>2, <3>1, <3>2 DEF Rises
  <2> QED BY <2>1, <2>2
<1>3. hand' = [hand EXCEPT ![c] = p]
  BY DEF TakeOne, HandsEmpty, TypeOK
<1>4. queue' = Tail(queue) /\ dropped' = dropped
  BY DEF TakeOne
<1>5. /\ pc' = [pc EXCEPT ![c] = pc'[c]]
      /\ pc'[c] = "writing" \/ (pc'[c] = "dead" /\ p = <<>> /\ None \in Range(queue))
  BY <1>1 DEF TakeOne, TypeOK
<1>6. Rises(queue) => \A x \in Range(p), y \in Messages(queue') : x < y
  BY <1>1, <1>2, <1>4, TailRises DEF Msg
<1>7. Messages(queue) \ (Range(p) \union Messages(queue')) = {} /\ Range(p) \subseteq Messages(queue)
  BY <1>1, <1>2, <1>4 DEF Messages
<1> HIDE DEF p
<1>8. Takes(c, p, {})
  BY <1>2, <1>3, <1>4, <1>5, <1>6, <1>7 DEF Takes
<1> QED BY <1>8

\* A poll that finds the queue empty waits; otherwise it takes.
LEMMA PollFacts ==
  ASSUME TypeOK, NEW c \in Consumers, Poll(c)
  PROVE  \/ \E p, X : Takes(c, p, X)
         \/ /\ pc[c] = "idle" /\ pc' = [pc EXCEPT ![c] = "waiting"]
            /\ UNCHANGED <<sockVars, msgVars, hand, jobs>>
<1>1. CASE queue # <<>>
  BY <1>1, TakeAllTakes DEF Poll
<1>2. CASE queue = <<>>
  BY <1>2 DEF Poll, msgVars
<1> QED BY <1>1, <1>2

LEMMA TakeTakes ==
  ASSUME TypeOK, HandsEmpty, NEW c \in Consumers, Take(c)
  PROVE  \E p, X : Takes(c, p, X)
<1>1. CASE Kind[c] = "websocket"
  BY <1>1, TakeOneTakes DEF Take
<1>2. CASE Kind[c] # "websocket"
  BY <1>2, TakeAllTakes DEF Take
<1> QED BY <1>1, <1>2

-----------------------------------------------------------------------------
(* Every action keeps the types. *)

LEMMA InitType == Init => TypeOK
<1>1. << >> \in Seq(Nat) /\ << >> \in Seq(Msg)
  OBVIOUS
<1> SUFFICES ASSUME Init PROVE TypeOK
  OBVIOUS
<1>2. pc \in [Consumers -> Pcs] /\ hand \in [Consumers -> Seq(Msg)]
  BY <1>1 DEF Init, Pcs
<1>3. queue \in Seq(Nat) /\ inbox \in Seq(Msg)
  BY <1>1 DEF Init
<1> QED BY <1>2, <1>3 DEF Init, TypeOK

LEMMA TakesType ==
  ASSUME TypeOK, NEW c \in Consumers, NEW p, NEW X, Takes(c, p, X)
  PROVE  TypeOK'
<1>1. /\ pc' = [pc EXCEPT ![c] = pc'[c]] /\ pc'[c] \in Pcs
      /\ hand' = [hand EXCEPT ![c] = p] /\ p \in Seq(Msg)
  BY DEF Takes, Pcs
<1>2. pc' \in [Consumers -> Pcs] /\ hand' \in [Consumers -> Seq(Msg)]
  <2> DEFINE at == pc'[c]
  <2>1. pc' = [pc EXCEPT ![c] = at] /\ at \in Pcs
    BY <1>1
  <2> HIDE DEF at
  <2> QED BY <1>1, <2>1 DEF TypeOK
<1>3. queue' \in Seq(Nat)
  <2>1. queue # <<>> /\ queue \in Seq(Nat) /\ (queue' = <<>> \/ queue' = Tail(queue))
    BY DEF Takes, TypeOK
  <2>2. Tail(queue) \in Seq(Nat) /\ << >> \in Seq(Nat)
    BY <2>1
  <2> QED BY <2>1, <2>2
<1>4. dropped' \subseteq Msg
  <2>1. X \subseteq Messages(queue) /\ dropped' = dropped \union X
    BY DEF Takes
  <2>2. Messages(queue) \subseteq Msg
    BY RangeFacts DEF Messages, Msg, TypeOK
  <2> QED BY <2>1, <2>2 DEF TypeOK
<1>5. UNCHANGED <<sockVars, emitted, inbox, lost, jobs>>
  BY DEF Takes
<1> QED BY <1>2, <1>3, <1>4, <1>5 DEF TypeOK, sockVars

LEMMA NextType == TypeOK /\ HandsEmpty /\ [Next]_vars => TypeOK'
<1> SUFFICES ASSUME TypeOK, HandsEmpty, [Next]_vars PROVE TypeOK'
  OBVIOUS
<1>0. \A c \in Consumers : Range(hand[c]) \subseteq Msg
  BY DEF TypeOK, Range
<1>1. CASE Emit
  BY <1>1, AppendFacts DEF Emit, Put, TypeOK, sockVars, consVars
<1>2. CASE Beat
  BY <1>2, AppendFacts DEF Beat, Put, TypeOK, consVars, Connected
<1>3. CASE Kill
  <2>1. Append(queue, None) \in Seq(Nat)
    BY AppendFacts DEF TypeOK, None
  <2> QED BY <1>3, <2>1 DEF Kill, Shut, TypeOK, consVars
<1>4. CASE Boot
  <2>1. <<emitted', None>> \in Seq(Nat)
    BY <1>4 DEF Boot, Put, TypeOK, None
  <2>2. queue \o <<emitted', None>> \in Seq(Nat)
    BY <2>1 DEF TypeOK
  <2>3. emitted' \in Nat /\ mark' = emitted' /\ notice' = emitted'
    BY <1>4 DEF Boot, Put, Shut, TypeOK
  <2> QED BY <1>4, <2>2, <2>3 DEF Boot, Shut, TypeOK, consVars
<1>5. CASE Detach
  BY <1>5 DEF Detach, TypeOK, msgVars, consVars
<1>6. ASSUME NEW k \in killalls, Reap(k) PROVE TypeOK'
  <2>1. pc' \in [Consumers -> Pcs] /\ hand' \in [Consumers -> Seq(Msg)]
    BY <1>6 DEF Reap, TypeOK, Pcs
  <2>2. lost' \subseteq Msg
    BY <1>0, <1>6 DEF Reap, TypeOK
  <2> QED BY <1>6, <2>1, <2>2 DEF Reap, TypeOK
<1>7. ASSUME NEW c \in Consumers, Connect(c) PROVE TypeOK'
  BY <1>7 DEF Connect, TypeOK, msgVars, consVars
<1>8. ASSUME NEW c \in Consumers, StreamOpen(c) PROVE TypeOK'
  BY <1>8 DEF StreamOpen, TypeOK, sockVars, msgVars, Pcs
<1>9. ASSUME NEW c \in Consumers, StreamSpawn(c) PROVE TypeOK'
  BY <1>9 DEF StreamSpawn, TypeOK, msgVars, Pcs
<1>10. ASSUME NEW c \in Consumers, StreamOpenFails(c) PROVE TypeOK'
  BY <1>10 DEF StreamOpenFails, TypeOK, sockVars, msgVars, Pcs
<1>11. ASSUME NEW c \in Consumers, Poll(c) PROVE TypeOK'
  <2>1. CASE \E p, X : Takes(c, p, X)
    BY <2>1, TakesType
  <2>2. CASE /\ pc' = [pc EXCEPT ![c] = "waiting"]
             /\ UNCHANGED <<sockVars, msgVars, hand, jobs>>
    BY <2>2 DEF TypeOK, sockVars, msgVars, Pcs
  <2> QED BY <1>11, <2>1, <2>2, PollFacts
<1>12. ASSUME NEW c \in Consumers, Take(c) PROVE TypeOK'
  BY <1>12, TakeTakes, TakesType
<1>13. ASSUME NEW c \in Consumers, Timeout(c) PROVE TypeOK'
  BY <1>13 DEF Timeout, TypeOK, sockVars, msgVars, Pcs
<1>14. ASSUME NEW c \in Consumers, WriteOk(c) PROVE TypeOK'
  <2>1. << >> \in Seq(Msg) /\ inbox \o hand[c] \in Seq(Msg)
    BY DEF TypeOK
  <2> QED BY <1>14, <2>1 DEF WriteOk, TypeOK, sockVars, Pcs
<1>15. ASSUME NEW c \in Consumers, WriteFail(c) PROVE TypeOK'
  <2>1. << >> \in Seq(Msg)
    OBVIOUS
  <2> QED BY <1>0, <1>15, <2>1 DEF WriteFail, TypeOK, sockVars, Pcs
<1>16. CASE UNCHANGED vars
  BY <1>16 DEF TypeOK, vars, sockVars, msgVars, consVars
<1> QED BY <1>1, <1>2, <1>3, <1>4, <1>5, <1>6, <1>7, <1>8, <1>9, <1>10, <1>11, <1>12, <1>13,
           <1>14, <1>15, <1>16 DEF Next, Source, Teardown, Opening, Exchange

-----------------------------------------------------------------------------
(* What kill() leaves behind, and whose hands are empty. *)

\* Nothing goes in the queue behind the None of a kill() but a message of later.
LEMMA KilledAppend ==
  ASSUME TypeOK, Killed, NEW n \in Nat, n > mark
  PROVE  \A i, j \in 1 .. Len(Append(queue, n)) :
           Append(queue, n)[i] = None /\ i < j => Append(queue, n)[j] > mark
<1> DEFINE t == Append(queue, n)
<1>1. /\ Len(queue) \in Nat /\ Len(t) = Len(queue) + 1 /\ t[Len(queue) + 1] = n
      /\ \A i \in 1 .. Len(queue) : t[i] = queue[i]
  BY AppendFacts DEF TypeOK
<1> HIDE DEF t
<1>2. ASSUME NEW i \in 1 .. Len(t), NEW j \in 1 .. Len(t), t[i] = None, i < j PROVE t[j] > mark
  <2>1. i \in 1 .. Len(queue)
    BY <1>1, <1>2
  <2>2. CASE j = Len(queue) + 1
    BY <1>1, <2>2
  <2>3. CASE j \in 1 .. Len(queue)
    BY <1>1, <1>2, <2>1, <2>3 DEF Killed
  <2> QED BY <1>1, <2>2, <2>3
<1> QED BY <1>2 DEF t

\* One None at the end of a queue that has none has nothing behind it.
LEMMA NoneLast ==
  ASSUME NEW q \in Seq(Nat), None \notin Range(q)
  PROVE  \A i, j \in 1 .. Len(Append(q, None)) : ~(Append(q, None)[i] = None /\ i < j)
<1> DEFINE t == Append(q, None)
<1>1. /\ Len(q) \in Nat /\ Len(t) = Len(q) + 1
      /\ \A i \in 1 .. Len(q) : t[i] = q[i] /\ q[i] # None
  BY AppendFacts DEF Range, None
<1> HIDE DEF t
<1>2. \A i, j \in 1 .. Len(t) : i < j => i \in 1 .. Len(q)
  BY <1>1
<1> QED BY <1>1, <1>2 DEF t

LEMMA TakesKilled ==
  ASSUME TypeOK, HandsEmpty, Killed, DropsOnlyLate,
         NEW c \in Consumers, NEW p, NEW X, Takes(c, p, X)
  PROVE  HandsEmpty' /\ Killed' /\ DropsOnlyLate'
<1>1. /\ queue \in Seq(Nat) /\ queue # <<>> /\ Len(queue) \in Nat /\ Len(queue) >= 1
      /\ Head(queue) = queue[1]
      /\ Tail(queue) \in Seq(Nat) /\ Len(Tail(queue)) = Len(queue) - 1
      /\ \A i \in 1 .. Len(queue) - 1 : Tail(queue)[i] = queue[i + 1]
  BY DEF Takes, TypeOK
<1>2. UNCHANGED <<state, mark, killalls, emitted>>
  BY DEF Takes, sockVars
<1>3. HandsEmpty'
  <2>1. /\ hand' = [hand EXCEPT ![c] = p]
        /\ \A d \in Consumers : d # c => pc'[d] = pc[d]
        /\ pc'[c] # "writing" => p = <<>>
    <3> DEFINE at == pc'[c]
    <3>1. pc' = [pc EXCEPT ![c] = at] /\ (at # "writing" => p = <<>>)
      BY DEF Takes
    <3> HIDE DEF at
    <3>2. \A d \in Consumers : d # c => pc'[d] = pc[d]
      BY <3>1 DEF TypeOK
    <3> QED BY <3>1, <3>2 DEF Takes, at
  <2> QED BY <2>1 DEF HandsEmpty, TypeOK
<1>4. ASSUME queue' = <<>> PROVE Killed'
  <2>1. None \notin Range(queue') /\ Len(queue') = 0
    BY <1>4, RangeFacts, <1>1
  <2>2. \A i, j \in 1 .. Len(queue') : queue'[i] = None /\ i < j => queue'[j] > mark'
    BY <2>1
  <2>3. state # "DISCONNECTING" => killalls = {}
    BY DEF Killed
  <2> QED BY <1>2, <2>1, <2>2, <2>3 DEF Killed
<1>5. ASSUME queue' = Tail(queue) PROVE Killed'
  <2>1. Range(Tail(queue)) \subseteq Range(queue)
    BY <1>1, RangeFacts
  <2>2. ASSUME NEW i \in 1 .. Len(Tail(queue)), NEW j \in 1 .. Len(Tail(queue)),
               Tail(queue)[i] = None, i < j
        PROVE  Tail(queue)[j] > mark
    <3>1. i + 1 \in 1 .. Len(queue) /\ j + 1 \in 1 .. Len(queue) /\ i + 1 < j + 1
      BY <1>1, <2>2
    <3>2. queue[i + 1] = None /\ queue[j + 1] = Tail(queue)[j]
      BY <1>1, <2>2
    <3> QED BY <3>1, <3>2 DEF Killed
  <2>3. \A i, j \in 1 .. Len(queue') : queue'[i] = None /\ i < j => queue'[j] > mark'
    BY <1>2, <1>5, <2>2
  <2>4. state # "DISCONNECTING" => killalls = {} /\ None \notin Range(queue')
    BY <1>5, <2>1 DEF Killed
  <2> QED BY <1>2, <2>3, <2>4 DEF Killed
<1>6. Killed'
  BY <1>4, <1>5 DEF Takes
<1>7. ASSUME NEW m \in X PROVE state = "DISCONNECTING" /\ m > mark
  <2>1. Head(queue) = None /\ m \in Range(queue) /\ m # None
    BY <1>7 DEF Takes, Messages
  <2>2. state = "DISCONNECTING"
    BY <1>1, <2>1, RangeFacts DEF Killed
  <2>3. PICK j \in 1 .. Len(queue) : queue[j] = m
    BY <1>1, <2>1 DEF Range
  <2>4. 1 \in 1 .. Len(queue) /\ 1 < j
    BY <1>1, <2>1, <2>3
  <2> QED BY <1>1, <2>1, <2>2, <2>3, <2>4 DEF Killed
<1>8. DropsOnlyLate'
  BY <1>2, <1>7 DEF DropsOnlyLate, Takes
<1> QED BY <1>3, <1>6, <1>8

LEMMA NextKilled ==
  TypeOK /\ HandsEmpty /\ Killed /\ DropsOnlyLate /\ [Next]_vars
  => HandsEmpty' /\ Killed' /\ DropsOnlyLate'
<1> SUFFICES ASSUME TypeOK, HandsEmpty, Killed, DropsOnlyLate, [Next]_vars
             PROVE  HandsEmpty' /\ Killed' /\ DropsOnlyLate'
  OBVIOUS
<1>0. queue \in Seq(Nat) /\ emitted \in Nat /\ mark \in Nat /\ mark <= emitted
  BY DEF TypeOK, Killed
<1>1. CASE Emit \/ Beat
  <2>1. /\ queue' = Append(queue, emitted + 1) /\ emitted' = emitted + 1
        /\ UNCHANGED <<state, killalls, mark, dropped, pc, hand>>
    BY <1>1 DEF Emit, Beat, Put, sockVars, consVars
  <2>2. emitted + 1 > mark /\ emitted + 1 \in Nat /\ emitted + 1 # None
    BY <1>0 DEF None
  <2>3. Range(Append(queue, emitted + 1)) = Range(queue) \union {emitted + 1}
    BY <1>0, <2>2, RangeFacts
  <2>4. \A i, j \in 1 .. Len(queue') : queue'[i] = None /\ i < j => queue'[j] > mark
    <3>1. PICK n \in Nat : n = emitted + 1
      BY <2>2
    <3> QED BY <2>1, <2>2, <3>1, KilledAppend
  <2>5. Killed'
    BY <1>0, <2>1, <2>2, <2>3, <2>4 DEF Killed
  <2> QED BY <2>1, <2>5 DEF HandsEmpty, DropsOnlyLate
<1>2. CASE Kill \/ Boot
  <2>1. None \notin Range(queue) /\ dropped = {}
    BY <1>2 DEF Kill, Boot, Connected, Killed, DropsOnlyLate
  <2>2. state' = "DISCONNECTING" /\ mark' = emitted' /\ emitted' \in Nat
        /\ UNCHANGED <<dropped, pc, hand>>
    BY <1>0, <1>2 DEF Kill, Boot, Shut, consVars, Put
  <2>3. \E q \in Seq(Nat) : None \notin Range(q) /\ queue' = Append(q, None)
    <3>1. CASE Kill
      BY <1>0, <2>1, <3>1 DEF Kill
    <3>2. CASE Boot
      <4>1. PICK n \in Nat : n = emitted' /\ n # None
        BY <1>0, <3>2 DEF Boot, Put, None
      <4>2. queue' = Append(Append(queue, n), None) /\ Append(queue, n) \in Seq(Nat)
        <5>1. None \in Nat
          BY DEF None
        <5> QED BY <1>0, <3>2, <4>1, <5>1 DEF Boot
      <4>3. None \notin Range(Append(queue, n))
        BY <1>0, <2>1, <4>1, RangeFacts
      <4> QED BY <4>2, <4>3
    <3> QED BY <1>2, <3>1, <3>2
  <2>4. \A i, j \in 1 .. Len(queue') : ~(queue'[i] = None /\ i < j)
    BY <2>3, NoneLast
  <2> QED BY <2>1, <2>2, <2>4 DEF Killed, HandsEmpty, DropsOnlyLate
<1>3. CASE Detach
  BY <1>3 DEF Detach, HandsEmpty, Killed, DropsOnlyLate, msgVars, consVars
<1>4. ASSUME NEW k \in killalls, Reap(k) PROVE HandsEmpty' /\ Killed' /\ DropsOnlyLate'
  BY <1>4 DEF Reap, HandsEmpty, Killed, DropsOnlyLate
<1>5. ASSUME NEW c \in Consumers, Connect(c) PROVE HandsEmpty' /\ Killed' /\ DropsOnlyLate'
  BY <1>5 DEF Connect, HandsEmpty, Killed, DropsOnlyLate, msgVars, consVars
<1>6. ASSUME NEW c \in Consumers, StreamOpen(c) \/ StreamOpenFails(c)
      PROVE  HandsEmpty' /\ Killed' /\ DropsOnlyLate'
  <2>1. /\ pc[c] \in {"idle", "opening"}
        /\ \A d \in Consumers : d # c => pc'[d] = pc[d]
        /\ UNCHANGED <<sockVars, msgVars, hand>>
    BY <1>6 DEF StreamOpen, StreamOpenFails, TypeOK
  <2> QED BY <2>1 DEF HandsEmpty, Killed, DropsOnlyLate, msgVars, sockVars
<1>7. ASSUME NEW c \in Consumers, StreamSpawn(c) PROVE HandsEmpty' /\ Killed' /\ DropsOnlyLate'
  BY <1>7 DEF StreamSpawn, HandsEmpty, Killed, DropsOnlyLate, TypeOK, msgVars
<1>8. ASSUME NEW c \in Consumers, Poll(c) PROVE HandsEmpty' /\ Killed' /\ DropsOnlyLate'
  <2>1. CASE \E p, X : Takes(c, p, X)
    BY <2>1, TakesKilled
  <2>2. CASE /\ pc[c] = "idle" /\ pc' = [pc EXCEPT ![c] = "waiting"]
             /\ UNCHANGED <<sockVars, msgVars, hand, jobs>>
    BY <2>2 DEF HandsEmpty, Killed, DropsOnlyLate, TypeOK, sockVars, msgVars
  <2> QED BY <1>8, <2>1, <2>2, PollFacts
<1>9. ASSUME NEW c \in Consumers, Take(c) PROVE HandsEmpty' /\ Killed' /\ DropsOnlyLate'
  BY <1>9, TakeTakes, TakesKilled
<1>10. ASSUME NEW c \in Consumers, Timeout(c) PROVE HandsEmpty' /\ Killed' /\ DropsOnlyLate'
  BY <1>10 DEF Timeout, HandsEmpty, Killed, DropsOnlyLate, TypeOK, sockVars, msgVars
<1>11. ASSUME NEW c \in Consumers, WriteOk(c) \/ WriteFail(c)
       PROVE  HandsEmpty' /\ Killed' /\ DropsOnlyLate'
  <2>1. /\ hand'[c] = <<>>
        /\ \A d \in Consumers : d # c => pc'[d] = pc[d] /\ hand'[d] = hand[d]
        /\ UNCHANGED <<sockVars, queue, emitted, dropped>>
    BY <1>11 DEF WriteOk, WriteFail, TypeOK
  <2> QED BY <2>1 DEF HandsEmpty, Killed, DropsOnlyLate, sockVars
<1>12. CASE UNCHANGED vars
  BY <1>12 DEF HandsEmpty, Killed, DropsOnlyLate, vars, sockVars, msgVars, consVars
<1> QED BY <1>1, <1>2, <1>3, <1>4, <1>5, <1>6, <1>7, <1>8, <1>9, <1>10, <1>11, <1>12
        DEF Next, Source, Teardown, Opening, Exchange

-----------------------------------------------------------------------------
(* Where the messages are. *)

LEMMA RisesAppend ==
  ASSUME NEW s \in Seq(Nat), Rises(s), NEW x \in Nat,
         x \in Msg => \A y \in Range(s) : y < x
  PROVE  Rises(Append(s, x))
<1> DEFINE t == Append(s, x)
<1>1. /\ Len(s) \in Nat /\ Len(t) = Len(s) + 1 /\ t[Len(s) + 1] = x
      /\ \A i \in 1 .. Len(s) : t[i] = s[i]
  BY AppendFacts
<1>2. \A i \in 1 .. Len(s) : s[i] \in Range(s)
  BY DEF Range
<1> HIDE DEF t
<1>3. ASSUME NEW i \in 1 .. Len(t), NEW j \in 1 .. Len(t), i < j, t[i] \in Msg, t[j] \in Msg
      PROVE  t[i] < t[j]
  <2>1. i \in 1 .. Len(s)
    BY <1>1, <1>3
  <2>2. CASE j = Len(s) + 1
    BY <1>1, <1>2, <1>3, <2>1, <2>2
  <2>3. CASE j \in 1 .. Len(s)
    BY <1>1, <1>3, <2>1, <2>3 DEF Rises
  <2> QED BY <1>1, <2>2, <2>3
<1>4. Rises(t)
  BY <1>3 DEF Rises
<1> QED BY <1>4 DEF t

LEMMA NoRepeatConcat ==
  ASSUME NEW s \in Seq(Msg), NEW t \in Seq(Msg), NoRepeat(s), Rises(t),
         \A x \in Range(s) : x \notin Range(t)
  PROVE  NoRepeat(s \o t)
<1> DEFINE u == s \o t
<1>1. /\ Len(s) \in Nat /\ Len(t) \in Nat /\ Len(u) = Len(s) + Len(t)
      /\ \A i \in 1 .. Len(s) : u[i] = s[i] /\ s[i] \in Range(s)
      /\ \A i \in 1 .. Len(t) : u[Len(s) + i] = t[i] /\ t[i] \in Range(t) /\ t[i] \in Msg
  BY DEF Range
<1> HIDE DEF u
<1>2. \A i \in 1 .. Len(u) :
         \/ i \in 1 .. Len(s) /\ u[i] = s[i] /\ u[i] \in Range(s)
         \/ i - Len(s) \in 1 .. Len(t) /\ u[i] = t[i - Len(s)] /\ u[i] \in Range(t)
  <2> SUFFICES ASSUME NEW i \in 1 .. Len(u), i \notin 1 .. Len(s)
               PROVE  i - Len(s) \in 1 .. Len(t) /\ u[i] = t[i - Len(s)] /\ u[i] \in Range(t)
    BY <1>1
  <2>1. i - Len(s) \in 1 .. Len(t) /\ Len(s) + (i - Len(s)) = i
    BY <1>1
  <2> QED BY <1>1, <2>1
<1>3. \A i, j \in 1 .. Len(t) : t[i] = t[j] => i = j
  <2> SUFFICES ASSUME NEW i \in 1 .. Len(t), NEW j \in 1 .. Len(t), t[i] = t[j], i # j
               PROVE  FALSE
    OBVIOUS
  <2>1. t[i] \in Msg /\ t[j] \in Msg
    BY <1>1
  <2>2. i < j \/ j < i
    BY <1>1
  <2>3. t[i] < t[j] \/ t[j] < t[i]
    BY <2>1, <2>2 DEF Rises
  <2>4. t[i] \in Nat
    BY <2>1, MsgFacts
  <2> QED BY <2>3, <2>4
<1>4. ASSUME NEW i \in 1 .. Len(u), NEW j \in 1 .. Len(u), u[i] = u[j] PROVE i = j
  <2>1. CASE i \in 1 .. Len(s) /\ u[i] = s[i] /\ u[i] \in Range(s)
    <3>1. j \in 1 .. Len(s) /\ u[j] = s[j]
      BY <1>2, <1>4, <2>1
    <3> QED BY <1>4, <2>1, <3>1 DEF NoRepeat
  <2>2. CASE i - Len(s) \in 1 .. Len(t) /\ u[i] = t[i - Len(s)] /\ u[i] \in Range(t)
    <3>1. j - Len(s) \in 1 .. Len(t) /\ u[j] = t[j - Len(s)]
      BY <1>2, <1>4, <2>2
    <3>2. i - Len(s) = j - Len(s)
      BY <1>3, <1>4, <2>2, <3>1
    <3> QED BY <1>1, <3>2
  <2> QED BY <1>2, <2>1, <2>2
<1>5. NoRepeat(u)
  BY <1>4 DEF NoRepeat
<1> QED BY <1>5 DEF u

\* Nothing is anywhere that was not emitted.
LEMMA Emitted ==
  ASSUME Spread
  PROVE  /\ Messages(queue) \subseteq 1 .. emitted /\ Range(inbox) \subseteq 1 .. emitted
         /\ lost \subseteq 1 .. emitted /\ dropped \subseteq 1 .. emitted
         /\ \A c \in Consumers : Range(hand[c]) \subseteq 1 .. emitted
<1> DEFINE A == Messages(queue)
           B == Range(inbox)
           R(c) == Range(hand[c])
<1>1. A \union B \union lost \union dropped \union UNION {Hands[c] : c \in Consumers} = 1 .. emitted
  BY DEF Spread, Apart
<1>2. \A c \in Consumers : Hands[c] = R(c)
  BY DEF Hands
<1> HIDE DEF A, B, R
<1>3. A \subseteq 1 .. emitted /\ B \subseteq 1 .. emitted
  BY <1>1
<1>4. lost \subseteq 1 .. emitted /\ dropped \subseteq 1 .. emitted
  BY <1>1
<1>5. \A c \in Consumers : R(c) \subseteq 1 .. emitted
  BY <1>1, <1>2
<1> QED BY <1>3, <1>4, <1>5 DEF A, B, R

LEMMA HandsType == TypeOK => Hands \in [Consumers -> SUBSET Nat]
<1> SUFFICES ASSUME TypeOK, NEW c \in Consumers PROVE Range(hand[c]) \subseteq Nat
  BY DEF Hands
<1>1. hand[c] \in Seq(Nat)
  BY MsgSeqs DEF TypeOK
<1> QED BY <1>1, RangeFacts

\* A message that is put.
LEMMA PutMessages ==
  ASSUME TypeOK, Single, Spread, NEW n, n = emitted + 1, emitted' = n,
         queue' = Append(queue, n), UNCHANGED <<inbox, hand, lost, dropped>>
  PROVE  Single' /\ Spread'
<1>1. queue \in Seq(Nat) /\ n \in Nat /\ n # None /\ emitted \in Nat
  BY DEF TypeOK, None
<1>2. Rises(queue')
  <2>1. \A y \in Range(queue) : y < n
    <3>1. \A y \in Range(queue) : y = None \/ y \in 1 .. emitted
      BY Emitted DEF Messages
    <3> QED BY <1>1, <3>1 DEF None
  <2> QED BY <1>1, <2>1, RisesAppend DEF Single
<1>3. Messages(queue') = Messages(queue) \union {n}
  BY <1>1, RangeFacts DEF Messages
<1>4. Spread'
  <2>1. Apart(Messages(queue) \union {n}, Range(inbox), Hands, lost, dropped, n)
    BY <1>1, MoveIn DEF Spread
  <2> QED BY <1>3, <2>1 DEF Spread, Hands
<1> QED BY <1>2, <1>4 DEF Single

\* A None that is put.
LEMMA NoneMessages ==
  ASSUME NEW q \in Seq(Nat), Rises(q)
  PROVE  Rises(Append(q, None)) /\ Messages(Append(q, None)) = Messages(q)
<1>1. None \in Nat /\ None \notin Msg
  BY DEF None, Msg
<1> QED BY <1>1, RisesAppend, RangeFacts DEF Messages

LEMMA TakesMessages ==
  ASSUME TypeOK, HandsEmpty, Single, Spread,
         NEW c \in Consumers, NEW p, NEW X, Takes(c, p, X)
  PROVE  Single' /\ Spread'
<1>1. /\ queue \in Seq(Nat) /\ queue # <<>> /\ p \in Seq(Msg) /\ Rises(queue) /\ Rises(p)
      /\ p \in Seq(Nat)
  BY MsgSeqs DEF Takes, TypeOK, Single
<1>2. hand' = [hand EXCEPT ![c] = p] /\ UNCHANGED <<emitted, inbox, lost>>
      /\ dropped' = dropped \union X /\ (queue' = <<>> \/ queue' = Tail(queue))
  BY DEF Takes
<1>3. Rises(queue')
  <2>1. Rises(<<>>) /\ Rises(Tail(queue))
    BY <1>1, TailRises DEF Rises
  <2> QED BY <1>2, <2>1
<1>4. Single'
  BY <1>1, <1>2, <1>3 DEF Single, TypeOK
<1> DEFINE R == Range(p)
           Q == Messages(queue)
<1>5. Messages(queue') \subseteq Q
  <2>1. Range(Tail(queue)) \subseteq Range(queue) /\ Range(<<>>) = {}
    BY <1>1, RangeFacts
  <2> QED BY <1>2, <2>1 DEF Messages
<1>6. X = Q \ (R \union Messages(queue')) /\ R \subseteq Q \ (X \union Messages(queue'))
  <2>1. R \subseteq Q \ X /\ \A x \in R, y \in Messages(queue') : x < y
    BY <1>1 DEF Takes
  <2>2. \A y \in R : ~(y < y)
    BY <1>1, RangeFacts
  <2>3. X = Q \ (R \union Messages(queue'))
    BY DEF Takes
  <2> QED BY <2>1, <2>2, <2>3
<1>7. Hands[c] = {} /\ Hands' = [Hands EXCEPT ![c] = R]
  <2>1. hand[c] = <<>>
    BY DEF HandsEmpty, Takes
  <2>2. Hands[c] = {}
    BY <1>1, <2>1, RangeFacts DEF Hands
  <2>3. hand'[c] = p /\ \A d \in Consumers : d # c => hand'[d] = hand[d]
    BY <1>2 DEF TypeOK
  <2>4. Hands' = [d \in Consumers |-> IF d = c THEN R ELSE Range(hand[d])]
    BY <2>3 DEF Hands
  <2> QED BY <2>2, <2>4 DEF Hands
<1>8. R \subseteq Nat
  BY <1>1, RangeFacts
<1>9. Apart(Q, Range(inbox), Hands, lost, dropped, emitted) /\ Hands \in [Consumers -> SUBSET Nat]
  BY HandsType DEF Spread
<1>10. Q \ (R \union X) = Messages(queue')
  BY <1>5, <1>6
<1> HIDE DEF R, Q
<1>11. Apart(Q \ (R \union X), Range(inbox), [Hands EXCEPT ![c] = R], lost, dropped \union X, emitted)
  <2>1. R \subseteq Q /\ X \subseteq Q /\ \A m \in X : m \notin R
    BY <1>6
  <2> QED BY <1>7, <1>8, <1>9, <2>1, MoveToHand
<1>12. Spread'
  BY <1>2, <1>7, <1>10, <1>11 DEF Spread
<1> QED BY <1>4, <1>12

LEMMA WriteOkMessages ==
  ASSUME TypeOK, Single, Spread, NEW c \in Consumers, WriteOk(c)
  PROVE  Single' /\ Spread'
<1>1. /\ inbox' = inbox \o hand[c] /\ hand' = [hand EXCEPT ![c] = <<>>]
      /\ UNCHANGED <<queue, emitted, lost, dropped>>
  BY DEF WriteOk
<1>2. /\ inbox \in Seq(Msg) /\ hand[c] \in Seq(Msg) /\ inbox \in Seq(Nat) /\ hand[c] \in Seq(Nat)
      /\ hand'[c] = <<>> /\ \A d \in Consumers : d # c => hand'[d] = hand[d]
  BY <1>1, MsgSeqs DEF TypeOK
<1>3. \A x \in Range(inbox) : x \notin Range(hand[c])
  BY DEF Spread, Apart, Hands
<1>4. NoRepeat(inbox') /\ Range(inbox') = Range(inbox) \union Range(hand[c])
  BY <1>1, <1>2, <1>3, NoRepeatConcat, RangeConcat DEF Single
<1>5. Single'
  <2>1. Rises(<<>>)
    BY DEF Rises
  <2>2. \A d \in Consumers : Rises(hand'[d])
    BY <1>2, <2>1 DEF Single
  <2> QED BY <1>1, <1>4, <2>2 DEF Single
<1>6. Hands' = [Hands EXCEPT ![c] = {}] /\ Hands[c] = Range(hand[c])
  <2>1. Range(<<>>) = {}
    BY <1>2, RangeFacts
  <2>2. Hands' = [d \in Consumers |-> IF d = c THEN {} ELSE Range(hand[d])]
    BY <1>2, <2>1 DEF Hands
  <2> QED BY <2>2 DEF Hands
<1>7. Apart(Messages(queue), Range(inbox) \union Hands[c], [Hands EXCEPT ![c] = {}], lost, dropped,
            emitted)
  BY HandsType, MoveToInbox DEF Spread
<1>8. Spread'
  BY <1>1, <1>4, <1>6, <1>7 DEF Spread
<1> QED BY <1>5, <1>8

\* Consumers that die, or whose write fails, and what they held.
LEMMA LossMessages ==
  ASSUME TypeOK, Single, Spread, NEW J, J \subseteq Consumers,
         hand' = [c \in Consumers |-> IF c \in J THEN <<>> ELSE hand[c]],
         lost' = lost \union UNION {Range(hand[c]) : c \in J},
         UNCHANGED <<queue, emitted, inbox, dropped>>
  PROVE  Single' /\ Spread'
<1>1. Rises(<<>>) /\ Range(<<>>) = {}
  BY DEF Rises, Range
<1>2. Single'
  BY <1>1 DEF Single
<1>3. Hands' = [c \in Consumers |-> IF c \in J THEN {} ELSE Hands[c]]
  BY <1>1 DEF Hands
<1>4. lost' = lost \union UNION {Hands[c] : c \in J}
  BY DEF Hands
<1>5. Apart(Messages(queue), Range(inbox), [c \in Consumers |-> IF c \in J THEN {} ELSE Hands[c]],
            lost \union UNION {Hands[c] : c \in J}, dropped, emitted)
  BY HandsType, MoveToLost DEF Spread
<1>6. Spread'
  BY <1>3, <1>4, <1>5 DEF Spread
<1> QED BY <1>2, <1>6

LEMMA NextMessages ==
  TypeOK /\ HandsEmpty /\ Single /\ Spread /\ [Next]_vars => Single' /\ Spread'
<1> SUFFICES ASSUME TypeOK, HandsEmpty, Single, Spread, [Next]_vars PROVE Single' /\ Spread'
  OBVIOUS
<1>0. queue \in Seq(Nat) /\ emitted \in Nat /\ Rises(queue)
  BY DEF TypeOK, Single
<1>1. CASE Emit \/ Beat
  BY <1>1, PutMessages DEF Emit, Beat, Put, consVars
<1>2. CASE Kill
  <2>1. Rises(queue') /\ Messages(queue') = Messages(queue)
    BY <1>0, <1>2, NoneMessages DEF Kill
  <2> QED BY <1>2, <2>1 DEF Kill, Single, Spread, Hands, consVars
<1>3. CASE Boot
  <2>1. PICK n \in Nat : n = emitted + 1
    BY <1>0
  <2>2. queue' = Append(Append(queue, n), None) /\ emitted' = n /\ Append(queue, n) \in Seq(Nat)
        /\ UNCHANGED <<inbox, hand, lost, dropped>>
    <3>1. None \in Nat
      BY DEF None
    <3> QED BY <1>0, <1>3, <2>1, <3>1 DEF Boot, Put, consVars
  <2>3. \A y \in Range(queue) : y < n
    <3>1. \A y \in Range(queue) : y = None \/ y \in 1 .. emitted
      BY Emitted DEF Messages
    <3> QED BY <1>0, <2>1, <3>1 DEF None
  <2>4. Rises(Append(queue, n))
    BY <1>0, <2>3, RisesAppend
  <2>5. Rises(queue') /\ Messages(queue') = Messages(queue) \union {n}
    <3>1. n # None
      BY <1>0, <2>1 DEF None
    <3>2. Messages(Append(queue, n)) = Messages(queue) \union {n}
      BY <1>0, <3>1, RangeFacts DEF Messages
    <3> QED BY <2>2, <2>4, <3>2, NoneMessages
  <2>6. Apart(Messages(queue) \union {n}, Range(inbox), Hands, lost, dropped, n)
    BY <1>0, <2>1, MoveIn DEF Spread
  <2> QED BY <2>2, <2>5, <2>6 DEF Single, Spread, Hands
<1>4. ASSUME NEW k \in killalls, Reap(k) PROVE Single' /\ Spread'
  BY <1>4, LossMessages DEF Reap, TypeOK
<1>5. ASSUME NEW c \in Consumers, WriteOk(c) PROVE Single' /\ Spread'
  BY <1>5, WriteOkMessages
<1>6. ASSUME NEW c \in Consumers, WriteFail(c) PROVE Single' /\ Spread'
  <2>1. hand' = [d \in Consumers |-> IF d \in {c} THEN <<>> ELSE hand[d]]
    BY <1>6 DEF WriteFail, TypeOK
  <2>2. lost' = lost \union UNION {Range(hand[d]) : d \in {c}}
    BY <1>6 DEF WriteFail
  <2> QED BY <1>6, <2>1, <2>2, LossMessages DEF WriteFail
<1>7. ASSUME NEW c \in Consumers, Take(c) PROVE Single' /\ Spread'
  BY <1>7, TakeTakes, TakesMessages
<1>8. ASSUME UNCHANGED <<msgVars, hand>> PROVE Single' /\ Spread'
  BY <1>8 DEF Single, Spread, Hands, msgVars
<1>9. ASSUME NEW c \in Consumers, Poll(c) PROVE Single' /\ Spread'
  BY <1>8, <1>9, PollFacts, TakesMessages
<1>10. CASE Detach \/ UNCHANGED vars
  BY <1>8, <1>10 DEF Detach, vars, consVars
<1>11. ASSUME NEW c \in Consumers, Opening(c) \/ Timeout(c) PROVE Single' /\ Spread'
  BY <1>8, <1>11 DEF Opening, Connect, StreamOpen, StreamSpawn, StreamOpenFails, Timeout, consVars
<1> QED BY <1>1, <1>2, <1>3, <1>4, <1>5, <1>6, <1>7, <1>9, <1>10, <1>11
        DEF Next, Source, Teardown, Exchange

-----------------------------------------------------------------------------
(* The invariant, and what follows from it. *)

LEMMA InitInv == Init => IInv
<1> SUFFICES ASSUME Init PROVE IInv
  OBVIOUS
<1>1. Range(<<>>) = {} /\ Messages(<<>>) = {} /\ Rises(<<>>) /\ NoRepeat(<<>>)
  BY DEF Range, Messages, Rises, NoRepeat
<1>2. HandsEmpty /\ Killed /\ DropsOnlyLate
  BY <1>1 DEF Init, HandsEmpty, Killed, DropsOnlyLate
<1>3. Single
  BY <1>1 DEF Init, Single
<1>4. Spread
  <2>1. \A c \in Consumers : Hands[c] = {}
    BY <1>1 DEF Init, Hands
  <2>2. 1 .. 0 = {}
    OBVIOUS
  <2> QED BY <1>1, <2>1, <2>2 DEF Init, Spread, Apart
<1> QED BY <1>2, <1>3, <1>4, InitType DEF IInv

\* The inductive invariant of Outbound.
THEOREM Invariance == Spec => []IInv
<1>1. IInv /\ [Next]_vars => IInv'
  BY NextType, NextKilled, NextMessages DEF IInv
<1> QED BY InitInv, <1>1, PTL DEF Spec

\* Whatever consumers take, write and lose, every variable keeps its type: what is written
\* to the client is messages, never the None that kill() puts in the queue.
THEOREM TypeCorrect == Spec => []TypeOK
<1>1. IInv => TypeOK
  BY DEF IInv
<1> QED BY Invariance, <1>1, PTL

\* encode_payload() leaves out nothing that was emitted before kill().
THEOREM LateDrops == Spec => []DropsOnlyLate
<1>1. IInv => DropsOnlyLate
  BY DEF IInv
<1> QED BY Invariance, <1>1, PTL

\* A stream that waits ends only when its socket was killed: the None it takes is that of
\* kill(), and only kill() and the watcher come with a killall.
THEOREM KilledStreams == Spec => StreamEndsOnKill
<1>1. ASSUME IInv, [Next]_vars, NEW c \in Consumers, pc[c] = "waiting", pc'[c] = "dead"
      PROVE  state' = "DISCONNECTING"
  <2>1. queue \in Seq(Nat) /\ (killalls # {} \/ None \in Range(queue) => state = "DISCONNECTING")
    BY <1>1 DEF IInv, TypeOK, Killed
  <2>2. ASSUME NEW d \in Consumers, NEW p, NEW X, Takes(d, p, X) PROVE state' = "DISCONNECTING"
    <3> DEFINE at == pc'[d]
    <3>1. pc' = [pc EXCEPT ![d] = at] /\ state' = state /\ (at = "dead" => None \in Range(queue))
      BY <2>2 DEF Takes, sockVars
    <3> HIDE DEF at
    <3>2. at = "dead"
      BY <1>1, <3>1 DEF IInv, TypeOK
    <3> QED BY <2>1, <3>1, <3>2
  <2>3. ASSUME NEW k \in killalls, Reap(k) PROVE state' = "DISCONNECTING"
    BY <2>1, <2>3 DEF Reap
  <2>4. ASSUME NEW d \in Consumers, Poll(d) PROVE state' = "DISCONNECTING"
    <3>1. CASE pc' = [pc EXCEPT ![d] = "waiting"]
      BY <1>1, <3>1 DEF IInv, TypeOK
    <3> QED BY <1>1, <2>2, <2>4, <3>1, PollFacts DEF IInv
  <2>5. ASSUME NEW d \in Consumers, Take(d) PROVE state' = "DISCONNECTING"
    BY <1>1, <2>2, <2>5, TakeTakes DEF IInv
  <2>6. CASE UNCHANGED pc
    BY <1>1, <2>6
  <2>7. ASSUME NEW d \in Consumers, Opening(d) PROVE state' = "DISCONNECTING"
    <3>1. CASE Connect(d)
      BY <2>6, <3>1 DEF Connect, consVars
    <3>2. CASE StreamOpen(d) \/ StreamSpawn(d) \/ StreamOpenFails(d)
      <4>1. pc[d] # "waiting" /\ \E at : pc' = [pc EXCEPT ![d] = at]
        BY <3>2 DEF StreamOpen, StreamSpawn, StreamOpenFails
      <4> QED BY <1>1, <4>1 DEF IInv, TypeOK
    <3> QED BY <2>7, <3>1, <3>2 DEF Opening
  <2>8. ASSUME NEW d \in Consumers, Timeout(d) \/ WriteOk(d) \/ WriteFail(d)
        PROVE  state' = "DISCONNECTING"
    <3>1. CASE Timeout(d)
      BY <1>1, <3>1 DEF Timeout, IInv, TypeOK
    <3>2. CASE WriteOk(d) \/ WriteFail(d)
      <4>1. pc[d] # "waiting" /\ \E at : pc' = [pc EXCEPT ![d] = at]
        BY <3>2 DEF WriteOk, WriteFail
      <4> QED BY <1>1, <4>1 DEF IInv, TypeOK
    <3> QED BY <2>8, <3>1, <3>2
  <2>9. CASE Source \/ Kill \/ Boot \/ Detach \/ UNCHANGED vars
    BY <2>6, <2>9 DEF Source, Emit, Beat, Kill, Boot, Detach, vars, consVars
  <2> QED BY <1>1, <2>3, <2>4, <2>5, <2>7, <2>8, <2>9 DEF Next, Teardown, Exchange
<1>2. IInv /\ [Next]_vars
      => [\A c \in Consumers : pc[c] = "waiting" /\ pc'[c] = "dead"
                               => state' = "DISCONNECTING"]_vars
  BY <1>1
<1> QED BY Invariance, <1>2, PTL DEF Spec, StreamEndsOnKill

-----------------------------------------------------------------------------
(* Every message is in one place. *)

\* Where m is in a sequence, as entries of the place t.
Entries(t, s, m) == {<<t, i>> : i \in {i \in DOMAIN s : s[i] = m}}

LEMMA NoEntry == ASSUME NEW t, NEW s, NEW m, m \notin Range(s) PROVE Entries(t, s, m) = {}
BY DEF Entries, Range

LEMMA OneEntry ==
  ASSUME NEW t, NEW s \in Seq(Nat), NEW m \in Msg, Rises(s) \/ NoRepeat(s), m \in Range(s)
  PROVE  \E i : Entries(t, s, m) = {<<t, i>>}
<1>1. Len(s) \in Nat /\ DOMAIN s = 1 .. Len(s)
  OBVIOUS
<1>2. PICK i \in 1 .. Len(s) : s[i] = m
  BY <1>1 DEF Range
<1>3. ASSUME NEW j \in 1 .. Len(s), s[j] = m PROVE j = i
  <2>1. CASE NoRepeat(s)
    BY <1>2, <1>3, <2>1 DEF NoRepeat
  <2>2. CASE Rises(s)
    <3>1. m \in Nat /\ ~(m < m)
      BY MsgFacts
    <3>2. ~(i < j) /\ ~(j < i)
      BY <1>2, <1>3, <2>2, <3>1 DEF Rises
    <3> QED BY <1>1, <3>2
  <2> QED BY <2>1, <2>2
<1>4. {j \in DOMAIN s : s[j] = m} = {i}
  BY <1>1, <1>2, <1>3
<1>5. Entries(t, s, m) = {<<t, i>>}
  BY <1>4 DEF Entries
<1> QED BY <1>5

\* However requests overlap, fail and are killed, an emitted message is queued, being
\* written, received or lost, and in one of these places only.
THEOREM AllAccounted == Spec => []Accounted
<1>1. ASSUME IInv, NEW m \in 1 .. emitted PROVE \E x : Copies(m) = {x}
  <2> DEFINE Q == Entries("queue", queue, m)
             I == Entries("inbox", inbox, m)
             H(c) == Entries(c, hand[c], m)
             U == UNION {H(c) : c \in Consumers}
             L == IF m \in lost THEN {<<"lost", 1>>} ELSE {}
             D == IF m \in dropped THEN {<<"dropped", 1>>} ELSE {}
  <2>1. Copies(m) = Q \union I \union U \union L \union D
    BY DEF Copies, Entries
  <2>2. /\ queue \in Seq(Nat) /\ inbox \in Seq(Nat) /\ \A c \in Consumers : hand[c] \in Seq(Nat)
        /\ m \in Msg
    BY <1>1, MsgSeqs DEF IInv, TypeOK, Msg, None
  <2>3. /\ Rises(queue) /\ NoRepeat(inbox) /\ \A c \in Consumers : Rises(hand[c])
    BY <1>1 DEF IInv, Single
  <2>4. Apart(Messages(queue), Range(inbox), Hands, lost, dropped, emitted)
    BY <1>1 DEF IInv, Spread
  <2>5. \A c \in Consumers : m \in Hands[c] <=> m \in Range(hand[c])
    BY DEF Hands
  <2>6. m \in Messages(queue) <=> m \in Range(queue)
    BY <2>2 DEF Messages, Msg
  <2>7. \/ m \in Messages(queue) \/ m \in Range(inbox) \/ m \in lost \/ m \in dropped
        \/ \E c \in Consumers : m \in Hands[c]
    BY <2>4, ApartCovers DEF Apart
  <2>8. /\ m \notin Range(queue) => Q = {}
        /\ m \notin Range(inbox) => I = {}
        /\ \A c \in Consumers : m \notin Range(hand[c]) => H(c) = {}
    BY NoEntry
  <2>9. /\ m \in Range(queue) => \E i : Q = {<<"queue", i>>}
        /\ m \in Range(inbox) => \E i : I = {<<"inbox", i>>}
        /\ \A c \in Consumers : m \in Range(hand[c]) => \E i : H(c) = {<<c, i>>}
    BY <2>2, <2>3, OneEntry
  <2> HIDE DEF Q, I, H
  <2>10. (\A c \in Consumers : m \notin Range(hand[c])) => U = {}
    BY <2>8
  <2> HIDE DEF U, L, D
  <2>11. (m \in lost => L = {<<"lost", 1>>}) /\ (m \notin lost => L = {})
         /\ (m \in dropped => D = {<<"dropped", 1>>}) /\ (m \notin dropped => D = {})
    BY DEF L, D
  <2>12. CASE m \in Messages(queue)
    <3>1. /\ m \notin Range(inbox) /\ m \notin lost /\ m \notin dropped
          /\ \A c \in Consumers : m \notin Range(hand[c])
      BY <2>4, <2>5, <2>12 DEF Apart
    <3>2. PICK i : Q = {<<"queue", i>>}
      BY <2>6, <2>9, <2>12
    <3>3. Copies(m) = {<<"queue", i>>}
      BY <2>1, <2>8, <2>10, <2>11, <3>1, <3>2
    <3> QED BY <3>3
  <2>13. CASE m \in Range(inbox)
    <3>1. /\ m \notin Range(queue) /\ m \notin lost /\ m \notin dropped
          /\ \A c \in Consumers : m \notin Range(hand[c])
      BY <2>4, <2>5, <2>6, <2>13 DEF Apart
    <3>2. PICK i : I = {<<"inbox", i>>}
      BY <2>9, <2>13
    <3>3. Copies(m) = {<<"inbox", i>>}
      BY <2>1, <2>8, <2>10, <2>11, <3>1, <3>2
    <3> QED BY <3>3
  <2>14. CASE m \in lost
    <3>1. /\ m \notin Range(queue) /\ m \notin Range(inbox) /\ m \notin dropped
          /\ \A c \in Consumers : m \notin Range(hand[c])
      BY <2>4, <2>5, <2>6, <2>14 DEF Apart
    <3>2. Copies(m) = {<<"lost", 1>>}
      BY <2>1, <2>8, <2>10, <2>11, <2>14, <3>1
    <3> QED BY <3>2
  <2>15. CASE m \in dropped
    <3>1. /\ m \notin Range(queue) /\ m \notin Range(inbox) /\ m \notin lost
          /\ \A c \in Consumers : m \notin Range(hand[c])
      BY <2>4, <2>5, <2>6, <2>15 DEF Apart
    <3>2. Copies(m) = {<<"dropped", 1>>}
      BY <2>1, <2>8, <2>10, <2>11, <2>15, <3>1
    <3> QED BY <3>2
  <2>16. ASSUME NEW c \in Consumers, m \in Hands[c] PROVE \E x : Copies(m) = {x}
    <3>1. /\ m \notin Range(queue) /\ m \notin Range(inbox) /\ m \notin lost /\ m \notin dropped
          /\ \A d \in Consumers : d # c => m \notin Range(hand[d])
      BY <2>4, <2>5, <2>6, <2>16 DEF Apart
    <3>2. PICK i : H(c) = {<<c, i>>}
      BY <2>5, <2>9, <2>16
    <3>3. \A d \in Consumers : d # c => H(d) = {}
      BY <2>8, <3>1
    <3>4. U = {<<c, i>>}
      BY <3>2, <3>3 DEF U
    <3>5. Copies(m) = {<<c, i>>}
      BY <2>1, <2>8, <2>11, <3>1, <3>4
    <3> QED BY <3>5
  <2> QED BY <2>7, <2>12, <2>13, <2>14, <2>15, <2>16
<1>2. IInv => Accounted
  BY <1>1, FS_Singleton DEF Accounted
<1> QED BY Invariance, <1>2, PTL

-----------------------------------------------------------------------------
(* One consumer: the client that has one request open at a time. *)

\* What the only consumer writes is after what the client has, and before what is queued.
InLine ==
  \A c \in Consumers : Consumers = {c} =>
    /\ Rises(inbox)
    /\ \A x \in Range(inbox), y \in Range(hand[c]) \union Messages(queue) : x < y
    /\ \A x \in Range(hand[c]), y \in Messages(queue) : x < y

LEMMA RisesConcat ==
  ASSUME NEW s \in Seq(Msg), NEW t \in Seq(Msg), Rises(s), Rises(t),
         \A x \in Range(s), y \in Range(t) : x < y
  PROVE  Rises(s \o t)
<1> DEFINE u == s \o t
<1>1. /\ Len(s) \in Nat /\ Len(t) \in Nat /\ Len(u) = Len(s) + Len(t)
      /\ \A i \in 1 .. Len(s) : u[i] = s[i] /\ s[i] \in Range(s) /\ s[i] \in Msg
      /\ \A i \in 1 .. Len(t) : u[Len(s) + i] = t[i] /\ t[i] \in Range(t) /\ t[i] \in Msg
  BY DEF Range
<1> HIDE DEF u
<1>2. \A i \in 1 .. Len(u) : i \notin 1 .. Len(s) =>
         i - Len(s) \in 1 .. Len(t) /\ u[i] = t[i - Len(s)]
  <2> SUFFICES ASSUME NEW i \in 1 .. Len(u), i \notin 1 .. Len(s)
               PROVE  i - Len(s) \in 1 .. Len(t) /\ u[i] = t[i - Len(s)]
    OBVIOUS
  <2>1. i - Len(s) \in 1 .. Len(t) /\ Len(s) + (i - Len(s)) = i
    BY <1>1
  <2> QED BY <1>1, <2>1
<1>3. ASSUME NEW i \in 1 .. Len(u), NEW j \in 1 .. Len(u), i < j PROVE u[i] < u[j]
  <2>1. CASE j \in 1 .. Len(s)
    <3>1. i \in 1 .. Len(s)
      BY <1>1, <1>3, <2>1
    <3> QED BY <1>1, <1>3, <2>1, <3>1 DEF Rises
  <2>2. CASE i \in 1 .. Len(s) /\ j \notin 1 .. Len(s)
    BY <1>1, <1>2, <2>2
  <2>3. CASE i \notin 1 .. Len(s) /\ j \notin 1 .. Len(s)
    <3> DEFINE a == i - Len(s)
               b == j - Len(s)
    <3>1. a \in 1 .. Len(t) /\ b \in 1 .. Len(t) /\ u[i] = t[a] /\ u[j] = t[b]
      BY <1>2, <2>3
    <3>2. a < b
      BY <1>1, <1>3
    <3> HIDE DEF a, b
    <3>3. t[a] \in Msg /\ t[b] \in Msg
      BY <1>1, <3>1
    <3> QED BY <3>1, <3>2, <3>3 DEF Rises
  <2> QED BY <2>1, <2>2, <2>3
<1>4. Rises(u)
  BY <1>3 DEF Rises
<1> QED BY <1>4 DEF u

\* Messages that rise and skip none are the numbers from 1 on.
LEMMA NoneSkipped ==
  ASSUME NEW s \in Seq(Msg), Rises(s),
         \A x \in Range(s) : \A y \in Msg : y < x => y \in Range(s)
  PROVE  \A i \in 1 .. Len(s) : s[i] = i
<1>1. /\ Len(s) \in Nat
      /\ \A i \in 1 .. Len(s) : s[i] \in Range(s) /\ s[i] \in Msg /\ s[i] \in Nat /\ s[i] > 0
  <2>1. \A i \in 1 .. Len(s) : s[i] \in Range(s) /\ s[i] \in Msg
    BY DEF Range
  <2>2. \A m \in Msg : m \in Nat /\ m > 0
    BY MsgFacts
  <2> QED BY <2>1, <2>2
<1>2. \A i, j \in 1 .. Len(s) : i < j => s[i] < s[j]
  BY <1>1 DEF Rises
<1> SUFFICES ASSUME NEW T \in SUBSET Nat, T = {i \in 1 .. Len(s) : s[i] # i}, T # {} PROVE FALSE
  <2>1. {i \in 1 .. Len(s) : s[i] # i} \in SUBSET Nat
    BY <1>1
  <2> QED BY <2>1
<1>3. PICK k \in T : \A j \in T : k <= j
  BY Least
<1>4. k \in 1 .. Len(s) /\ s[k] # k /\ k \in Nat /\ \A j \in 1 .. Len(s) : j < k => s[j] = j
  BY <1>1, <1>3
<1>5. s[k] > k
  <2>1. CASE k = 1
    BY <1>1, <1>4, <2>1
  <2>2. CASE k # 1
    <3> DEFINE l == k - 1
    <3>1. l \in 1 .. Len(s) /\ l < k
      BY <1>1, <1>4, <2>2
    <3>2. s[l] = l /\ s[l] < s[k]
      BY <1>2, <1>4, <3>1
    <3> QED BY <1>1, <1>4, <3>1, <3>2
  <2> QED BY <2>1, <2>2
<1>6. k \in Range(s)
  <2>1. k \in Msg
    BY <1>4, MsgFacts
  <2> QED BY <1>1, <1>4, <1>5, <2>1
<1>7. PICK j \in 1 .. Len(s) : s[j] = k
  BY <1>1, <1>6 DEF Range
<1>8. CASE j < k
  BY <1>4, <1>7, <1>8
<1>9. CASE j = k
  BY <1>4, <1>7, <1>9
<1>10. CASE k < j
  <2>1. s[k] < s[j]
    BY <1>2, <1>4, <1>10
  <2> QED BY <1>1, <1>4, <1>5, <1>7, <2>1
<1> QED BY <1>1, <1>4, <1>8, <1>9, <1>10

LEMMA NextInLine == IInv /\ InLine /\ [Next]_vars => InLine'
<1> SUFFICES ASSUME IInv, InLine, [Next]_vars, NEW c \in Consumers, Consumers = {c}
             PROVE  /\ Rises(inbox')
                    /\ \A x \in Range(inbox'), y \in Range(hand'[c]) \union Messages(queue') : x < y
                    /\ \A x \in Range(hand'[c]), y \in Messages(queue') : x < y
  BY DEF InLine
<1>1. /\ Rises(inbox)
      /\ \A x \in Range(inbox), y \in Range(hand[c]) \union Messages(queue) : x < y
      /\ \A x \in Range(hand[c]), y \in Messages(queue) : x < y
  BY DEF InLine
<1>2. /\ queue \in Seq(Nat) /\ emitted \in Nat /\ hand \in [Consumers -> Seq(Msg)]
      /\ inbox \in Seq(Msg) /\ hand[c] \in Seq(Msg) /\ inbox \in Seq(Nat) /\ hand[c] \in Seq(Nat)
      /\ TypeOK /\ HandsEmpty
  BY MsgSeqs DEF IInv, TypeOK
<1>3. /\ \A x \in Range(inbox) : x \in 1 .. emitted
      /\ \A x \in Range(hand[c]) : x \in 1 .. emitted
      /\ Rises(queue) /\ Rises(hand[c])
  BY Emitted DEF IInv, Single
<1>4. Range(<<>>) = {} /\ Messages(<<>>) = {}
  BY DEF Range, Messages
<1>5. CASE /\ Messages(queue') \subseteq Messages(queue) \union {emitted + 1}
           /\ inbox' = inbox /\ (hand'[c] = hand[c] \/ hand'[c] = <<>>)
  <2>1. Range(hand'[c]) \subseteq Range(hand[c])
    BY <1>4, <1>5
  <2>2. \A x \in 1 .. emitted : x < emitted + 1
    BY <1>2
  <2> QED BY <1>1, <1>3, <1>5, <2>1, <2>2
<1>6. ASSUME NEW p, NEW X, Takes(c, p, X)
      PROVE  /\ Rises(inbox')
             /\ \A x \in Range(inbox'), y \in Range(hand'[c]) \union Messages(queue') : x < y
             /\ \A x \in Range(hand'[c]), y \in Messages(queue') : x < y
  <2>1. /\ hand'[c] = p /\ inbox' = inbox /\ (queue' = <<>> \/ queue' = Tail(queue))
        /\ Range(p) \subseteq Messages(queue)
        /\ \A x \in Range(p), y \in Messages(queue') : x < y
    BY <1>2, <1>3, <1>6 DEF Takes
  <2>2. Messages(queue') \subseteq Messages(queue)
    <3>1. Range(Tail(queue)) \subseteq Range(queue)
      BY <1>2, <1>6, RangeFacts DEF Takes
    <3> QED BY <1>4, <2>1, <3>1 DEF Messages
  <2> QED BY <1>1, <2>1, <2>2
<1>7. CASE WriteOk(c)
  <2>1. inbox' = inbox \o hand[c] /\ hand'[c] = <<>> /\ queue' = queue
    BY <1>2, <1>7 DEF WriteOk
  <2>2. Range(inbox') = Range(inbox) \union Range(hand[c]) /\ Rises(inbox')
    BY <1>1, <1>2, <1>3, <2>1, RangeConcat, RisesConcat
  <2> QED BY <1>1, <1>4, <2>1, <2>2
<1>8. CASE Emit \/ Beat
  <2>1. PICK n \in Nat : n = emitted + 1
    BY <1>2
  <2>2. queue' = Append(queue, n) /\ inbox' = inbox /\ hand' = hand
    BY <1>8, <2>1 DEF Emit, Beat, Put, consVars
  <2>3. Messages(queue') \subseteq Messages(queue) \union {n}
    BY <1>2, <2>2, RangeFacts DEF Messages
  <2> QED BY <1>5, <2>1, <2>2, <2>3
<1>9. CASE Kill \/ Boot
  <2>1. PICK n \in Nat : n = emitted + 1
    BY <1>2
  <2>2. None \in Nat /\ Append(queue, n) \in Seq(Nat)
    BY <1>2 DEF None
  <2>3. queue' = Append(queue, None) \/ queue' = Append(Append(queue, n), None)
    BY <1>2, <1>9, <2>1, <2>2 DEF Kill, Boot, Put
  <2>4. Range(queue') \subseteq Range(queue) \union {n, None}
    <3>1. /\ Range(Append(queue, None)) = Range(queue) \union {None}
          /\ Range(Append(queue, n)) = Range(queue) \union {n}
          /\ Range(Append(Append(queue, n), None)) = Range(Append(queue, n)) \union {None}
      BY <1>2, <2>2, RangeFacts
    <3> QED BY <2>3, <3>1
  <2>5. Messages(queue') \subseteq Messages(queue) \union {n}
    BY <2>4 DEF Messages
  <2>6. inbox' = inbox /\ hand' = hand
    BY <1>9 DEF Kill, Boot, consVars
  <2> QED BY <1>5, <2>1, <2>5, <2>6
<1>10. ASSUME NEW k \in killalls, Reap(k)
       PROVE  queue' = queue /\ inbox' = inbox /\ (hand'[c] = hand[c] \/ hand'[c] = <<>>)
  BY <1>10 DEF Reap
<1>11. CASE WriteFail(c)
  BY <1>2, <1>5, <1>11 DEF WriteFail
<1>12. CASE UNCHANGED <<msgVars, hand>>
  BY <1>5, <1>12 DEF msgVars
<1>13. CASE Opening(c) \/ Timeout(c) \/ Detach \/ UNCHANGED vars
  BY <1>12, <1>13 DEF Opening, Connect, StreamOpen, StreamSpawn, StreamOpenFails, Timeout, Detach,
                      vars, consVars
<1>14. CASE Poll(c)
  BY <1>2, <1>6, <1>12, <1>14, PollFacts
<1>15. CASE Take(c)
  BY <1>2, <1>6, <1>15, TakeTakes
<1>16. CASE \E k \in killalls : Reap(k)
  BY <1>5, <1>10, <1>16
<1>17. \A d \in Consumers : d = c
  OBVIOUS
<1> QED BY <1>7, <1>8, <1>9, <1>11, <1>13, <1>14, <1>15, <1>16, <1>17
        DEF Next, Source, Teardown, Exchange

\* The client has nothing that was not emitted.
Ours == Range(inbox) \subseteq 1 .. emitted

LEMMA Received == IInv => Ours
BY Emitted DEF IInv, Ours

\* Until the connection breaks, the client has every message up to some number.
NoGap ==
  \A c \in Consumers :
    Consumers = {c} /\ hand[c] = <<>> /\ ~(lost # {} \/ state = "DISCONNECTING")
    => \A i \in 1 .. Len(inbox) : inbox[i] = i

LEMMA Gapless == IInv /\ InLine => NoGap
<1> SUFFICES ASSUME IInv, InLine, NEW c \in Consumers, Consumers = {c}, hand[c] = <<>>,
                    ~(lost # {} \/ state = "DISCONNECTING")
             PROVE  \A i \in 1 .. Len(inbox) : inbox[i] = i
  BY DEF NoGap
<1>1. inbox \in Seq(Msg) /\ Rises(inbox) /\ emitted \in Nat /\ lost = {} /\ dropped = {}
  BY DEF IInv, TypeOK, InLine, DropsOnlyLate
<1>2. \A x \in Range(inbox), y \in Messages(queue) : x < y
  BY DEF InLine
<1>3. Hands[c] = {}
  BY DEF Hands, Range
<1>4. \A m : m \in 1 .. emitted <=> m \in Messages(queue) \/ m \in Range(inbox)
  <2>1. \A m : m \in 1 .. emitted <=> \/ m \in Messages(queue) \/ m \in Range(inbox) \/ m \in lost
                                      \/ m \in dropped \/ \E d \in Consumers : m \in Hands[d]
    BY ApartCovers DEF IInv, Spread, Apart
  <2> QED BY <1>1, <1>3, <2>1
<1>5. ASSUME NEW x \in Range(inbox), NEW y \in Msg, y < x PROVE y \in Range(inbox)
  <2>1. x \in 1 .. emitted /\ y \in Nat /\ y > 0
    BY <1>4, MsgFacts
  <2>2. y \in 1 .. emitted
    BY <1>1, <1>5, <2>1
  <2>3. y \in Messages(queue) => x < y
    BY <1>2
  <2> QED BY <1>4, <1>5, <2>1, <2>2, <2>3
<1> QED BY <1>1, <1>5, NoneSkipped

\* What an inbox that grows keeps.
LEMMA Prefix ==
  ASSUME NEW s \in Seq(Msg), NEW t \in Seq(Msg), t # <<>>
  PROVE  Len(s \o t) > Len(s) /\ SubSeq(s \o t, 1, Len(s)) = s
OBVIOUS

LEMMA FifoStep ==
  IInv /\ IInv' /\ InLine /\ InLine' /\ NoGap' /\ Ours' /\ [Next]_vars
  /\ (\E c : Consumers = {c})
  => [Fifo!FifoNext]_(Fifo!fifoVars)
<1> SUFFICES ASSUME IInv, IInv', InLine, InLine', NoGap', Ours', [Next]_vars,
                    NEW c \in Consumers, Consumers = {c}
             PROVE  Fifo!FifoNext
  OBVIOUS
<1>0. TypeOK /\ HandsEmpty
  BY DEF IInv
<1>1. lost \subseteq lost' /\ (state = "DISCONNECTING" => state' = "DISCONNECTING")
  <2>1. ASSUME NEW d \in Consumers, Exchange(d)
        PROVE  lost \subseteq lost' /\ UNCHANGED state
    BY <2>1 DEF Exchange, Poll, Take, Timeout, WriteOk, WriteFail, sockVars, msgVars
  <2>2. ASSUME NEW d \in Consumers, Opening(d)
        PROVE  UNCHANGED lost /\ (state = "DISCONNECTING" => state' = "DISCONNECTING")
    BY <2>2 DEF Opening, Connect, StreamOpen, StreamSpawn, StreamOpenFails, sockVars, msgVars
  <2>3. CASE Source \/ Teardown \/ UNCHANGED vars
    BY <2>3 DEF Source, Emit, Beat, Teardown, Kill, Boot, Shut, Detach, Reap, vars, sockVars,
                msgVars
  <2> QED BY <2>1, <2>2, <2>3 DEF Next
<1>2. (lost # {} \/ state = "DISCONNECTING") => (lost' # {} \/ state' = "DISCONNECTING")
  BY <1>1
<1>3. CASE inbox' = inbox /\ emitted' = emitted
  BY <1>2, <1>3 DEF Fifo!FifoNext, Fifo!FifoBreak
<1>4. CASE Emit \/ Beat \/ Boot
  BY <1>2, <1>4 DEF Emit, Beat, Boot, Put, Fifo!FifoNext, Fifo!FifoEmit
<1>5. CASE WriteOk(c)
  <2>1. /\ inbox' = inbox \o hand[c] /\ hand'[c] = <<>>
        /\ UNCHANGED <<emitted, lost, state>>
        /\ inbox \in Seq(Msg) /\ hand[c] \in Seq(Msg)
    BY <1>0, <1>5 DEF WriteOk, TypeOK, sockVars
  <2>2. CASE hand[c] = <<>>
    <3>1. inbox' = inbox
      BY <2>1, <2>2
    <3> QED BY <1>3, <2>1, <3>1
  <2>3. CASE hand[c] # <<>>
    <3>1. Len(inbox') > Len(inbox) /\ SubSeq(inbox', 1, Len(inbox)) = inbox
      BY <2>1, <2>3, Prefix
    <3>2. inbox' \in Seq(Msg) /\ Rises(inbox')
      BY DEF IInv, TypeOK, InLine
    <3>3. \A i \in 1 .. Len(inbox') : inbox'[i] \in Range(inbox') /\ inbox'[i] \in Msg
      BY <3>2 DEF Range
    <3>4. Range(inbox') \subseteq 1 .. emitted'
      BY DEF Ours
    <3>5. \A i \in 1 .. Len(inbox') : inbox'[i] \in 1 .. emitted
      BY <2>1, <3>3, <3>4
    <3>6. \A i, j \in 1 .. Len(inbox') : i < j => inbox'[i] < inbox'[j]
      BY <3>2, <3>3 DEF Rises
    <3>7. ~(lost # {} \/ state = "DISCONNECTING") => \A i \in 1 .. Len(inbox') : inbox'[i] = i
      BY <2>1 DEF NoGap
    <3>8. Fifo!FifoDeliver
      BY <2>1, <3>1, <3>5, <3>6, <3>7 DEF Fifo!FifoDeliver
    <3> QED BY <1>2, <3>8 DEF Fifo!FifoNext
  <2> QED BY <2>2, <2>3
<1>6. CASE Kill \/ Detach \/ UNCHANGED vars
  BY <1>3, <1>6 DEF Kill, Detach, vars, msgVars
<1>7. CASE \E k \in killalls : Reap(k)
  BY <1>3, <1>7 DEF Reap
<1>8. CASE Opening(c)
  BY <1>3, <1>8 DEF Opening, Connect, StreamOpen, StreamSpawn, StreamOpenFails, msgVars
<1>9. CASE Poll(c) \/ Take(c) \/ Timeout(c) \/ WriteFail(c)
  BY <1>3, <1>9 DEF Poll, Take, Timeout, WriteFail, msgVars
<1>10. \A d \in Consumers : d = c
  OBVIOUS
<1> QED BY <1>4, <1>5, <1>6, <1>7, <1>8, <1>9, <1>10 DEF Next, Source, Teardown, Exchange

\* A client that has one request open at a time, over any transport, gets what LossyFifo
\* promises: the messages in the order of the puts, and none left out before a write fails
\* or the socket is killed.
THEOREM OneAtATime == (\E c : Consumers = {c}) => (Spec => ReliableFifo)
<1> SUFFICES ASSUME \E c : Consumers = {c} PROVE Spec => ReliableFifo
  OBVIOUS
<1>1. Init => InLine
  <2>1. Range(<<>>) = {} /\ Rises(<<>>)
    BY DEF Range, Rises
  <2> QED BY <2>1 DEF Init, InLine, Messages
<1>2. Init => Fifo!FifoInit
  BY DEF Init, Fifo!FifoInit
<1>3. IInv /\ IInv' /\ InLine /\ InLine' /\ NoGap' /\ Ours' /\ [Next]_vars
      => [Fifo!FifoNext]_(Fifo!fifoVars)
  BY FifoStep
<1>4. IInv' /\ InLine' => NoGap' /\ Ours'
  BY Gapless, Received, PTL
<1> QED BY Invariance, <1>1, <1>2, <1>3, <1>4, NextInLine, PTL DEF Spec, ReliableFifo, Fifo!FifoSpec

=============================================================================
