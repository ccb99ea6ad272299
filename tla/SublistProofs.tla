---------------------------- MODULE SublistProofs ----------------------------
(***************************************************************************)
(* Induction over the numbers and over sequences, for a set in the place   *)
(* of a predicate, and what Keep() does to every sequence.                 *)
(***************************************************************************)
EXTENDS Sublist, Integers, WellFoundedInduction, TLAPS

\* A set of numbers that has an element has a least one.
LEMMA Least ==
  ASSUME NEW T \in SUBSET Nat, T # {}
  PROVE  \E x \in T : \A y \in T : x <= y
<1> DEFINE R == {ss \in Nat \X Nat : ss[1] < ss[2]}
<1>1. \A x, y \in Nat : y < x => <<y, x>> \in R
  OBVIOUS
<1>2. IsWellFoundedOn(R, Nat)
  BY NatLessThanWellFounded DEF OpToRel
<1> HIDE DEF R
<1>3. PICK x \in T : \A y \in T : ~ (<<y, x>> \in R)
  BY <1>2, WFMin
<1>4. ASSUME NEW y \in T PROVE ~(y < x)
  <2>1. y \in Nat /\ x \in Nat /\ <<y, x>> \notin R
    BY <1>3
  <2> QED BY <1>1, <2>1, Zenon
<1>5. \A y \in T : y \in Nat /\ x \in Nat /\ ~(y < x)
  BY <1>4
<1>6. \A y \in T : x <= y
  BY <1>5
<1> QED BY <1>6

\* Induction for a set of numbers.
LEMMA NatSetInduction ==
  ASSUME NEW S, 0 \in S, \A n \in Nat : n \in S => n + 1 \in S
  PROVE  Nat \subseteq S
<1> SUFFICES ASSUME NEW T \in SUBSET Nat, T = {n \in Nat : n \notin S}, T # {} PROVE FALSE
  OBVIOUS
<1>1. PICK x \in T : \A y \in T : x <= y
  BY Least
<1>2. x # 0 /\ x \in Nat
  OBVIOUS
<1>3. x - 1 \in Nat /\ x - 1 \notin T
  BY <1>1, <1>2
<1> QED BY <1>2, <1>3

\* A sequence over a set is one over a larger set.
LEMMA SeqMono ==
  ASSUME NEW S, NEW T, S \subseteq T, NEW s \in Seq(S)
  PROVE  s \in Seq(T)
<1>1. Len(s) \in Nat /\ s \in [1 .. Len(s) -> T]
  OBVIOUS
<1> QED BY <1>1

LEMMA ElementOf ==
  ASSUME NEW S, NEW q \in Seq(S), NEW i \in DOMAIN q
  PROVE  q[i] \in S
OBVIOUS

\* What Append() and the last element of a sequence have to do with each other.
LEMMA AppendFacts ==
  ASSUME NEW T, NEW s \in Seq(T), NEW x \in T
  PROVE  /\ Append(s, x) \in Seq(T) /\ Len(Append(s, x)) = Len(s) + 1
         /\ Len(s) \in Nat
         /\ Append(s, x)[Len(s) + 1] = x
         /\ \A i \in 1 .. Len(s) : Append(s, x)[i] = s[i]
OBVIOUS

LEMMA LastFacts ==
  ASSUME NEW T, NEW s \in Seq(T), NEW n \in Nat, Len(s) = n + 1
  PROVE  \E r \in Seq(T), x \in T : s = Append(r, x) /\ Len(r) = n
<1> DEFINE r == [i \in 1 .. n |-> s[i]]
<1>1. s[n + 1] \in T /\ \A i \in 1 .. n : s[i] \in T
  OBVIOUS
<1>2. r \in Seq(T) /\ Len(r) = n
  BY <1>1
<1>3. s = Append(r, s[n + 1])
  <2>1. Len(Append(r, s[n + 1])) = n + 1 /\ Append(r, s[n + 1]) \in Seq(T)
    BY <1>1, <1>2
  <2>2. \A i \in 1 .. n + 1 : s[i] = Append(r, s[n + 1])[i]
    BY <1>1, <1>2
  <2> QED BY <2>1, <2>2
<1> QED BY <1>1, <1>2, <1>3

\* Induction for a set of sequences.
LEMMA SeqSetInduction ==
  ASSUME NEW T, NEW P, <<>> \in P,
         \A s \in Seq(T), x \in T : s \in P => Append(s, x) \in P
  PROVE  Seq(T) \subseteq P
<1> DEFINE N == {n \in Nat : \A s \in Seq(T) : Len(s) = n => s \in P}
<1>1. 0 \in N
  OBVIOUS
<1>2. ASSUME NEW n \in Nat, n \in N PROVE n + 1 \in N
  <2> SUFFICES ASSUME NEW s \in Seq(T), Len(s) = n + 1 PROVE s \in P
    OBVIOUS
  <2>1. PICK r \in Seq(T), x \in T : s = Append(r, x) /\ Len(r) = n
    BY LastFacts
  <2> QED BY <1>2, <2>1
<1> HIDE DEF N
<1>3. Nat \subseteq N
  BY <1>1, <1>2, NatSetInduction
<1>4. \A s \in Seq(T) : Len(s) \in N
  BY <1>3
<1> QED BY <1>4 DEF N

\* A recursive function over the numbers up to n exists, for a step within a set.
Recursive(f, n, V, x, G) ==
  f \in [0 .. n -> V] /\ f[0] = x /\ \A i \in 1 .. n : f[i] = G[i][f[i - 1]]

LEMMA Recursion ==
  ASSUME NEW n \in Nat, NEW V, NEW x \in V, NEW G \in [1 .. n -> [V -> V]]
  PROVE  \E f : Recursive(f, n, V, x, G)
<1> DEFINE Solves(f, m) == f \in [0 .. m -> V] /\ f[0] = x /\ \A i \in 1 .. m : f[i] = G[i][f[i - 1]]
           N == {m \in Nat : m <= n => \E f : Solves(f, m)}
<1>1. 0 \in N
  <2> DEFINE f == [i \in 0 .. 0 |-> x]
  <2>1. Solves(f, 0)
    OBVIOUS
  <2> QED BY <2>1
<1>2. ASSUME NEW m \in Nat, m \in N PROVE m + 1 \in N
  <2> SUFFICES ASSUME m + 1 <= n PROVE \E f : Solves(f, m + 1)
    OBVIOUS
  <2>1. PICK g : Solves(g, m)
    BY <1>2
  <2> DEFINE f == [i \in 0 .. m + 1 |-> IF i = m + 1 THEN G[m + 1][g[m]] ELSE g[i]]
  <2>2. g[m] \in V /\ m + 1 \in 1 .. n
    BY <2>1
  <2>3. G[m + 1][g[m]] \in V
    BY <2>2
  <2>4. f \in [0 .. m + 1 -> V] /\ f[0] = x
    BY <2>1, <2>3
  <2>5. ASSUME NEW i \in 1 .. m + 1 PROVE f[i] = G[i][f[i - 1]]
    <3>1. CASE i = m + 1
      <4>1. f[i - 1] = g[m]
        BY <3>1
      <4>2. f[i] = G[i][g[m]]
        BY <3>1
      <4> HIDE DEF f
      <4> QED BY <4>1, <4>2
    <3>2. CASE i # m + 1
      <4>1. i \in 1 .. m /\ i \in 0 .. m + 1 /\ i - 1 \in 0 .. m + 1 /\ i - 1 # m + 1
        BY <3>2
      <4>2. f[i] = g[i] /\ f[i - 1] = g[i - 1]
        BY <3>2, <4>1
      <4> QED BY <2>1, <4>1, <4>2
    <3> QED BY <3>1, <3>2
  <2> HIDE DEF f
  <2> QED BY <2>4, <2>5
<1> HIDE DEF N
<1>3. Nat \subseteq N
  BY <1>1, <1>2, NatSetInduction
<1>4. \E f : Solves(f, n)
  BY <1>3 DEF N
<1> QED BY <1>4 DEF Recursive

-----------------------------------------------------------------------------
(* The loop of Keep() is well defined. *)

\* The loop up to the n-th element.
Loop(f, s, S, n) ==
  f = [i \in 0 .. n |->
         IF i = 0 THEN <<>>
         ELSE IF s[i] \in S THEN Append(f[i - 1], s[i]) ELSE f[i - 1]]

LEMMA LoopExists ==
  ASSUME NEW s, NEW S
  PROVE  \A n \in Nat : \E f : Loop(f, s, S, n)
<1> DEFINE N == {n \in Nat : \E f : Loop(f, s, S, n)}
<1>1. 0 \in N
  <2> DEFINE f == [i \in 0 .. 0 |-> <<>>]
  <2>1. Loop(f, s, S, 0)
    BY DEF Loop
  <2> QED BY <2>1
<1>2. ASSUME NEW n \in Nat, n \in N PROVE n + 1 \in N
  <2>1. PICK g : Loop(g, s, S, n)
    BY <1>2
  <2> DEFINE f == [i \in 0 .. n + 1 |->
                     IF i = n + 1
                     THEN IF s[n + 1] \in S THEN Append(g[n], s[n + 1]) ELSE g[n]
                     ELSE g[i]]
  <2>2. \A i \in 0 .. n : f[i] = g[i]
    OBVIOUS
  <2>3. ASSUME NEW i \in 0 .. n + 1
        PROVE  f[i] = IF i = 0 THEN <<>>
                      ELSE IF s[i] \in S THEN Append(f[i - 1], s[i]) ELSE f[i - 1]
    <3>1. CASE i = n + 1
      <4>1. n \in 0 .. n /\ i # 0 /\ i - 1 = n
        BY <3>1
      <4>2. f[i - 1] = g[n]
        BY <2>2, <4>1
      <4> QED BY <3>1, <4>1, <4>2
    <3>2. CASE i # n + 1 /\ i # 0
      <4>1. i \in 0 .. n /\ i - 1 \in 0 .. n
        BY <3>2
      <4>2. g[i] = IF s[i] \in S THEN Append(g[i - 1], s[i]) ELSE g[i - 1]
        BY <2>1, <3>2, <4>1 DEF Loop
      <4> QED BY <2>2, <3>2, <4>1, <4>2
    <3>3. CASE i = 0
      <4>1. g[0] = <<>>
        BY <2>1 DEF Loop
      <4> QED BY <3>3, <4>1
    <3> QED BY <3>1, <3>2, <3>3
  <2>4. Loop(f, s, S, n + 1)
    BY <2>3 DEF Loop
  <2> QED BY <2>4
<1> HIDE DEF N
<1>3. Nat \subseteq N
  BY <1>1, <1>2, NatSetInduction
<1> QED BY <1>3 DEF N

\* Two loops over sequences that begin in the same way do the same there.
LEMMA LoopUnique ==
  ASSUME NEW s, NEW t, NEW S, NEW n \in Nat, NEW m \in Nat, NEW f, NEW g,
         Loop(f, s, S, n), Loop(g, t, S, m), n <= m, \A i \in 1 .. n : s[i] = t[i]
  PROVE  \A i \in 0 .. n : f[i] = g[i]
<1> DEFINE N == {k \in Nat : k <= n => f[k] = g[k]}
<1>1. 0 \in N
  BY DEF Loop
<1>2. ASSUME NEW k \in Nat, k \in N PROVE k + 1 \in N
  <2> SUFFICES ASSUME k + 1 <= n PROVE f[k + 1] = g[k + 1]
    OBVIOUS
  <2>1. k + 1 \in 0 .. n /\ k + 1 \in 0 .. m /\ k + 1 # 0 /\ k + 1 \in 1 .. n /\ (k + 1) - 1 = k
    OBVIOUS
  <2>2. f[k] = g[k] /\ s[k + 1] = t[k + 1]
    BY <1>2, <2>1
  <2>3. f[k + 1] = IF s[k + 1] \in S THEN Append(f[k], s[k + 1]) ELSE f[k]
    BY <2>1 DEF Loop
  <2>4. g[k + 1] = IF t[k + 1] \in S THEN Append(g[k], t[k + 1]) ELSE g[k]
    BY <2>1 DEF Loop
  <2> QED BY <2>2, <2>3, <2>4
<1> HIDE DEF N
<1>3. Nat \subseteq N
  BY <1>1, <1>2, NatSetInduction
<1> QED BY <1>3 DEF N

\* The loop that Keep() is.
LEMMA KeepLoop ==
  ASSUME NEW s, NEW S, Len(s) \in Nat
  PROVE  \E f : Loop(f, s, S, Len(s)) /\ Keep(s, S) = f[Len(s)]
<1> DEFINE kept == CHOOSE f : Loop(f, s, S, Len(s))
<1>1. Keep(s, S) = kept[Len(s)]
  BY DEF Keep, Loop
<1>2. Loop(kept, s, S, Len(s))
  BY LoopExists
<1> QED BY <1>1, <1>2

-----------------------------------------------------------------------------
(* What Keep() does. *)

THEOREM KeepEmpty == \A S : Keep(<<>>, S) = <<>>
<1> SUFFICES ASSUME NEW S PROVE Keep(<<>>, S) = <<>>
  OBVIOUS
<1>1. Len(<<>>) = 0
  OBVIOUS
<1>2. PICK f : Loop(f, <<>>, S, 0) /\ Keep(<<>>, S) = f[0]
  BY <1>1, KeepLoop
<1> QED BY <1>2 DEF Loop

\* One more element is kept, or is not, behind those that were.
THEOREM KeepAppend ==
  ASSUME NEW T, NEW s \in Seq(T), NEW x \in T, NEW S
  PROVE  Keep(Append(s, x), S) = IF x \in S THEN Append(Keep(s, S), x) ELSE Keep(s, S)
<1> DEFINE t == Append(s, x)
           n == Len(s)
<1>1. n \in Nat /\ Len(t) = n + 1 /\ t[n + 1] = x /\ \A i \in 1 .. n : s[i] = t[i]
  OBVIOUS
<1> HIDE DEF t, n
<1>2. PICK f : Loop(f, s, S, n) /\ Keep(s, S) = f[n]
  BY <1>1, KeepLoop DEF n
<1>3. PICK g : Loop(g, t, S, n + 1) /\ Keep(t, S) = g[n + 1]
  BY <1>1, KeepLoop
<1> DEFINE m == n + 1
<1>4. f[n] = g[n]
  <2>1. n \in Nat /\ m \in Nat /\ n <= m /\ n \in 0 .. n /\ Loop(g, t, S, m)
    BY <1>1, <1>3
  <2> HIDE DEF m
  <2>2. \A i \in 0 .. n : f[i] = g[i]
    BY <1>1, <1>2, <2>1, LoopUnique
  <2> QED BY <2>1, <2>2
<1>5. g[n + 1] = IF x \in S THEN Append(g[n], x) ELSE g[n]
  <2>1. n + 1 \in 0 .. n + 1 /\ n + 1 # 0 /\ (n + 1) - 1 = n
    BY <1>1
  <2> QED BY <1>1, <1>3, <2>1 DEF Loop
<1> QED BY <1>2, <1>3, <1>4, <1>5 DEF t

Occurs(s, x) == \E i \in 1 .. Len(s) : s[i] = x

\* The elements that are kept are those of s that are in S.
THEOREM KeepType ==
  ASSUME NEW T, NEW S
  PROVE  \A s \in Seq(T) :
           /\ Keep(s, S) \in Seq(T \cap S) /\ Keep(s, S) \in Seq(T)
           /\ \A x \in T \cap S : Occurs(s, x) <=> Occurs(Keep(s, S), x)
<1> DEFINE K(s) == Keep(s, S)
           P == {s \in Seq(T) : /\ K(s) \in Seq(T \cap S)
                                /\ \A x \in T \cap S : Occurs(s, x) <=> Occurs(K(s), x)}
<1>1. <<>> \in P
  <2>1. K(<<>>) = <<>> /\ <<>> \in Seq(T \cap S) /\ <<>> \in Seq(T)
    BY KeepEmpty
  <2>2. \A x : Occurs(<<>>, x) <=> Occurs(K(<<>>), x)
    BY <2>1
  <2> QED BY <2>1, <2>2
<1>0. ASSUME NEW U, NEW s \in Seq(U), NEW y \in U, NEW x
      PROVE  Occurs(Append(s, y), x) <=> Occurs(s, x) \/ x = y
  <2>1. /\ Len(s) \in Nat /\ Len(Append(s, y)) = Len(s) + 1 /\ Append(s, y)[Len(s) + 1] = y
        /\ \A i \in 1 .. Len(s) : Append(s, y)[i] = s[i]
    OBVIOUS
  <2>2. \A i \in 1 .. Len(s) + 1 : i \in 1 .. Len(s) \/ i = Len(s) + 1
    BY <2>1
  <2>3. 1 .. Len(s) \subseteq 1 .. Len(s) + 1 /\ Len(s) + 1 \in 1 .. Len(s) + 1
    BY <2>1
  <2> QED BY <2>1, <2>2, <2>3 DEF Occurs
<1>2. ASSUME NEW s \in Seq(T), NEW y \in T, s \in P PROVE Append(s, y) \in P
  <2>1. Append(s, y) \in Seq(T)
    OBVIOUS
  <2>2. K(Append(s, y)) = IF y \in S THEN Append(K(s), y) ELSE K(s)
    BY KeepAppend
  <2>3. K(s) \in Seq(T \cap S) /\ \A x \in T \cap S : Occurs(s, x) <=> Occurs(K(s), x)
    BY <1>2
  <2> HIDE DEF K
  <2>4. CASE y \in S
    <3>1. K(Append(s, y)) \in Seq(T \cap S)
      BY <2>2, <2>3, <2>4, AppendFacts
    <3>2. \A x \in T \cap S : Occurs(Append(s, y), x) <=> Occurs(s, x) \/ x = y
      BY <1>0
    <3>3. \A x \in T \cap S : Occurs(Append(K(s), y), x) <=> Occurs(K(s), x) \/ x = y
      BY <1>0, <2>3, <2>4
    <3> QED BY <2>1, <2>2, <2>3, <2>4, <3>1, <3>2, <3>3
  <2>5. CASE y \notin S
    <3>1. \A x \in T \cap S : Occurs(Append(s, y), x) <=> Occurs(s, x)
      BY <1>0, <2>5
    <3> QED BY <2>1, <2>2, <2>3, <2>5, <3>1
  <2> QED BY <2>4, <2>5
<1> HIDE DEF P
<1>3. Seq(T) \subseteq P
  BY <1>1, <1>2, SeqSetInduction
<1>4. \A q : q \in Seq(T \cap S) => q \in Seq(T)
  BY SeqMono
<1> QED BY <1>3, <1>4 DEF P

\* Nothing is left out when all of s is in S.
THEOREM KeepAll ==
  ASSUME NEW T, NEW S, T \subseteq S
  PROVE  \A s \in Seq(T) : Keep(s, S) = s
<1> DEFINE P == {s \in Seq(T) : Keep(s, S) = s}
<1>1. <<>> \in P
  BY KeepEmpty
<1>2. ASSUME NEW s \in Seq(T), NEW x \in T, s \in P PROVE Append(s, x) \in P
  BY <1>2, KeepAppend, AppendFacts
<1> HIDE DEF P
<1>3. Seq(T) \subseteq P
  BY <1>1, <1>2, SeqSetInduction
<1> QED BY <1>3 DEF P

\* Numbers that rise in s, those of S among themselves, rise in what is kept.
THEOREM KeepRising ==
  ASSUME NEW S \in SUBSET Nat
  PROVE  \A s \in Seq(Nat) :
           (\A i, j \in 1 .. Len(s) : i < j /\ s[i] \in S /\ s[j] \in S => s[i] < s[j])
           => \A i, j \in 1 .. Len(Keep(s, S)) : i < j => Keep(s, S)[i] < Keep(s, S)[j]
<1> DEFINE Rises(s) == \A i, j \in 1 .. Len(s) : i < j /\ s[i] \in S /\ s[j] \in S => s[i] < s[j]
           Up(s) == \A i, j \in 1 .. Len(s) : i < j => s[i] < s[j]
           P == {s \in Seq(Nat) : Rises(s) => Up(Keep(s, S))}
<1>1. <<>> \in P
  <2>1. Up(<<>>)
    OBVIOUS
  <2> QED BY <2>1, KeepEmpty
<1>2. ASSUME NEW s \in Seq(Nat), NEW x \in Nat, s \in P PROVE Append(s, x) \in P
  <2> SUFFICES ASSUME Rises(Append(s, x)) PROVE Up(Keep(Append(s, x), S))
    BY AppendFacts
  <2>1. /\ Len(s) \in Nat /\ Len(Append(s, x)) = Len(s) + 1 /\ Append(s, x)[Len(s) + 1] = x
        /\ \A i \in 1 .. Len(s) : Append(s, x)[i] = s[i]
    OBVIOUS
  <2>2. Up(Keep(s, S))
    <3>1. Rises(s)
      BY <2>1
    <3> QED BY <1>2, <3>1
  <2>3. CASE x \notin S
    BY <2>2, <2>3, KeepAppend
  <2>4. CASE x \in S
    <3> DEFINE q == Keep(s, S)
    <3>1. q \in Seq(Nat) /\ q \in Seq(Nat \cap S)
      BY KeepType
    <3>2. ASSUME NEW i \in 1 .. Len(q) PROVE q[i] < x
      <4>1. q[i] \in Nat \cap S
        BY <3>1
      <4>2. PICK j \in 1 .. Len(s) : s[j] = q[i]
        <5>1. Occurs(s, q[i]) <=> Occurs(q, q[i])
          BY <4>1, KeepType
        <5> QED BY <5>1 DEF Occurs
      <4>3. j \in 1 .. Len(s) + 1 /\ Len(s) + 1 \in 1 .. Len(s) + 1 /\ j < Len(s) + 1
        BY <2>1
      <4> QED BY <2>1, <2>4, <4>1, <4>2, <4>3
    <3>3. /\ Len(q) \in Nat /\ Len(Append(q, x)) = Len(q) + 1 /\ Append(q, x)[Len(q) + 1] = x
          /\ \A i \in 1 .. Len(q) : Append(q, x)[i] = q[i]
      BY <3>1
    <3>4. Keep(Append(s, x), S) = Append(q, x)
      BY <2>4, KeepAppend
    <3> HIDE DEF q
    <3>5. ASSUME NEW i \in 1 .. Len(q) + 1, NEW j \in 1 .. Len(q) + 1, i < j
          PROVE  Append(q, x)[i] < Append(q, x)[j]
      <4>1. i \in 1 .. Len(q)
        BY <3>3, <3>5
      <4>2. CASE j = Len(q) + 1
        BY <3>2, <3>3, <4>1, <4>2
      <4>3. CASE j \in 1 .. Len(q)
        BY <2>2, <3>3, <3>5, <4>1, <4>3 DEF q
      <4> QED BY <3>3, <4>2, <4>3
    <3> QED BY <3>3, <3>4, <3>5
  <2> QED BY <2>3, <2>4
<1> HIDE DEF P
<1>3. Seq(Nat) \subseteq P
  BY <1>1, <1>2, SeqSetInduction
<1> QED BY <1>3 DEF P

=============================================================================
