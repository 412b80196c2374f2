----------------------------- MODULE Induction -----------------------------
(***************************************************************************)
(* Induction over the natural numbers and recursion on them, stated about  *)
(* sets and functions, and what they say of the recursive operators on     *)
(* sequences that the models use.                                          *)
(***************************************************************************)
EXTENDS Integers, SequencesExt, SequenceTheorems, WellFoundedInduction, TLAPS

\* A nonempty set of natural numbers has a least element.
LEMMA LeastElement ==
    ASSUME NEW S \in SUBSET Nat, S # {}
    PROVE  \E i \in S : \A j \in S : i <= j
<1>1. PICK i \in S : \A j \in S : ~ (<<j, i>> \in OpToRel(<, Nat))
  BY NatLessThanWellFounded, WFMin, Zenon
<1>2. ASSUME NEW j \in S PROVE i <= j
  <2>1. ~ (<<j, i>> \in OpToRel(<, Nat))
    BY <1>1, Zenon
  <2>2. i \in Nat /\ j \in Nat
    OBVIOUS
  <2>3. ~ (j < i)
    BY <2>1, <2>2, Zenon DEF OpToRel
  <2> QED BY <2>2, <2>3
<1> QED BY <1>2

\* A set that holds 0 and with each number the next one holds all of them.
LEMMA SetInduction ==
    ASSUME NEW S, 0 \in S, \A n \in Nat : n \in S => n + 1 \in S
    PROVE  \A n \in Nat : n \in S
<1> SUFFICES ASSUME NEW n \in Nat, n \notin S PROVE FALSE
  OBVIOUS
<1>1. PICK i \in Nat \ S : \A j \in Nat \ S : i <= j
  <2>1. Nat \ S \in SUBSET Nat /\ Nat \ S # {}
    OBVIOUS
  <2> QED BY <2>1, LeastElement
<1>2. i # 0 /\ i - 1 \in Nat
  BY <1>1
<1>3. i - 1 \in S
  BY <1>1, <1>2
<1> QED BY <1>1, <1>2, <1>3

\* h follows the recursion from a by g up to n.
Follows(h, n, a, g) == h[0] = a /\ \A i \in 0..(n - 1) : h[i + 1] = g[i][h[i]]

Recurses(f, a, g) == f[0] = a /\ \A n \in Nat : f[n + 1] = g[n][f[n]]

\* A function on the natural numbers may be defined by recursion.
LEMMA Recursion ==
    ASSUME NEW T, NEW a \in T, NEW g \in [Nat -> [T -> T]]
    PROVE  \E f \in [Nat -> T] : Recurses(f, a, g)
<1> DEFINE Has(n) == \E h \in [0..n -> T] : Follows(h, n, a, g)
           S == {n \in Nat : Has(n)}
<1>1. \A n \in Nat : n \in S
  <2>1. 0 \in S
    <3>1. [i \in 0..0 |-> a] \in [0..0 -> T] /\ Follows([i \in 0..0 |-> a], 0, a, g)
      BY DEF Follows
    <3> QED BY <3>1
  <2>2. ASSUME NEW n \in Nat, n \in S PROVE n + 1 \in S
    <3>1. PICK h \in [0..n -> T] : Follows(h, n, a, g)
      BY <2>2
    <3> DEFINE k == [i \in 0..(n + 1) |-> IF i <= n THEN h[i] ELSE g[n][h[n]]]
    <3>2. h[n] \in T /\ g[n] \in [T -> T] /\ g[n][h[n]] \in T
      OBVIOUS
    <3>3. k \in [0..(n + 1) -> T]
      BY <3>2
    <3>4. k[0] = a
      BY <3>1 DEF Follows
    <3>5. ASSUME NEW i \in 0..n PROVE k[i + 1] = g[i][k[i]]
      BY <3>1 DEF Follows
    <3>6. 0..((n + 1) - 1) = 0..n
      OBVIOUS
    <3> HIDE DEF k
    <3>7. Follows(k, n + 1, a, g)
      BY <3>4, <3>5, <3>6 DEF Follows
    <3> QED BY <3>3, <3>7
  <2> HIDE DEF S
  <2> QED BY <2>1, <2>2, SetInduction
<1> DEFINE H(n) == CHOOSE h \in [0..n -> T] : Follows(h, n, a, g)
<1>2. \A n \in Nat : H(n) \in [0..n -> T] /\ Follows(H(n), n, a, g)
  BY <1>1
<1> HIDE DEF H
<1>3. ASSUME NEW m \in Nat, NEW n \in Nat, m <= n
      PROVE  H(m)[m] = H(n)[m]
  <2> DEFINE E == {i \in Nat : i <= m => H(m)[i] = H(n)[i]}
  <2>1. 0 \in E
    BY <1>2 DEF Follows
  <2>2. ASSUME NEW i \in Nat, i \in E PROVE i + 1 \in E
    <3>1. CASE i + 1 <= m
      <4>1. i \in 0..(m - 1) /\ i \in 0..(n - 1)
        BY <1>3, <3>1
      <4>2. H(m)[i + 1] = g[i][H(m)[i]] /\ H(n)[i + 1] = g[i][H(n)[i]]
        BY <1>2, <4>1 DEF Follows
      <4> QED BY <2>2, <3>1, <4>2
    <3>2. CASE ~(i + 1 <= m)
      BY <3>2
    <3> QED BY <3>1, <3>2
  <2> HIDE DEF E
  <2>3. m \in E
    BY <2>1, <2>2, SetInduction
  <2> QED BY <2>3 DEF E
<1> DEFINE f == [n \in Nat |-> H(n)[n]]
<1>4. f \in [Nat -> T]
  BY <1>2
<1>5. f[0] = a
  BY <1>2 DEF Follows
<1>6. ASSUME NEW n \in Nat PROVE f[n + 1] = g[n][f[n]]
  <2>1. n \in 0..((n + 1) - 1)
    OBVIOUS
  <2>2. H(n + 1)[n + 1] = g[n][H(n + 1)[n]]
    BY <1>2, <2>1 DEF Follows
  <2>3. H(n)[n] = H(n + 1)[n]
    BY <1>3
  <2> QED BY <2>2, <2>3
<1>7. Recurses(f, a, g)
  BY <1>5, <1>6 DEF Recurses
<1> QED BY <1>4, <1>7
-----------------------------------------------------------------------------
(* FlattenSeq: the elements of all the sequences of a sequence. *)

\* Concatenation by a name that proofs can keep closed.
Cat(c, d) == c \o d

\* What the sequences over a set have in common under concatenation.
Concatenable(T) ==
    /\ <<>> \in T
    /\ \A c, d \in T : Cat(c, d) \in T
    /\ \A c \in T : Cat(<<>>, c) = c /\ Cat(c, <<>>) = c
    /\ \A c, d, e \in T : Cat(Cat(c, d), e) = Cat(c, Cat(d, e))

LEMMA SeqConcatenable == ASSUME NEW X PROVE Concatenable(Seq(X))
  BY ConcatProperties, ConcatEmptySeq, ConcatAssociative DEF Cat, Concatenable


\* f[i] holds the elements of the first i sequences of s.
Flattens(f, s) == f[0] = <<>> /\ \A i \in 1..Len(s) : f[i] = Cat(f[i - 1], s[i])

Agree(f, h, m, n) == \A i \in m..n : f[i] = h[i]

LEMMA FlattenUnique ==
    ASSUME NEW T, NEW s \in Seq(T), NEW t \in Seq(T), Len(s) <= Len(t), Agree(s, t, 1, Len(s)),
           NEW f \in [0..Len(s) -> T], Flattens(f, s),
           NEW h \in [0..Len(t) -> T], Flattens(h, t)
    PROVE  Agree(f, h, 0, Len(s))
<1> DEFINE E == {i \in Nat : i <= Len(s) => f[i] = h[i]}
<1>0. Len(s) \in Nat /\ Len(t) \in Nat
  OBVIOUS
<1>1. 0 \in E
  BY DEF Flattens
<1>2. ASSUME NEW i \in Nat, i \in E PROVE i + 1 \in E
  <2>1. CASE i + 1 <= Len(s)
    <3>1. i + 1 \in 1..Len(s) /\ i + 1 \in 1..Len(t) /\ (i + 1) - 1 = i
      BY <1>0, <2>1
    <3>2. f[i + 1] = Cat(f[i], s[i + 1]) /\ h[i + 1] = Cat(h[i], t[i + 1])
      BY <3>1 DEF Flattens
    <3> QED BY <1>0, <1>2, <2>1, <3>1, <3>2 DEF Agree
  <2>2. CASE ~(i + 1 <= Len(s))
    BY <2>2
  <2> QED BY <2>1, <2>2
<1>3. \A i \in Nat : i \in E
  <2> HIDE DEF E
  <2> QED BY <1>1, <1>2, SetInduction
<1> QED BY <1>0, <1>3 DEF Agree

LEMMA FlattenDef ==
    ASSUME NEW T, Concatenable(T), NEW s \in Seq(T)
    PROVE  \E f \in [0..Len(s) -> T] : Flattens(f, s) /\ FlattenSeq(s) = f[Len(s)]
<1> DEFINE n == Len(s)
           g == [i \in Nat |-> [c \in T |-> IF i < n THEN Cat(c, s[i + 1]) ELSE c]]
<1>1. n \in Nat /\ \A i \in 1..n : s[i] \in T
  OBVIOUS
<1>2. g \in [Nat -> [T -> T]]
  <2>1. ASSUME NEW i \in Nat, NEW c \in T
        PROVE  (IF i < n THEN Cat(c, s[i + 1]) ELSE c) \in T
    <3>1. CASE i < n
      <4>1. i + 1 \in 1..n
        BY <1>1, <3>1
      <4> QED BY <1>1, <3>1, <4>1 DEF Concatenable
    <3>2. CASE ~(i < n)
      BY <3>2
    <3> QED BY <3>1, <3>2
  <2> QED BY <2>1
<1>3. <<>> \in T
  BY DEF Concatenable
<1>4. PICK e \in [Nat -> T] : e[0] = <<>> /\ \A i \in Nat : e[i + 1] = g[i][e[i]]
  <2>1. PICK a \in T, r \in [Nat -> [T -> T]] : a = <<>> /\ r = g
    <3> HIDE DEF g
    <3> QED BY <1>2, <1>3, Zenon
  <2>2. \E f \in [Nat -> T] : Recurses(f, a, r)
    BY Recursion, Zenon
  <2> HIDE DEF g
  <2> QED BY <2>1, <2>2, Zenon DEF Recurses
<1>5. ASSUME NEW i \in 1..n PROVE e[i] = Cat(e[i - 1], s[i])
  <2>1. i - 1 \in Nat /\ (i - 1) + 1 = i /\ i - 1 < n /\ e[i - 1] \in T
    BY <1>1
  <2>2. e[(i - 1) + 1] = g[i - 1][e[i - 1]]
    BY <1>4, <2>1
  <2>3. g[i - 1][e[i - 1]] = Cat(e[i - 1], s[(i - 1) + 1])
    BY <2>1
  <2> QED BY <2>1, <2>2, <2>3
<1> HIDE DEF g
<1> DEFINE f == [i \in 0..n |-> e[i]]
<1>6. f \in [0..n -> T]
  OBVIOUS
<1>7. Flattens(f, s)
  BY <1>1, <1>4, <1>5 DEF Flattens
<1>8. FlattenSeq(s) = f[n]
  <2>1. CASE n = 0
    <3>1. s = <<>>
      BY <2>1
    <3> QED BY <1>4, <2>1, <3>1 DEF FlattenSeq
  <2>2. CASE n # 0
    <3> DEFINE Defines(d) == d = [i \in 1..n |-> IF i = 1 THEN s[i] ELSE Cat(d[i - 1], s[i])]
               c == CHOOSE d : Defines(d)
               k == [i \in 1..n |-> e[i]]
    <3>1. Defines(k)
      <4>1. ASSUME NEW i \in 1..n PROVE k[i] = IF i = 1 THEN s[i] ELSE Cat(k[i - 1], s[i])
        <5>1. CASE i = 1
          <6>1. s[1] \in T /\ e[1] = Cat(<<>>, s[1])
            BY <1>1, <1>4, <1>5, <5>1
          <6> QED BY <5>1, <6>1 DEF Concatenable
        <5>2. CASE i # 1
          <6>1. i - 1 \in 1..n
            BY <1>1, <5>2
          <6> QED BY <1>5, <5>2, <6>1
        <5> QED BY <5>1, <5>2
      <4> QED BY <4>1
    <3> HIDE DEF k
    <3>2. Defines(c)
      <4> HIDE DEF Defines
      <4> QED BY <3>1
    <3>3. FlattenSeq(s) = c[n]
      BY <2>2 DEF FlattenSeq, Cat
    <3> HIDE DEF c
    <3> DEFINE E == {i \in Nat : i \in 1..n => c[i] = e[i]}
    <3>4. 0 \in E
      OBVIOUS
    <3>5. ASSUME NEW i \in Nat, i \in E PROVE i + 1 \in E
      <4>1. CASE i + 1 \in 1..n
        <5>1. c[i + 1] = IF i + 1 = 1 THEN s[i + 1] ELSE Cat(c[(i + 1) - 1], s[i + 1])
          BY <3>2, <4>1
        <5>2. e[i + 1] = Cat(e[(i + 1) - 1], s[i + 1])
          BY <1>5, <4>1
        <5>3. CASE i = 0
          <6>1. s[1] \in T /\ e[1] = Cat(<<>>, s[1])
            BY <1>1, <1>4, <4>1, <5>2, <5>3
          <6>2. Cat(<<>>, s[1]) = s[1]
            BY <6>1, Zenon DEF Concatenable
          <6>3. i + 1 = 1
            BY <5>3
          <6>4. c[1] = s[1]
            BY <5>1, <6>3
          <6> QED BY <5>3, <6>1, <6>2, <6>3, <6>4
        <5>4. CASE i # 0
          <6>1. i \in 1..n /\ (i + 1) - 1 = i /\ i + 1 # 1
            BY <1>1, <4>1, <5>4
          <6> QED BY <3>5, <5>1, <5>2, <6>1
        <5> QED BY <5>3, <5>4
      <4>2. CASE i + 1 \notin 1..n
        BY <4>2
      <4> QED BY <4>1, <4>2
    <3>6. n \in E
      <4> HIDE DEF E
      <4> QED BY <1>1, <3>4, <3>5, SetInduction
    <3> QED BY <1>1, <2>2, <3>3, <3>6
  <2> QED BY <2>1, <2>2
<1> QED BY <1>6, <1>7, <1>8

Shifted(c, t, s) ==
    Len(s) = Len(t) + 1 /\ s[1] = c /\ \A i \in 1..Len(t) : t[i] = s[i + 1]

Prefixed(c, f, t, h, s) == h[Len(s)] = Cat(c, f[Len(t)])

LEMMA FlattenShift ==
    ASSUME NEW T, Concatenable(T), NEW s \in Seq(T), NEW t \in Seq(T), NEW c \in T,
           Shifted(c, t, s),
           NEW f \in [0..Len(t) -> T], Flattens(f, t),
           NEW h \in [0..Len(s) -> T], Flattens(h, s)
    PROVE  Prefixed(c, f, t, h, s)
<1> DEFINE P(i) == h[i + 1] = Cat(c, f[i])
           E == {i \in Nat : i <= Len(t) => P(i)}
<1>1. Len(t) \in Nat /\ Len(s) \in Nat /\ Len(s) = Len(t) + 1 /\ s[1] = c
  BY DEF Shifted
<1>2. 0 \in E
  <2>1. 1 \in 1..Len(s) /\ 1 - 1 = 0
    BY <1>1
  <2>2. h[1] = Cat(h[0], s[1]) /\ h[0] = <<>> /\ f[0] = <<>>
    BY <2>1 DEF Flattens
  <2>3. h[1] = c /\ Cat(c, f[0]) = c
    BY <1>1, <2>2 DEF Concatenable
  <2>4. P(0)
    BY <2>2, <2>3
  <2> HIDE DEF P
  <2> QED BY <2>4
<1>3. ASSUME NEW i \in Nat, i \in E PROVE i + 1 \in E
  <2>1. CASE i + 1 <= Len(t)
    <3>1. i + 1 \in 1..Len(t) /\ (i + 1) - 1 = i /\ (i + 1) + 1 \in 1..Len(s) /\ ((i + 1) + 1) - 1 = i + 1
      BY <1>1, <2>1
    <3>2. f[i + 1] = Cat(f[i], t[i + 1]) /\ h[(i + 1) + 1] = Cat(h[i + 1], s[(i + 1) + 1])
      BY <3>1 DEF Flattens
    <3>3. P(i)
      <4> HIDE DEF P
      <4> QED BY <1>1, <1>3, <2>1
    <3>6. t[i + 1] = s[(i + 1) + 1] /\ t[i + 1] \in T
      BY <3>1, ElementOfSeq DEF Shifted
    <3>7. f[i] \in T
      BY <1>1, <2>1
    <3>4. Cat(Cat(c, f[i]), t[i + 1]) = Cat(c, Cat(f[i], t[i + 1]))
      BY <3>6, <3>7 DEF Concatenable
    <3>5. P(i + 1)
      BY <3>2, <3>3, <3>4, <3>6
    <3> HIDE DEF P
    <3> QED BY <3>5
  <2>2. CASE ~(i + 1 <= Len(t))
    <3> HIDE DEF P
    <3> QED BY <2>2
  <2> QED BY <2>1, <2>2
<1>4. Len(t) \in E
  <2> HIDE DEF E
  <2> QED BY <1>1, <1>2, <1>3, SetInduction
<1>5. P(Len(t))
  <2> HIDE DEF P
  <2> QED BY <1>1, <1>4
<1> QED BY <1>1, <1>5 DEF Prefixed

LEMMA FlattenEmpty == FlattenSeq(<<>>) = <<>>
  BY DEF FlattenSeq

LEMMA FlattenIn ==
    ASSUME NEW T, Concatenable(T), NEW s \in Seq(T) PROVE FlattenSeq(s) \in T
<1>1. PICK f \in [0..Len(s) -> T] : Flattens(f, s) /\ FlattenSeq(s) = f[Len(s)]
  BY FlattenDef, Zenon
<1>2. Len(s) \in 0..Len(s)
  OBVIOUS
<1> QED BY <1>1, <1>2

LEMMA FlattenType == ASSUME NEW X, NEW s \in Seq(Seq(X)) PROVE FlattenSeq(s) \in Seq(X)
  BY SeqConcatenable, FlattenIn, Zenon

LEMMA FlattenAppendIn ==
    ASSUME NEW T, Concatenable(T), NEW s \in Seq(T), NEW c \in T
    PROVE  FlattenSeq(Append(s, c)) = Cat(FlattenSeq(s), c)
<1>1. PICK t \in Seq(T) : t = Append(s, c)
  BY AppendProperties, Zenon
<1>2. PICK n \in Nat : n = Len(s)
  OBVIOUS
<1>3. Len(t) = n + 1 /\ t[n + 1] = c /\ Agree(s, t, 1, Len(s))
  BY <1>1, <1>2, AppendProperties DEF Agree
<1>4. PICK f \in [0..Len(s) -> T] : Flattens(f, s) /\ FlattenSeq(s) = f[Len(s)]
  BY FlattenDef, Zenon
<1>5. PICK h \in [0..Len(t) -> T] : Flattens(h, t) /\ FlattenSeq(t) = h[Len(t)]
  BY FlattenDef, Zenon
<1>6. Len(s) <= Len(t)
  BY <1>2, <1>3
<1>7. Agree(f, h, 0, Len(s))
  BY <1>3, <1>4, <1>5, <1>6, FlattenUnique, Zenon
<1>8. f[n] = h[n]
  BY <1>2, <1>7 DEF Agree
<1>9. h[n + 1] = Cat(h[n], t[n + 1])
  <2>1. n + 1 \in 1..Len(t) /\ (n + 1) - 1 = n
    BY <1>3
  <2> QED BY <1>5, <2>1 DEF Flattens
<1> QED BY <1>1, <1>2, <1>3, <1>4, <1>5, <1>8, <1>9

\* One more sequence at the end.
LEMMA FlattenAppend ==
    ASSUME NEW X, NEW s \in Seq(Seq(X)), NEW c \in Seq(X)
    PROVE  FlattenSeq(Append(s, c)) = FlattenSeq(s) \o c
  BY SeqConcatenable, FlattenAppendIn, Zenon DEF Cat

LEMMA FlattenHeadIn ==
    ASSUME NEW T, Concatenable(T), NEW s \in Seq(T), s # <<>>
    PROVE  FlattenSeq(s) = Cat(Head(s), FlattenSeq(Tail(s)))
<1>1. PICK t \in Seq(T), c \in T : t = Tail(s) /\ c = Head(s)
  BY HeadTailProperties, Zenon
<1>2. Shifted(c, t, s)
  BY <1>1, HeadTailProperties DEF Shifted
<1>3. PICK f \in [0..Len(t) -> T] : Flattens(f, t) /\ FlattenSeq(t) = f[Len(t)]
  BY FlattenDef, Zenon
<1>4. PICK h \in [0..Len(s) -> T] : Flattens(h, s) /\ FlattenSeq(s) = h[Len(s)]
  BY FlattenDef, Zenon
<1>5. Prefixed(c, f, t, h, s)
  <2>1. Flattens(f, t) /\ Flattens(h, s)
    BY <1>3, <1>4, Zenon
  <2> QED BY <1>2, <2>1, FlattenShift, ZenonT(30)
<1> QED BY <1>1, <1>3, <1>4, <1>5, Zenon DEF Prefixed

\* The first sequence comes first.
LEMMA FlattenHead ==
    ASSUME NEW X, NEW s \in Seq(Seq(X)), s # <<>>
    PROVE  FlattenSeq(s) = Head(s) \o FlattenSeq(Tail(s))
  BY SeqConcatenable, FlattenHeadIn, Zenon DEF Cat
=============================================================================
