--------------------------- MODULE SequenceLemmas ---------------------------
(***************************************************************************)
(* Lemmas about the operators on sequences that Firewall is built from:    *)
(* FlattenSeq, Contains, RemoveFirst, InsertAt and ToSet.                  *)
(*                                                                         *)
(* They rest on induction over a set of numbers, which is proved from the  *)
(* well-foundedness of the order of the naturals.                          *)
(***************************************************************************)
EXTENDS Integers, Sequences, SequencesExt, FiniteSetTheorems, SequenceTheorems,
        WellFoundedInduction, TLAPS

\* The naturals are well-founded, with the order as a set of pairs.
LEMMA NatIsWellFounded == IsWellFoundedOn({ss \in Nat \X Nat : ss[1] < ss[2]}, Nat)
BY NatLessThanWellFounded, Zenon DEF OpToRel

\* Every non-empty set of naturals has a least element.
LEMMA Least == ASSUME NEW S \in SUBSET Nat, S # {} PROVE \E m \in S : \A n \in S : m <= n
<1> DEFINE R == {ss \in Nat \X Nat : ss[1] < ss[2]}
<1>0. \A n, m \in Nat : n < m => <<n, m>> \in R
  OBVIOUS
<1> HIDE DEF R
<1>1. IsWellFoundedOn(R, Nat)
  BY NatIsWellFounded DEF R
<1>2. PICK m \in S : \A n \in S : ~ (<<n, m>> \in R)
  BY <1>1, WFMin, Zenon
<1>3. \A n \in S : ~ (n < m)
  BY <1>0, <1>2
<1> QED
  BY <1>3

\* A set that has 0, and with every number the next, has all naturals.
LEMMA Induction ==
  ASSUME NEW S, 0 \in S, \A n \in Nat : n \in S => n + 1 \in S
  PROVE  Nat \subseteq S
<1> SUFFICES ASSUME Nat \ S # {} PROVE FALSE
  OBVIOUS
<1>1. PICK m \in Nat \ S : \A n \in Nat \ S : m <= n
  BY Least
<1>2. m - 1 \in Nat /\ m - 1 \in S
  BY <1>1
<1> QED
  BY <1>1, <1>2

\* FlattenSeq is the last value of its recursive function, if there is one.
LEMMA FlattenIsRecursive ==
  ASSUME NEW s, NEW h, Len(s) # 0,
         h = [i \in 1 .. Len(s) |-> IF i = 1 THEN s[i] ELSE h[i - 1] \o s[i]]
  PROVE  \E f : /\ f = [i \in 1 .. Len(s) |-> IF i = 1 THEN s[i] ELSE f[i - 1] \o s[i]]
                /\ FlattenSeq(s) = f[Len(s)]
BY Zenon DEF FlattenSeq

\* h[k] is the concatenation of the first k sequences, for k up to n.
Flattens(s, h, n) ==
  /\ h[0] = <<>>
  /\ \A k \in 1 .. n : h[k] = h[k - 1] \o s[k]

\* One more sequence can be flattened.
LEMMA FlattensMore ==
  ASSUME NEW T, NEW n \in Nat, NEW s, NEW g \in [0 .. n -> T], Flattens(s, g, n),
         g[n] \o s[n + 1] \in T
  PROVE  \E h \in [0 .. n + 1 -> T] : Flattens(s, h, n + 1)
<1> DEFINE h == [k \in 0 .. n + 1 |-> IF k = n + 1 THEN g[n] \o s[n + 1] ELSE g[k]]
<1>1. h \in [0 .. n + 1 -> T]
  OBVIOUS
<1>2. h[n + 1] = g[n] \o s[n + 1]
  <2>1. n + 1 \in 0 .. n + 1
    OBVIOUS
  <2> QED
    BY <2>1, Zenon
<1>3. \A j \in 0 .. n : h[j] = g[j]
  <2>1. \A j \in 0 .. n : j \in 0 .. n + 1 /\ j # n + 1
    OBVIOUS
  <2> QED
    BY <2>1, Zenon
<1> HIDE DEF h
<1>4. h[0] = <<>>
  BY <1>3 DEF Flattens
<1>5. ASSUME NEW k \in 1 .. n + 1 PROVE h[k] = h[k - 1] \o s[k]
  <2>1. k - 1 \in 0 .. n
    OBVIOUS
  <2>2. CASE k = n + 1
    <3>1. k - 1 = n
      BY <2>2
    <3> QED
      BY <1>2, <1>3, <2>1, <2>2, <3>1, Zenon
  <2>3. CASE k # n + 1
    <3>1. k \in 1 .. n /\ k \in 0 .. n
      BY <2>3
    <3> QED
      BY <1>3, <2>1, <3>1, Zenon DEF Flattens
  <2> QED
    BY <2>2, <2>3
<1> QED
  BY <1>1, <1>4, <1>5, Zenon DEF Flattens

\* FlattenSeq concatenates the sequences one by one, and stays in any set of
\* sequences that is closed under concatenation.
LEMMA Flattening ==
  ASSUME NEW X, NEW T \in SUBSET Seq(X), <<>> \in T, \A a, b \in T : a \o b \in T,
         NEW s \in Seq(T)
  PROVE  \E h \in [0 .. Len(s) -> T] :
           Flattens(s, h, Len(s)) /\ FlattenSeq(s) = h[Len(s)]
<1> DEFINE S == {n \in Nat : n <= Len(s) => \E h \in [0 .. n -> T] : Flattens(s, h, n)}
<1>1. 0 \in S
  <2> DEFINE h == [k \in 0 .. 0 |-> <<>>]
  <2>1. h \in [0 .. 0 -> T] /\ h[0] = <<>>
    OBVIOUS
  <2> HIDE DEF h
  <2>2. Flattens(s, h, 0)
    BY <2>1 DEF Flattens
  <2> QED
    BY <2>1, <2>2
<1>2. ASSUME NEW n \in Nat, n \in S PROVE n + 1 \in S
  <2> SUFFICES ASSUME n + 1 <= Len(s)
               PROVE  \E h \in [0 .. n + 1 -> T] : Flattens(s, h, n + 1)
    OBVIOUS
  <2>1. PICK g \in [0 .. n -> T] : Flattens(s, g, n)
    BY <1>2
  <2>2. s[n + 1] \in T /\ g[n] \in T
    OBVIOUS
  <2> QED
    BY <2>1, <2>2, FlattensMore
<1> HIDE DEF S
<1>3. Len(s) \in S
  <2>1. Nat \subseteq S
    BY ONLY <1>1, <1>2, Induction, Zenon
  <2> QED
    BY <2>1
<1>4. PICK h \in [0 .. Len(s) -> T] : Flattens(s, h, Len(s))
  BY <1>3 DEF S
<1>5. CASE Len(s) = 0
  BY <1>4, <1>5 DEF FlattenSeq, Flattens
<1>6. CASE Len(s) # 0
  <2> DEFINE g == [k \in 1 .. Len(s) |-> h[k]]
  <2>0. \A k \in 1 .. Len(s) : g[k] = h[k]
    BY Zenon
  <2> HIDE DEF g
  <2>1. ASSUME NEW k \in 1 .. Len(s)
        PROVE  g[k] = IF k = 1 THEN s[k] ELSE g[k - 1] \o s[k]
    <3>1. h[k] = h[k - 1] \o s[k]
      BY <1>4 DEF Flattens
    <3>2. CASE k = 1
      <4>1. s[1] \in Seq(X) /\ <<>> \o s[1] = s[1] /\ k - 1 = 0
        BY <3>2
      <4> QED
        BY <1>4, <2>0, <3>1, <3>2, <4>1, Zenon DEF Flattens
    <3>3. CASE k # 1
      <4>1. k - 1 \in 1 .. Len(s)
        BY <3>3
      <4> QED
        BY <2>0, <3>1, <3>3, <4>1, Zenon
    <3> QED
      BY <3>2, <3>3
  <2>2. g = [k \in 1 .. Len(s) |-> IF k = 1 THEN s[k] ELSE g[k - 1] \o s[k]]
    BY <2>1, Zenon DEF g
  <2>3. PICK f : /\ f = [k \in 1 .. Len(s) |-> IF k = 1 THEN s[k] ELSE f[k - 1] \o s[k]]
                 /\ FlattenSeq(s) = f[Len(s)]
    BY <1>6, <2>2, FlattenIsRecursive, Zenon
  <2>4. \A k \in 1 .. Len(s) : f[k] = IF k = 1 THEN s[k] ELSE f[k - 1] \o s[k]
    BY <2>3, Zenon
  <2> DEFINE E == {n \in Nat : n \in 1 .. Len(s) => f[n] = g[n]}
  <2>5. 0 \in E
    OBVIOUS
  <2>6. ASSUME NEW n \in Nat, n \in E PROVE n + 1 \in E
    <3> SUFFICES ASSUME n + 1 \in 1 .. Len(s) PROVE f[n + 1] = g[n + 1]
      OBVIOUS
    <3>1. (n + 1) - 1 = n /\ (n + 1 # 1 => n \in 1 .. Len(s))
      OBVIOUS
    <3>2. n + 1 # 1 => f[n] = g[n]
      BY <2>6, <3>1
    <3>3. CASE n + 1 = 1
      BY <2>1, <2>4, <3>3, Zenon
    <3>4. CASE n + 1 # 1
      <4>1. f[n + 1] = f[(n + 1) - 1] \o s[n + 1]
        BY <2>4, <3>4, Zenon
      <4>2. g[n + 1] = g[(n + 1) - 1] \o s[n + 1]
        BY <2>1, <3>4, Zenon
      <4> QED
        BY <3>1, <3>2, <3>4, <4>1, <4>2, Zenon
    <3> QED
      BY <3>3, <3>4
  <2> HIDE DEF E
  <2>7. Len(s) \in E
    BY ONLY <2>5, <2>6, Induction, Len(s) \in Nat
  <2>8. Len(s) \in 1 .. Len(s)
    BY <1>6
  <2>9. FlattenSeq(s) = h[Len(s)]
    BY <2>0, <2>3, <2>7, <2>8, Zenon DEF E
  <2> QED
    BY <1>4, <2>9
<1> QED
  BY <1>5, <1>6

\* What a concatenation contains.
LEMMA ContainsConcat ==
  ASSUME NEW X, NEW a \in Seq(X), NEW b \in Seq(X), NEW x
  PROVE  Contains(a \o b, x) <=> Contains(a, x) \/ Contains(b, x)
<1>1. ASSUME NEW i \in 1 .. Len(a), a[i] = x PROVE Contains(a \o b, x)
  BY <1>1 DEF Contains
<1>2. ASSUME NEW i \in 1 .. Len(b), b[i] = x PROVE Contains(a \o b, x)
  <2>1. Len(a) + i \in 1 .. Len(a \o b) /\ (a \o b)[Len(a) + i] = x
    BY <1>2
  <2> QED
    BY <2>1 DEF Contains
<1>3. ASSUME NEW i \in 1 .. Len(a \o b), (a \o b)[i] = x PROVE Contains(a, x) \/ Contains(b, x)
  <2>1. CASE i <= Len(a)
    BY <1>3, <2>1 DEF Contains
  <2>2. CASE i > Len(a)
    <3>1. i - Len(a) \in 1 .. Len(b) /\ b[i - Len(a)] = x
      BY <1>3, <2>2
    <3> QED
      BY <3>1 DEF Contains
  <2> QED
    BY <2>1, <2>2
<1> QED
  BY <1>1, <1>2, <1>3 DEF Contains

\* What concatenation preserves, FlattenSeq preserves.
LEMMA FlattenClosed ==
  ASSUME NEW X, NEW T \in SUBSET Seq(X), <<>> \in T, \A a, b \in T : a \o b \in T,
         NEW s \in Seq(T)
  PROVE  FlattenSeq(s) \in T
<1>1. PICK h \in [0 .. Len(s) -> T] : FlattenSeq(s) = h[Len(s)]
  BY Flattening
<1> QED
  BY <1>1

\* FlattenSeq keeps every element of every sequence.
LEMMA FlattenContains ==
  ASSUME NEW X, NEW s \in Seq(Seq(X)), NEW i \in 1 .. Len(s), NEW x, Contains(s[i], x)
  PROVE  Contains(FlattenSeq(s), x)
<1>1. PICK h \in [0 .. Len(s) -> Seq(X)] :
        Flattens(s, h, Len(s)) /\ FlattenSeq(s) = h[Len(s)]
  <2>1. Seq(X) \in SUBSET Seq(X) /\ <<>> \in Seq(X) /\ \A a, b \in Seq(X) : a \o b \in Seq(X)
    OBVIOUS
  <2> QED
    BY <2>1, Flattening, Zenon
<1> DEFINE S == {n \in Nat : n \in i .. Len(s) => Contains(h[n], x)}
<1>2. 0 \in S
  OBVIOUS
<1>3. ASSUME NEW n \in Nat, n \in S PROVE n + 1 \in S
  <2> SUFFICES ASSUME n + 1 \in i .. Len(s) PROVE Contains(h[n + 1], x)
    OBVIOUS
  <2>0. n \in 0 .. Len(s) /\ n + 1 \in 1 .. Len(s) /\ (n + 1) - 1 = n
    OBVIOUS
  <2>1. h[n + 1] = h[n] \o s[n + 1]
    BY <1>1, <2>0, Zenon DEF Flattens
  <2>2. h[n] \in Seq(X) /\ s[n + 1] \in Seq(X)
    <3>1. h[n] \in Seq(X)
      BY <2>0, Zenon
    <3>2. s[n + 1] \in Seq(X)
      BY <2>0, ElementOfSeq
    <3> QED
      BY <3>1, <3>2
  <2>3. CASE n + 1 = i
    <3> QED
      BY <2>1, <2>2, <2>3, ContainsConcat
  <2>4. CASE n + 1 # i
    <3>1. Contains(h[n], x)
      BY <1>3, <2>4
    <3> QED
      BY <2>1, <2>2, <3>1, ContainsConcat
  <2> QED
    BY <2>3, <2>4
<1> HIDE DEF S
<1>4. Len(s) \in S
  BY ONLY <1>2, <1>3, Induction, Len(s) \in Nat
<1> QED
  BY <1>1, <1>4 DEF S

\* RemoveFirst keeps the other elements.
LEMMA RemovedFirst ==
  ASSUME NEW X, NEW s \in Seq(X), NEW e
  PROVE  /\ RemoveFirst(s, e) \in Seq(X)
         /\ \A x : x # e /\ Contains(s, x) => Contains(RemoveFirst(s, e), x)
<1>1. CASE ~ \E i \in 1 .. Len(s) : s[i] = e
  BY <1>1 DEF RemoveFirst
<1>2. CASE \E i \in 1 .. Len(s) : s[i] = e
  <2> DEFINE I == {i \in 1 .. Len(s) : s[i] = e}
  <2>1. PICK m \in I : \A n \in I : m <= n
    <3>1. I \in SUBSET Nat /\ I # {}
      BY <1>2
    <3> QED
      BY <3>1, Least, Zenon
  <2> DEFINE k == Min(I)
  <2>2. k \in I
    BY <2>1 DEF Min
  <2>3. RemoveFirst(s, e) = RemoveAt(s, k)
    BY <1>2 DEF RemoveFirst, SelectInSeq
  <2> HIDE DEF k
  <2> DEFINE a == SubSeq(s, 1, k - 1)
             b == SubSeq(s, k + 1, Len(s))
  <2>4. a \in Seq(X) /\ b \in Seq(X)
    BY <2>2
  <2>5. \A i \in 1 .. k - 1 : Contains(a, s[i])
    BY <2>2 DEF Contains
  <2>6. ASSUME NEW i \in k + 1 .. Len(s) PROVE Contains(b, s[i])
    <3>1. i - k \in 1 .. Len(b) /\ b[i - k] = s[i]
      BY <2>2
    <3> QED
      BY <3>1 DEF Contains
  <2>7. RemoveFirst(s, e) = a \o b
    BY <2>3 DEF RemoveAt
  <2> HIDE DEF a, b
  <2>8. ASSUME NEW x, x # e, Contains(s, x) PROVE Contains(a \o b, x)
    <3>1. PICK i \in 1 .. Len(s) : s[i] = x
      BY <2>8 DEF Contains
    <3>2. i \in 1 .. k - 1 \/ i \in k + 1 .. Len(s)
      BY <2>2, <2>8, <3>1
    <3> QED
      BY <2>4, <2>5, <2>6, <3>1, <3>2, ContainsConcat
  <2> QED
    BY <2>4, <2>7, <2>8
<1> QED
  BY <1>1, <1>2

\* InsertAt the second position: the first element stays, the others move.
LEMMA InsertedSecond ==
  ASSUME NEW X, NEW s \in Seq(X), Len(s) # 0, NEW x \in X
  PROVE  /\ InsertAt(s, 2, x) \in Seq(X) /\ Len(InsertAt(s, 2, x)) = Len(s) + 1
         /\ InsertAt(s, 2, x)[1] = s[1] /\ InsertAt(s, 2, x)[2] = x
         /\ \A i \in 2 .. Len(s) : InsertAt(s, 2, x)[i + 1] = s[i]
BY DEF InsertAt

\* ... and no element is lost.
LEMMA InsertedKeeps ==
  ASSUME NEW X, NEW s \in Seq(X), Len(s) # 0, NEW x \in X
  PROVE  /\ \A y : Contains(s, y) => Contains(InsertAt(s, 2, x), y)
         /\ Contains(InsertAt(s, 2, x), x)
<1> DEFINE t == InsertAt(s, 2, x)
<1>1. /\ Len(t) = Len(s) + 1 /\ t[1] = s[1] /\ t[2] = x
      /\ \A i \in 2 .. Len(s) : t[i + 1] = s[i]
  BY DEF InsertAt
<1> HIDE DEF t
<1>2. ASSUME NEW i \in 1 .. Len(s) PROVE Contains(t, s[i])
  BY <1>1 DEF Contains
<1>3. Contains(t, x)
  BY <1>1 DEF Contains
<1>4. \A y : Contains(s, y) => Contains(t, y)
  BY <1>2 DEF Contains
<1> QED
  BY <1>3, <1>4 DEF t

\* A sequence without repetition has as many elements as positions.
LEMMA CountingUnique ==
  ASSUME NEW X, NEW s \in Seq(X), \A i, j \in DOMAIN s : s[i] = s[j] => i = j
  PROVE  Cardinality(ToSet(s)) = Len(s)
<1>1. s \in Bijection(1 .. Len(s), ToSet(s))
  BY DEF Bijection, Injection, Surjection, ToSet, IsInjective
<1>2. IsFiniteSet(1 .. Len(s)) /\ Cardinality(1 .. Len(s)) = Len(s)
  <2>1. IsFiniteSet(1 .. Len(s)) /\ Cardinality(1 .. Len(s)) = IF 1 > Len(s) THEN 0 ELSE Len(s) - 1 + 1
    BY FS_Interval, 1 \in Int, Len(s) \in Int, Zenon
  <2> QED
    BY <2>1
<1> QED
  BY <1>1, <1>2, FS_Bijection DEF ExistsBijection
=============================================================================
