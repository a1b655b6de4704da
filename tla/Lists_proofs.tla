---------------------------- MODULE Lists_proofs ----------------------------
(***************************************************************************)
(* What SelectAt returns for every sequence and every set of indices: the  *)
(* chosen elements, all of them, each once, in their order.                *)
(*                                                                         *)
(* SelectAt is a recursive function, so its facts need induction.  The     *)
(* induction is carried by sets: NatSetInduction is derived from the       *)
(* well-foundedness of < on Nat, which the library states without an       *)
(* operator parameter.                                                     *)
(***************************************************************************)
EXTENDS Lists, Integers, WellFoundedInduction, SequenceTheorems, TLAPS

\* Every nonempty set of naturals has a least element.
LEMMA LeastNat ==
  ASSUME NEW T, T \subseteq Nat, T # {}
  PROVE  \E x \in T : \A y \in T : x <= y
<1> DEFINE R == OpToRel(<, Nat)
<1>1. PICK x \in T : \A y \in T : ~(<<y, x>> \in R)
  <2>1. IsWellFoundedOn(R, Nat)
    BY NatLessThanWellFounded
  <2> HIDE DEF R
  <2> QED BY <2>1, WFMin
<1>2. \A y \in T : y < x => <<y, x>> \in R
  BY DEF OpToRel
<1>3. ASSUME NEW y \in T PROVE x <= y
  <2>1. x \in Nat /\ y \in Nat
    OBVIOUS
  <2>2. ~(y < x)
    BY <1>1, <1>2, Zenon
  <2> HIDE DEF R
  <2> QED BY <2>1, <2>2
<1> HIDE DEF R
<1> QED BY <1>3

\* A set of naturals that contains 0 and is closed under successor is Nat.
LEMMA NatSetInduction ==
  ASSUME NEW S, 0 \in S, \A n \in Nat : n \in S => n + 1 \in S
  PROVE  \A n \in Nat : n \in S
<1> SUFFICES ASSUME Nat \ S # {} PROVE FALSE
  OBVIOUS
<1>1. PICK x \in Nat \ S : \A y \in Nat \ S : x <= y
  BY LeastNat
<1>2. x # 0 /\ x - 1 \in Nat
  BY <1>1
<1>3. x - 1 \in S
  BY <1>1, <1>2
<1> QED BY <1>1, <1>2, <1>3

-----------------------------------------------------------------------------
\* The equation that the selections from the prefixes of s, up to m, satisfy.
IsSelection(k, s, I, m) ==
  k = [n \in 0..m |-> IF n = 0 THEN <<>> ELSE Extend(k[n - 1], s, I, n)]

\* A turn of the loop keeps a sequence a sequence.
LEMMA ExtendType ==
  ASSUME NEW S, NEW s \in Seq(S), NEW I, NEW n \in 1..Len(s), NEW t \in Seq(S)
  PROVE  Extend(t, s, I, n) \in Seq(S)
<1>1. s[n] \in S
  OBVIOUS
<1> QED BY <1>1, AppendProperties DEF Extend

\* Selections exist (so the recursive definition in SelectAt defines something).
LEMMA SelectionExists ==
  ASSUME NEW S, NEW s \in Seq(S), NEW I
  PROVE  \E k \in [0..Len(s) -> Seq(S)] : IsSelection(k, s, I, Len(s))
<1> DEFINE T == {m \in Nat : m <= Len(s) => \E k \in [0..m -> Seq(S)] : IsSelection(k, s, I, m)}
<1>0. Len(s) \in Nat /\ <<>> \in Seq(S)
  OBVIOUS
<1>1. 0 \in T
  <2>1. IsSelection([n \in 0..0 |-> <<>>], s, I, 0)
    BY DEF IsSelection
  <2>2. [n \in 0..0 |-> <<>>] \in [0..0 -> Seq(S)]
    BY <1>0
  <2> QED BY <2>1, <2>2
<1>2. ASSUME NEW m \in Nat, m \in T PROVE m + 1 \in T
  <2> SUFFICES ASSUME m + 1 <= Len(s)
               PROVE  \E l \in [0..(m + 1) -> Seq(S)] : IsSelection(l, s, I, m + 1)
    OBVIOUS
  <2>1. PICK k \in [0..m -> Seq(S)] : IsSelection(k, s, I, m)
    BY <1>0, <1>2
  <2> DEFINE last == Extend(k[m], s, I, m + 1)
             l == [n \in 0..(m + 1) |-> IF n = m + 1 THEN last ELSE k[n]]
  <2>2. last \in Seq(S)
    <3>1. k[m] \in Seq(S) /\ m + 1 \in 1..Len(s)
      BY <1>0
    <3> QED BY <3>1, ExtendType
  <2>3. l \in [0..(m + 1) -> Seq(S)]
    <3> HIDE DEF last
    <3> QED BY <2>2
  <2>4. \A n \in 0..m : k[n] = IF n = 0 THEN <<>> ELSE Extend(k[n - 1], s, I, n)
    BY <2>1 DEF IsSelection
  <2>5. \A n \in 0..(m + 1) : l[n] = IF n = 0 THEN <<>> ELSE Extend(l[n - 1], s, I, n)
    BY <2>4
  <2>6. IsSelection(l, s, I, m + 1)
    <3> HIDE DEF l
    <3> QED BY <2>3, <2>5 DEF IsSelection
  <2> QED BY <2>3, <2>6
<1>3. \A m \in Nat : m \in T
  <2> HIDE DEF T
  <2> QED BY <1>1, <1>2, NatSetInduction
<1> QED BY <1>0, <1>3

\* A selection satisfies its equation at each prefix.
LEMMA SelectionEquation ==
  ASSUME NEW k, NEW s, NEW I, NEW m \in Nat, IsSelection(k, s, I, m)
  PROVE  /\ k = [n \in 0..m |-> k[n]]
         /\ k[0] = <<>>
         /\ \A n \in 1..m : k[n] = Extend(k[n - 1], s, I, n)
<1>1. \A n \in 0..m : k[n] = IF n = 0 THEN <<>> ELSE Extend(k[n - 1], s, I, n)
  BY DEF IsSelection
<1>2. k = [n \in 0..m |-> k[n]]
  BY DEF IsSelection
<1>3. 0 \in 0..m /\ 1..m \subseteq 0..m /\ 0 \notin 1..m
  OBVIOUS
<1>4. k[0] = <<>>
  BY <1>1, <1>3
<1>5. \A n \in 1..m : k[n] = Extend(k[n - 1], s, I, n)
  BY <1>1, <1>3
<1> QED BY <1>2, <1>4, <1>5

\* A selection has sequences there.
LEMMA SelectionType ==
  ASSUME NEW S, NEW s \in Seq(S), NEW I, NEW k, IsSelection(k, s, I, Len(s))
  PROVE  /\ k \in [0..Len(s) -> Seq(S)]
         /\ k[0] = <<>>
         /\ \A n \in 1..Len(s) : k[n] = Extend(k[n - 1], s, I, n)
<1> DEFINE T == {n \in Nat : n <= Len(s) => k[n] \in Seq(S)}
<1>0. /\ k[0] = <<>> /\ k = [n \in 0..Len(s) |-> k[n]]
      /\ \A n \in 1..Len(s) : k[n] = Extend(k[n - 1], s, I, n)
      /\ Len(s) \in Nat /\ <<>> \in Seq(S)
  <2>1. Len(s) \in Nat /\ <<>> \in Seq(S)
    OBVIOUS
  <2> QED BY <2>1, SelectionEquation
<1>1. 0 \in T
  BY <1>0
<1>2. ASSUME NEW n \in Nat, n \in T PROVE n + 1 \in T
  <2> SUFFICES ASSUME n + 1 <= Len(s) PROVE k[n + 1] \in Seq(S)
    OBVIOUS
  <2>1. k[n] \in Seq(S) /\ n + 1 \in 1..Len(s) /\ (n + 1) - 1 = n
    BY <1>0, <1>2
  <2>2. k[n + 1] = Extend(k[n], s, I, n + 1)
    BY <1>0, <2>1
  <2> QED BY <2>1, <2>2, ExtendType
<1>3. \A n \in Nat : n \in T
  <2> HIDE DEF T
  <2> QED BY <1>1, <1>2, NatSetInduction
<1>4. \A n \in 0..Len(s) : k[n] \in Seq(S)
  BY <1>0, <1>3
<1>5. k \in [0..Len(s) -> Seq(S)]
  BY <1>0, <1>4
<1> QED BY <1>0, <1>5

\* SelectAt is the last of some selections.
LEMMA SelectAtIsSelection ==
  ASSUME NEW S, NEW s \in Seq(S), NEW I
  PROVE  \E k : IsSelection(k, s, I, Len(s)) /\ SelectAt(s, I) = k[Len(s)]
<1> DEFINE P(k) == k = [n \in 0..Len(s) |-> IF n = 0 THEN <<>> ELSE Extend(k[n - 1], s, I, n)]
           c == CHOOSE k : P(k)
<1>1. \E k : P(k)
  <2>1. PICK k : IsSelection(k, s, I, Len(s))
    BY SelectionExists
  <2>2. P(k)
    BY <2>1 DEF IsSelection
  <2> HIDE DEF P
  <2> QED BY <2>2
<1>2. P(c)
  BY <1>1
<1>3. SelectAt(s, I) = c[Len(s)]
  BY DEF SelectAt
<1>4. IsSelection(c, s, I, Len(s))
  BY <1>2 DEF IsSelection
<1> HIDE DEF c
<1> QED BY <1>3, <1>4

\* e says where the elements of t were in the first n elements of s: it goes up,
\* stays in I, and leaves out no index of I.
Embeds(e, t, s, I, n) ==
  /\ e \in [1..Len(t) -> 1..n]
  /\ \A i \in 1..Len(t) : e[i] \in I /\ t[i] = s[e[i]]
  /\ \A i, j \in 1..Len(t) : i < j => e[i] < e[j]
  /\ \A m \in 1..n : m \in I => \E i \in 1..Len(t) : e[i] = m

\* A turn of the loop extends the embedding.
LEMMA EmbedsExtend ==
  ASSUME NEW S, NEW s \in Seq(S), NEW I, NEW n \in Nat, n + 1 <= Len(s),
         NEW t \in Seq(S), NEW e, Embeds(e, t, s, I, n)
  PROVE  \E f : Embeds(f, Extend(t, s, I, n + 1), s, I, n + 1)
<1>0. /\ e \in [1..Len(t) -> 1..n] /\ Len(t) \in Nat /\ s[n + 1] \in S
      /\ \A i \in 1..Len(t) : e[i] \in I /\ t[i] = s[e[i]] /\ e[i] \in 1..n
      /\ \A i, j \in 1..Len(t) : i < j => e[i] < e[j]
      /\ \A m \in 1..n : m \in I => \E i \in 1..Len(t) : e[i] = m
  BY DEF Embeds
<1>1. CASE n + 1 \notin I
  <2>1. Extend(t, s, I, n + 1) = t
    BY <1>1 DEF Extend
  <2>2. Embeds(e, t, s, I, n + 1)
    <3>1. e \in [1..Len(t) -> 1..(n + 1)]
      BY <1>0
    <3>2. \A m \in 1..(n + 1) : m \in I => \E i \in 1..Len(t) : e[i] = m
      <4> SUFFICES ASSUME NEW m \in 1..(n + 1), m \in I PROVE \E i \in 1..Len(t) : e[i] = m
        OBVIOUS
      <4>1. m # n + 1
        BY <1>1
      <4>2. m \in 1..n
        BY <4>1
      <4> QED BY <1>0, <4>2
    <3> QED BY <1>0, <3>1, <3>2 DEF Embeds
  <2> QED BY <2>1, <2>2
<1>2. CASE n + 1 \in I
  <2> DEFINE u == Append(t, s[n + 1])
             f == [i \in 1..(Len(t) + 1) |-> IF i = Len(t) + 1 THEN n + 1 ELSE e[i]]
  <2>1. Extend(t, s, I, n + 1) = u
    BY <1>2 DEF Extend
  <2>2. /\ Len(u) = Len(t) + 1 /\ u[Len(t) + 1] = s[n + 1]
        /\ \A i \in 1..Len(t) : u[i] = t[i]
    BY <1>0, AppendProperties
  <2>3. /\ f[Len(t) + 1] = n + 1 /\ \A i \in 1..Len(t) : f[i] = e[i]
        /\ f \in [1..(Len(t) + 1) -> 1..(n + 1)]
    BY <1>0
  <2> HIDE DEF u, f
  <2>4. \A i \in 1..Len(u) : i = Len(t) + 1 \/ i \in 1..Len(t)
    BY <1>0, <2>2
  <2>5. \A i \in 1..Len(u) : f[i] \in I /\ u[i] = s[f[i]]
    <3> TAKE i \in 1..Len(u)
    <3>1. CASE i = Len(t) + 1
      BY <1>2, <2>2, <2>3, <3>1
    <3>2. CASE i \in 1..Len(t)
      BY <1>0, <2>2, <2>3, <3>2
    <3> QED BY <2>4, <3>1, <3>2
  <2>6. \A i, j \in 1..Len(u) : i < j => f[i] < f[j]
    <3> SUFFICES ASSUME NEW i \in 1..Len(u), NEW j \in 1..Len(u), i < j PROVE f[i] < f[j]
      OBVIOUS
    <3>1. i \in 1..Len(t)
      BY <1>0, <2>2
    <3>2. CASE j = Len(t) + 1
      BY <1>0, <2>3, <3>1, <3>2
    <3>3. CASE j \in 1..Len(t)
      BY <1>0, <2>3, <3>1, <3>3
    <3> QED BY <2>4, <3>2, <3>3
  <2>7. \A m \in 1..(n + 1) : m \in I => \E i \in 1..Len(u) : f[i] = m
    <3> SUFFICES ASSUME NEW m \in 1..(n + 1), m \in I PROVE \E i \in 1..Len(u) : f[i] = m
      OBVIOUS
    <3>1. CASE m = n + 1
      BY <1>0, <2>2, <2>3, <3>1
    <3>2. CASE m # n + 1
      <4>1. m \in 1..n
        BY <3>2
      <4>2. PICK i \in 1..Len(t) : e[i] = m
        BY <1>0, <4>1
      <4> QED BY <1>0, <2>2, <2>3, <4>2
    <3> QED BY <3>1, <3>2
  <2>8. Embeds(f, u, s, I, n + 1)
    BY <2>2, <2>3, <2>5, <2>6, <2>7 DEF Embeds
  <2> QED BY <2>1, <2>8
<1> QED BY <1>1, <1>2

\* SelectAt keeps exactly the elements at the indices of I, in their order.
LEMMA SelectAtFacts ==
  ASSUME NEW S, NEW s \in Seq(S), NEW I
  PROVE  /\ SelectAt(s, I) \in Seq(S)
         /\ \E e : Embeds(e, SelectAt(s, I), s, I, Len(s))
<1>1. PICK k : IsSelection(k, s, I, Len(s)) /\ SelectAt(s, I) = k[Len(s)]
  BY SelectAtIsSelection
<1>2. /\ k \in [0..Len(s) -> Seq(S)] /\ k[0] = <<>> /\ Len(s) \in Nat
      /\ \A n \in 1..Len(s) : k[n] = Extend(k[n - 1], s, I, n)
  BY <1>1, SelectionType
<1> DEFINE T == {n \in Nat : n <= Len(s) => \E e : Embeds(e, k[n], s, I, n)}
<1>3. 0 \in T
  <2>1. PICK t : t = k[0] /\ 1..Len(t) = {}
    BY <1>2
  <2> DEFINE e == [i \in {} |-> 0]
  <2>2. e \in [1..Len(t) -> 1..0]
    BY <2>1
  <2> HIDE DEF e
  <2>3. Embeds(e, t, s, I, 0)
    BY <2>1, <2>2 DEF Embeds
  <2> QED BY <2>1, <2>3
<1>4. ASSUME NEW n \in Nat, n \in T PROVE n + 1 \in T
  <2> SUFFICES ASSUME n + 1 <= Len(s) PROVE \E f : Embeds(f, k[n + 1], s, I, n + 1)
    OBVIOUS
  <2>1. PICK e : Embeds(e, k[n], s, I, n)
    BY <1>2, <1>4
  <2>2. n \in 0..Len(s) /\ n + 1 \in 1..Len(s) /\ (n + 1) - 1 = n
    BY <1>2
  <2>3. k[n] \in Seq(S) /\ k[n + 1] = Extend(k[n], s, I, n + 1)
    BY <1>2, <2>2
  <2> QED BY <2>1, <2>3, EmbedsExtend
<1>5. \A n \in Nat : n \in T
  <2> HIDE DEF T
  <2> QED BY <1>3, <1>4, NatSetInduction
<1>6. k[Len(s)] \in Seq(S)
  BY <1>2
<1> QED BY <1>1, <1>2, <1>5, <1>6

\* What is in the selection t from s, and in which order.
Selected(t, s, I) ==
  /\ \A i \in 1..Len(t) : \E m \in 1..Len(s) : m \in I /\ t[i] = s[m]
  /\ \A i, j \in 1..Len(t) : i < j =>
       \E m, n \in 1..Len(s) : m < n /\ m \in I /\ n \in I /\ t[i] = s[m] /\ t[j] = s[n]
  /\ \A m \in 1..Len(s) : m \in I => \E i \in 1..Len(t) : t[i] = s[m]

\* SelectAtFacts without the embedding.
LEMMA SelectAtSelects ==
  ASSUME NEW S, NEW s \in Seq(S), NEW I, NEW t, t = SelectAt(s, I)
  PROVE  t \in Seq(S) /\ Selected(t, s, I)
<1>1. PICK e : Embeds(e, t, s, I, Len(s))
  BY SelectAtFacts
<1>2. t \in Seq(S)
  BY SelectAtFacts
<1>3. \A i \in 1..Len(t) : e[i] \in 1..Len(s) /\ e[i] \in I /\ t[i] = s[e[i]]
  BY <1>1 DEF Embeds
<1>4. \A i \in 1..Len(t) : \E m \in 1..Len(s) : m \in I /\ t[i] = s[m]
  BY <1>3
<1>5. \A i, j \in 1..Len(t) : i < j =>
        \E m, n \in 1..Len(s) : m < n /\ m \in I /\ n \in I /\ t[i] = s[m] /\ t[j] = s[n]
  <2> SUFFICES ASSUME NEW i \in 1..Len(t), NEW j \in 1..Len(t), i < j
               PROVE  \E m, n \in 1..Len(s) : /\ m < n /\ m \in I /\ n \in I
                                               /\ t[i] = s[m] /\ t[j] = s[n]
    OBVIOUS
  <2>1. e[i] < e[j]
    BY <1>1 DEF Embeds
  <2> QED BY <1>3, <2>1
<1>6. \A m \in 1..Len(s) : m \in I => \E i \in 1..Len(t) : t[i] = s[m]
  <2> SUFFICES ASSUME NEW m \in 1..Len(s), m \in I PROVE \E i \in 1..Len(t) : t[i] = s[m]
    OBVIOUS
  <2>1. PICK i \in 1..Len(t) : e[i] = m
    BY <1>1 DEF Embeds
  <2> QED BY <1>3, <2>1
<1> QED BY <1>2, <1>4, <1>5, <1>6 DEF Selected

\* The elements of a selection from s without repetition do not repeat either.
LEMMA SelectedDistinct ==
  ASSUME NEW S, NEW T, NEW s \in Seq(S), NEW I, NEW t \in Seq(T), Selected(t, s, I),
         \A m, n \in 1..Len(s) : m < n /\ m \in I /\ n \in I => s[m] # s[n]
  PROVE  \A i, j \in 1..Len(t) : t[i] = t[j] => i = j
<1>1. ASSUME NEW i \in 1..Len(t), NEW j \in 1..Len(t), i < j PROVE t[i] # t[j]
  <2>1. PICK m \in 1..Len(s), n \in 1..Len(s) :
               m < n /\ m \in I /\ n \in I /\ t[i] = s[m] /\ t[j] = s[n]
    BY <1>1 DEF Selected
  <2> QED BY <2>1
<1> SUFFICES ASSUME NEW i \in 1..Len(t), NEW j \in 1..Len(t), i # j PROVE t[i] # t[j]
  OBVIOUS
<1>2. i < j \/ j < i
  OBVIOUS
<1> QED BY <1>1, <1>2
=============================================================================
