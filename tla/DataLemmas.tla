----------------------------- MODULE DataLemmas -----------------------------
(***************************************************************************)
(* What the helpers on sets and sequences return: Min and Max of           *)
(* FiniteSetsExt for finite sets of natural numbers, Keep for sequences,   *)
(* Sum over finite sets.                                                   *)
(*                                                                         *)
(* The induction theorems of the library take a predicate, which the       *)
(* provers cannot instantiate.  CountingUp is induction over a set         *)
(* instead, from the least element that a set of natural numbers has; with *)
(* it the recursive function in Keep, and those that a sum unfolds to, are *)
(* shown to exist and to return what is expected.  Gathering is the same   *)
(* for the subsets of a finite set.                                        *)
(***************************************************************************)
EXTENDS Integers, FiniteSetsExt, SequenceFilter, SetSums, SequenceTheorems, FiniteSetTheorems, WellFoundedInduction,
        TLAPS

\* A non-empty set of natural numbers has a least element, which Min returns.
LEMMA MinOfNats ==
  ASSUME NEW S \in SUBSET Nat, S # {}
  PROVE  /\ Min(S) \in S
         /\ \A y \in S : Min(S) <= y
<1> DEFINE Less == {ss \in Nat \X Nat : ss[1] < ss[2]}
<1>1. IsWellFoundedOn(Less, Nat)
  BY NatLessThanWellFounded DEF OpToRel
<1>2. PICK x \in S : \A y \in S : ~ (<<y, x>> \in Less)
  BY <1>1, WFMin
<1>3. ASSUME NEW y \in S PROVE x <= y
  <2>1. <<y, x>> \in Nat \X Nat /\ <<y, x>>[1] = y /\ <<y, x>>[2] = x
    OBVIOUS
  <2>2. ~ (y < x)
    BY <1>2, <2>1, Zenon DEF Less
  <2>3. QED
    BY <2>2
<1>4. QED
  BY <1>3 DEF Min

\* Max of a non-empty set of natural numbers with an upper bound is its greatest.
LEMMA MaxOfNats ==
  ASSUME NEW S \in SUBSET Nat, S # {}, NEW b \in Nat, \A y \in S : y <= b
  PROVE  /\ Max(S) \in S
         /\ \A y \in S : y <= Max(S)
<1> DEFINE T == {b - y : y \in S}
<1>1. T \in SUBSET Nat /\ T # {}
  <2>1. \A y \in S : b - y \in Nat
    OBVIOUS
  <2>2. T \in SUBSET Nat
    BY <2>1
  <2>3. PICK y \in S : TRUE
    OBVIOUS
  <2>4. b - y \in T
    OBVIOUS
  <2>5. QED
    BY <2>2, <2>4
<1>2. PICK m \in T : \A z \in T : m <= z
  BY <1>1, MinOfNats
<1>3. PICK x \in S : m = b - x
  BY <1>2
<1>4. \A y \in S : b - x <= b - y
  BY <1>2, <1>3
<1>5. \A y \in S : y <= x
  BY <1>4
<1>6. QED
  BY <1>5 DEF Max

\* An upper bound in the set is its Max, a lower bound its Min.
LEMMA MaxIs ==
  ASSUME NEW S \in SUBSET Nat, NEW m \in S, \A y \in S : y <= m
  PROVE  Max(S) = m
<1>1. m \in Nat /\ S # {}
  OBVIOUS
<1>2. Max(S) \in S /\ \A y \in S : y <= Max(S)
  BY <1>1, MaxOfNats
<1>3. Max(S) \in Nat /\ Max(S) <= m /\ m <= Max(S)
  BY <1>2
<1> QED
  BY <1>1, <1>3

LEMMA MinIs ==
  ASSUME NEW S \in SUBSET Nat, NEW m \in S, \A y \in S : m <= y
  PROVE  Min(S) = m
<1>1. m \in Nat /\ S # {}
  OBVIOUS
<1>2. Min(S) \in S /\ \A y \in S : Min(S) <= y
  BY <1>1, MinOfNats
<1>3. Min(S) \in Nat /\ Min(S) <= m /\ m <= Min(S)
  BY <1>2
<1> QED
  BY <1>1, <1>3

\* Induction up to n, over a set instead of a predicate.
LEMMA CountingUp ==
  ASSUME NEW n \in Nat, NEW G, 0 \in G, \A i \in 0..(n - 1) : i \in G => i + 1 \in G
  PROVE  n \in G
<1> DEFINE Bad == {i \in 0..n : i \notin G}
<1>1. SUFFICES Bad = {}
  OBVIOUS
<1>2. SUFFICES ASSUME Bad # {} PROVE FALSE
  OBVIOUS
<1>3. PICK m \in Bad : \A y \in Bad : m <= y
  <2>1. Bad \in SUBSET Nat
    OBVIOUS
  <2> HIDE DEF Bad
  <2> QED
    BY <1>2, <2>1, MinOfNats
<1>4. m \in 1..n
  OBVIOUS
<1>5. m - 1 \notin Bad
  BY <1>3, <1>4
<1> QED
  BY <1>4, <1>5

-----------------------------------------------------------------------------
(* Keep.                                                                   *)

\* k is the function that KeptUpTo defines, for the first n elements.
Unfolds(k, n, s, T) ==
  k = [i \in 0..n |->
         IF i = 0 THEN <<>>
         ELSE IF s[i] \in T THEN Append(k[i - 1], s[i]) ELSE k[i - 1]]

\* There is such a function, by induction on n.
LEMMA KeptExists ==
  ASSUME NEW S, NEW s \in Seq(S), NEW T
  PROVE  \E k : Unfolds(k, Len(s), s, T)
<1> DEFINE G == {n \in 0..Len(s) : \E k : Unfolds(k, n, s, T)}
<1>1. Len(s) \in Nat
  OBVIOUS
<1>2. 0 \in G
  <2> DEFINE k == [i \in 0..0 |-> <<>>]
  <2>1. Unfolds(k, 0, s, T)
    BY DEF Unfolds
  <2> QED
    BY <1>1, <2>1
<1>3. ASSUME NEW n \in 0..(Len(s) - 1), n \in G
      PROVE  n + 1 \in G
  <2>1. PICK g : Unfolds(g, n, s, T)
    BY <1>3
  <2> DEFINE e == IF s[n + 1] \in T THEN Append(g[n], s[n + 1]) ELSE g[n]
             h == [i \in 0..(n + 1) |-> IF i = n + 1 THEN e ELSE g[i]]
  <2>2. ASSUME NEW i \in 0..(n + 1)
        PROVE  h[i] = IF i = 0 THEN <<>>
                      ELSE IF s[i] \in T THEN Append(h[i - 1], s[i]) ELSE h[i - 1]
    <3>1. CASE i = n + 1
      <4>1. h[i] = e /\ i # 0 /\ h[i - 1] = g[n]
        BY <3>1
      <4> QED
        BY <3>1, <4>1
    <3>2. CASE i = 0
      BY <3>2, <2>1 DEF Unfolds
    <3>3. CASE i # n + 1 /\ i # 0
      <4>1. i \in 0..n /\ i - 1 \in 0..n
        BY <3>3
      <4>2. h[i] = g[i] /\ h[i - 1] = g[i - 1]
        BY <3>3, <4>1
      <4> QED
        BY <3>3, <4>1, <4>2, <2>1 DEF Unfolds
    <3> QED
      BY <3>1, <3>2, <3>3
  <2>3. Unfolds(h, n + 1, s, T)
    <3>1. h = [i \in 0..(n + 1) |-> h[i]]
      OBVIOUS
    <3> HIDE DEF h
    <3> QED
      BY <2>2, <3>1 DEF Unfolds
  <2> QED
    BY <1>1, <2>3
<1> HIDE DEF G
<1>4. Len(s) \in G
  BY <1>1, <1>2, <1>3, CountingUp
<1> QED
  BY <1>4 DEF G

\* So KeptUpTo satisfies the equation that defines it.
LEMMA KeptUnfolds ==
  ASSUME NEW S, NEW s \in Seq(S), NEW T
  PROVE  Unfolds(KeptUpTo(s, T), Len(s), s, T)
<1>1. \E k : Unfolds(k, Len(s), s, T)
  BY KeptExists
<1>2. KeptUpTo(s, T) = CHOOSE k : Unfolds(k, Len(s), s, T)
  BY DEF KeptUpTo, Unfolds
<1> QED
  BY <1>1, <1>2

\* What is kept of the first n elements, from what is kept of those before.
LEMMA KeptStep ==
  ASSUME NEW S, NEW s \in Seq(S), NEW T
  PROVE  /\ KeptUpTo(s, T)[0] = <<>>
         /\ \A n \in 0..(Len(s) - 1) :
              KeptUpTo(s, T)[n + 1] = IF s[n + 1] \in T THEN Append(KeptUpTo(s, T)[n], s[n + 1])
                                      ELSE KeptUpTo(s, T)[n]
<1> DEFINE k == KeptUpTo(s, T)
<1>1. k = [i \in 0..Len(s) |->
         IF i = 0 THEN <<>>
         ELSE IF s[i] \in T THEN Append(k[i - 1], s[i]) ELSE k[i - 1]]
  BY KeptUnfolds DEF Unfolds
<1> HIDE DEF k
<1>2. k[0] = <<>>
  BY <1>1
<1>3. ASSUME NEW n \in 0..(Len(s) - 1)
      PROVE  k[n + 1] = IF s[n + 1] \in T THEN Append(k[n], s[n + 1]) ELSE k[n]
  <2>1. n + 1 \in 0..Len(s) /\ n + 1 # 0 /\ (n + 1) - 1 = n
    OBVIOUS
  <2> QED
    BY <1>1, <2>1
<1> QED
  BY <1>2, <1>3 DEF k

\* e tells for each element of q where in the first n of s it comes from: e is
\* increasing, and all that is in T is there.
Embeds(e, q, n, s, T) ==
  /\ e \in [1..Len(q) -> 1..n]
  /\ \A i \in 1..Len(q) : q[i] = s[e[i]] /\ q[i] \in T
  /\ \A i, j \in 1..Len(q) : i < j => e[i] < e[j]
  /\ \A j \in 1..n : s[j] \in T => \E i \in 1..Len(q) : e[i] = j

\* Keep returns the subsequence of s that is in T.
LEMMA KeepEmbeds ==
  ASSUME NEW S, NEW s \in Seq(S), NEW T
  PROVE  /\ Keep(s, T) \in Seq(S)
         /\ \E e : Embeds(e, Keep(s, T), Len(s), s, T)
<1> DEFINE k == KeptUpTo(s, T)
           G == {n \in 0..Len(s) : k[n] \in Seq(S) /\ \E e : Embeds(e, k[n], n, s, T)}
<1>0. Len(s) \in Nat
  OBVIOUS
<1>1. 0 \in G
  <2>1. k[0] = <<>> /\ Len(<<>>) = 0
    BY KeptStep
  <2> DEFINE none == [i \in 1..0 |-> 0]
  <2>2. none \in [1..0 -> 1..0]
    OBVIOUS
  <2>3. Embeds(none, <<>>, 0, s, T)
    BY <2>1, <2>2 DEF Embeds
  <2>4. k[0] \in Seq(S)
    BY <2>1
  <2>5. Embeds(none, k[0], 0, s, T)
    BY <2>1, <2>3
  <2>6. 0 \in 0..Len(s)
    BY <1>0
  <2> HIDE DEF k, none
  <2> QED
    BY <2>4, <2>5, <2>6
<1>2. ASSUME NEW n \in 0..(Len(s) - 1), n \in G
      PROVE  n + 1 \in G
  <2>1. /\ k[n] \in Seq(S) /\ s[n + 1] \in S
        /\ k[n + 1] = IF s[n + 1] \in T THEN Append(k[n], s[n + 1]) ELSE k[n]
    BY <1>2, KeptStep
  <2>2. PICK e : Embeds(e, k[n], n, s, T)
    BY <1>2
  <2> HIDE DEF k
  <2>3. CASE s[n + 1] \notin T
    <3>1. k[n + 1] = k[n]
      BY <2>1, <2>3
    <3>2. Embeds(e, k[n], n + 1, s, T)
      <4>1. e \in [1..Len(k[n]) -> 1..(n + 1)]
        BY <2>1, <2>2 DEF Embeds
      <4>2. \A j \in 1..(n + 1) : s[j] \in T => \E i \in 1..Len(k[n]) : e[i] = j
        BY <2>2, <2>3 DEF Embeds
      <4> QED
        BY <2>2, <4>1, <4>2 DEF Embeds
    <3> QED
      BY <2>1, <3>1, <3>2
  <2>4. CASE s[n + 1] \in T
    <3> DEFINE m == Len(k[n])
               f == [i \in 1..(m + 1) |-> IF i = m + 1 THEN n + 1 ELSE e[i]]
    <3>1. /\ k[n + 1] \in Seq(S) /\ Len(k[n + 1]) = m + 1 /\ m \in Nat
          /\ \A i \in 1..m : k[n + 1][i] = k[n][i]
          /\ k[n + 1][m + 1] = s[n + 1]
      BY <2>1, <2>4, AppendProperties
    <3>2. /\ e \in [1..m -> 1..n]
          /\ \A i \in 1..m : k[n][i] = s[e[i]] /\ k[n][i] \in T
          /\ \A i, j \in 1..m : i < j => e[i] < e[j]
          /\ \A j \in 1..n : s[j] \in T => \E i \in 1..m : e[i] = j
      BY <2>2 DEF Embeds
    <3> HIDE DEF m
    <3>3. /\ f[m + 1] = n + 1 
          /\ \A i \in 1..m : f[i] = e[i] /\ f[i] \in 1..n
      BY <3>1, <3>2
    <3>4. f \in [1..(m + 1) -> 1..(n + 1)]
      BY <3>1, <3>2
    <3> HIDE DEF f
    <3>5. \A i \in 1..(m + 1) : k[n + 1][i] = s[f[i]] /\ k[n + 1][i] \in T
      <4> TAKE i \in 1..(m + 1)
      <4>1. CASE i = m + 1
        BY <4>1, <3>1, <3>3, <2>4
      <4>2. CASE i \in 1..m
        BY <4>2, <3>1, <3>2, <3>3
      <4> QED
        BY <3>1, <4>1, <4>2
    <3>6. \A i, j \in 1..(m + 1) : i < j => f[i] < f[j]
      <4> TAKE i, j \in 1..(m + 1)
      <4>1. CASE j = m + 1 /\ i \in 1..m
        BY <4>1, <3>3
      <4>2. CASE i \in 1..m /\ j \in 1..m
        BY <4>2, <3>2, <3>3
      <4> QED
        BY <3>1, <4>1, <4>2
    <3>7. \A j \in 1..(n + 1) : s[j] \in T => \E i \in 1..(m + 1) : f[i] = j
      <4> SUFFICES ASSUME NEW j \in 1..(n + 1), s[j] \in T
                   PROVE  \E i \in 1..(m + 1) : f[i] = j
        OBVIOUS
      <4>1. CASE j = n + 1
        BY <4>1, <3>1, <3>3
      <4>2. CASE j \in 1..n
        <5>1. PICK i \in 1..m : e[i] = j
          BY <3>2, <4>2
        <5> QED
          BY <5>1, <3>1, <3>3
      <4> QED
        BY <4>1, <4>2
    <3>8. Embeds(f, k[n + 1], n + 1, s, T)
      BY <3>1, <3>4, <3>5, <3>6, <3>7 DEF Embeds
    <3> QED
      BY <3>1, <3>8
  <2> QED
    BY <2>3, <2>4
<1> HIDE DEF G
<1>3. Len(s) \in G
  BY <1>0, <1>1, <1>2, CountingUp
<1> QED
  BY <1>3 DEF G, k, Keep

EndsIn(s, c, T) == \A j \in 0..(c - 1) : s[Len(s) - j] \in T

SameEnd(q, s, c) ==
  c <= Len(q) /\ \A j \in 0..(c - 1) : q[Len(q) - j] = s[Len(s) - j]

\* If the last c elements of s are kept, they are the last of what is kept.
LEMMA KeepEnd ==
  ASSUME NEW S, NEW s \in Seq(S), NEW T,
         NEW c \in 0..Len(s), EndsIn(s, c, T)
  PROVE  /\ Keep(s, T) \in Seq(S)
         /\ Len(Keep(s, T)) <= Len(s)
         /\ SameEnd(Keep(s, T), s, c)
<1> DEFINE k == KeptUpTo(s, T)
           End(n, d) == /\ d <= Len(k[n])
                        /\ \A j \in 0..(d - 1) : k[n][Len(k[n]) - j] = s[n - j]
           G == {n \in 0..Len(s) :
                   /\ k[n] \in Seq(S) /\ Len(k[n]) <= n
                   /\ \A d \in 0..n : (\A j \in 0..(d - 1) : s[n - j] \in T) => End(n, d)}
<1>0. Len(s) \in Nat
  OBVIOUS
<1>1. 0 \in G
  <2>1. k[0] = <<>>
    BY KeptStep
  <2>2. k[0] \in Seq(S) /\ Len(k[0]) = 0
    BY <2>1
  <2>3. 0 \in 0..Len(s)
    BY <1>0
  <2> HIDE DEF k
  <2> QED
    BY <2>2, <2>3
<1>2. ASSUME NEW n \in 0..(Len(s) - 1), n \in G
      PROVE  n + 1 \in G
  <2>1. /\ k[n] \in Seq(S) /\ Len(k[n]) <= n /\ s[n + 1] \in S
        /\ \A d \in 0..n : (\A j \in 0..(d - 1) : s[n - j] \in T) => End(n, d)
        /\ k[n + 1] = IF s[n + 1] \in T THEN Append(k[n], s[n + 1]) ELSE k[n]
    <3>1. /\ k[n] \in Seq(S) /\ Len(k[n]) <= n
          /\ \A d \in 0..n : (\A j \in 0..(d - 1) : s[n - j] \in T) => End(n, d)
      <4> HIDE DEF k, End
      <4> QED
        BY <1>2
    <3>2. s[n + 1] \in S
      OBVIOUS
    <3> QED
      BY <3>1, <3>2, KeptStep
  <2> HIDE DEF k
  <2>2. k[n + 1] \in Seq(S) /\ Len(k[n + 1]) <= n + 1
    BY <2>1, AppendProperties
  <2>3. ASSUME NEW d \in 0..(n + 1), \A j \in 0..(d - 1) : s[(n + 1) - j] \in T
        PROVE  End(n + 1, d)
    <3>1. CASE d = 0
      BY <3>1, <2>2
    <3>2. CASE d # 0
      <4> DEFINE m == Len(k[n])
      <4>1. s[n + 1] \in T
        <5>1. 0 \in 0..(d - 1) /\ (n + 1) - 0 = n + 1
          BY <3>2
        <5> QED
          BY <5>1, <2>3
      <4>2. /\ Len(k[n + 1]) = m + 1 /\ m \in Nat
            /\ \A i \in 1..m : k[n + 1][i] = k[n][i]
            /\ k[n + 1][m + 1] = s[n + 1]
        BY <2>1, <4>1, AppendProperties
      <4>3. End(n, d - 1)
        <5>1. ASSUME NEW j \in 0..((d - 1) - 1) PROVE s[n - j] \in T
          <6>1. j + 1 \in 0..(d - 1) /\ (n + 1) - (j + 1) = n - j
            OBVIOUS
          <6> QED
            BY <6>1, <2>3
        <5>2. d - 1 \in 0..n
          BY <3>2
        <5> QED
          BY <2>1, <5>1, <5>2
      <4>4. d <= m + 1 /\ m \in Nat
        BY <4>3, <4>2
      <4> HIDE DEF m
      <4>5. ASSUME NEW j \in 0..(d - 1)
            PROVE  k[n + 1][(m + 1) - j] = s[(n + 1) - j]
        <5>1. CASE j = 0
          BY <5>1, <4>2
        <5>2. CASE j # 0
          <6>1. /\ j - 1 \in 0..((d - 1) - 1)
                /\ (m + 1) - j = m - (j - 1) /\ (n + 1) - j = n - (j - 1)
            BY <5>2, <4>2
          <6>2. k[n][m - (j - 1)] = s[n - (j - 1)]
            BY <6>1, <4>3 DEF m
          <6>3. m - (j - 1) \in 1..m
            BY <5>2, <4>4
          <6> QED
            BY <6>1, <6>2, <6>3, <4>2
        <5> QED
          BY <5>1, <5>2
      <4> QED
        BY <4>2, <4>4, <4>5
    <3> QED
      BY <3>1, <3>2
  <2> HIDE DEF End
  <2> QED
    BY <1>0, <2>2, <2>3
<1> HIDE DEF G
<1>3. Len(s) \in G
  BY <1>0, <1>1, <1>2, CountingUp
<1>4. /\ k[Len(s)] \in Seq(S) /\ Len(k[Len(s)]) <= Len(s)
      /\ End(Len(s), c)
  <2> HIDE DEF End, k
  <2> QED
    BY <1>3 DEF G, EndsIn
<1> QED
  BY <1>4 DEF Keep, SameEnd

-----------------------------------------------------------------------------
(* Sums over finite sets.                                                  *)

\* Induction over the subsets of a finite set.
LEMMA Gathering ==
  ASSUME NEW S, IsFiniteSet(S), NEW G, {} \in G,
         \A T \in SUBSET S : \A x \in S \ T : T \in G => T \cup {x} \in G
  PROVE  S \in G
<1> DEFINE H == {i \in 0..Cardinality(S) : \A T \in SUBSET S : Cardinality(T) = i => T \in G}
<1>1. Cardinality(S) \in Nat
  BY FS_CardinalityType
<1>2. 0 \in H
  <2>1. \A T \in SUBSET S : Cardinality(T) = 0 => T = {}
    BY FS_Subset, FS_EmptySet
  <2> QED
    BY <1>1, <2>1
<1>3. ASSUME NEW i \in 0..(Cardinality(S) - 1), i \in H PROVE i + 1 \in H
  <2>1. ASSUME NEW T \in SUBSET S, Cardinality(T) = i + 1 PROVE T \in G
    <3>1. IsFiniteSet(T)
      BY FS_Subset
    <3>2. PICK x \in T : TRUE
      <4>1. Cardinality(T) # 0
        BY <1>1, <2>1
      <4>2. T # {}
        BY <4>1, FS_EmptySet
      <4> QED
        BY <4>2
    <3>3. Cardinality(T \ {x}) = i
      <4>1. Cardinality(T \ {x}) = Cardinality(T) - 1
        BY <3>1, <3>2, FS_RemoveElement
      <4> QED
        BY <1>1, <2>1, <4>1
    <3>4. T \ {x} \in G
      BY <1>3, <3>3
    <3>5. (T \ {x}) \cup {x} = T /\ x \in S \ (T \ {x})
      BY <3>2
    <3> QED
      BY <3>4, <3>5
  <2> QED
    BY <1>1, <2>1
<1> HIDE DEF H
<1>4. Cardinality(S) \in H
  BY <1>1, <1>2, <1>3, CountingUp
<1> QED
  BY <1>4 DEF H

\* What a function makes of a finite set is finite.
LEMMA FiniteImage ==
  ASSUME NEW S, IsFiniteSet(S), NEW h
  PROVE  IsFiniteSet({h[x] : x \in S})
<1> DEFINE im(T) == {h[x] : x \in T}
           G == {T \in SUBSET S : IsFiniteSet(im(T))}
<1>1. {} \in G
  <2>1. im({}) = {}
    OBVIOUS
  <2> QED
    BY <2>1, FS_EmptySet
<1>2. ASSUME NEW T \in SUBSET S, NEW x \in S \ T, T \in G PROVE T \cup {x} \in G
  <2>1. IsFiniteSet(im(T) \cup {h[x]})
    BY <1>2, FS_AddElement
  <2>2. im(T \cup {x}) = im(T) \cup {h[x]}
    OBVIOUS
  <2> QED
    BY <2>1, <2>2
<1> HIDE DEF G
<1>3. S \in G
  BY <1>1, <1>2, Gathering
<1> QED
  BY <1>3 DEF G

Some(T) == CHOOSE x \in T : TRUE

\* What the recursive function in MapThenSumSet is to be, where n bounds its arguments.
SumsUp(g, f, S, n) ==
  \A T \in SUBSET S :
    Cardinality(T) <= n => g[T] = IF T = {} THEN 0 ELSE f[Some(T)] + g[T \ {Some(T)}]

LEMMA SomeIn == \A T : T # {} => Some(T) \in T
  BY DEF Some

Unrolls(g, f, S) == g = [T \in SUBSET S |-> IF T = {} THEN 0 ELSE f[Some(T)] + g[T \ {Some(T)}]]

LEMMA SumExists ==
  ASSUME NEW S, IsFiniteSet(S), NEW f
  PROVE  \E g : Unrolls(g, f, S)
<1> DEFINE N == Cardinality(S)
           Next(g) == [T \in SUBSET S |-> IF T = {} THEN 0 ELSE f[Some(T)] + g[T \ {Some(T)}]]
           H == {n \in 0..N : \E g : SumsUp(g, f, S, n)}
<1>1. N \in Nat
  BY FS_CardinalityType
<1>2. \A T \in SUBSET S : IsFiniteSet(T) /\ Cardinality(T) \in 0..N
  BY <1>1, FS_Subset, FS_CardinalityType
<1>3. ASSUME NEW T \in SUBSET S, T # {}
      PROVE  T \ {Some(T)} \in SUBSET S /\ Cardinality(T \ {Some(T)}) = Cardinality(T) - 1
  BY <1>2, <1>3, SomeIn, FS_RemoveElement
<1>4. 0 \in H
  <2> DEFINE g == [T \in SUBSET S |-> 0]
  <2>1. \A T \in SUBSET S : Cardinality(T) <= 0 => T = {}
    BY <1>2, FS_EmptySet
  <2>2. SumsUp(g, f, S, 0)
    BY <2>1 DEF SumsUp
  <2> QED
    BY <1>1, <2>2
<1>5. ASSUME NEW n \in 0..(N - 1), n \in H PROVE n + 1 \in H
  <2>1. PICK g : SumsUp(g, f, S, n)
    BY <1>5
  <2>2. ASSUME NEW T \in SUBSET S, Cardinality(T) <= n + 1, T # {}
        PROVE  Next(g)[T] = f[Some(T)] + Next(g)[T \ {Some(T)}]
    <3> DEFINE U == T \ {Some(T)}
    <3>1. U \in SUBSET S /\ Cardinality(U) <= n
      BY <1>2, <1>3, <2>2
    <3>2. g[U] = Next(g)[U]
      BY <2>1, <3>1 DEF SumsUp
    <3>3. Next(g)[T] = f[Some(T)] + g[U]
      BY <2>2
    <3> QED
      BY <3>2, <3>3
  <2>3. SumsUp(Next(g), f, S, n + 1)
    BY <2>2 DEF SumsUp
  <2> QED
    BY <1>1, <2>3
<1> HIDE DEF H
<1>6. N \in H
  BY <1>1, <1>4, <1>5, CountingUp
<1>7. PICK g : SumsUp(g, f, S, N)
  BY <1>6 DEF H
<1>8. \A T \in SUBSET S : g[T] = Next(g)[T]
  BY <1>2, <1>7 DEF SumsUp
<1>9. Next(g) = Next(Next(g))
  <2> DEFINE body(T, h) == IF T = {} THEN 0 ELSE f[Some(T)] + h[T \ {Some(T)}]
  <2>1. ASSUME NEW T \in SUBSET S PROVE body(T, g) = body(T, Next(g))
    <3>1. CASE T = {}
      BY <3>1
    <3>2. CASE T # {}
      BY <1>3, <1>8, <3>2
    <3> QED
      BY <3>1, <3>2
  <2> HIDE DEF body
  <2>2. [T \in SUBSET S |-> body(T, g)] = [T \in SUBSET S |-> body(T, Next(g))]
    BY <2>1
  <2> QED
    BY <2>2 DEF body
<1> QED
  BY <1>9 DEF Unrolls

\* The function itself.
SumOver(f, S) == CHOOSE g : Unrolls(g, f, S)

LEMMA SumIs == \A f, S : Sum(f, S) = SumOver(f, S)[S]
  BY DEF Sum, MapThenSumSet, MapThenFoldSet, SumOver, Unrolls, Some

LEMMA SumOverIs ==
  ASSUME NEW S, IsFiniteSet(S), NEW f, NEW T \in SUBSET S
  PROVE  SumOver(f, S)[T] = IF T = {} THEN 0 ELSE f[Some(T)] + SumOver(f, S)[T \ {Some(T)}]
<1>1. \E g : Unrolls(g, f, S)
  BY SumExists
<1>2. Unrolls(SumOver(f, S), f, S)
  BY <1>1 DEF SumOver
<1> DEFINE g == SumOver(f, S)
<1>3. g = [U \in SUBSET S |-> IF U = {} THEN 0 ELSE f[Some(U)] + g[U \ {Some(U)}]]
  BY <1>2 DEF Unrolls
<1> HIDE DEF g
<1>4. g[T] = IF T = {} THEN 0 ELSE f[Some(T)] + g[T \ {Some(T)}]
  BY <1>3
<1> QED
  BY <1>4 DEF g

\* It does not depend on the set it is for.
LEMMA SumOverAgrees ==
  ASSUME NEW S, IsFiniteSet(S), NEW f, NEW T \in SUBSET S
  PROVE  SumOver(f, S)[T] = Sum(f, T)
<1> DEFINE N == Cardinality(T)
           H == {n \in 0..N : \A U \in SUBSET T : Cardinality(U) <= n => SumOver(f, S)[U] = SumOver(f, T)[U]}
<1>0. IsFiniteSet(T)
  BY FS_Subset
<1>1. N \in Nat
  BY <1>0, FS_CardinalityType
<1>2. \A U \in SUBSET T : IsFiniteSet(U) /\ Cardinality(U) \in 0..N
  BY <1>0, <1>1, FS_Subset, FS_CardinalityType
<1>3. \A U \in SUBSET T : SumOver(f, S)[U] = IF U = {} THEN 0 ELSE f[Some(U)] + SumOver(f, S)[U \ {Some(U)}]
  BY SumOverIs
<1>4. \A U \in SUBSET T : SumOver(f, T)[U] = IF U = {} THEN 0 ELSE f[Some(U)] + SumOver(f, T)[U \ {Some(U)}]
  BY <1>0, SumOverIs
<1>5. 0 \in H
  <2>1. \A U \in SUBSET T : Cardinality(U) <= 0 => U = {}
    BY <1>2, FS_EmptySet
  <2> QED
    BY <1>1, <1>3, <1>4, <2>1
<1>6. ASSUME NEW n \in 0..(N - 1), n \in H PROVE n + 1 \in H
  <2>1. ASSUME NEW U \in SUBSET T, Cardinality(U) <= n + 1 PROVE SumOver(f, S)[U] = SumOver(f, T)[U]
    <3>1. CASE U = {}
      BY <1>3, <1>4, <3>1
    <3>2. CASE U # {}
      <4> DEFINE W == U \ {Some(U)}
      <4>0. Cardinality(W) = Cardinality(U) - 1
        BY <1>2, <3>2, SomeIn, FS_RemoveElement
      <4>1. W \in SUBSET T /\ Cardinality(W) <= n
        BY <1>2, <2>1, <4>0
      <4>2. SumOver(f, S)[W] = SumOver(f, T)[W]
        BY <1>6, <4>1
      <4> QED
        BY <1>3, <1>4, <3>2, <4>2
    <3> QED
      BY <3>1, <3>2
  <2> QED
    BY <1>1, <2>1
<1> HIDE DEF H
<1>7. N \in H
  BY <1>1, <1>5, <1>6, CountingUp
<1>8. SumOver(f, S)[T] = SumOver(f, T)[T]
  BY <1>2, <1>7 DEF H
<1> QED
  BY <1>8, SumIs

LEMMA SumEmpty == \A f : Sum(f, {}) = 0
<1> TAKE f
<1>1. IsFiniteSet({}) /\ {} \in SUBSET {}
  BY FS_EmptySet
<1> QED
  BY <1>1, SumIs, SumOverIs

LEMMA SumChosen ==
  ASSUME NEW S, IsFiniteSet(S), S # {}, NEW f
  PROVE  Sum(f, S) = f[Some(S)] + Sum(f, S \ {Some(S)})
<1>1. Sum(f, S) = SumOver(f, S)[S]
  BY SumIs
<1>2. SumOver(f, S)[S] = f[Some(S)] + SumOver(f, S)[S \ {Some(S)}]
  BY SumOverIs
<1>3. SumOver(f, S)[S \ {Some(S)}] = Sum(f, S \ {Some(S)})
  BY SumOverAgrees
<1> QED
  BY <1>1, <1>2, <1>3

\* The sum is a number, whichever element is taken first.
LEMMA SumLess ==
  ASSUME NEW S, IsFiniteSet(S), NEW f, \A x \in S : f[x] \in Int
  PROVE  /\ Sum(f, S) \in Int
         /\ \A x \in S : Sum(f, S) = f[x] + Sum(f, S \ {x})
<1> DEFINE N == Cardinality(S)
           Fine(T) == Sum(f, T) \in Int /\ \A x \in T : Sum(f, T) = f[x] + Sum(f, T \ {x})
           H == {n \in 0..N : \A T \in SUBSET S : Cardinality(T) <= n => Fine(T)}
<1>1. N \in Nat
  BY FS_CardinalityType
<1>2. \A T \in SUBSET S : IsFiniteSet(T) /\ Cardinality(T) \in 0..N
  BY <1>1, FS_Subset, FS_CardinalityType
<1>3. ASSUME NEW T \in SUBSET S, NEW x \in T
      PROVE  T \ {x} \in SUBSET S /\ Cardinality(T \ {x}) = Cardinality(T) - 1
  BY <1>2, FS_RemoveElement
<1>4. 0 \in H
  <2>1. \A T \in SUBSET S : Cardinality(T) <= 0 => T = {}
    BY <1>2, FS_EmptySet
  <2> QED
    BY <1>1, <2>1, SumEmpty
<1>5. ASSUME NEW n \in 0..(N - 1), n \in H PROVE n + 1 \in H
  <2>1. ASSUME NEW T \in SUBSET S, Cardinality(T) <= n + 1 PROVE Fine(T)
    <3>1. CASE T = {}
      BY <3>1, SumEmpty
    <3>2. CASE T # {}
      <4> DEFINE c == Some(T)
                 W == T \ {c}
      <4>1. c \in T /\ c \in S
        BY <3>2, SomeIn
      <4> HIDE DEF c
      <4>2. W \in SUBSET S /\ Cardinality(W) <= n
        BY <1>2, <1>3, <2>1, <4>1
      <4>3. Fine(W)
        BY <1>5, <4>2
      <4>4. Sum(f, T) = f[c] + Sum(f, W)
        BY <1>2, <3>2, SumChosen DEF c
      <4>5. ASSUME NEW x \in T, x # c PROVE Sum(f, T) = f[x] + Sum(f, T \ {x})
        <5> DEFINE V == W \ {x}
        <5>1. x \in W /\ c \in T \ {x} /\ V = (T \ {x}) \ {c}
          BY <4>1, <4>5
        <5>2. Fine(T \ {x}) /\ Fine(V)
          <6>1. T \ {x} \in SUBSET S /\ Cardinality(T \ {x}) <= n
            BY <1>2, <1>3, <2>1
          <6>2. V \in SUBSET S /\ Cardinality(V) <= n
            BY <1>2, <1>3, <4>2, <5>1
          <6> QED
            BY <1>5, <6>1, <6>2
        <5>3. Sum(f, W) = f[x] + Sum(f, V) /\ Sum(f, T \ {x}) = f[c] + Sum(f, V)
          BY <4>3, <5>1, <5>2
        <5>4. f[x] \in Int /\ f[c] \in Int /\ Sum(f, V) \in Int
          BY <4>1, <5>2
        <5> HIDE DEF V, W
        <5> QED
          BY <4>4, <5>3, <5>4
      <4>6. Sum(f, T) \in Int
        <5>1. f[c] \in Int /\ Sum(f, W) \in Int
          BY <4>1, <4>3
        <5> HIDE DEF W
        <5> QED
          BY <4>4, <5>1
      <4> QED
        BY <4>4, <4>5, <4>6
    <3> QED
      BY <3>1, <3>2
  <2> HIDE DEF Fine
  <2> QED
    BY <1>1, <2>1
<1> HIDE DEF H
<1>6. N \in H
  <2> HIDE DEF Fine
  <2> QED
    BY <1>1, <1>4, <1>5, CountingUp
<1>7. Fine(S)
  BY <1>1, <1>6 DEF H
<1> QED
  BY <1>7

LEMMA SumMore ==
  ASSUME NEW S, IsFiniteSet(S), NEW x, x \notin S, NEW f, \A y \in S \cup {x} : f[y] \in Int
  PROVE  Sum(f, S \cup {x}) = Sum(f, S) + f[x] /\ Sum(f, S) \in Int /\ f[x] \in Int
<1>1. IsFiniteSet(S \cup {x}) /\ (S \cup {x}) \ {x} = S /\ f[x] \in Int
  BY FS_AddElement
<1>2. Sum(f, S \cup {x}) = f[x] + Sum(f, S)
  BY <1>1, SumLess
<1>3. Sum(f, S) \in Int
  BY SumLess
<1> QED
  BY <1>1, <1>2, <1>3

LEMMA SumSingle ==
  ASSUME NEW x, NEW f, f[x] \in Int
  PROVE  Sum(f, {x}) = f[x]
<1>1. IsFiniteSet({}) /\ {} \cup {x} = {x}
  BY FS_EmptySet
<1>2. Sum(f, {} \cup {x}) = Sum(f, {}) + f[x]
  BY <1>1, SumMore
<1> QED
  BY <1>1, <1>2, SumEmpty

LEMMA SumNat ==
  ASSUME NEW S, IsFiniteSet(S), NEW f, \A x \in S : f[x] \in Nat
  PROVE  Sum(f, S) \in Nat
<1> DEFINE G == {T \in SUBSET S : Sum(f, T) \in Nat}
<1>1. {} \in G
  BY SumEmpty
<1>2. ASSUME NEW T \in SUBSET S, NEW x \in S \ T, T \in G PROVE T \cup {x} \in G
  <2>1. IsFiniteSet(T)
    BY FS_Subset
  <2>2. Sum(f, T \cup {x}) = Sum(f, T) + f[x]
    <3>1. \A y \in T \cup {x} : f[y] \in Int
      OBVIOUS
    <3> QED
      BY <2>1, <3>1, SumMore
  <2>3. Sum(f, T) \in Nat /\ f[x] \in Nat
    BY <1>2
  <2> QED
    BY <2>2, <2>3
<1> HIDE DEF G
<1>3. S \in G
  BY <1>1, <1>2, Gathering
<1> QED
  BY <1>3 DEF G

LEMMA SumSame ==
  ASSUME NEW S, IsFiniteSet(S), NEW f, NEW g, \A x \in S : f[x] \in Int /\ g[x] = f[x]
  PROVE  Sum(f, S) = Sum(g, S)
<1> DEFINE G == {T \in SUBSET S : Sum(f, T) = Sum(g, T)}
<1>1. {} \in G
  BY SumEmpty
<1>2. ASSUME NEW T \in SUBSET S, NEW x \in S \ T, T \in G PROVE T \cup {x} \in G
  <2>1. IsFiniteSet(T)
    BY FS_Subset
  <2>2. Sum(f, T \cup {x}) = Sum(f, T) + f[x]
    BY <2>1, SumMore
  <2>3. Sum(g, T \cup {x}) = Sum(g, T) + g[x]
    <3>1. \A y \in T \cup {x} : g[y] \in Int
      OBVIOUS
    <3> QED
      BY <2>1, <3>1, SumMore
  <2>4. Sum(f, T) = Sum(g, T) /\ f[x] = g[x]
    BY <1>2
  <2> QED
    BY <2>2, <2>3, <2>4
<1> HIDE DEF G
<1>3. S \in G
  BY <1>1, <1>2, Gathering
<1> QED
  BY <1>3 DEF G

LEMMA SumUnion ==
  ASSUME NEW S, IsFiniteSet(S), NEW U, IsFiniteSet(U), S \cap U = {},
         NEW f, \A x \in S \cup U : f[x] \in Int
  PROVE  Sum(f, S \cup U) = Sum(f, S) + Sum(f, U)
<1> DEFINE G == {T \in SUBSET U : Sum(f, S \cup T) = Sum(f, S) + Sum(f, T)}
<1>0. Sum(f, S) \in Int
  BY SumLess
<1>1. {} \in G
  <2>1. S \cup {} = S
    OBVIOUS
  <2> QED
    BY <1>0, <2>1, SumEmpty
<1>2. ASSUME NEW T \in SUBSET U, NEW x \in U \ T, T \in G PROVE T \cup {x} \in G
  <2>1. IsFiniteSet(T) /\ IsFiniteSet(S \cup T)
    BY FS_Subset, FS_Union
  <2>2. Sum(f, T \cup {x}) = Sum(f, T) + f[x] /\ Sum(f, T) \in Int /\ f[x] \in Int
    BY <2>1, SumMore
  <2>3. Sum(f, (S \cup T) \cup {x}) = Sum(f, S \cup T) + f[x]
    BY <2>1, SumMore
  <2>4. (S \cup T) \cup {x} = S \cup (T \cup {x})
    OBVIOUS
  <2>5. Sum(f, S \cup T) = Sum(f, S) + Sum(f, T)
    BY <1>2
  <2>6. Sum(f, S \cup (T \cup {x})) = Sum(f, S \cup T) + f[x]
    BY <2>3, <2>4
  <2>7. Sum(f, S \cup (T \cup {x})) = Sum(f, S) + Sum(f, T \cup {x})
    BY <1>0, <2>2, <2>5, <2>6
  <2> QED
    BY <2>7
<1> HIDE DEF G
<1>3. U \in G
  BY <1>1, <1>2, Gathering
<1> QED
  BY <1>3 DEF G

\* What holds of every summand, times numbers, holds of the sums.
LEMMA SumScaled ==
  ASSUME NEW S, IsFiniteSet(S), NEW f, NEW g, NEW a \in Nat, NEW b \in Nat,
         \A x \in S : f[x] \in Int /\ g[x] \in Int /\ a * f[x] <= b * g[x]
  PROVE  a * Sum(f, S) <= b * Sum(g, S)
<1> DEFINE G == {T \in SUBSET S : a * Sum(f, T) <= b * Sum(g, T)}
<1>1. {} \in G
  BY SumEmpty
<1>2. ASSUME NEW T \in SUBSET S, NEW x \in S \ T, T \in G PROVE T \cup {x} \in G
  <2>1. IsFiniteSet(T)
    BY FS_Subset
  <2>2. Sum(f, T \cup {x}) = Sum(f, T) + f[x] /\ Sum(f, T) \in Int /\ f[x] \in Int
    BY <2>1, SumMore
  <2>3. Sum(g, T \cup {x}) = Sum(g, T) + g[x] /\ Sum(g, T) \in Int /\ g[x] \in Int
    BY <2>1, SumMore
  <2>4. a * Sum(f, T) <= b * Sum(g, T) /\ a * f[x] <= b * g[x]
    BY <1>2
  <2>5. \A m, n, p, q \in Int : a * m <= b * n /\ a * p <= b * q => a * (m + p) <= b * (n + q)
    <3> SUFFICES ASSUME NEW m \in Int, NEW n \in Int, NEW p \in Int, NEW q \in Int,
                        a * m <= b * n, a * p <= b * q
                 PROVE  a * (m + p) <= b * (n + q)
      OBVIOUS
    <3>1. a * (m + p) = a * m + a * p /\ b * (n + q) = b * n + b * q
      OBVIOUS
    <3> QED
      BY <3>1
  <2>6. a * (Sum(f, T) + f[x]) <= b * (Sum(g, T) + g[x])
    BY <2>2, <2>3, <2>4, <2>5
  <2> QED
    BY <2>2, <2>3, <2>6
<1> HIDE DEF G
<1>3. S \in G
  BY <1>1, <1>2, Gathering
<1> QED
  BY <1>3 DEF G

\* A factor, and a sum of two, may be taken out of a sum.
LEMMA SumTimes ==
  ASSUME NEW S, IsFiniteSet(S), NEW f, NEW g, NEW c \in Nat,
         \A x \in S : f[x] \in Int /\ g[x] = c * f[x]
  PROVE  Sum(g, S) = c * Sum(f, S)
<1>1. \A x \in S : f[x] \in Int /\ g[x] \in Int /\ c * f[x] <= 1 * g[x] /\ 1 * g[x] <= c * f[x]
  <2> SUFFICES ASSUME NEW x \in S
               PROVE  f[x] \in Int /\ g[x] \in Int /\ c * f[x] <= 1 * g[x] /\ 1 * g[x] <= c * f[x]
    OBVIOUS
  <2> DEFINE y == f[x]
  <2>1. y \in Int /\ g[x] = c * y
    OBVIOUS
  <2> HIDE DEF y
  <2>2. c * y \in Int
    BY <2>1
  <2>3. g[x] \in Int /\ c * y <= 1 * g[x] /\ 1 * g[x] <= c * y
    BY <2>1, <2>2
  <2> QED
    BY <2>1, <2>3 DEF y
<1>2. 1 \in Nat
  OBVIOUS
<1>3. c * Sum(f, S) <= 1 * Sum(g, S)
  BY <1>1, <1>2, SumScaled
<1>4. 1 * Sum(g, S) <= c * Sum(f, S)
  BY <1>1, <1>2, SumScaled
<1>5. Sum(f, S) \in Int /\ Sum(g, S) \in Int
  BY <1>1, SumLess
<1>6. c * Sum(f, S) \in Int
  BY <1>5
<1> QED
  BY <1>3, <1>4, <1>5, <1>6

LEMMA SumPlus ==
  ASSUME NEW S, IsFiniteSet(S), NEW f, NEW g, NEW h,
         \A x \in S : f[x] \in Int /\ g[x] \in Int /\ h[x] = f[x] + g[x]
  PROVE  Sum(h, S) = Sum(f, S) + Sum(g, S)
<1> DEFINE G == {T \in SUBSET S : Sum(h, T) = Sum(f, T) + Sum(g, T)}
<1>1. {} \in G
  BY SumEmpty
<1>2. ASSUME NEW T \in SUBSET S, NEW x \in S \ T, T \in G PROVE T \cup {x} \in G
  <2>1. IsFiniteSet(T)
    BY FS_Subset
  <2>2. Sum(f, T \cup {x}) = Sum(f, T) + f[x] /\ Sum(f, T) \in Int /\ f[x] \in Int
    BY <2>1, SumMore
  <2>3. Sum(g, T \cup {x}) = Sum(g, T) + g[x] /\ Sum(g, T) \in Int /\ g[x] \in Int
    BY <2>1, SumMore
  <2>4. Sum(h, T \cup {x}) = Sum(h, T) + h[x]
    <3>1. \A y \in T \cup {x} : h[y] \in Int
      OBVIOUS
    <3> QED
      BY <2>1, <3>1, SumMore
  <2>5. Sum(h, T) = Sum(f, T) + Sum(g, T) /\ h[x] = f[x] + g[x]
    BY <1>2
  <2> QED
    BY <2>2, <2>3, <2>4, <2>5
<1> HIDE DEF G
<1>3. S \in G
  BY <1>1, <1>2, Gathering
<1> QED
  BY <1>3 DEF G

LEMMA SumAtMost ==
  ASSUME NEW S, IsFiniteSet(S), NEW f, NEW g, \A x \in S : f[x] \in Int /\ g[x] \in Int /\ f[x] <= g[x]
  PROVE  Sum(f, S) <= Sum(g, S)
<1>1. \A x \in S : 1 * f[x] <= 1 * g[x]
  OBVIOUS
<1>2. 1 * Sum(f, S) <= 1 * Sum(g, S)
  BY <1>1, SumScaled
<1>3. Sum(f, S) \in Int /\ Sum(g, S) \in Int
  BY SumLess
<1> QED
  BY <1>2, <1>3

LEMMA SumZero ==
  ASSUME NEW S, IsFiniteSet(S), NEW f, \A x \in S : f[x] = 0
  PROVE  Sum(f, S) = 0
<1> DEFINE G == {T \in SUBSET S : Sum(f, T) = 0}
<1>1. {} \in G
  BY SumEmpty
<1>2. ASSUME NEW T \in SUBSET S, NEW x \in S \ T, T \in G PROVE T \cup {x} \in G
  <2>1. IsFiniteSet(T)
    BY FS_Subset
  <2>2. Sum(f, T \cup {x}) = Sum(f, T) + f[x]
    BY <2>1, SumMore
  <2>3. Sum(f, T) = 0 /\ f[x] = 0
    BY <1>2
  <2> QED
    BY <2>2, <2>3
<1> HIDE DEF G
<1>3. S \in G
  BY <1>1, <1>2, Gathering
<1> QED
  BY <1>3 DEF G

\* A sum of natural numbers is positive when one of them is.
LEMMA SumPositive ==
  ASSUME NEW S, IsFiniteSet(S), NEW f, \A x \in S : f[x] \in Nat
  PROVE  Sum(f, S) > 0 <=> \E x \in S : f[x] > 0
<1>1. ASSUME NEW x \in S, f[x] > 0 PROVE Sum(f, S) > 0
  <2>1. IsFiniteSet(S \ {x})
    BY FS_RemoveElement
  <2>2. Sum(f, S) = f[x] + Sum(f, S \ {x})
    BY SumLess
  <2>3. Sum(f, S \ {x}) \in Nat
    BY <2>1, SumNat
  <2> QED
    BY <1>1, <2>2, <2>3
<1>2. ASSUME \A x \in S : ~(f[x] > 0) PROVE ~(Sum(f, S) > 0)
  <2>1. Sum(f, S) = 0
    BY <1>2, SumZero
  <2> QED
    BY <2>1
<1> QED
  BY <1>1, <1>2

\* The elements may be named by others, one each.
LEMMA SumRenamed ==
  ASSUME NEW S, IsFiniteSet(S), NEW h, \A x, y \in S : h[x] = h[y] => x = y,
         NEW f, NEW g, \A x \in S : f[x] \in Int /\ g[h[x]] = f[x]
  PROVE  Sum(g, {h[x] : x \in S}) = Sum(f, S)
<1> DEFINE im(T) == {h[x] : x \in T}
           G == {T \in SUBSET S : IsFiniteSet(im(T)) /\ Sum(g, im(T)) = Sum(f, T)}
<1>1. {} \in G
  <2>1. im({}) = {}
    OBVIOUS
  <2> QED
    BY <2>1, SumEmpty, FS_EmptySet
<1>2. ASSUME NEW T \in SUBSET S, NEW x \in S \ T, T \in G PROVE T \cup {x} \in G
  <2>1. IsFiniteSet(T) /\ IsFiniteSet(im(T)) /\ Sum(g, im(T)) = Sum(f, T)
    BY <1>2, FS_Subset
  <2> DEFINE y == h[x]
  <2>2. im(T \cup {x}) = im(T) \cup {y} /\ y \notin im(T)
    OBVIOUS
  <2>3. (\A z \in im(T) \cup {y} : g[z] \in Int) /\ g[y] = f[x]
    OBVIOUS
  <2>4. Sum(f, T \cup {x}) = Sum(f, T) + f[x]
    BY <2>1, SumMore
  <2> HIDE DEF im, y
  <2>5. IsFiniteSet(im(T) \cup {y})
    BY <2>1, FS_AddElement
  <2>6. Sum(g, im(T) \cup {y}) = Sum(g, im(T)) + g[y]
    <3> DEFINE I == im(T)
    <3>1. IsFiniteSet(I) /\ y \notin I /\ \A z \in I \cup {y} : g[z] \in Int
      BY <2>1, <2>2, <2>3
    <3> HIDE DEF I
    <3>2. Sum(g, I \cup {y}) = Sum(g, I) + g[y]
      BY <3>1, SumMore
    <3> QED
      BY <3>2 DEF I
  <2>7. Sum(g, im(T \cup {x})) = Sum(f, T \cup {x}) /\ IsFiniteSet(im(T \cup {x}))
    BY <2>1, <2>2, <2>3, <2>4, <2>5, <2>6
  <2>8. T \cup {x} \in SUBSET S
    OBVIOUS
  <2> QED
    BY <2>7, <2>8
<1> HIDE DEF G
<1>3. S \in G
  BY <1>1, <1>2, Gathering
<1> QED
  BY <1>3 DEF G

Class(S, h, k) == {x \in S : h[x] = k}

\* A sum may be taken class by class, where h[x] is the class of x.
LEMMA SumByClass ==
  ASSUME NEW S, IsFiniteSet(S), NEW K, IsFiniteSet(K), NEW h, \A x \in S : h[x] \in K,
         NEW f, \A x \in S : f[x] \in Int,
         NEW g, \A k \in K : g[k] = Sum(f, Class(S, h, k))
  PROVE  Sum(g, K) = Sum(f, S)
<1> USE DEF Class
<1> DEFINE of(L) == {x \in S : h[x] \in L}
           G == {L \in SUBSET K : Sum(g, L) = Sum(f, of(L))}
<1>1. {} \in G
  <2>1. of({}) = {}
    OBVIOUS
  <2> QED
    BY <2>1, SumEmpty
<1>2. ASSUME NEW L \in SUBSET K, NEW k \in K \ L, L \in G PROVE L \cup {k} \in G
  <2> DEFINE class == {x \in S : h[x] = k}
  <2>1. IsFiniteSet(L) /\ IsFiniteSet(of(L)) /\ IsFiniteSet(class)
    BY FS_Subset
  <2>2. of(L \cup {k}) = of(L) \cup class /\ of(L) \cap class = {}
    OBVIOUS
  <2>3. Sum(f, of(L) \cup class) = Sum(f, of(L)) + Sum(f, class)
    <3>1. of(L) \subseteq S /\ class \subseteq S
      OBVIOUS
    <3> HIDE DEF of, class
    <3> QED
      BY <2>1, <2>2, <3>1, SumUnion
  <2>4. \A l \in K : g[l] \in Int
    <3> SUFFICES ASSUME NEW l \in K PROVE g[l] \in Int
      OBVIOUS
    <3> DEFINE D == {x \in S : h[x] = l}
    <3>1. IsFiniteSet(D) /\ \A x \in D : f[x] \in Int
      BY FS_Subset
    <3>2. Sum(f, D) \in Int
      <4> HIDE DEF D
      <4> QED
        BY <3>1, SumLess
    <3> QED
      BY <3>2
  <2>5. Sum(g, L \cup {k}) = Sum(g, L) + g[k]
    BY <2>1, <2>4, SumMore
  <2>6. g[k] = Sum(f, class) /\ Sum(g, L) = Sum(f, of(L))
    BY <1>2
  <2> HIDE DEF of, class
  <2>7. Sum(g, L \cup {k}) = Sum(f, of(L \cup {k}))
    BY <2>2, <2>3, <2>5, <2>6
  <2> QED
    BY <2>7
<1>3. of(K) = S
  OBVIOUS
<1>4. K \in G
  <2> HIDE DEF G
  <2> QED
    BY <1>1, <1>2, Gathering
<1> HIDE DEF of
<1> QED
  BY <1>3, <1>4

-----------------------------------------------------------------------------
(* Division by a variable.                                                 *)

\* Division rounds down.
LEMMA DivBounds ==
  ASSUME NEW u \in Nat, NEW w \in Nat \ {0}
  PROVE  (u \div w) \in Nat /\ (u \div w) * w <= u /\ u < ((u \div w) + 1) * w
  OBVIOUS

\* So it keeps between two whole numbers.
LEMMA DivBetween ==
  ASSUME NEW u \in Nat, NEW w \in Nat \ {0}, NEW lo \in Nat, NEW hi \in Nat,
         lo * w <= u, u < (hi + 1) * w
  PROVE  (u \div w) \in Nat /\ lo <= (u \div w) /\ (u \div w) <= hi
<1> DEFINE q == u \div w
<1>1. q \in Nat /\ q * w <= u /\ u < (q + 1) * w
  BY DivBounds
<1> HIDE DEF q
<1>2. lo * w < (q + 1) * w /\ q * w < (hi + 1) * w
  BY <1>1
<1>3. \A s, t \in Nat : s >= t => s * w >= t * w
  OBVIOUS
<1>4. lo < q + 1 /\ q < hi + 1
  BY <1>1, <1>2, <1>3
<1> QED
  BY <1>1, <1>4 DEF q

-----------------------------------------------------------------------------
(* Max and Min of pairs and of finite sets of integers.                    *)

LEMMA MaxOfTwo ==
  ASSUME NEW a \in Int, NEW b \in Int
  PROVE  Max({a, b}) = IF a >= b THEN a ELSE b
<1>1. \E x \in {a, b} : \A y \in {a, b} : x >= y
  OBVIOUS
<1>2. Max({a, b}) \in {a, b} /\ \A y \in {a, b} : Max({a, b}) >= y
  BY <1>1 DEF Max
<1> QED
  BY <1>2

LEMMA MinOfTwo ==
  ASSUME NEW a \in Int, NEW b \in Int
  PROVE  Min({a, b}) = IF a <= b THEN a ELSE b
<1>1. \E x \in {a, b} : \A y \in {a, b} : x <= y
  OBVIOUS
<1>2. Min({a, b}) \in {a, b} /\ \A y \in {a, b} : Min({a, b}) <= y
  BY <1>1 DEF Min
<1> QED
  BY <1>2

\* A finite, non-empty set of integers has a greatest and a least element.
LEMMA EndsOfFinite ==
  ASSUME NEW S \in SUBSET Int, IsFiniteSet(S), S # {}
  PROVE  /\ Max(S) \in S /\ \A y \in S : y <= Max(S)
         /\ Min(S) \in S /\ \A y \in S : Min(S) <= y
<1> DEFINE Ends(T) == /\ \E m \in T : \A y \in T : m >= y
                      /\ \E m \in T : \A y \in T : m <= y
           G == {T \in SUBSET S : T = {} \/ Ends(T)}
<1>1. {} \in G
  OBVIOUS
<1>2. ASSUME NEW T \in SUBSET S, NEW x \in S \ T, T \in G PROVE T \cup {x} \in G
  <2>1. CASE T = {}
    <3>1. Ends({x})
      OBVIOUS
    <3>2. T \cup {x} = {x}
      BY <2>1
    <3> QED
      BY <3>1, <3>2
  <2>2. CASE Ends(T)
    <3>1. PICK m \in T : \A y \in T : m >= y
      BY <2>2
    <3>2. PICK l \in T : \A y \in T : l <= y
      BY <2>2
    <3>3. \E n \in T \cup {x} : \A y \in T \cup {x} : n >= y
      <4>1. CASE x >= m
        BY <3>1, <4>1
      <4>2. CASE ~(x >= m)
        BY <3>1, <4>2
      <4> QED
        BY <4>1, <4>2
    <3>4. \E n \in T \cup {x} : \A y \in T \cup {x} : n <= y
      <4>1. CASE x <= l
        BY <3>2, <4>1
      <4>2. CASE ~(x <= l)
        BY <3>2, <4>2
      <4> QED
        BY <4>1, <4>2
    <3> QED
      BY <3>3, <3>4
  <2> QED
    BY <1>2, <2>1, <2>2
<1> HIDE DEF G
<1>3. S \in G
  BY <1>1, <1>2, Gathering
<1>4. Ends(S)
  BY <1>3 DEF G
<1>5. Max(S) \in S /\ \A y \in S : Max(S) >= y
  BY <1>4 DEF Max
<1>6. Min(S) \in S /\ \A y \in S : Min(S) <= y
  BY <1>4 DEF Min
<1> QED
  BY <1>5, <1>6
=============================================================================
