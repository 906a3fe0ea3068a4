------------------------ MODULE TranscriptCacheProofs ------------------------
(***************************************************************************)
(* The transcript cache keeps its cap, gives up what was used longest ago, *)
(* and is invisible, for any number of sessions, versions and sizes.       *)
(*                                                                         *)
(* First what Bytes is for the sequences the cache makes, by induction on  *)
(* how many items are added up; then what put and touch make of the items, *)
(* each a choice of the old ones (Picks) with one item behind; then the    *)
(* invariant: the items are in the order of their last use, none shares an *)
(* etag, and the bytes of each are a version, of the session its etag      *)
(* belongs to, that is no older than it.                                   *)
(***************************************************************************)
EXTENDS TranscriptCache, DataLemmas, TLAPS

-----------------------------------------------------------------------------
(* Bytes: what it is for the sequences that the cache makes.               *)

Weight(s, n) == SizeOf[s[n].body]

Sums(f, n, s) == f = [i \in 0..n |-> IF i = 0 THEN 0 ELSE f[i - 1] + Weight(s, i)]

\* There is a function as BytesUpTo defines it.
LEMMA BytesExist ==
  ASSUME NEW s \in Seq(Item)
  PROVE  \E f : Sums(f, Len(s), s)
<1> DEFINE G == {n \in 0..Len(s) : \E f : Sums(f, n, s)}
<1>1. Len(s) \in Nat
  OBVIOUS
<1>2. 0 \in G
  <2> DEFINE f == [i \in 0..0 |-> 0]
  <2>1. Sums(f, 0, s)
    BY DEF Sums
  <2> QED
    BY <1>1, <2>1
<1>3. ASSUME NEW n \in 0..(Len(s) - 1), n \in G
      PROVE  n + 1 \in G
  <2>1. PICK f : Sums(f, n, s)
    BY <1>3
  <2> DEFINE g == [i \in 0..(n + 1) |-> IF i = n + 1 THEN f[n] + Weight(s, n + 1) ELSE f[i]]
  <2>2. ASSUME NEW i \in 0..(n + 1)
        PROVE  g[i] = IF i = 0 THEN 0 ELSE g[i - 1] + Weight(s, i)
    <3>1. CASE i = n + 1
      <4>1. g[i] = f[n] + Weight(s, n + 1) /\ i # 0 /\ g[i - 1] = f[n]
        BY <3>1
      <4> QED
        BY <3>1, <4>1
    <3>2. CASE i = 0
      BY <3>2, <2>1 DEF Sums
    <3>3. CASE i # n + 1 /\ i # 0
      <4>1. i \in 0..n /\ i - 1 \in 0..n
        BY <3>3
      <4>2. g[i] = f[i] /\ g[i - 1] = f[i - 1]
        BY <3>3, <4>1
      <4> QED
        BY <3>3, <4>1, <4>2, <2>1 DEF Sums
    <3> QED
      BY <3>1, <3>2, <3>3
  <2>3. Sums(g, n + 1, s)
    <3>1. g = [i \in 0..(n + 1) |-> g[i]]
      OBVIOUS
    <3> HIDE DEF g
    <3> QED
      BY <2>2, <3>1 DEF Sums
  <2> QED
    BY <1>1, <2>3
<1> HIDE DEF G
<1>4. Len(s) \in G
  BY <1>1, <1>2, <1>3, CountingUp
<1> QED
  BY <1>4 DEF G

\* BytesUpTo, from one item to the next.
LEMMA SumStep ==
  ASSUME NEW s \in Seq(Item)
  PROVE  /\ BytesUpTo(s)[0] = 0
         /\ \A n \in 0..(Len(s) - 1) :
              BytesUpTo(s)[n + 1] = BytesUpTo(s)[n] + Weight(s, n + 1)
<1> DEFINE f == BytesUpTo(s)
<1>1. Sums(f, Len(s), s)
  <2>1. \E g : Sums(g, Len(s), s)
    BY BytesExist
  <2>2. f = CHOOSE g : Sums(g, Len(s), s)
    BY DEF BytesUpTo, Sums, Weight
  <2> HIDE DEF f
  <2> QED
    BY <2>1, <2>2
<1>2. f = [i \in 0..Len(s) |-> IF i = 0 THEN 0 ELSE f[i - 1] + Weight(s, i)]
  BY <1>1 DEF Sums
<1> HIDE DEF f
<1>3. f[0] = 0
  BY <1>2
<1>4. ASSUME NEW n \in 0..(Len(s) - 1) PROVE f[n + 1] = f[n] + Weight(s, n + 1)
  <2>1. n + 1 \in 0..Len(s) /\ n + 1 # 0 /\ (n + 1) - 1 = n
    OBVIOUS
  <2> QED
    BY <1>2, <2>1
<1> QED
  BY <1>3, <1>4 DEF f

LEMMA WeightType == ASSUME NEW i \in Item PROVE SizeOf[i.body] \in Nat
<1> QED
  BY CacheAssumption DEF Item, Version

LEMMA BytesType ==
  ASSUME NEW s \in Seq(Item)
  PROVE  Bytes(s) \in Nat /\ \A n \in 0..Len(s) : BytesUpTo(s)[n] \in Nat
<1> DEFINE f == BytesUpTo(s)
<1>1. SUFFICES ASSUME NEW m \in 0..Len(s) PROVE f[m] \in Nat
  BY DEF Bytes
<1> DEFINE G == {n \in 0..m : f[n] \in Nat}
<1>2. 0 \in G
  BY SumStep
<1>3. ASSUME NEW n \in 0..(m - 1), n \in G PROVE n + 1 \in G
  <2>1. n + 1 \in 1..Len(s) /\ n \in 0..(Len(s) - 1)
    OBVIOUS
  <2>2. Weight(s, n + 1) \in Nat
    BY <2>1, WeightType, ElementOfSeq DEF Weight
  <2>3. f[n + 1] = f[n] + Weight(s, n + 1)
    BY <2>1, SumStep
  <2> HIDE DEF f
  <2> QED
    BY <1>3, <2>2, <2>3
<1> HIDE DEF G
<1>4. m \in G
  BY <1>2, <1>3, CountingUp
<1> QED
  BY <1>4 DEF G

\* Bytes of two sequences, one after the other.
LEMMA BytesOfConcat ==
  ASSUME NEW s \in Seq(Item), NEW t \in Seq(Item)
  PROVE  Bytes(s \o t) = Bytes(s) + Bytes(t)
<1> DEFINE u == s \o t
           f == BytesUpTo(s)
           g == BytesUpTo(t)
           h == BytesUpTo(u)
           G == {n \in 0..Len(s) : h[n] = f[n]}
           H == {n \in 0..Len(t) : h[Len(s) + n] = f[Len(s)] + g[n]}
<1>1. /\ u \in Seq(Item) /\ Len(u) = Len(s) + Len(t) /\ Len(s) \in Nat /\ Len(t) \in Nat
      /\ \A i \in 1..Len(s) : u[i] = s[i]
      /\ \A i \in 1..Len(t) : u[Len(s) + i] = t[i]
  <2>1. /\ u \in Seq(Item) /\ Len(u) = Len(s) + Len(t)
        /\ \A i \in 1..(Len(s) + Len(t)) : u[i] = IF i <= Len(s) THEN s[i] ELSE t[i - Len(s)]
    BY ConcatProperties
  <2>2. Len(s) \in Nat /\ Len(t) \in Nat
    OBVIOUS
  <2> HIDE DEF u
  <2>3. \A i \in 1..Len(s) : u[i] = s[i]
    BY <2>1, <2>2
  <2>4. ASSUME NEW i \in 1..Len(t) PROVE u[Len(s) + i] = t[i]
    <3>1. Len(s) + i \in 1..(Len(s) + Len(t)) /\ ~(Len(s) + i <= Len(s)) /\ (Len(s) + i) - Len(s) = i
      BY <2>2
    <3> QED
      BY <2>1, <3>1
  <2> QED
    BY <2>1, <2>2, <2>3, <2>4
<1> HIDE DEF u
<1>2. /\ f[0] = 0 /\ \A n \in 0..(Len(s) - 1) : f[n + 1] = f[n] + Weight(s, n + 1)
      /\ g[0] = 0 /\ \A n \in 0..(Len(t) - 1) : g[n + 1] = g[n] + Weight(t, n + 1)
      /\ h[0] = 0 /\ \A n \in 0..(Len(u) - 1) : h[n + 1] = h[n] + Weight(u, n + 1)
  BY <1>1, SumStep
<1>3. /\ \A n \in 0..Len(s) : f[n] \in Nat
      /\ \A n \in 0..Len(t) : g[n] \in Nat
  BY BytesType
<1>4. \A n \in 1..Len(t) : Weight(t, n) \in Nat
  BY WeightType, ElementOfSeq DEF Weight
<1> HIDE DEF f, g, h
<1>5. 0 \in G
  BY <1>1, <1>2
<1>6. ASSUME NEW n \in 0..(Len(s) - 1), n \in G PROVE n + 1 \in G
  <2>1. n + 1 \in 1..Len(s) /\ n \in 0..(Len(u) - 1) /\ n + 1 \in 0..Len(s)
    BY <1>1
  <2>2. Weight(u, n + 1) = Weight(s, n + 1)
    BY <1>1, <2>1 DEF Weight
  <2> QED
    BY <1>2, <1>6, <2>1, <2>2
<1>7. Len(s) \in G
  <2> HIDE DEF G
  <2> QED
    BY <1>1, <1>5, <1>6, CountingUp
<1>8. 0 \in H
  BY <1>1, <1>2, <1>3, <1>7
<1>9. ASSUME NEW n \in 0..(Len(t) - 1), n \in H PROVE n + 1 \in H
  <2>1. /\ n + 1 \in 1..Len(t) /\ Len(s) + n \in 0..(Len(u) - 1) /\ n + 1 \in 0..Len(t)
        /\ n \in 0..Len(t) /\ Len(s) \in 0..Len(s) /\ (Len(s) + n) + 1 = Len(s) + (n + 1)
    BY <1>1
  <2>2. Weight(u, Len(s) + (n + 1)) = Weight(t, n + 1)
    BY <1>1, <2>1 DEF Weight
  <2>3. h[Len(s) + (n + 1)] = h[Len(s) + n] + Weight(t, n + 1)
    BY <1>2, <2>1, <2>2
  <2>4. g[n + 1] = g[n] + Weight(t, n + 1)
    BY <1>2
  <2>5. h[Len(s) + n] = f[Len(s)] + g[n]
    BY <1>9
  <2>6. f[Len(s)] \in Nat /\ g[n] \in Nat /\ Weight(t, n + 1) \in Nat
    BY <1>3, <1>4, <2>1
  <2>7. h[Len(s) + (n + 1)] = f[Len(s)] + g[n + 1]
    BY <2>3, <2>4, <2>5, <2>6
  <2> QED
    BY <2>1, <2>7
<1>10. Len(t) \in H
  <2> HIDE DEF H
  <2> QED
    BY <1>1, <1>8, <1>9, CountingUp
<1>11. h[Len(u)] = f[Len(s)] + g[Len(t)]
  BY <1>1, <1>10
<1> QED
  BY <1>11 DEF Bytes, f, g, h, u

LEMMA EmptyBytes == <<>> \in Seq(Item) /\ Bytes(<<>>) = 0
<1>1. <<>> \in Seq(Item)
  OBVIOUS
<1>2. Len(<<>>) = 0
  OBVIOUS
<1>3. BytesUpTo(<<>>)[0] = 0
  BY <1>1, SumStep
<1> QED
  BY <1>1, <1>2, <1>3 DEF Bytes

LEMMA BytesOfOne ==
  ASSUME NEW x \in Item
  PROVE  Bytes(<<x>>) = SizeOf[x.body] /\ Bytes(<<>>) = 0
<1> DEFINE s == <<x>>
<1>1. /\ s \in Seq(Item) /\ Len(s) = 1 /\ s[1] = x
      /\ <<>> \in Seq(Item) /\ Len(<<>>) = 0
  OBVIOUS
<1> HIDE DEF s
<1>2. BytesUpTo(s)[0] = 0 /\ BytesUpTo(<<>>)[0] = 0
  BY <1>1, SumStep
<1>3. BytesUpTo(s)[0 + 1] = BytesUpTo(s)[0] + Weight(s, 0 + 1)
  <2>1. 0 \in 0..(Len(s) - 1)
    BY <1>1
  <2> QED
    BY <1>1, <2>1, SumStep
<1>4. Weight(s, 1) = SizeOf[x.body] /\ SizeOf[x.body] \in Nat
  BY <1>1, WeightType DEF Weight
<1>5. BytesUpTo(s)[1] = SizeOf[x.body]
  BY <1>2, <1>3, <1>4
<1>6. Bytes(s) = SizeOf[x.body] /\ Bytes(<<>>) = 0
  BY <1>1, <1>2, <1>5 DEF Bytes
<1> QED
  BY <1>6 DEF s

LEMMA BytesOfAppend ==
  ASSUME NEW s \in Seq(Item), NEW x \in Item
  PROVE  Bytes(Append(s, x)) = Bytes(s) + SizeOf[x.body]
<1>1. Append(s, x) = s \o <<x>> /\ <<x>> \in Seq(Item)
  BY AppendIsConcat
<1> QED
  BY <1>1, BytesOfConcat, BytesOfOne

\* Cutting a sequence in two.
LEMMA BytesOfParts ==
  ASSUME NEW s \in Seq(Item), NEW n \in 0..Len(s)
  PROVE  /\ SubSeq(s, 1, n) \in Seq(Item) /\ SubSeq(s, n + 1, Len(s)) \in Seq(Item)
         /\ Bytes(s) = Bytes(SubSeq(s, 1, n)) + Bytes(SubSeq(s, n + 1, Len(s)))
<1>1. Len(s) \in Nat /\ \A i \in 1..Len(s) : s[i] \in Item
  BY ElementOfSeq
<1>2. SubSeq(s, 1, n) \in Seq(Item)
  <2>1. 1 \in Int /\ n \in Int /\ \A i \in 1..n : s[i] \in Item
    BY <1>1
  <2> QED
    BY <2>1, SubSeqProperties
<1>3. SubSeq(s, n + 1, Len(s)) \in Seq(Item)
  <2>1. n + 1 \in Int /\ Len(s) \in Int /\ \A i \in (n + 1)..Len(s) : s[i] \in Item
    BY <1>1
  <2> QED
    BY <2>1, SubSeqProperties
<1>4. SubSeq(s, 1, n) \o SubSeq(s, n + 1, Len(s)) = SubSeq(s, 1, Len(s))
  <2>1. 1 \in 1..(Len(s) + 1) /\ n \in (1 - 1)..Len(s) /\ Len(s) \in n..Len(s)
    BY <1>1
  <2> QED
    BY <2>1, ConcatAdjacentSubSeq
<1>5. SubSeq(s, 1, Len(s)) = s
  BY SubSeqFull
<1> QED
  BY <1>2, <1>3, <1>4, <1>5, BytesOfConcat

\* Taking out the items of a set takes out their bytes.
LEMMA BytesOfKept ==
  ASSUME NEW s \in Seq(Item), NEW T, NEW U, \A x \in Item : x \in U <=> x \notin T
  PROVE  /\ Keep(s, T) \in Seq(Item) /\ Keep(s, U) \in Seq(Item)
         /\ Bytes(s) = Bytes(Keep(s, T)) + Bytes(Keep(s, U))
<1> DEFINE k == KeptUpTo(s, T)
           l == KeptUpTo(s, U)
           f == BytesUpTo(s)
           G == {n \in 0..Len(s) : /\ k[n] \in Seq(Item) /\ l[n] \in Seq(Item)
                                   /\ f[n] = Bytes(k[n]) + Bytes(l[n])}
<1>1. Len(s) \in Nat
  OBVIOUS
<1>2. /\ k[0] = <<>> /\ l[0] = <<>> /\ f[0] = 0
      /\ \A n \in 0..(Len(s) - 1) :
           /\ k[n + 1] = IF s[n + 1] \in T THEN Append(k[n], s[n + 1]) ELSE k[n]
           /\ l[n + 1] = IF s[n + 1] \in U THEN Append(l[n], s[n + 1]) ELSE l[n]
           /\ f[n + 1] = f[n] + Weight(s, n + 1)
  BY KeptStep, SumStep
<1> HIDE DEF k, l, f
<1>3. 0 \in G
  <2>1. k[0] \in Seq(Item) /\ l[0] \in Seq(Item)
    BY <1>2, EmptyBytes
  <2>2. f[0] = Bytes(k[0]) + Bytes(l[0])
    <3>1. f[0] = 0 /\ Bytes(k[0]) = 0 /\ Bytes(l[0]) = 0
      BY <1>2, EmptyBytes
    <3> QED
      BY <3>1
  <2>3. 0 \in 0..Len(s)
    BY <1>1
  <2> QED
    BY <2>1, <2>2, <2>3
<1>4. ASSUME NEW n \in 0..(Len(s) - 1), n \in G PROVE n + 1 \in G
  <2>1. /\ k[n] \in Seq(Item) /\ l[n] \in Seq(Item) /\ f[n] = Bytes(k[n]) + Bytes(l[n])
        /\ n + 1 \in 0..Len(s)
    BY <1>4
  <2> DEFINE x == s[n + 1]
  <2>2. x \in Item /\ Weight(s, n + 1) = SizeOf[x.body]
    BY ElementOfSeq DEF Weight
  <2>3. /\ k[n + 1] = IF x \in T THEN Append(k[n], x) ELSE k[n]
        /\ l[n + 1] = IF x \in U THEN Append(l[n], x) ELSE l[n]
        /\ f[n + 1] = f[n] + Weight(s, n + 1)
    BY <1>2
  <2> HIDE DEF x
  <2>4. Bytes(k[n]) \in Nat /\ Bytes(l[n]) \in Nat /\ SizeOf[x.body] \in Nat
    BY <2>1, <2>2, BytesType, WeightType
  <2>5. f[n + 1] = f[n] + SizeOf[x.body]
    BY <2>2, <2>3
  <2>6. CASE x \in T
    <3>1. k[n + 1] = Append(k[n], x) /\ l[n + 1] = l[n]
      BY <2>2, <2>3, <2>6
    <3>2. k[n + 1] \in Seq(Item) /\ Bytes(k[n + 1]) = Bytes(k[n]) + SizeOf[x.body]
      BY <2>1, <2>2, <3>1, BytesOfAppend, AppendProperties
    <3>3. Bytes(l[n + 1]) = Bytes(l[n]) /\ l[n + 1] \in Seq(Item)
      BY <2>1, <3>1
    <3>4. f[n + 1] = Bytes(k[n + 1]) + Bytes(l[n + 1])
      BY <2>1, <2>4, <2>5, <3>2, <3>3
    <3> QED
      BY <2>1, <3>2, <3>3, <3>4
  <2>7. CASE x \notin T
    <3>1. l[n + 1] = Append(l[n], x) /\ k[n + 1] = k[n]
      BY <2>2, <2>3, <2>7
    <3>2. l[n + 1] \in Seq(Item) /\ Bytes(l[n + 1]) = Bytes(l[n]) + SizeOf[x.body]
      BY <2>1, <2>2, <3>1, BytesOfAppend, AppendProperties
    <3>3. Bytes(k[n + 1]) = Bytes(k[n]) /\ k[n + 1] \in Seq(Item)
      BY <2>1, <3>1
    <3>4. f[n + 1] = Bytes(k[n + 1]) + Bytes(l[n + 1])
      BY <2>1, <2>4, <2>5, <3>2, <3>3
    <3> QED
      BY <2>1, <3>2, <3>3, <3>4
  <2> QED
    BY <2>6, <2>7
<1> HIDE DEF G
<1>5. Len(s) \in G
  BY <1>1, <1>3, <1>4, CountingUp
<1> QED
  BY <1>5 DEF G, k, l, f, Keep, Bytes

-----------------------------------------------------------------------------
(* What is left of a sequence when elements are taken away: q[i] is s[g[i]],*)
(* and the order is the same.                                              *)

Picks(g, q, s) ==
  /\ g \in [1..Len(q) -> 1..Len(s)]
  /\ \A i \in 1..Len(q) : q[i] = s[g[i]]
  /\ \A i, j \in 1..Len(q) : i < j => g[i] < g[j]

LEMMA KeepPicks ==
  ASSUME NEW s \in Seq(Item), NEW T
  PROVE  /\ Keep(s, T) \in Seq(Item)
         /\ \A i \in 1..Len(Keep(s, T)) : Keep(s, T)[i] \in T
         /\ \E g : /\ Picks(g, Keep(s, T), s)
                   /\ \A j \in 1..Len(s) :
                        s[j] \in T => \E i \in 1..Len(Keep(s, T)) : g[i] = j
<1> DEFINE q == Keep(s, T)
<1>1. PICK g : q \in Seq(Item) /\ Embeds(g, q, Len(s), s, T)
  BY KeepEmbeds
<1> HIDE DEF q
<1>2. Picks(g, q, s)
  BY <1>1 DEF Picks, Embeds
<1>3. \A j \in 1..Len(s) : s[j] \in T => \E i \in 1..Len(q) : g[i] = j
  BY <1>1 DEF Embeds
<1>4. \A i \in 1..Len(q) : q[i] \in T
  BY <1>1 DEF Embeds
<1> QED
  BY <1>1, <1>2, <1>3, <1>4 DEF q

LEMMA PicksOfPicks ==
  ASSUME NEW s \in Seq(Item), NEW q \in Seq(Item), NEW p \in Seq(Item),
         NEW g, NEW h, Picks(g, q, s), Picks(h, p, q)
  PROVE  Picks([i \in 1..Len(p) |-> g[h[i]]], p, s)
<1> DEFINE f == [i \in 1..Len(p) |-> g[h[i]]]
<1>1. \A i \in 1..Len(p) : h[i] \in 1..Len(q) /\ g[h[i]] \in 1..Len(s)
  BY DEF Picks
<1>2. f \in [1..Len(p) -> 1..Len(s)] /\ \A i \in 1..Len(p) : f[i] = g[h[i]]
  BY <1>1
<1> HIDE DEF f
<1>3. \A i \in 1..Len(p) : p[i] = s[f[i]]
  BY <1>1, <1>2 DEF Picks
<1>4. \A i, j \in 1..Len(p) : i < j => f[i] < f[j]
  BY <1>1, <1>2 DEF Picks
<1>5. Picks(f, p, s)
  BY <1>2, <1>3, <1>4 DEF Picks
<1> QED
  BY <1>5 DEF f

LEMMA SubSeqPicks ==
  ASSUME NEW s \in Seq(Item), NEW n \in 0..Len(s)
  PROVE  /\ SubSeq(s, n + 1, Len(s)) \in Seq(Item)
         /\ Len(SubSeq(s, n + 1, Len(s))) = Len(s) - n
         /\ \A i \in 1..(Len(s) - n) : SubSeq(s, n + 1, Len(s))[i] = s[n + i]
         /\ Picks([i \in 1..(Len(s) - n) |-> n + i], SubSeq(s, n + 1, Len(s)), s)
<1> DEFINE q == SubSeq(s, n + 1, Len(s))
           g == [i \in 1..(Len(s) - n) |-> n + i]
<1>1. Len(s) \in Nat /\ n \in Nat /\ \A i \in (n + 1)..Len(s) : s[i] \in Item
  BY ElementOfSeq
<1>2. /\ q \in Seq(Item)
      /\ Len(q) = IF n + 1 <= Len(s) THEN Len(s) - (n + 1) + 1 ELSE 0
      /\ \A i \in 1..(Len(s) - (n + 1) + 1) : q[i] = s[(n + 1) + i - 1]
  <2>1. n + 1 \in Int /\ Len(s) \in Int
    BY <1>1
  <2> QED
    BY <1>1, <2>1, SubSeqProperties
<1> HIDE DEF q
<1>3. Len(q) = Len(s) - n
  BY <1>1, <1>2
<1>4. ASSUME NEW i \in 1..(Len(s) - n) PROVE q[i] = s[n + i]
  <2>1. i \in 1..(Len(s) - (n + 1) + 1) /\ (n + 1) + i - 1 = n + i
    BY <1>1
  <2> QED
    BY <1>2, <2>1
<1>5. g \in [1..(Len(s) - n) -> 1..Len(s)] /\ \A i \in 1..(Len(s) - n) : g[i] = n + i
  BY <1>1
<1> HIDE DEF g
<1>6. Picks(g, q, s)
  BY <1>1, <1>3, <1>4, <1>5 DEF Picks
<1> QED
  BY <1>2, <1>3, <1>4, <1>6 DEF q, g

\* RemoveAt leaves every other element.
LEMMA RemoveAtPicks ==
  ASSUME NEW s \in Seq(Item), NEW n \in 1..Len(s)
  PROVE  /\ RemoveAt(s, n) \in Seq(Item) /\ Len(RemoveAt(s, n)) = Len(s) - 1
         /\ \E g : /\ Picks(g, RemoveAt(s, n), s)
                   /\ \A i \in 1..Len(RemoveAt(s, n)) : g[i] # n
                   /\ \A j \in 1..Len(s) : j # n => \E i \in 1..Len(RemoveAt(s, n)) : g[i] = j
<1> DEFINE a == SubSeq(s, 1, n - 1)
           b == SubSeq(s, n + 1, Len(s))
           q == RemoveAt(s, n)
           m == Len(s) - 1
           g == [i \in 1..m |-> IF i < n THEN i ELSE i + 1]
<1>1. Len(s) \in Nat /\ n \in Nat /\ \A i \in 1..Len(s) : s[i] \in Item
  BY ElementOfSeq
<1>2. /\ a \in Seq(Item) /\ Len(a) = n - 1
      /\ \A i \in 1..(n - 1) : a[i] = s[i]
  <2>1. /\ a \in Seq(Item) /\ Len(a) = IF 1 <= n - 1 THEN (n - 1) - 1 + 1 ELSE 0
        /\ \A i \in 1..((n - 1) - 1 + 1) : a[i] = s[1 + i - 1]
    <3>1. 1 \in Int /\ n - 1 \in Int /\ \A i \in 1..(n - 1) : s[i] \in Item
      BY <1>1
    <3> QED
      BY <3>1, SubSeqProperties
  <2> HIDE DEF a
  <2>2. ASSUME NEW i \in 1..(n - 1) PROVE a[i] = s[i]
    <3>1. i \in 1..((n - 1) - 1 + 1) /\ 1 + i - 1 = i
      BY <1>1
    <3> QED
      BY <2>1, <3>1
  <2>3. Len(a) = n - 1
    BY <1>1, <2>1
  <2> QED
    BY <2>1, <2>2, <2>3
<1>3. /\ b \in Seq(Item) /\ Len(b) = Len(s) - n
      /\ \A i \in 1..(Len(s) - n) : b[i] = s[n + i]
  BY SubSeqPicks
<1>4. /\ q \in Seq(Item) /\ Len(q) = m
      /\ \A i \in 1..m : q[i] = s[IF i < n THEN i ELSE i + 1]
  <2>1. q = a \o b
    BY DEF RemoveAt
  <2> HIDE DEF a, b, q
  <2>2. /\ q \in Seq(Item) /\ Len(q) = Len(a) + Len(b)
        /\ \A i \in 1..(Len(a) + Len(b)) : q[i] = IF i <= Len(a) THEN a[i] ELSE b[i - Len(a)]
    BY <1>2, <1>3, <2>1, ConcatProperties
  <2>3. Len(a) + Len(b) = m
    BY <1>1, <1>2, <1>3
  <2>4. ASSUME NEW i \in 1..m PROVE q[i] = s[IF i < n THEN i ELSE i + 1]
    <3>1. CASE i < n
      <4>1. i <= Len(a) /\ i \in 1..(n - 1)
        BY <1>1, <1>2, <3>1
      <4> QED
        BY <1>2, <2>2, <2>3, <3>1, <4>1
    <3>2. CASE ~(i < n)
      <4>1. ~(i <= Len(a)) /\ i - Len(a) \in 1..(Len(s) - n) /\ n + (i - Len(a)) = i + 1
        BY <1>1, <1>2, <3>2
      <4> QED
        BY <1>3, <2>2, <2>3, <3>2, <4>1
    <3> QED
      BY <3>1, <3>2
  <2> QED
    BY <2>2, <2>3, <2>4
<1> HIDE DEF q
<1>5. /\ g \in [1..m -> 1..Len(s)] /\ \A i \in 1..m : g[i] = IF i < n THEN i ELSE i + 1
      /\ m \in Int
  BY <1>1
<1> HIDE DEF g
<1>6. Picks(g, q, s)
  <2>1. \A i \in 1..m : q[i] = s[g[i]]
    BY <1>4, <1>5
  <2>2. \A i, j \in 1..m : i < j => g[i] < g[j]
    BY <1>1, <1>5
  <2> QED
    BY <1>4, <1>5, <2>1, <2>2 DEF Picks
<1>7. \A i \in 1..Len(q) : g[i] # n
  BY <1>1, <1>4, <1>5
<1>8. ASSUME NEW j \in 1..Len(s), j # n PROVE \E i \in 1..Len(q) : g[i] = j
  <2>1. CASE j < n
    <3>1. j \in 1..m /\ g[j] = j
      BY <1>1, <1>5, <2>1
    <3> QED
      BY <1>4, <3>1
  <2>2. CASE ~(j < n)
    <3>1. j - 1 \in 1..m /\ g[j - 1] = j
      BY <1>1, <1>5, <1>8, <2>2
    <3> QED
      BY <1>4, <3>1
  <2> QED
    BY <2>1, <2>2
<1> QED
  BY <1>4, <1>6, <1>7, <1>8 DEF q
-----------------------------------------------------------------------------
(* What put and touch make of the items.                                   *)

\* No item was used before one that comes earlier, and none twice.
Ordered(s, t) ==
  /\ \A i, j \in 1..Len(s) : i < j => s[i].ts <= s[j].ts /\ s[i].etag # s[j].etag
  /\ \A i \in 1..Len(s) : s[i].ts <= t

\* The bytes of every item belong to the session of its etag, and are not older.
Sourced(s, p) ==
  \A i \in 1..Len(s) :
    \E k \in Keys : s[i].etag \in p[k] /\ s[i].body \in p[k] /\ s[i].etag <= s[i].body

LEMMA PicksKeep ==
  ASSUME NEW s \in Seq(Item), NEW q \in Seq(Item), NEW g, Picks(g, q, s), NEW t, NEW p
  PROVE  /\ Ordered(s, t) => Ordered(q, t)
         /\ Sourced(s, p) => Sourced(q, p)
<1>1. \A i \in 1..Len(q) : g[i] \in 1..Len(s) /\ q[i] = s[g[i]]
  BY DEF Picks
<1>2. \A i, j \in 1..Len(q) : i < j => g[i] < g[j]
  BY DEF Picks
<1>3. ASSUME Ordered(s, t) PROVE Ordered(q, t)
  <2>1. ASSUME NEW i \in 1..Len(q), NEW j \in 1..Len(q), i < j
        PROVE  q[i].ts <= q[j].ts /\ q[i].etag # q[j].etag
    <3>1. g[i] \in 1..Len(s) /\ g[j] \in 1..Len(s) /\ g[i] < g[j]
      BY <1>1, <1>2, <2>1
    <3>2. s[g[i]].ts <= s[g[j]].ts /\ s[g[i]].etag # s[g[j]].etag
      BY <1>3, <3>1 DEF Ordered
    <3>3. q[i] = s[g[i]] /\ q[j] = s[g[j]]
      BY <1>1
    <3> QED
      BY <3>2, <3>3
  <2>2. \A i \in 1..Len(q) : q[i].ts <= t
    BY <1>1, <1>3 DEF Ordered
  <2> QED
    BY <2>1, <2>2 DEF Ordered
<1>4. Sourced(s, p) => Sourced(q, p)
  BY <1>1 DEF Sourced
<1> QED
  BY <1>3, <1>4

LEMMA AppendKeeps ==
  ASSUME NEW s \in Seq(Item), NEW x \in Item, NEW p,
         Ordered(s, x.ts), \A i \in 1..Len(s) : s[i].etag # x.etag,
         Sourced(s, p),
         \E k \in Keys : x.etag \in p[k] /\ x.body \in p[k] /\ x.etag <= x.body
  PROVE  /\ Append(s, x) \in Seq(Item)
         /\ Ordered(Append(s, x), x.ts) /\ Sourced(Append(s, x), p)
<1> DEFINE q == Append(s, x)
<1>1. /\ q \in Seq(Item) /\ Len(q) = Len(s) + 1 /\ q[Len(s) + 1] = x
      /\ \A i \in 1..Len(s) : q[i] = s[i]
  BY AppendProperties
<1>2. Len(s) \in Nat /\ \A i \in 1..Len(s) : s[i] \in Item
  BY ElementOfSeq
<1>3. x.ts \in Nat
  BY DEF Item
<1> HIDE DEF q
<1>4. ASSUME NEW i \in 1..Len(q), NEW j \in 1..Len(q), i < j
      PROVE  q[i].ts <= q[j].ts /\ q[i].etag # q[j].etag
  <2>1. i \in 1..Len(s) /\ q[i] = s[i]
    BY <1>1, <1>2, <1>4
  <2>2. CASE j \in 1..Len(s)
    BY <1>1, <1>4, <2>1, <2>2 DEF Ordered
  <2>3. CASE j = Len(s) + 1
    BY <1>1, <2>1, <2>3 DEF Ordered
  <2> QED
    BY <1>1, <1>2, <2>2, <2>3
<1>5. \A i \in 1..Len(q) : q[i].ts <= x.ts
  <2>1. SUFFICES ASSUME NEW i \in 1..Len(q) PROVE q[i].ts <= x.ts
    OBVIOUS
  <2>2. CASE i \in 1..Len(s)
    BY <1>1, <2>2 DEF Ordered
  <2>3. CASE i = Len(s) + 1
    BY <1>1, <1>3, <2>3
  <2> QED
    BY <1>1, <1>2, <2>2, <2>3
<1>6. Sourced(q, p)
  <2>1. SUFFICES ASSUME NEW i \in 1..Len(q)
                 PROVE \E k \in Keys : q[i].etag \in p[k] /\ q[i].body \in p[k] /\ q[i].etag <= q[i].body
    BY DEF Sourced
  <2>2. CASE i \in 1..Len(s)
    BY <1>1, <2>2 DEF Sourced
  <2>3. CASE i = Len(s) + 1
    BY <1>1, <2>3
  <2> QED
    BY <1>1, <1>2, <2>2, <2>3
<1>7. Ordered(q, x.ts)
  BY <1>4, <1>5 DEF Ordered
<1> QED
  BY <1>1, <1>6, <1>7 DEF q

\* The first n items, for one n and the next.
LEMMA BytesOfPrefix ==
  ASSUME NEW s \in Seq(Item), NEW n \in 1..Len(s)
  PROVE  Bytes(SubSeq(s, 1, n)) = Bytes(SubSeq(s, 1, n - 1)) + SizeOf[s[n].body]
<1>1. Len(s) \in Nat /\ n \in Nat /\ s[n] \in Item
  BY ElementOfSeq
<1>2. SubSeq(s, n, n) = <<s[n]>>
  <2> DEFINE q == SubSeq(s, n, n)
  <2>1. /\ q \in Seq(Item) /\ Len(q) = IF n <= n THEN n - n + 1 ELSE 0
        /\ \A i \in 1..(n - n + 1) : q[i] = s[n + i - 1]
    <3>1. n \in Int /\ \A i \in n..n : s[i] \in Item
      BY <1>1
    <3> QED
      BY <3>1, SubSeqProperties
  <2> HIDE DEF q
  <2>2. Len(q) = 1
    BY <1>1, <2>1
  <2>3. q[1] = s[n]
    <3>1. 1 \in 1..(n - n + 1) /\ n + 1 - 1 = n
      BY <1>1
    <3> QED
      BY <2>1, <3>1
  <2>4. q = <<q[1]>>
    BY <2>1, <2>2
  <2> QED
    BY <2>3, <2>4 DEF q
<1>3. SubSeq(s, 1, n - 1) \o SubSeq(s, (n - 1) + 1, n) = SubSeq(s, 1, n)
  <2>1. 1 \in 1..(Len(s) + 1) /\ n - 1 \in (1 - 1)..Len(s) /\ n \in (n - 1)..Len(s)
    BY <1>1
  <2> QED
    BY <2>1, ConcatAdjacentSubSeq
<1>4. n - 1 \in 0..Len(s) /\ (n - 1) + 1 = n
  BY <1>1
<1>5. SubSeq(s, 1, n - 1) \in Seq(Item)
  BY <1>4, BytesOfParts
<1>6. <<s[n]>> \in Seq(Item)
  BY <1>1
<1>7. SubSeq(s, 1, n) = SubSeq(s, 1, n - 1) \o <<s[n]>>
  BY <1>2, <1>3, <1>4
<1> QED
  BY <1>1, <1>5, <1>6, <1>7, BytesOfConcat, BytesOfOne

LEMMA BytesOfRest ==
  ASSUME NEW s \in Seq(Item), NEW n \in 1..Len(s)
  PROVE  Bytes(s) = Bytes(RemoveAt(s, n)) + SizeOf[s[n].body]
<1>1. Len(s) \in Nat /\ n \in Nat /\ s[n] \in Item /\ n \in 0..Len(s) /\ n - 1 \in 0..Len(s)
  BY ElementOfSeq
<1>2. /\ SubSeq(s, 1, n) \in Seq(Item) /\ SubSeq(s, n + 1, Len(s)) \in Seq(Item)
      /\ Bytes(s) = Bytes(SubSeq(s, 1, n)) + Bytes(SubSeq(s, n + 1, Len(s)))
      /\ SubSeq(s, 1, n - 1) \in Seq(Item)
  BY <1>1, BytesOfParts
<1>3. Bytes(SubSeq(s, 1, n)) = Bytes(SubSeq(s, 1, n - 1)) + SizeOf[s[n].body]
  BY BytesOfPrefix
<1>4. RemoveAt(s, n) = SubSeq(s, 1, n - 1) \o SubSeq(s, n + 1, Len(s))
  BY DEF RemoveAt
<1>5. Bytes(RemoveAt(s, n)) = Bytes(SubSeq(s, 1, n - 1)) + Bytes(SubSeq(s, n + 1, Len(s)))
  BY <1>2, <1>4, BytesOfConcat
<1>6. /\ Bytes(SubSeq(s, 1, n - 1)) \in Nat /\ Bytes(SubSeq(s, n + 1, Len(s))) \in Nat
      /\ SizeOf[s[n].body] \in Nat
  BY <1>1, <1>2, BytesType, WeightType
<1> QED
  BY <1>2, <1>3, <1>5, <1>6

\* What _evict_idle and the pop of the old entry leave, and that _size is its bytes.
LEMMA WhatOthersAre ==
  ASSUME items \in Seq(Item), size = Bytes(items), NEW e
  PROVE  /\ Others(e) \in Seq(Item) /\ Left(e) = Bytes(Others(e))
         /\ \A i \in 1..Len(Others(e)) : Others(e)[i].etag # e /\ Others(e)[i] \notin Stale
         /\ \E g : /\ Picks(g, Others(e), items)
                   /\ \A j \in 1..Len(items) :
                        items[j].etag # e /\ items[j] \notin Stale
                          => \E i \in 1..Len(Others(e)) : g[i] = j
<1> DEFINE A == {x \in Item : x.etag # e}
           B == {x \in Item : x.etag = e}
           o == Keep(Live, A)
<1>1. /\ Live \in Seq(Item) /\ Keep(items, Stale) \in Seq(Item)
      /\ Bytes(items) = Bytes(Keep(items, Stale)) + Bytes(Live)
  <2>1. \A x \in Item : x \in Item \ Stale <=> x \notin Stale
    OBVIOUS
  <2> QED
    BY <2>1, BytesOfKept DEF Live
<1>2. /\ o \in Seq(Item) /\ Keep(Live, B) \in Seq(Item)
      /\ Bytes(Live) = Bytes(Keep(Live, B)) + Bytes(o)
  <2>1. \A x \in Item : x \in A <=> x \notin B
    OBVIOUS
  <2> HIDE DEF A, B
  <2> QED
    BY <1>1, <2>1, BytesOfKept
<1>3. Left(e) = Bytes(o)
  <2>1. /\ Bytes(Keep(items, Stale)) \in Nat /\ Bytes(Live) \in Nat
        /\ Bytes(Keep(Live, B)) \in Nat /\ Bytes(o) \in Nat
    BY <1>1, <1>2, BytesType
  <2>2. Left(e) = (size - Bytes(Keep(items, Stale))) - Bytes(Keep(Live, B))
    BY DEF Left, Remaining
  <2> HIDE DEF o, B
  <2> QED
    BY <1>1, <1>2, <2>1, <2>2
<1> DEFINE V == Item \ Stale
<1> HIDE DEF V
<1>4. PICK g : /\ Picks(g, Live, items)
               /\ \A j \in 1..Len(items) : items[j] \in V => \E i \in 1..Len(Live) : g[i] = j
  <2>1. \E g : /\ Picks(g, Keep(items, V), items)
               /\ \A j \in 1..Len(items) : items[j] \in V => \E i \in 1..Len(Keep(items, V)) : g[i] = j
    BY KeepPicks
  <2> QED
    BY <2>1 DEF Live, V
<1>5. \A i \in 1..Len(Live) : Live[i] \notin Stale
  <2>1. \A i \in 1..Len(Keep(items, V)) : Keep(items, V)[i] \in V
    BY KeepPicks
  <2> QED
    BY <2>1 DEF Live, V
<1>6. PICK h : /\ Picks(h, o, Live)
               /\ \A j \in 1..Len(Live) : Live[j] \in A => \E i \in 1..Len(o) : h[i] = j
  <2> HIDE DEF A
  <2> QED
    BY <1>1, KeepPicks
<1>7. \A i \in 1..Len(o) : o[i] \in A
  <2> HIDE DEF A
  <2> QED
    BY <1>1, KeepPicks
<1> DEFINE f == [i \in 1..Len(o) |-> g[h[i]]]
<1> HIDE DEF o
<1>8. Picks(f, o, items)
  BY <1>1, <1>2, <1>4, <1>6, PicksOfPicks
<1>9. ASSUME NEW j \in 1..Len(items), items[j].etag # e, items[j] \notin Stale
      PROVE  \E i \in 1..Len(o) : f[i] = j
  <2>1. items[j] \in Item
    BY ElementOfSeq
  <2>2. PICK m \in 1..Len(Live) : g[m] = j
    BY <1>4, <1>9, <2>1 DEF V
  <2>3. Live[m] = items[j]
    BY <1>4, <2>2 DEF Picks
  <2>4. PICK i \in 1..Len(o) : h[i] = m
    BY <1>6, <1>9, <2>1, <2>3
  <2> QED
    BY <2>2, <2>4
<1>10. \A i \in 1..Len(o) : o[i].etag # e /\ o[i] \notin Stale
  <2>1. SUFFICES ASSUME NEW i \in 1..Len(o) PROVE o[i].etag # e /\ o[i] \notin Stale
    OBVIOUS
  <2>2. h[i] \in 1..Len(Live) /\ o[i] = Live[h[i]]
    BY <1>6 DEF Picks
  <2> QED
    BY <1>5, <1>7, <2>2
<1>11. o = Others(e)
  BY DEF o, Others
<1> QED
  BY <1>2, <1>3, <1>8, <1>9, <1>10, <1>11

\* As many are taken away as must be, and no more.
LEMMA WhatIsEvicted ==
  ASSUME NEW s \in Seq(Item), NEW b \in Nat
  PROVE  LET n == Evicted(s, Bytes(s), b)
         IN  /\ n \in 0..Len(s)
             /\ n = Len(s) \/ Bytes(s) - Bytes(SubSeq(s, 1, n)) + b <= MaxBytes
             /\ \A i \in 0..(n - 1) : ~(Bytes(s) - Bytes(SubSeq(s, 1, i)) + b <= MaxBytes)
<1> DEFINE S == {i \in 0..Len(s) : i = Len(s) \/ Bytes(s) - Bytes(SubSeq(s, 1, i)) + b <= MaxBytes}
           n == Min(S)
<1>1. S \in SUBSET Nat /\ Len(s) \in S
  OBVIOUS
<1>2. n \in S /\ \A i \in S : n <= i
  <2> HIDE DEF S
  <2> QED
    BY <1>1, MinOfNats
<1> HIDE DEF n
<1>3. n \in 0..Len(s) /\ (n = Len(s) \/ Bytes(s) - Bytes(SubSeq(s, 1, n)) + b <= MaxBytes)
  BY <1>2
<1>4. ASSUME NEW i \in 0..(n - 1) PROVE ~(Bytes(s) - Bytes(SubSeq(s, 1, i)) + b <= MaxBytes)
  <2>1. i \in 0..Len(s) /\ ~(n <= i)
    BY <1>3
  <2>2. i \notin S
    BY <1>2, <2>1
  <2> QED
    BY <2>1, <2>2
<1>5. n = Evicted(s, Bytes(s), b)
  BY DEF n, Evicted
<1> QED
  BY <1>3, <1>4, <1>5
\* What put does, in the terms of what it leaves in place.
LEMMA WhatPutDoes ==
  ASSUME items \in Seq(Item), size = Bytes(items),
         NEW e, NEW b \in Version, put(e, b)
  PROVE  \E n \in 0..Len(Others(e)) :
           /\ items' = Append(SubSeq(Others(e), n + 1, Len(Others(e))),
                              [etag |-> e, body |-> b, ts |-> now])
           /\ size' = Bytes(Others(e)) - Bytes(SubSeq(Others(e), 1, n)) + SizeOf[b]
           /\ n = Len(Others(e)) \/ size' <= MaxBytes
           /\ \A i \in 0..(n - 1) :
                ~(Bytes(Others(e)) - Bytes(SubSeq(Others(e), 1, i)) + SizeOf[b] <= MaxBytes)
<1> DEFINE o == Others(e)
           n == Evicted(o, Bytes(o), SizeOf[b])
<1>1. o \in Seq(Item) /\ Left(e) = Bytes(o)
  BY WhatOthersAre
<1>2. SizeOf[b] \in Nat
  BY CacheAssumption DEF Version
<1>3. /\ items' = Append(SubSeq(o, n + 1, Len(o)), [etag |-> e, body |-> b, ts |-> now])
      /\ size' = Bytes(o) - Bytes(SubSeq(o, 1, n)) + SizeOf[b]
  BY <1>1 DEF put
<1> HIDE DEF o
<1>4. /\ n \in 0..Len(o)
      /\ n = Len(o) \/ Bytes(o) - Bytes(SubSeq(o, 1, n)) + SizeOf[b] <= MaxBytes
      /\ \A i \in 0..(n - 1) : ~(Bytes(o) - Bytes(SubSeq(o, 1, i)) + SizeOf[b] <= MaxBytes)
  BY <1>1, <1>2, WhatIsEvicted
<1> HIDE DEF n
<1>5. \E m \in 0..Len(o) :
        /\ items' = Append(SubSeq(o, m + 1, Len(o)), [etag |-> e, body |-> b, ts |-> now])
        /\ size' = Bytes(o) - Bytes(SubSeq(o, 1, m)) + SizeOf[b]
        /\ m = Len(o) \/ size' <= MaxBytes
        /\ \A i \in 0..(m - 1) : ~(Bytes(o) - Bytes(SubSeq(o, 1, i)) + SizeOf[b] <= MaxBytes)
  BY <1>3, <1>4
<1> QED
  BY <1>5 DEF o

\* size and items agree, and the cap is one.
Capped(s, n) == n = Bytes(s) /\ (n <= MaxBytes \/ Len(s) = 1)

LEMMA PutKeeps ==
  ASSUME items \in Seq(Item), size = Bytes(items), Ordered(items, now), now \in Nat,
         Sourced(items, past), NEW e \in Version, NEW b \in Version, put(e, b),
         \E k \in Keys : e \in past[k] /\ b \in past[k] /\ e <= b
  PROVE  /\ items' \in Seq(Item) /\ size' \in Nat
         /\ Capped(items', size') /\ Ordered(items', now) /\ Sourced(items', past)
<1> DEFINE x == [etag |-> e, body |-> b, ts |-> now]
           o == Others(e)
<1>1. x \in Item /\ x.etag = e /\ x.body = b /\ x.ts = now
  BY DEF Item
<1>2. /\ o \in Seq(Item) /\ \A i \in 1..Len(o) : o[i].etag # e
      /\ \E g : Picks(g, o, items)
  BY WhatOthersAre
<1>3. PICK n \in 0..Len(o) :
        /\ items' = Append(SubSeq(o, n + 1, Len(o)), x)
        /\ size' = Bytes(o) - Bytes(SubSeq(o, 1, n)) + SizeOf[b]
        /\ n = Len(o) \/ size' <= MaxBytes
  BY WhatPutDoes
<1> HIDE DEF o, x
<1> DEFINE q == SubSeq(o, n + 1, Len(o))
<1>4. /\ q \in Seq(Item) /\ Len(q) = Len(o) - n
      /\ \A i \in 1..(Len(o) - n) : q[i] = o[n + i]
      /\ Picks([i \in 1..(Len(o) - n) |-> n + i], q, o)
  BY <1>2, SubSeqPicks
<1>5. SubSeq(o, 1, n) \in Seq(Item) /\ Bytes(o) = Bytes(SubSeq(o, 1, n)) + Bytes(q)
  BY <1>2, BytesOfParts
<1>6. items' = Append(q, x)
  BY <1>3
<1> HIDE DEF q
<1>7. /\ Bytes(q) \in Nat /\ Bytes(SubSeq(o, 1, n)) \in Nat /\ Bytes(o) \in Nat
      /\ SizeOf[b] \in Nat
  BY <1>1, <1>2, <1>4, <1>5, BytesType, WeightType
<1>8. Bytes(items') = Bytes(q) + SizeOf[b]
  BY <1>1, <1>4, <1>6, BytesOfAppend
<1>9. size' = Bytes(items') /\ size' \in Nat
  BY <1>3, <1>5, <1>7, <1>8
<1>10. n = Len(o) => Len(items') = 1
  <2>1. Len(items') = Len(q) + 1 /\ Len(o) \in Nat
    BY <1>1, <1>2, <1>4, <1>6, AppendProperties
  <2> QED
    BY <1>4, <2>1
<1>11. Ordered(q, now) /\ Sourced(q, past)
  <2>1. Ordered(o, now) /\ Sourced(o, past)
    BY <1>2, PicksKeep
  <2> QED
    BY <1>2, <1>4, <2>1, PicksKeep
<1>12. \A i \in 1..Len(q) : q[i].etag # x.etag
  <2>1. SUFFICES ASSUME NEW i \in 1..Len(q) PROVE q[i].etag # e
    BY <1>1
  <2>2. Len(o) \in Nat /\ n \in Nat
    BY <1>2
  <2>3. q[i] = o[n + i] /\ n + i \in 1..Len(o)
    BY <1>4, <2>2
  <2> QED
    BY <1>2, <2>3
<1>13. /\ Append(q, x) \in Seq(Item) /\ Ordered(Append(q, x), now) /\ Sourced(Append(q, x), past)
  <2>1. \E k \in Keys : x.etag \in past[k] /\ x.body \in past[k] /\ x.etag <= x.body
    BY <1>1
  <2>2. Ordered(q, x.ts)
    BY <1>1, <1>11
  <2> QED
    BY <1>1, <1>4, <1>11, <1>12, <2>1, <2>2, AppendKeeps
<1> QED
  BY <1>3, <1>6, <1>9, <1>10, <1>13 DEF Capped

LEMMA TouchKeeps ==
  ASSUME items \in Seq(Item), Capped(items, size), size \in Nat, Ordered(items, now), now \in Nat,
         Sourced(items, past), NEW n \in 1..Len(items), touch(n), size' = size
  PROVE  /\ items' \in Seq(Item) /\ size' \in Nat
         /\ Capped(items', size') /\ Ordered(items', now) /\ Sourced(items', past)
<1> DEFINE x == [items[n] EXCEPT !.ts = now]
           q == RemoveAt(items, n)
<1>1. /\ items[n] \in Item /\ x \in Item
      /\ x.etag = items[n].etag /\ x.body = items[n].body /\ x.ts = now
  <2>1. items[n] \in Item
    BY ElementOfSeq
  <2> QED
    BY <2>1 DEF Item
<1>2. items' = Append(q, x)
  BY DEF touch
<1>3. PICK g : q \in Seq(Item) /\ Picks(g, q, items) /\ \A i \in 1..Len(q) : g[i] # n
  BY RemoveAtPicks
<1>4. Bytes(items) = Bytes(q) + SizeOf[items[n].body]
  BY BytesOfRest
<1>5. Len(items) = Len(q) + 1
  <2>1. /\ Len(q) = Len(items) - 1 /\ Len(items) \in Nat
    BY RemoveAtPicks
  <2> QED
    BY <2>1
<1> HIDE DEF x, q
<1>6. Bytes(items') = Bytes(items)
  BY <1>1, <1>2, <1>3, <1>4, BytesOfAppend
<1>7. Len(items') = Len(items)
  BY <1>1, <1>2, <1>3, <1>5, AppendProperties
<1>8. Ordered(q, now) /\ Sourced(q, past)
  BY <1>3, PicksKeep
<1>9. \A i \in 1..Len(q) : q[i].etag # x.etag
  <2>1. SUFFICES ASSUME NEW i \in 1..Len(q) PROVE q[i].etag # items[n].etag
    BY <1>1
  <2>2. g[i] \in 1..Len(items) /\ q[i] = items[g[i]] /\ g[i] # n
    BY <1>3 DEF Picks
  <2>3. g[i] < n \/ n < g[i]
    BY <2>2
  <2> QED
    BY <2>2, <2>3 DEF Ordered
<1>10. /\ Append(q, x) \in Seq(Item) /\ Ordered(Append(q, x), now) /\ Sourced(Append(q, x), past)
  <2>1. \E k \in Keys : x.etag \in past[k] /\ x.body \in past[k] /\ x.etag <= x.body
    BY <1>1 DEF Sourced
  <2>2. Ordered(q, x.ts)
    BY <1>1, <1>8
  <2> QED
    BY <1>1, <1>3, <1>8, <1>9, <2>1, <2>2, AppendKeeps
<1> QED
  BY <1>2, <1>6, <1>7, <1>10 DEF Capped
-----------------------------------------------------------------------------
(* The inductive invariant.                                                *)

\* A version is written for one key, and a key holds its last one or none; what the
\* rows and the request know of a key has been there.
Versions ==
  /\ \A k \in Keys : past[k] \subseteq 1..clock
  /\ \A k, l \in Keys : k # l => past[k] \cap past[l] = {}
  /\ \A k \in Keys : bucket[k] # 0 => bucket[k] \in past[k] /\ \A v \in past[k] : v <= bucket[k]
  /\ \A k \in Keys : row[k] \in past[k] \cup {0}
  /\ request # Service!NoRequest => request.etag \in past[request.key]

Stored == Capped(items, size) /\ Ordered(items, now) /\ Sourced(items, past)

Inv == TypeOK /\ Versions /\ Stored

\* The request that is being handled.
LEMMA Asked ==
  ASSUME TypeOK, Versions, request # Service!NoRequest
  PROVE  request.key \in Keys /\ request.etag \in Version /\ request.etag \in past[request.key]
<1> QED
  BY DEF TypeOK, Versions

LEMMA InvInit == Init => Inv
<1> SUFFICES ASSUME Init PROVE Inv
  OBVIOUS
<1>1. TypeOK
  <2>1. items \in Seq(Item)
    BY EmptyBytes DEF Init
  <2>2. /\ past \in [Keys -> SUBSET Version]
        /\ bucket \in [Keys -> Version \cup {0}]
        /\ row \in [Keys -> Version \cup {0}]
        /\ request = Service!NoRequest /\ served = Service!NoReply
    BY DEF Init, Service!Init
  <2>3. clock \in 0..MaxClock /\ now \in 0..MaxTime /\ size \in Nat
    BY CacheAssumption DEF Init, Service!Init
  <2> QED
    BY <2>1, <2>2, <2>3 DEF TypeOK
<1>2. Versions
  BY DEF Init, Service!Init, Versions
<1>3. Stored
  <2>1. items = <<>> /\ size = 0 /\ Bytes(<<>>) = 0
    BY EmptyBytes DEF Init
  <2>2. Capped(items, size)
    BY <2>1, CacheAssumption DEF Capped
  <2>3. Len(items) = 0
    BY <2>1
  <2>4. Ordered(items, now)
    BY <2>3 DEF Ordered
  <2>5. Sourced(items, past)
    BY <2>3 DEF Sourced
  <2> QED
    BY <2>2, <2>4, <2>5 DEF Stored
<1> QED
  BY <1>1, <1>2, <1>3 DEF Inv

\* What goes on outside the handler: the cache is not touched.
LEMMA OutsideKeeps ==
  ASSUME Inv, NEW k \in Keys,
         Service!Put(k) \/ Service!Remove(k) \/ Service!Ingest(k), UNCHANGED <<cache, now>>
  PROVE  Inv'
<1> USE DEF Inv
<1>1. CASE Service!Put(k)
  <2> USE <1>1 DEF Service!Put
  <2>1. clock + 1 \in Version /\ clock \in Nat /\ clock + 1 \in 0..MaxClock
    BY CacheAssumption DEF TypeOK, Version
  <2>2. TypeOK'
    BY <2>1 DEF TypeOK, cache
  <2>3. Versions'
    <3>1. \A l \in Keys : past'[l] = IF l = k THEN past[l] \cup {clock + 1} ELSE past[l]
      BY DEF TypeOK
    <3>2. \A l \in Keys : bucket'[l] = IF l = k THEN clock + 1 ELSE bucket[l]
      BY DEF TypeOK
    <3>3. \A l \in Keys : past'[l] \subseteq 1..clock'
      BY <2>1, <3>1 DEF Versions
    <3>4. \A l, m \in Keys : l # m => past'[l] \cap past'[m] = {}
      <4>1. \A l \in Keys : clock + 1 \notin past[l]
        BY <2>1 DEF Versions
      <4> QED
        BY <3>1, <4>1 DEF Versions
    <3>5. \A l \in Keys : bucket'[l] # 0 => bucket'[l] \in past'[l] /\ \A v \in past'[l] : v <= bucket'[l]
      <4>1. \A v \in past[k] \cup {clock + 1} : v <= clock + 1
        BY <2>1 DEF Versions
      <4> QED
        BY <3>1, <3>2, <4>1 DEF Versions
    <3>6. \A l \in Keys : row'[l] \in past'[l] \cup {0}
      BY <3>1 DEF Versions
    <3>7. request' # Service!NoRequest => request'.etag \in past'[request'.key]
      BY <3>1, Asked
    <3> QED
      BY <3>3, <3>4, <3>5, <3>6, <3>7 DEF Versions
  <2>4. Stored'
    <3>1. \A l \in Keys : past[l] \subseteq past'[l]
      BY DEF TypeOK
    <3>2. Sourced(items, past')
      BY <3>1 DEF Stored, Sourced
    <3> QED
      BY <3>2 DEF Stored, cache
  <2> QED
    BY <2>2, <2>3, <2>4
<1>2. CASE Service!Remove(k)
  <2> USE <1>2 DEF Service!Remove
  <2>1. TypeOK'
    BY DEF TypeOK, cache
  <2>2. \A l \in Keys : bucket'[l] = IF l = k THEN 0 ELSE bucket[l]
    BY DEF TypeOK
  <2>3. Versions'
    BY <2>2 DEF Versions
  <2>4. Stored'
    BY DEF Stored, cache
  <2> QED
    BY <2>1, <2>3, <2>4
<1>3. CASE Service!Ingest(k)
  <2> USE DEF Service!Ingest
  <2>1. PICK v \in past[k] \cup {0} : row' = [row EXCEPT ![k] = v]
    BY <1>3
  <2>2. v \in Version \cup {0}
    BY <2>1 DEF TypeOK
  <2>3. TypeOK'
    BY <1>3, <2>1, <2>2 DEF TypeOK, cache, Service!objects
  <2>4. Versions'
    <3>1. \A l \in Keys : row'[l] = IF l = k THEN v ELSE row[l]
      BY <2>1 DEF TypeOK
    <3> QED
      BY <1>3, <2>1, <3>1 DEF Versions, Service!objects
  <2>5. Stored'
    BY <1>3 DEF Stored, cache, Service!objects
  <2> QED
    BY <2>3, <2>4, <2>5
<1> QED
  BY <1>1, <1>2, <1>3

\* The reply has the type of one.
LEMMA RespondType ==
  ASSUME request.key \in Keys, request.etag \in Version, NEW b \in Version, Respond(b)
  PROVE  /\ request' = Service!NoRequest
         /\ served' \in [state : {"sent"}, key : Keys, etag : Version, body : Version]
<1> QED
  BY DEF Respond

LEMMA InvStep == Inv /\ [Next]_vars => Inv'
<1> SUFFICES ASSUME Inv, [Next]_vars PROVE Inv'
  OBVIOUS
<1> USE DEF Inv
<1>0. items \in Seq(Item) /\ size \in Nat /\ now \in Nat
  BY CacheAssumption DEF TypeOK
<1>1. ASSUME NEW k \in Keys, Service!Put(k) \/ Service!Remove(k) \/ Service!Ingest(k),
             UNCHANGED <<cache, now>>
      PROVE  Inv'
  BY <1>1, OutsideKeeps
<1>2. ASSUME NEW k \in Keys, Ask(k) PROVE Inv'
  <2> USE <1>2 DEF Ask, Service!Ask
  <2>1. row[k] \in past[k] /\ row[k] \in Version
    BY DEF TypeOK, Versions
  <2>2. request' = [state |-> "asked", key |-> k, etag |-> row[k]]
    OBVIOUS
  <2>3. request' \in [state : {"asked"}, key : Keys, etag : Version]
    BY <2>1, <2>2
  <2>4. request'.etag = row[k] /\ request'.key = k
    BY <2>2
  <2>5. TypeOK'
    BY <2>3 DEF TypeOK, Service!objects, cache
  <2>6. Versions'
    BY <2>1, <2>4 DEF Versions, Service!objects
  <2>7. Stored'
    BY DEF Stored, Service!objects, cache
  <2> QED
    BY <2>5, <2>6, <2>7
<1>3. CASE Hit
  <2>1. request.key \in Keys /\ request.etag \in Version
    BY <1>3, Asked DEF Hit
  <2>2. PICK i \in 1..Len(items) : touch(i) /\ Respond(items[i].body)
    BY <1>0, <1>3 DEF Hit
  <2>3. items[i].body \in Version
    <3>1. items[i] \in Item
      BY <1>0, ElementOfSeq
    <3> QED
      BY <3>1 DEF Item
  <2>4. /\ items' \in Seq(Item) /\ size' \in Nat
        /\ Capped(items', size') /\ Ordered(items', now) /\ Sourced(items', past)
    BY <1>0, <1>3, <2>2, TouchKeeps DEF Hit, Stored
  <2>5. /\ request' = Service!NoRequest
        /\ served' \in [state : {"sent"}, key : Keys, etag : Version, body : Version]
    BY <2>1, <2>2, <2>3, RespondType
  <2>6. UNCHANGED <<clock, past, bucket, row, now>>
    BY <1>3 DEF Hit, world
  <2> QED
    BY <2>4, <2>5, <2>6 DEF TypeOK, Versions, Stored
<1>4. CASE Download
  <2> DEFINE b == bucket[request.key]
  <2>1. request.key \in Keys /\ request.etag \in Version /\ request.etag \in past[request.key]
    BY <1>4, Asked DEF Download
  <2>2. b \in Version /\ b \in past[request.key] /\ request.etag <= b
    BY <1>4, <2>1 DEF Download, TypeOK, Versions
  <2>3. put(request.etag, b) /\ Respond(b)
    BY <1>4 DEF Download
  <2>4. UNCHANGED <<clock, past, bucket, row, now>>
    BY <1>4 DEF Download, world
  <2> HIDE DEF b
  <2>5. /\ items' \in Seq(Item) /\ size' \in Nat
        /\ Capped(items', size') /\ Ordered(items', now) /\ Sourced(items', past)
    <3>1. size = Bytes(items) /\ Ordered(items, now) /\ Sourced(items, past)
      BY DEF Stored, Capped
    <3>2. \E k \in Keys : request.etag \in past[k] /\ b \in past[k] /\ request.etag <= b
      BY <2>1, <2>2
    <3> QED
      BY <1>0, <2>1, <2>2, <2>3, <3>1, <3>2, PutKeeps
  <2>6. /\ request' = Service!NoRequest
        /\ served' \in [state : {"sent"}, key : Keys, etag : Version, body : Version]
    BY <2>1, <2>2, <2>3, RespondType
  <2> QED
    BY <2>4, <2>5, <2>6 DEF TypeOK, Versions, Stored
<1>5. CASE DownloadFails
  BY <1>5 DEF DownloadFails, Service!Fail, Service!objects, cache, TypeOK, Versions, Stored
<1>6. CASE Tick
  <2>1. now + 1 \in 0..MaxTime /\ now \in Nat
    BY <1>0, <1>6, CacheAssumption DEF Tick
  <2>2. Ordered(items, now + 1)
    <3>1. \A i \in 1..Len(items) : items[i].ts \in Nat
      <4>1. \A i \in 1..Len(items) : items[i] \in Item
        BY <1>0, ElementOfSeq
      <4> QED
        BY <4>1 DEF Item
    <3> QED
      BY <2>1, <3>1 DEF Stored, Ordered
  <2> QED
    BY <1>6, <2>1, <2>2 DEF Tick, world, cache, TypeOK, Versions, Stored
<1>7. CASE UNCHANGED vars
  BY <1>7 DEF vars, world, cache, TypeOK, Versions, Stored
<1> QED
  BY <1>1, <1>2, <1>3, <1>4, <1>5, <1>6, <1>7 DEF Next, Outside

LEMMA Invariant == Spec => []Inv
<1> QED
  BY InvInit, InvStep, PTL DEF Spec

\* Whatever is asked, written, deleted and ingested, the state of the handler, of the
\* cache and of the world it reads is what the code takes it for.
THEOREM TypeCorrect == Spec => []TypeOK
<1>1. Inv => TypeOK
  BY DEF Inv
<1> QED
  BY <1>1, Invariant, PTL

\* The count of _IdleLRU is the bytes that it holds, after any sequence of put, get and
\* _evict_idle, and it is over max_bytes only while a single item is.
THEOREM CapKept == Spec => []CapHolds
<1>1. Inv => CapHolds
  BY DEF Inv, Stored, Capped, CapHolds
<1> QED
  BY <1>1, Invariant, PTL

-----------------------------------------------------------------------------
(* The abstract service: a reply is a version of the session's object that *)
(* is no older than the etag of the request.                               *)

LEMMA Replies ==
  ASSUME request # Service!NoRequest, UNCHANGED world,
         NEW b \in past[request.key], request.etag <= b, request.etag \in Nat, b \in Nat, Respond(b)
  PROVE  Service!Reply
<1>1. \E v \in past[request.key] :
        /\ v >= request.etag
        /\ served' = [state |-> "sent", key |-> request.key, etag |-> request.etag, body |-> v]
  BY DEF Respond
<1>2. request' = Service!NoRequest /\ UNCHANGED <<Service!objects, row>>
  BY DEF Respond, world, Service!objects
<1> QED
  BY <1>1, <1>2 DEF Service!Reply

\* The item found under the etag of the request holds bytes of the request's session.
LEMMA CachedFits ==
  ASSUME Inv, request # Service!NoRequest,
         NEW i \in 1..Len(items), Cached(i, request.key, request.etag)
  PROVE  /\ items[i].body \in past[request.key] /\ request.etag <= items[i].body
         /\ items[i].body \in Nat /\ request.etag \in Nat
<1>1. request.key \in Keys /\ request.etag \in Version /\ request.etag \in past[request.key]
  BY Asked DEF Inv
<1>2. items[i].etag = request.etag
  BY DEF Cached
<1>3. PICK k \in Keys : /\ items[i].etag \in past[k] /\ items[i].body \in past[k]
                        /\ items[i].etag <= items[i].body
  BY DEF Inv, Stored, Sourced
<1>4. k = request.key
  BY <1>1, <1>2, <1>3 DEF Inv, Versions
<1>5. past[request.key] \subseteq Version
  BY <1>1 DEF Inv, TypeOK
<1> QED
  BY <1>1, <1>2, <1>3, <1>4, <1>5 DEF Version

LEMMA StepImplements == Inv /\ [Next]_vars => [Service!Next]_Service!vars
<1> SUFFICES ASSUME Inv, [Next]_vars PROVE [Service!Next]_Service!vars
  OBVIOUS
<1>1. ASSUME NEW k \in Keys, Service!Put(k) \/ Service!Remove(k) \/ Service!Ingest(k)
      PROVE  Service!Next
  BY <1>1 DEF Service!Next
<1>2. ASSUME NEW k \in Keys, Ask(k) PROVE Service!Next
  BY <1>2 DEF Ask, Service!Next
<1>3. CASE Hit
  <2>1. PICK i \in DOMAIN items : Cached(i, request.key, request.etag) /\ Respond(items[i].body)
    BY <1>3 DEF Hit
  <2>2. i \in 1..Len(items)
    BY <2>1 DEF Inv, TypeOK
  <2>3. /\ items[i].body \in past[request.key] /\ request.etag <= items[i].body
        /\ items[i].body \in Nat /\ request.etag \in Nat
    BY <1>3, <2>1, <2>2, CachedFits DEF Hit
  <2>4. Service!Reply
    BY <1>3, <2>1, <2>3, Replies DEF Hit
  <2> QED
    BY <2>4 DEF Service!Next
<1>4. CASE Download
  <2> DEFINE b == bucket[request.key]
  <2>1. request.key \in Keys /\ request.etag \in Version /\ request.etag \in past[request.key]
    BY <1>4, Asked DEF Download, Inv
  <2>2. b \in Version /\ b \in past[request.key] /\ request.etag <= b
    BY <1>4, <2>1 DEF Download, Inv, TypeOK, Versions
  <2>3. Respond(b) /\ request # Service!NoRequest /\ UNCHANGED world
    BY <1>4 DEF Download
  <2> HIDE DEF b
  <2>4. Service!Reply
    BY <2>1, <2>2, <2>3, Replies DEF Version
  <2> QED
    BY <2>4 DEF Service!Next
<1>5. CASE DownloadFails
  BY <1>5 DEF DownloadFails, Service!Next
<1>6. CASE Tick
  BY <1>6 DEF Tick, world, Service!vars, Service!objects
<1>7. CASE UNCHANGED vars
  BY <1>7 DEF vars, world, Service!vars, Service!objects
<1> QED
  BY <1>1, <1>2, <1>3, <1>4, <1>5, <1>6, <1>7 DEF Next, Outside

\* get_transcript with its cache implements TranscriptService: no reply is older than
\* the etag it is sent under, and none has the bytes of another session, whatever is
\* rewritten, deleted or ingested between the lookup, the download and a later hit.
THEOREM CacheInvisible == Spec => Implements
<1>1. Init => Service!Init
  BY DEF Init
<1>2. Inv /\ [Next]_vars => [Service!Next]_Service!vars
  BY StepImplements
<1> QED
  BY <1>1, <1>2, Invariant, PTL DEF Spec, Implements, Service!Spec

-----------------------------------------------------------------------------
(* What is dropped.                                                        *)

\* A hit drops nothing.
LEMMA TouchDropsNone ==
  ASSUME items \in Seq(Item), NEW n \in 1..Len(items), touch(n), NEW i \in 1..Len(items)
  PROVE  ~Dropped(i)
<1> DEFINE x == [items[n] EXCEPT !.ts = now]
           q == RemoveAt(items, n)
<1>1. x.etag = items[n].etag
  <2>1. items[n] \in Item
    BY ElementOfSeq
  <2> QED
    BY <2>1 DEF Item
<1>2. items' = Append(q, x)
  BY DEF touch
<1>3. PICK g : /\ q \in Seq(Item) /\ Picks(g, q, items)
               /\ \A j \in 1..Len(items) : j # n => \E m \in 1..Len(q) : g[m] = j
  BY RemoveAtPicks
<1> HIDE DEF x, q
<1>4. /\ Len(items') = Len(q) + 1 /\ items'[Len(q) + 1] = x
      /\ \A m \in 1..Len(q) : items'[m] = q[m]
      /\ DOMAIN items' = 1..(Len(q) + 1) /\ Len(q) \in Nat
  <2>1. Len(q) \in Nat /\ DOMAIN q = 1..Len(q)
    BY <1>3
  <2> QED
    BY <1>2, <1>3, <2>1
<1>5. CASE i = n
  <2>1. Len(q) + 1 \in DOMAIN items' /\ items'[Len(q) + 1].etag = items[i].etag
    BY <1>1, <1>4, <1>5
  <2> QED
    BY <2>1 DEF Dropped
<1>6. CASE i # n
  <2>1. PICK m \in 1..Len(q) : g[m] = i
    BY <1>3, <1>6
  <2>2. items'[m] = items[i] /\ m \in DOMAIN items'
    BY <1>3, <1>4, <2>1 DEF Picks
  <2> QED
    BY <2>2 DEF Dropped
<1> QED
  BY <1>5, <1>6

\* What put drops for room is a beginning of the order, and the last of it had to go.
LEMMA PutDrops ==
  ASSUME items \in Seq(Item), size = Bytes(items), Ordered(items, now), now \in Nat,
         NEW e \in Version, NEW b \in Version, put(e, b),
         \A j \in 1..Len(items) : items[j].etag # e,
         NEW i \in 1..Len(items), Dropped(i), items[i] \notin Stale
  PROVE  /\ \A j \in 1..Len(items) : ~Dropped(j) => items[i].ts <= items[j].ts
         /\ \E j \in 1..Len(items) : /\ Dropped(j) /\ items[j] \notin Stale
                                     /\ size' + SizeOf[items[j].body] > MaxBytes
<1> DEFINE x == [etag |-> e, body |-> b, ts |-> now]
           o == Others(e)
<1>1. x \in Item /\ x.etag = e
  BY DEF Item
<1>2. PICK g : /\ o \in Seq(Item) /\ Picks(g, o, items)
               /\ \A j \in 1..Len(o) : o[j].etag # e /\ o[j] \notin Stale
               /\ \A j \in 1..Len(items) :
                    items[j].etag # e /\ items[j] \notin Stale => \E m \in 1..Len(o) : g[m] = j
  BY WhatOthersAre
<1>3. PICK n \in 0..Len(o) :
        /\ items' = Append(SubSeq(o, n + 1, Len(o)), x)
        /\ size' = Bytes(o) - Bytes(SubSeq(o, 1, n)) + SizeOf[b]
        /\ \A m \in 0..(n - 1) : ~(Bytes(o) - Bytes(SubSeq(o, 1, m)) + SizeOf[b] <= MaxBytes)
  BY WhatPutDoes
<1> HIDE DEF o, x
<1> DEFINE q == SubSeq(o, n + 1, Len(o))
<1>4. /\ q \in Seq(Item) /\ Len(q) = Len(o) - n
      /\ \A m \in 1..(Len(o) - n) : q[m] = o[n + m]
  BY <1>2, SubSeqPicks
<1>5. items' = Append(q, x)
  BY <1>3
<1> HIDE DEF q
<1>6. Len(o) \in Nat /\ n \in Nat /\ n <= Len(o)
  BY <1>2
<1>7. /\ DOMAIN items' = 1..(Len(q) + 1) /\ items'[Len(q) + 1] = x
      /\ \A m \in 1..Len(q) : items'[m] = q[m]
  <2>1. Len(q) \in Nat /\ DOMAIN q = 1..Len(q)
    BY <1>4
  <2> QED
    BY <1>1, <1>4, <1>5, <2>1
<1>8. \A m \in 1..Len(o) : g[m] \in 1..Len(items) /\ o[m] = items[g[m]]
  BY <1>2 DEF Picks
<1>9. ASSUME NEW m \in 1..Len(q)
      PROVE  n + m \in 1..Len(o) /\ items'[m] = items[g[n + m]]
  <2>1. n + m \in 1..Len(o) /\ q[m] = o[n + m]
    BY <1>4, <1>6
  <2> QED
    BY <1>7, <1>8, <2>1
<1>10. ASSUME NEW c \in 1..Len(items), NEW d \in 1..Len(items), items[c].etag = items[d].etag
       PROVE  c = d
  <2>1. c < d \/ d < c \/ c = d
    OBVIOUS
  <2> QED
    BY <1>10, <2>1 DEF Ordered
<1>11. PICK a \in 1..Len(o) : g[a] = i
  BY <1>2
<1>12. a <= n
  <2>1. SUFFICES ASSUME ~(a <= n) PROVE FALSE
    OBVIOUS
  <2>2. a - n \in 1..Len(q) /\ n + (a - n) = a
    BY <1>4, <1>6, <2>1
  <2>3. items'[a - n] = items[i]
    BY <1>9, <1>11, <2>2
  <2>4. a - n \in DOMAIN items'
    BY <1>4, <1>6, <1>7, <2>2
  <2> QED
    BY <2>3, <2>4 DEF Dropped
<1>13. ASSUME NEW j \in 1..Len(items), ~Dropped(j) PROVE items[i].ts <= items[j].ts
  <2>1. PICK m \in 1..(Len(q) + 1) : items'[m].etag = items[j].etag
    BY <1>7, <1>13 DEF Dropped
  <2>2. m # Len(q) + 1
    BY <1>1, <1>7, <2>1
  <2>3. m \in 1..Len(q)
    <3>1. Len(q) \in Nat
      BY <1>4
    <3> QED
      BY <2>2, <3>1
  <2>4. n + m \in 1..Len(o) /\ items[g[n + m]].etag = items[j].etag
    BY <1>9, <2>1, <2>3
  <2>5. g[n + m] = j
    BY <1>8, <1>10, <2>4
  <2>6. a < n + m
    BY <1>6, <1>12, <2>3
  <2>7. i < j
    BY <1>2, <1>11, <2>4, <2>5, <2>6 DEF Picks
  <2> QED
    BY <2>7 DEF Ordered
<1>14. n \in 1..Len(o) /\ n - 1 \in 0..(n - 1) /\ n - 1 \in 0..Len(o)
  BY <1>6, <1>12
<1>15. Dropped(g[n])
  <2>1. SUFFICES ASSUME NEW m \in 1..(Len(q) + 1) PROVE items'[m].etag # items[g[n]].etag
    BY <1>7 DEF Dropped
  <2>2. items[g[n]].etag # e /\ g[n] \in 1..Len(items)
    BY <1>8, <1>14
  <2>3. CASE m = Len(q) + 1
    BY <1>1, <1>7, <2>2, <2>3
  <2>4. CASE m \in 1..Len(q)
    <3>1. n + m \in 1..Len(o) /\ items'[m] = items[g[n + m]]
      BY <1>9, <2>4
    <3>2. n < n + m
      BY <1>6, <2>4
    <3>3. g[n] < g[n + m]
      BY <1>2, <1>14, <3>1, <3>2 DEF Picks
    <3>4. g[n] # g[n + m]
      BY <1>8, <1>14, <3>1, <3>3
    <3> QED
      BY <1>8, <1>10, <2>2, <3>1, <3>4
  <2>5. m \in 1..Len(q) \/ m = Len(q) + 1
    <3>1. Len(q) \in Nat
      BY <1>4
    <3> QED
      BY <3>1
  <2> QED
    BY <2>3, <2>4, <2>5
<1>16. size' + SizeOf[items[g[n]].body] > MaxBytes
  <2>1. o[n] = items[g[n]] /\ o[n] \in Item
    BY <1>2, <1>8, <1>14, ElementOfSeq
  <2>2. Bytes(SubSeq(o, 1, n)) = Bytes(SubSeq(o, 1, n - 1)) + SizeOf[o[n].body]
    BY <1>2, <1>14, BytesOfPrefix
  <2>3. ~(Bytes(o) - Bytes(SubSeq(o, 1, n - 1)) + SizeOf[b] <= MaxBytes)
    BY <1>3, <1>14
  <2>4. SubSeq(o, 1, n - 1) \in Seq(Item)
    BY <1>2, <1>14, BytesOfParts
  <2>5. /\ Bytes(o) \in Nat /\ Bytes(SubSeq(o, 1, n - 1)) \in Nat
        /\ SizeOf[o[n].body] \in Nat /\ SizeOf[b] \in Nat
    BY <1>2, <2>1, <2>4, BytesType, WeightType, CacheAssumption DEF Version
  <2>6. size' = Bytes(o) - (Bytes(SubSeq(o, 1, n - 1)) + SizeOf[o[n].body]) + SizeOf[b]
    BY <1>3, <2>2
  <2>7. size' + SizeOf[o[n].body] = Bytes(o) - Bytes(SubSeq(o, 1, n - 1)) + SizeOf[b]
    <3> DEFINE w == Bytes(o)
               p == Bytes(SubSeq(o, 1, n - 1))
               c == SizeOf[o[n].body]
               d == SizeOf[b]
    <3>1. w \in Int /\ p \in Int /\ c \in Int /\ d \in Int /\ size' = w - (p + c) + d
      BY <2>5, <2>6
    <3> HIDE DEF w, p, c, d
    <3>2. (w - (p + c) + d) + c = w - p + d
      BY <3>1
    <3>3. size' + c = w - p + d
      BY <3>1, <3>2
    <3> QED
      BY <3>3 DEF w, p, c, d
  <2>8. MaxBytes \in Nat
    BY CacheAssumption
  <2> QED
    BY <2>1, <2>3, <2>5, <2>7, <2>8
<1>17. \E j \in 1..Len(items) : /\ Dropped(j) /\ items[j] \notin Stale
                                /\ size' + SizeOf[items[j].body] > MaxBytes
  <2>1. g[n] \in 1..Len(items) /\ items[g[n]] \notin Stale
    BY <1>2, <1>8, <1>14
  <2> QED
    BY <1>15, <1>16, <2>1
<1> QED
  BY <1>13, <1>17

LEMMA UntouchedDropsNone ==
  ASSUME UNCHANGED items, NEW i \in DOMAIN items
  PROVE  ~Dropped(i)
<1> QED
  BY DEF Dropped

\* The cache gives up the least recently used entries, and no more of them than it must:
\* what put drops for room was used no later than anything it keeps, and without the
\* last of it the new entry would not have fitted; a hit drops nothing.
THEOREM LeastRecentGo == Spec => EvictsLeastRecentForRoom
<1>1. ASSUME Inv, [Next]_vars, NEW i \in Ranks, Dropped(i), items[i] \notin Stale
      PROVE  /\ \A j \in Ranks : ~Dropped(j) => items[i].ts <= items[j].ts
             /\ \E j \in Ranks : /\ Dropped(j) /\ items[j] \notin Stale
                                 /\ size' + SizeOf[items[j].body] > MaxBytes
  <2>1. items \in Seq(Item) /\ Ranks = 1..Len(items) /\ i \in DOMAIN items
    BY <1>1 DEF Inv, TypeOK, Ranks
  <2>2. ~(UNCHANGED items)
    BY <1>1, <2>1, UntouchedDropsNone
  <2>3. CASE Hit
    <3>1. PICK n \in 1..Len(items) : touch(n)
      BY <2>1, <2>3 DEF Hit
    <3> QED
      BY <1>1, <2>1, <3>1, TouchDropsNone
  <2>4. CASE Download
    <3> DEFINE b == bucket[request.key]
               e == request.etag
    <3>1. request.key \in Keys /\ e \in Version
      BY <1>1, <2>4, Asked DEF Download, Inv
    <3>2. b \in Version /\ put(e, b)
      BY <1>1, <2>4, <3>1 DEF Download, Inv, TypeOK
    <3>3. \A j \in 1..Len(items) : items[j].etag # e
      BY <2>1, <2>4 DEF Download, Missed, Cached
    <3>4. size = Bytes(items) /\ Ordered(items, now) /\ now \in Nat
      BY <1>1, CacheAssumption DEF Inv, TypeOK, Stored, Capped
    <3> HIDE DEF b, e
    <3> QED
      BY <1>1, <2>1, <3>1, <3>2, <3>3, <3>4, PutDrops
  <2>5. Hit \/ Download
    BY <1>1, <2>2 DEF Next, Outside, Ask, DownloadFails, Tick, cache, vars
  <2> QED
    BY <2>3, <2>4, <2>5
<1>2. Inv /\ [Next]_vars => [\A i \in Ranks : Dropped(i) /\ items[i] \notin Stale =>
           /\ \A j \in Ranks : ~Dropped(j) => items[i].ts <= items[j].ts
           /\ \E j \in Ranks : /\ Dropped(j) /\ items[j] \notin Stale
                               /\ size' + SizeOf[items[j].body] > MaxBytes]_vars
  BY <1>1
<1> QED
  BY <1>2, Invariant, PTL DEF Spec, EvictsLeastRecentForRoom
=============================================================================
