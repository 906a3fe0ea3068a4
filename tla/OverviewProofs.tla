---------------------------- MODULE OverviewProofs ----------------------------
(***************************************************************************)
(* The overview page, for any records, gaps, bins and widths.  What moves  *)
(* in Overview is little: an invariant that says that the page shows an    *)
(* answer, and which parts of it are there, is inductive.  The rest is     *)
(* what the page computes from that answer, so that its properties follow  *)
(* from the invariant and from lemmas about the definitions:               *)
(*   - sorting permutes the places of a sequence, and keeps one that is    *)
(*     in order as it is;                                                  *)
(*   - a sum over the records is the sum of the sums of their classes, by  *)
(*     hour and model, session, model or kind of token;                    *)
(*   - the clusters of the hours are the parts between increasing cuts, by *)
(*     induction over the hours;                                           *)
(*   - what a bar holds is a difference of the cumulative line, and the    *)
(*     bar under the mouse is a rounded quotient.                          *)
(***************************************************************************)
EXTENDS Overview, DataLemmas

-----------------------------------------------------------------------------
(* Sorting: the places of a sequence by their weights are a permutation.   *)

Place(w) == [m \in DOMAIN w |-> CHOOSE i \in DOMAIN w : Rank(w, i) = m - 1]

Before(w, i) == {j \in DOMAIN w : w[j] < w[i] \/ (w[j] = w[i] /\ j < i)}

\* The earlier of two places has the lower rank.
LEMMA RankRises ==
  ASSUME NEW n \in Nat, NEW w \in [1..n -> Int], NEW i \in 1..n, NEW j \in 1..n,
         w[j] < w[i] \/ (w[j] = w[i] /\ j < i)
  PROVE  Rank(w, j) < Rank(w, i)
<1> DEFINE A == Before(w, j)
           C == Before(w, i)
<1>1. IsFiniteSet(C)
  <2>1. C \in SUBSET (1..n) /\ IsFiniteSet(1..n)
    BY FS_Interval DEF Before
  <2> QED
    BY <2>1, FS_Subset
<1>2. A \in SUBSET C /\ j \in C /\ j \notin A
  <2>1. \A x \in 1..n : w[x] \in Int
    OBVIOUS
  <2> QED
    BY <2>1 DEF Before
<1> HIDE DEF A, C
<1>3. IsFiniteSet(A) /\ Cardinality(A) <= Cardinality(C) /\ Cardinality(A) # Cardinality(C)
  BY <1>1, <1>2, FS_Subset
<1>4. Cardinality(A) \in Nat /\ Cardinality(C) \in Nat
  BY <1>1, <1>3, FS_CardinalityType
<1>5. Cardinality(A) < Cardinality(C)
  BY <1>3, <1>4
<1> QED
  BY <1>5 DEF Rank, A, C, Before

LEMMA RankIs ==
  ASSUME NEW n \in Nat, NEW w \in [1..n -> Int], NEW i \in 1..n
  PROVE  /\ Rank(w, i) \in 0..(n - 1)
         /\ (\A a, b \in 1..n : a < b => w[a] <= w[b]) => Rank(w, i) = i - 1
<1> DEFINE C == Before(w, i)
<1>1. C \in SUBSET (1..n) /\ i \in (1..n) \ C
  BY DEF Before
<1>2. IsFiniteSet(1..n) /\ Cardinality(1..n) = n
  BY FS_Interval
<1>3. ASSUME \A a, b \in 1..n : a < b => w[a] <= w[b] PROVE C = 1..(i - 1)
  <2>1. \A x \in 1..n : w[x] \in Int
    OBVIOUS
  <2>2. ASSUME NEW x \in 1..n PROVE x \in C <=> x < i
    <3>1. CASE x < i
      <4>1. w[x] <= w[i]
        BY <1>3, <3>1
      <4> QED
        BY <2>1, <3>1, <4>1 DEF Before
    <3>2. CASE x = i
      BY <2>1, <3>2 DEF Before
    <3>3. CASE i < x
      <4>1. w[i] <= w[x]
        BY <1>3, <3>3
      <4> QED
        BY <2>1, <3>3, <4>1 DEF Before
    <3> QED
      BY <3>1, <3>2, <3>3
  <2>3. \A x \in Int : x \in 1..(i - 1) <=> x \in 1..n /\ x < i
    OBVIOUS
  <2> HIDE DEF C
  <2>4. C \subseteq Int
    BY <1>1
  <2>5. \A x \in 1..n : x \in Int
    OBVIOUS
  <2>6. \A x : x \in 1..(i - 1) => x \in Int
    OBVIOUS
  <2>7. \A x : x \in C <=> x \in 1..(i - 1)
    BY <1>1, <2>2, <2>3, <2>4, <2>5, <2>6
  <2> QED
    BY <2>7
<1>4. Cardinality(1..(i - 1)) = i - 1
  BY FS_Interval
<1> HIDE DEF C
<1>5. IsFiniteSet(C) /\ Cardinality(C) <= n /\ Cardinality(C) # n
  <2>1. IsFiniteSet(C) /\ Cardinality(C) <= Cardinality(1..n) /\ (Cardinality(1..n) = Cardinality(C) => 1..n = C)
    BY <1>1, <1>2, FS_Subset
  <2> QED
    BY <1>1, <1>2, <2>1
<1>6. Cardinality(C) \in Nat
  BY <1>5, FS_CardinalityType
<1>7. Rank(w, i) = Cardinality(C)
  BY DEF Rank, C, Before
<1> QED
  BY <1>3, <1>4, <1>5, <1>6, <1>7

LEMMA PlacesAre ==
  ASSUME NEW n \in Nat, NEW w \in [1..n -> Int]
  PROVE  /\ Place(w) \in [1..n -> 1..n]
         /\ \A a, b \in 1..n : Place(w)[a] = Place(w)[b] => a = b
         /\ \A i \in 1..n : \E a \in 1..n : Place(w)[a] = i
         /\ \A a, b \in 1..n : a < b => w[Place(w)[a]] <= w[Place(w)[b]]
         /\ (\A a, b \in 1..n : a < b => w[a] <= w[b]) => \A a \in 1..n : Place(w)[a] = a
<1> DEFINE f == [i \in 1..n |-> Rank(w, i)]
           T == 0..(n - 1)
           p == Place(w)
<1>1. \A i \in 1..n : Rank(w, i) \in T
  BY RankIs
<1>2. \A i, j \in 1..n : Rank(w, i) = Rank(w, j) => i = j
  <2> SUFFICES ASSUME NEW i \in 1..n, NEW j \in 1..n, Rank(w, i) = Rank(w, j), i # j PROVE FALSE
    OBVIOUS
  <2>1. w[i] \in Int /\ w[j] \in Int /\ i \in Int /\ j \in Int
    OBVIOUS
  <2>2. \/ w[j] < w[i] \/ (w[j] = w[i] /\ j < i)
        \/ w[i] < w[j] \/ (w[i] = w[j] /\ i < j)
    BY <2>1
  <2>3. Rank(w, i) \in Int
    BY <1>1
  <2> QED
    BY <2>2, <2>3, RankRises
<1>3. f \in Injection(1..n, T)
  <2>1. f \in [1..n -> T]
    BY <1>1
  <2> QED
    BY <1>2, <2>1 DEF Injection, IsInjective
<1>4. IsFiniteSet(T) /\ Cardinality(T) = n /\ IsFiniteSet(1..n) /\ Cardinality(1..n) = n
  BY FS_Interval
<1>5. f \in Surjection(1..n, T)
  <2> HIDE DEF T, f
  <2> QED
    BY <1>3, <1>4, FS_Injection
<1>6. \A m \in 1..n : \E i \in 1..n : Rank(w, i) = m - 1
  <2> SUFFICES ASSUME NEW m \in 1..n PROVE \E i \in 1..n : Rank(w, i) = m - 1
    OBVIOUS
  <2>1. m - 1 \in T
    OBVIOUS
  <2> QED
    BY <1>5, <2>1 DEF Surjection
<1>7. p = [m \in 1..n |-> CHOOSE i \in 1..n : Rank(w, i) = m - 1]
  BY DEF Place
<1>8. \A m \in 1..n : p[m] \in 1..n /\ Rank(w, p[m]) = m - 1
  BY <1>6, <1>7
<1>9. p \in [1..n -> 1..n]
  BY <1>7, <1>8
<1> HIDE DEF p, f, T
<1>10. \A a, b \in 1..n : p[a] = p[b] => a = b
  BY <1>8
<1>11. \A i \in 1..n : \E a \in 1..n : p[a] = i
  <2> SUFFICES ASSUME NEW i \in 1..n PROVE \E a \in 1..n : p[a] = i
    OBVIOUS
  <2> DEFINE a == Rank(w, i) + 1
  <2>1. a \in 1..n /\ Rank(w, i) = a - 1
    BY <1>1 DEF T
  <2> HIDE DEF a
  <2>2. p[a] = i
    BY <1>2, <1>8, <2>1
  <2> QED
    BY <2>1, <2>2
<1>12. \A a, b \in 1..n : a < b => w[p[a]] <= w[p[b]]
  <2> SUFFICES ASSUME NEW a \in 1..n, NEW b \in 1..n, a < b PROVE w[p[a]] <= w[p[b]]
    OBVIOUS
  <2>1. p[a] \in 1..n /\ p[b] \in 1..n /\ Rank(w, p[a]) = a - 1 /\ Rank(w, p[b]) = b - 1
    BY <1>8
  <2>2. w[p[a]] \in Int /\ w[p[b]] \in Int
    BY <2>1
  <2>3. CASE w[p[b]] < w[p[a]]
    <3>1. Rank(w, p[b]) < Rank(w, p[a])
      BY <2>1, <2>3, RankRises
    <3> QED
      BY <2>1, <3>1
  <2> QED
    BY <2>2, <2>3
<1>13. ASSUME \A a, b \in 1..n : a < b => w[a] <= w[b], NEW a \in 1..n PROVE p[a] = a
  <2>1. Rank(w, a) = a - 1
    BY <1>13, RankIs
  <2> QED
    BY <1>2, <1>8, <2>1
<1> QED
  BY <1>9, <1>10, <1>11, <1>12, <1>13 DEF p

LEMMA SortedIs ==
  ASSUME NEW n \in Nat, NEW s, DOMAIN s = 1..n, NEW w \in [1..n -> Int]
  PROVE  Sorted(s, w) = [m \in 1..n |-> s[Place(w)[m]]]
<1>1. DOMAIN w = 1..n
  OBVIOUS
<1> QED
  BY <1>1 DEF Sorted, Place

\* A sequence that is in order stays as it is.
LEMMA SortedStays ==
  ASSUME NEW X, NEW s \in Seq(X), NEW w \in [1..Len(s) -> Int],
         \A a, b \in 1..Len(s) : a < b => w[a] <= w[b]
  PROVE  Sorted(s, w) = s
<1> DEFINE n == Len(s)
<1>1. n \in Nat /\ s = [m \in 1..n |-> s[m]] /\ DOMAIN s = 1..n
  OBVIOUS
<1>2. \A m \in 1..n : Place(w)[m] = m
  BY <1>1, PlacesAre
<1>3. Sorted(s, w) = [m \in 1..n |-> s[Place(w)[m]]]
  BY <1>1, SortedIs
<1> QED
  BY <1>1, <1>2, <1>3

\* q lists the elements of S, each once.
Lists(q, S) ==
  /\ q \in [1..Cardinality(S) -> S]
  /\ \A a, b \in 1..Cardinality(S) : q[a] = q[b] => a = b
  /\ \A x \in S : \E a \in 1..Cardinality(S) : q[a] = x

LEMMA SetToSeqLists ==
  ASSUME NEW S, IsFiniteSet(S)
  PROVE  Lists(SetToSeq(S), S) /\ Cardinality(S) \in Nat
<1> DEFINE n == Cardinality(S)
<1>1. n \in Nat /\ ExistsBijection(1..n, S)
  BY FS_CardinalityType
<1>2. PICK f : f \in Bijection(1..n, S)
  BY <1>1 DEF ExistsBijection
<1>3. f \in [1..n -> S] /\ IsInjective(f)
  BY <1>2 DEF Bijection, Injection, Surjection, IsInjective
<1> DEFINE q == SetToSeq(S)
<1>4. q \in [1..n -> S] /\ IsInjective(q)
  BY <1>3 DEF SetToSeq
<1>5. IsFiniteSet(1..n) /\ Cardinality(1..n) = n
  BY <1>1, FS_Interval
<1> HIDE DEF q, n
<1>6. q \in Injection(1..n, S)
  BY <1>4 DEF Injection, IsInjective
<1>7. q \in Surjection(1..n, S)
  <2>1. Cardinality(1..n) = Cardinality(S)
    BY <1>5 DEF n
  <2> QED
    BY <1>6, <2>1, FS_Injection
<1>8. \A a, b \in 1..n : q[a] = q[b] => a = b
  BY <1>4 DEF IsInjective
<1>9. \A x \in S : \E a \in 1..n : q[a] = x
  BY <1>7 DEF Surjection
<1> QED
  BY <1>1, <1>4, <1>8, <1>9 DEF Lists, n, q

LEMMA SortedSetLists ==
  ASSUME NEW S, IsFiniteSet(S), NEW w, \A x \in S : w[x] \in Int
  PROVE  LET q == SortedSet(S, w) IN
         /\ Lists(q, S) /\ Cardinality(S) \in Nat
         /\ q \in Seq(S) /\ Len(q) = Cardinality(S) /\ DOMAIN q = 1..Cardinality(S)
         /\ \A a, b \in DOMAIN q : a < b => w[q[a]] <= w[q[b]]
<1> DEFINE n == Cardinality(S)
           s == SetToSeq(S)
           v == [i \in 1..n |-> w[s[i]]]
           q == SortedSet(S, w)
<1>1. Lists(s, S) /\ n \in Nat
  BY SetToSeqLists
<1>2. s \in [1..n -> S] /\ DOMAIN s = 1..n
  BY <1>1 DEF Lists
<1>3. v \in [1..n -> Int]
  BY <1>2
<1>4. q = Sorted(s, v)
  BY <1>2 DEF SortedSet
<1> HIDE DEF q, s, v, n
<1>5. q = [m \in 1..n |-> s[Place(v)[m]]]
  BY <1>1, <1>2, <1>3, <1>4, SortedIs
<1>6. /\ Place(v) \in [1..n -> 1..n]
      /\ \A a, b \in 1..n : Place(v)[a] = Place(v)[b] => a = b
      /\ \A i \in 1..n : \E a \in 1..n : Place(v)[a] = i
      /\ \A a, b \in 1..n : a < b => v[Place(v)[a]] <= v[Place(v)[b]]
  BY <1>1, <1>3, PlacesAre
<1>7. q \in [1..n -> S] /\ DOMAIN q = 1..n
  BY <1>2, <1>5, <1>6
<1>8. \A a, b \in 1..n : q[a] = q[b] => a = b
  <2> SUFFICES ASSUME NEW a \in 1..n, NEW b \in 1..n, q[a] = q[b] PROVE a = b
    OBVIOUS
  <2>1. Place(v)[a] \in 1..n /\ Place(v)[b] \in 1..n /\ s[Place(v)[a]] = s[Place(v)[b]]
    BY <1>5, <1>6
  <2>2. Place(v)[a] = Place(v)[b]
    BY <1>1, <2>1 DEF Lists, n
  <2> QED
    BY <1>6, <2>2
<1>9. \A x \in S : \E a \in 1..n : q[a] = x
  <2> SUFFICES ASSUME NEW x \in S PROVE \E a \in 1..n : q[a] = x
    OBVIOUS
  <2>1. PICK i \in 1..n : s[i] = x
    BY <1>1 DEF Lists, n
  <2>2. PICK a \in 1..n : Place(v)[a] = i
    BY <1>6
  <2> QED
    BY <1>5, <2>1, <2>2
<1>10. \A a, b \in 1..n : a < b => w[q[a]] <= w[q[b]]
  <2> SUFFICES ASSUME NEW a \in 1..n, NEW b \in 1..n, a < b PROVE w[q[a]] <= w[q[b]]
    OBVIOUS
  <2>1. Place(v)[a] \in 1..n /\ Place(v)[b] \in 1..n /\ v[Place(v)[a]] <= v[Place(v)[b]]
    BY <1>6
  <2>2. v[Place(v)[a]] = w[s[Place(v)[a]]] /\ v[Place(v)[b]] = w[s[Place(v)[b]]]
    BY <2>1 DEF v
  <2>3. q[a] = s[Place(v)[a]] /\ q[b] = s[Place(v)[b]]
    BY <1>5
  <2> QED
    BY <2>1, <2>2, <2>3
<1>11. q \in Seq(S) /\ Len(q) = n
  BY <1>1, <1>7
<1>12. Lists(q, S)
  BY <1>7, <1>8, <1>9 DEF Lists, n
<1> QED
  BY <1>1, <1>7, <1>10, <1>11, <1>12 DEF q, n

\* A sum over the places is one over the elements.
LEMMA SumOfList ==
  ASSUME NEW S, IsFiniteSet(S), NEW q, Lists(q, S), NEW f, \A x \in S : f[x] \in Int,
         NEW g, \A a \in 1..Cardinality(S) : g[a] = f[q[a]]
  PROVE  Sum(g, 1..Cardinality(S)) = Sum(f, S)
<1> DEFINE D == 1..Cardinality(S)
<1>1. IsFiniteSet(D)
  BY FS_CardinalityType, FS_Interval
<1>2. \A x, y \in D : q[x] = q[y] => x = y
  BY DEF Lists
<1>3. \A x \in D : q[x] \in S
  BY DEF Lists
<1>4. \A x \in D : g[x] = f[q[x]]
  OBVIOUS
<1>5. \A x \in S : \E a \in D : q[a] = x
  BY DEF Lists
<1> HIDE DEF D
<1>6. \A x \in D : g[x] \in Int /\ f[q[x]] = g[x]
  BY <1>3, <1>4
<1>7. Sum(f, {q[x] : x \in D}) = Sum(g, D)
  BY <1>1, <1>2, <1>6, SumRenamed
<1>8. {q[x] : x \in D} = S
  BY <1>3, <1>5
<1> QED
  BY <1>7, <1>8 DEF D

-----------------------------------------------------------------------------
(* The state: the page shows an answer.                                    *)

IInv == TypeOK /\ synth = backendDashToShape(synth.records)

LEMMA SynthRecords == \A R : backendDashToShape(R).records = R
BY DEF backendDashToShape

LEMMA NoAnswer == {} \in Answers
<1>1. IsFiniteSet({}) /\ Cardinality({}) = 0
  BY FS_EmptySet
<1> QED
  BY <1>1, OverviewAssumption DEF Answers

LEMMA InitIInv == Init => IInv
<1> SUFFICES ASSUME Init PROVE IInv
  OBVIOUS
<1>1. synth.records = {} /\ synth = backendDashToShape(synth.records)
  BY SynthRecords DEF Init
<1>2. TypeOK
  BY <1>1, NoAnswer DEF Init, TypeOK
<1> QED
  BY <1>1, <1>2 DEF IInv

LEMMA RenderedIInv ==
  ASSUME IInv, NEW R \in Answers, NEW m \in Names \cup {""}, Rendered(backendDashToShape(R), m)
  PROVE  IInv'
<1>1. synth' = backendDashToShape(R) /\ synth'.records = R
  BY SynthRecords DEF Rendered
<1>2. CASE synth'.events # <<>> /\ ~Throws(synth', m)
  <2>1. activeModel' = m /\ hover' = hover /\ page' = "up"
    BY <1>1, <1>2 DEF Rendered
  <2>2. Mounted'
    BY <1>2, <2>1 DEF Mounted, events
  <2> QED
    BY <1>1, <2>1, <2>2 DEF IInv, TypeOK
<1>3. CASE ~(synth'.events # <<>> /\ ~Throws(synth', m))
  <2>1. activeModel' = "" /\ hover' = NoHover /\ page' \in {"up", "gone"}
    BY <1>1, <1>3 DEF Rendered
  <2> QED
    BY <1>1, <2>1 DEF IInv, TypeOK
<1> QED
  BY <1>2, <1>3

LEMMA NextIInv == IInv /\ [Next]_vars => IInv'
<1> SUFFICES ASSUME IInv, [Next]_vars PROVE IInv'
  OBVIOUS
<1> USE DEF IInv
<1>1. CASE UNCHANGED vars
  BY <1>1 DEF vars, TypeOK, Mounted, events
<1>2. ASSUME NEW R \in Answers, Arrive(R) PROVE IInv'
  <2>1. activeModel \in Names \cup {""}
    BY DEF TypeOK
  <2> QED
    BY <1>2, <2>1, RenderedIInv DEF Arrive
<1>3. ASSUME NEW bar \in HBars, NEW i \in 1 .. Cardinality(Names \cup Kinds), Enter(bar, i) PROVE IInv'
  <2>1. hover' \in [bar : HBars, row : 1 .. Cardinality(Names \cup Kinds)]
    BY <1>3 DEF Enter
  <2>2. Mounted'
    BY <1>3 DEF Enter, Mounted, events
  <2> QED
    BY <1>3, <2>1, <2>2 DEF Enter, TypeOK
<1>4. CASE Leave
  <2>1. Mounted' <=> Mounted
    BY <1>4 DEF Leave, Mounted, events
  <2> QED
    BY <1>4, <2>1 DEF Leave, TypeOK
<1>5. ASSUME NEW m \in Names \cup {""}, SelectModel(m) PROVE IInv'
  <2>1. Rendered(backendDashToShape(synth.records), m) /\ synth.records \in Answers
    BY <1>5 DEF SelectModel, TypeOK
  <2> QED
    BY <2>1, RenderedIInv
<1>6. CASE Reload
  <2>1. synth'.records = {} /\ synth' = backendDashToShape(synth'.records)
    BY <1>6, SynthRecords DEF Reload
  <2> QED
    BY <1>6, <2>1, NoAnswer DEF Reload, TypeOK
<1> QED
  BY <1>1, <1>2, <1>3, <1>4, <1>5, <1>6 DEF Next

LEMMA Invariant == Spec => []IInv
<1> QED
  BY InitIInv, NextIInv, PTL DEF Spec

\* The page's state is one that its render functions take, whatever answers arrive and
\* wherever the mouse is (dashboard-charts.jsx 502-556).
THEOREM TypeCorrect == Spec => []TypeOK
<1>1. IInv => TypeOK
  BY DEF IInv
<1> QED
  BY <1>1, Invariant, PTL

-----------------------------------------------------------------------------
(* What the server's answer is made of.                                    *)

LEMMA RecordIs ==
  ASSUME NEW R \in Answers
  PROVE  /\ IsFiniteSet(R)
         /\ \A r \in R : /\ r.ts \in Nat /\ r.model \in DOMAIN Short /\ Short[r.model] \in Names
                         /\ r.input \in Nat /\ r.output \in Nat /\ r.cr \in Nat
                         /\ Tokens(r) = r.input + r.output + r.cr /\ Tokens(r) \in Nat
                         /\ cost_usd(r) \in Nat /\ bucket(r) \in Nat
         /\ \A m \in Names : Rates[m].input \in Nat /\ Rates[m].output \in Nat /\ Rates[m].cr \in Nat
<1>1. IsFiniteSet(R) /\ R \in SUBSET Records
  BY DEF Answers
<1>2. \A m \in Names : Rates[m].input \in Nat /\ Rates[m].output \in Nat /\ Rates[m].cr \in Nat
  <2>1. "input" \in Kinds /\ "output" \in Kinds /\ "cr" \in Kinds
    BY DEF Kinds
  <2> QED
    BY <2>1, RecordsAssumption
<1>3. ASSUME NEW r \in R
      PROVE  /\ r.ts \in Nat /\ r.model \in DOMAIN Short /\ Short[r.model] \in Names
             /\ r.input \in Nat /\ r.output \in Nat /\ r.cr \in Nat
             /\ Tokens(r) = r.input + r.output + r.cr /\ Tokens(r) \in Nat
             /\ cost_usd(r) \in Nat /\ bucket(r) \in Nat
  <2>1. "input" \in Kinds /\ "output" \in Kinds /\ "cr" \in Kinds
    BY DEF Kinds
  <2>2. /\ r.ts \in Nat /\ r.model \in DOMAIN Short
        /\ r.input \in Nat /\ r.output \in Nat /\ r.cr \in Nat
    BY <1>1, <2>1, RecordsAssumption
  <2>3. Short[r.model] \in Names
    BY <2>2 DEF Names
  <2>4. Tokens(r) = r.input + r.output + r.cr /\ Tokens(r) \in Nat
    BY <2>2 DEF Tokens
  <2>5. cost_usd(r) \in Nat
    <3> DEFINE m == Short[r.model]
    <3>1. Rates[m].input \in Nat /\ Rates[m].output \in Nat /\ Rates[m].cr \in Nat
      BY <1>2, <2>3
    <3> HIDE DEF m
    <3>2. \A a, b \in Nat : a * b \in Nat
      OBVIOUS
    <3>3. r.input * Rates[m].input \in Nat /\ r.output * Rates[m].output \in Nat /\ r.cr * Rates[m].cr \in Nat
      BY <2>2, <3>1, <3>2
    <3>4. cost_usd(r) = r.input * Rates[m].input + r.output * Rates[m].output + r.cr * Rates[m].cr
      BY DEF cost_usd, Cost, m
    <3> QED
      BY <3>3, <3>4
  <2>6. bucket(r) \in Nat
    <3> DEFINE d == r.ts \div BucketS
               e == BucketS \div 2
    <3>1. d \in Nat
      BY <2>2, OverviewAssumption, DivBounds
    <3>2. BucketS \in Nat /\ e \in Nat
      BY OverviewAssumption
    <3> HIDE DEF d, e
    <3>3. d * BucketS \in Nat
      BY <3>1, <3>2
    <3> QED
      BY <3>2, <3>3 DEF bucket, d, e
  <2> QED
    BY <2>2, <2>3, <2>4, <2>5, <2>6
<1> QED
  BY <1>1, <1>2, <1>3

Hour(R, i) == {r \in R : bucket(r) = hourly(R)[i].ts /\ r.model = hourly(R)[i].model}

\* Each record is in the row of its hour and model, and in no other.
LEMMA HourlyIs ==
  ASSUME NEW R \in Answers
  PROVE  LET q == hourly(R) IN
         /\ Len(q) \in Nat /\ DOMAIN q = 1..Len(q) /\ q \in Seq(ToSet(q))
         /\ \A i \in DOMAIN q :
              q[i] = [ts |-> q[i].ts, model |-> q[i].model,
                      input  |-> Sum([r \in R |-> r.input], Hour(R, i)),
                      output |-> Sum([r \in R |-> r.output], Hour(R, i)),
                      cr     |-> Sum([r \in R |-> r.cr], Hour(R, i)),
                      cost   |-> Sum([r \in R |-> cost_usd(r)], Hour(R, i))]
         /\ \A i \in DOMAIN q : q[i].ts \in Nat /\ q[i].model \in DOMAIN Short
         /\ \A i, j \in DOMAIN q : i < j => q[i].ts <= q[j].ts
         /\ \A r \in R : \E i \in DOMAIN q : r \in Hour(R, i)
         /\ \A i, j \in DOMAIN q : \A r \in R : r \in Hour(R, i) /\ r \in Hour(R, j) => i = j
<1> DEFINE key == [r \in R |-> <<bucket(r), r.model>>]
           of(k) == {r \in R : <<bucket(r), r.model>> = k}
           row == [k \in {key[r] : r \in R} |->
                     [ts |-> k[1], model |-> k[2],
                      input  |-> Sum([r \in R |-> r.input], of(k)),
                      output |-> Sum([r \in R |-> r.output], of(k)),
                      cr     |-> Sum([r \in R |-> r.cr], of(k)),
                      cost   |-> Sum([r \in R |-> cost_usd(r)], of(k))]]
           K == {key[r] : r \in R}
           S == {row[k] : k \in K}
           w == [e \in S |-> e.ts]
           q == hourly(R)
<1>1. /\ IsFiniteSet(R)
      /\ \A r \in R : r.model \in DOMAIN Short /\ bucket(r) \in Nat
  BY RecordIs
<1>2. K = {<<bucket(r), r.model>> : r \in R}
  OBVIOUS
<1>3. q = SortedSet(S, w)
  <2>1. S = {[ts |-> k[1], model |-> k[2],
                      input  |-> Sum([r \in R |-> r.input], of(k)),
                      output |-> Sum([r \in R |-> r.output], of(k)),
                      cr     |-> Sum([r \in R |-> r.cr], of(k)),
                      cost   |-> Sum([r \in R |-> cost_usd(r)], of(k))] : k \in {<<bucket(r), r.model>> : r \in R}}
    BY <1>2, ZenonT(40)
  <2> QED
    BY <2>1 DEF hourly
<1>4. \A r \in R : key[r] \in K /\ key[r] = <<bucket(r), r.model>>
  OBVIOUS
<1>5. \A k \in K : \E r \in R : k = <<bucket(r), r.model>>
  OBVIOUS
<1>6. \A k \in K : row[k] = [ts |-> k[1], model |-> k[2],
                      input  |-> Sum([r \in R |-> r.input], of(k)),
                      output |-> Sum([r \in R |-> r.output], of(k)),
                      cr     |-> Sum([r \in R |-> r.cr], of(k)),
                      cost   |-> Sum([r \in R |-> cost_usd(r)], of(k))]
  OBVIOUS
<1>7. IsFiniteSet(S)
  <2> HIDE DEF row, key
  <2>1. IsFiniteSet(K)
    BY <1>1, FiniteImage
  <2> HIDE DEF K
  <2> QED
    BY <2>1, FiniteImage
<1>8. \A k \in K : k = <<k[1], k[2]>> /\ k[1] \in Nat /\ k[2] \in DOMAIN Short
  BY <1>1, <1>5
<1>9. \A x \in S : \E k \in K : x = row[k]
  OBVIOUS
<1>10. \A k \in K : row[k] \in S
  OBVIOUS
<1>11. \A k \in K : row[k].ts = k[1] /\ row[k].model = k[2]
  BY <1>6
<1>12. \A x \in S : w[x] = x.ts
  OBVIOUS
<1> HIDE DEF q, w, S, K, row, key
<1>13. ASSUME NEW x \in S PROVE w[x] = x.ts /\ w[x] \in Int
  <2>1. PICK k \in K : x = row[k]
    BY <1>9
  <2>2. x.ts = k[1] /\ k[1] \in Nat
    BY <1>8, <1>11, <2>1
  <2> QED
    BY <1>12, <2>2
<1>14. /\ Lists(q, S) /\ Cardinality(S) \in Nat
       /\ q \in Seq(S) /\ Len(q) = Cardinality(S) /\ DOMAIN q = 1..Cardinality(S)
       /\ \A a, b \in DOMAIN q : a < b => w[q[a]] <= w[q[b]]
  BY <1>3, <1>7, <1>13, SortedSetLists
<1>15. \A i \in DOMAIN q : q[i] \in S
  BY <1>14 DEF Lists
<1>16. ASSUME NEW i \in DOMAIN q, NEW k \in K, q[i] = row[k]
       PROVE  Hour(R, i) = of(k) /\ k = <<q[i].ts, q[i].model>>
  <2>1. q[i].ts = k[1] /\ q[i].model = k[2]
    BY <1>11, <1>16
  <2>2. k = <<q[i].ts, q[i].model>>
    BY <1>8, <2>1
  <2>3. \A r \in R : <<bucket(r), r.model>> = k <=> bucket(r) = q[i].ts /\ r.model = q[i].model
    BY <2>2
  <2> QED
    BY <2>2, <2>3 DEF Hour, q
<1>17. ASSUME NEW i \in DOMAIN q
       PROVE  /\ q[i] = [ts |-> q[i].ts, model |-> q[i].model,
                      input  |-> Sum([r \in R |-> r.input], Hour(R, i)),
                      output |-> Sum([r \in R |-> r.output], Hour(R, i)),
                      cr     |-> Sum([r \in R |-> r.cr], Hour(R, i)),
                      cost   |-> Sum([r \in R |-> cost_usd(r)], Hour(R, i))]
              /\ q[i].ts \in Nat /\ q[i].model \in DOMAIN Short
  <2>1. PICK k \in K : q[i] = row[k]
    BY <1>9, <1>15
  <2>2. Hour(R, i) = of(k) /\ k = <<q[i].ts, q[i].model>> /\ k[1] = q[i].ts /\ k[2] = q[i].model
    BY <1>16, <2>1
  <2>3. row[k] = [ts |-> k[1], model |-> k[2],
                      input  |-> Sum([r \in R |-> r.input], of(k)),
                      output |-> Sum([r \in R |-> r.output], of(k)),
                      cr     |-> Sum([r \in R |-> r.cr], of(k)),
                      cost   |-> Sum([r \in R |-> cost_usd(r)], of(k))]
    BY <1>6
  <2>4. q[i].ts \in Nat /\ q[i].model \in DOMAIN Short
    BY <1>8, <2>2
  <2> QED
    BY <2>1, <2>2, <2>3, <2>4
<1>18. \A i, j \in DOMAIN q : i < j => q[i].ts <= q[j].ts
  BY <1>13, <1>14, <1>15
<1>19. ASSUME NEW r \in R PROVE \E i \in DOMAIN q : r \in Hour(R, i)
  <2>1. key[r] \in K /\ key[r] = <<bucket(r), r.model>>
    BY <1>4
  <2>2. PICK i \in DOMAIN q : q[i] = row[key[r]]
    BY <1>10, <1>14, <2>1 DEF Lists
  <2>3. Hour(R, i) = of(key[r])
    BY <1>16, <2>1, <2>2
  <2> QED
    BY <2>1, <2>3
<1>20. ASSUME NEW i \in DOMAIN q, NEW j \in DOMAIN q, NEW r \in R, r \in Hour(R, i), r \in Hour(R, j)
       PROVE  i = j
  <2>1. PICK k \in K : q[i] = row[k]
    BY <1>9, <1>15
  <2>2. PICK l \in K : q[j] = row[l]
    BY <1>9, <1>15
  <2>3. k = <<q[i].ts, q[i].model>> /\ l = <<q[j].ts, q[j].model>>
    BY <1>16, <2>1, <2>2
  <2>4. q[i].ts = q[j].ts /\ q[i].model = q[j].model
    BY <1>20 DEF Hour, q
  <2>5. q[i] = q[j]
    BY <2>1, <2>2, <2>3, <2>4
  <2> QED
    BY <1>14, <2>5 DEF Lists
<1>21. Len(q) \in Nat /\ DOMAIN q = 1..Len(q) /\ q \in Seq(ToSet(q))
  <2>1. q \in [1..Len(q) -> ToSet(q)]
    BY <1>14 DEF ToSet
  <2> QED
    BY <1>14, <2>1
<1> QED
  BY <1>17, <1>18, <1>19, <1>20, <1>21 DEF q

LEMMA HourIs ==
  ASSUME NEW R \in Answers, NEW i
  PROVE  IsFiniteSet(Hour(R, i)) /\ Hour(R, i) \in SUBSET R
<1>1. IsFiniteSet(R) /\ Hour(R, i) \in SUBSET R
  BY RecordIs DEF Hour
<1> QED
  BY <1>1, FS_Subset

\* What is summed hour by hour is the sum over the records.
LEMMA OverHours ==
  ASSUME NEW R \in Answers, NEW f, \A r \in R : f[r] \in Int,
         NEW g, \A i \in 1..Len(hourly(R)) : g[i] = Sum(f, Hour(R, i))
  PROVE  Sum(g, 1..Len(hourly(R))) = Sum(f, R)
<1> DEFINE q == hourly(R)
           K == 1..Len(q)
           h == [r \in R |-> CHOOSE i \in K : r \in Hour(R, i)]
<1>1. /\ Len(q) \in Nat /\ DOMAIN q = K
      /\ \A r \in R : \E i \in K : r \in Hour(R, i)
      /\ \A i, j \in K : \A r \in R : r \in Hour(R, i) /\ r \in Hour(R, j) => i = j
  BY HourlyIs
<1>2. IsFiniteSet(K) /\ IsFiniteSet(R)
  BY <1>1, FS_Interval, RecordIs
<1>3. \A r \in R : h[r] = CHOOSE i \in K : r \in Hour(R, i)
  OBVIOUS
<1>4. \A i \in K : Hour(R, i) \in SUBSET R
  BY HourIs
<1>5. \A i \in K : g[i] = Sum(f, Hour(R, i))
  OBVIOUS
<1> HIDE DEF q, K, h
<1>6. \A r \in R : h[r] \in K /\ r \in Hour(R, h[r])
  BY <1>1, <1>3
<1>7. \A i \in K : Class(R, h, i) = Hour(R, i)
  <2> SUFFICES ASSUME NEW i \in K PROVE \A r \in R : h[r] = i <=> r \in Hour(R, i)
    BY <1>4 DEF Class
  <2> QED
    BY <1>1, <1>6
<1>8. \A i \in K : g[i] = Sum(f, Class(R, h, i))
  BY <1>5, <1>7
<1>9. \A r \in R : h[r] \in K
  BY <1>6
<1>10. Sum(g, K) = Sum(f, R)
  BY <1>2, <1>8, <1>9, SumByClass
<1> QED
  BY <1>10 DEF K, q

Tok(E) == [i \in DOMAIN E |-> Tokens(E[i])]
Price(E) == [i \in DOMAIN E |-> E[i].cost]
AllTokens(R) == Sum([r \in R |-> Tokens(r)], R)
AllCost(R) == Sum([r \in R |-> cost_usd(r)], R)

\* What the events of an answer are.
EventsAre(E, R) ==
  /\ Len(E) \in Nat /\ DOMAIN E = 1..Len(E) /\ E \in Seq(ToSet(E))
  /\ \A i \in 1..Len(E) :
       /\ E[i].ts \in Nat /\ E[i].model \in Names
       /\ E[i].input \in Nat /\ E[i].output \in Nat /\ E[i].cr \in Nat /\ E[i].cost \in Nat
       /\ E[i].cost = E[i].input * Rates[E[i].model].input + E[i].output * Rates[E[i].model].output
                        + E[i].cr * Rates[E[i].model].cr
  /\ \A i, j \in 1..Len(E) : i < j => E[i].ts <= E[j].ts
  /\ Sum(Tok(E), 1..Len(E)) = AllTokens(R)
  /\ Sum(Price(E), 1..Len(E)) = AllCost(R)

LEMMA HourOf ==
  ASSUME NEW R \in Answers, NEW i, NEW m \in DOMAIN Short, \A r \in Hour(R, i) : r.model = m
  PROVE  LET H == Hour(R, i)
             a == Sum([r \in R |-> r.input], H)
             b == Sum([r \in R |-> r.output], H)
             c == Sum([r \in R |-> r.cr], H)
         IN  /\ a \in Nat /\ b \in Nat /\ c \in Nat
             /\ Sum([r \in R |-> Tokens(r)], H) = a + b + c
             /\ Sum([r \in R |-> cost_usd(r)], H) \in Nat
             /\ Sum([r \in R |-> cost_usd(r)], H)
                  = a * Rates[Short[m]].input + b * Rates[Short[m]].output + c * Rates[Short[m]].cr
<1> DEFINE H == Hour(R, i)
           fa == [r \in R |-> r.input]
           fb == [r \in R |-> r.output]
           fc == [r \in R |-> r.cr]
           ft == [r \in R |-> Tokens(r)]
           fp == [r \in R |-> cost_usd(r)]
           ab == [r \in R |-> r.input + r.output]
           x == Rates[Short[m]].input
           y == Rates[Short[m]].output
           z == Rates[Short[m]].cr
           xa == [r \in R |-> x * r.input]
           yb == [r \in R |-> y * r.output]
           zc == [r \in R |-> z * r.cr]
           xy == [r \in R |-> xa[r] + yb[r]]
<1>1. IsFiniteSet(H) /\ H \in SUBSET R
  BY HourIs
<1>2. x \in Nat /\ y \in Nat /\ z \in Nat
  <2>1. Short[m] \in Names
    BY DEF Names
  <2> QED
    BY <2>1, RecordIs
<1>3. \A r \in R : /\ r.input \in Nat /\ r.output \in Nat /\ r.cr \in Nat
                   /\ Tokens(r) = r.input + r.output + r.cr /\ cost_usd(r) \in Nat
  BY RecordIs
<1>4. \A r \in R : fa[r] = r.input /\ fb[r] = r.output /\ fc[r] = r.cr /\ ft[r] = Tokens(r)
                   /\ fp[r] = cost_usd(r) /\ ab[r] = r.input + r.output
  OBVIOUS
<1>5. \A r \in R : xa[r] = x * r.input /\ yb[r] = y * r.output /\ zc[r] = z * r.cr /\ xy[r] = xa[r] + yb[r]
  OBVIOUS
<1>6. \A r \in H : cost_usd(r) = r.input * x + r.output * y + r.cr * z
  BY <1>1 DEF cost_usd, Cost
<1> HIDE DEF H, fa, fb, fc, ft, fp, ab, x, y, z, xa, yb, zc, xy
<1>7. \A r \in H : /\ fa[r] \in Nat /\ fb[r] \in Nat /\ fc[r] \in Nat /\ ab[r] \in Int /\ fp[r] \in Nat
                   /\ ab[r] = fa[r] + fb[r] /\ ft[r] = ab[r] + fc[r]
  <2> SUFFICES ASSUME NEW r \in H
               PROVE  /\ fa[r] \in Nat /\ fb[r] \in Nat /\ fc[r] \in Nat /\ ab[r] \in Int /\ fp[r] \in Nat
                      /\ ab[r] = fa[r] + fb[r] /\ ft[r] = ab[r] + fc[r]
    OBVIOUS
  <2>1. r \in R
    BY <1>1
  <2> QED
    BY <2>1, <1>3, <1>4
<1>8. \A r \in H : /\ fa[r] \in Int /\ fb[r] \in Int /\ fc[r] \in Int
                   /\ xa[r] = x * fa[r] /\ yb[r] = y * fb[r] /\ zc[r] = z * fc[r]
                   /\ xa[r] \in Int /\ yb[r] \in Int /\ zc[r] \in Int /\ xy[r] \in Int
                   /\ xy[r] = xa[r] + yb[r] /\ fp[r] = xy[r] + zc[r]
  <2> SUFFICES ASSUME NEW r \in H
               PROVE  /\ fa[r] \in Int /\ fb[r] \in Int /\ fc[r] \in Int
                      /\ xa[r] = x * fa[r] /\ yb[r] = y * fb[r] /\ zc[r] = z * fc[r]
                      /\ xa[r] \in Int /\ yb[r] \in Int /\ zc[r] \in Int /\ xy[r] \in Int
                      /\ xy[r] = xa[r] + yb[r] /\ fp[r] = xy[r] + zc[r]
    OBVIOUS
  <2>1. r \in R
    BY <1>1
  <2>2. r.input \in Nat /\ r.output \in Nat /\ r.cr \in Nat
    BY <2>1, <1>3
  <2>3. x * r.input = r.input * x /\ y * r.output = r.output * y /\ z * r.cr = r.cr * z
    BY <1>2, <2>2
  <2>4. x * r.input \in Int /\ y * r.output \in Int /\ z * r.cr \in Int
    BY <1>2, <2>2
  <2>5. fp[r] = r.input * x + r.output * y + r.cr * z
    BY <2>1, <1>4, <1>6
  <2>6. fp[r] = xy[r] + zc[r] /\ xy[r] = xa[r] + yb[r] /\ xa[r] \in Int /\ yb[r] \in Int /\ zc[r] \in Int
    BY <2>1, <2>3, <2>4, <2>5, <1>5
  <2>7. xy[r] \in Int
    BY <2>6
  <2>8. fa[r] = r.input /\ fb[r] = r.output /\ fc[r] = r.cr /\ xa[r] = x * r.input /\ yb[r] = y * r.output /\ zc[r] = z * r.cr
    BY <2>1, <1>4, <1>5
  <2>9. fa[r] \in Int /\ fb[r] \in Int /\ fc[r] \in Int
    BY <2>2, <2>8
  <2> QED
    BY <2>6, <2>7, <2>8, <2>9
<1>9. Sum(ft, H) = Sum(fa, H) + Sum(fb, H) + Sum(fc, H)
  <2>1. \A r \in H : fa[r] \in Int /\ fb[r] \in Int /\ ab[r] = fa[r] + fb[r]
    BY <1>7
  <2>2. Sum(ab, H) = Sum(fa, H) + Sum(fb, H)
    BY <1>1, <2>1, SumPlus
  <2>3. \A r \in H : ab[r] \in Int /\ fc[r] \in Int /\ ft[r] = ab[r] + fc[r]
    BY <1>7
  <2>4. Sum(ft, H) = Sum(ab, H) + Sum(fc, H)
    BY <1>1, <2>3, SumPlus
  <2> QED
    BY <2>2, <2>4
<1>10. Sum(fa, H) \in Nat /\ Sum(fb, H) \in Nat /\ Sum(fc, H) \in Nat /\ Sum(fp, H) \in Nat
  BY <1>1, <1>7, SumNat
<1>11. Sum(fp, H) = Sum(xa, H) + Sum(yb, H) + Sum(zc, H)
  <2>1. Sum(xy, H) = Sum(xa, H) + Sum(yb, H)
    BY <1>1, <1>8, SumPlus
  <2>2. Sum(fp, H) = Sum(xy, H) + Sum(zc, H)
    BY <1>1, <1>8, SumPlus
  <2> QED
    BY <2>1, <2>2
<1>12. Sum(xa, H) = x * Sum(fa, H) /\ Sum(yb, H) = y * Sum(fb, H) /\ Sum(zc, H) = z * Sum(fc, H)
  BY <1>1, <1>2, <1>8, SumTimes
<1>13. x * Sum(fa, H) = Sum(fa, H) * x /\ y * Sum(fb, H) = Sum(fb, H) * y /\ z * Sum(fc, H) = Sum(fc, H) * z
  BY <1>2, <1>10
<1>14. Sum(fp, H) = Sum(fa, H) * x + Sum(fb, H) * y + Sum(fc, H) * z
  BY <1>11, <1>12, <1>13
<1> QED
  BY <1>9, <1>10, <1>14 DEF H, fa, fb, fc, ft, fp, x, y, z

LEMMA EventsHold ==
  ASSUME NEW R \in Answers
  PROVE  EventsAre(backendDashToShape(R).events, R)
<1> DEFINE q == hourly(R)
           n == Len(q)
           E == backendDashToShape(R).events
           fa == [r \in R |-> r.input]
           fb == [r \in R |-> r.output]
           fc == [r \in R |-> r.cr]
           ft == [r \in R |-> Tokens(r)]
           fp == [r \in R |-> cost_usd(r)]
<1>0. /\ Len(q) \in Nat /\ DOMAIN q = 1..Len(q)
      /\ \A i \in DOMAIN q : q[i] = [ts |-> q[i].ts, model |-> q[i].model,
                      input  |-> Sum(fa, Hour(R, i)),
                      output |-> Sum(fb, Hour(R, i)),
                      cr     |-> Sum(fc, Hour(R, i)),
                      cost   |-> Sum(fp, Hour(R, i))]
      /\ \A i \in DOMAIN q : q[i].ts \in Nat /\ q[i].model \in DOMAIN Short
      /\ \A i, j \in DOMAIN q : i < j => q[i].ts <= q[j].ts
  BY HourlyIs
<1>1. /\ n \in Nat /\ DOMAIN q = 1..n
      /\ \A i \in 1..n : q[i] = [ts |-> q[i].ts, model |-> q[i].model,
                      input  |-> Sum(fa, Hour(R, i)),
                      output |-> Sum(fb, Hour(R, i)),
                      cr     |-> Sum(fc, Hour(R, i)),
                      cost   |-> Sum(fp, Hour(R, i))]
      /\ \A i \in 1..n : q[i].ts \in Nat /\ q[i].model \in DOMAIN Short
      /\ \A i, j \in 1..n : i < j => q[i].ts <= q[j].ts
  <2> HIDE DEF q, fa, fb, fc, fp
  <2> QED
    BY <1>0
<1>2. E = [i \in DOMAIN q |-> [q[i] EXCEPT !.model = Short[@]]]
  BY DEF backendDashToShape
<1>3. ASSUME NEW i \in 1..n
      PROVE  LET H == Hour(R, i) m == q[i].model IN
             /\ Sum(fa, H) \in Nat /\ Sum(fb, H) \in Nat /\ Sum(fc, H) \in Nat
             /\ Sum(ft, H) = Sum(fa, H) + Sum(fb, H) + Sum(fc, H)
             /\ Sum(fp, H) \in Nat
             /\ Sum(fp, H) = Sum(fa, H) * Rates[Short[m]].input + Sum(fb, H) * Rates[Short[m]].output
                               + Sum(fc, H) * Rates[Short[m]].cr
  <2>1. q[i].model \in DOMAIN Short
    BY <1>1
  <2>2. \A r \in Hour(R, i) : r.model = q[i].model
    BY DEF Hour
  <2> HIDE DEF q
  <2> QED
    BY <2>1, <2>2, HourOf
<1>4. \A r \in R : ft[r] \in Int /\ fp[r] \in Int
  BY RecordIs
<1>5. AllTokens(R) = Sum(ft, R) /\ AllCost(R) = Sum(fp, R)
  BY DEF AllTokens, AllCost
<1> HIDE DEF fa, fb, fc, ft, fp, E, q
<1>6. DOMAIN E = 1..n /\ Len(E) = n /\ E \in Seq(ToSet(E))
  <2>1. DOMAIN E = 1..n
    BY <1>1, <1>2
  <2>2. E = [i \in 1..n |-> E[i]]
    BY <1>1, <1>2
  <2>3. E \in [1..n -> ToSet(E)]
    BY <2>1, <2>2 DEF ToSet
  <2> QED
    BY <1>1, <2>3
<1>7. ASSUME NEW i \in 1..n
      PROVE  /\ E[i].ts = q[i].ts /\ E[i].model = Short[q[i].model] /\ E[i].cost = Sum(fp, Hour(R, i))
             /\ E[i].input = Sum(fa, Hour(R, i)) /\ E[i].output = Sum(fb, Hour(R, i)) /\ E[i].cr = Sum(fc, Hour(R, i))
  <2>1. E[i] = [q[i] EXCEPT !.model = Short[@]]
    BY <1>1, <1>2
  <2>2. q[i] = [ts |-> q[i].ts, model |-> q[i].model,
                input  |-> Sum(fa, Hour(R, i)),
                output |-> Sum(fb, Hour(R, i)),
                cr     |-> Sum(fc, Hour(R, i)),
                cost   |-> Sum(fp, Hour(R, i))]
    BY <1>1
  <2> QED
    BY <2>1, <2>2
<1>8. \A i \in 1..n : Tok(E)[i] = Sum(ft, Hour(R, i)) /\ Price(E)[i] = Sum(fp, Hour(R, i))
  <2> SUFFICES ASSUME NEW i \in 1..n
               PROVE  Tok(E)[i] = Sum(ft, Hour(R, i)) /\ Price(E)[i] = Sum(fp, Hour(R, i))
    OBVIOUS
  <2>1. Tok(E)[i] = E[i].input + E[i].output + E[i].cr /\ Price(E)[i] = E[i].cost
    BY <1>6 DEF Tok, Price, Tokens
  <2> QED
    BY <2>1, <1>3, <1>7
<1>9. Sum(Tok(E), 1..n) = AllTokens(R) /\ Sum(Price(E), 1..n) = AllCost(R)
  <2>1. \A i \in 1..Len(hourly(R)) : Tok(E)[i] = Sum(ft, Hour(R, i))
    BY <1>8 DEF q
  <2>2. \A i \in 1..Len(hourly(R)) : Price(E)[i] = Sum(fp, Hour(R, i))
    BY <1>8 DEF q
  <2>3. Sum(Tok(E), 1..Len(hourly(R))) = Sum(ft, R)
    BY <1>4, <2>1, OverHours
  <2>4. Sum(Price(E), 1..Len(hourly(R))) = Sum(fp, R)
    BY <1>4, <2>2, OverHours
  <2> QED
    BY <2>3, <2>4, <1>5 DEF q
<1>10. ASSUME NEW i \in 1..n
       PROVE  /\ E[i].ts \in Nat /\ E[i].model \in Names
              /\ E[i].input \in Nat /\ E[i].output \in Nat /\ E[i].cr \in Nat /\ E[i].cost \in Nat
              /\ E[i].cost = E[i].input * Rates[E[i].model].input + E[i].output * Rates[E[i].model].output
                               + E[i].cr * Rates[E[i].model].cr
  <2>1. q[i].ts \in Nat /\ q[i].model \in DOMAIN Short
    BY <1>1
  <2>2. Short[q[i].model] \in Names
    BY <2>1 DEF Names
  <2> QED
    BY <2>1, <2>2, <1>3, <1>7
<1>11. \A i, j \in 1..n : i < j => E[i].ts <= E[j].ts
  BY <1>1, <1>7
<1> HIDE DEF n
<1> QED
  BY <1>1, <1>6, <1>9, <1>10, <1>11 DEF EventsAre, E

Of(R, s) == {r \in R : r.session = s}
\* What the server's sessions are.
ListAre(L, R) ==
  /\ Len(L) \in Nat /\ DOMAIN L = 1..Len(L) /\ L \in Seq(ToSet(L))
  /\ \A i \in 1..Len(L) : /\ L[i].start \in Nat /\ L[i].end \in Nat
                          /\ L[i].total \in Nat /\ L[i].cost \in Nat
  /\ Sum([i \in 1..Len(L) |-> L[i].total], 1..Len(L)) = AllTokens(R)
  /\ Sum([i \in 1..Len(L) |-> L[i].cost], 1..Len(L)) = AllCost(R)

LEMMA TokensOf ==
  ASSUME NEW R \in Answers, NEW H \in SUBSET R
  PROVE  LET a == Sum([r \in R |-> r.input], H)
             b == Sum([r \in R |-> r.output], H)
             c == Sum([r \in R |-> r.cr], H)
         IN  /\ a \in Nat /\ b \in Nat /\ c \in Nat
             /\ Sum([r \in R |-> Tokens(r)], H) = a + b + c
             /\ Sum([r \in R |-> cost_usd(r)], H) \in Nat
<1> DEFINE fa == [r \in R |-> r.input]
           fb == [r \in R |-> r.output]
           fc == [r \in R |-> r.cr]
           ft == [r \in R |-> Tokens(r)]
           fp == [r \in R |-> cost_usd(r)]
           ab == [r \in R |-> r.input + r.output]
<1>1. IsFiniteSet(H)
  <2>1. IsFiniteSet(R)
    BY RecordIs
  <2> QED
    BY <2>1, FS_Subset
<1>2. \A r \in R : /\ r.input \in Nat /\ r.output \in Nat /\ r.cr \in Nat
                   /\ Tokens(r) = r.input + r.output + r.cr /\ cost_usd(r) \in Nat
  BY RecordIs
<1>3. \A r \in R : fa[r] = r.input /\ fb[r] = r.output /\ fc[r] = r.cr /\ ft[r] = Tokens(r)
                   /\ fp[r] = cost_usd(r) /\ ab[r] = r.input + r.output
  OBVIOUS
<1> HIDE DEF fa, fb, fc, ft, fp, ab
<1>4. ASSUME NEW r \in H
      PROVE  /\ fa[r] \in Nat /\ fb[r] \in Nat /\ fc[r] \in Nat /\ ab[r] \in Int /\ fp[r] \in Nat
             /\ ab[r] = fa[r] + fb[r] /\ ft[r] = ab[r] + fc[r]
  <2>1. r \in R
    OBVIOUS
  <2> QED
    BY <2>1, <1>2, <1>3
<1>5. Sum(ft, H) = Sum(fa, H) + Sum(fb, H) + Sum(fc, H)
  <2>1. \A r \in H : fa[r] \in Int /\ fb[r] \in Int /\ ab[r] = fa[r] + fb[r]
    BY <1>4
  <2>2. Sum(ab, H) = Sum(fa, H) + Sum(fb, H)
    BY <1>1, <2>1, SumPlus
  <2>3. \A r \in H : ab[r] \in Int /\ fc[r] \in Int /\ ft[r] = ab[r] + fc[r]
    BY <1>4
  <2>4. Sum(ft, H) = Sum(ab, H) + Sum(fc, H)
    BY <1>1, <2>3, SumPlus
  <2> QED
    BY <2>2, <2>4
<1>6. Sum(fa, H) \in Nat /\ Sum(fb, H) \in Nat /\ Sum(fc, H) \in Nat /\ Sum(fp, H) \in Nat
  BY <1>1, <1>4, SumNat
<1> QED
  BY <1>5, <1>6 DEF fa, fb, fc, ft, fp

\* The first m of a sequence.
LEMMA SubSeqIs ==
  ASSUME NEW X, NEW q \in Seq(X), NEW m \in 0..Len(q)
  PROVE  LET p == SubSeq(q, 1, m) IN
         p \in Seq(X) /\ Len(p) = m /\ DOMAIN p = 1..m /\ \A i \in 1..m : p[i] = q[i]
OBVIOUS

\* The records of the sessions that the rows p name.
Named(R, p) == {r \in R : \E s \in ToSet(p) : s.session = r.session}

\* Each record is in the row of its session, and each session has one row; of these rows
\* the limit takes the first.
LEMMA SessionsHold ==
  ASSUME NEW R \in Answers
  PROVE  LET p == session_rows(R)
             T == Named(R, p)
         IN  /\ ListAre([i \in DOMAIN p |-> SessionRow(p[i])], T)
             /\ Len(p) \in Nat /\ DOMAIN p = 1..Len(p) /\ p \in Seq(ToSet(p))
             /\ T = R \/ Len(p) = SessionLimit
             /\ \A r \in R \ T, s \in ToSet(p) : AllCost(Of(R, r.session)) <= s.cost
<1> DEFINE sess == [r \in R |-> r.session]
           K == {sess[r] : r \in R}
           fa == [r \in R |-> r.input]
           fb == [r \in R |-> r.output]
           fc == [r \in R |-> r.cr]
           ft == [r \in R |-> Tokens(r)]
           fp == [r \in R |-> cost_usd(r)]
           times(s) == {r.ts : r \in Of(R, s)}
           row == [s \in K |-> [session |-> s, start |-> Min(times(s)), end |-> Max(times(s)),
                      input  |-> Sum(fa, Of(R, s)),
                      output |-> Sum(fb, Of(R, s)),
                      cr     |-> Sum(fc, Of(R, s)),
                      cost   |-> Sum(fp, Of(R, s))]]
           S == {row[k] : k \in K}
           w == [e \in S |-> -e.cost]
           q == SortedSet(S, w)
           m == Min({SessionLimit, Len(q)})
           p == session_rows(R)
           T == Named(R, p)
           L == [i \in DOMAIN p |-> SessionRow(p[i])]
<1>1. /\ IsFiniteSet(R)
      /\ \A r \in R : r.ts \in Nat /\ ft[r] \in Int /\ fp[r] \in Int
  BY RecordIs
<1>2. K = {r.session : r \in R} /\ \A r \in R : sess[r] = r.session /\ sess[r] \in K
  OBVIOUS
<1>3. q = SortedSet(S, w) /\ p = SubSeq(q, 1, m) /\ m = Min({SessionLimit, Len(q)}) /\ T = Named(R, p)
  <2>1. S = {[session |-> s, start |-> Min(times(s)), end |-> Max(times(s)),
                      input  |-> Sum(fa, Of(R, s)),
                      output |-> Sum(fb, Of(R, s)),
                      cr     |-> Sum(fc, Of(R, s)),
                      cost   |-> Sum(fp, Of(R, s))] : s \in {r.session : r \in R}}
    BY <1>2
  <2> QED
    BY <2>1 DEF session_rows, Of
<1>4. \A r \in R : ft[r] = Tokens(r) /\ fp[r] = cost_usd(r)
  OBVIOUS
<1>5. \A s \in K : \E r \in R : s = r.session
  OBVIOUS
<1>6. \A k \in K : row[k] = [session |-> k, start |-> Min(times(k)), end |-> Max(times(k)),
                      input  |-> Sum(fa, Of(R, k)),
                      output |-> Sum(fb, Of(R, k)),
                      cr     |-> Sum(fc, Of(R, k)),
                      cost   |-> Sum(fp, Of(R, k))]
  OBVIOUS
<1>7. ASSUME NEW k \in K
      PROVE  Sum(fa, Of(R, k)) \in Nat /\ Sum(fb, Of(R, k)) \in Nat /\ Sum(fc, Of(R, k)) \in Nat
             /\ Sum(fp, Of(R, k)) \in Nat
             /\ Sum(ft, Of(R, k)) = Sum(fa, Of(R, k)) + Sum(fb, Of(R, k)) + Sum(fc, Of(R, k))
  <2> DEFINE H == Of(R, k)
  <2>1. H \in SUBSET R
    BY DEF Of
  <2> HIDE DEF H
  <2>2. /\ Sum(fa, H) \in Nat /\ Sum(fb, H) \in Nat /\ Sum(fc, H) \in Nat
        /\ Sum(ft, H) = Sum(fa, H) + Sum(fb, H) + Sum(fc, H)
        /\ Sum(fp, H) \in Nat
    BY <2>1, TokensOf
  <2> QED
    BY <2>2 DEF H
<1>8. ASSUME NEW k \in K PROVE Min(times(k)) \in Nat /\ Max(times(k)) \in Nat
  <2> DEFINE H == Of(R, k)
             ts == [r \in H |-> r.ts]
             At == {ts[r] : r \in H}
  <2>1. H \in SUBSET R
    BY DEF Of
  <2>2. H # {}
    BY <1>5 DEF Of
  <2>3. At = times(k)
    OBVIOUS
  <2>4. At \in SUBSET Nat /\ At # {}
    BY <1>1, <2>1, <2>2
  <2>5. IsFiniteSet(At)
    <3>1. IsFiniteSet(H)
      BY <1>1, <2>1, FS_Subset
    <3> HIDE DEF H, ts
    <3> QED
      BY <3>1, FiniteImage
  <2> HIDE DEF At
  <2>6. At \in SUBSET Int
    BY <2>4
  <2>7. Max(At) \in At /\ Min(At) \in At
    BY <2>4, <2>5, <2>6, EndsOfFinite
  <2> QED
    BY <2>3, <2>4, <2>7
<1>9. IsFiniteSet(S)
  <2> HIDE DEF row, sess
  <2>1. IsFiniteSet(K)
    BY <1>1, FiniteImage
  <2> HIDE DEF K
  <2> QED
    BY <2>1, FiniteImage
<1>10. (\A x \in S : \E k \in K : x = row[k]) /\ \A k \in K : row[k] \in S
  OBVIOUS
<1>11. \A x \in S : w[x] = -x.cost
  OBVIOUS
<1>12. L = [i \in DOMAIN p |-> SessionRow(p[i])]
  OBVIOUS
<1> HIDE DEF fa, fb, fc, ft, fp, q, w, S, K, row, sess, times, L, p, m, T
<1>13. ASSUME NEW k \in K PROVE row[k].session = k /\ row[k].cost = Sum(fp, Of(R, k))
  <2>1. row[k] = [session |-> k, start |-> Min(times(k)), end |-> Max(times(k)),
                      input  |-> Sum(fa, Of(R, k)),
                      output |-> Sum(fb, Of(R, k)),
                      cr     |-> Sum(fc, Of(R, k)),
                      cost   |-> Sum(fp, Of(R, k))]
    BY <1>6
  <2> QED
    BY <2>1
<1>14. ASSUME NEW x \in S PROVE w[x] \in Int
  <2>1. PICK k \in K : x = row[k]
    BY <1>10
  <2>2. x.cost = Sum(fp, Of(R, k)) /\ Sum(fp, Of(R, k)) \in Nat
    BY <1>13, <1>7, <2>1
  <2> QED
    BY <1>11, <2>2
<1>15. /\ Lists(q, S) /\ Cardinality(S) \in Nat
       /\ q \in Seq(S) /\ Len(q) = Cardinality(S) /\ DOMAIN q = 1..Cardinality(S)
       /\ \A a, b \in DOMAIN q : a < b => w[q[a]] <= w[q[b]]
  BY <1>3, <1>9, <1>14, SortedSetLists
<1> DEFINE n == Len(q)
           D == 1..n
           C == 1..m
           h == [r \in R |-> CHOOSE i \in D : q[i].session = r.session]
<1>16. \A i \in D : \E k \in K : q[i] = row[k]
  BY <1>10, <1>15 DEF Lists
<1>17. \A i \in D : q[i].session \in K /\ q[i] = row[q[i].session]
  BY <1>13, <1>16
<1>18. \A r \in R : \E i \in D : q[i].session = r.session
  <2> SUFFICES ASSUME NEW r \in R PROVE \E i \in D : q[i].session = r.session
    OBVIOUS
  <2>1. r.session \in K
    BY <1>2
  <2>2. PICK i \in D : q[i] = row[r.session]
    BY <1>10, <1>15, <2>1 DEF Lists
  <2> QED
    BY <1>13, <2>1, <2>2
<1>19. \A i, j \in D : q[i].session = q[j].session => i = j
  <2> SUFFICES ASSUME NEW i \in D, NEW j \in D, q[i].session = q[j].session PROVE i = j
    OBVIOUS
  <2>1. q[i] = q[j]
    BY <1>17
  <2> QED
    BY <1>15, <2>1 DEF Lists
<1>20. \A r \in R : h[r] = CHOOSE i \in D : q[i].session = r.session
  OBVIOUS
<1>21. n \in Nat /\ DOMAIN q = D /\ IsFiniteSet(D)
  BY <1>15, FS_Interval
<1> HIDE DEF D, h, n
<1>22. /\ m \in Nat /\ m <= n /\ (m = n \/ m = SessionLimit)
      /\ IsFiniteSet(C) /\ C \subseteq D /\ \A i \in D : i \in C <=> i <= m
  <2>1. SessionLimit \in Int /\ n \in Int /\ SessionLimit \in Nat
    BY <1>21, OverviewAssumption
  <2>2. m = Min({SessionLimit, n})
    BY <1>3 DEF n
  <2>3. m \in {SessionLimit, n} /\ m <= n
    BY <2>1, <2>2, MinOfTwo
  <2>4. m \in Nat
    BY <1>21, <2>1, <2>3
  <2>5. IsFiniteSet(C)
    BY <2>4, FS_Interval
  <2>6. \A i \in D : i \in Int /\ 1 <= i
    BY <1>21 DEF D
  <2>7. C \subseteq D
    BY <1>21, <2>3, <2>4 DEF D
  <2> QED
    BY <2>3, <2>4, <2>5, <2>6, <2>7
<1>23. DOMAIN p = C /\ Len(p) = m /\ \A i \in C : p[i] = q[i]
  <2>1. m \in 0..Len(q)
    BY <1>22, <1>21 DEF n
  <2>2. q \in Seq(S)
    BY <1>15
  <2>3. Len(p) = m /\ DOMAIN p = 1..m /\ \A i \in 1..m : p[i] = q[i]
    BY <1>3, <2>1, <2>2, SubSeqIs
  <2> QED
    BY <2>3
<1> HIDE DEF C
<1>24. \A r \in R : h[r] \in D /\ q[h[r]].session = r.session
  BY <1>18, <1>20
<1>25. \A i \in D : Class(R, h, i) = Of(R, q[i].session)
  <2> SUFFICES ASSUME NEW i \in D PROVE \A r \in R : h[r] = i <=> r.session = q[i].session
    BY DEF Class, Of
  <2> QED
    BY <1>19, <1>24
<1>26. T \subseteq R /\ \A r \in R : r \in T <=> h[r] \in C
  <2>1. \A s : s \in ToSet(p) <=> \E i \in C : s = q[i]
    BY <1>23 DEF ToSet
  <2>2. T \subseteq R /\ \A r \in R : r \in T <=> \E s \in ToSet(p) : s.session = r.session
    BY <1>3 DEF Named
  <2>3. ASSUME NEW r \in R PROVE r \in T <=> h[r] \in C
    <3>1. ASSUME r \in T PROVE h[r] \in C
      <4>1. PICK i \in C : q[i].session = r.session
        BY <2>1, <2>2, <3>1
      <4>2. i \in D /\ h[r] \in D /\ q[h[r]].session = r.session
        BY <1>22, <1>24
      <4>3. h[r] = i
        BY <1>19, <4>1, <4>2
      <4> QED
        BY <4>1, <4>3
    <3>2. ASSUME h[r] \in C PROVE r \in T
      <4>1. q[h[r]] \in ToSet(p) /\ q[h[r]].session = r.session
        BY <1>24, <2>1, <3>2
      <4> QED
        BY <2>2, <4>1
    <3> QED
      BY <3>1, <3>2
  <2> QED
    BY <2>2, <2>3
<1>27. \A i \in C : Class(T, h, i) = Class(R, h, i)
  <2> SUFFICES ASSUME NEW i \in C PROVE \A r : r \in T /\ h[r] = i <=> r \in R /\ h[r] = i
    BY DEF Class
  <2> QED
    BY <1>26
<1>28. ASSUME NEW i \in C
       PROVE  /\ L[i].start \in Nat /\ L[i].end \in Nat /\ L[i].total \in Nat /\ L[i].cost \in Nat
              /\ L[i].total = Sum(ft, Class(T, h, i)) /\ L[i].cost = Sum(fp, Class(T, h, i))
  <2> DEFINE k == q[i].session
  <2>0. i \in D
    BY <1>22
  <2>1. k \in K /\ q[i] = row[k]
    BY <1>17, <2>0
  <2> HIDE DEF k
  <2>2. row[k] = [session |-> k, start |-> Min(times(k)), end |-> Max(times(k)),
                      input  |-> Sum(fa, Of(R, k)),
                      output |-> Sum(fb, Of(R, k)),
                      cr     |-> Sum(fc, Of(R, k)),
                      cost   |-> Sum(fp, Of(R, k))]
    BY <1>6, <2>1
  <2>3. L[i] = [start |-> q[i].start, end |-> q[i].end, cost |-> q[i].cost, total |-> q[i].input + q[i].output + q[i].cr]
    BY <1>12, <1>23 DEF SessionRow, Tokens
  <2>4. /\ L[i].start = Min(times(k)) /\ L[i].end = Max(times(k))
        /\ L[i].cost = Sum(fp, Of(R, k))
        /\ L[i].total = Sum(fa, Of(R, k)) + Sum(fb, Of(R, k)) + Sum(fc, Of(R, k))
    BY <2>1, <2>2, <2>3
  <2>5. Class(T, h, i) = Of(R, k)
    BY <1>25, <1>27, <2>0 DEF k
  <2>6. Min(times(k)) \in Nat /\ Max(times(k)) \in Nat
    BY <1>8, <2>1
  <2>7. Sum(fa, Of(R, k)) \in Nat /\ Sum(fb, Of(R, k)) \in Nat /\ Sum(fc, Of(R, k)) \in Nat
             /\ Sum(fp, Of(R, k)) \in Nat
             /\ Sum(ft, Of(R, k)) = Sum(fa, Of(R, k)) + Sum(fb, Of(R, k)) + Sum(fc, Of(R, k))
    BY <1>7, <2>1
  <2> QED
    BY <2>4, <2>5, <2>6, <2>7
<1>29. DOMAIN L = C /\ Len(L) = m /\ L \in Seq(ToSet(L)) /\ C = 1..m
  <2>1. DOMAIN L = C /\ L = [i \in C |-> L[i]]
    BY <1>12, <1>23
  <2>2. L \in [1..m -> ToSet(L)]
    BY <2>1 DEF ToSet, C
  <2> QED
    BY <1>22, <2>1, <2>2 DEF C
<1> DEFINE gt == [i \in C |-> L[i].total]
           gp == [i \in C |-> L[i].cost]
<1>30. \A i \in C : gt[i] = Sum(ft, Class(T, h, i)) /\ gp[i] = Sum(fp, Class(T, h, i))
  BY <1>28
<1>31. Sum(gt, C) = Sum(ft, T) /\ Sum(gp, C) = Sum(fp, T)
  <2> HIDE DEF gt, gp
  <2>1. (\A r \in T : h[r] \in C) /\ (\A r \in T : ft[r] \in Int) /\ (\A r \in T : fp[r] \in Int)
    BY <1>1, <1>26
  <2>2. IsFiniteSet(T) /\ IsFiniteSet(C)
    BY <1>1, <1>22, <1>26, FS_Subset
  <2>3. Sum(gt, C) = Sum(ft, T)
    BY <1>30, <2>1, <2>2, SumByClass
  <2>4. Sum(gp, C) = Sum(fp, T)
    BY <1>30, <2>1, <2>2, SumByClass
  <2> QED
    BY <2>3, <2>4
<1>32. ASSUME NEW H \in SUBSET R PROVE AllTokens(H) = Sum(ft, H) /\ AllCost(H) = Sum(fp, H)
  <2> DEFINE ht == [r \in H |-> Tokens(r)]
             hp == [r \in H |-> cost_usd(r)]
  <2>1. IsFiniteSet(H)
    BY <1>1, FS_Subset
  <2>2. \A r \in H : ht[r] \in Int /\ ht[r] = ft[r] /\ hp[r] \in Int /\ hp[r] = fp[r]
    BY <1>1, <1>4
  <2>3. AllTokens(H) = Sum(ht, H) /\ AllCost(H) = Sum(hp, H)
    BY DEF AllTokens, AllCost
  <2> HIDE DEF ht, hp
  <2>4. Sum(ht, H) = Sum(ft, H)
    BY <2>1, <2>2, SumSame
  <2>5. Sum(hp, H) = Sum(fp, H)
    BY <2>1, <2>2, SumSame
  <2> QED
    BY <2>3, <2>4, <2>5
<1>33. ListAre(L, T)
  <2>1. AllTokens(T) = Sum(ft, T) /\ AllCost(T) = Sum(fp, T)
    BY <1>32, <1>26
  <2>2. \A i \in 1..m : L[i].start \in Nat /\ L[i].end \in Nat /\ L[i].total \in Nat /\ L[i].cost \in Nat
    BY <1>28, <1>29
  <2> QED
    BY <1>22, <1>29, <1>31, <2>1, <2>2 DEF ListAre
<1>34. T = R \/ m = SessionLimit
  <2>1. CASE m = n
    <3>1. C = D
      BY <1>22, <2>1 DEF C, D
    <3> QED
      BY <1>24, <1>26, <3>1
  <2> QED
    BY <1>22, <2>1
<1>35. Len(p) \in Nat /\ DOMAIN p = 1..Len(p) /\ p \in Seq(ToSet(p))
  <2>1. p \in Seq(S)
    <3>1. m \in 0..Len(q) /\ q \in Seq(S)
      BY <1>22, <1>15, <1>21 DEF n
    <3> QED
      BY <1>3, <3>1, SubSeqIs
  <2>2. p \in [1..m -> ToSet(p)]
    BY <1>23, <1>29, <2>1 DEF ToSet
  <2> QED
    BY <1>22, <1>23, <1>29, <2>2
<1>36. ASSUME NEW r \in R \ T, NEW s \in ToSet(p) PROVE AllCost(Of(R, r.session)) <= s.cost
  <2> DEFINE j == h[r]
  <2>1. PICK i \in C : s = q[i]
    BY <1>23 DEF ToSet
  <2>2. i \in D /\ j \in D /\ j \notin C /\ q[j].session = r.session
    BY <1>22, <1>24, <1>26
  <2> HIDE DEF j
  <2>3. i < j
    BY <1>22, <1>21, <2>1, <2>2 DEF D
  <2>4. w[q[i]] <= w[q[j]] /\ q[i] \in S /\ q[j] \in S
    BY <1>15, <1>21, <2>2, <2>3 DEF Lists
  <2>5. w[q[i]] = -q[i].cost /\ w[q[j]] = -q[j].cost
    BY <1>11, <2>4
  <2> DEFINE k == q[j].session
             l == q[i].session
  <2>6. k \in K /\ q[j] = row[k] /\ l \in K /\ q[i] = row[l]
    BY <1>17, <2>2
  <2> HIDE DEF k, l
  <2>7. q[j].cost = Sum(fp, Of(R, k)) /\ Sum(fp, Of(R, k)) \in Nat
    BY <1>13, <1>7, <2>6
  <2>8. q[i].cost \in Nat
    BY <1>13, <1>7, <2>6
  <2>9. q[j].cost <= q[i].cost
    BY <2>4, <2>5, <2>7, <2>8
  <2>10. AllCost(Of(R, k)) = Sum(fp, Of(R, k))
    BY <1>32 DEF Of
  <2> QED
    BY <2>1, <2>2, <2>7, <2>9, <2>10 DEF k
<1> QED
  BY <1>23, <1>33, <1>34, <1>35, <1>36 DEF p, L, T

-----------------------------------------------------------------------------
(* computeSessions.                                                        *)

\* k is the function that computeSessions defines, for the first n events of s.
Clusters(k, n, s) ==
  k = [i \in 0..n |-> IF i = 0 THEN <<>> ELSE Clustered(k[i - 1], s[i])]

LEMMA ClustersExist ==
  ASSUME NEW N \in Nat, NEW s
  PROVE  \E k : Clusters(k, N, s)
<1> DEFINE G == {n \in 0..N : \E k : Clusters(k, n, s)}
<1>1. 0 \in G
  <2> DEFINE k == [i \in 0..0 |-> <<>>]
  <2>1. Clusters(k, 0, s)
    BY DEF Clusters
  <2> QED
    BY <2>1
<1>2. ASSUME NEW n \in 0..(N - 1), n \in G
      PROVE  n + 1 \in G
  <2>1. PICK g : Clusters(g, n, s)
    BY <1>2
  <2> DEFINE e == Clustered(g[n], s[n + 1])
             h == [i \in 0..(n + 1) |-> IF i = n + 1 THEN e ELSE g[i]]
  <2>g. \A i \in 0..n : g[i] = IF i = 0 THEN <<>> ELSE Clustered(g[i - 1], s[i])
    BY <2>1 DEF Clusters
  <2>2. ASSUME NEW i \in 0..(n + 1)
        PROVE  h[i] = IF i = 0 THEN <<>> ELSE Clustered(h[i - 1], s[i])
    <3>1. CASE i = n + 1
      <4>1. h[i] = e /\ i # 0 /\ h[i - 1] = g[n]
        BY <3>1
      <4> QED
        BY <3>1, <4>1
    <3>2. CASE i = 0
      BY <3>2, <2>g
    <3>3. CASE i # n + 1 /\ i # 0
      <4>1. i \in 0..n /\ i - 1 \in 0..n
        BY <3>3
      <4>2. h[i] = g[i] /\ h[i - 1] = g[i - 1]
        BY <3>3, <4>1
      <4> QED
        BY <3>3, <4>1, <4>2, <2>g
    <3> QED
      BY <3>1, <3>2, <3>3
  <2>3. Clusters(h, n + 1, s)
    <3>1. h = [i \in 0..(n + 1) |-> h[i]]
      OBVIOUS
    <3> HIDE DEF h
    <3> QED
      BY <2>2, <3>1 DEF Clusters
  <2> QED
    BY <2>3
<1> HIDE DEF G
<1>3. N \in G
  BY <1>1, <1>2, CountingUp
<1> QED
  BY <1>3 DEF G

\* A part of a sequence, and the element behind it.
LEMMA SubSeqGrows ==
  ASSUME NEW X, NEW s \in Seq(X), NEW n \in 1..(Len(s) - 1), NEW a \in 1..n
  PROVE  Append(SubSeq(s, a, n), s[n + 1]) = SubSeq(s, a, n + 1)
<1> DEFINE z == SubSeq(s, a, n)
           q == SubSeq(s, a, n + 1)
           k == n - a + 1
<1>1. k \in Nat /\ z \in Seq(X) /\ Len(z) = k /\ s[n + 1] \in X
  OBVIOUS
<1>2. \A i \in 1..k : z[i] = s[a + i - 1]
  OBVIOUS
<1>3. q \in Seq(X) /\ Len(q) = k + 1
  OBVIOUS
<1>4. \A i \in 1..(k + 1) : q[i] = s[a + i - 1]
  OBVIOUS
<1>5. a + (k + 1) - 1 = n + 1
  OBVIOUS
<1> DEFINE p == Append(z, s[n + 1])
<1> HIDE DEF z, q, k
<1>6. p \in Seq(X) /\ Len(p) = k + 1 /\ p[k + 1] = s[n + 1] /\ \A i \in 1..k : p[i] = z[i]
  BY <1>1
<1>7. \A i \in 1..(k + 1) : p[i] = q[i]
  <2> SUFFICES ASSUME NEW i \in 1..(k + 1) PROVE p[i] = q[i]
    OBVIOUS
  <2>1. CASE i = k + 1
    <3>1. q[k + 1] = s[a + (k + 1) - 1]
      BY <1>1, <1>4
    <3> QED BY <1>5, <1>6, <2>1, <3>1
  <2>2. CASE i \in 1..k
    BY <1>2, <1>4, <1>6, <2>2
  <2> QED BY <1>1, <2>1, <2>2
<1> HIDE DEF p
<1>8. p = [i \in 1..(k + 1) |-> p[i]] /\ q = [i \in 1..(k + 1) |-> q[i]]
  BY <1>3, <1>6
<1>9. p = q
  BY <1>7, <1>8
<1> QED
  BY <1>9 DEF p, q, z

\* The sessions cs of the first n events of s end at the places that cut tells.
CutAt(cs, cut, n, s) ==
  /\ Len(cs) \in Nat /\ DOMAIN cs = 1..Len(cs) /\ cs \in Seq(ToSet(cs))
  /\ cut \in [0..Len(cs) -> 0..n]
  /\ cut[0] = 0 /\ cut[Len(cs)] = n
  /\ \A i \in 1..Len(cs) :
       /\ cut[i - 1] < cut[i]
       /\ cs[i] = [start |-> s[cut[i - 1] + 1].ts, end |-> s[cut[i]].ts,
                   events |-> SubSeq(s, cut[i - 1] + 1, cut[i])]
       /\ \A j \in (cut[i - 1] + 2)..cut[i] : s[j].ts - s[j - 1].ts <= SessionGap
       /\ i > 1 => s[cut[i - 1] + 1].ts - s[cut[i - 1]].ts > SessionGap

LEMMA ClusteredCuts ==
  ASSUME NEW s, s \in Seq(ToSet(s)), NEW n \in 0..(Len(s) - 1),
         \A i \in 1..Len(s) : s[i].ts \in Nat,
         NEW cs, NEW cut, CutAt(cs, cut, n, s)
  PROVE  \E new : CutAt(Clustered(cs, s[n + 1]), new, n + 1, s)
<1> DEFINE L == Len(cs)
           e == s[n + 1]
           ds == Clustered(cs, e)
<1>1. Len(s) \in Nat /\ n \in Nat /\ n + 1 \in 1..Len(s)
  OBVIOUS
<1>2. L = Len(cs)
  OBVIOUS
<1> HIDE DEF L
<1>3. L \in Nat /\ DOMAIN cs = 1..L /\ cs \in Seq(ToSet(cs)) /\ cut \in [0..L -> 0..n] /\ cut[0] = 0 /\ cut[L] = n
  BY <1>2 DEF CutAt
<1>4. \A i \in 1..L : /\ cut[i - 1] < cut[i]
                      /\ cs[i] = [start |-> s[cut[i - 1] + 1].ts, end |-> s[cut[i]].ts,
                                  events |-> SubSeq(s, cut[i - 1] + 1, cut[i])]
                      /\ \A j \in (cut[i - 1] + 2)..cut[i] : s[j].ts - s[j - 1].ts <= SessionGap
                      /\ i > 1 => s[cut[i - 1] + 1].ts - s[cut[i - 1]].ts > SessionGap
  BY <1>2 DEF CutAt
<1>5. SubSeq(s, n + 1, n + 1) = <<e>>
  <2> DEFINE q == SubSeq(s, n + 1, n + 1)
  <2>1. q \in Seq(ToSet(s)) /\ Len(q) = 1 /\ q[1] = e
    BY <1>1
  <2> HIDE DEF q
  <2>2. q = [i \in 1..1 |-> q[i]]
    BY <2>1
  <2>3. <<e>> = [i \in 1..1 |-> e]
    OBVIOUS
  <2>4. \A i \in 1..1 : q[i] = e
    BY <2>1
  <2>5. q = <<e>>
    BY <2>2, <2>3, <2>4
  <2> QED
    BY <2>5 DEF q
<1>6. ASSUME NEW a \in 1..n PROVE Append(SubSeq(s, a, n), e) = SubSeq(s, a, n + 1)
  <2>1. s \in Seq(ToSet(s)) /\ n \in 1..(Len(s) - 1)
    BY <1>1, <1>6
  <2> QED
    BY <2>1, SubSeqGrows
<1>7. ASSUME L = 0 \/ e.ts - cs[L].end > SessionGap, L # 0 => n # 0
      PROVE  \E new : CutAt(ds, new, n + 1, s)
  <2> DEFINE new == [i \in 0..(L + 1) |-> IF i = L + 1 THEN n + 1 ELSE cut[i]]
             c == [start |-> e.ts, end |-> e.ts, events |-> <<e>>]
  <2>1. ds = Append(cs, c)
    BY <1>2, <1>3, <1>7 DEF Clustered, Last
  <2>2. Len(ds) = L + 1 /\ DOMAIN ds = 1..(L + 1) /\ ds[L + 1] = c /\ \A i \in 1..L : ds[i] = cs[i]
    BY <1>2, <1>3, <2>1
  <2>3. ds \in Seq(ToSet(ds))
    <3>1. ds = [i \in 1..(L + 1) |-> ds[i]]
      BY <1>2, <1>3, <2>1
    <3>2. ds \in [1..(L + 1) -> ToSet(ds)]
      BY <2>2, <3>1 DEF ToSet
    <3> QED
      BY <1>3, <3>2
  <2>4. new \in [0..(L + 1) -> 0..(n + 1)] /\ new[0] = 0 /\ new[L + 1] = n + 1
        /\ \A i \in 0..L : new[i] = cut[i] /\ cut[i] \in Nat
    BY <1>1, <1>3
  <2> HIDE DEF new, ds
  <2>5. ASSUME NEW i \in 1..(L + 1)
        PROVE  /\ new[i - 1] < new[i]
               /\ ds[i] = [start |-> s[new[i - 1] + 1].ts, end |-> s[new[i]].ts,
                           events |-> SubSeq(s, new[i - 1] + 1, new[i])]
               /\ \A j \in (new[i - 1] + 2)..new[i] : s[j].ts - s[j - 1].ts <= SessionGap
               /\ i > 1 => s[new[i - 1] + 1].ts - s[new[i - 1]].ts > SessionGap
    <3>1. CASE i = L + 1
      <4>1. new[i - 1] = n /\ new[i] = n + 1 /\ ds[i] = c
        BY <3>1, <1>3, <2>2, <2>4
      <4>2. i > 1 => L \in 1..L /\ L # 0
        BY <1>3, <3>1
      <4>3. ASSUME i > 1 PROVE e.ts - s[n].ts > SessionGap
        <5>0. cs[L] = [start |-> s[cut[L - 1] + 1].ts, end |-> s[cut[L]].ts,
                       events |-> SubSeq(s, cut[L - 1] + 1, cut[L])]
          BY <1>4, <4>2, <4>3
        <5>1. cs[L].end = s[cut[L]].ts
          BY <5>0
        <5> QED
          BY <1>3, <1>7, <4>2, <4>3, <5>1
      <4>4. \A j \in (n + 2)..(n + 1) : FALSE
        BY <1>1
      <4> QED
        BY <1>1, <1>5, <4>1, <4>3, <4>4
    <3>2. CASE i # L + 1
      <4>1. i \in 1..L /\ i - 1 \in 0..L /\ i \in 0..L
        BY <1>3, <3>2
      <4>2. new[i - 1] = cut[i - 1] /\ new[i] = cut[i] /\ ds[i] = cs[i]
        BY <2>2, <2>4, <4>1
      <4> QED
        BY <1>4, <4>1, <4>2
    <3> QED
      BY <3>1, <3>2
  <2>6. CutAt(ds, new, n + 1, s)
    <3> DEFINE K == L + 1
    <3>1. /\ K \in Nat /\ Len(ds) = K /\ DOMAIN ds = 1..K
          /\ new \in [0..K -> 0..(n + 1)] /\ new[0] = 0 /\ new[K] = n + 1
      BY <1>3, <2>2, <2>4
    <3>2. \A i \in 1..K :
            /\ new[i - 1] < new[i]
            /\ ds[i] = [start |-> s[new[i - 1] + 1].ts, end |-> s[new[i]].ts,
                        events |-> SubSeq(s, new[i - 1] + 1, new[i])]
            /\ \A j \in (new[i - 1] + 2)..new[i] : s[j].ts - s[j - 1].ts <= SessionGap
            /\ i > 1 => s[new[i - 1] + 1].ts - s[new[i - 1]].ts > SessionGap
      BY <2>5
    <3> HIDE DEF K
    <3> QED
      BY <2>3, <3>1, <3>2 DEF CutAt
  <2> QED
    BY <2>6
<1>8. ASSUME L # 0, ~(e.ts - cs[L].end > SessionGap)
      PROVE  \E new : CutAt(ds, new, n + 1, s)
  <2> DEFINE new == [i \in 0..L |-> IF i = L THEN n + 1 ELSE cut[i]]
             c == [start |-> cs[L].start, end |-> e.ts, events |-> Append(cs[L].events, e)]
  <2>0. L \in 1..L /\ L - 1 \in 0..L /\ L - 1 # L
    BY <1>3, <1>8
  <2>1. ds = [cs EXCEPT ![L] = c]
    <3>1. cs # <<>>
      BY <1>2, <1>8
    <3> QED
      BY <1>2, <1>3, <1>8, <3>1 DEF Clustered, Last
  <2>2. DOMAIN ds = 1..L /\ ds[L] = c /\ \A i \in 1..L : i # L => ds[i] = cs[i]
    BY <1>3, <2>0, <2>1
  <2>3. ds \in Seq(ToSet(ds)) /\ Len(ds) = L
    <3>1. ds = [i \in 1..L |-> ds[i]]
      BY <1>2, <1>3, <2>1
    <3> HIDE DEF ds
    <3>2. ds \in [1..L -> ToSet(ds)]
      BY <2>2, <3>1 DEF ToSet
    <3> QED
      BY <1>3, <3>2
  <2>4. new \in [0..L -> 0..(n + 1)] /\ new[0] = 0 /\ new[L] = n + 1
        /\ \A i \in 0..L : cut[i] \in 0..n /\ (i # L => new[i] = cut[i])
    BY <1>1, <1>3, <1>8
  <2>5. cut[L - 1] \in 0..n /\ cut[L - 1] < n /\ new[L - 1] = cut[L - 1]
    BY <1>3, <1>4, <2>0, <2>4
  <2>6. cs[L] = [start |-> s[cut[L - 1] + 1].ts, end |-> s[n].ts, events |-> SubSeq(s, cut[L - 1] + 1, n)]
    BY <1>3, <1>4, <2>0
  <2>7. c = [start |-> s[new[L - 1] + 1].ts, end |-> s[n + 1].ts, events |-> SubSeq(s, new[L - 1] + 1, n + 1)]
    <3>1. cut[L - 1] + 1 \in 1..n
      BY <1>1, <2>5
    <3>2. Append(SubSeq(s, cut[L - 1] + 1, n), e) = SubSeq(s, cut[L - 1] + 1, n + 1)
      BY <1>6, <3>1
    <3>3. cs[L].start = s[cut[L - 1] + 1].ts /\ cs[L].events = SubSeq(s, cut[L - 1] + 1, n)
      <4> DEFINE x == s[cut[L - 1] + 1].ts
                 y == s[n].ts
                 z == SubSeq(s, cut[L - 1] + 1, n)
                 d == cs[L]
      <4>1. d = [start |-> x, end |-> y, events |-> z]
        BY <2>6
      <4> HIDE DEF x, y, z, d
      <4>2. d.start = x /\ d.events = z
        BY <4>1
      <4> QED
        BY <4>2 DEF x, y, z, d
    <3> QED
      BY <2>5, <3>2, <3>3
  <2>8. e.ts - s[n].ts <= SessionGap
    <3>1. n \in 1..Len(s)
      BY <1>1, <2>5
    <3>2. e.ts \in Nat /\ s[n].ts \in Nat /\ SessionGap \in Nat
      BY <1>1, <3>1, OverviewAssumption
    <3> QED
      BY <1>8, <2>6, <3>2
  <2>9. ASSUME NEW j \in (new[L - 1] + 2)..(n + 1) PROVE s[j].ts - s[j - 1].ts <= SessionGap
    <3>1. CASE j = n + 1
      BY <1>1, <2>8, <3>1
    <3>2. CASE j # n + 1
      <4>1. j \in (cut[L - 1] + 2)..cut[L]
        BY <1>1, <1>3, <2>5, <3>2
      <4> QED
        BY <1>4, <2>0, <4>1
    <3> QED
      BY <3>1, <3>2
  <2> HIDE DEF new, ds, c
  <2>10. ASSUME NEW i \in 1..L
        PROVE  /\ new[i - 1] < new[i]
               /\ ds[i] = [start |-> s[new[i - 1] + 1].ts, end |-> s[new[i]].ts,
                           events |-> SubSeq(s, new[i - 1] + 1, new[i])]
               /\ \A j \in (new[i - 1] + 2)..new[i] : s[j].ts - s[j - 1].ts <= SessionGap
               /\ i > 1 => s[new[i - 1] + 1].ts - s[new[i - 1]].ts > SessionGap
    <3>1. CASE i = L
      <4>1. new[i] = n + 1 /\ ds[i] = c /\ new[i - 1] < n + 1
        BY <1>1, <3>1, <2>2, <2>4, <2>5
      <4>2. i > 1 => s[new[i - 1] + 1].ts - s[new[i - 1]].ts > SessionGap
        BY <1>4, <2>0, <2>5, <3>1
      <4> QED
        BY <2>7, <2>9, <3>1, <4>1, <4>2
    <3>2. CASE i # L
      <4>1. i - 1 \in 0..L /\ i \in 0..L /\ i - 1 # L
        BY <1>3, <3>2
      <4>2. new[i - 1] = cut[i - 1] /\ new[i] = cut[i] /\ ds[i] = cs[i]
        BY <2>2, <2>4, <3>2, <4>1
      <4> QED
        BY <1>4, <4>1, <4>2
    <3> QED
      BY <3>1, <3>2
  <2>11. CutAt(ds, new, n + 1, s)
    BY <1>3, <2>2, <2>3, <2>4, <2>10 DEF CutAt
  <2> QED
    BY <2>11
<1>9. L # 0 => n # 0
  <2> SUFFICES ASSUME L # 0 PROVE n # 0
    OBVIOUS
  <2>1. L \in 1..L /\ L - 1 \in 0..L
    BY <1>3
  <2>2. cut[L - 1] \in 0..n /\ cut[L - 1] < cut[L]
    BY <1>3, <1>4, <2>1
  <2> QED
    BY <1>3, <2>2
<1> QED
  BY <1>7, <1>8, <1>9

LEMMA InOrder == ASSUME NEW R, EventsAre(events, R) PROVE inTime = events
<1> DEFINE w == [i \in DOMAIN events |-> events[i].ts]
<1>1. /\ events \in Seq(ToSet(events)) /\ DOMAIN events = 1..Len(events)
      /\ \A i \in 1..Len(events) : events[i].ts \in Nat
      /\ \A a, b \in 1..Len(events) : a < b => events[a].ts <= events[b].ts
  BY DEF EventsAre
<1>2. inTime = Sorted(events, w)
  BY DEF inTime
<1>3. w \in [1..Len(events) -> Int]
  BY <1>1
<1>4. \A a, b \in 1..Len(events) : a < b => w[a] <= w[b]
  BY <1>1
<1> HIDE DEF w
<1>5. Sorted(events, w) = events
  BY <1>1, <1>3, <1>4, SortedStays
<1> QED
  BY <1>2, <1>5

\* computeSessions cuts the events.
LEMMA SessionsCut ==
  ASSUME NEW R, EventsAre(events, R)
  PROVE  \E cut : CutAt(computeSessions, cut, Len(events), events)
<1> DEFINE s == events
           N == Len(events)
<1>1. N \in Nat /\ s \in Seq(ToSet(s)) /\ \A i \in 1..N : s[i].ts \in Nat
  BY DEF EventsAre
<1>2. inTime = s
  BY InOrder
<1>3. N = Len(s)
  OBVIOUS
<1> DEFINE made == CHOOSE k : k = [n \in 0..N |-> IF n = 0 THEN <<>> ELSE Clustered(k[n - 1], s[n])]
<1>4. computeSessions = made[N]
  BY <1>2 DEF computeSessions
<1>5. Clusters(made, N, s)
  <2>1. \E k : Clusters(k, N, s)
    BY <1>1, ClustersExist
  <2>2. made = CHOOSE k : Clusters(k, N, s)
    BY DEF Clusters
  <2> HIDE DEF made
  <2> QED
    BY <2>1, <2>2
<1> HIDE DEF made, s, N
<1> DEFINE G == {n \in 0..N : \E cut : CutAt(made[n], cut, n, s)}
<1>6. 0 \in G
  <2> DEFINE cut == [i \in 0..0 |-> 0]
  <2>1. made[0] = <<>>
    BY <1>1, <1>5 DEF Clusters
  <2>2. Len(<<>>) = 0 /\ DOMAIN <<>> = 1..0 /\ <<>> \in Seq(ToSet(<<>>)) /\ \A i \in 1..0 : FALSE
    OBVIOUS
  <2>3. cut \in [0..0 -> 0..0] /\ cut[0] = 0
    OBVIOUS
  <2> HIDE DEF cut
  <2>4. CutAt(made[0], cut, 0, s)
    BY <2>1, <2>2, <2>3 DEF CutAt
  <2> QED
    BY <1>1, <2>4
<1>7. ASSUME NEW n \in 0..(N - 1), n \in G PROVE n + 1 \in G
  <2>1. PICK cut : CutAt(made[n], cut, n, s)
    BY <1>7
  <2>2. made[n + 1] = Clustered(made[n], s[n + 1])
    <3>1. n + 1 \in 0..N /\ n + 1 # 0 /\ (n + 1) - 1 = n
      BY <1>1
    <3> QED
      BY <1>5, <3>1 DEF Clusters
  <2>3. \E new : CutAt(Clustered(made[n], s[n + 1]), new, n + 1, s)
    BY <1>1, <1>3, <2>1, ClusteredCuts
  <2> QED
    BY <1>1, <2>2, <2>3
<1> HIDE DEF G
<1>8. N \in G
  BY <1>1, <1>6, <1>7, CountingUp
<1> QED
  BY <1>4, <1>8 DEF G, N, s

\* Each place is in one of the parts that cut makes.
LEMMA Parts ==
  ASSUME NEW L \in Nat, NEW n \in Nat, NEW cut \in [0..L -> 0..n], cut[0] = 0, cut[L] = n,
         \A i \in 1..L : cut[i - 1] < cut[i]
  PROVE  /\ \A i \in 1..n : \E c \in 1..L : cut[c - 1] < i /\ i <= cut[c]
         /\ \A a, b \in 0..L : a <= b => cut[a] <= cut[b]
         /\ \A i \in 1..n : \A c, d \in 1..L :
              cut[c - 1] < i /\ i <= cut[c] /\ cut[d - 1] < i /\ i <= cut[d] => c = d
<1>1. ASSUME NEW i \in 1..n PROVE \E c \in 1..L : cut[c - 1] < i /\ i <= cut[c]
  <2> DEFINE C == {c \in 0..L : i <= cut[c]}
  <2>0. L \in C
    BY <1>1
  <2>1. C \in SUBSET Nat /\ C # {}
    <3>1. \A c \in C : c \in Nat
      OBVIOUS
    <3> HIDE DEF C
    <3> QED
      BY <2>0, <3>1
  <2>2. Min(C) \in C /\ \A y \in C : Min(C) <= y
    <3> HIDE DEF C
    <3> QED
      BY <2>1, MinOfNats
  <2>3. PICK m \in C : \A y \in C : m <= y
    BY <2>2
  <2>4. m \in 1..L /\ m - 1 \in 0..L
    BY <2>3
  <2>5. m - 1 \notin C
    BY <2>3, <2>4
  <2> QED
    BY <2>3, <2>4, <2>5
<1>2. ASSUME NEW a \in 0..L PROVE \A b \in 0..L : a <= b => cut[a] <= cut[b]
  <2> DEFINE G == {d \in 0..(L - a) : cut[a] <= cut[a + d]}
  <2>1. L - a \in Nat
    OBVIOUS
  <2>2. 0 \in G
    <3>1. a + 0 = a /\ cut[a] \in Nat
      OBVIOUS
    <3> QED
      BY <2>1, <3>1
  <2>3. ASSUME NEW d \in 0..((L - a) - 1), d \in G PROVE d + 1 \in G
    <3>1. a + (d + 1) \in 1..L /\ (a + (d + 1)) - 1 = a + d /\ a + d \in 0..L /\ d + 1 \in 0..(L - a)
      BY <2>1
    <3>2. cut[a + d] < cut[a + (d + 1)]
      BY <3>1
    <3>3. cut[a + d] \in Nat /\ cut[a + (d + 1)] \in Nat /\ cut[a] \in Nat /\ cut[a] <= cut[a + d]
      BY <2>3, <3>1
    <3> QED
      BY <3>1, <3>2, <3>3
  <2>4. ASSUME NEW d \in 0..(L - a) PROVE cut[a] <= cut[a + d]
    <3> DEFINE M == L - a
    <3> HIDE DEF G
    <3>1. \A e \in 0..(d - 1) : e \in G => e + 1 \in G
      BY <2>1, <2>3
    <3>2. d \in Nat
      BY <2>1
    <3>3. d \in G
      BY <2>2, <3>1, <3>2, CountingUp
    <3> QED
      BY <3>3 DEF G
  <2>5. ASSUME NEW b \in 0..L, a <= b PROVE cut[a] <= cut[b]
    <3>1. b - a \in 0..(L - a) /\ a + (b - a) = b
      BY <2>5
    <3> QED
      BY <2>4, <3>1
  <2> QED
    BY <2>5
<1>3. ASSUME NEW i \in 1..n, NEW c \in 1..L, NEW d \in 1..L,
             cut[c - 1] < i, i <= cut[c], cut[d - 1] < i, i <= cut[d], c < d
      PROVE  FALSE
  <2>1. c \in 0..L /\ d - 1 \in 0..L /\ c <= d - 1
    BY <1>3
  <2>2. cut[c] <= cut[d - 1] /\ cut[c] \in Nat /\ cut[d - 1] \in Nat
    BY <1>2, <2>1
  <2> QED
    BY <1>3, <2>2
<1>4. ASSUME NEW i \in 1..n, NEW c \in 1..L, NEW d \in 1..L,
             cut[c - 1] < i, i <= cut[c], cut[d - 1] < i, i <= cut[d]
      PROVE  c = d
  <2>1. ~(c < d) /\ ~(d < c)
    BY <1>3, <1>4
  <2> QED
    BY <2>1
<1> QED
  BY <1>1, <1>2, <1>4

\* The sessions are the parts of the events between one cut and the next.
LEMMA CutIs ==
  ASSUME NEW R, EventsAre(events, R), NEW cut, CutAt(computeSessions, cut, Len(events), events)
  PROVE  LET s == events
             cs == computeSessions
             L == Len(cs)
         IN  /\ L \in Nat /\ DOMAIN cs = 1..L
             /\ cut \in [0..L -> 0..Len(s)] /\ cut[0] = 0 /\ cut[L] = Len(s)
             /\ \A i \in 1..L :
                  /\ cut[i - 1] < cut[i]
                  /\ cs[i].start = s[cut[i - 1] + 1].ts /\ cs[i].end = s[cut[i]].ts
                  /\ cs[i].events = SubSeq(s, cut[i - 1] + 1, cut[i])
                  /\ \A j \in (cut[i - 1] + 2)..cut[i] : s[j].ts - s[j - 1].ts <= SessionGap
                  /\ i > 1 => s[cut[i - 1] + 1].ts - s[cut[i - 1]].ts > SessionGap
             /\ \A i \in 1..L :
                  LET es == cs[i].events IN
                  /\ Len(es) = cut[i] - cut[i - 1] /\ Len(es) \in Nat \ {0} /\ DOMAIN es = 1..Len(es)
                  /\ \A j \in 1..Len(es) : es[j] = s[cut[i - 1] + j] /\ cut[i - 1] + j \in 1..Len(s)
<1> DEFINE s == events
           N == Len(s)
           cs == computeSessions
           L == Len(cs)
<1>1. /\ N \in Nat /\ s \in Seq(ToSet(s)) /\ \A i \in 1..N : s[i].ts \in Nat
  BY DEF EventsAre
<1>3. CutAt(cs, cut, N, s)
  OBVIOUS
<1> HIDE DEF s, cs
<1>4. L \in Nat /\ DOMAIN cs = 1..L /\ cut \in [0..L -> 0..N] /\ cut[0] = 0 /\ cut[L] = N
  BY <1>3 DEF CutAt
<1>5. ASSUME NEW i \in 1..L
      PROVE  /\ cut[i - 1] < cut[i]
             /\ cs[i].start = s[cut[i - 1] + 1].ts /\ cs[i].end = s[cut[i]].ts
             /\ cs[i].events = SubSeq(s, cut[i - 1] + 1, cut[i])
             /\ \A j \in (cut[i - 1] + 2)..cut[i] : s[j].ts - s[j - 1].ts <= SessionGap
             /\ i > 1 => s[cut[i - 1] + 1].ts - s[cut[i - 1]].ts > SessionGap
  <2> DEFINE x == s[cut[i - 1] + 1].ts
             y == s[cut[i]].ts
             z == SubSeq(s, cut[i - 1] + 1, cut[i])
             d == cs[i]
  <2>1. /\ cut[i - 1] < cut[i]
        /\ d = [start |-> x, end |-> y, events |-> z]
        /\ \A j \in (cut[i - 1] + 2)..cut[i] : s[j].ts - s[j - 1].ts <= SessionGap
        /\ i > 1 => s[cut[i - 1] + 1].ts - s[cut[i - 1]].ts > SessionGap
    BY <1>3 DEF CutAt
  <2> HIDE DEF x, y, z, d
  <2>2. d.start = x /\ d.end = y /\ d.events = z
    BY <2>1
  <2> QED
    BY <2>1, <2>2 DEF x, y, z, d
<1> HIDE DEF L
<1>6. \A i \in 1..L : i - 1 \in 0..L /\ i \in 0..L
  BY <1>4
<1>7. \A i \in 0..L : cut[i] \in 0..N
  BY <1>4
<1>8. ASSUME NEW i \in 1..L
      PROVE  LET es == cs[i].events IN
             /\ Len(es) = cut[i] - cut[i - 1] /\ Len(es) \in Nat \ {0} /\ DOMAIN es = 1..Len(es)
             /\ \A j \in 1..Len(es) : es[j] = s[cut[i - 1] + j] /\ cut[i - 1] + j \in 1..N
  <2> DEFINE a == cut[i - 1]
             b == cut[i]
             es == SubSeq(s, a + 1, b)
  <2>1. a \in 0..N /\ b \in 0..N /\ a < b
    BY <1>5, <1>6, <1>7
  <2> HIDE DEF a, b
  <2>2. Len(es) = b - a /\ DOMAIN es = 1..(b - a) /\ \A j \in 1..(b - a) : es[j] = s[a + j]
    <3>1. Len(es) = b - a /\ DOMAIN es = 1..(b - a)
      BY <1>1, <2>1
    <3>2. ASSUME NEW j \in 1..(b - a) PROVE es[j] = s[a + j]
      <4>1. (a + 1) + j - 1 = a + j
        BY <2>1
      <4> QED
        BY <1>1, <2>1, <4>1
    <3> QED
      BY <3>1, <3>2
  <2>3. b - a \in Nat \ {0} /\ \A j \in 1..(b - a) : a + j \in 1..N
    BY <1>1, <2>1
  <2> HIDE DEF es
  <2>4. cs[i].events = es
    BY <1>5 DEF es, a, b
  <2> QED
    BY <2>2, <2>3, <2>4 DEF a, b
<1> QED
  BY <1>4, <1>5, <1>8 DEF s, cs, L

LEMMA PartitionFollows == ASSUME NEW R, EventsAre(events, R) PROVE SessionsPartition
<1> DEFINE s == events
           N == Len(s)
           cs == computeSessions
           L == Len(cs)
<1>1. /\ N \in Nat /\ s \in Seq(ToSet(s)) /\ \A i \in 1..N : s[i].ts \in Nat
  BY DEF EventsAre
<1>2. inTime = s
  BY InOrder
<1>3. PICK cut : CutAt(cs, cut, N, s)
  BY SessionsCut
<1> HIDE DEF s, cs
<1>4. L \in Nat /\ DOMAIN cs = 1..L /\ cut \in [0..L -> 0..N] /\ cut[0] = 0 /\ cut[L] = N
  BY <1>3, CutIs DEF s, cs
<1>5. \A i \in 1..L :
        /\ cut[i - 1] < cut[i]
        /\ cs[i].start = s[cut[i - 1] + 1].ts /\ cs[i].end = s[cut[i]].ts
        /\ cs[i].events = SubSeq(s, cut[i - 1] + 1, cut[i])
        /\ \A j \in (cut[i - 1] + 2)..cut[i] : s[j].ts - s[j - 1].ts <= SessionGap
        /\ i > 1 => s[cut[i - 1] + 1].ts - s[cut[i - 1]].ts > SessionGap
  BY <1>3, CutIs DEF s, cs
<1>8. \A i \in 1..L :
        LET es == cs[i].events IN
        /\ Len(es) = cut[i] - cut[i - 1] /\ Len(es) \in Nat \ {0}
        /\ \A j \in 1..Len(es) : es[j] = s[cut[i - 1] + j] /\ cut[i - 1] + j \in 1..N
  BY <1>3, CutIs DEF s, cs
<1> HIDE DEF L
<1>6. \A i \in 1..L : i - 1 \in 0..L /\ i \in 0..L
  BY <1>4
<1>7. \A i \in 0..L : cut[i] \in 0..N
  BY <1>4
<1>9. \E new \in [0 .. L -> 0 .. N] :
        /\ new[0] = 0 /\ new[L] = N
        /\ \A i \in 1..L : /\ new[i - 1] < new[i]
                           /\ cs[i].events = SubSeq(s, new[i - 1] + 1, new[i])
  BY <1>4, <1>5
<1>10. ASSUME NEW i \in 1..L
       PROVE  LET es == cs[i].events IN
              /\ cs[i].start = es[1].ts /\ cs[i].end = Last(es).ts
              /\ \A j \in 2 .. Len(es) : es[j].ts - es[j - 1].ts <= SessionGap
              /\ i > 1 => cs[i].start - cs[i - 1].end > SessionGap
  <2> DEFINE a == cut[i - 1]
             b == cut[i]
             es == cs[i].events
  <2>1. a \in 0..N /\ b \in 0..N /\ a < b
    BY <1>5, <1>6, <1>7
  <2>2. /\ cs[i].start = s[a + 1].ts /\ cs[i].end = s[b].ts
        /\ \A j \in (a + 2)..b : s[j].ts - s[j - 1].ts <= SessionGap
        /\ i > 1 => s[a + 1].ts - s[a].ts > SessionGap
    BY <1>5
  <2>3. /\ Len(es) = b - a /\ Len(es) \in Nat \ {0}
        /\ \A j \in 1..Len(es) : es[j] = s[a + j] /\ a + j \in 1..N
    BY <1>8
  <2>4. i > 1 => cs[i - 1].end = s[a].ts
    <3> SUFFICES ASSUME i > 1 PROVE cs[i - 1].end = s[a].ts
      OBVIOUS
    <3>1. i - 1 \in 1..L
      BY <1>4
    <3> QED
      BY <1>5, <3>1
  <2> HIDE DEF a, b, es
  <2>5. es[1] = s[a + 1] /\ Last(es) = s[b]
    <3>1. 1 \in 1..Len(es) /\ Len(es) \in 1..Len(es) /\ a + Len(es) = b
      BY <2>1, <2>3
    <3>2. es[1] = s[a + 1] /\ es[Len(es)] = s[a + Len(es)]
      BY <2>3, <3>1
    <3> QED
      BY <3>1, <3>2 DEF Last
  <2>6. ASSUME NEW j \in 2..Len(es) PROVE es[j].ts - es[j - 1].ts <= SessionGap
    <3>1. j \in 1..Len(es) /\ j - 1 \in 1..Len(es) /\ a + (j - 1) = (a + j) - 1 /\ a + j \in (a + 2)..b
      BY <2>1, <2>3
    <3>2. es[j] = s[a + j] /\ es[j - 1] = s[(a + j) - 1]
      BY <2>3, <3>1
    <3> QED
      BY <2>2, <3>1, <3>2
  <2> QED
    BY <2>2, <2>4, <2>5, <2>6 DEF es
<1>11. ASSUME NEW i \in 2..N, s[i].ts - s[i - 1].ts > WindowGap
       PROVE  \E c \in 2..L : 2 * cs[c - 1].end < s[i].ts + s[i - 1].ts
                              /\ s[i].ts + s[i - 1].ts < 2 * cs[c].start
  <2>1. i \in 1..N /\ i - 1 \in 1..N
    BY <1>1
  <2>2. PICK c \in 1..L : cut[c - 1] < i /\ i <= cut[c]
    <3>1. \A d \in 1..L : cut[d - 1] < cut[d]
      BY <1>5
    <3>2. \A j \in 1..N : \E d \in 1..L : cut[d - 1] < j /\ j <= cut[d]
      BY <1>1, <1>4, <3>1, Parts, ZenonT(40)
    <3> QED
      BY <2>1, <3>2
  <2> DEFINE a == cut[c - 1]
             b == cut[c]
  <2>3. a \in 0..N /\ b \in 0..N /\ a < b /\ a < i /\ i <= b
    BY <1>5, <1>6, <1>7, <2>2
  <2>4. /\ cs[c].start = s[a + 1].ts
        /\ \A j \in (a + 2)..b : s[j].ts - s[j - 1].ts <= SessionGap
    BY <1>5
  <2>z. c = 1 => a = 0
    BY <1>4
  <2>5. c - 1 \in 1..L => cs[c - 1].end = s[a].ts
    BY <1>5
  <2> HIDE DEF a, b
  <2>6. s[i].ts \in Nat /\ s[i - 1].ts \in Nat
    BY <1>1, <2>1
  <2>7. i = a + 1
    <3>1. SUFFICES ASSUME i # a + 1 PROVE FALSE
      OBVIOUS
    <3>2. i \in (a + 2)..b
      BY <2>3, <3>1
    <3>3. s[i].ts - s[i - 1].ts <= SessionGap
      BY <2>4, <3>2
    <3> QED
      BY <1>11, <2>6, <3>3, OverviewAssumption
  <2>8. a = i - 1 /\ a # 0 /\ c \in 2..L /\ c - 1 \in 1..L
    BY <1>4, <2>3, <2>7, <2>z
  <2>9. cs[c - 1].end = s[i - 1].ts /\ cs[c].start = s[i].ts
    BY <2>4, <2>5, <2>7, <2>8
  <2>10. 2 * s[i - 1].ts < s[i].ts + s[i - 1].ts /\ s[i].ts + s[i - 1].ts < 2 * s[i].ts
    BY <1>11, <2>6, OverviewAssumption, SMTT(20)
  <2> QED
    BY <2>8, <2>9, <2>10
<1>12. \A b \in windowBoundaries : \E c \in 2 .. L : 2 * cs[c - 1].end < b /\ b < 2 * cs[c].start
  <2>1. windowBoundaries = {s[i].ts + s[i - 1].ts : i \in {i \in 2..N : s[i].ts - s[i - 1].ts > WindowGap}}
    BY DEF windowBoundaries, s
  <2> SUFFICES ASSUME NEW i \in 2..N, s[i].ts - s[i - 1].ts > WindowGap
               PROVE  \E c \in 2..L : 2 * cs[c - 1].end < s[i].ts + s[i - 1].ts
                                      /\ s[i].ts + s[i - 1].ts < 2 * cs[c].start
    BY <2>1
  <2> QED
    BY <1>11
<1>13. inTime = s /\ computeSessions = cs /\ Len(events) = N /\ L = Len(cs)
  BY <1>2 DEF s, cs, L
<1> HIDE DEF N
<1> QED
  BY <1>4, <1>9, <1>10, <1>12, <1>13, ZenonT(40) DEF SessionsPartition

LEMMA EventsOfState == IInv => EventsAre(events, synth.records) /\ synth.records \in Answers
<1> SUFFICES ASSUME IInv PROVE EventsAre(events, synth.records) /\ synth.records \in Answers
  OBVIOUS
<1>1. synth.records \in Answers /\ synth = backendDashToShape(synth.records)
  BY DEF IInv, TypeOK
<1>2. EventsAre(backendDashToShape(synth.records).events, synth.records)
  BY <1>1, EventsHold
<1> QED
  BY <1>1, <1>2 DEF events

\* Each hour is in one session, which ends before a gap and nowhere else (app.jsx 531-552).
THEOREM SessionsCorrect == Spec => []SessionsPartition
<1>1. IInv => SessionsPartition
  BY EventsOfState, PartitionFollows
<1> QED
  BY <1>1, Invariant, PTL

-----------------------------------------------------------------------------
(* The time series.                                                        *)

Until(t) == {i \in DOMAIN events : events[i].ts < t}

LEMMA ReachedIs ==
  ASSUME NEW R, EventsAre(events, R), NEW t \in Int
  PROVE  1..Reached(t) = Until(t)
<1> DEFINE N == Len(events)
           C == {0} \cup {i \in DOMAIN events : \A j \in 1 .. i : events[j].ts < t}
<1>1. /\ N \in Nat /\ DOMAIN events = 1..N
      /\ \A i \in 1..N : events[i].ts \in Nat
      /\ \A i, j \in 1..N : i < j => events[i].ts <= events[j].ts
  BY DEF EventsAre
<1>2. \A i : i \in C <=> i = 0 \/ (i \in 1..N /\ \A j \in 1 .. i : events[j].ts < t)
  BY <1>1
<1>3. Reached(t) = Max(C)
  BY DEF Reached
<1> HIDE DEF N, C
<1>4. C \in SUBSET Nat /\ C # {} /\ \A y \in C : y <= N
  BY <1>1, <1>2
<1>5. Max(C) \in C /\ \A y \in C : y <= Max(C)
  BY <1>1, <1>4, MaxOfNats
<1> DEFINE m == Max(C)
<1>6. m \in 0..N
  BY <1>1, <1>4, <1>5
<1>7. ASSUME NEW i \in 1..m PROVE i \in 1..N /\ events[i].ts < t
  BY <1>1, <1>2, <1>5, <1>6, <1>7
<1>8. ASSUME NEW i \in 1..N, events[i].ts < t PROVE i \in 1..m
  <2>1. ASSUME NEW j \in 1..i PROVE events[j].ts < t
    <3>1. j \in 1..N /\ (j = i \/ j < i)
      BY <1>1
    <3>2. events[j].ts <= events[i].ts /\ events[j].ts \in Nat /\ events[i].ts \in Nat
      BY <1>1, <3>1
    <3> QED
      BY <1>8, <3>2
  <2>2. i \in C
    BY <1>2, <1>8, <2>1
  <2> QED
    BY <1>5, <1>6, <2>2
<1> HIDE DEF m
<1>9. \A i : i \in 1..m <=> i \in 1..N /\ events[i].ts < t
  BY <1>7, <1>8
<1>10. \A i : i \in Until(t) <=> i \in 1..N /\ events[i].ts < t
  BY <1>1 DEF Until
<1>11. 1..m = Until(t)
  BY <1>9, <1>10
<1> QED
  BY <1>3, <1>11 DEF m

Values(k) == [i \in DOMAIN events |-> ValueOf(events[i], k)]

\* The widths of a chart: the bars reach over the range, and all but the last lie in it.
LEMMA Widths ==
  ASSUME NEW R, EventsAre(events, R), events # <<>>, range = rangeOf(hourly(R)),
         Len(hourly(R)) = Len(events), \A i \in 1..Len(events) : hourly(R)[i].ts = events[i].ts
  PROVE  /\ range.start = events[1].ts /\ range.end = Last(events).ts + 1
         /\ range.start \in Nat /\ span \in Nat \ {0}
         /\ binMs \in Nat \ {0} /\ nBins \in Nat \ {0}
         /\ span <= nBins * binMs /\ (nBins - 1) * binMs < span
         /\ \A i \in 1..Len(events) : range.start <= events[i].ts /\ events[i].ts < range.start + span
<1> DEFINE N == Len(events)
           q == hourly(R)
<1>1. /\ N \in Nat /\ DOMAIN events = 1..N /\ events \in Seq(ToSet(events))
      /\ \A i \in 1..N : events[i].ts \in Nat
      /\ \A i, j \in 1..N : i < j => events[i].ts <= events[j].ts
  BY DEF EventsAre
<1>2. N # 0 /\ Len(q) = N /\ \A i \in 1..N : q[i].ts = events[i].ts
  BY <1>1
<1>3. range = rangeOf(q) /\ q # <<>>
  BY <1>2
<1> HIDE DEF q
<1>4. range = [start |-> q[1].ts, end |-> q[N].ts + 1]
  BY <1>2, <1>3 DEF rangeOf, Last
<1>5. 1 \in 1..N /\ N \in 1..N
  BY <1>1, <1>2
<1>6. range.start = events[1].ts /\ range.end = events[N].ts + 1
  BY <1>2, <1>4, <1>5
<1>7. range.start \in Nat /\ span = events[N].ts + 1 - events[1].ts
  BY <1>1, <1>5, <1>6 DEF span
<1>8. ASSUME NEW i \in 1..N
      PROVE  events[1].ts <= events[i].ts /\ events[i].ts <= events[N].ts /\ events[i].ts \in Nat
  BY <1>1, <1>5
<1>9. span \in Nat \ {0}
  BY <1>5, <1>7, <1>8
<1>10. binMs \in Nat \ {0}
  <2> DEFINE fits == {b \in NiceBins : \A c \in NiceBins : c <= b => span >= MinBins * c}
  <2>1. NiceBins \in SUBSET (Nat \ {0}) /\ NiceBins # {} /\ IsFiniteSet(NiceBins)
    BY OverviewAssumption
  <2>2. fits \in SUBSET NiceBins
    OBVIOUS
  <2>3. binMs = IF fits = {} THEN Min(NiceBins) ELSE Max(fits)
    BY DEF binMs
  <2> HIDE DEF fits
  <2>4. NiceBins \in SUBSET Int /\ fits \in SUBSET Int /\ IsFiniteSet(fits)
    <3>1. IsFiniteSet(fits)
      BY <2>1, <2>2, FS_Subset
    <3> QED
      BY <2>1, <2>2, <3>1
  <2>5. Min(NiceBins) \in NiceBins
    BY <2>1, <2>4, EndsOfFinite
  <2>6. fits # {} => Max(fits) \in fits
    BY <2>4, EndsOfFinite
  <2> QED
    BY <2>1, <2>2, <2>3, <2>5, <2>6
<1>11. nBins \in Nat \ {0} /\ span <= nBins * binMs /\ (nBins - 1) * binMs < span
  <2> DEFINE s == span
             b == binMs
             d == nBins
  <2>1. s \in Nat \ {0} /\ b \in Nat \ {0}
    BY <1>9, <1>10
  <2>2. d = (s + b - 1) \div b
    BY DEF nBins
  <2> HIDE DEF s, b, d
  <2>3. s + b - 1 \in Nat
    BY <2>1
  <2>4. d \in Nat /\ d * b <= s + b - 1 /\ s + b - 1 < (d + 1) * b
    BY <2>1, <2>2, <2>3, DivBounds
  <2>5. (d + 1) * b = d * b + b /\ (d - 1) * b = d * b - b /\ d * b \in Nat
    BY <2>1, <2>4
  <2>6. s <= d * b /\ (d - 1) * b < s
    BY <2>1, <2>4, <2>5
  <2>7. d # 0
    <3>1. d = 0 => d * b = 0
      BY <2>1
    <3> QED
      BY <2>1, <2>6, <3>1
  <2> QED
    BY <2>4, <2>6, <2>7 DEF s, b, d
<1>12. \A i \in 1..N : range.start <= events[i].ts /\ events[i].ts < range.start + span
  BY <1>5, <1>6, <1>7, <1>8
<1>13. Last(events) = events[N]
  BY DEF Last
<1> QED
  BY <1>6, <1>7, <1>9, <1>10, <1>11, <1>12, <1>13

InBar(k) == {i \in DOMAIN events : binEnd(k - 1) <= events[i].ts /\ events[i].ts < binEnd(k)}

\* The cumulative line ends at the sum of all, and each bar is the sum of what is in it.
LEMMA BarsAdd ==
  ASSUME NEW R, EventsAre(events, R), NEW V, \A i \in 1..Len(events) : ValueOf(events[i], V) \in Nat,
         range.start \in Nat, binMs \in Nat \ {0}, nBins \in Nat \ {0}, span \in Nat, span <= nBins * binMs,
         \A i \in 1..Len(events) : range.start <= events[i].ts /\ events[i].ts < range.start + span
  PROVE  /\ cumPts(V, nBins - 1) = Sum(Values(V), 1..Len(events))
         /\ \A k \in 0..(nBins - 1) : bins(V, k) = Sum(Values(V), InBar(k))
<1> DEFINE N == Len(events)
           f == Values(V)
<1>1. /\ N \in Nat /\ DOMAIN events = 1..N /\ \A i \in 1..N : events[i].ts \in Nat
  BY DEF EventsAre
<1>2. \A i \in 1..N : f[i] \in Int
  BY <1>1 DEF Values
<1>3. \A k \in Int : binEnd(k) \in Int
  BY DEF binEnd
<1>4. \A k \in Int : cumPts(V, k) = Sum(f, Until(binEnd(k)))
  <2> SUFFICES ASSUME NEW k \in Int PROVE cumPts(V, k) = Sum(f, Until(binEnd(k)))
    OBVIOUS
  <2>1. 1..Reached(binEnd(k)) = Until(binEnd(k))
    BY <1>3, ReachedIs
  <2> QED
    BY <2>1 DEF cumPts, Values
<1> HIDE DEF f
<1>5. IsFiniteSet(1..N) /\ \A t : Until(t) \in SUBSET (1..N)
  BY <1>1, FS_Interval DEF Until
<1>6. \A t : IsFiniteSet(Until(t))
  BY <1>5, FS_Subset
<1>7. Until(binEnd(nBins - 1)) = 1..N
  <2>1. binEnd(nBins - 1) = range.start + nBins * binMs
    BY DEF binEnd
  <2> DEFINE w == nBins * binMs
  <2>2. w \in Nat /\ span <= w
    OBVIOUS
  <2> HIDE DEF w
  <2>3. \A i \in 1..N : events[i].ts < range.start + w
    BY <1>1, <2>2
  <2> QED
    BY <1>1, <2>1, <2>3 DEF Until, w
<1>8. ASSUME NEW k \in 0..(nBins - 1) PROVE bins(V, k) = Sum(f, InBar(k))
  <2>1. k \in Int /\ k - 1 \in Int
    OBVIOUS
  <2> DEFINE b == binEnd(k)
             a == binEnd(k - 1)
  <2>2. a \in Int /\ b \in Int
    BY <1>3, <2>1
  <2>3. a <= b
    <3>1. binEnd(k) = range.start + (k * binMs + binMs) /\ binEnd(k - 1) = range.start + k * binMs
      BY DEF binEnd
    <3>2. k * binMs \in Int
      OBVIOUS
    <3> QED
      BY <3>1, <3>2
  <2>z. k = 0 => a = range.start
    BY DEF binEnd
  <2>5. bins(V, k) = Sum(f, Until(b)) - IF k = 0 THEN 0 ELSE Sum(f, Until(a))
    BY <1>4, <2>1 DEF bins
  <2>6. \A i : i \in InBar(k) <=> i \in 1..N /\ a <= events[i].ts /\ events[i].ts < b
    BY <1>1 DEF InBar
  <2> HIDE DEF a, b
  <2>7. Until(b) = Until(a) \cup InBar(k) /\ Until(a) \cap InBar(k) = {} /\ Until(b) \in SUBSET (1..N)
    BY <1>1, <2>2, <2>3, <2>6 DEF Until
  <2>8. IsFiniteSet(Until(a)) /\ IsFiniteSet(InBar(k)) /\ InBar(k) \in SUBSET (1..N) /\ Until(a) \in SUBSET (1..N)
    <3>1. InBar(k) \in SUBSET (1..N) /\ Until(a) \in SUBSET (1..N)
      BY <2>6, <2>7
    <3> QED
      BY <1>5, <3>1, FS_Subset
  <2>9. \A i \in Until(a) \cup InBar(k) : f[i] \in Int
    BY <1>2, <2>8
  <2>10. Sum(f, Until(a) \cup InBar(k)) = Sum(f, Until(a)) + Sum(f, InBar(k))
    BY <2>7, <2>8, <2>9, SumUnion
  <2>11. Sum(f, Until(a)) \in Int /\ Sum(f, InBar(k)) \in Int
    BY <2>8, <2>9, SumLess
  <2>12. k = 0 => Sum(f, Until(a)) = 0
    <3> SUFFICES ASSUME k = 0 PROVE Sum(f, Until(a)) = 0
      OBVIOUS
    <3>1. Until(a) = {}
      BY <1>1, <2>z DEF Until
    <3> QED
      BY <3>1, SumEmpty
  <2> QED
    BY <2>5, <2>7, <2>10, <2>11, <2>12
<1>9. cumPts(V, nBins - 1) = Sum(f, 1..N)
  <2>1. nBins - 1 \in Int
    OBVIOUS
  <2> QED
    BY <1>4, <1>7, <2>1
<1> QED
  BY <1>8, <1>9 DEF f

-----------------------------------------------------------------------------
(* The bars: by model, and by kind of token.                               *)

\* A sum over the sorted rows of a bar.
LEMMA RowsAdd ==
  ASSUME NEW S, IsFiniteSet(S), \A r \in S : r.value \in Int,
         NEW q, q = SortedSet(S, [r \in S |-> -r.value])
  PROVE  Sum([i \in DOMAIN q |-> q[i].value], DOMAIN q) = Sum([r \in S |-> r.value], S)
<1> DEFINE w == [r \in S |-> -r.value]
           f == [r \in S |-> r.value]
           g == [i \in DOMAIN q |-> q[i].value]
           D == 1..Cardinality(S)
<1>1. \A x \in S : w[x] \in Int /\ f[x] = x.value /\ f[x] \in Int
  OBVIOUS
<1>2. g = [i \in DOMAIN q |-> q[i].value]
  OBVIOUS
<1>3. q = SortedSet(S, w)
  OBVIOUS
<1> HIDE DEF w, f, g
<1>4. Lists(q, S) /\ DOMAIN q = 1..Cardinality(S)
  BY <1>1, <1>3, SortedSetLists
<1>5. \A a \in 1..Cardinality(S) : g[a] = f[q[a]]
  BY <1>1, <1>2, <1>4 DEF Lists
<1>6. Sum(g, 1..Cardinality(S)) = Sum(f, S)
  BY <1>1, <1>4, <1>5, SumOfList
<1> QED
  BY <1>4, <1>6 DEF f, g

LEMMA ModelsAdd ==
  ASSUME NEW R \in Answers, NEW a, a = backendDashToShape(R), NEW sel,
         NEW models, models = Rows(a, sel, "models")
  PROVE  Sum([i \in DOMAIN models |-> models[i].value], DOMAIN models) = AllCost(R)
<1> DEFINE h == [r \in R |-> Short[r.model]]
           M == {h[r] : r \in R}
           f == [r \in R |-> cost_usd(r)]
           c == a.costByModel
           byModel == {[label |-> n, value |-> c[n]] : n \in M}
           S == {r \in byModel : r.value > 0}
           row == [n \in M |-> [label |-> n, value |-> c[n]]]
           v == [r \in byModel |-> r.value]
           u == [r \in S |-> r.value]
<1>1. c = [m \in M |-> Sum(f, {r \in R : Short[r.model] = m})] /\ DOMAIN c = M
  <2>1. M = {Short[r.model] : r \in R}
    OBVIOUS
  <2>2. c = [m \in {Short[r.model] : r \in R} |-> Sum(f, {r \in R : Short[r.model] = m})]
    BY DEF backendDashToShape
  <2> QED
    BY <2>1, <2>2
<1>2. IsFiniteSet(R) /\ \A r \in R : f[r] \in Nat
  BY RecordIs
<1>3. \A r \in R : h[r] \in M /\ h[r] = Short[r.model]
  OBVIOUS
<1>4. IsFiniteSet(M)
  <2> HIDE DEF h
  <2> QED
    BY <1>2, FiniteImage
<1>5. models = SortedSet(S, [r \in S |-> -r.value])
  BY <1>1 DEF Rows
<1>6. \A n \in M : c[n] = Sum(f, Class(R, h, n))
  <2> SUFFICES ASSUME NEW n \in M PROVE c[n] = Sum(f, Class(R, h, n))
    OBVIOUS
  <2>1. Class(R, h, n) = {r \in R : Short[r.model] = n}
    BY <1>3 DEF Class
  <2> QED
    BY <1>1, <2>1
<1>7. byModel = {row[n] : n \in M}
  OBVIOUS
<1>8. \A n \in M : row[n] = [label |-> n, value |-> c[n]]
  OBVIOUS
<1>9. AllCost(R) = Sum(f, R)
  BY DEF AllCost
<1>10. \A x \in byModel : \E n \in M : x = row[n]
  OBVIOUS
<1>11. (\A x \in S : x \in byModel /\ x.value > 0 /\ u[x] = x.value) /\ \A x \in byModel : (x.value > 0 => x \in S) /\ v[x] = x.value
  OBVIOUS
<1>12. \A x \in byModel : x \notin S => ~(x.value > 0)
  OBVIOUS
<1>13. [r \in S |-> r.value] = u
  OBVIOUS
<1> HIDE DEF h, M, f, c, byModel, S, row, u, v
<1>14. ASSUME NEW n \in M PROVE row[n].label = n /\ row[n].value = c[n]
  <2> DEFINE d == row[n]
             e == c[n]
  <2>1. d = [label |-> n, value |-> e]
    BY <1>8
  <2> HIDE DEF d, e
  <2>2. d.label = n /\ d.value = e
    BY <2>1
  <2> QED
    BY <2>2 DEF d, e
<1>15. \A n \in M : c[n] \in Nat
  <2> SUFFICES ASSUME NEW n \in M PROVE c[n] \in Nat
    OBVIOUS
  <2>1. Class(R, h, n) \in SUBSET R
    BY DEF Class
  <2>2. IsFiniteSet(Class(R, h, n)) /\ \A r \in Class(R, h, n) : f[r] \in Nat
    BY <1>2, <2>1, FS_Subset
  <2>3. Sum(f, Class(R, h, n)) \in Nat
    BY <2>2, SumNat
  <2> QED
    BY <1>6, <2>3
<1>16. Sum(c, M) = Sum(f, R)
  <2>1. \A r \in R : h[r] \in M /\ f[r] \in Int
    BY <1>2, <1>3
  <2> QED
    BY <1>2, <1>4, <1>6, <2>1, SumByClass
<1>17. Sum(v, byModel) = Sum(c, M)
  <2>1. \A x, y \in M : row[x] = row[y] => x = y
    BY <1>14
  <2>2. \A x \in M : c[x] \in Int /\ v[row[x]] = c[x]
    BY <1>7, <1>11, <1>14, <1>15
  <2>3. Sum(v, {row[n] : n \in M}) = Sum(c, M)
    BY <1>4, <2>1, <2>2, SumRenamed
  <2> QED
    BY <1>7, <2>3
<1>18. \A x \in byModel : x.value \in Nat
  BY <1>10, <1>14, <1>15
<1>19. IsFiniteSet(byModel)
  BY <1>4, <1>7, FiniteImage
<1> DEFINE Z == byModel \ S
<1>20. IsFiniteSet(S) /\ IsFiniteSet(Z) /\ S \cup Z = byModel /\ S \cap Z = {}
  <2>1. S \in SUBSET byModel /\ Z \in SUBSET byModel
    BY <1>11
  <2>2. IsFiniteSet(S) /\ IsFiniteSet(Z)
    BY <1>19, <2>1, FS_Subset
  <2> QED
    BY <2>1, <2>2
<1>21. \A x \in Z : v[x] = 0
  BY <1>11, <1>18, <1>12
<1> HIDE DEF Z
<1>22. Sum(v, byModel) = Sum(v, S)
  <2>1. Sum(v, Z) = 0
    BY <1>20, <1>21, SumZero
  <2>2. \A x \in S \cup Z : v[x] \in Int
    BY <1>11, <1>18, <1>20
  <2>3. Sum(v, S \cup Z) = Sum(v, S) + Sum(v, Z)
    BY <1>20, <2>2, SumUnion
  <2>4. Sum(v, S) \in Int
    BY <1>20, <2>2, SumLess
  <2>5. Sum(v, S \cup Z) = Sum(v, S)
    BY <2>1, <2>3, <2>4
  <2> QED
    BY <1>20, <2>5
<1>23. Sum(u, S) = Sum(v, S)
  <2>1. \A x \in S : v[x] \in Int /\ u[x] = v[x]
    BY <1>11, <1>18
  <2> QED
    BY <1>20, <2>1, SumSame
<1>24. Sum([i \in DOMAIN models |-> models[i].value], DOMAIN models) = Sum(u, S)
  <2>1. \A r \in S : r.value \in Int
    BY <1>11, <1>18
  <2>2. Sum([i \in DOMAIN models |-> models[i].value], DOMAIN models) = Sum([r \in S |-> r.value], S)
    BY <1>5, <1>20, <2>1, RowsAdd
  <2> QED
    BY <1>13, <2>2
<1> QED
  BY <1>9, <1>16, <1>17, <1>22, <1>23, <1>24

LEMMA ThreeKinds ==
  ASSUME NEW g, \A k \in Kinds : g[k] \in Int
  PROVE  IsFiniteSet(Kinds) /\ Sum(g, Kinds) = g["input"] + g["output"] + g["cr"]
<1> DEFINE x == "input"
           y == "output"
           z == "cr"
           S1 == {x}
           S2 == S1 \cup {y}
<1>1. x # y /\ x # z /\ y # z
  OBVIOUS
<1>2. Kinds = {x, y, z}
  BY DEF Kinds
<1> HIDE DEF x, y, z
<1>3. y \notin S1 /\ z \notin S2 /\ S2 \cup {z} = Kinds /\ S2 = S1 \cup {y}
  BY <1>1, <1>2
<1>4. g[x] \in Int /\ g[y] \in Int /\ g[z] \in Int
  BY <1>2
<1>5. (\A k \in S1 \cup {y} : g[k] \in Int) /\ \A k \in S2 \cup {z} : g[k] \in Int
  BY <1>4
<1>6. IsFiniteSet(S1)
  BY FS_Singleton
<1>7. Sum(g, S1) = g[x]
  BY <1>4, SumSingle
<1> HIDE DEF S1, S2
<1>8. IsFiniteSet(S2)
  BY <1>3, <1>6, FS_AddElement
<1>9. IsFiniteSet(S2 \cup {z})
  BY <1>8, FS_AddElement
<1>10. Sum(g, S1 \cup {y}) = Sum(g, S1) + g[y]
  BY <1>3, <1>5, <1>6, SumMore
<1>11. Sum(g, S2 \cup {z}) = Sum(g, S2) + g[z]
  BY <1>3, <1>5, <1>8, SumMore
<1>12. Sum(g, Kinds) = g[x] + g[y] + g[z]
  BY <1>3, <1>7, <1>10, <1>11
<1> QED
  BY <1>3, <1>9, <1>12 DEF x, y, z

LEMMA SumPlusPlus ==
  ASSUME NEW S, IsFiniteSet(S), NEW f, NEW g, NEW h, NEW t,
         \A x \in S : f[x] \in Int /\ g[x] \in Int /\ h[x] \in Int /\ t[x] = f[x] + g[x] + h[x]
  PROVE  Sum(t, S) = Sum(f, S) + Sum(g, S) + Sum(h, S)
<1> DEFINE u == [x \in S |-> f[x] + g[x]]
<1>1. \A x \in S : u[x] = f[x] + g[x] /\ f[x] \in Int /\ g[x] \in Int
  OBVIOUS
<1> HIDE DEF u
<1>2. \A x \in S : u[x] \in Int /\ h[x] \in Int /\ t[x] = u[x] + h[x]
  <2> SUFFICES ASSUME NEW x \in S PROVE u[x] \in Int /\ h[x] \in Int /\ t[x] = u[x] + h[x]
    OBVIOUS
  <2>1. f[x] \in Int /\ g[x] \in Int /\ h[x] \in Int /\ t[x] = f[x] + g[x] + h[x] /\ u[x] = f[x] + g[x]
    BY <1>1
  <2> QED
    BY <2>1
<1>3. Sum(u, S) = Sum(f, S) + Sum(g, S)
  BY <1>1, SumPlus
<1>4. Sum(t, S) = Sum(u, S) + Sum(h, S)
  BY <1>2, SumPlus
<1> QED
  BY <1>3, <1>4

LEMMA KindsAdd ==
  ASSUME NEW R, NEW E, EventsAre(E, R), NEW m, filtered(E, m) = DOMAIN E, NEW kinds, kinds = breakdown(E, m)
  PROVE  /\ Sum([r \in kinds |-> r.value], kinds) = AllTokens(R)
         /\ Sum([r \in kinds |-> r.cost], kinds) = AllCost(R)
<1> DEFINE D == DOMAIN E
           at(k) == [i \in D |-> E[i][k]]
           by(k) == [i \in D |-> E[i][k] * Rates[E[i].model][k]]
           val == [k \in Kinds |-> Sum(at(k), D)]
           cost == [k \in Kinds |-> Sum(by(k), D)]
           P == {k \in Kinds : val[k] > 0}
           Z == Kinds \ P
           row == [k \in P |-> [label |-> k, value |-> val[k], cost |-> cost[k]]]
           rv == [r \in kinds |-> r.value]
           rc == [r \in kinds |-> r.cost]
<1>1. D = 1..Len(E) /\ Len(E) \in Nat /\ IsFiniteSet(D)
  BY FS_Interval DEF EventsAre
<1>2. \A i \in D : E[i].model \in Names /\ \A k \in Kinds : E[i][k] \in Nat
  BY DEF EventsAre, Kinds
<1>3. kinds = {row[k] : k \in P}
  <2>1. kinds = {[label |-> k, value |-> Sum(at(k), D), cost |-> Sum(by(k), D)] :
                   k \in {j \in Kinds : Sum(at(j), D) > 0}}
    BY DEF breakdown
  <2>2. \A k \in Kinds : val[k] = Sum(at(k), D) /\ cost[k] = Sum(by(k), D)
    OBVIOUS
  <2>3. P = {j \in Kinds : Sum(at(j), D) > 0}
    BY <2>2
  <2>4. \A k \in P : row[k] = [label |-> k, value |-> Sum(at(k), D), cost |-> Sum(by(k), D)]
    BY <2>2
  <2> HIDE DEF at, by, val, cost, P, row
  <2> QED
    BY <2>1, <2>3, <2>4
<1>4. ASSUME NEW k \in Kinds
      PROVE  /\ val[k] = Sum(at(k), D) /\ val[k] \in Nat /\ cost[k] = Sum(by(k), D) /\ cost[k] \in Nat
             /\ val[k] = 0 => cost[k] = 0
             /\ \A i \in D : at(k)[i] \in Nat /\ by(k)[i] \in Nat
                             /\ at(k)[i] = E[i][k] /\ by(k)[i] = E[i][k] * Rates[E[i].model][k]
  <2> DEFINE a == at(k)
             b == by(k)
  <2>1. \A i \in D : a[i] = E[i][k] /\ b[i] = E[i][k] * Rates[E[i].model][k]
    OBVIOUS
  <2>2. \A i \in D : a[i] \in Nat /\ Rates[E[i].model][k] \in Nat
    BY <1>2, RecordsAssumption
  <2>3. val[k] = Sum(a, D) /\ cost[k] = Sum(b, D)
    OBVIOUS
  <2> HIDE DEF a, b
  <2>4. \A i \in D : b[i] \in Nat /\ (a[i] = 0 => b[i] = 0)
    <3> SUFFICES ASSUME NEW i \in D PROVE b[i] \in Nat /\ (a[i] = 0 => b[i] = 0)
      OBVIOUS
    <3> DEFINE x == E[i][k]
               y == Rates[E[i].model][k]
    <3>1. a[i] = x /\ b[i] = x * y /\ x \in Nat /\ y \in Nat
      BY <2>1, <2>2
    <3> HIDE DEF x, y
    <3> QED
      BY <3>1
  <2>5. Sum(a, D) \in Nat /\ Sum(b, D) \in Nat
    BY <1>1, <2>2, <2>4, SumNat
  <2>6. ASSUME Sum(a, D) = 0 PROVE Sum(b, D) = 0
    <3>1. \A i \in D : a[i] \in Nat
      BY <2>2
    <3>2. \A i \in D : ~(a[i] > 0)
      BY <1>1, <2>6, <3>1, SumPositive
    <3>3. \A i \in D : b[i] = 0
      BY <2>4, <3>1, <3>2
    <3> QED
      BY <1>1, <3>3, SumZero
  <2> QED
    BY <2>1, <2>2, <2>3, <2>4, <2>5, <2>6 DEF a, b
<1>5. \A k \in P : row[k] = [label |-> k, value |-> val[k], cost |-> cost[k]]
  OBVIOUS
<1>6. P \in SUBSET Kinds /\ P \cup Z = Kinds /\ P \cap Z = {}
  OBVIOUS
<1>7. \A k \in Z : k \in Kinds /\ ~(val[k] > 0)
  OBVIOUS
<1>8. \A r \in kinds : rv[r] = r.value /\ rc[r] = r.cost
  OBVIOUS
<1>9. Sum(Tok(E), D) = AllTokens(R) /\ Sum(Price(E), D) = AllCost(R)
  BY DEF EventsAre
<1>10. \A i \in D : Tok(E)[i] = at("input")[i] + at("output")[i] + at("cr")[i]
  BY DEF Tok, Tokens
<1>11. \A i \in D : Price(E)[i] = by("input")[i] + by("output")[i] + by("cr")[i]
  <2>1. \A i \in D : E[i].cost = E[i].input * Rates[E[i].model].input + E[i].output * Rates[E[i].model].output
                        + E[i].cr * Rates[E[i].model].cr
    BY DEF EventsAre
  <2> QED
    BY <2>1 DEF Price
<1>12. "input" \in Kinds /\ "output" \in Kinds /\ "cr" \in Kinds
  BY DEF Kinds
<1> HIDE DEF D, at, by, val, cost, P, Z, row, rv, rc
<1>13. (\A k \in Kinds : val[k] \in Int) /\ \A k \in Kinds : cost[k] \in Int
  BY <1>4
<1>14. IsFiniteSet(Kinds) /\ Sum(val, Kinds) = val["input"] + val["output"] + val["cr"]
  BY <1>13, ThreeKinds
<1>15. Sum(cost, Kinds) = cost["input"] + cost["output"] + cost["cr"]
  BY <1>13, ThreeKinds
<1>16. Sum(val, Kinds) = AllTokens(R)
  <2> DEFINE a == at("input")
             b == at("output")
             c == at("cr")
             t == Tok(E)
  <2>1. val["input"] = Sum(a, D) /\ val["output"] = Sum(b, D) /\ val["cr"] = Sum(c, D)
    BY <1>4, <1>12
  <2>2. \A i \in D : a[i] \in Int /\ b[i] \in Int /\ c[i] \in Int
    BY <1>4, <1>12
  <2>3. \A i \in D : t[i] = a[i] + b[i] + c[i]
    BY <1>10
  <2> HIDE DEF a, b, c, t
  <2>4. \A i \in D : a[i] \in Int /\ b[i] \in Int /\ c[i] \in Int /\ t[i] = a[i] + b[i] + c[i]
    BY <2>2, <2>3
  <2>f. IsFiniteSet(D)
    BY <1>1
  <2>5. Sum(t, D) = Sum(a, D) + Sum(b, D) + Sum(c, D)
    BY <2>f, <2>4, SumPlusPlus
  <2> QED
    BY <1>14, <1>9, <2>1, <2>5 DEF t
<1>17. Sum(cost, Kinds) = AllCost(R)
  <2> DEFINE a == by("input")
             b == by("output")
             c == by("cr")
             t == Price(E)
  <2>1. cost["input"] = Sum(a, D) /\ cost["output"] = Sum(b, D) /\ cost["cr"] = Sum(c, D)
    BY <1>4, <1>12
  <2>2. \A i \in D : a[i] \in Int /\ b[i] \in Int /\ c[i] \in Int
    BY <1>4, <1>12
  <2>3. \A i \in D : t[i] = a[i] + b[i] + c[i]
    BY <1>11
  <2> HIDE DEF a, b, c, t
  <2>4. \A i \in D : a[i] \in Int /\ b[i] \in Int /\ c[i] \in Int /\ t[i] = a[i] + b[i] + c[i]
    BY <2>2, <2>3
  <2>f. IsFiniteSet(D)
    BY <1>1
  <2>5. Sum(t, D) = Sum(a, D) + Sum(b, D) + Sum(c, D)
    BY <2>f, <2>4, SumPlusPlus
  <2> QED
    BY <1>15, <1>9, <2>1, <2>5 DEF t
<1>18. IsFiniteSet(P) /\ IsFiniteSet(Z) /\ Z \in SUBSET Kinds
  <2>1. Z \in SUBSET Kinds
    BY <1>7
  <2> QED
    BY <1>6, <1>14, <2>1, FS_Subset
<1>19. \A k \in Z : val[k] = 0 /\ cost[k] = 0
  <2> SUFFICES ASSUME NEW k \in Z PROVE val[k] = 0 /\ cost[k] = 0
    OBVIOUS
  <2>1. k \in Kinds /\ val[k] \in Nat /\ ~(val[k] > 0)
    BY <1>4, <1>7
  <2>2. val[k] = 0
    BY <2>1
  <2> QED
    BY <1>4, <2>1, <2>2
<1>20. ASSUME NEW g, \A k \in Kinds : g[k] \in Int, \A k \in Z : g[k] = 0 PROVE Sum(g, P) = Sum(g, Kinds)
  <2>1. Sum(g, Z) = 0
    BY <1>18, <1>20, SumZero
  <2>2. \A k \in P \cup Z : g[k] \in Int
    BY <1>6, <1>20
  <2>3. Sum(g, P \cup Z) = Sum(g, P) + Sum(g, Z)
    BY <1>6, <1>18, <2>2, SumUnion
  <2>4. Sum(g, P) \in Int
    BY <1>18, <2>2, SumLess
  <2>5. Sum(g, P \cup Z) = Sum(g, P)
    BY <2>1, <2>3, <2>4
  <2> QED
    BY <1>6, <2>5
<1>21. ASSUME NEW k \in P
       PROVE  row[k].label = k /\ row[k].value = val[k] /\ row[k].cost = cost[k] /\ row[k] \in kinds
  <2> DEFINE d == row[k]
             x == val[k]
             y == cost[k]
  <2>1. d = [label |-> k, value |-> x, cost |-> y]
    BY <1>5
  <2> HIDE DEF d, x, y
  <2>2. d.label = k /\ d.value = x /\ d.cost = y
    BY <2>1
  <2> QED
    BY <1>3, <2>2 DEF d, x, y
<1>22. \A x, y \in P : row[x] = row[y] => x = y
  BY <1>21
<1>23. \A k \in P : val[k] \in Int /\ rv[row[k]] = val[k]
  BY <1>6, <1>8, <1>13, <1>21
<1>24. \A k \in P : cost[k] \in Int /\ rc[row[k]] = cost[k]
  BY <1>6, <1>8, <1>13, <1>21
<1>25. Sum(rv, {row[k] : k \in P}) = Sum(val, P)
  BY <1>18, <1>22, <1>23, SumRenamed
<1>26. Sum(rc, {row[k] : k \in P}) = Sum(cost, P)
  BY <1>18, <1>22, <1>24, SumRenamed
<1>27. Sum(rv, kinds) = AllTokens(R) /\ Sum(rc, kinds) = AllCost(R)
  <2>1. Sum(val, P) = Sum(val, Kinds)
    BY <1>13, <1>19, <1>20
  <2>2. Sum(cost, P) = Sum(cost, Kinds)
    BY <1>13, <1>19, <1>20
  <2> QED
    BY <1>3, <1>16, <1>17, <1>25, <1>26, <2>1, <2>2
<1> QED
  BY <1>27 DEF rv, rc

-----------------------------------------------------------------------------
(* The list of sessions.                                                   *)

LEMMA ClustersHold ==
  ASSUME NEW R, EventsAre(events, R), events # <<>>
  PROVE  LET L == [i \in DOMAIN computeSessions |-> ClusterRow(computeSessions[i])]
         IN  ListAre(L, R) /\ L # <<>>
<1> DEFINE s == events
           N == Len(s)
           D == 1..N
           cs == computeSessions
           n == Len(cs)
           K == 1..n
           L == [i \in DOMAIN cs |-> ClusterRow(cs[i])]
           ft == Tok(s)
           fp == Price(s)
<1>1. N \in Nat /\ DOMAIN s = D /\ IsFiniteSet(D) /\ N # 0
  BY FS_Interval DEF EventsAre
<1>2. \A i \in D : /\ s[i].ts \in Nat /\ Tokens(s[i]) \in Nat /\ s[i].cost \in Nat
                   /\ ft[i] = Tokens(s[i]) /\ fp[i] = s[i].cost
  BY SMTT(20) DEF EventsAre, Tok, Price, Tokens
<1>3. Sum(ft, D) = AllTokens(R) /\ Sum(fp, D) = AllCost(R)
  BY DEF EventsAre
<1>4. PICK cut : CutAt(cs, cut, N, s)
  BY SessionsCut
<1>5. n \in Nat /\ DOMAIN cs = K /\ cut \in [0..n -> 0..N] /\ cut[0] = 0 /\ cut[n] = N
  BY <1>4, CutIs
<1>6. \A i \in K : /\ cut[i - 1] < cut[i]
                   /\ cs[i].start = s[cut[i - 1] + 1].ts /\ cs[i].end = s[cut[i]].ts
  BY <1>4, CutIs
<1>7. \A i \in K :
         LET es == cs[i].events IN
         /\ Len(es) = cut[i] - cut[i - 1] /\ Len(es) \in Nat \ {0} /\ DOMAIN es = 1..Len(es)
         /\ \A j \in 1..Len(es) : es[j] = s[cut[i - 1] + j] /\ cut[i - 1] + j \in D
  BY <1>4, CutIs
<1>8. L = [i \in DOMAIN cs |-> ClusterRow(cs[i])]
  OBVIOUS
<1> DEFINE h == [i \in D |-> CHOOSE c \in K : cut[c - 1] < i /\ i <= cut[c]]
<1>9. \A i \in D : h[i] = CHOOSE c \in K : cut[c - 1] < i /\ i <= cut[c]
  OBVIOUS
<1>10. /\ \A i \in D : \E c \in K : cut[c - 1] < i /\ i <= cut[c]
      /\ \A i \in D : \A c, d \in K :
              cut[c - 1] < i /\ i <= cut[c] /\ cut[d - 1] < i /\ i <= cut[d] => c = d
  <2>1. N \in Nat /\ \A i \in 1..n : cut[i - 1] < cut[i]
    BY <1>1, <1>6
  <2> HIDE DEF s, cs, N, n
  <2> QED
    BY <1>5, <2>1, Parts, ZenonT(40)
<1>11. IsFiniteSet(K)
  BY <1>5, FS_Interval
<1>12. \A i \in K : i - 1 \in 0..n /\ i \in 0..n
  BY <1>5
<1>13. n # 0
  BY <1>1, <1>5
<1> HIDE DEF s, cs, h, ft, fp, L, n
<1>14. \A i \in K : cut[i - 1] \in 0..N /\ cut[i] \in 0..N
  BY <1>5, <1>12
<1>15. \A i \in D : h[i] \in K /\ cut[h[i] - 1] < i /\ i <= cut[h[i]]
  BY <1>9, <1>10
<1> HIDE DEF K
<1>16. ASSUME NEW c \in K
       PROVE  /\ L[c].start \in Nat /\ L[c].end \in Nat /\ L[c].total \in Nat /\ L[c].cost \in Nat
              /\ L[c].total = Sum(ft, Class(D, h, c)) /\ L[c].cost = Sum(fp, Class(D, h, c))
  <2> DEFINE es == cs[c].events
             a == cut[c - 1]
             b == cut[c]
             k == Len(es)
             T == Class(D, h, c)
             gt == [j \in DOMAIN es |-> Tokens(es[j])]
             gp == [j \in DOMAIN es |-> es[j].cost]
  <2>1. a \in 0..N /\ b \in 0..N /\ a < b
    BY <1>6, <1>14
  <2>2. /\ k = b - a /\ k \in Nat \ {0} /\ DOMAIN es = 1..k
        /\ \A j \in 1..k : es[j] = s[a + j] /\ a + j \in D
    BY <1>7
  <2>3. cs[c].start = s[a + 1].ts /\ cs[c].end = s[b].ts
    BY <1>6
  <2>4. \A i \in D : h[i] = c <=> a < i /\ i <= b
    BY <1>10, <1>15
  <2>5. T = {i \in D : h[i] = c}
    BY DEF Class
  <2>6. L[c] = [start |-> cs[c].start, end |-> cs[c].end, cost |-> Sum(gp, DOMAIN es), total |-> Sum(gt, DOMAIN es)]
    BY <1>5, <1>8 DEF ClusterRow
  <2>7. \A j \in DOMAIN es : gt[j] = Tokens(es[j]) /\ gp[j] = es[j].cost
    OBVIOUS
  <2> HIDE DEF es, a, b, k, T, gt, gp
  <2>8. (\A i \in T : \E j \in 1..k : i = a + j) /\ \A j \in 1..k : a + j \in T
    <3>1. ASSUME NEW i \in T PROVE \E j \in 1..k : i = a + j
      <4>1. i \in D /\ a < i /\ i <= b
        BY <2>4, <2>5, <3>1
      <4>2. i - a \in 1..k /\ i = a + (i - a)
        BY <1>1, <2>1, <2>2, <4>1
      <4> QED
        BY <4>2
    <3>2. ASSUME NEW j \in 1..k PROVE a + j \in T
      <4>1. a + j \in D /\ a < a + j /\ a + j <= b
        BY <1>1, <2>1, <2>2
      <4> QED
        BY <2>4, <2>5, <4>1
    <3> QED
      BY <3>1, <3>2
  <2>9. \A j \in 1..k : /\ gt[j] \in Nat /\ ft[a + j] = gt[j] /\ gp[j] \in Nat /\ fp[a + j] = gp[j]
    BY <1>2, <2>2, <2>7
  <2>10. k \in Nat /\ a \in Nat /\ IsFiniteSet(1..k)
    BY <2>1, <2>2, FS_Interval
  <2> DEFINE P == 1..k
             at == [j \in P |-> a + j]
  <2>a. \A j \in P : at[j] = a + j
    OBVIOUS
  <2>b. \A x, y \in P : at[x] = at[y] => x = y
    BY <2>10
  <2> HIDE DEF at
  <2>c. (\A i \in T : \E j \in P : i = at[j]) /\ \A j \in P : at[j] \in T
    BY <2>8, <2>a
  <2>d. (\A j \in P : gt[j] \in Int /\ ft[at[j]] = gt[j]) /\ \A j \in P : gp[j] \in Int /\ fp[at[j]] = gp[j]
    BY <2>9, <2>a
  <2>e. IsFiniteSet(P)
    BY <2>10
  <2> HIDE DEF P
  <2>t. \A j \in P : gt[j] \in Int /\ ft[at[j]] = gt[j]
    BY <2>d
  <2>p. \A j \in P : gp[j] \in Int /\ fp[at[j]] = gp[j]
    BY <2>d
  <2>f. Sum(ft, {at[x] : x \in P}) = Sum(gt, P)
    BY <2>b, <2>e, <2>t, SumRenamed
  <2>g. Sum(fp, {at[x] : x \in P}) = Sum(gp, P)
    BY <2>b, <2>e, <2>p, SumRenamed
  <2>h. {at[x] : x \in P} = T
    BY <2>c
  <2>11. Sum(gt, P) = Sum(ft, T)
    BY <2>f, <2>h
  <2>12. Sum(gp, P) = Sum(fp, T)
    BY <2>g, <2>h
  <2>13. Sum(gt, 1..k) \in Nat /\ Sum(gp, 1..k) \in Nat
    BY <2>9, <2>10, SumNat
  <2>14. s[a + 1].ts \in Nat /\ s[b].ts \in Nat
    <3>1. a + 1 \in D /\ b \in D
      BY <1>1, <2>1
    <3> QED
      BY <1>2, <3>1
  <2>15. L[c].start = cs[c].start /\ L[c].end = cs[c].end /\ L[c].cost = Sum(gp, 1..k) /\ L[c].total = Sum(gt, 1..k)
    BY <2>2, <2>6
  <2> QED
    BY <2>3, <2>11, <2>12, <2>13, <2>14, <2>15 DEF T, P
<1>17. DOMAIN L = 1..n /\ Len(L) = n /\ L \in Seq(ToSet(L))
  <2>1. DOMAIN L = 1..n /\ L = [i \in 1..n |-> L[i]]
    BY <1>5, <1>8 DEF K
  <2>2. L \in [1..n -> ToSet(L)]
    BY <2>1 DEF ToSet
  <2> QED
    BY <1>5, <2>1, <2>2
<1> DEFINE gt == [i \in K |-> L[i].total]
           gp == [i \in K |-> L[i].cost]
<1>18. \A i \in K : gt[i] = Sum(ft, Class(D, h, i)) /\ gp[i] = Sum(fp, Class(D, h, i))
  BY <1>16
<1>19. Sum(gt, K) = Sum(ft, D) /\ Sum(gp, K) = Sum(fp, D)
  <2> HIDE DEF gt, gp, D
  <2>1. (\A i \in D : h[i] \in K) /\ (\A i \in D : ft[i] \in Int) /\ (\A i \in D : fp[i] \in Int)
    BY <1>2, <1>15
  <2>2. IsFiniteSet(D)
    BY <1>1
  <2>3. Sum(gt, K) = Sum(ft, D)
    BY <1>11, <1>18, <2>1, <2>2, SumByClass
  <2>4. Sum(gp, K) = Sum(fp, D)
    BY <1>11, <1>18, <2>1, <2>2, SumByClass
  <2> QED
    BY <2>3, <2>4
<1>20. ListAre(L, R)
  BY <1>3, <1>5, <1>16, <1>17, <1>19 DEF ListAre, K
<1> QED
  BY <1>13, <1>17, <1>20 DEF L, cs

\* The records that the list of an override is of.
ListedBy(override) == IF override = <<>> THEN synth.records ELSE Listed(synth)

LEMMA ListHolds ==
  ASSUME IInv, Mounted, NEW override \in {synth.sessions, <<>>}
  PROVE  ListAre(SessionsList(override), ListedBy(override)) /\ SessionsList(override) # <<>>
<1>1. EventsAre(events, synth.records) /\ synth.records \in Answers /\ events # <<>>
  BY EventsOfState DEF Mounted, events
<1>2. CASE override = <<>>
  <2>1. /\ SessionsList(override) = [i \in DOMAIN computeSessions |-> ClusterRow(computeSessions[i])]
        /\ ListedBy(override) = synth.records
    BY <1>2 DEF SessionsList, ListedBy
  <2> QED
    BY <1>1, <2>1, ClustersHold
<1>3. CASE override # <<>>
  <2> DEFINE q == session_rows(synth.records)
             L == [i \in DOMAIN q |-> SessionRow(q[i])]
  <2>1. synth = backendDashToShape(synth.records)
    BY DEF IInv
  <2>2. override = q
    <3>1. \A R : backendDashToShape(R).sessions = session_rows(R)
      BY DEF backendDashToShape
    <3> QED
      BY <1>3, <2>1, <3>1
  <2>3. SessionsList(override) = L
    BY <1>3, <2>2 DEF SessionsList
  <2>l. ListedBy(override) = Named(synth.records, q)
    BY <1>3, <2>2 DEF ListedBy, Listed, Named
  <2>4. ListAre(L, Named(synth.records, q)) /\ DOMAIN q = 1..Len(q) /\ Len(q) \in Nat /\ q \in Seq(ToSet(q))
    BY <1>1, SessionsHold
  <2>5. q # <<>>
    BY <1>3, <2>2
  <2> HIDE DEF q
  <2>6. L # <<>>
    <3>1. DOMAIN q # {}
      BY <2>4, <2>5
    <3>2. DOMAIN L # {}
      BY <3>1
    <3> QED
      BY <3>2
  <2> QED
    BY <2>3, <2>4, <2>6, <2>l
<1> QED
  BY <1>2, <1>3

-----------------------------------------------------------------------------
(* The totals.                                                             *)

LEMMA ChartIs ==
  ASSUME IInv, Mounted
  PROVE  /\ range.start = events[1].ts /\ range.end = Last(events).ts + 1
         /\ range.start \in Nat /\ span \in Nat \ {0}
         /\ binMs \in Nat \ {0} /\ nBins \in Nat \ {0}
         /\ span <= nBins * binMs /\ (nBins - 1) * binMs < span
         /\ \A i \in 1..Len(events) : range.start <= events[i].ts /\ events[i].ts < range.start + span
<1> DEFINE R == synth.records
           q == hourly(R)
<1>1. EventsAre(events, R) /\ R \in Answers /\ events # <<>> /\ synth = backendDashToShape(R)
  BY EventsOfState DEF Mounted, events, IInv
<1>2. \A S : /\ backendDashToShape(S).range = rangeOf(hourly(S))
             /\ backendDashToShape(S).events = [i \in DOMAIN hourly(S) |-> [hourly(S)[i] EXCEPT !.model = Short[@]]]
  BY DEF backendDashToShape
<1>3. range = rangeOf(q) /\ events = [i \in DOMAIN q |-> [q[i] EXCEPT !.model = Short[@]]]
  BY <1>1, <1>2 DEF range, events
<1>4. Len(q) \in Nat /\ DOMAIN q = 1..Len(q)
  BY <1>1, HourlyIs
<1>5. \A i \in DOMAIN q : q[i] = [ts |-> q[i].ts, model |-> q[i].model,
                      input  |-> Sum([r \in R |-> r.input], Hour(R, i)),
                      output |-> Sum([r \in R |-> r.output], Hour(R, i)),
                      cr     |-> Sum([r \in R |-> r.cr], Hour(R, i)),
                      cost   |-> Sum([r \in R |-> cost_usd(r)], Hour(R, i))]
  BY <1>1, HourlyIs
<1>6. Len(events) = Len(q) /\ \A i \in 1..Len(events) : q[i].ts = events[i].ts
  <2> HIDE DEF q
  <2>1. DOMAIN events = 1..Len(q) /\ Len(events) \in Nat /\ DOMAIN events = 1..Len(events)
    BY <1>1, <1>3, <1>4 DEF EventsAre
  <2>2. Len(events) = Len(q)
    BY <1>4, <2>1
  <2>3. ASSUME NEW i \in 1..Len(events) PROVE q[i].ts = events[i].ts
    <3>1. i \in DOMAIN q
      BY <1>4, <2>2
    <3>2. events[i] = [q[i] EXCEPT !.model = Short[@]]
      BY <1>3, <3>1
    <3> DEFINE x == q[i]
               t == x.ts
               m == x.model
               a == Sum([r \in R |-> r.input], Hour(R, i))
               b == Sum([r \in R |-> r.output], Hour(R, i))
               c == Sum([r \in R |-> r.cr], Hour(R, i))
               d == Sum([r \in R |-> cost_usd(r)], Hour(R, i))
    <3>3. x = [ts |-> t, model |-> m, input |-> a, output |-> b, cr |-> c, cost |-> d] /\ t = x.ts
      BY <1>5, <3>1
    <3>4. events[i] = [x EXCEPT !.model = Short[@]]
      BY <3>2
    <3> HIDE DEF x, t, m, a, b, c, d
    <3>5. events[i].ts = x.ts
      BY <3>3, <3>4
    <3> QED
      BY <3>5 DEF x
  <2> QED
    BY <2>2, <2>3
<1> HIDE DEF R
<1> QED
  BY <1>1, <1>3, <1>6, Widths

LEMMA SeriesAgree ==
  ASSUME IInv, Mounted
  PROVE  LET R == synth.records IN
         /\ cumPts("_t", nBins - 1) = AllTokens(R) /\ cumPts("cost_usd", nBins - 1) = AllCost(R)
         /\ \A k \in 0 .. nBins - 1 :
              bins("_t", k) = Sum([i \in DOMAIN events |-> Tokens(events[i])], InBar(k))
<1> DEFINE R == synth.records
           vt == "_t"
           vc == "cost_usd"
<1>1. EventsAre(events, R)
  BY EventsOfState
<1>2. /\ range.start \in Nat /\ span \in Nat
      /\ binMs \in Nat \ {0} /\ nBins \in Nat \ {0}
      /\ span <= nBins * binMs
      /\ \A i \in 1..Len(events) : range.start <= events[i].ts /\ events[i].ts < range.start + span
  BY ChartIs
<1>3. DOMAIN events = 1..Len(events) /\ \A i \in 1..Len(events) : Tokens(events[i]) \in Nat /\ events[i].cost \in Nat
  BY <1>1 DEF EventsAre, Tokens
<1>4. \A e : ValueOf(e, vt) = Tokens(e) /\ ValueOf(e, vc) = e.cost
  BY DEF ValueOf
<1>5. Sum(Tok(events), 1..Len(events)) = AllTokens(R) /\ Sum(Price(events), 1..Len(events)) = AllCost(R)
  BY <1>1 DEF EventsAre
<1> HIDE DEF R, vt, vc
<1>6. Values(vt) = Tok(events) /\ Values(vc) = Price(events)
  BY <1>4 DEF Values, Tok, Price
<1>7. \A i \in 1..Len(events) : ValueOf(events[i], vt) \in Nat
  BY <1>3, <1>4
<1>8. \A i \in 1..Len(events) : ValueOf(events[i], vc) \in Nat
  BY <1>3, <1>4
<1>9. /\ cumPts(vt, nBins - 1) = Sum(Values(vt), 1..Len(events))
      /\ \A k \in 0..(nBins - 1) : bins(vt, k) = Sum(Values(vt), InBar(k))
  BY <1>1, <1>2, <1>7, BarsAdd
<1>10. cumPts(vc, nBins - 1) = Sum(Values(vc), 1..Len(events))
  BY <1>1, <1>2, <1>8, BarsAdd
<1> QED
  BY <1>5, <1>6, <1>9, <1>10 DEF R, vt, vc, Tok

LEMMA BreakdownAgrees ==
  ASSUME IInv
  PROVE  LET R     == synth.records
             kinds == breakdown(events, "")
         IN  /\ Sum([r \in kinds |-> r.value], kinds) = AllTokens(R)
             /\ Sum([r \in kinds |-> r.cost], kinds) = AllCost(R)
<1> DEFINE none == ""
<1>1. filtered(events, none) = DOMAIN events
  BY DEF filtered
<1>2. EventsAre(events, synth.records)
  BY EventsOfState
<1> HIDE DEF none
<1> DEFINE kinds == breakdown(events, none)
<1>3. kinds = breakdown(events, none)
  OBVIOUS
<1> HIDE DEF kinds
<1>4. /\ Sum([r \in kinds |-> r.value], kinds) = AllTokens(synth.records)
      /\ Sum([r \in kinds |-> r.cost], kinds) = AllCost(synth.records)
  BY <1>1, <1>2, <1>3, KindsAdd
<1> QED
  BY <1>4 DEF kinds, none

LEMMA ModelsAgree ==
  ASSUME IInv
  PROVE  LET models == Rows(synth, "", "models")
         IN  Sum([i \in DOMAIN models |-> models[i].value], DOMAIN models) = AllCost(synth.records)
<1> DEFINE none == ""
<1>1. synth.records \in Answers /\ synth = backendDashToShape(synth.records)
  BY EventsOfState DEF IInv
<1> HIDE DEF none
<1> DEFINE models == Rows(synth, none, "models")
<1>2. models = Rows(synth, none, "models")
  OBVIOUS
<1> HIDE DEF models
<1>3. Sum([i \in DOMAIN models |-> models[i].value], DOMAIN models) = AllCost(synth.records)
  BY <1>1, <1>2, ModelsAdd
<1> QED
  BY <1>3 DEF models, none

LEMMA ListsAgree ==
  ASSUME IInv, Mounted, NEW override \in {synth.sessions, <<>>}
  PROVE  LET list == SessionsList(override) IN
         /\ Sum([i \in DOMAIN list |-> list[i].total], DOMAIN list) = AllTokens(ListedBy(override))
         /\ Sum([i \in DOMAIN list |-> list[i].cost], DOMAIN list) = AllCost(ListedBy(override))
BY ListHolds DEF ListAre

\* The limit leaves out nothing, or what is not dearer than what is listed.
LEMMA LimitLeavesOut ==
  ASSUME IInv
  PROVE  /\ Listed(synth) = synth.records \/ Len(synth.sessions) = SessionLimit
         /\ \A r \in synth.records \ Listed(synth), s \in ToSet(synth.sessions) :
              AllCost(Of(synth.records, r.session)) <= s.cost
<1> DEFINE R == synth.records
           p == session_rows(R)
<1>1. synth.records \in Answers /\ synth = backendDashToShape(synth.records)
  BY DEF IInv, TypeOK
<1>2. \A H : backendDashToShape(H).sessions = session_rows(H)
  BY DEF backendDashToShape
<1>3. synth.sessions = p
  BY <1>1, <1>2
<1>4. /\ Named(R, p) = R \/ Len(p) = SessionLimit
      /\ \A r \in R \ Named(R, p), s \in ToSet(p) : AllCost(Of(R, r.session)) <= s.cost
  BY <1>1, SessionsHold
<1>5. Listed(synth) = Named(R, p)
  BY <1>3 DEF Listed, Named
<1> QED
  BY <1>3, <1>4, <1>5

\* Whatever way the page adds the records up, it arrives at their totals; by session, at
\* those of the sessions that are listed, of which none but the cheapest can be missing, and
\* only beyond the limit (backend/api.py 995-1034; app.jsx 427-496, 558-585, 661-691,
\* 808-861; dashboard-charts.jsx 265-296).
THEOREM TotalsCorrect == Spec => []TotalsAgree
<1>1. ASSUME IInv, Mounted PROVE TotalsAgree
  <2> DEFINE R == synth.records
             shown == Listed(synth)
             models == Rows(synth, "", "models")
             kinds  == breakdown(events, "")
             Lists2(override) ==
               LET list == SessionsList(override)
                   of   == IF override = <<>> THEN R ELSE shown
               IN  /\ Sum([i \in DOMAIN list |-> list[i].total], DOMAIN list) = AllTokens(of)
                   /\ Sum([i \in DOMAIN list |-> list[i].cost], DOMAIN list) = AllCost(of)
  <2>2. /\ cumPts("_t", nBins - 1) = AllTokens(R) /\ cumPts("cost_usd", nBins - 1) = AllCost(R)
        /\ \A k \in 0 .. nBins - 1 :
             bins("_t", k) = Sum([i \in DOMAIN events |-> Tokens(events[i])],
                                 {i \in DOMAIN events : binEnd(k - 1) <= events[i].ts /\ events[i].ts < binEnd(k)})
    BY <1>1, SeriesAgree DEF InBar
  <2>3. Sum([i \in DOMAIN models |-> models[i].value], DOMAIN models) = AllCost(R)
    BY <1>1, ModelsAgree
  <2>4. /\ Sum([r \in kinds |-> r.value], kinds) = AllTokens(R)
        /\ Sum([r \in kinds |-> r.cost], kinds) = AllCost(R)
    BY <1>1, BreakdownAgrees
  <2>5. \A override \in {synth.sessions, <<>>} : Lists2(override)
    BY <1>1, ListsAgree DEF ListedBy
  <2>6. /\ shown = R \/ Len(synth.sessions) = SessionLimit
        /\ \A r \in R \ shown, s \in ToSet(synth.sessions) :
             AllCost({q \in R : q.session = r.session}) <= s.cost
    BY <1>1, LimitLeavesOut DEF Of
  <2> QED
    BY <2>2, <2>3, <2>4, <2>5, <2>6 DEF TotalsAgree, AllTokens, AllCost
<1>2. IInv => TotalsAgree
  BY <1>1 DEF TotalsAgree
<1> QED
  BY <1>2, Invariant, PTL

-----------------------------------------------------------------------------
(* What the mouse points at.                                               *)

\* The bar whose middle is nearest to x is bar k, when x is on it: b is the width of a bar
\* in time, s the range, n how many bars, W the plot's width and w twenty times a bar's.
LEMMA NearestBar ==
  ASSUME NEW b \in Nat \ {0}, NEW s \in Nat \ {0}, NEW n \in Nat \ {0}, NEW W \in Nat \ {0}, NEW w \in Nat,
         s <= n * b, (n - 1) * b < s, 20 * n <= 18 * W, w * n <= 18 * W, 18 * W < (w + 1) * n,
         NEW k \in 0..(n - 1), NEW x \in Nat,
         20 * k * W * b <= 20 * x * s, 20 * x * s <= 20 * k * W * b + w * s
  PROVE  /\ 20 * x <= 20 * W + w
         /\ ((20 * x - w \div 2) * s + (20 * W * b) \div 2) \div (20 * W * b) = k
<1> DEFINE h == w \div 2
           B == W * b
           N == n * b
           P == 20 * B
           X == x * s
           U == (20 * x - h) * s + P \div 2
<1>1. B \in Nat \ {0} /\ N \in Nat \ {0} /\ X \in Nat
  BY DEF B, N, X
<1>2. h \in Nat /\ 2 * h <= w /\ w <= 2 * h + 1
  OBVIOUS
<1>3. 20 * W * b = P /\ 20 * x * s = 20 * X /\ 20 * k * W * b = 20 * (k * B)
  OBVIOUS
<1>4. s <= N
  OBVIOUS
<1>5. k * b < s
  <2>1. k <= n - 1 /\ k \in Nat /\ n - 1 \in Nat
    OBVIOUS
  <2>2. k * b <= (n - 1) * b
    BY <2>1
  <2> QED
    BY <2>1, <2>2
<1>6. w * s <= w * N
  BY <1>1, <1>4
<1>7. w * N = (w * n) * b /\ (w + 1) * N = (w * n) * b + n * b
  OBVIOUS
<1>8. (w * n) * b <= (18 * W) * b /\ (18 * W) * b = 18 * B
  OBVIOUS
<1>9. 20 * (n * b) <= 18 * B
  <2>1. (20 * n) * b <= (18 * W) * b
    OBVIOUS
  <2> QED
    BY <2>1
<1>10. k * B < W * s
  <2>1. k * B = W * (k * b)
    OBVIOUS
  <2>2. W * (k * b) < W * s
    <3> DEFINE y == k * b
    <3>1. y \in Nat /\ y < s
      BY <1>5
    <3> HIDE DEF y
    <3>2. W * y < W * s
      BY <3>1
    <3> QED
      BY <3>2 DEF y
  <2> QED
    BY <2>1, <2>2
<1>11. 20 * x <= 20 * W + w
  <2> SUFFICES ASSUME 20 * W + w < 20 * x PROVE FALSE
    OBVIOUS
  <2>1. (20 * W + w) * s < (20 * x) * s
    OBVIOUS
  <2>2. (20 * W + w) * s = 20 * (W * s) + w * s /\ (20 * x) * s = 20 * X
    OBVIOUS
  <2>3. 20 * X <= 20 * (k * B) + w * s
    BY <1>3
  <2> DEFINE ws == w * s
             Ws == W * s
             kB == k * B
  <2>4. ws \in Nat /\ Ws \in Nat /\ kB \in Nat
    BY <1>1
  <2> HIDE DEF ws, Ws, kB, X
  <2> QED
    BY <1>1, <1>10, <2>1, <2>2, <2>3, <2>4 DEF ws, Ws, kB
<1> DEFINE hs == h * s
           ws == w * s
           kB == k * B
<1>12. hs \in Nat /\ ws \in Nat /\ kB \in Nat
  BY <1>1, <1>2
<1>13. 2 * hs <= ws /\ ws <= 2 * hs + s
  <2>1. (2 * h) * s <= w * s /\ w * s <= (2 * h + 1) * s
    BY <1>2
  <2>2. (2 * h) * s = 2 * (h * s) /\ (2 * h + 1) * s = 2 * (h * s) + s
    BY <1>2
  <2> QED
    BY <2>1, <2>2
<1>14. ws <= 18 * B /\ 20 * s <= 18 * B
  <2>1. w * s <= 18 * B
    BY <1>1, <1>6, <1>7, <1>8
  <2>2. 20 * s <= 20 * N
    BY <1>1, <1>4
  <2> QED
    BY <1>1, <1>9, <2>1, <2>2
<1>15. P \div 2 = 10 * B
  BY <1>1
<1>16. (20 * x - h) * s = 20 * X - hs
  BY <1>2
<1>17. U = 20 * X - hs + 10 * B
  BY <1>15, <1>16
<1>18. 20 * kB <= 20 * X /\ 20 * X <= 20 * kB + ws
  BY <1>3
<1> HIDE DEF hs, ws, kB, X, U
<1>19. U \in Nat /\ 20 * kB <= U /\ U < 20 * kB + 20 * B
  BY <1>1, <1>12, <1>13, <1>14, <1>17, <1>18 DEF B
<1>20. 20 * kB = k * P /\ 20 * kB + 20 * B = (k + 1) * P /\ P \in Nat \ {0}
  BY <1>1 DEF kB
<1>21. k * P <= U /\ U < (k + 1) * P
  BY <1>19, <1>20
<1> HIDE DEF P
<1>22. k <= (U \div P) /\ (U \div P) <= k /\ (U \div P) \in Nat
  <2>1. k \in Nat
    OBVIOUS
  <2>2. U \in Nat
    BY <1>19
  <2>3. P \in Nat \ {0}
    BY <1>20
  <2> QED
    BY <1>21, <2>1, <2>2, <2>3, DivBetween
<1>23. U \div P = k
  BY <1>22
<1>24. U \div P = ((20 * x - w \div 2) * s + (20 * W * b) \div 2) \div (20 * W * b)
  BY <1>3 DEF U, h
<1> QED
  BY <1>11, <1>23, <1>24

LEMMA BarFollows == ASSUME IInv PROVE BarUnderMouse
<1> SUFFICES ASSUME Mounted, 18 * PlotW >= 20 * nBins,
                    NEW k \in 0 .. nBins - 1, NEW x \in 0 .. 2 * PlotW,
                    20 * k * PlotW * binMs <= 20 * x * span,
                    20 * x * span <= 20 * k * PlotW * binMs + barW20 * span
             PROVE  Followed(x) /\ BinAt(x) = k
  BY DEF BarUnderMouse
<1> DEFINE W == PlotW
           n == nBins
           s == span
           b == binMs
           w == barW20
           q == (18 * W) \div n
<1>1. /\ s \in Nat \ {0} /\ b \in Nat \ {0} /\ n \in Nat \ {0}
      /\ s <= n * b /\ (n - 1) * b < s
  BY ChartIs
<1>2. W \in Nat \ {0}
  BY OverviewAssumption
<1>3. w = Max({20, q})
  BY DEF barW20
<1>4. /\ 20 * n <= 18 * W /\ k \in 0..(n - 1) /\ x \in 0..(2 * W)
      /\ 20 * k * W * b <= 20 * x * s /\ 20 * x * s <= 20 * k * W * b + w * s
  <2>1. 18 * W >= 20 * n
    OBVIOUS
  <2>2. 20 * n <= 18 * W
    BY <1>1, <1>2, <2>1
  <2> QED
    BY <2>2
<1>5. Followed(x) <=> 20 * x <= 20 * W + w
  BY DEF Followed
<1>6. BinAt(x) = Max({0, Min({((20 * x - w \div 2) * s + (20 * W * b) \div 2) \div (20 * W * b), n - 1})})
  BY DEF BinAt
<1> HIDE DEF n, s, b, w, W
<1>7. 18 * W \in Nat /\ n \in Nat \ {0}
  BY <1>1, <1>2
<1>8. q \in Nat /\ q * n <= 18 * W /\ 18 * W < (q + 1) * n
  BY <1>7, DivBounds
<1> HIDE DEF q
<1>9. q >= 20
  <2> SUFFICES ASSUME q + 1 <= 20 PROVE FALSE
    BY <1>8
  <2>1. (q + 1) * n <= 20 * n
    BY <1>7, <1>8
  <2>2. (q + 1) * n \in Nat
    BY <1>7, <1>8
  <2> QED
    BY <1>4, <1>7, <1>8, <2>1, <2>2
<1>10. w = q
  <2>1. Max({20, q}) = IF 20 >= q THEN 20 ELSE q
    BY <1>8, MaxOfTwo
  <2> QED
    BY <1>3, <1>8, <1>9, <2>1
<1>11. w \in Nat /\ w * n <= 18 * W /\ 18 * W < (w + 1) * n
  BY <1>8, <1>10
<1>12. x \in Nat
  BY <1>4
<1>13. /\ 20 * x <= 20 * W + w
       /\ ((20 * x - w \div 2) * s + (20 * W * b) \div 2) \div (20 * W * b) = k
  BY <1>1, <1>2, <1>4, <1>11, <1>12, NearestBar
<1>14. BinAt(x) = Max({0, Min({k, n - 1})})
  BY <1>6, <1>13
<1>15. k \in Nat /\ n - 1 \in Nat /\ k <= n - 1
  BY <1>1, <1>4
<1>16. Min({k, n - 1}) = k
  <2>1. Min({k, n - 1}) = IF k <= n - 1 THEN k ELSE n - 1
    BY <1>15, MinOfTwo
  <2> QED
    BY <1>15, <2>1
<1>17. Max({0, k}) = k
  <2>1. Max({0, k}) = IF 0 >= k THEN 0 ELSE k
    BY <1>15, MaxOfTwo
  <2> QED
    BY <1>15, <2>1
<1> QED
  BY <1>5, <1>13, <1>14, <1>16, <1>17

Away(d) == Max({d, -d})

\* A point between two neighbours m[i] and m[i + 1] is not nearer to any other, and is
\* nearest to the one on its side of the middle.
LEMMA NearestEnd ==
  ASSUME NEW D \in Nat \ {0}, NEW n \in Nat, NEW m \in [1..n -> Nat],
         \A a, c \in 1..n : a < c => m[a] <= m[c],
         NEW i \in 1..(n - 1), NEW s \in 0..(D - 1),
         NEW at, at = m[i] * (D - s) + m[i + 1] * s,
         NEW src, src = IF 2 * s < D THEN i ELSE i + 1
  PROVE  /\ \A j \in 1..n : Away(at - D * m[src]) <= Away(at - D * m[j])
         /\ D * m[i] <= at /\ at <= D * m[i + 1]
<1> DEFINE x == m[i]
           y == m[i + 1]
           e == s * (y - x)
           f == (D - s) * (y - x)
<1>1. i \in 1..n /\ i + 1 \in 1..n
  OBVIOUS
<1>2. x \in Nat /\ y \in Nat /\ x <= y
  BY <1>1
<1>3. s \in Nat /\ D - s \in Nat /\ D \in Nat
  OBVIOUS
<1> HIDE DEF x, y
<1>4. e \in Nat /\ f \in Nat
  <2>1. y - x \in Nat
    BY <1>2
  <2> DEFINE d == y - x
  <2> HIDE DEF d
  <2>2. s * d \in Nat /\ (D - s) * d \in Nat
    BY <1>3, <2>1, SMTT(20) DEF d
  <2> QED
    BY <2>2 DEF d
<1>5. at = D * x + e /\ at = D * y - f
  <2>1. at = x * (D - s) + y * s
    BY DEF x, y
  <2>2. x * (D - s) = x * D - x * s
    BY <1>2, <1>3
  <2>3. s * (y - x) = y * s - x * s
    BY <1>2, <1>3
  <2>4. (D - s) * (y - x) = D * y - D * x - (y * s - x * s)
    BY <1>2, <1>3
  <2>5. x * D = D * x /\ x * D \in Nat /\ x * s \in Nat /\ y * s \in Nat /\ D * y \in Nat
    BY <1>2, <1>3
  <2> DEFINE xs == x * s
             ys == y * s
             xD == x * D
             Dx == D * x
             Dy == D * y
  <2>6. at = (xD - xs) + ys /\ e = ys - xs /\ f = Dy - Dx - (ys - xs) /\ xD = Dx
    BY <2>1, <2>2, <2>3, <2>4, <2>5
  <2>7. xD \in Nat /\ xs \in Nat /\ ys \in Nat /\ Dy \in Nat
    BY <2>5
  <2> HIDE DEF xs, ys, xD, Dx, Dy, e, f
  <2>8. at = Dx + e /\ at = Dy - f
    BY <2>6, <2>7, SMTT(20)
  <2> QED
    BY <2>8 DEF Dx, Dy
<1>6. 2 * s < D => e <= f
  <2> SUFFICES ASSUME 2 * s < D PROVE e <= f
    OBVIOUS
  <2>1. s <= D - s
    BY <1>3
  <2> DEFINE d == y - x
  <2>2. d \in Nat
    BY <1>2
  <2> HIDE DEF d
  <2>3. s * d <= (D - s) * d
    BY <1>3, <2>1, <2>2
  <2> QED
    BY <2>3 DEF d
<1>7. ~(2 * s < D) => f <= e
  <2> SUFFICES ASSUME ~(2 * s < D) PROVE f <= e
    OBVIOUS
  <2>1. D - s <= s
    BY <1>3
  <2> DEFINE d == y - x
  <2>2. d \in Nat
    BY <1>2
  <2> HIDE DEF d
  <2>3. (D - s) * d <= s * d
    BY <1>3, <2>1, <2>2
  <2> QED
    BY <2>3 DEF d
<1>8. ASSUME NEW d \in Int PROVE Away(d) = IF d >= 0 THEN d ELSE -d
  <2>0. d \in Int /\ -d \in Int
    OBVIOUS
  <2>1. Max({d, -d}) = IF d >= -d THEN d ELSE -d
    BY <2>0, MaxOfTwo
  <2> QED
    BY <2>1 DEF Away
<1> HIDE DEF e, f
<1>9. ASSUME NEW j \in 1..n
      PROVE  /\ m[j] \in Nat /\ D * m[j] \in Nat
             /\ j <= i => D * m[j] <= D * x
             /\ i < j => D * y <= D * m[j]
  <2> DEFINE z == m[j]
  <2>1. z \in Nat
    OBVIOUS
  <2>2. j <= i => z <= x
    <3>1. j = i \/ j < i \/ i < j
      OBVIOUS
    <3> QED
      BY <1>1, <1>2, <3>1 DEF x
  <2>3. i < j => y <= z
    <3>1. i < j => j = i + 1 \/ i + 1 < j
      OBVIOUS
    <3> QED
      BY <1>1, <1>2, <3>1 DEF y
  <2> HIDE DEF z
  <2>4. D * z \in Nat /\ (z <= x => D * z <= D * x) /\ (y <= z => D * y <= D * z)
    BY <1>2, <1>3, <2>1
  <2>5. z \in Nat /\ D * z \in Nat /\ (j <= i => D * z <= D * x) /\ (i < j => D * y <= D * z)
    BY <2>1, <2>2, <2>3, <2>4
  <2> QED
    BY <2>5 DEF z
<1>10. D * x \in Nat /\ D * y \in Nat
  BY <1>2, <1>3
<1>11. Away(at - D * m[src]) = IF 2 * s < D THEN e ELSE f
  <2>1. CASE 2 * s < D
    <3>1. m[src] = x
      BY <2>1 DEF x
    <3>2. at - D * m[src] = e
      BY <1>4, <1>5, <1>10, <3>1
    <3> QED
      BY <1>4, <1>8, <2>1, <3>2
  <2>2. CASE ~(2 * s < D)
    <3>1. m[src] = y
      BY <2>2 DEF y
    <3>2. at - D * m[src] = -f
      BY <1>4, <1>5, <1>10, <3>1
    <3>3. Away(-f) = IF -f >= 0 THEN -f ELSE -(-f)
      BY <1>4, <1>8
    <3> QED
      BY <1>4, <2>2, <3>2, <3>3
  <2> QED
    BY <2>1, <2>2
<1>12. ASSUME NEW j \in 1..n PROVE Away(at - D * m[src]) <= Away(at - D * m[j])
  <2> DEFINE z == D * m[j]
             d == at - z
  <2>1. z \in Nat /\ (j <= i => z <= D * x) /\ (i < j => D * y <= z)
    BY <1>9
  <2> HIDE DEF z
  <2>2. d \in Int
    BY <1>4, <1>5, <1>10, <2>1
  <2>d. d = at - z
    OBVIOUS
  <2> HIDE DEF d
  <2>3. CASE j <= i
    <3>1. d >= e
      BY <1>4, <1>5, <1>10, <2>1, <2>d, <2>3, SMTT(20)
    <3>2. Away(d) = d
      BY <1>4, <1>8, <2>2, <3>1
    <3>3. Away(at - D * m[src]) <= Away(d)
      BY <1>4, <1>6, <1>7, <1>11, <2>2, <3>1, <3>2
    <3> QED
      BY <3>3 DEF z, d
  <2>4. CASE i < j
    <3>1. -d >= f
      <4> DEFINE Dy == D * y
      <4>1. at = Dy - f /\ Dy \in Nat /\ Dy <= z /\ f \in Nat /\ z \in Nat /\ d = at - z
        BY <1>4, <1>5, <1>10, <2>1, <2>d, <2>4
      <4> HIDE DEF Dy
      <4> QED
        BY <4>1
    <3>2. Away(d) = -d
      BY <1>4, <1>8, <2>2, <3>1
    <3>3. Away(at - D * m[src]) <= Away(d)
      BY <1>4, <1>6, <1>7, <1>11, <2>2, <3>1, <3>2, SMTT(20)
    <3> QED
      BY <3>3 DEF z, d
  <2> QED
    BY <2>3, <2>4
<1>13. D * x <= at /\ at <= D * y
  BY <1>4, <1>5, <1>10, SMTT(20)
<1> QED
  BY <1>12, <1>13 DEF x, y

\* The sessions of the burn-rate panel: their middles, in order of time.
LEMMA DataIs ==
  ASSUME IInv, Mounted, NEW override \in {synth.sessions, <<>>}
  PROVE  LET data == sessionData(override) IN
         /\ Len(data) \in Nat \ {0} /\ DOMAIN data = 1..Len(data)
         /\ \A i \in 1..Len(data) : mid2(data[i]) \in Nat
         /\ \A a, c \in 1..Len(data) : a < c => mid2(data[a]) <= mid2(data[c])
<1> DEFINE L == SessionsList(override)
           n == Len(L)
           w == [i \in DOMAIN L |-> mid2(L[i])]
           data == sessionData(override)
<1>1. ListAre(L, ListedBy(override)) /\ L # <<>>
  BY ListHolds
<1>2. data = Sorted(L, w)
  BY DEF sessionData
<1> HIDE DEF L, data
<1>3. n \in Nat /\ DOMAIN L = 1..n /\ n # 0 /\ L \in Seq(ToSet(L))
  BY <1>1 DEF ListAre
<1>4. \A i \in 1..n : mid2(L[i]) \in Nat /\ w[i] = mid2(L[i])
  BY <1>1, <1>3 DEF ListAre, mid2
<1>5. w \in [1..n -> Int]
  <2>1. w \in [1..n -> Nat]
    BY <1>3, <1>4
  <2> QED
    BY <2>1
<1> HIDE DEF w, n
<1>6. data = [m \in 1..n |-> L[Place(w)[m]]]
  BY <1>2, <1>3, <1>5, SortedIs
<1>7. /\ Place(w) \in [1..n -> 1..n]
      /\ \A a, b \in 1..n : a < b => w[Place(w)[a]] <= w[Place(w)[b]]
  BY <1>3, <1>5, PlacesAre
<1>8. DOMAIN data = 1..n /\ Len(data) = n
  <2>1. DOMAIN data = 1..n /\ data = [m \in 1..n |-> data[m]]
    BY <1>6
  <2>2. data \in [1..n -> {data[m] : m \in 1..n}]
    BY <2>1
  <2> QED
    BY <1>3, <2>1, <2>2
<1>9. \A a \in 1..n : Place(w)[a] \in 1..n /\ data[a] = L[Place(w)[a]]
  BY <1>6, <1>7
<1>10. \A a \in 1..n : mid2(data[a]) \in Nat /\ mid2(data[a]) = w[Place(w)[a]]
  BY <1>4, <1>9
<1>11. \A a, c \in 1..n : a < c => mid2(data[a]) <= mid2(data[c])
  BY <1>7, <1>10
<1> QED
  BY <1>3, <1>8, <1>10, <1>11 DEF data

LEMMA CurveFollows == ASSUME IInv PROVE CurveNamesNearest
<1> SUFFICES ASSUME Mounted, NEW override \in {synth.sessions, <<>>}
             PROVE  LET data == sessionData(override)
                        plot == burnRange(override)
                        off(p, i) == LET d == p.at - DenseSteps * mid2(data[i]) IN Max({d, -d})
                    IN  \A p \in densify(data) :
                          /\ \A i \in DOMAIN data : off(p, p.src) <= off(p, i)
                          /\ mid2(data[1]) # mid2(Last(data)) =>
                               DenseSteps * plot.start <= p.at /\ p.at <= DenseSteps * plot.end
  BY DEF CurveNamesNearest
<1> DEFINE data == sessionData(override)
           n == Len(data)
           m == [i \in 1..n |-> mid2(data[i])]
           D == DenseSteps
           plot == burnRange(override)
           mids == {mid2(s) : s \in ToSet(data)}
<1>1. /\ n \in Nat \ {0} /\ DOMAIN data = 1..n
      /\ \A i \in 1..n : mid2(data[i]) \in Nat
      /\ \A a, c \in 1..n : a < c => mid2(data[a]) <= mid2(data[c])
  BY DataIs
<1>2. D \in Nat \ {0}
  BY OverviewAssumption
<1>3. plot = IF Cardinality(mids) = 1 THEN [start |-> 2 * range.start, end |-> 2 * range.end]
             ELSE [start |-> Min(mids), end |-> Max(mids)]
  BY DEF burnRange
<1>4. ASSUME NEW p \in densify(data)
      PROVE  \/ \E i \in 1..(n - 1), s \in 0..(D - 1) :
                  p = [at |-> mid2(data[i]) * (D - s) + mid2(data[i + 1]) * s,
                       src |-> IF 2 * s < D THEN i ELSE i + 1]
             \/ p = [at |-> D * mid2(data[n]), src |-> n]
  BY <1>4 DEF densify
<1>5. mids = {mid2(data[i]) : i \in 1..n}
  BY <1>1 DEF ToSet
<1>6. Last(data) = data[n]
  BY DEF Last
<1> HIDE DEF data, D, plot, mids
<1>7. \A i \in 1..n : m[i] = mid2(data[i]) /\ m[i] \in Nat
  BY <1>1
<1>8. m \in [1..n -> Nat]
  BY <1>1
<1>9. \A a, c \in 1..n : a < c => m[a] <= m[c]
  BY <1>1, <1>7
<1>10. mids = {m[i] : i \in 1..n}
  BY <1>5, <1>7
<1> HIDE DEF m, n
<1>11. 1 \in 1..n /\ n \in 1..n /\ n \in Nat
  BY <1>1
<1>12. mids \in SUBSET Nat /\ m[1] \in mids /\ m[n] \in mids
  BY <1>7, <1>10, <1>11
<1>13. ASSUME m[1] # m[n]
       PROVE  /\ plot.start \in Nat /\ plot.end \in Nat
              /\ \A i \in 1..n : plot.start <= m[i] /\ m[i] <= plot.end
  <2>1. IsFiniteSet(mids)
    <3>1. IsFiniteSet(1..n)
      BY <1>11, FS_Interval
    <3> QED
      BY <1>10, <3>1, FiniteImage
  <2>2. Cardinality(mids) # 1
    <3> SUFFICES ASSUME Cardinality(mids) = 1 PROVE FALSE
      OBVIOUS
    <3>1. \E x : mids = {x}
      BY <2>1, FS_Singleton
    <3> QED
      BY <1>12, <1>13, <3>1
  <2>3. mids \in SUBSET Int /\ mids # {}
    BY <1>12
  <2>4. /\ Max(mids) \in mids /\ \A y \in mids : y <= Max(mids)
        /\ Min(mids) \in mids /\ \A y \in mids : Min(mids) <= y
    BY <2>1, <2>3, EndsOfFinite
  <2>5. plot.start = Min(mids) /\ plot.end = Max(mids)
    BY <1>3, <2>2
  <2>6. \A i \in 1..n : m[i] \in mids
    BY <1>10
  <2> QED
    BY <1>12, <2>4, <2>5, <2>6
<1>14. ASSUME NEW p \in densify(data)
       PROVE  /\ \A i \in 1..n : Away(p.at - D * m[p.src]) <= Away(p.at - D * m[i])
              /\ p.src \in 1..n
              /\ \E i, j \in 1..n : D * m[i] <= p.at /\ p.at <= D * m[j] /\ p.at \in Nat
  <2>1. CASE p = [at |-> D * mid2(data[n]), src |-> n]
    <3>1. p.at = D * m[n] /\ p.src = n
      BY <1>7, <1>11, <2>1
    <3>2. D * m[n] \in Nat
      BY <1>2, <1>7, <1>11
    <3>3. ASSUME NEW d \in Int PROVE Away(d) = (IF d >= -d THEN d ELSE -d) /\ Away(d) >= 0
      <4>1. d \in Int /\ -d \in Int
        OBVIOUS
      <4>2. Max({d, -d}) = IF d >= -d THEN d ELSE -d
        BY <4>1, MaxOfTwo
      <4> QED
        BY <4>2 DEF Away
    <3>4. ASSUME NEW i \in 1..n PROVE Away(p.at - D * m[p.src]) <= Away(p.at - D * m[i])
      <4>1. D * m[i] \in Nat
        BY <1>2, <1>7
      <4>2. p.at - D * m[p.src] = 0 /\ p.at - D * m[i] \in Int
        BY <3>1, <3>2, <4>1
      <4>3. Away(0) = 0
        BY <3>3
      <4>4. Away(p.at - D * m[i]) >= 0
        BY <3>3, <4>2
      <4> QED
        BY <4>2, <4>3, <4>4
    <3> QED
      BY <1>11, <3>1, <3>2, <3>4
  <2>2. ASSUME NEW i \in 1..(n - 1), NEW s \in 0..(D - 1),
               p = [at |-> mid2(data[i]) * (D - s) + mid2(data[i + 1]) * s,
                    src |-> IF 2 * s < D THEN i ELSE i + 1]
        PROVE  /\ \A j \in 1..n : Away(p.at - D * m[p.src]) <= Away(p.at - D * m[j])
               /\ p.src \in 1..n
               /\ \E a, j \in 1..n : D * m[a] <= p.at /\ p.at <= D * m[j] /\ p.at \in Nat
    <3>1. i \in 1..n /\ i + 1 \in 1..n
      BY <1>11
    <3>2. p.at = m[i] * (D - s) + m[i + 1] * s /\ p.src = IF 2 * s < D THEN i ELSE i + 1
      <4> DEFINE x == mid2(data[i]) * (D - s) + mid2(data[i + 1]) * s
                 y == IF 2 * s < D THEN i ELSE i + 1
      <4>1. p = [at |-> x, src |-> y]
        BY <2>2
      <4>2. x = m[i] * (D - s) + m[i + 1] * s
        BY <1>7, <3>1
      <4> HIDE DEF x
      <4> QED
        BY <4>1, <4>2
    <3> DEFINE at == p.at
               src == p.src
    <3>3. at = m[i] * (D - s) + m[i + 1] * s /\ src = IF 2 * s < D THEN i ELSE i + 1
      BY <3>2
    <3>4. src \in 1..n
      BY <3>1, <3>2
    <3> HIDE DEF at, src
    <3>5. /\ \A j \in 1..n : Away(at - D * m[src]) <= Away(at - D * m[j])
          /\ D * m[i] <= at /\ at <= D * m[i + 1]
      BY <1>2, <1>8, <1>9, <1>11, <3>3, NearestEnd
    <3>6. at \in Nat
      <4>1. D - s \in Nat /\ s \in Nat /\ m[i] \in Nat /\ m[i + 1] \in Nat
        BY <1>2, <1>7, <3>1
      <4>2. m[i] * (D - s) \in Nat /\ m[i + 1] * s \in Nat
        BY <4>1
      <4> QED
        BY <3>3, <4>2
    <3> QED
      BY <3>1, <3>4, <3>5, <3>6 DEF at, src
  <2> QED
    BY <1>4, <2>1, <2>2
<1>15. ASSUME NEW p \in densify(data), mid2(data[1]) # mid2(Last(data))
       PROVE  D * plot.start <= p.at /\ p.at <= D * plot.end
  <2>1. m[1] # m[n]
    BY <1>6, <1>7, <1>11, <1>15
  <2>2. /\ plot.start \in Nat /\ plot.end \in Nat
        /\ \A i \in 1..n : plot.start <= m[i] /\ m[i] <= plot.end
    BY <1>13, <2>1
  <2>3. PICK i \in 1..n, j \in 1..n : D * m[i] <= p.at /\ p.at <= D * m[j] /\ p.at \in Nat
    BY <1>14
  <2>4. \A x, y \in Nat : x <= y => D * x <= D * y /\ D * x \in Nat
    BY <1>2
  <2>5. D * plot.start <= D * m[i] /\ D * m[j] <= D * plot.end
    BY <1>7, <2>2, <2>4
  <2>6. D * plot.start \in Nat /\ D * m[i] \in Nat /\ D * m[j] \in Nat /\ D * plot.end \in Nat
    BY <1>2, <1>7, <2>2
  <2> QED
    BY <2>3, <2>5, <2>6
<1>16. ASSUME NEW p \in densify(data), NEW i \in DOMAIN data
       PROVE  Away(p.at - D * mid2(data[p.src])) <= Away(p.at - D * mid2(data[i]))
  <2>1. i \in 1..n /\ p.src \in 1..n
    BY <1>1, <1>14, <1>16
  <2> QED
    BY <1>7, <1>14, <2>1
<1> QED
  BY <1>15, <1>16 DEF data, D, plot, Away

\* The mouse is told of the bar it is on, and of the session it is nearest to
\* (dashboard-charts.jsx 316-351, 596-704).
THEOREM MouseCorrect == Spec => []UnderMouse
<1>1. IInv => UnderMouse
  BY BarFollows, CurveFollows DEF UnderMouse
<1> QED
  BY <1>1, Invariant, PTL
===============================================================================
