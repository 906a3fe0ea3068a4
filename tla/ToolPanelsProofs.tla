-------------------------- MODULE ToolPanelsProofs --------------------------
(***************************************************************************)
(* The panels of ToolPanels, for any answers and bounds: what they keep is *)
(* of its kind, the boxes follow the user, the charts account for all of   *)
(* the answer and the tooltip says what is drawn.                          *)
(*                                                                         *)
(* All of it rests on Drawn: the panel shows the pivot of an answer it may *)
(* get, and finitely many boxes have been clicked.  PivotIsFine says what  *)
(* may be relied on in a pivot, the lemmas on sums of DataLemmas that its  *)
(* counts add up.                                                          *)
(***************************************************************************)
EXTENDS ToolPanels, DataLemmas

-----------------------------------------------------------------------------
(* Answers and what the memos make of them.                                *)

\* How many of B come before b.
Rank(B, b) == Cardinality({c \in B : c < b})

\* The buckets in order are all of them, one after the other.
LEMMA InOrderOfTime ==
  ASSUME NEW B \in SUBSET Nat, IsFiniteSet(B)
  PROVE  /\ Cardinality(B) \in Nat
         /\ InTime(B) \in Seq(B) /\ Len(InTime(B)) = Cardinality(B)
         /\ ToSet(InTime(B)) = B
         /\ \A i, j \in DOMAIN InTime(B) : i < j => InTime(B)[i] < InTime(B)[j]
<1> DEFINE n == Cardinality(B)
           f == [b \in B |-> Rank(B, b)]
           q == InTime(B)
<1>1. n \in Nat
  BY FS_CardinalityType
<1>2. ASSUME NEW a \in B, NEW b \in B, a < b PROVE Rank(B, a) < Rank(B, b)
  <2> DEFINE A == {c \in B : c < a}
             C == {c \in B : c < b}
  <2>1. IsFiniteSet(C) /\ A \in SUBSET C /\ a \in C /\ a \notin A
    <3>1. C \in SUBSET B
      OBVIOUS
    <3>2. IsFiniteSet(C)
      BY <3>1, FS_Subset
    <3>3. \A x, y, z \in Nat : x < y /\ y < z => x < z
      OBVIOUS
    <3>4. B \subseteq Nat
      OBVIOUS
    <3>5. A \subseteq C
      BY <1>2, <3>3, <3>4
    <3>6. a \in C /\ a \notin A
      BY <1>2
    <3> QED
      BY <3>2, <3>5, <3>6
  <2> HIDE DEF A, C
  <2>2. IsFiniteSet(A) /\ Cardinality(A) <= Cardinality(C) /\ Cardinality(A) # Cardinality(C)
    BY <2>1, FS_Subset
  <2>3. Cardinality(A) \in Nat /\ Cardinality(C) \in Nat
    BY <2>1, <2>2, FS_CardinalityType
  <2>4. Cardinality(A) < Cardinality(C)
    BY <2>2, <2>3
  <2> QED
    BY <2>4 DEF Rank, A, C
<1>3. \A b \in B : Rank(B, b) \in 0..(n - 1)
  <2> SUFFICES ASSUME NEW b \in B PROVE Rank(B, b) \in 0..(n - 1)
    OBVIOUS
  <2> DEFINE C == {c \in B : c < b}
  <2>1. C \in SUBSET B /\ b \in B \ C
    OBVIOUS
  <2> HIDE DEF C
  <2>2. IsFiniteSet(C) /\ Cardinality(C) <= n /\ Cardinality(C) # n
    BY <2>1, FS_Subset
  <2>3. Cardinality(C) \in Nat
    BY <2>2, FS_CardinalityType
  <2>4. Cardinality(C) \in 0..(n - 1)
    BY <1>1, <2>2, <2>3
  <2> QED
    BY <2>4 DEF Rank, C
<1>4. \A a, b \in B : Rank(B, a) = Rank(B, b) => a = b
  <2> SUFFICES ASSUME NEW a \in B, NEW b \in B, Rank(B, a) = Rank(B, b), a # b PROVE FALSE
    OBVIOUS
  <2>1. a < b \/ b < a
    OBVIOUS
  <2>2. Rank(B, a) \in Int
    BY <1>3
  <2> QED
    BY <1>2, <2>1, <2>2
<1>5. f \in Injection(B, 0..(n - 1))
  <2>1. f \in [B -> 0..(n - 1)]
    BY <1>3
  <2> QED
    BY <1>4, <2>1 DEF Injection, IsInjective
<1>6. IsFiniteSet(0..(n - 1)) /\ Cardinality(0..(n - 1)) = n
  <2>1. n - 1 \in Int /\ 0 \in Int
    BY <1>1
  <2>2. IsFiniteSet(0..(n - 1)) /\ Cardinality(0..(n - 1)) = IF 0 > n - 1 THEN 0 ELSE (n - 1) - 0 + 1
    BY <2>1, FS_Interval
  <2> QED
    BY <1>1, <2>2
<1>7. f \in Surjection(B, 0..(n - 1))
  <2> DEFINE T == 0..(n - 1)
  <2>1. f \in Injection(B, T) /\ IsFiniteSet(T) /\ Cardinality(B) = Cardinality(T)
    BY <1>5, <1>6
  <2> HIDE DEF T, f
  <2>2. f \in Surjection(B, T)
    BY <2>1, FS_Injection
  <2> QED
    BY <2>2 DEF T
<1>8. \A i \in 1..n : \E b \in B : Rank(B, b) = i - 1
  <2> SUFFICES ASSUME NEW i \in 1..n PROVE \E b \in B : Rank(B, b) = i - 1
    OBVIOUS
  <2>1. i - 1 \in 0..(n - 1)
    BY <1>1
  <2>2. \E b \in B : f[b] = i - 1
    BY <1>7, <2>1 DEF Surjection
  <2> QED
    BY <2>2
<1>9. q = [i \in 1..n |-> CHOOSE b \in B : Rank(B, b) = i - 1]
  BY DEF InTime, Rank
<1>10. \A i \in 1..n : q[i] \in B /\ Rank(B, q[i]) = i - 1
  BY <1>8, <1>9
<1>11. DOMAIN q = 1..n /\ q \in [1..n -> B]
  BY <1>9, <1>10
<1> HIDE DEF n, q, f
<1>12. q \in Seq(B) /\ Len(q) = n
  BY <1>1, <1>11
<1>13. ToSet(q) = B
  <2>1. ToSet(q) \subseteq B
    BY <1>10, <1>11 DEF ToSet
  <2>2. ASSUME NEW b \in B PROVE \E i \in 1..n : q[i] = b
    <3> DEFINE i == Rank(B, b) + 1
    <3>1. i \in 1..n /\ Rank(B, b) = i - 1
      BY <1>1, <1>3, <2>2
    <3> HIDE DEF i
    <3>2. q[i] = b
      BY <1>4, <1>10, <3>1
    <3> QED
      BY <3>1, <3>2
  <2> QED
    BY <1>11, <2>1, <2>2 DEF ToSet
<1>14. \A i, j \in 1..n : i < j => q[i] < q[j]
  <2> SUFFICES ASSUME NEW i \in 1..n, NEW j \in 1..n, i < j PROVE q[i] < q[j]
    OBVIOUS
  <2>1. q[i] \in B /\ q[j] \in B /\ Rank(B, q[i]) = i - 1 /\ Rank(B, q[j]) = j - 1
    BY <1>10
  <2>2. CASE q[j] < q[i]
    <3>1. Rank(B, q[j]) < Rank(B, q[i])
      BY <1>2, <2>1, <2>2
    <3> QED
      BY <2>1, <3>1
  <2>3. CASE q[j] = q[i]
    BY <2>1, <2>3
  <2>4. q[i] \in Nat /\ q[j] \in Nat
    BY <2>1
  <2> QED
    BY <2>2, <2>3, <2>4
<1> QED
  BY <1>1, <1>11, <1>12, <1>13, <1>14 DEF n, q

\* What an answer is to be.
LEMMA AnswerRows ==
  ASSUME NEW p, NEW R, WellFormed(p, R)
  PROVE  /\ Len(R) \in Nat /\ DOMAIN R = 1..Len(R) /\ IsFiniteSet(DOMAIN R)
         /\ IsFiniteSet(Keys(R)) /\ Keys(R) = {R[i].key : i \in DOMAIN R}
         /\ AGGREGATE \notin Keys(R) /\ Other \notin Keys(R) /\ Sigma \notin Keys(R)
         /\ p # "context" => \A i \in DOMAIN R : /\ R[i].ts \in Nat \ {0} /\ R[i].n \in Nat \ {0}
                                                 /\ R[i].err \in Nat
                                                 /\ p = "errors" => R[i].err <= R[i].n
         /\ p = "context" => \A i \in DOMAIN R : R[i].turns \in Seq(Nat)
         /\ p # "context" => LET B == {r.ts : r \in ToSet(R)}
                             IN  B = {R[i].ts : i \in DOMAIN R} /\ B \in SUBSET Nat /\ IsFiniteSet(B) /\ 0 \notin B
<1>1. R \in Seq(ToSet(R)) /\ \A i \in DOMAIN R : R[i] \in ToSet(R)
  BY DEF WellFormed, ToSet
<1>2. Len(R) \in Nat /\ DOMAIN R = 1..Len(R)
  BY <1>1
<1>3. IsFiniteSet(DOMAIN R)
  BY <1>2, FS_Interval
<1>4. Keys(R) = {R[i].key : i \in DOMAIN R}
  BY DEF Keys, ToSet
<1>5. IsFiniteSet(Keys(R))
  <2> DEFINE h == [i \in DOMAIN R |-> R[i].key]
  <2>1. IsFiniteSet({h[i] : i \in DOMAIN R})
    BY <1>3, FiniteImage
  <2>2. {h[i] : i \in DOMAIN R} = {R[i].key : i \in DOMAIN R}
    OBVIOUS
  <2> QED
    BY <1>4, <2>1, <2>2
<1>6. AGGREGATE \notin Keys(R) /\ Other \notin Keys(R) /\ Sigma \notin Keys(R)
  BY DEF WellFormed, Keys
<1>7. ASSUME p # "context"
      PROVE \A i \in DOMAIN R : /\ R[i].ts \in Nat \ {0} /\ R[i].n \in Nat \ {0} /\ R[i].err \in Nat
                                /\ p = "errors" => R[i].err <= R[i].n
  BY <1>1, <1>7 DEF WellFormed
<1>8. ASSUME p = "context" PROVE \A i \in DOMAIN R : R[i].turns \in Seq(Nat)
  BY <1>1, <1>8 DEF WellFormed
<1>9. ASSUME p # "context"
      PROVE  LET B == {r.ts : r \in ToSet(R)}
             IN  B = {R[i].ts : i \in DOMAIN R} /\ B \in SUBSET Nat /\ IsFiniteSet(B) /\ 0 \notin B
  <2> DEFINE B == {R[i].ts : i \in DOMAIN R}
  <2>1. {r.ts : r \in ToSet(R)} = B
    BY DEF ToSet
  <2>2. B \in SUBSET Nat /\ 0 \notin B
    BY <1>7, <1>9
  <2>3. IsFiniteSet(B)
    <3> DEFINE h == [i \in DOMAIN R |-> R[i].ts]
    <3>1. IsFiniteSet({h[i] : i \in DOMAIN R})
      BY <1>3, FiniteImage
    <3>2. {h[i] : i \in DOMAIN R} = B
      OBVIOUS
    <3> QED
      BY <3>1, <3>2
  <2> QED
    BY <2>1, <2>2, <2>3
<1> QED
  BY <1>2, <1>3, <1>4, <1>5, <1>6, <1>7, <1>8, <1>9

-----------------------------------------------------------------------------
(* The memos.                                                              *)

Buckets(p, R) == IF p = "context" THEN {} ELSE {r.ts : r \in ToSet(R)}

\* The rows of a key in a bucket.
Cell(R, k, b) == {i \in Rows(R, {k}) : R[i].ts = b}

LEMMA TopInside == \A R, weight, top : Top(R, weight, top) \subseteq DOMAIN weight
  BY DEF Top

LEMMA PivotIs ==
  ASSUME NEW p, NEW R
  PROVE  /\ pivot(p, R).rows = R /\ pivot(p, R).buckets = InTime(Buckets(p, R))
         /\ DOMAIN pivot(p, R).weight = Keys(R) /\ DOMAIN pivot(p, R).count = Keys(R)
         /\ \A k \in Keys(R) : pivot(p, R).weight[k] = IF p = "context" THEN Cardinality(Rows(R, {k}))
                                                       ELSE N(R, Rows(R, {k}))
         /\ \A k \in Keys(R) : \A b \in Buckets(p, R) :
              pivot(p, R).count[k][b] = N(R, Cell(R, k, b)) /\ pivot(p, R).errors[k][b] = Errors(R, Cell(R, k, b))
         /\ pivot(p, R).own \subseteq Keys(R)
         /\ p \notin {"usage", "errors"} => pivot(p, R).own = Keys(R)
         /\ p = "errors" => pivot(p, R).own = Top(R, pivot(p, R).weight, ErrTop)
         /\ p = "usage" => pivot(p, R).own = promoted(R, Buckets(p, R), pivot(p, R).count, pivot(p, R).weight)
<1> DEFINE B == Buckets(p, R)
           in(k, b) == {i \in Rows(R, {k}) : R[i].ts = b}
           count == [k \in Keys(R) |-> [b \in B |-> N(R, in(k, b))]]
           errs == [k \in Keys(R) |-> [b \in B |-> Errors(R, in(k, b))]]
           weight == [k \in Keys(R) |-> IF p = "context" THEN Cardinality(Rows(R, {k})) ELSE N(R, Rows(R, {k}))]
           own == CASE p = "usage"  -> promoted(R, B, count, weight)
                    [] p = "errors" -> Top(R, weight, ErrTop)
                    [] OTHER        -> Keys(R)
<1>1. pivot(p, R) = [rows |-> R, buckets |-> InTime(B), count |-> count, weight |-> weight, errors |-> errs, own |-> own]
  BY DEF pivot, Buckets
<1>2. \A k \in Keys(R) : \A b \in B : count[k][b] = N(R, Cell(R, k, b)) /\ errs[k][b] = Errors(R, Cell(R, k, b))
  BY DEF Cell
<1>3. DOMAIN weight = Keys(R) /\ DOMAIN count = Keys(R)
  OBVIOUS
<1>4. \A k \in Keys(R) : weight[k] = IF p = "context" THEN Cardinality(Rows(R, {k})) ELSE N(R, Rows(R, {k}))
  OBVIOUS
<1>5. own \subseteq Keys(R)
  <2> HIDE DEF count, weight
  <2>1. promoted(R, B, count, weight) \subseteq Keys(R)
    <3> DEFINE w(b) == [k \in {j \in DOMAIN count : count[j][b] > 0} |-> count[k][b]]
    <3>1. promoted(R, B, count, weight) = UNION {Top(R, w(b), UsageTop) : b \in B}
      BY DEF promoted
    <3>2. \A b \in B : DOMAIN w(b) \subseteq Keys(R)
      BY <1>3
    <3> HIDE DEF w
    <3>3. \A b \in B : Top(R, w(b), UsageTop) \subseteq Keys(R)
      BY <3>2, TopInside
    <3> QED
      BY <3>1, <3>3
  <2>2. Top(R, weight, ErrTop) \subseteq Keys(R)
    BY <1>3, TopInside
  <2> QED
    BY <2>1, <2>2
<1> HIDE DEF count, errs, weight
<1>6. /\ (p = "usage" => own = promoted(R, B, count, weight))
      /\ (p = "errors" => own = Top(R, weight, ErrTop))
      /\ (p \notin {"usage", "errors"} => own = Keys(R))
  OBVIOUS
<1> HIDE DEF own, B
<1>7. /\ pivot(p, R).rows = R /\ pivot(p, R).buckets = InTime(B) /\ pivot(p, R).count = count
      /\ pivot(p, R).weight = weight /\ pivot(p, R).errors = errs /\ pivot(p, R).own = own
  BY <1>1
<1> QED
  BY <1>2, <1>3, <1>4, <1>5, <1>6, <1>7 DEF B

\* The rows of an answer, by number.
RowsFine(p, R) ==
  /\ IsFiniteSet(DOMAIN R) /\ IsFiniteSet(Keys(R)) /\ Keys(R) = {R[i].key : i \in DOMAIN R}
  /\ AGGREGATE \notin Keys(R) /\ Other \notin Keys(R) /\ Sigma \notin Keys(R)
  /\ p # "context" => /\ \A i \in DOMAIN R : R[i].n \in Nat \ {0} /\ R[i].err \in Nat /\ R[i].ts \in Buckets(p, R)
                      /\ p = "errors" => \A i \in DOMAIN R : R[i].err <= R[i].n
  /\ p = "context" => \A i \in DOMAIN R : R[i].turns \in Seq(Nat)
  /\ Buckets(p, R) \in SUBSET Nat /\ IsFiniteSet(Buckets(p, R)) /\ 0 \notin Buckets(p, R)
  /\ (Buckets(p, R) # {} => Keys(R) # {}) /\ (Keys(R) = {} => R = <<>>)

LEMMA AnswerFine ==
  ASSUME NEW p, NEW R, WellFormed(p, R)
  PROVE  RowsFine(p, R)
<1>1. /\ Len(R) \in Nat /\ DOMAIN R = 1..Len(R) /\ IsFiniteSet(DOMAIN R)
      /\ IsFiniteSet(Keys(R)) /\ Keys(R) = {R[i].key : i \in DOMAIN R}
      /\ AGGREGATE \notin Keys(R) /\ Other \notin Keys(R) /\ Sigma \notin Keys(R)
  BY AnswerRows
<1>2. p # "context" => \A i \in DOMAIN R : /\ R[i].n \in Nat \ {0} /\ R[i].err \in Nat
                                           /\ p = "errors" => R[i].err <= R[i].n
  <2>1. p # "context" => \A i \in DOMAIN R : /\ R[i].ts \in Nat \ {0} /\ R[i].n \in Nat \ {0}
                                             /\ R[i].err \in Nat
                                             /\ p = "errors" => R[i].err <= R[i].n
    BY AnswerRows
  <2> QED
    BY <2>1
<1>3. p = "context" => \A i \in DOMAIN R : R[i].turns \in Seq(Nat)
  BY AnswerRows
<1>4. /\ p # "context" => Buckets(p, R) = {R[i].ts : i \in DOMAIN R}
      /\ Buckets(p, R) \in SUBSET Nat /\ IsFiniteSet(Buckets(p, R)) /\ 0 \notin Buckets(p, R)
  <2>1. CASE p = "context"
    BY <2>1, FS_EmptySet DEF Buckets
  <2>2. CASE p # "context"
    <3>1. LET B == {r.ts : r \in ToSet(R)}
          IN  B = {R[i].ts : i \in DOMAIN R} /\ B \in SUBSET Nat /\ IsFiniteSet(B) /\ 0 \notin B
      BY <2>2, AnswerRows
    <3> QED
      BY <2>2, <3>1 DEF Buckets
  <2> QED
    BY <2>1, <2>2
<1>5. Buckets(p, R) # {} => Keys(R) # {}
  BY <1>1, <1>4 DEF Buckets
<1>6. Keys(R) = {} => R = <<>>
  <2>1. R \in Seq(ToSet(R))
    BY DEF WellFormed
  <2>2. Keys(R) = {} => ~(1 \in DOMAIN R)
    BY <1>1
  <2>3. Keys(R) = {} => Len(R) = 0
    BY <1>1, <2>2
  <2> QED
    BY <2>1, <2>3
<1> QED
  BY <1>1, <1>2, <1>3, <1>4, <1>5, <1>6 DEF RowsFine

LEMMA CellFinite ==
  ASSUME NEW p, NEW R, RowsFine(p, R), NEW k, NEW b
  PROVE  /\ IsFiniteSet(Rows(R, {k})) /\ Rows(R, {k}) \subseteq DOMAIN R
         /\ IsFiniteSet(Cell(R, k, b)) /\ Cell(R, k, b) \subseteq DOMAIN R
<1>1. Rows(R, {k}) \in SUBSET DOMAIN R /\ Cell(R, k, b) \in SUBSET DOMAIN R
  BY DEF Rows, Cell
<1>2. IsFiniteSet(DOMAIN R)
  BY DEF RowsFine
<1> QED
  BY <1>1, <1>2, FS_Subset

\* What is counted of any rows of an answer.
LEMMA CountsAre ==
  ASSUME NEW p, NEW R, RowsFine(p, R), p # "context", NEW I \in SUBSET DOMAIN R
  PROVE  /\ IsFiniteSet(I) /\ N(R, I) \in Nat /\ Errors(R, I) \in Nat
         /\ p = "errors" => Errors(R, I) <= N(R, I)
         /\ I # {} => N(R, I) > 0
<1> DEFINE f == [i \in DOMAIN R |-> R[i].n]
           g == [i \in DOMAIN R |-> R[i].err]
<1>1. IsFiniteSet(I)
  BY FS_Subset DEF RowsFine
<1>2. \A i \in I : f[i] \in Nat \ {0} /\ g[i] \in Nat /\ (p = "errors" => g[i] <= f[i])
  BY DEF RowsFine
<1>3. N(R, I) = Sum(f, I) /\ Errors(R, I) = Sum(g, I)
  BY DEF N, Errors
<1> HIDE DEF f, g
<1>4. Sum(f, I) \in Nat /\ Sum(g, I) \in Nat
  <2>1. \A i \in I : f[i] \in Nat
    BY <1>2
  <2>2. \A i \in I : g[i] \in Nat
    BY <1>2
  <2> QED
    BY <1>1, <2>1, <2>2, SumNat
<1>5. I # {} => Sum(f, I) > 0
  <2>1. \A i \in I : f[i] \in Nat
    BY <1>2
  <2>2. Sum(f, I) > 0 <=> \E i \in I : f[i] > 0
    BY <1>1, <2>1, SumPositive
  <2> QED
    BY <1>2, <2>2
<1>6. ASSUME p = "errors" PROVE Sum(g, I) <= Sum(f, I)
  <2>1. \A i \in I : g[i] \in Int /\ f[i] \in Int /\ g[i] <= f[i]
    BY <1>2, <1>6
  <2> QED
    BY <1>1, <2>1, SumAtMost
<1> QED
  BY <1>1, <1>3, <1>4, <1>5, <1>6

\* What a panel draws from: in order, without gaps, and each key somewhere.
PivotFine(p, d) ==
  /\ IsFiniteSet(DOMAIN d.weight)
  /\ AGGREGATE \notin DOMAIN d.weight /\ Other \notin DOMAIN d.weight /\ Sigma \notin DOMAIN d.weight
  /\ d.own \subseteq DOMAIN d.weight
  /\ \A k \in DOMAIN d.weight : d.weight[k] \in Nat
  /\ LET B == ToSet(d.buckets) IN
     /\ B \in SUBSET Nat /\ IsFiniteSet(B) /\ 0 \notin B
     /\ d.buckets \in Seq(B) /\ Len(d.buckets) = Cardinality(B)
     /\ \A i, j \in DOMAIN d.buckets : i < j => d.buckets[i] < d.buckets[j]
     /\ B # {} => DOMAIN d.weight # {}
     /\ \A k \in DOMAIN d.weight : \A b \in B : d.count[k][b] \in Nat /\ d.errors[k][b] \in Nat
     /\ p = "errors" => \A k \in DOMAIN d.weight : \A b \in B : d.errors[k][b] <= d.count[k][b]
     /\ p # "context" => \A k \in DOMAIN d.weight : \E b \in B : d.count[k][b] > 0

LEMMA PivotIsFine ==
  ASSUME NEW p, NEW R, RowsFine(p, R)
  PROVE  PivotFine(p, pivot(p, R)) /\ ToSet(pivot(p, R).buckets) = Buckets(p, R)
<1> DEFINE B == Buckets(p, R)
           d == pivot(p, R)
<1>1. /\ d.buckets = InTime(B) /\ DOMAIN d.weight = Keys(R) /\ d.own \subseteq Keys(R)
      /\ \A k \in Keys(R) : d.weight[k] = IF p = "context" THEN Cardinality(Rows(R, {k})) ELSE N(R, Rows(R, {k}))
      /\ \A k \in Keys(R) : \A b \in B :
           d.count[k][b] = N(R, Cell(R, k, b)) /\ d.errors[k][b] = Errors(R, Cell(R, k, b))
  BY PivotIs
<1>2. B \in SUBSET Nat /\ IsFiniteSet(B) /\ 0 \notin B /\ (B # {} => Keys(R) # {})
  BY DEF RowsFine
<1>3. p = "context" => B = {}
  BY DEF Buckets
<1> HIDE DEF B, d
<1>4. /\ InTime(B) \in Seq(B) /\ Len(InTime(B)) = Cardinality(B) /\ ToSet(InTime(B)) = B
      /\ \A i, j \in DOMAIN InTime(B) : i < j => InTime(B)[i] < InTime(B)[j]
  BY <1>2, InOrderOfTime
<1>5. ASSUME NEW k \in Keys(R) PROVE d.weight[k] \in Nat
  <2>1. CASE p = "context"
    <3>1. Cardinality(Rows(R, {k})) \in Nat
      BY CellFinite, FS_CardinalityType
    <3> QED
      BY <1>1, <2>1, <3>1
  <2>2. CASE p # "context"
    <3>1. Rows(R, {k}) \in SUBSET DOMAIN R
      BY CellFinite
    <3>2. N(R, Rows(R, {k})) \in Nat
      BY <2>2, <3>1, CountsAre
    <3> QED
      BY <1>1, <2>2, <3>2
  <2> QED
    BY <2>1, <2>2
<1>6. ASSUME NEW k \in Keys(R), NEW b \in B
      PROVE  /\ d.count[k][b] \in Nat /\ d.errors[k][b] \in Nat
             /\ p = "errors" => d.errors[k][b] <= d.count[k][b]
  <2>1. p # "context" /\ Cell(R, k, b) \in SUBSET DOMAIN R
    BY <1>3, CellFinite
  <2>2. d.count[k][b] = N(R, Cell(R, k, b)) /\ d.errors[k][b] = Errors(R, Cell(R, k, b))
    BY <1>1
  <2> QED
    BY <2>1, <2>2, CountsAre
<1>7. ASSUME p # "context", NEW k \in Keys(R) PROVE \E b \in B : d.count[k][b] > 0
  <2>1. PICK i \in DOMAIN R : R[i].key = k
    BY DEF RowsFine
  <2>2. R[i].ts \in B
    BY <1>7 DEF RowsFine, B
  <2>3. i \in Cell(R, k, R[i].ts) /\ Cell(R, k, R[i].ts) \in SUBSET DOMAIN R
    BY <2>1, CellFinite DEF Cell, Rows
  <2>4. N(R, Cell(R, k, R[i].ts)) > 0
    BY <1>7, <2>3, CountsAre
  <2> QED
    BY <1>1, <2>2, <2>4
<1>8. IsFiniteSet(Keys(R)) /\ AGGREGATE \notin Keys(R) /\ Other \notin Keys(R) /\ Sigma \notin Keys(R)
  BY DEF RowsFine
<1>9. PivotFine(p, d) /\ ToSet(d.buckets) = B
  BY <1>1, <1>2, <1>4, <1>5, <1>6, <1>7, <1>8 DEF PivotFine
<1> QED
  BY <1>9 DEF B, d

-----------------------------------------------------------------------------
(* A line: its points, where its buckets A are, and the buckets near x.    *)

Ext(A, x) == Min({b \in A : x <= 2 * b + 1})
Stops(A) == {2 * b : b \in A} \cup {2 * Min(A) - 1, 2 * Max(A) + 1}
From(A, x) == IF x = Min(Stops(A)) THEN x ELSE Max({p \in Stops(A) : p < x})
To(A, x) == Min({p \in Stops(A) : p > From(A, x)})
Near(A, x) == {b \in A : \A c \in A : ~(b < c /\ 2 * c <= x) /\ ~(x <= 2 * c /\ c < b)}

\* Each point has the value of a bucket, its own or the one at its end.
LEMMA StopsAre ==
  ASSUME NEW A \in SUBSET (Nat \ {0}), IsFiniteSet(A), A # {}
  PROVE  /\ Min(A) \in A /\ Max(A) \in A /\ \A b \in A : Min(A) <= b /\ b <= Max(A)
         /\ Stops(A) \in SUBSET Nat /\ IsFiniteSet(Stops(A))
         /\ Min(Stops(A)) = 2 * Min(A) - 1 /\ Max(Stops(A)) = 2 * Max(A) + 1
         /\ \A p \in Stops(A) :
              /\ Ext(A, p) \in A
              /\ \/ p = 2 * Ext(A, p)
                 \/ p = 2 * Ext(A, p) - 1 /\ Ext(A, p) = Min(A)
                 \/ p = 2 * Ext(A, p) + 1 /\ Ext(A, p) = Max(A)
         /\ \A b \in A : 2 * b \in Stops(A)
<1> DEFINE lo == Min(A)
           hi == Max(A)
           E == {2 * b : b \in A}
<1>1. A \in SUBSET Int /\ A \in SUBSET Nat
  OBVIOUS
<1>2. lo \in A /\ hi \in A /\ \A b \in A : lo <= b /\ b <= hi
  BY <1>1, EndsOfFinite
<1> HIDE DEF lo, hi
<1>3. IsFiniteSet(E)
  <2> DEFINE h == [b \in A |-> 2 * b]
  <2>1. IsFiniteSet({h[b] : b \in A})
    BY FiniteImage
  <2>2. {h[b] : b \in A} = E
    OBVIOUS
  <2> QED
    BY <2>1, <2>2
<1>4. Stops(A) = E \cup {2 * lo - 1, 2 * hi + 1}
  BY DEF Stops, lo, hi
<1>5. IsFiniteSet(Stops(A))
  <2> HIDE DEF E
  <2>0. IsFiniteSet(E \cup {2 * lo - 1})
    BY <1>3, FS_AddElement
  <2> DEFINE F == E \cup {2 * lo - 1}
  <2> HIDE DEF F
  <2>a. IsFiniteSet(F \cup {2 * hi + 1})
    BY <2>0, FS_AddElement DEF F
  <2>1. IsFiniteSet((E \cup {2 * lo - 1}) \cup {2 * hi + 1})
    BY <2>a DEF F
  <2>2. (E \cup {2 * lo - 1}) \cup {2 * hi + 1} = Stops(A)
    BY <1>4
  <2> QED
    BY <2>1, <2>2
<1>6. Stops(A) \in SUBSET Nat
  BY <1>1, <1>2, <1>4
<1>7. \A p \in Stops(A) : 2 * lo - 1 <= p /\ p <= 2 * hi + 1
  BY <1>2, <1>4
<1>8. 2 * lo - 1 \in Stops(A) /\ 2 * hi + 1 \in Stops(A)
  BY <1>4
<1>9. Min(Stops(A)) = 2 * lo - 1
  BY <1>6, <1>7, <1>8, MinIs
<1>10. Max(Stops(A)) = 2 * hi + 1
  BY <1>6, <1>7, <1>8, MaxIs
<1>11. ASSUME NEW p \in Stops(A)
       PROVE  /\ Ext(A, p) \in A
              /\ p = 2 * Ext(A, p) \/ (p = 2 * Ext(A, p) - 1 /\ Ext(A, p) = lo) \/ (p = 2 * Ext(A, p) + 1 /\ Ext(A, p) = hi)
  <2> DEFINE T == {b \in A : p <= 2 * b + 1}
  <2>1. T \in SUBSET Nat
    BY <1>1
  <2>2. ASSUME NEW e \in T, \A b \in T : e <= b PROVE Ext(A, p) = e
    <3> HIDE DEF T
    <3>1. Min(T) = e
      BY <2>1, <2>2, MinIs
    <3> QED
      BY <3>1 DEF Ext, T
  <2>3. CASE p = 2 * lo - 1
    <3>1. lo \in T /\ \A b \in T : lo <= b
      BY <1>1, <1>2, <2>3
    <3>2. Ext(A, p) = lo
      BY <2>2, <3>1
    <3> QED
      BY <1>2, <2>3, <3>2
  <2>4. CASE p = 2 * hi + 1
    <3>1. hi \in T /\ \A b \in T : hi <= b
      BY <1>1, <1>2, <2>4
    <3>2. Ext(A, p) = hi
      BY <2>2, <3>1
    <3> QED
      BY <1>2, <2>4, <3>2
  <2>5. ASSUME NEW e \in A, p = 2 * e PROVE p = 2 * Ext(A, p) /\ Ext(A, p) \in A
    <3>1. e \in T /\ \A b \in T : e <= b
      BY <1>1, <2>5
    <3>2. Ext(A, p) = e
      BY <2>2, <3>1
    <3> QED
      BY <2>5, <3>2
  <2> QED
    BY <1>4, <2>3, <2>4, <2>5
<1>12. \A b \in A : 2 * b \in Stops(A)
  BY <1>4
<1> QED
  BY <1>2, <1>5, <1>6, <1>9, <1>10, <1>11, <1>12 DEF lo, hi

\* Where the mouse is on a line, between two points that follow each other, and what they
\* have is of a bucket near by.
LEMMA Segment ==
  ASSUME NEW A \in SUBSET (Nat \ {0}), IsFiniteSet(A), A # {},
         NEW x \in Min(Stops(A)) .. Max(Stops(A))
  PROVE  /\ From(A, x) \in Stops(A) /\ To(A, x) \in Stops(A) /\ x \in Nat
         /\ From(A, x) \in Nat /\ To(A, x) \in Nat
         /\ From(A, x) < To(A, x) /\ From(A, x) <= x /\ x <= To(A, x)
         /\ x < To(A, x) => Ext(A, From(A, x)) \in Near(A, x)
         /\ From(A, x) < x => Ext(A, To(A, x)) \in Near(A, x)
<1> DEFINE S == Stops(A)
           lo == Min(A)
           hi == Max(A)
           x1 == From(A, x)
           x2 == To(A, x)
           L == {p \in S : p < x}
           U == {p \in S : p > x1}
<1>1. /\ lo \in A /\ hi \in A /\ \A b \in A : b \in Nat /\ lo <= b /\ b <= hi
      /\ S \in SUBSET Nat /\ Min(S) = 2 * lo - 1 /\ Max(S) = 2 * hi + 1
  BY StopsAre
<1>2. \A p \in S : /\ Ext(A, p) \in A
                   /\ p = 2 * Ext(A, p) \/ (p = 2 * Ext(A, p) - 1 /\ Ext(A, p) = lo) \/ (p = 2 * Ext(A, p) + 1 /\ Ext(A, p) = hi)
  BY StopsAre
<1>3. \A b \in A : 2 * b \in S
  BY StopsAre
<1>4. Min(S) \in S /\ Max(S) \in S /\ \A p \in S : Min(S) <= p /\ p <= Max(S)
  <2>1. IsFiniteSet(S)
    BY StopsAre
  <2> HIDE DEF S
  <2>a. Nat \subseteq Int
    OBVIOUS
  <2>b. S \in SUBSET Int
    BY <1>1, <2>a
  <2>c. 2 * lo \in S
    BY <1>1, <1>3
  <2>2. S \in SUBSET Int /\ S # {}
    BY <2>b, <2>c
  <2> QED
    BY <2>1, <2>2, EndsOfFinite
<1> HIDE DEF S, lo, hi
<1>5. x \in Nat /\ Min(S) <= x /\ x <= Max(S)
  <2>1. x \in Min(S) .. Max(S)
    BY DEF S
  <2> QED
    BY <1>1, <1>4, <2>1
<1>6. /\ x1 \in S /\ x1 <= x
      /\ x1 < x \/ (x1 = x /\ x = Min(S))
      /\ \A p \in S : p < x => p <= x1
  <2>1. CASE x = Min(S)
    <3>1. x1 = x
      BY <2>1 DEF From, S
    <3>2. \A p \in S : ~(p < x)
      BY <1>1, <1>4, <1>5, <2>1
    <3> HIDE DEF x1
    <3> QED
      BY <1>1, <1>4, <1>5, <2>1, <3>1, <3>2
  <2>2. CASE x # Min(S)
    <3>1. x1 = Max(L)
      BY <2>2 DEF From, S
    <3>2. L \in SUBSET Nat
      BY <1>1
    <3>a. \A p \in L : p <= x
      BY <1>1, <1>5
    <3>3. L # {}
      <4>1. Min(S) < x
        BY <1>1, <1>4, <1>5, <2>2
      <4> QED
        BY <1>4, <4>1
    <3> HIDE DEF L
    <3>4. Max(L) \in L /\ \A p \in L : p <= Max(L)
      BY <1>5, <3>2, <3>3, <3>a, MaxOfNats
    <3> HIDE DEF x1
    <3>5. x1 \in L /\ \A p \in L : p <= x1
      BY <3>1, <3>4
    <3>6. x1 \in S /\ x1 < x /\ \A p \in S : p < x => p <= x1
      BY <3>5 DEF L
    <3>7. x1 <= x
      BY <1>1, <1>5, <3>6
    <3> QED
      BY <3>6, <3>7
  <2> QED
    BY <2>1, <2>2
<1>7. x2 \in S /\ x2 > x1 /\ \A p \in S : p > x1 => x2 <= p
  <2>1. x2 = Min(U)
    BY DEF To, S
  <2> HIDE DEF x1, x2
  <2>2. U \in SUBSET Nat
    BY <1>1
  <2>3. U # {}
    <3>1. x1 < Max(S)
      BY <1>1, <1>4, <1>5, <1>6
    <3> QED
      BY <1>1, <1>4, <1>6, <3>1
  <2> HIDE DEF U
  <2>4. Min(U) \in U /\ \A p \in U : Min(U) <= p
    BY <2>2, <2>3, MinOfNats
  <2>5. x2 \in U /\ \A p \in U : x2 <= p
    BY <2>1, <2>4
  <2> QED
    BY <2>5 DEF U
<1> HIDE DEF x1, x2
<1>8. x1 \in Nat /\ x2 \in Nat
  BY <1>1, <1>6, <1>7
<1>9. x <= x2
  BY <1>5, <1>6, <1>7, <1>8
<1> DEFINE e1 == Ext(A, x1)
           e2 == Ext(A, x2)
<1>10. /\ e1 \in A /\ (x1 = 2 * e1 \/ (x1 = 2 * e1 - 1 /\ e1 = lo) \/ (x1 = 2 * e1 + 1 /\ e1 = hi))
       /\ e2 \in A /\ (x2 = 2 * e2 \/ (x2 = 2 * e2 - 1 /\ e2 = lo) \/ (x2 = 2 * e2 + 1 /\ e2 = hi))
  BY <1>2, <1>6, <1>7
<1> HIDE DEF e1, e2
<1>11. \A c \in A : c \in Nat /\ lo <= c /\ c <= hi /\ ~(x1 < 2 * c /\ 2 * c < x2)
  BY <1>1, <1>3, <1>7, <1>8
<1>12. ASSUME x < x2 PROVE e1 \in Near(A, x)
  <2> SUFFICES ASSUME NEW c \in A PROVE ~(e1 < c /\ 2 * c <= x) /\ ~(x <= 2 * c /\ c < e1)
    BY <1>10 DEF Near
  <2>1. c \in Nat /\ lo <= c /\ c <= hi /\ ~(x1 < 2 * c /\ 2 * c < x2) /\ e1 \in Nat /\ lo \in Nat /\ hi \in Nat
    BY <1>1, <1>10, <1>11
  <2> QED
    BY <1>5, <1>6, <1>8, <1>9, <1>10, <1>12, <2>1
<1>13. ASSUME x1 < x PROVE e2 \in Near(A, x)
  <2> SUFFICES ASSUME NEW c \in A PROVE ~(e2 < c /\ 2 * c <= x) /\ ~(x <= 2 * c /\ c < e2)
    BY <1>10 DEF Near
  <2>1. c \in Nat /\ lo <= c /\ c <= hi /\ ~(x1 < 2 * c /\ 2 * c < x2) /\ e2 \in Nat /\ lo \in Nat /\ hi \in Nat
    BY <1>1, <1>10, <1>11
  <2> QED
    BY <1>5, <1>6, <1>8, <1>9, <1>10, <1>13, <2>1
<1> QED
  BY <1>5, <1>6, <1>7, <1>8, <1>9, <1>12, <1>13 DEF S, x1, x2, e1, e2

-----------------------------------------------------------------------------
(* Between two points.                                                     *)

\* What the handler rounds to is between the two, and one of them at either end.
LEMMA BetweenIs ==
  ASSUME NEW a \in Nat, NEW b \in Nat, NEW whole \in Nat \ {0}, NEW part \in 0..whole,
         NEW lo \in Nat, NEW hi \in Nat
  PROVE  /\ between(a, b, part, whole) \in Nat
         /\ lo <= a /\ lo <= b /\ a <= hi /\ b <= hi =>
              lo <= between(a, b, part, whole) /\ between(a, b, part, whole) <= hi
         /\ part = 0 => between(a, b, part, whole) = a
         /\ part = whole => between(a, b, part, whole) = b
<1> DEFINE rest == whole - part
           u == 2 * (a * whole + part * (b - a)) + whole
           w == 2 * whole
<1>1. rest \in Nat /\ part \in Nat /\ whole = rest + part /\ w \in Nat \ {0}
  OBVIOUS
<1>2. a * whole + part * (b - a) = a * rest + b * part
  <2>1. a * whole = a * rest + a * part
    BY <1>1
  <2>2. part * (b - a) = b * part - a * part
    BY <1>1
  <2>3. a * rest \in Nat /\ a * part \in Nat /\ b * part \in Nat
    BY <1>1
  <2> QED
    BY <2>1, <2>2, <2>3
<1>3. ASSUME NEW l \in Nat, NEW h \in Nat, l <= a, l <= b, a <= h, b <= h
      PROVE l * whole <= a * rest + b * part /\ a * rest + b * part <= h * whole
  <2>1. \A s, t, r \in Nat : s <= t => s * r <= t * r
    OBVIOUS
  <2>2. l * rest <= a * rest /\ l * part <= b * part /\ a * rest <= h * rest /\ b * part <= h * part
    BY <1>1, <1>3, <2>1
  <2>3. l * whole = l * rest + l * part /\ h * whole = h * rest + h * part
    BY <1>1
  <2>4. /\ l * rest \in Nat /\ l * part \in Nat /\ a * rest \in Nat /\ b * part \in Nat
        /\ h * rest \in Nat /\ h * part \in Nat
    BY <1>1
  <2> QED
    BY <2>2, <2>3, <2>4
<1>4. ASSUME NEW l \in Nat, NEW h \in Nat, l <= a, l <= b, a <= h, b <= h
      PROVE  (u \div w) \in Nat /\ l <= (u \div w) /\ (u \div w) <= h
  <2>1. l * whole \in Nat /\ h * whole \in Nat /\ a * rest \in Nat /\ b * part \in Nat
    BY <1>1
  <2>2. u = 2 * (a * rest + b * part) + whole
    BY <1>2
  <2>3. l * w = 2 * (l * whole) /\ (h + 1) * w = 2 * (h * whole) + 2 * whole
    OBVIOUS
  <2> DEFINE z == a * rest + b * part
             lw == l * whole
             hw == h * whole
  <2>4. z \in Nat /\ lw \in Nat /\ hw \in Nat /\ lw <= z /\ z <= hw
    BY <1>3, <1>4, <2>1
  <2>5. u = 2 * z + whole /\ l * w = 2 * lw /\ (h + 1) * w = 2 * hw + 2 * whole
    BY <2>2, <2>3
  <2> HIDE DEF z, lw, hw, u
  <2>6. u \in Nat /\ l * w <= u /\ u < (h + 1) * w
    <3> HIDE DEF w
    <3> QED
      BY <2>4, <2>5
  <2> HIDE DEF w
  <2> QED
    BY <1>1, <2>6, DivBetween
<1>5. between(a, b, part, whole) = u \div w
  BY DEF between
<1>6. part = 0 => u = 2 * (a * whole) + whole
  OBVIOUS
<1>7. part = whole => u = 2 * (b * whole) + whole
  BY <1>1, <1>2
<1>8. \A c \in Nat : u = 2 * (c * whole) + whole => u \div w = c
  <2> SUFFICES ASSUME NEW c \in Nat, u = 2 * (c * whole) + whole PROVE u \div w = c
    OBVIOUS
  <2>1. c * whole \in Nat
    OBVIOUS
  <2>2. c * w = 2 * (c * whole) /\ (c + 1) * w = 2 * (c * whole) + 2 * whole
    OBVIOUS
  <2> DEFINE cw == c * whole
  <2>3. cw \in Nat /\ u = 2 * cw + whole /\ c * w = 2 * cw /\ (c + 1) * w = 2 * cw + 2 * whole
    BY <2>1, <2>2
  <2> HIDE DEF cw, u, w
  <2>4. u \in Nat /\ c * w <= u /\ u < (c + 1) * w
    BY <2>3
  <2>5. (u \div w) \in Nat /\ c <= (u \div w) /\ (u \div w) <= c
    BY <1>1, <2>4, DivBetween
  <2> QED
    BY <2>5
<1> HIDE DEF u, w
<1>9. (u \div w) \in Nat
  <2> DEFINE h == a + b
  <2>1. 0 \in Nat /\ h \in Nat /\ 0 <= a /\ 0 <= b /\ a <= h /\ b <= h
    OBVIOUS
  <2> HIDE DEF h
  <2> QED
    BY <1>4, <2>1
<1> QED
  BY <1>4, <1>5, <1>6, <1>7, <1>8, <1>9

-----------------------------------------------------------------------------
(* The inductive invariant: the panel draws its last answer.               *)

Drawn == TypeOK /\ data = pivot(panel, data.rows) /\ IsFiniteSet(DOMAIN overrides)

Named == UNION {{r.key : r \in ToSet(R)} : R \in Answers[panel]}
Seen == {AGGREGATE, Other, Sigma} \cup Named

Typed ==
  /\ panel \in Panels /\ metric \in Metrics /\ data.rows \in Answers[panel] \cup {<<>>}
  /\ DOMAIN overrides \subseteq Seen /\ \A k \in DOMAIN overrides : overrides[k] \in BOOLEAN
  /\ \A l \in tip.lines : l.key \in Seen /\ l.part \in Nat /\ l.of \in Nat
  /\ panel \in {"errors", "sizes"} /\ keys = {} => overrides = NoOverrides /\ tip = NoTip

LEMMA TypeParts == TypeOK <=> Typed
  BY DEF TypeOK, Typed, Seen, Named

LEMMA TypePartsNext == TypeOK' <=> Typed'
  BY DEF TypeOK, Typed, Seen, Named

LEMMA NoAnswerFine == \A p : WellFormed(p, <<>>)
  BY DEF WellFormed, ToSet

\* What there is to draw.
LEMMA DrawnFine ==
  ASSUME Drawn
  PROVE  /\ RowsFine(panel, data.rows) /\ PivotFine(panel, data)
         /\ keys = Keys(data.rows) /\ ToSet(buckets) = Buckets(panel, data.rows)
         /\ keys \subseteq Seen /\ IsFiniteSet(keys)
<1>1. panel \in Panels /\ data.rows \in Answers[panel] \cup {<<>>}
  BY TypeParts DEF Drawn, Typed
<1>2. WellFormed(panel, data.rows)
  BY <1>1, AnswersAssumption, NoAnswerFine
<1>3. RowsFine(panel, data.rows)
  BY <1>2, AnswerFine
<1> DEFINE R == data.rows
<1>4. data = pivot(panel, R)
  BY DEF Drawn
<1>5. PivotFine(panel, pivot(panel, R)) /\ ToSet(pivot(panel, R).buckets) = Buckets(panel, R)
  BY <1>3, PivotIsFine
<1>6. DOMAIN pivot(panel, R).weight = Keys(R)
  BY PivotIs
<1> HIDE DEF R
<1>7. keys = Keys(R)
  BY <1>4, <1>6 DEF keys
<1>8. Keys(R) \subseteq Seen
  <2>1. CASE R \in Answers[panel]
    BY <2>1 DEF Seen, Named, Keys
  <2>2. CASE R = <<>>
    BY <2>2 DEF Keys, ToSet
  <2> QED
    BY <1>1, <2>1, <2>2 DEF R
<1>9. IsFiniteSet(Keys(R))
  BY <1>3 DEF RowsFine, R
<1>10. PivotFine(panel, data) /\ ToSet(data.buckets) = Buckets(panel, R)
  BY <1>4, <1>5
<1> QED
  BY <1>3, <1>7, <1>8, <1>9, <1>10 DEF R, buckets

LEMMA BoxesInside ==
  ASSUME Drawn
  PROVE  /\ data.own \subseteq keys /\ data.own \subseteq Seen /\ Other \in Seen /\ AGGREGATE \in Seen
         /\ Boxes \subseteq Seen /\ Defaults \subseteq Seen /\ IsFiniteSet(Defaults)
         /\ sel \subseteq Seen /\ IsFiniteSet(sel) /\ IsFiniteSet(data.own)
         /\ Defaults \subseteq keys \cup {AGGREGATE, Other}
<1>1. keys \subseteq Seen /\ IsFiniteSet(keys) /\ data.own \subseteq keys
  BY DrawnFine DEF PivotFine, keys
<1>2. Other \in Seen /\ AGGREGATE \in Seen
  BY DEF Seen
<1>3. Boxes \subseteq Seen
  BY <1>1, <1>2 DEF Boxes, hasOther
<1>4. \A top : Top(data.rows, data.weight, top) \subseteq keys
  BY TopInside DEF keys
<1>5. Defaults \subseteq keys \cup {AGGREGATE, Other}
  BY <1>1, <1>4 DEF Defaults, hasOther
<1> DEFINE K == keys \cup {AGGREGATE}
           L == K \cup {Other}
<1>6. IsFiniteSet(L)
  <2>1. IsFiniteSet(K)
    BY <1>1, FS_AddElement
  <2> HIDE DEF K
  <2> QED
    BY <2>1, FS_AddElement
<1>7. IsFiniteSet(Defaults)
  <2>1. Defaults \in SUBSET L
    BY <1>5
  <2> HIDE DEF L
  <2> QED
    BY <1>6, <2>1, FS_Subset
<1>8. DOMAIN overrides \subseteq Seen /\ IsFiniteSet(DOMAIN overrides)
  BY TypeParts DEF Drawn, Typed
<1>9. sel \subseteq Defaults \cup DOMAIN overrides
  BY DEF sel, Set
<1>10. IsFiniteSet(sel)
  <2>1. IsFiniteSet(Defaults \cup DOMAIN overrides)
    BY <1>7, <1>8, FS_Union
  <2>2. sel \in SUBSET (Defaults \cup DOMAIN overrides)
    BY <1>9
  <2> DEFINE D == Defaults \cup DOMAIN overrides
  <2> HIDE DEF D
  <2>3. IsFiniteSet(D) /\ sel \in SUBSET D
    BY <2>1, <2>2 DEF D
  <2> QED
    BY <2>3, FS_Subset
<1>11. IsFiniteSet(data.own)
  <2>1. data.own \in SUBSET keys
    BY <1>1
  <2> QED
    BY <1>1, <2>1, FS_Subset
<1> QED
  BY <1>1, <1>2, <1>3, <1>5, <1>7, <1>8, <1>9, <1>10, <1>11

\* Calls are counted per tool and added up.
LEMMA CallsFine ==
  ASSUME Drawn, NEW b \in ToSet(buckets)
  PROVE  /\ \A t \in keys : data.count[t][b] \in Nat /\ data.errors[t][b] \in Nat
         /\ \A ts \in SUBSET keys : CallsOf(ts, b) \in Nat
         /\ \A k : Calls(k, b) \in Nat
         /\ \A t \in keys : Calls(t, b) = data.count[t][b]
         /\ IsFiniteSet(layers) /\ shownDenom(b) \in Nat
<1>1. \A t \in keys : data.count[t][b] \in Nat /\ data.errors[t][b] \in Nat
  BY DrawnFine DEF PivotFine, keys, buckets
<1>2. IsFiniteSet(keys)
  BY DrawnFine
<1> DEFINE f == [t \in keys |-> data.count[t][b]]
<1>3. \A t \in keys : f[t] \in Nat
  BY <1>1
<1>4. \A ts : CallsOf(ts, b) = Sum(f, ts)
  BY DEF CallsOf
<1> HIDE DEF f
<1>5. ASSUME NEW ts \in SUBSET keys PROVE CallsOf(ts, b) \in Nat
  <2>1. IsFiniteSet(ts) /\ \A t \in ts : f[t] \in Nat
    BY <1>2, <1>3, FS_Subset
  <2> QED
    BY <1>4, <2>1, SumNat
<1>6. \A k : Calls(k, b) \in Nat
  BY <1>5 DEF Calls
<1>7. ASSUME NEW t \in keys PROVE Calls(t, b) = data.count[t][b]
  <2>1. Tools(t) \cap keys = {t}
    BY DrawnFine DEF Tools, PivotFine, keys
  <2>2. Calls(t, b) = Sum(f, {t})
    BY <1>4, <2>1 DEF Calls
  <2>3. f[t] \in Int
    BY <1>3
  <2>4. Sum(f, {t}) = f[t]
    BY <2>3, SumSingle
  <2> QED
    BY <2>2, <2>4 DEF f
<1>8. IsFiniteSet(layers)
  <2>1. IsFiniteSet(sel)
    BY BoxesInside
  <2> DEFINE L == sel \cup {Other}
  <2>2. IsFiniteSet(L)
    BY <2>1, FS_AddElement
  <2>3. layers \in SUBSET L
    BY DEF layers, bands
  <2> HIDE DEF L
  <2> QED
    BY <2>2, <2>3, FS_Subset
<1>9. shownDenom(b) \in Nat
  <2> DEFINE g == [k \in layers |-> Calls(k, b)]
  <2>1. \A k \in layers : g[k] \in Nat
    BY <1>6
  <2>2. shownDenom(b) = Sum(g, layers)
    BY DEF shownDenom
  <2> HIDE DEF g
  <2> QED
    BY <1>8, <2>1, <2>2, SumNat
<1> QED
  BY <1>1, <1>5, <1>6, <1>7, <1>8, <1>9

\* Where a line has buckets.
LEMMA AtFine ==
  ASSUME Drawn, NEW m \in keys, panel # "context"
  PROVE  /\ at(m) \in SUBSET (Nat \ {0}) /\ IsFiniteSet(at(m)) /\ at(m) # {}
         /\ \A b \in at(m) : data.count[m][b] \in Nat
         /\ DOMAIN linePoints(m) = Stops(at(m))
         /\ \A p \in Stops(at(m)) : linePoints(m)[p] = data.count[m][Ext(at(m), p)]
<1>1. LET B == ToSet(data.buckets) IN
        /\ B \in SUBSET Nat /\ IsFiniteSet(B) /\ 0 \notin B
        /\ \A b \in B : data.count[m][b] \in Nat
        /\ \E b \in B : data.count[m][b] > 0
  BY DrawnFine DEF PivotFine, keys
<1> DEFINE B == ToSet(buckets)
<1>2. /\ B \in SUBSET Nat /\ IsFiniteSet(B) /\ 0 \notin B
      /\ \A b \in B : data.count[m][b] \in Nat
      /\ \E b \in B : data.count[m][b] > 0
  BY <1>1 DEF buckets
<1>3. at(m) = {b \in B : data.count[m][b] > 0}
  BY DEF at
<1> HIDE DEF B
<1>4. at(m) \in SUBSET B /\ at(m) # {}
  BY <1>2, <1>3
<1>5. IsFiniteSet(at(m))
  BY <1>2, <1>4, FS_Subset
<1>6. at(m) \in SUBSET (Nat \ {0}) /\ \A b \in at(m) : data.count[m][b] \in Nat
  BY <1>2, <1>4
<1>7. linePoints(m) = [p \in Stops(at(m)) |-> data.count[m][Ext(at(m), p)]]
  BY DEF linePoints, Stops, extendBucketSeries, Ext
<1> QED
  BY <1>4, <1>5, <1>6, <1>7

\* The tooltip of a line: a number between those of two buckets near the mouse.
LEMMA LineTipIs ==
  ASSUME Drawn, NEW m \in visible, panel # "context",
         NEW x \in Min(DOMAIN linePoints(m)) .. Max(DOMAIN linePoints(m))
  PROVE  \E v \in Nat : \E lo, hi \in Near(at(m), x) :
           /\ lineTip(m, x) = [at |-> x, lines |-> {[key |-> m, part |-> v, of |-> 0]}]
           /\ data.count[m][lo] <= v /\ v <= data.count[m][hi]
<1> DEFINE A == at(m)
           c == data.count[m]
           pts == linePoints(m)
           x1 == From(A, x)
           x2 == To(A, x)
           a == c[Ext(A, x1)]
           b == c[Ext(A, x2)]
           part == x - x1
           whole == x2 - x1
           v == between(a, b, part, whole)
<1>1. m \in keys
  BY DEF visible
<1>2. /\ A \in SUBSET (Nat \ {0}) /\ IsFiniteSet(A) /\ A # {}
      /\ \A e \in A : c[e] \in Nat
      /\ DOMAIN pts = Stops(A)
      /\ \A p \in Stops(A) : pts[p] = c[Ext(A, p)]
  BY <1>1, AtFine
<1>3. x \in Min(Stops(A)) .. Max(Stops(A))
  BY <1>2
<1>4. lineTip(m, x) = [at |-> x, lines |-> {[key |-> m, part |-> between(pts[x1], pts[x2], part, whole), of |-> 0]}]
  BY <1>2 DEF lineTip, From, To
<1> HIDE DEF A, c, pts
<1>5. /\ x1 \in Stops(A) /\ x2 \in Stops(A) /\ x \in Nat /\ x1 \in Nat /\ x2 \in Nat
      /\ x1 < x2 /\ x1 <= x /\ x <= x2
      /\ x < x2 => Ext(A, x1) \in Near(A, x)
      /\ x1 < x => Ext(A, x2) \in Near(A, x)
  BY <1>2, <1>3, Segment
<1> HIDE DEF x1, x2
<1>6. \A p \in Stops(A) : Ext(A, p) \in A
  BY <1>2, StopsAre
<1>7. a \in Nat /\ b \in Nat /\ whole \in Nat \ {0} /\ part \in 0..whole
  <2>1. a \in Nat /\ b \in Nat
    BY <1>2, <1>5, <1>6
  <2>2. whole \in Nat \ {0} /\ part \in 0..whole
    BY <1>5
  <2> HIDE DEF a, b, whole, part
  <2> QED
    BY <2>1, <2>2
<1>8. lineTip(m, x) = [at |-> x, lines |-> {[key |-> m, part |-> v, of |-> 0]}]
  BY <1>2, <1>4, <1>5
<1> DEFINE e1 == Ext(A, x1)
           e2 == Ext(A, x2)
<1>9. a = c[e1] /\ b = c[e2]
  OBVIOUS
<1> HIDE DEF a, b, e1, e2
<1>10. v \in Nat /\ (part = 0 => v = a) /\ (part = whole => v = b)
       /\ \A lo, hi \in Nat : lo <= a /\ lo <= b /\ a <= hi /\ b <= hi => lo <= v /\ v <= hi
  <2> HIDE DEF part, whole
  <2> QED
    BY <1>7, BetweenIs
<1>11. part = 0 <=> x = x1
  BY <1>5
<1>12. part = whole <=> x = x2
  BY <1>5
<1> HIDE DEF v, part, whole
<1>13. \E lo, hi \in Near(A, x) : c[lo] <= v /\ v <= c[hi]
  <2>1. CASE x = x1
    <3>1. v = c[e1] /\ e1 \in Near(A, x)
      BY <1>5, <1>9, <1>10, <1>11, <2>1 DEF e1
    <3> QED
      BY <1>10, <3>1
  <2>2. CASE x = x2
    <3>1. v = c[e2] /\ e2 \in Near(A, x)
      BY <1>5, <1>9, <1>10, <1>12, <2>2 DEF e2
    <3> QED
      BY <1>10, <3>1
  <2>3. CASE x # x1 /\ x # x2
    <3>1. e1 \in Near(A, x) /\ e2 \in Near(A, x)
      <4>1. x1 < x /\ x < x2
        BY <1>5, <2>3
      <4> QED
        BY <1>5, <4>1 DEF e1, e2
    <3>2. CASE a <= b
      <4>1. a <= v /\ v <= b
        BY <1>7, <1>10, <3>2
      <4> QED
        BY <1>9, <3>1, <4>1
    <3>3. CASE b <= a
      <4>1. b <= v /\ v <= a
        BY <1>7, <1>10, <3>3
      <4> QED
        BY <1>9, <3>1, <4>1
    <3> QED
      BY <1>7, <3>2, <3>3
  <2> QED
    BY <2>1, <2>2, <2>3
<1> QED
  BY <1>8, <1>10, <1>13 DEF A, c

-----------------------------------------------------------------------------
(* TypeOK.                                                                 *)

LEMMA EmptyPivot ==
  ASSUME NEW p
  PROVE  /\ DOMAIN pivot(p, <<>>).weight = {} /\ pivot(p, <<>>).rows = <<>>
         /\ ToSet(pivot(p, <<>>).buckets) = {}
<1>1. Keys(<<>>) = {}
  BY DEF Keys, ToSet
<1>2. pivot(p, <<>>).rows = <<>> /\ DOMAIN pivot(p, <<>>).weight = Keys(<<>>)
  BY PivotIs
<1>3. ToSet(pivot(p, <<>>).buckets) = Buckets(p, <<>>)
  BY NoAnswerFine, AnswerFine, PivotIsFine
<1>4. Buckets(p, <<>>) = {}
  BY DEF Buckets, ToSet
<1> QED
  BY <1>1, <1>2, <1>3, <1>4

LEMMA NothingChosen == DOMAIN NoOverrides = {} /\ NoTip.lines = {}
  BY DEF NoOverrides, NoTip

\* A panel as it is when it comes.
LEMMA FreshDrawn ==
  ASSUME panel' \in Panels, metric' \in Metrics, data' = pivot(panel', <<>>),
         overrides' = NoOverrides, tip' = NoTip
  PROVE  Drawn'
<1>1. data'.rows = <<>>
  BY EmptyPivot
<1>2. Typed'
  BY <1>1, NothingChosen DEF Typed
<1> QED
  BY <1>1, <1>2, TypePartsNext, NothingChosen, FS_EmptySet DEF Drawn

LEMMA DrawnInit == Init => Drawn
<1> SUFFICES ASSUME Init PROVE Drawn
  OBVIOUS
<1>1. data.rows = <<>>
  BY EmptyPivot DEF Init
<1>2. Typed
  BY <1>1, NothingChosen DEF Typed, Init, Metrics
<1> QED
  BY <1>1, <1>2, TypeParts, NothingChosen, FS_EmptySet DEF Drawn, Init

\* As long as the panel is the same, what it may name is.
LEMMA SeenSame == panel' = panel => Seen' = Seen
  BY DEF Seen, Named

\* An answer.
LEMMA AnswerDrawn ==
  ASSUME Drawn, NEW R \in Answers[panel], Answer(R)
  PROVE  Drawn'
<1>1. data' = pivot(panel, R) /\ panel' = panel /\ metric' = metric
  BY DEF Answer
<1>2. data'.rows = R /\ keys' = Keys(R)
  BY <1>1, PivotIs DEF keys
<1>3. Typed
  BY TypeParts DEF Drawn
<1>4. CASE ~Kept(R)
  BY <1>1, <1>3, <1>4, FreshDrawn, <1>2 DEF Answer, Typed, Kept
<1>5. CASE Kept(R)
  <2>1. overrides' = overrides /\ tip' = tip
    BY <1>5 DEF Answer
  <2>2. panel \in {"errors", "sizes"} => Keys(R) # {}
    <3>1. RowsFine(panel, R)
      BY <1>3, AnswersAssumption, AnswerFine DEF Typed
    <3> QED
      BY <1>5, <3>1 DEF Kept, RowsFine
  <2>3. Typed'
    BY <1>1, <1>2, <1>3, <2>1, <2>2, SeenSame DEF Typed
  <2> QED
    BY <1>1, <1>2, <2>1, <2>3, TypePartsNext DEF Drawn
<1> QED
  BY <1>4, <1>5

\* A click, on a box of a panel that has something to draw.
LEMMA ToggleDrawn ==
  ASSUME Drawn, NEW k \in Boxes, toggle(k)
  PROVE  Drawn'
<1>1. /\ overrides' = [j \in DOMAIN overrides \cup {k} |-> IF j = k THEN k \notin sel ELSE overrides[j]]
      /\ panel' = panel /\ data' = data /\ metric' = metric /\ tip' = tip /\ keys # {}
  BY DEF toggle, Clicked
<1>2. Typed /\ IsFiniteSet(DOMAIN overrides)
  BY TypeParts DEF Drawn
<1>3. k \in Seen
  BY BoxesInside
<1> DEFINE on == k \notin sel
<1>4. on \in BOOLEAN
  OBVIOUS
<1>5. overrides' = [j \in DOMAIN overrides \cup {k} |-> IF j = k THEN on ELSE overrides[j]]
  BY <1>1
<1> HIDE DEF on
<1>6. DOMAIN overrides' = DOMAIN overrides \cup {k}
  BY <1>5
<1>7. ASSUME NEW j \in DOMAIN overrides' PROVE overrides'[j] \in BOOLEAN
  <2>1. CASE j = k
    BY <1>4, <1>5, <1>6, <2>1
  <2>2. CASE j # k
    BY <1>2, <1>5, <1>6, <2>2 DEF Typed
  <2> QED
    BY <2>1, <2>2
<1>8. IsFiniteSet(DOMAIN overrides')
  BY <1>2, <1>6, FS_AddElement
<1>9. keys' = keys /\ Seen' = Seen
  BY <1>1, SeenSame DEF keys
<1>10. Typed'
  BY <1>1, <1>2, <1>3, <1>6, <1>7, <1>9 DEF Typed
<1> QED
  BY <1>1, <1>8, <1>10, TypePartsNext DEF Drawn

LEMMA SetAllDrawn ==
  ASSUME Drawn, NEW on \in BOOLEAN, SetAll(on)
  PROVE  Drawn'
<1>1. /\ overrides' = [k \in data.own \cup {Other} |-> on] /\ panel = "usage"
      /\ panel' = panel /\ data' = data /\ metric' = metric /\ tip' = tip
  BY DEF SetAll
<1>2. Typed
  BY TypeParts DEF Drawn
<1>3. data.own \cup {Other} \subseteq Seen /\ IsFiniteSet(data.own \cup {Other})
  BY BoxesInside, FS_AddElement
<1>4. Seen' = Seen
  BY <1>1, SeenSame
<1>5. DOMAIN overrides' = data.own \cup {Other} /\ \A k \in DOMAIN overrides' : overrides'[k] \in BOOLEAN
  BY <1>1
<1>6. Typed'
  BY <1>1, <1>2, <1>3, <1>4, <1>5 DEF Typed
<1> QED
  BY <1>1, <1>3, <1>5, <1>6, TypePartsNext DEF Drawn

\* A tooltip, of a panel that has something to draw.
LEMMA TipDrawn ==
  ASSUME Drawn, UNCHANGED <<panel, data, overrides, metric>>,
         \A l \in tip'.lines : l.key \in Seen /\ l.part \in Nat /\ l.of \in Nat,
         keys # {} \/ tip' = NoTip \/ panel \notin {"errors", "sizes"}
  PROVE  Drawn'
<1>1. Typed
  BY TypeParts DEF Drawn
<1>2. keys' = keys /\ Seen' = Seen
  BY SeenSame DEF keys
<1>3. Typed'
  BY <1>1, <1>2 DEF Typed
<1> QED
  BY <1>3, TypePartsNext DEF Drawn

Lines(T) == \A l \in T.lines : l.key \in Seen /\ l.part \in Nat /\ l.of \in Nat

LEMMA UsageLines ==
  ASSUME Drawn, NEW i, buckets[i] \in ToSet(buckets), NEW k
  PROVE  Lines(usageTip(k, i))
<1> DEFINE b == buckets[i]
           D == Max({1, shownDenom(b)})
<1>1. (\A t : Calls(t, b) \in Nat) /\ shownDenom(b) \in Nat
  BY CallsFine
<1>2. D \in Nat
  BY <1>1, MaxOfTwo
<1>3. keys \subseteq Seen
  BY DrawnFine
<1>4. usageTip(k, i) = [at |-> b, lines |-> {[key |-> t, part |-> Calls(t, b), of |-> D] :
                                               t \in {u \in Tools(k) \cap keys : Calls(u, b) > 0}}]
  BY DEF usageTip
<1> HIDE DEF b, D
<1> QED
  BY <1>1, <1>2, <1>3, <1>4 DEF Lines

LEMMA PointFine ==
  ASSUME Drawn, NEW b \in ToSet(buckets), NEW k
  PROVE  point(k, b).part \in Nat /\ point(k, b).of \in Nat /\ point(k, b).key = k
<1> DEFINE g == [t \in keys |-> data.errors[t][b]]
           T == errTools(k)
<1>1. IsFiniteSet(keys) /\ T \in SUBSET keys
  BY DrawnFine DEF errTools
<1>2. \A t \in keys : g[t] \in Nat
  BY CallsFine
<1> HIDE DEF g, T
<1>3. Sum(g, T) \in Nat
  <2>1. IsFiniteSet(T) /\ \A t \in T : g[t] \in Nat
    BY <1>1, <1>2, FS_Subset
  <2> QED
    BY <2>1, SumNat
<1>4. CallsOf(T, b) \in Nat
  BY <1>1, CallsFine
<1>5. point(k, b) = [key |-> k, part |-> Sum(g, T), of |-> CallsOf(T, b)]
  BY DEF point, g, T
<1> QED
  BY <1>3, <1>4, <1>5

LEMMA ErrorLines ==
  ASSUME Drawn, NEW b \in ToSet(buckets)
  PROVE  Lines(errTip(b))
<1>1. \A k \in sel \cup {AGGREGATE} : k \in Seen
  BY BoxesInside
<1>2. \A l \in errTip(b).lines : \E k \in sel \cup {AGGREGATE} : l = point(k, b)
  BY DEF errTip
<1> QED
  BY <1>1, <1>2, PointFine DEF Lines

\* How many files of a model reach a turn.
LEMMA FilesFine ==
  ASSUME Drawn, NEW m, NEW t
  PROVE  IsFiniteSet(files(m, t)) /\ Cardinality(files(m, t)) \in Nat /\ files(m, t) \subseteq Rows(data.rows, {m})
<1>1. IsFiniteSet(Rows(data.rows, {m})) /\ files(m, t) \in SUBSET Rows(data.rows, {m})
  BY DrawnFine, CellFinite DEF files
<1>2. IsFiniteSet(files(m, t))
  BY <1>1, FS_Subset
<1> QED
  BY <1>1, <1>2, FS_CardinalityType

LEMMA CountIs ==
  ASSUME NEW m, NEW t
  PROVE  perTurnStats(m, t).count = Cardinality(files(m, t))
<1> DEFINE vals == [i \in files(m, t) |-> ctx(i, t)]
<1>1. perTurnStats(m, t).count = Cardinality(DOMAIN vals)
  BY DEF perTurnStats
<1> QED
  BY <1>1

LEMMA ContextLine ==
  ASSUME Drawn, NEW m \in keys, NEW t
  PROVE  ctxLine(m, t).key = m /\ ctxLine(m, t).part \in Nat /\ ctxLine(m, t).of \in Nat
<1>1. data.weight[m] \in Nat
  BY DrawnFine DEF PivotFine, keys
<1>2. perTurnStats(m, t).count \in Nat
  BY FilesFine, CountIs
<1> QED
  BY <1>1, <1>2 DEF ctxLine

LEMMA ContextLines ==
  ASSUME Drawn, NEW t
  PROVE  Lines(ctxTip(t)) /\ \A m \in keys : Lines(subTip(m, t))
<1>1. keys \subseteq Seen
  BY DrawnFine
<1>2. cmpModels \subseteq keys
  BY DEF cmpModels
<1>3. ctxTip(t).lines = {ctxLine(m, t) : m \in cmpModels} /\ \A m \in keys : subTip(m, t).lines = {ctxLine(m, t)}
  BY DEF ctxTip, subTip
<1> QED
  BY <1>1, <1>2, <1>3, ContextLine DEF Lines

LEMMA HeatLines ==
  ASSUME Drawn, panel = "heat", NEW d, NEW h \in {Sigma} \cup keys
  PROVE  Lines(heatTip(d, h))
<1>1. ASSUME NEW D, NEW H PROVE Totals(D, H) \in Nat
  <2> DEFINE I == {i \in DOMAIN data.rows : data.rows[i].ts \in D /\ data.rows[i].key \in H}
  <2>1. I \in SUBSET DOMAIN data.rows
    OBVIOUS
  <2>2. Totals(D, H) = IF metric = "requests" THEN N(data.rows, I) ELSE Errors(data.rows, I)
    BY DEF Totals
  <2> HIDE DEF I
  <2>3. N(data.rows, I) \in Nat /\ Errors(data.rows, I) \in Nat
    BY <2>1, DrawnFine, CountsAre
  <2> QED
    BY <2>2, <2>3
<1>2. h \in Seen
  BY DrawnFine DEF Seen
<1>3. \A l \in heatTip(d, h).lines :
        l.key = h /\ l.part = Totals(Days(d), Hours(h)) /\ l.of \in {Totals(Days(0), keys), 0}
  BY DEF heatTip
<1> QED
  BY <1>1, <1>2, <1>3 DEF Lines

LEMMA BucketOf == ASSUME NEW i \in DOMAIN buckets PROVE buckets[i] \in ToSet(buckets)
  BY DEF ToSet

LEMMA HoverDrawn ==
  ASSUME Drawn, Hover
  PROVE  Drawn'
<1> SUFFICES Lines(tip') /\ (keys # {} \/ panel \notin {"errors", "sizes"})
  BY TipDrawn DEF Hover, Lines
<1>1. ASSUME panel = "usage", NEW i \in liveIdx \cap DOMAIN buckets, NEW k, tip' = usageTip(k, i)
      PROVE  Lines(tip') /\ (keys # {} \/ panel \notin {"errors", "sizes"})
  BY <1>1, UsageLines, BucketOf
<1>2. ASSUME panel = "errors", NEW b \in ToSet(buckets), tip' = errTip(b)
      PROVE  Lines(tip') /\ keys # {}
  BY <1>2, ErrorLines, DrawnFine DEF PivotFine, keys, buckets
<1>3. ASSUME panel = "context", NEW t, tip' = ctxTip(t) \/ \E m \in keys : tip' = subTip(m, t)
      PROVE  Lines(tip') /\ (keys # {} \/ panel \notin {"errors", "sizes"})
  BY <1>3, ContextLines
<1>4. ASSUME panel \in {"sizes", "latency"}, NEW m \in visible,
             NEW x \in Min(DOMAIN linePoints(m)) .. Max(DOMAIN linePoints(m)), tip' = lineTip(m, x)
      PROVE  Lines(tip') /\ keys # {}
  <2>1. panel # "context" /\ m \in keys /\ keys \subseteq Seen
    BY <1>4, DrawnFine DEF visible
  <2>2. \E v \in Nat : tip' = [at |-> x, lines |-> {[key |-> m, part |-> v, of |-> 0]}]
    BY <1>4, <2>1, LineTipIs
  <2> QED
    BY <2>1, <2>2 DEF Lines
<1>5. ASSUME panel = "heat", NEW d, NEW h \in {Sigma} \cup keys, tip' = heatTip(d, h)
      PROVE  Lines(tip') /\ (keys # {} \/ panel \notin {"errors", "sizes"})
  BY <1>5, HeatLines
<1> QED
  BY <1>1, <1>2, <1>3, <1>4, <1>5 DEF Hover

LEMMA DrawnNext == Drawn /\ [Next]_vars => Drawn'
<1> SUFFICES ASSUME Drawn, [Next]_vars PROVE Drawn'
  OBVIOUS
<1>1. Typed
  BY TypeParts DEF Drawn
<1>2. CASE Remount
  BY <1>1, <1>2, FreshDrawn DEF Remount, Metrics, Typed
<1>3. ASSUME NEW k \in Metrics, SetMetric(k) PROVE Drawn'
  <2>1. panel' = panel /\ data' = data /\ overrides' = overrides /\ tip' = tip /\ metric' = k
    BY <1>3 DEF SetMetric
  <2>2. Seen' = Seen /\ keys' = keys
    BY <2>1, SeenSame DEF keys
  <2>3. Typed'
    BY <1>1, <1>3, <2>1, <2>2 DEF Typed
  <2> QED
    BY <2>1, <2>3, TypePartsNext DEF Drawn
<1>4. CASE Leave
  <2>1. tip' = NoTip /\ UNCHANGED <<panel, data, overrides, metric>>
    BY <1>4 DEF Leave
  <2> QED
    BY <2>1, NothingChosen, TipDrawn
<1>5. CASE UNCHANGED vars
  <2>1. UNCHANGED <<panel, data, overrides, metric>> /\ tip' = tip
    BY <1>5 DEF vars
  <2>2. \A l \in tip'.lines : l.key \in Seen /\ l.part \in Nat /\ l.of \in Nat
    BY <1>1, <2>1 DEF Typed
  <2> QED
    BY <1>1, <2>1, <2>2, TipDrawn DEF Typed
<1> QED
  BY <1>2, <1>3, <1>4, <1>5, AnswerDrawn, ToggleDrawn, SetAllDrawn, HoverDrawn DEF Next

\* Every panel draws its last answer, and what it keeps is of its kind.
THEOREM TypeCorrect == Spec => []TypeOK
<1>1. Drawn => TypeOK
  BY DEF Drawn
<1> QED
  BY <1>1, DrawnInit, DrawnNext, PTL DEF Spec

-----------------------------------------------------------------------------
(* ChecksFollowUser.                                                       *)

\* A click changes the box under it and no other.
LEMMA Toggled ==
  ASSUME NEW k \in Boxes, toggle(k)
  PROVE  SymDiff(Checked, Checked') = {k} /\ k \in DOMAIN overrides' /\ overrides'[k] = (k \in Checked')
<1>1. /\ overrides' = [j \in DOMAIN overrides \cup {k} |-> IF j = k THEN k \notin sel ELSE overrides[j]]
      /\ panel' = panel /\ data' = data
  BY DEF toggle, Clicked
<1>2. Boxes' = Boxes /\ Defaults' = Defaults
  BY <1>1 DEF Boxes, Defaults, hasOther, otherTools, keys
<1> DEFINE on == k \notin sel
<1>3. on \in BOOLEAN /\ overrides' = [j \in DOMAIN overrides \cup {k} |-> IF j = k THEN on ELSE overrides[j]]
  BY <1>1
<1> HIDE DEF on
<1>4. /\ DOMAIN overrides' = DOMAIN overrides \cup {k} /\ overrides'[k] = on
      /\ \A j \in DOMAIN overrides \ {k} : overrides'[j] = overrides[j]
  BY <1>3
<1>5. \A b \in BOOLEAN : Set(b)' = (Set(b) \ {k}) \cup (IF on = b THEN {k} ELSE {})
  BY <1>4 DEF Set
<1>6. /\ Set(TRUE)' = (Set(TRUE) \ {k}) \cup (IF on THEN {k} ELSE {})
      /\ Set(FALSE)' = (Set(FALSE) \ {k}) \cup (IF on THEN {} ELSE {k})
  BY <1>3, <1>5
<1>7. sel' = IF on THEN sel \cup {k} ELSE sel \ {k}
  <2>1. CASE on = TRUE
    BY <1>2, <1>6, <2>1 DEF sel
  <2>2. CASE on = FALSE
    BY <1>2, <1>6, <2>2 DEF sel
  <2> QED
    BY <1>3, <2>1, <2>2
<1>8. CASE on = TRUE
  <2>1. k \notin sel /\ k \in sel'
    BY <1>7, <1>8 DEF on
  <2>2. SymDiff(Checked, Checked') = {k}
    BY <1>2, <1>7, <1>8, <2>1 DEF SymDiff, Checked
  <2>3. (k \in Checked') = TRUE
    BY <1>2, <2>1 DEF Checked
  <2> QED
    BY <1>4, <1>8, <2>2, <2>3
<1>9. CASE on = FALSE
  <2>1. k \in sel /\ k \notin sel'
    BY <1>7, <1>9 DEF on
  <2>2. SymDiff(Checked, Checked') = {k}
    BY <1>2, <1>7, <1>9, <2>1 DEF SymDiff, Checked
  <2>3. (k \in Checked') = FALSE
    BY <1>2, <2>1 DEF Checked
  <2> QED
    BY <1>4, <1>9, <2>2, <2>3
<1> QED
  BY <1>3, <1>8, <1>9

\* The buttons make all boxes alike.
LEMMA AllSet ==
  ASSUME NEW on \in BOOLEAN, SetAll(on)
  PROVE  panel = "usage" /\ Checked' \in {{}, Boxes}
<1>1. /\ panel = "usage" /\ panel' = panel /\ data' = data
      /\ overrides' = [k \in data.own \cup {Other} |-> on]
  BY DEF SetAll
<1>2. Boxes' = Boxes /\ Boxes \subseteq data.own \cup {Other}
  BY <1>1 DEF Boxes, hasOther, otherTools, keys
<1>3. \A b \in BOOLEAN : Set(b)' = IF on = b THEN data.own \cup {Other} ELSE {}
  BY <1>1 DEF Set
<1>4. CASE on = TRUE
  <2>1. Set(TRUE)' = data.own \cup {Other} /\ Set(FALSE)' = {}
    BY <1>3, <1>4
  <2> QED
    BY <1>1, <1>2, <2>1 DEF Checked, sel
<1>5. CASE on = FALSE
  <2>1. Set(FALSE)' = data.own \cup {Other}
    BY <1>3, <1>5
  <2> QED
    BY <1>1, <1>2, <2>1 DEF Checked, sel
<1> QED
  BY <1>4, <1>5

\* What is set outlives the answer.
LEMMA Answered ==
  ASSUME Drawn, NEW R, Answer(R), keys' # {}, NEW k \in DOMAIN overrides \cap Boxes'
  PROVE  (k \in Checked') = overrides[k]
<1>1. data' = pivot(panel, R)
  BY DEF Answer
<1>2. R # <<>>
  BY <1>1, EmptyPivot DEF keys
<1>3. UNCHANGED overrides
  BY <1>2 DEF Answer, Kept
<1>4. overrides[k] \in BOOLEAN
  BY TypeParts DEF Drawn, Typed
<1>5. CASE overrides[k] = TRUE
  <2>1. k \in Set(TRUE)' /\ k \notin Set(FALSE)'
    BY <1>3, <1>5 DEF Set
  <2>2. k \in Checked'
    BY <2>1 DEF Checked, sel
  <2> QED
    BY <1>5, <2>2
<1>6. CASE overrides[k] = FALSE
  <2>1. k \in Set(FALSE)'
    BY <1>3, <1>6 DEF Set
  <2>2. k \notin Checked'
    BY <2>1 DEF Checked, sel
  <2>3. (k \in Checked') = FALSE
    BY <2>2
  <2> QED
    BY <1>6, <2>3
<1> QED
  BY <1>4, <1>5, <1>6

\* The boxes follow the user (dashboard-charts-extra.jsx 1296-1310, 1610-1624), whatever
\* answers arrive and however tools rank in them: a click changes the box under it and no
\* other, and what the user has set stays set while the panel is there.
THEOREM ChecksFollow == Spec => ChecksFollowUser
<1> DEFINE Follows ==
      /\ data' = data /\ overrides' # overrides =>
           \/ \E k \in Boxes : /\ SymDiff(Checked, Checked') = {k}
                               /\ k \in DOMAIN overrides' /\ overrides'[k] = (k \in Checked')
           \/ panel = "usage" /\ Checked' \in {{}, Boxes}
      /\ data' # data /\ keys' # {} =>
           \A k \in DOMAIN overrides \cap Boxes' : (k \in Checked') = overrides[k]
<1>1. Drawn /\ [Next]_vars => [Follows]_vars
  <2> SUFFICES ASSUME Drawn, Next PROVE Follows
    OBVIOUS
  <2>1. ASSUME NEW R, Answer(R) PROVE Follows
    <3>1. data' # data
      BY <2>1, PivotIs DEF Answer
    <3> QED
      BY <2>1, <3>1, Answered
  <2>2. CASE Remount
    <3>1. keys' = {} /\ keys # {}
      BY <2>2, EmptyPivot DEF Remount, keys
    <3>2. data' # data
      BY <3>1 DEF keys
    <3> QED
      BY <3>1, <3>2
  <2>3. ASSUME NEW k \in Boxes, toggle(k) PROVE Follows
    <3>1. data' = data
      BY <2>3 DEF toggle
    <3> QED
      BY <2>3, <3>1, Toggled
  <2>4. ASSUME NEW on \in BOOLEAN, SetAll(on) PROVE Follows
    <3>1. data' = data
      BY <2>4 DEF SetAll
    <3> QED
      BY <2>4, <3>1, AllSet
  <2>5. CASE data' = data /\ overrides' = overrides
    BY <2>5
  <2> QED
    BY <2>1, <2>2, <2>3, <2>4, <2>5 DEF Next, SetMetric, Hover, Leave
<1> QED
  BY <1>1, DrawnInit, DrawnNext, PTL DEF Spec, ChecksFollowUser

-----------------------------------------------------------------------------
(* ErrorsAccounted.                                                        *)

\* The tools and Other share out what is counted of all keys.
LEMMA SharedOut ==
  ASSUME Drawn, NEW f, \A t \in keys : f[t] \in Nat,
         NEW g, \A k \in data.own \cup {Other} : g[k] = Sum(f, errTools(k))
  PROVE  Sum(g, data.own \cup {Other}) = Sum(f, keys)
<1> DEFINE own == data.own
           K == own \cup {Other}
           h == [t \in keys |-> IF t \in own THEN t ELSE Other]
<1>1. /\ IsFiniteSet(keys) /\ IsFiniteSet(own) /\ own \subseteq keys
      /\ Other \notin keys /\ AGGREGATE \notin keys
  BY DrawnFine, BoxesInside DEF PivotFine, keys
<1>2. IsFiniteSet(K)
  BY <1>1, FS_AddElement
<1>3. \A t \in keys : h[t] \in K
  OBVIOUS
<1>4. ASSUME NEW k \in K PROVE g[k] = Sum(f, {t \in keys : h[t] = k})
  <2>1. CASE k = Other
    <3>1. {t \in keys : h[t] = k} = keys \ own
      BY <1>1, <2>1
    <3>2. errTools(k) = keys \ own
      BY <2>1 DEF errTools, Tools, otherTools, Other, AGGREGATE
    <3> QED
      BY <3>1, <3>2
  <2>2. CASE k # Other
    <3>1. k \in own /\ k # AGGREGATE
      BY <1>1, <2>2
    <3>2. {t \in keys : h[t] = k} = {k}
      BY <1>1, <2>2, <3>1
    <3>3. errTools(k) = {k}
      BY <1>1, <2>2, <3>1 DEF errTools, Tools
    <3> QED
      BY <3>2, <3>3
  <2> QED
    BY <2>1, <2>2
<1>5. \A t \in keys : f[t] \in Int
  OBVIOUS
<1>a. \A k \in K : g[k] = Sum(f, Class(keys, h, k))
  BY <1>4 DEF Class
<1> HIDE DEF h, own
<1>6. Sum(g, K) = Sum(f, keys)
  <2> HIDE DEF K
  <2> QED
    BY <1>1, <1>2, <1>3, <1>5, <1>a, SumByClass
<1> QED
  BY <1>6 DEF own

LEMMA AggregateTools ==
  ASSUME Drawn
  PROVE  errTools(AGGREGATE) = keys
  BY DEF errTools

LEMMA ErrorsHold ==
  ASSUME Drawn, panel = "errors"
  PROVE  ErrorsAccounted
<1>1. ASSUME NEW b \in ToSet(buckets)
      PROVE  LET parts == [k \in data.own \cup {Other} |-> point(k, b)]
                 sum(part) == Sum(part, DOMAIN parts)
             IN  /\ sum([k \in DOMAIN parts |-> parts[k].of]) = point(AGGREGATE, b).of
                 /\ sum([k \in DOMAIN parts |-> parts[k].part]) = point(AGGREGATE, b).part
                 /\ \A k \in DOMAIN parts : parts[k].part <= parts[k].of
  <2> DEFINE K == data.own \cup {Other}
             parts == [k \in K |-> point(k, b)]
             f == [t \in keys |-> data.count[t][b]]
             e == [t \in keys |-> data.errors[t][b]]
             g == [k \in K |-> parts[k].of]
             i == [k \in K |-> parts[k].part]
  <2>1. \A t \in keys : f[t] \in Nat /\ e[t] \in Nat /\ e[t] <= f[t]
    <3>1. \A t \in keys : data.errors[t][b] <= data.count[t][b]
      BY DrawnFine DEF PivotFine, keys, buckets
    <3> QED
      BY <3>1, CallsFine
  <2>2. \A k : point(k, b).of = Sum(f, errTools(k)) /\ point(k, b).part = Sum(e, errTools(k))
    BY DEF point, CallsOf
  <2>3. \A k \in K : g[k] = Sum(f, errTools(k)) /\ i[k] = Sum(e, errTools(k))
    BY <2>2
  <2> HIDE DEF f, e
  <2>4. Sum(g, K) = Sum(f, keys)
    <3> HIDE DEF g
    <3> QED
      BY <2>1, <2>3, SharedOut
  <2>5. Sum(i, K) = Sum(e, keys)
    <3> HIDE DEF i
    <3> QED
      BY <2>1, <2>3, SharedOut
  <2>6. ASSUME NEW k \in K PROVE parts[k].part <= parts[k].of
    <3>1. IsFiniteSet(errTools(k)) /\ errTools(k) \subseteq keys
      <4>1. IsFiniteSet(keys) /\ errTools(k) \in SUBSET keys
        BY DrawnFine DEF errTools
      <4> QED
        BY <4>1, FS_Subset
    <3>2. \A t \in errTools(k) : e[t] \in Int /\ f[t] \in Int /\ e[t] <= f[t]
      BY <2>1, <3>1
    <3>3. Sum(e, errTools(k)) <= Sum(f, errTools(k))
      BY <3>1, <3>2, SumAtMost
    <3> QED
      BY <2>2, <3>3
  <2>7. point(AGGREGATE, b).of = Sum(f, keys) /\ point(AGGREGATE, b).part = Sum(e, keys)
    BY <2>2, AggregateTools
  <2> QED
    BY <2>4, <2>5, <2>6, <2>7
<1>2. ASSUME NEW k \in sel, series(k) # {} PROVE k \in Boxes
  <2>1. k \in {AGGREGATE, Other} \cup data.own
    BY <1>2 DEF series
  <2>2. CASE k = Other
    <3>1. PICK b \in ToSet(buckets) : point(k, b).of > 0
      BY <1>2 DEF series
    <3>2. point(k, b).of = CallsOf(errTools(k), b)
      BY DEF point
    <3>3. CASE otherTools = {}
      <4>1. errTools(k) = {}
        BY <2>2, <3>3 DEF errTools, Tools, Other, AGGREGATE
      <4>2. CallsOf({}, b) = 0
        BY SumEmpty DEF CallsOf
      <4> QED
        BY <3>1, <3>2, <4>1, <4>2
    <3>4. CASE otherTools # {}
      BY <2>2, <3>4 DEF Boxes, hasOther
    <3> QED
      BY <3>3, <3>4
  <2> QED
    BY <2>1, <2>2 DEF Boxes
<1> QED
  BY <1>1, <1>2 DEF ErrorsAccounted

-----------------------------------------------------------------------------
(* StatsOrdered.                                                           *)

\* The j-th in order of size exists, and a later one is not less.
LEMMA NthFine ==
  ASSUME NEW vals, IsFiniteSet(DOMAIN vals), \A i \in DOMAIN vals : vals[i] \in Nat,
         NEW j \in 1..Cardinality(DOMAIN vals)
  PROVE  /\ nth(vals, j) \in Nat
         /\ \E h \in DOMAIN vals : vals[h] = nth(vals, j) /\ Cardinality({g \in DOMAIN vals : vals[g] <= vals[h]}) >= j
         /\ \A h \in DOMAIN vals : Cardinality({g \in DOMAIN vals : vals[g] <= vals[h]}) >= j => nth(vals, j) <= vals[h]
<1> DEFINE D == DOMAIN vals
           below(h) == {g \in D : vals[g] <= vals[h]}
           H == {h \in D : Cardinality(below(h)) >= j}
           V == {vals[i] : i \in H}
           W == {vals[i] : i \in D}
<1>1. Cardinality(D) \in Nat /\ j \in Nat /\ j <= Cardinality(D) /\ D # {}
  <2>1. Cardinality(D) \in Nat
    BY FS_CardinalityType
  <2>2. j \in Nat /\ j <= Cardinality(D) /\ j >= 1
    BY <2>1
  <2>3. D # {}
    BY <2>2, FS_EmptySet
  <2> QED
    BY <2>1, <2>2, <2>3
<1>2. H # {}
  <2>1. IsFiniteSet(W)
    BY FiniteImage
  <2>2. W \in SUBSET Int /\ W # {}
    BY <1>1
  <2> HIDE DEF W
  <2>3. Max(W) \in W /\ \A y \in W : y <= Max(W)
    BY <2>1, <2>2, EndsOfFinite
  <2>4. PICK h \in D : vals[h] = Max(W)
    BY <2>3 DEF W
  <2>5. \A g \in D : vals[g] <= vals[h]
    BY <2>3, <2>4 DEF W
  <2>6. below(h) = D
    BY <2>5
  <2>7. Cardinality(D) >= j
    BY <1>1
  <2> HIDE DEF below
  <2>8. h \in H
    BY <2>6, <2>7
  <2> QED
    BY <2>8
<1> HIDE DEF below
<1>3. V \in SUBSET Nat /\ V # {}
  BY <1>2
<1> HIDE DEF V
<1>4. Min(V) \in V /\ \A y \in V : Min(V) <= y
  BY <1>3, MinOfNats
<1>5. nth(vals, j) = Min(V)
  BY DEF nth, V, H, below
<1>6. PICK h \in H : vals[h] = Min(V)
  BY <1>4 DEF V
<1>7. \A i \in H : Min(V) <= vals[i]
  BY <1>4 DEF V
<1> QED
  BY <1>3, <1>4, <1>5, <1>6, <1>7 DEF H, below

LEMMA NthMonotone ==
  ASSUME NEW vals, IsFiniteSet(DOMAIN vals), \A i \in DOMAIN vals : vals[i] \in Nat,
         NEW j \in 1..Cardinality(DOMAIN vals), NEW k \in 1..Cardinality(DOMAIN vals), j <= k
  PROVE  nth(vals, j) <= nth(vals, k)
<1> DEFINE n == Cardinality(DOMAIN vals)
           size(h) == Cardinality({g \in DOMAIN vals : vals[g] <= vals[h]})
<1>1. \E h \in DOMAIN vals : vals[h] = nth(vals, k) /\ size(h) >= k
  BY NthFine
<1>2. PICK h \in DOMAIN vals : vals[h] = nth(vals, k) /\ size(h) >= k
  BY <1>1
<1>3. size(h) \in Nat
  <2> DEFINE T == {g \in DOMAIN vals : vals[g] <= vals[h]}
  <2>1. T \in SUBSET DOMAIN vals
    OBVIOUS
  <2> HIDE DEF T
  <2>2. IsFiniteSet(T)
    BY <2>1, FS_Subset
  <2>3. Cardinality(T) \in Nat
    BY <2>2, FS_CardinalityType
  <2> QED
    BY <2>3 DEF T
<1>4. size(h) >= j
  <2>1. n \in Nat
    BY FS_CardinalityType
  <2> HIDE DEF size
  <2> QED
    BY <1>2, <1>3, <2>1
<1>5. \A i \in DOMAIN vals : size(i) >= j => nth(vals, j) <= vals[i]
  BY NthFine
<1> HIDE DEF size
<1> QED
  BY <1>2, <1>4, <1>5

\* The hundredths do not fall.
LEMMA PickMonotone ==
  ASSUME NEW vals, IsFiniteSet(DOMAIN vals), DOMAIN vals # {}, \A i \in DOMAIN vals : vals[i] \in Nat,
         NEW p \in 0..99, NEW q \in 0..99, p <= q
  PROVE  pick(vals, p) <= pick(vals, q)
<1> DEFINE n == Cardinality(DOMAIN vals)
           place(h) == (n * h) \div 100 + 1
<1>1. n \in Nat \ {0}
  BY FS_CardinalityType, FS_EmptySet
<1>2. \A h \in 0..99 : place(h) \in Nat /\ place(h) >= 1
  <2> HIDE DEF n
  <2> QED
    BY <1>1
<1>3. place(p) <= place(q)
  <2> HIDE DEF n
  <2>1. n * p \in Nat /\ n * q \in Nat /\ n * p <= n * q
    BY <1>1
  <2> DEFINE u == n * p
             v == n * q
  <2>2. u \in Nat /\ v \in Nat /\ u <= v
    BY <2>1
  <2> HIDE DEF u, v
  <2>3. u \div 100 <= v \div 100
    BY <2>2
  <2> QED
    BY <2>2, <2>3 DEF u, v
<1> DEFINE cut(h) == Min({n, place(h)})
<1>4. \A h \in 0..99 : cut(h) = IF n <= place(h) THEN n ELSE place(h)
  <2> SUFFICES ASSUME NEW h \in 0..99 PROVE cut(h) = IF n <= place(h) THEN n ELSE place(h)
    OBVIOUS
  <2> DEFINE z == place(h)
  <2>1. z \in Int /\ n \in Int
    BY <1>1, <1>2
  <2> HIDE DEF z, n
  <2>2. Min({n, z}) = IF n <= z THEN n ELSE z
    BY <2>1, MinOfTwo
  <2> QED
    BY <2>2 DEF z, n
<1> HIDE DEF n
<1> DEFINE x == place(p)
           y == place(q)
<1>5. cut(p) \in 1..n /\ cut(q) \in 1..n /\ cut(p) <= cut(q)
  <2>1. x \in Nat /\ x >= 1 /\ y \in Nat /\ y >= 1 /\ x <= y
    BY <1>2, <1>3
  <2>2. cut(p) = (IF n <= x THEN n ELSE x) /\ cut(q) = (IF n <= y THEN n ELSE y)
    BY <1>4
  <2> HIDE DEF x, y, cut
  <2> QED
    BY <1>1, <2>1, <2>2
<1>6. pick(vals, p) = nth(vals, cut(p)) /\ pick(vals, q) = nth(vals, cut(q))
  BY DEF pick, n
<1> HIDE DEF cut
<1> QED
  BY <1>5, <1>6, NthMonotone DEF n

LEMMA ContextFine ==
  ASSUME Drawn, panel = "context", NEW m, NEW t \in Nat
  PROVE  \A i \in files(m, t) : ctx(i, t) \in Nat
<1> SUFFICES ASSUME NEW i \in files(m, t) PROVE ctx(i, t) \in Nat
  OBVIOUS
<1>1. i \in DOMAIN data.rows
  BY DEF files, Rows
<1>2. turns(i) \in Seq(Nat) /\ t <= Len(turns(i))
  BY <1>1, DrawnFine DEF RowsFine, turns, files
<1>3. CASE t = 0
  BY <1>3 DEF ctx
<1>4. CASE t # 0
  <2>1. t \in 1..Len(turns(i))
    BY <1>2, <1>4
  <2> QED
    BY <1>2, <1>4, <2>1 DEF ctx
<1> QED
  BY <1>3, <1>4

\* The turns that the files of a model reach.
LEMMA MaxTurn ==
  ASSUME Drawn, panel = "context", NEW m \in keys
  PROVE  /\ maxT(m) \in Nat /\ files(m, 0) = Rows(data.rows, {m})
         /\ \A i \in files(m, 0) : Len(turns(i)) \in Nat /\ Len(turns(i)) <= maxT(m)
         /\ \E i \in files(m, 0) : Len(turns(i)) = maxT(m)
<1> DEFINE F == files(m, 0)
           h == [i \in F |-> Len(turns(i))]
           V == {h[i] : i \in F}
<1>1. \A i \in Rows(data.rows, {m}) : Len(turns(i)) \in Nat
  <2>1. \A i \in DOMAIN data.rows : turns(i) \in Seq(Nat)
    BY DrawnFine DEF RowsFine, turns
  <2> QED
    BY <2>1 DEF Rows
<1>2. F = Rows(data.rows, {m})
  BY <1>1 DEF files
<1>3. IsFiniteSet(F)
  BY FilesFine
<1>4. F # {}
  <2>1. m \in {data.rows[i].key : i \in DOMAIN data.rows}
    BY DrawnFine DEF RowsFine
  <2> QED
    BY <1>2, <2>1 DEF Rows
<1>5. maxT(m) = Max(V)
  <2>1. {Len(turns(i)) : i \in F} = V
    OBVIOUS
  <2> QED
    BY <2>1 DEF maxT
<1>6. V \in SUBSET Int /\ V # {}
  <2>1. \A i \in F : h[i] \in Int
    BY <1>1, <1>2
  <2> HIDE DEF h, F
  <2> QED
    BY <1>4, <2>1
<1>7. IsFiniteSet(V)
  <2> HIDE DEF h, F
  <2> QED
    BY <1>3, FiniteImage
<1> HIDE DEF V
<1>8. Max(V) \in V /\ \A y \in V : y <= Max(V)
  BY <1>6, <1>7, EndsOfFinite
<1> QED
  BY <1>1, <1>2, <1>5, <1>8 DEF V

LEMMA FilesFewer ==
  ASSUME Drawn, panel = "context", NEW m, NEW t \in Nat \ {0}
  PROVE  Cardinality(files(m, t)) <= Cardinality(files(m, t - 1))
<1>1. files(m, t) \in SUBSET files(m, t - 1)
  <2>1. \A i \in Rows(data.rows, {m}) : Len(turns(i)) \in Nat
    BY DrawnFine DEF RowsFine, turns, Rows
  <2> QED
    BY <2>1 DEF files
<1>2. IsFiniteSet(files(m, t - 1))
  BY FilesFine
<1> QED
  BY <1>1, <1>2, FS_Subset

LEMMA StatsHold ==
  ASSUME Drawn, panel = "context"
  PROVE  StatsOrdered
<1> SUFFICES ASSUME NEW m \in keys, NEW t \in 0 .. maxT(m)
             PROVE  LET s == perTurnStats(m, t) IN
                    /\ s.p25 <= s.median /\ s.median <= s.p75 /\ s.p75 <= s.p90
                    /\ (t = 0 => s.count = data.weight[m])
                    /\ t > 0 => s.count <= perTurnStats(m, t - 1).count
  BY DEF StatsOrdered
<1> DEFINE vals == [i \in files(m, t) |-> ctx(i, t)]
           s == perTurnStats(m, t)
<1>a. maxT(m) \in Nat
  BY MaxTurn
<1>1. t \in Nat /\ maxT(m) \in Nat /\ t <= maxT(m)
  BY <1>a
<1>2. s.p25 = pick(vals, 25) /\ s.median = pick(vals, 50) /\ s.p75 = pick(vals, 75) /\ s.p90 = pick(vals, 90)
  BY DEF perTurnStats
<1>3. files(m, t) # {}
  <2>1. PICK i \in files(m, 0) : Len(turns(i)) = maxT(m)
    BY MaxTurn
  <2>2. i \in Rows(data.rows, {m})
    BY <2>1 DEF files
  <2> QED
    BY <1>1, <2>1, <2>2 DEF files
<1>4. IsFiniteSet(files(m, t)) /\ \A i \in files(m, t) : ctx(i, t) \in Nat
  BY <1>1, FilesFine, ContextFine
<1>5. IsFiniteSet(DOMAIN vals) /\ DOMAIN vals # {} /\ \A i \in DOMAIN vals : vals[i] \in Nat
  BY <1>3, <1>4
<1> HIDE DEF vals
<1>6. pick(vals, 25) <= pick(vals, 50) /\ pick(vals, 50) <= pick(vals, 75) /\ pick(vals, 75) <= pick(vals, 90)
  <2>1. 25 \in 0..99 /\ 50 \in 0..99 /\ 75 \in 0..99 /\ 90 \in 0..99 /\ 25 <= 50 /\ 50 <= 75 /\ 75 <= 90
    OBVIOUS
  <2> QED
    BY <1>5, <2>1, PickMonotone
<1>7. ASSUME t = 0 PROVE s.count = data.weight[m]
  <2>1. s.count = Cardinality(Rows(data.rows, {m}))
    BY <1>7, CountIs, MaxTurn
  <2>2. data.weight[m] = Cardinality(Rows(data.rows, {m}))
    <3> DEFINE R == data.rows
    <3>1. data = pivot(panel, R) /\ m \in Keys(R)
      BY DrawnFine DEF Drawn
    <3> HIDE DEF R
    <3>2. pivot(panel, R).weight[m] = Cardinality(Rows(R, {m}))
      BY <3>1, PivotIs
    <3> QED
      BY <3>1, <3>2 DEF R
  <2> QED
    BY <2>1, <2>2
<1>8. ASSUME t > 0 PROVE s.count <= perTurnStats(m, t - 1).count
  BY <1>1, <1>8, CountIs, FilesFewer
<1> QED
  BY <1>2, <1>6, <1>7, <1>8

-----------------------------------------------------------------------------
(* UsageAccounted.                                                         *)

SetsApart == Set(TRUE) \cap Set(FALSE) = {}

LEMMA ChosenApart ==
  SetsApart
<1> SUFFICES ASSUME NEW k \in Set(TRUE), k \in Set(FALSE) PROVE FALSE
  BY DEF SetsApart
<1>1. overrides[k] = TRUE
  BY DEF Set
<1>2. overrides[k] = FALSE
  BY DEF Set
<1> QED
  BY <1>1, <1>2

\* The bands a tool is in.
LEMMA BandsOf ==
  ASSUME Drawn, panel = "usage", NEW t \in keys
  PROVE  LET drawn == {k \in layers : t \in Tools(k)} IN
         \/ Cardinality(drawn) = 1
         \/ drawn = {} /\ Set(FALSE) \cap {t, Other} # {}
         \/ drawn = {t, Other} /\ t \in Set(TRUE) \cap otherTools
<1> DEFINE drawn == {k \in layers : t \in Tools(k)}
<1>1. t # Other /\ Other \notin keys /\ data.own \subseteq keys
  BY DrawnFine DEF PivotFine, keys
<1>2. sel = ((data.own \cup {Other}) \cup Set(TRUE)) \ Set(FALSE)
  BY DEF sel, Defaults
<1>3. drawn = {k \in {t} : t \in sel} \cup {k \in {Other} : Other \in sel /\ t \in otherTools}
  <2>1. \A k : k \in drawn => (k = t /\ t \in sel) \/ (k = Other /\ Other \in sel /\ t \in otherTools)
    BY <1>1 DEF layers, bands, showOther, Tools
  <2>2. t \in sel => t \in drawn
    BY <1>1 DEF layers, bands, Tools
  <2>3. Other \in sel /\ t \in otherTools => Other \in drawn
    BY <1>1 DEF layers, bands, showOther, Tools
  <2> HIDE DEF drawn
  <2> QED
    BY <2>1, <2>2, <2>3
<1> HIDE DEF drawn
<1>4. otherTools = keys \ data.own
  BY DEF otherTools
<1>5. CASE t \in data.own
  <2>1. t \notin otherTools
    BY <1>4, <1>5
  <2>2. CASE t \in Set(FALSE)
    <3>1. t \notin sel
      BY <1>2, <2>2
    <3>2. drawn = {}
      BY <1>3, <2>1, <3>1
    <3> QED
      BY <2>2, <3>2 DEF drawn
  <2>3. CASE t \notin Set(FALSE)
    <3>1. t \in sel
      BY <1>2, <1>5, <2>3
    <3>2. drawn = {t}
      BY <1>3, <2>1, <3>1
    <3>3. Cardinality(drawn) = 1
      BY <3>2, FS_Singleton
    <3> QED
      BY <3>3 DEF drawn
  <2> QED
    BY <2>2, <2>3
<1>6. CASE t \notin data.own
  <2>1. t \in otherTools
    BY <1>4, <1>6
  <2>2. t \in sel => t \in Set(TRUE)
    BY <1>1, <1>2, <1>6
  <2>3. CASE Other \in Set(FALSE)
    <3>1. Other \notin sel
      BY <1>2, <2>3
    <3>2. CASE t \in sel
      <4>1. drawn = {t}
        BY <1>3, <3>1, <3>2
      <4>2. Cardinality(drawn) = 1
        BY <4>1, FS_Singleton
      <4> QED
        BY <4>2 DEF drawn
    <3>3. CASE t \notin sel
      <4>1. drawn = {}
        BY <1>3, <3>1, <3>3
      <4> QED
        BY <2>3, <4>1 DEF drawn
    <3> QED
      BY <3>2, <3>3
  <2>4. CASE Other \notin Set(FALSE)
    <3>1. Other \in sel
      BY <1>2, <2>4
    <3>2. CASE t \in sel
      <4>1. drawn = {t, Other}
        BY <1>3, <2>1, <3>1, <3>2
      <4> QED
        BY <2>1, <2>2, <3>2, <4>1 DEF drawn
    <3>3. CASE t \notin sel
      <4>1. drawn = {Other}
        BY <1>3, <2>1, <3>1, <3>3
      <4>2. Cardinality(drawn) = 1
        BY <4>1, FS_Singleton
      <4> QED
        BY <4>2 DEF drawn
    <3> QED
      BY <3>2, <3>3
  <2> QED
    BY <2>3, <2>4
<1> QED
  BY <1>5, <1>6

\* A key that is not among the first has as many ahead of it.
LEMMA TopLeft ==
  ASSUME NEW R, NEW w, NEW top \in Nat, IsFiniteSet(DOMAIN w), NEW k \in DOMAIN w, k \notin Top(R, w, top),
         \A j \in DOMAIN w : w[j] \in Nat /\ Min(Rows(R, {j})) \in Int
  PROVE  Cardinality({u \in DOMAIN w : u # k /\ w[u] >= w[k]}) >= top
<1> DEFINE first(j) == Min(Rows(R, {j}))
           ahead(j) == w[j] > w[k] \/ (w[j] = w[k] /\ first(j) < first(k))
           A == {j \in DOMAIN w : ahead(j)}
           V == {u \in DOMAIN w : u # k /\ w[u] >= w[k]}
<1>1. ~(Cardinality(A) < top)
  BY DEF Top
<1>2. V \in SUBSET DOMAIN w
  OBVIOUS
<1>3. \A j \in DOMAIN w : ahead(j) => j # k /\ w[j] >= w[k]
  OBVIOUS
<1>4. A \in SUBSET V
  BY <1>3
<1> HIDE DEF A, V
<1>5. IsFiniteSet(V)
  BY <1>2, FS_Subset
<1>6. IsFiniteSet(A) /\ Cardinality(A) <= Cardinality(V)
  BY <1>4, <1>5, FS_Subset
<1>7. Cardinality(A) \in Nat /\ Cardinality(V) \in Nat
  BY <1>5, <1>6, FS_CardinalityType
<1>8. Cardinality(V) >= top
  BY <1>1, <1>6, <1>7
<1> QED
  BY <1>8 DEF V

\* No tool in Other is among a bucket's first.
LEMMA OthersBehind ==
  ASSUME Drawn, panel = "usage", NEW t \in otherTools, NEW b \in ToSet(buckets), Calls(t, b) > 0
  PROVE  Cardinality({u \in keys : u # t /\ Calls(u, b) >= Calls(t, b)}) >= UsageTop
<1> DEFINE R == data.rows
           count == data.count
           C == {j \in DOMAIN count : count[j][b] > 0}
           w == [k \in C |-> count[k][b]]
           V == {u \in DOMAIN w : u # t /\ w[u] >= w[t]}
           W == {u \in keys : u # t /\ Calls(u, b) >= Calls(t, b)}
<1>1. data = pivot(panel, R) /\ keys = Keys(R) /\ b \in Buckets(panel, R) /\ IsFiniteSet(keys)
  BY DrawnFine DEF Drawn
<1>2. DOMAIN count = keys
  <2>1. DOMAIN pivot(panel, R).count = Keys(R)
    BY PivotIs
  <2> QED
    BY <1>1, <2>1
<1>3. data.own = promoted(R, Buckets(panel, R), count, data.weight)
  <2>1. pivot(panel, R).own = promoted(R, Buckets(panel, R), pivot(panel, R).count, pivot(panel, R).weight)
    BY PivotIs
  <2> QED
    BY <1>1, <2>1
<1>4. Top(R, w, UsageTop) \subseteq data.own
  BY <1>1, <1>3 DEF promoted
<1>5. t \in keys /\ t \notin data.own
  BY DEF otherTools
<1>6. \A u \in keys : Calls(u, b) = count[u][b] /\ count[u][b] \in Nat
  BY CallsFine
<1>7. t \in C /\ C \in SUBSET keys
  BY <1>2, <1>5, <1>6
<1>8. \A j \in keys : Min(Rows(R, {j})) \in Int
  <2> SUFFICES ASSUME NEW j \in keys PROVE Min(Rows(R, {j})) \in Int
    OBVIOUS
  <2>1. RowsFine(panel, R)
    BY DrawnFine
  <2> HIDE DEF R
  <2>2. IsFiniteSet(Rows(R, {j})) /\ Rows(R, {j}) \subseteq DOMAIN R
    BY <2>1, CellFinite
  <2>3. Rows(R, {j}) # {}
    BY <1>1, <2>1 DEF RowsFine, Rows
  <2>4. DOMAIN R \subseteq Int
    <3>1. WellFormed(panel, data.rows)
      BY TypeParts, AnswersAssumption, NoAnswerFine DEF Drawn, Typed
    <3>2. DOMAIN data.rows = 1..Len(data.rows) /\ Len(data.rows) \in Nat
      BY <3>1, AnswerRows
    <3> QED
      BY <3>2 DEF R
  <2>5. Rows(R, {j}) \in SUBSET Int
    BY <2>2, <2>4
  <2>6. Min(Rows(R, {j})) \in Rows(R, {j})
    BY <2>2, <2>3, <2>5, EndsOfFinite
  <2> QED
    BY <2>5, <2>6
<1>9. DOMAIN w = C /\ \A u \in C : w[u] = count[u][b]
  OBVIOUS
<1> HIDE DEF C, w
<1>10. IsFiniteSet(C)
  BY <1>1, <1>7, FS_Subset
<1>11. Cardinality(V) >= UsageTop
  <2>1. UsageTop \in Nat
    BY ToolPanelsAssumption
  <2>2. IsFiniteSet(DOMAIN w) /\ t \in DOMAIN w /\ t \notin Top(R, w, UsageTop)
    BY <1>4, <1>5, <1>7, <1>9, <1>10
  <2>3. \A j \in DOMAIN w : w[j] \in Nat /\ Min(Rows(R, {j})) \in Int
    BY <1>6, <1>7, <1>8, <1>9
  <2> HIDE DEF R
  <2> QED
    BY <2>1, <2>2, <2>3, TopLeft
<1>12. V \in SUBSET W
  BY <1>5, <1>6, <1>7, <1>9
<1>13. W \in SUBSET keys
  OBVIOUS
<1> HIDE DEF V, W
<1>14. IsFiniteSet(W)
  BY <1>1, <1>13, FS_Subset
<1>15. IsFiniteSet(V) /\ Cardinality(V) <= Cardinality(W)
  BY <1>12, <1>14, FS_Subset
<1>16. Cardinality(V) \in Nat /\ Cardinality(W) \in Nat /\ UsageTop \in Nat
  BY <1>14, <1>15, FS_CardinalityType, ToolPanelsAssumption
<1>17. Cardinality(W) >= UsageTop
  BY <1>11, <1>15, <1>16
<1> QED
  BY <1>17 DEF W

\* What goes on in a straight line for half a bucket is not all cut off: the shares of the
\* bucket at the end are as much as those of the next.
LEMMA EdgeShows ==
  ASSUME NEW L, IsFiniteSet(L), NEW f, NEW g, \A k \in L : f[k] \in Nat /\ g[k] \in Nat,
         NEW e, \A k \in L : e[k] = Max({0, 3 * f[k] * Max({1, Sum(g, L)}) - g[k] * Max({1, Sum(f, L)})})
  PROVE  Sum(e, L) > 0 <=> Sum(f, L) > 0
<1> DEFINE F == Sum(f, L)
           G == Sum(g, L)
           D == Max({1, F})
           E == Max({1, G})
           d(k) == 3 * f[k] * E - g[k] * D
<1>1. F \in Nat /\ G \in Nat
  BY SumNat
<1>2. D \in Nat /\ D >= 1 /\ D >= F /\ E \in Nat /\ E >= 1 /\ E >= G /\ (F > 0 => D = F)
  <2> HIDE DEF F, G
  <2>1. D = (IF 1 >= F THEN 1 ELSE F) /\ E = (IF 1 >= G THEN 1 ELSE G)
    BY <1>1, MaxOfTwo
  <2> HIDE DEF D, E
  <2> QED
    BY <1>1, <2>1
<1>3. \A k \in L : e[k] = Max({0, d(k)})
  OBVIOUS
<1> HIDE DEF D, E
<1>4. \A k \in L : d(k) \in Int
  <2> SUFFICES ASSUME NEW k \in L PROVE d(k) \in Int
    OBVIOUS
  <2>1. f[k] \in Nat /\ g[k] \in Nat
    OBVIOUS
  <2> QED
    BY <1>2, <2>1
<1>5. \A k \in L : e[k] = IF 0 >= d(k) THEN 0 ELSE d(k)
  <2> SUFFICES ASSUME NEW k \in L PROVE e[k] = IF 0 >= d(k) THEN 0 ELSE d(k)
    OBVIOUS
  <2>1. d(k) \in Int
    BY <1>4
  <2>2. e[k] = Max({0, d(k)})
    BY <1>3
  <2> DEFINE y == d(k)
  <2>3. y \in Int /\ e[k] = Max({0, y})
    BY <2>1, <2>2
  <2> HIDE DEF y
  <2>4. e[k] = IF 0 >= y THEN 0 ELSE y
    BY <2>3, MaxOfTwo
  <2> QED
    BY <2>4 DEF y
<1>6. \A k \in L : e[k] \in Nat
  <2> HIDE DEF d
  <2> QED
    BY <1>4, <1>5
<1>7. (F > 0 <=> \E k \in L : f[k] > 0) /\ (Sum(e, L) > 0 <=> \E k \in L : e[k] > 0)
  BY <1>6, SumPositive
<1>8. ASSUME NEW k \in L, e[k] > 0 PROVE f[k] > 0
  <2>1. d(k) > 0
    <3> HIDE DEF d
    <3> QED
      BY <1>4, <1>5, <1>8
  <2>2. f[k] \in Nat /\ g[k] \in Nat
    OBVIOUS
  <2>3. g[k] * D \in Nat
    BY <1>2, <2>2
  <2>4. f[k] # 0
    <3> SUFFICES ASSUME f[k] = 0 PROVE FALSE
      OBVIOUS
    <3>1. d(k) = 0 - g[k] * D
      BY <1>2
    <3> HIDE DEF d
    <3> QED
      BY <1>4, <2>1, <2>3, <3>1
  <2> QED
    BY <2>2, <2>4
<1>9. ASSUME F > 0, \A k \in L : ~(e[k] > 0) PROVE FALSE
  <2>1. \A k \in L : f[k] \in Int /\ g[k] \in Int /\ (3 * E) * f[k] <= D * g[k]
    <3> SUFFICES ASSUME NEW k \in L PROVE f[k] \in Int /\ g[k] \in Int /\ (3 * E) * f[k] <= D * g[k]
      OBVIOUS
    <3>1. f[k] \in Nat /\ g[k] \in Nat
      OBVIOUS
    <3>2. 0 >= d(k)
      <4> HIDE DEF d
      <4> QED
        BY <1>4, <1>5, <1>9
    <3> DEFINE u == f[k]
               v == g[k]
    <3>3. u \in Nat /\ v \in Nat /\ 0 >= 3 * u * E - v * D
      BY <3>1, <3>2
    <3> HIDE DEF u, v
    <3>4. 3 * u * E = (3 * E) * u /\ v * D = D * v /\ 3 * u * E \in Int /\ v * D \in Int
      BY <1>2, <3>3
    <3>5. (3 * E) * u <= D * v
      BY <3>3, <3>4
    <3> QED
      BY <3>1, <3>5 DEF u, v
  <2>2. 3 * E \in Nat /\ D \in Nat
    BY <1>2
  <2> DEFINE a == 3 * E
  <2>3. a * F <= D * G
    <3>1. a \in Nat /\ \A k \in L : f[k] \in Int /\ g[k] \in Int /\ a * f[k] <= D * g[k]
      BY <2>1, <2>2
    <3> HIDE DEF a
    <3> QED
      BY <1>2, <3>1, SumScaled
  <2>4. D = F
    BY <1>2, <1>9
  <2> HIDE DEF F, G
  <2>5. (3 * E) * F <= F * G
    BY <2>3, <2>4
  <2>6. F * G <= F * E
    <3>1. \A x, y, z \in Nat : x <= y => z * x <= z * y
      OBVIOUS
    <3> QED
      BY <1>1, <1>2, <3>1
  <2>7. F * E > 0 /\ F * E \in Nat /\ (3 * E) * F = 3 * (F * E) /\ F * G \in Nat
    BY <1>1, <1>2, <1>9
  <2> DEFINE fe == F * E
             fg == F * G
  <2>8. fe \in Nat /\ fe > 0 /\ 3 * fe <= fg /\ fg <= fe /\ fg \in Nat
    BY <2>5, <2>6, <2>7
  <2> HIDE DEF fe, fg
  <2> QED
    BY <2>8
<1> QED
  BY <1>7, <1>8, <1>9

\* The ends are drawn when their bucket is.
LEMMA EndsLive ==
  ASSUME Drawn, 0 \in grid
  PROVE  LET n == Len(buckets) IN (0 \in liveIdx <=> 1 \in liveIdx) /\ (n + 1 \in liveIdx <=> n \in liveIdx)
<1> DEFINE n == Len(buckets)
<1>1. n \in Nat /\ DOMAIN buckets = 1..n
  BY DrawnFine DEF PivotFine, buckets
<1>2. n >= 2 /\ grid = 0..(n + 1)
  BY <1>1 DEF grid
<1>3. ASSUME NEW i \in DOMAIN buckets, NEW j \in DOMAIN buckets, NEW z \in {0, n + 1},
             \A k : share(k, z) = edge(k, buckets[i], buckets[j])
      PROVE  height(z) > 0 <=> height(i) > 0
  <2> DEFINE f == [k \in layers |-> Calls(k, buckets[i])]
             g == [k \in layers |-> Calls(k, buckets[j])]
             e == [k \in layers |-> share(k, z)]
             h == [k \in layers |-> share(k, i)]
             L == layers
  <2>1. buckets[i] \in ToSet(buckets) /\ buckets[j] \in ToSet(buckets)
    BY BucketOf
  <2>2. IsFiniteSet(L) /\ \A k \in L : f[k] \in Nat /\ g[k] \in Nat
    BY <2>1, CallsFine
  <2>3. shownDenom(buckets[i]) = Sum(f, L) /\ shownDenom(buckets[j]) = Sum(g, L)
    BY DEF shownDenom
  <2>4. height(z) = Sum(e, L) /\ height(i) = Sum(h, L)
    BY DEF height
  <2>5. \A k \in L : h[k] = f[k]
    BY DEF share
  <2>6. \A k \in L : e[k] = Max({0, 3 * f[k] * Max({1, Sum(g, L)}) - g[k] * Max({1, Sum(f, L)})})
    <3> SUFFICES ASSUME NEW k \in L
                 PROVE  e[k] = Max({0, 3 * f[k] * Max({1, Sum(g, L)}) - g[k] * Max({1, Sum(f, L)})})
      OBVIOUS
    <3>1. e[k] = edge(k, buckets[i], buckets[j])
      BY <1>3
    <3>2. edge(k, buckets[i], buckets[j]) =
            Max({0, 3 * f[k] * Max({1, shownDenom(buckets[j])}) - g[k] * Max({1, shownDenom(buckets[i])})})
      BY DEF edge
    <3> QED
      BY <2>3, <3>1, <3>2
  <2> HIDE DEF f, g, e, h, L
  <2>7. Sum(e, L) > 0 <=> Sum(f, L) > 0
    BY <2>2, <2>6, EdgeShows
  <2>8. Sum(h, L) = Sum(f, L)
    <3>1. \A k \in L : f[k] \in Int /\ h[k] = f[k]
      BY <2>2, <2>5
    <3> QED
      BY <2>2, <3>1, SumSame
  <2> QED
    BY <2>4, <2>7, <2>8
<1>4. \A k : share(k, 0) = edge(k, buckets[1], buckets[2])
  BY <1>1, <1>2 DEF share
<1>5. \A k : share(k, n + 1) = edge(k, buckets[n], buckets[n - 1])
  <2>1. n + 1 \notin DOMAIN buckets /\ n + 1 # 0
    BY <1>1
  <2> QED
    BY <2>1 DEF share
<1>6. 1 \in DOMAIN buckets /\ 2 \in DOMAIN buckets /\ n \in DOMAIN buckets /\ n - 1 \in DOMAIN buckets
  BY <1>1, <1>2
<1>7. (height(0) > 0 <=> height(1) > 0) /\ (height(n + 1) > 0 <=> height(n) > 0)
  <2>1. height(0) > 0 <=> height(1) > 0
    BY <1>3, <1>4, <1>6
  <2>2. height(n + 1) > 0 <=> height(n) > 0
    BY <1>3, <1>5, <1>6
  <2> QED
    BY <2>1, <2>2
<1>8. 0 \in grid /\ 1 \in grid /\ n \in grid /\ n + 1 \in grid
  BY <1>1, <1>2
<1> HIDE DEF n
<1> QED
  BY <1>7, <1>8 DEF liveIdx, n

LEMMA UsageHold ==
  ASSUME Drawn, panel = "usage"
  PROVE  UsageAccounted
<1>1. \A t \in keys : LET drawn == {k \in layers : t \in Tools(k)} IN
        \/ Cardinality(drawn) = 1
        \/ drawn = {} /\ Set(FALSE) \cap {t, Other} # {}
        \/ drawn = {t, Other} /\ t \in Set(TRUE) \cap otherTools
  BY BandsOf
<1>2. \A t \in otherTools, b \in ToSet(buckets) :
        Calls(t, b) > 0 => Cardinality({u \in keys : u # t /\ Calls(u, b) >= Calls(t, b)}) >= UsageTop
  BY OthersBehind
<1> QED
  BY <1>1, <1>2, EndsLive DEF UsageAccounted

\* What the charts show accounts for every call and file of the answer, whatever is checked
\* (dashboard-charts-extra.jsx 65-97, 1274-1345, 1572-1716).
THEOREM ChartsComplete == Spec => []ChartsAccount
<1>1. Drawn => ChartsAccount
  <2>1. Drawn => panel \in Panels
    BY TypeParts DEF Drawn, Typed
  <2> QED
    BY <2>1, UsageHold, ErrorsHold, StatsHold DEF ChartsAccount, Panels
<1> QED
  BY <1>1, DrawnInit, DrawnNext, PTL DEF Spec

-----------------------------------------------------------------------------
(* TipMatchesChart.                                                        *)

UsageTold ==
  \E i \in liveIdx \cap DOMAIN buckets :
    \E k \in layers : /\ buckets[i] = tip'.at
                      /\ \A l \in tip'.lines :
                           Sum([x \in tip'.lines |-> x.part], tip'.lines) * height(i) = share(k, i) * l.of

LEMMA UsageTips ==
  ASSUME Drawn, NEW i \in liveIdx \cap DOMAIN buckets, NEW k \in layers, tip' = usageTip(k, i)
  PROVE  UsageTold
<1> DEFINE b == buckets[i]
           D == shownDenom(b)
           T == Tools(k) \cap keys
           S == {u \in T : Calls(u, b) > 0}
           f == [t \in keys |-> data.count[t][b]]
           h == [t \in S |-> [key |-> t, part |-> Calls(t, b), of |-> Max({1, D})]]
           J == {h[t] : t \in S}
           g == [l \in J |-> l.part]
<1>1. b \in ToSet(buckets)
  BY BucketOf
<1>2. /\ \A t \in keys : Calls(t, b) = f[t] /\ f[t] \in Nat
      /\ \A j : Calls(j, b) \in Nat
      /\ IsFiniteSet(layers) /\ D \in Nat
  BY <1>1, CallsFine
<1>3. tip'.at = b /\ tip'.lines = J
  <2>1. usageTip(k, i) = [at |-> b, lines |-> {[key |-> t, part |-> Calls(t, b), of |-> Max({1, D})] : t \in S}]
    BY DEF usageTip
  <2>2. {[key |-> t, part |-> Calls(t, b), of |-> Max({1, D})] : t \in S} = J
    OBVIOUS
  <2>3. tip' = [at |-> b, lines |-> J]
    BY <2>1, <2>2
  <2> HIDE DEF J, b
  <2> QED
    BY <2>3
<1>4. Calls(k, b) = Sum(f, T)
  BY DEF Calls, CallsOf
<1>5. height(i) = D
  <2> DEFINE p == [j \in layers |-> share(j, i)]
             q == [j \in layers |-> Calls(j, b)]
  <2>1. \A j \in layers : q[j] \in Int /\ p[j] = q[j]
    BY <1>2 DEF share
  <2>2. height(i) = Sum(p, layers) /\ D = Sum(q, layers)
    BY DEF height, shownDenom
  <2> HIDE DEF p, q, D
  <2>3. Sum(q, layers) = Sum(p, layers)
    BY <1>2, <2>1, SumSame
  <2> QED
    BY <2>2, <2>3
<1>6. share(k, i) = Calls(k, b)
  BY DEF share
<1>7. D > 0
  BY <1>5 DEF liveIdx
<1>8. Max({1, D}) = D
  <2> HIDE DEF D
  <2>1. Max({1, D}) = IF 1 >= D THEN 1 ELSE D
    BY <1>2, MaxOfTwo
  <2> QED
    BY <1>2, <1>7, <2>1
<1>9. \A l \in J : l.of = D
  BY <1>8
<1>10. \A x, y \in S : h[x] = h[y] => x = y
  <2> SUFFICES ASSUME NEW x \in S, NEW y \in S, h[x] = h[y] PROVE x = y
    OBVIOUS
  <2>1. h[x].key = x /\ h[y].key = y
    OBVIOUS
  <2> QED
    BY <2>1
<1>11. \A t \in S : f[t] \in Int /\ g[h[t]] = f[t]
  <2> SUFFICES ASSUME NEW t \in S PROVE f[t] \in Int /\ g[h[t]] = f[t]
    OBVIOUS
  <2>1. h[t] \in J /\ h[t].part = Calls(t, b)
    OBVIOUS
  <2>2. Calls(t, b) = f[t] /\ f[t] \in Nat
    BY <1>2
  <2> HIDE DEF J, h
  <2>3. g[h[t]] = h[t].part
    BY <2>1
  <2> QED
    BY <2>1, <2>2, <2>3
<1>12. IsFiniteSet(T) /\ IsFiniteSet(S)
  <2>1. IsFiniteSet(keys) /\ T \in SUBSET keys
    BY DrawnFine
  <2>2. IsFiniteSet(T)
    BY <2>1, FS_Subset
  <2>3. S \in SUBSET T
    OBVIOUS
  <2> HIDE DEF S, T
  <2> QED
    BY <2>2, <2>3, FS_Subset
<1>13. Sum(g, J) = Sum(f, S)
  <2>1. J = {h[t] : t \in S}
    OBVIOUS
  <2> HIDE DEF g, h, f, S, J
  <2>2. Sum(g, {h[t] : t \in S}) = Sum(f, S)
    BY <1>10, <1>11, <1>12, SumRenamed
  <2> QED
    BY <2>1, <2>2
<1>14. Sum(f, T) = Sum(f, S)
  <2> DEFINE Z == T \ S
  <2>1. \A t \in Z : f[t] = 0
    <3> SUFFICES ASSUME NEW t \in T, ~(Calls(t, b) > 0) PROVE f[t] = 0
      OBVIOUS
    <3>1. Calls(t, b) = f[t] /\ f[t] \in Nat
      BY <1>2
    <3> HIDE DEF f
    <3> QED
      BY <3>1
  <2>2. T = S \cup Z /\ S \cap Z = {} /\ Z \in SUBSET T /\ T \subseteq keys
    OBVIOUS
  <2> HIDE DEF Z, S, T, f
  <2>3. IsFiniteSet(Z)
    BY <1>12, <2>2, FS_Subset
  <2>4. Sum(f, Z) = 0
    BY <2>1, <2>3, SumZero
  <2>5. \A t \in S \cup Z : f[t] \in Int
    BY <1>2, <2>2
  <2>6. Sum(f, S \cup Z) = Sum(f, S) + Sum(f, Z)
    BY <1>12, <2>2, <2>3, <2>5, SumUnion
  <2>7. Sum(f, S) \in Int
    BY <1>12, <2>5, SumLess
  <2> QED
    BY <2>2, <2>4, <2>6, <2>7
<1> DEFINE total == Sum([x \in tip'.lines |-> x.part], tip'.lines)
<1>15. total = Calls(k, b)
  <2>1. total = Sum(g, J)
    BY <1>3
  <2> QED
    BY <1>4, <1>13, <1>14, <2>1
<1> HIDE DEF b, D, J, total
<1>16. \A l \in tip'.lines : total * height(i) = share(k, i) * l.of
  BY <1>3, <1>5, <1>6, <1>9, <1>15
<1> QED
  BY <1>3, <1>16 DEF UsageTold, total, b

ErrorsTold ==
  \A l \in tip'.lines : l.key \in Checked => [at |-> tip'.at, point |-> l] \in series(l.key)

LEMMA ErrorTips ==
  ASSUME Drawn, panel = "errors", NEW b \in ToSet(buckets), tip' = errTip(b)
  PROVE  ErrorsTold
<1> SUFFICES ASSUME NEW l \in tip'.lines, l.key \in Checked
             PROVE  [at |-> tip'.at, point |-> l] \in series(l.key)
  BY DEF ErrorsTold
<1>1. tip'.at = b /\ tip'.lines = {p \in {point(k, b) : k \in sel \cup {AGGREGATE}} : p.of > 0}
  BY DEF errTip
<1>2. PICK k \in sel \cup {AGGREGATE} : l = point(k, b)
  BY <1>1
<1>3. l.of > 0
  BY <1>1
<1>4. l.key = k
  BY <1>2, PointFine
<1>5. k \in {AGGREGATE, Other} \cup data.own
  BY <1>4 DEF Checked, Boxes, hasOther
<1>6. b \in {c \in ToSet(buckets) : point(k, c).of > 0}
  BY <1>2, <1>3
<1>7. [at |-> b, point |-> point(k, b)] \in series(k)
  BY <1>5, <1>6 DEF series
<1> QED
  BY <1>1, <1>2, <1>4, <1>7

ContextTold == \A l \in tip'.lines : l.part = Cardinality(files(l.key, tip'.at))

LEMMA ContextPart ==
  ASSUME Drawn, panel = "context", NEW m \in keys, NEW t \in Int
  PROVE  ctxLine(m, t).key = m /\ ctxLine(m, t).part = Cardinality(files(m, t))
<1>1. ctxLine(m, t).key = m /\ ctxLine(m, t).part = IF t > maxT(m) THEN 0 ELSE perTurnStats(m, t).count
  BY DEF ctxLine
<1>2. ASSUME t > maxT(m) PROVE Cardinality(files(m, t)) = 0
  <2>1. /\ maxT(m) \in Nat /\ files(m, 0) = Rows(data.rows, {m})
        /\ \A i \in files(m, 0) : Len(turns(i)) \in Nat /\ Len(turns(i)) <= maxT(m)
    BY MaxTurn
  <2>a. \A i \in Rows(data.rows, {m}) : ~(t <= Len(turns(i)))
    BY <1>2, <2>1
  <2>2. files(m, t) = {}
    BY <2>a DEF files
  <2> QED
    BY <2>2, FS_EmptySet
<1> QED
  BY <1>1, <1>2, CountIs

LEMMA ContextTips ==
  ASSUME Drawn, panel = "context", NEW t \in Int, tip' = ctxTip(t) \/ \E m \in keys : tip' = subTip(m, t)
  PROVE  ContextTold
<1>1. tip'.at = t /\ \A l \in tip'.lines : \E m \in keys : l = ctxLine(m, t)
  BY DEF ctxTip, subTip, cmpModels
<1> QED
  BY <1>1, ContextPart DEF ContextTold

HeatTold ==
  \A l \in tip'.lines :
    LET cells == Days(tip'.at) \X Hours(l.key)
    IN  l.part = Sum([c \in cells |-> byCell(c[1], c[2])], cells)

\* The records of some days and hours, cell by cell.
LEMMA CellByCell ==
  ASSUME Drawn, panel = "heat", NEW D \in SUBSET ToSet(buckets), NEW H \in SUBSET keys
  PROVE  Totals(D, H) = Sum([c \in D \X H |-> byCell(c[1], c[2])], D \X H)
<1> DEFINE R == data.rows
           I == {i \in DOMAIN R : R[i].ts \in D /\ R[i].key \in H}
           K == D \X H
           h == [i \in I |-> <<R[i].ts, R[i].key>>]
           g == [c \in K |-> byCell(c[1], c[2])]
           n == [i \in DOMAIN R |-> R[i].n]
           e == [i \in DOMAIN R |-> R[i].err]
<1>1. data = pivot(panel, R) /\ keys = Keys(R) /\ ToSet(buckets) = Buckets(panel, R)
      /\ RowsFine(panel, R) /\ IsFiniteSet(keys) /\ IsFiniteSet(ToSet(buckets))
  BY DrawnFine DEF Drawn, RowsFine
<1>2. IsFiniteSet(K)
  <2>1. IsFiniteSet(D) /\ IsFiniteSet(H)
    BY <1>1, FS_Subset
  <2> QED
    BY <2>1, FS_Product
<1>3. \A k \in keys : \A b \in ToSet(buckets) :
        data.count[k][b] = N(R, Cell(R, k, b)) /\ data.errors[k][b] = Errors(R, Cell(R, k, b))
  <2>1. \A k \in Keys(R) : \A b \in Buckets(panel, R) :
          /\ pivot(panel, R).count[k][b] = N(R, Cell(R, k, b))
          /\ pivot(panel, R).errors[k][b] = Errors(R, Cell(R, k, b))
    BY PivotIs
  <2> HIDE DEF R
  <2> QED
    BY <1>1, <2>1
<1>4. \A c \in K : Cell(R, c[2], c[1]) = Class(I, h, c)
  <2> SUFFICES ASSUME NEW d \in D, NEW k \in H PROVE Cell(R, k, d) = Class(I, h, <<d, k>>)
    OBVIOUS
  <2> QED
    BY DEF Cell, Rows, Class
<1>5. \A i \in I : h[i] \in K
  OBVIOUS
<1>6. IsFiniteSet(I) /\ I \in SUBSET DOMAIN R
  <2>1. I \in SUBSET DOMAIN R
    OBVIOUS
  <2> HIDE DEF I
  <2> QED
    BY <1>1, <2>1, FS_Subset DEF RowsFine
<1>7. \A i \in I : n[i] \in Int /\ e[i] \in Int
  BY <1>1 DEF RowsFine
<1>8. N(R, I) = Sum(n, I) /\ Errors(R, I) = Sum(e, I)
  BY DEF N, Errors
<1>9. \A c \in K : /\ N(R, Cell(R, c[2], c[1])) = Sum(n, Class(I, h, c))
                   /\ Errors(R, Cell(R, c[2], c[1])) = Sum(e, Class(I, h, c))
  BY <1>4 DEF N, Errors
<1>10. \A c \in K : g[c] = IF metric = "requests" THEN Sum(n, Class(I, h, c)) ELSE Sum(e, Class(I, h, c))
  <2> SUFFICES ASSUME NEW c \in K
               PROVE  g[c] = IF metric = "requests" THEN Sum(n, Class(I, h, c)) ELSE Sum(e, Class(I, h, c))
    OBVIOUS
  <2>1. c[1] \in ToSet(buckets) /\ c[2] \in keys
    OBVIOUS
  <2>2. g[c] = byCell(c[1], c[2])
    OBVIOUS
  <2>3. byCell(c[1], c[2]) = IF metric = "requests" THEN N(R, Cell(R, c[2], c[1])) ELSE Errors(R, Cell(R, c[2], c[1]))
    BY <1>3, <2>1 DEF byCell
  <2> HIDE DEF g, n, e, h, I, K
  <2> QED
    BY <1>9, <2>2, <2>3
<1>11. Totals(D, H) = IF metric = "requests" THEN N(R, I) ELSE Errors(R, I)
  BY DEF Totals
<1> HIDE DEF g, n, e, h, I, R
<1>12. Sum(g, K) = IF metric = "requests" THEN Sum(n, I) ELSE Sum(e, I)
  <2> HIDE DEF K
  <2>1. CASE metric = "requests"
    <3>1. \A c \in K : g[c] = Sum(n, Class(I, h, c))
      BY <1>10, <2>1
    <3>2. \A i \in I : n[i] \in Int
      BY <1>7
    <3>3. Sum(g, K) = Sum(n, I)
      BY <1>2, <1>5, <1>6, <3>1, <3>2, SumByClass
    <3> QED
      BY <2>1, <3>3
  <2>2. CASE metric # "requests"
    <3>1. \A c \in K : g[c] = Sum(e, Class(I, h, c))
      BY <1>10, <2>2
    <3>2. \A i \in I : e[i] \in Int
      BY <1>7
    <3>3. Sum(g, K) = Sum(e, I)
      BY <1>2, <1>5, <1>6, <3>1, <3>2, SumByClass
    <3> QED
      BY <2>2, <3>3
  <2> QED
    BY <2>1, <2>2
<1>13. Totals(D, H) = Sum(g, K)
  BY <1>8, <1>11, <1>12
<1> QED
  BY <1>13 DEF g

LEMMA HeatTips ==
  ASSUME Drawn, panel = "heat", NEW d \in {0} \cup ToSet(buckets), NEW h \in {Sigma} \cup keys, tip' = heatTip(d, h)
  PROVE  HeatTold
<1>1. tip'.at = d /\ \A l \in tip'.lines : l.key = h /\ l.part = Totals(Days(d), Hours(h))
  BY DEF heatTip
<1>2. Days(d) \in SUBSET ToSet(buckets) /\ Hours(h) \in SUBSET keys
  BY DEF Days, Hours
<1>3. Totals(Days(d), Hours(h)) = Sum([c \in Days(d) \X Hours(h) |-> byCell(c[1], c[2])], Days(d) \X Hours(h))
  BY <1>2, CellByCell
<1> SUFFICES ASSUME NEW l \in tip'.lines
             PROVE  l.part = Sum([c \in Days(tip'.at) \X Hours(l.key) |-> byCell(c[1], c[2])],
                                 Days(tip'.at) \X Hours(l.key))
  BY DEF HeatTold
<1>4. l.key = h /\ l.part = Totals(Days(d), Hours(h))
  BY <1>1
<1> QED
  BY <1>1, <1>3, <1>4

LineTold ==
  \A l \in tip'.lines :
    LET near == {b \in at(l.key) : \A c \in at(l.key) :
                   ~(b < c /\ 2 * c <= tip'.at) /\ ~(tip'.at <= 2 * c /\ c < b)}
        ns   == {data.count[l.key][b] : b \in near}
    IN  Min(ns) <= l.part /\ l.part <= Max(ns)

LEMMA LineTips ==
  ASSUME Drawn, NEW m \in visible, panel # "context",
         NEW x \in Min(DOMAIN linePoints(m)) .. Max(DOMAIN linePoints(m)), tip' = lineTip(m, x)
  PROVE  LineTold
<1> DEFINE A == Near(at(m), x)
           h == [b \in A |-> data.count[m][b]]
           ns == {h[b] : b \in A}
<1>1. PICK v \in Nat, lo \in A, hi \in A :
        /\ tip' = [at |-> x, lines |-> {[key |-> m, part |-> v, of |-> 0]}]
        /\ data.count[m][lo] <= v /\ v <= data.count[m][hi]
  BY LineTipIs
<1>2. m \in keys
  BY DEF visible
<1>3. IsFiniteSet(A) /\ \A b \in A : data.count[m][b] \in Nat
  <2>1. IsFiniteSet(at(m)) /\ \A b \in at(m) : data.count[m][b] \in Nat
    BY <1>2, AtFine
  <2>2. A \in SUBSET at(m)
    BY DEF Near
  <2> HIDE DEF A
  <2> QED
    BY <2>1, <2>2, FS_Subset
<1>4. IsFiniteSet(ns)
  <2> HIDE DEF A, h
  <2> QED
    BY <1>3, FiniteImage
<1>5. ns \in SUBSET Int /\ h[lo] \in ns /\ h[hi] \in ns /\ h[lo] = data.count[m][lo] /\ h[hi] = data.count[m][hi]
  <2> HIDE DEF A
  <2> QED
    BY <1>3
<1>6. ns = {data.count[m][b] : b \in A}
  OBVIOUS
<1> HIDE DEF ns, h
<1>7. Min(ns) <= v /\ v <= Max(ns)
  <2>1. /\ Min(ns) \in Int /\ Max(ns) \in Int
        /\ Min(ns) <= h[lo] /\ h[hi] <= Max(ns)
    BY <1>4, <1>5, EndsOfFinite
  <2>a. h[lo] <= v /\ v <= h[hi]
    BY <1>1, <1>5
  <2>b. h[lo] \in Int /\ h[hi] \in Int
    BY <1>5
  <2>2. h[lo] \in Int /\ h[hi] \in Int /\ h[lo] <= v /\ v <= h[hi] /\ v \in Int
    BY <2>a, <2>b
  <2> QED
    BY <2>1, <2>2
<1>8. A = {b \in at(m) : \A c \in at(m) : ~(b < c /\ 2 * c <= x) /\ ~(x <= 2 * c /\ c < b)}
  BY DEF Near
<1>9. tip'.at = x /\ \A l \in tip'.lines : l.key = m /\ l.part = v
  BY <1>1
<1> HIDE DEF A
<1> SUFFICES ASSUME NEW l \in tip'.lines
             PROVE  LET near == {b \in at(m) : \A c \in at(m) : ~(b < c /\ 2 * c <= x) /\ ~(x <= 2 * c /\ c < b)}
                        ms == {data.count[m][b] : b \in near}
                    IN  Min(ms) <= v /\ v <= Max(ms)
  BY <1>9 DEF LineTold
<1> QED
  BY <1>6, <1>7, <1>8

Told ==
  CASE panel = "usage"   -> UsageTold
    [] panel = "errors"  -> ErrorsTold
    [] panel = "context" -> ContextTold
    [] panel = "heat"    -> HeatTold
    [] OTHER             -> LineTold

LEMMA HoverTold ==
  ASSUME Drawn, Hover
  PROVE  Told
<1>1. ASSUME NEW top, NEW t \in 0..top PROVE t \in Int
  BY <1>1
<1>2. CASE panel = "usage"
  BY <1>2, UsageTips DEF Hover, Told
<1>3. CASE panel = "errors"
  BY <1>3, ErrorTips DEF Hover, Told
<1>4. CASE panel = "context"
  <2>1. \E t \in Int : tip' = ctxTip(t) \/ \E m \in keys : tip' = subTip(m, t)
    BY <1>1, <1>4 DEF Hover
  <2> QED
    BY <1>4, <2>1, ContextTips DEF Told
<1>5. CASE panel = "heat"
  BY <1>5, HeatTips DEF Hover, Told
<1>6. CASE panel \notin {"usage", "errors", "context", "heat"}
  BY <1>6, LineTips DEF Hover, Told
<1> QED
  BY <1>2, <1>3, <1>4, <1>5, <1>6

\* What the mouse is told is what is drawn under it, although each handler works it out anew
\* (dashboard-charts-extra.jsx 957-1018, 1402-1443, 1747-1818, 2111-2186, 2418-2480).
THEOREM TipsMatch == Spec => TipMatchesChart
<1> DEFINE Match ==
      tip' # tip /\ tip' # NoTip =>
        LET total == Sum([l \in tip'.lines |-> l.part], tip'.lines) IN
        CASE panel = "usage" ->
               \E i \in liveIdx \cap DOMAIN buckets :
                 \E k \in layers : /\ buckets[i] = tip'.at
                                   /\ \A l \in tip'.lines : total * height(i) = share(k, i) * l.of
          [] panel = "errors" ->
               \A l \in tip'.lines : l.key \in Checked => [at |-> tip'.at, point |-> l] \in series(l.key)
          [] panel = "context" ->
               \A l \in tip'.lines :
                 l.part = Cardinality(files(l.key, tip'.at))
          [] panel = "heat" ->
               \A l \in tip'.lines :
                 LET cells == Days(tip'.at) \X Hours(l.key)
                 IN  l.part = Sum([c \in cells |-> byCell(c[1], c[2])], cells)
          [] OTHER ->
               \A l \in tip'.lines :
                 LET near == {b \in at(l.key) : \A c \in at(l.key) :
                                ~(b < c /\ 2 * c <= tip'.at) /\ ~(tip'.at <= 2 * c /\ c < b)}
                     ns   == {data.count[l.key][b] : b \in near}
                 IN  Min(ns) <= l.part /\ l.part <= Max(ns)
<1>1. Told => Match
  BY DEF Told, UsageTold, ErrorsTold, ContextTold, HeatTold, LineTold
<1>2. Next => Hover \/ tip' = tip \/ tip' = NoTip
  BY DEF Next, Answer, Remount, toggle, SetAll, SetMetric, Leave
<1>3. tip' = tip \/ tip' = NoTip => Match
  OBVIOUS
<1> HIDE DEF Match
<1>4. Drawn /\ [Next]_vars => [Match]_vars
  BY <1>1, <1>2, <1>3, HoverTold
<1> QED
  BY <1>4, DrawnInit, DrawnNext, PTL DEF Spec, TipMatchesChart, Match
=============================================================================
