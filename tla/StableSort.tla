----------------------------- MODULE StableSort -----------------------------
(***************************************************************************)
(* Array.prototype.sort and ORDER BY, by weights that are integers.        *)
(* SortSeq takes the comparison as an operator, over which no lemma can be *)
(* stated; these have theirs in OverviewProofs.                            *)
(***************************************************************************)
EXTENDS Integers, Sequences, FiniteSets, SequencesExt

\* How many come before place i of a sequence with weights w.
Rank(w, i) == Cardinality({j \in DOMAIN w : w[j] < w[i] \/ (w[j] = w[i] /\ j < i)})

\* The sequence s by the weights w of its places, least first; equals stay in order.
Sorted(s, w) == [n \in DOMAIN s |-> s[CHOOSE i \in DOMAIN w : Rank(w, i) = n - 1]]

\* The elements of the set S by weight w.
SortedSet(S, w) ==
  LET s == SetToSeq(S) IN Sorted(s, [i \in DOMAIN s |-> w[s[i]]])
=============================================================================
