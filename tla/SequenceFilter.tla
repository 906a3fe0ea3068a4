--------------------------- MODULE SequenceFilter ---------------------------
(***************************************************************************)
(* Python's [x for x in s if x in T].  SelectSeq of the standard module is *)
(* the same for a test instead of a set; but the proof system treats that  *)
(* operator as unknown, and this one has its lemmas in DataLemmas.         *)
(***************************************************************************)
EXTENDS Integers, Sequences

\* n -> what is kept of the first n elements of s
KeptUpTo(s, T) ==
  LET kept[n \in 0 .. Len(s)] ==
        IF n = 0 THEN <<>>
        ELSE IF s[n] \in T THEN Append(kept[n - 1], s[n]) ELSE kept[n - 1]
  IN  kept

\* The elements of s that are in T, in their order.
Keep(s, T) == KeptUpTo(s, T)[Len(s)]
=============================================================================
