------------------------------ MODULE SetSums ------------------------------
(***************************************************************************)
(* The sum of a function over a finite set, of which DataLemmas proves     *)
(* what is expected of sums; MapThenSumSet takes an operator, over which   *)
(* no lemma can be stated.                                                 *)
(***************************************************************************)
EXTENDS Integers, FiniteSetsExt

Sum(f, S) == MapThenSumSet(LAMBDA x : f[x], S)
=============================================================================
