------------------------------ MODULE MCAccess ------------------------------
(***************************************************************************)
(* Access for TLC.  Users are only compared with one another and with the  *)
(* guest, passwords with one another: both are symmetric.                  *)
(***************************************************************************)
EXTENDS Access, TLC

Symmetry == Permutations(Users) \cup Permutations(Passwords)
=============================================================================
