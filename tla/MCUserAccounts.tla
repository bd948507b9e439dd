--------------------------- MODULE MCUserAccounts ---------------------------
(***************************************************************************)
(* UserAccounts for TLC.  Requests, users and passwords are                *)
(* interchangeable: no formula of the specification names one of them.     *)
(***************************************************************************)
EXTENDS UserAccounts, TLC

Symmetry ==
  Permutations(Requests) \cup Permutations(Passwords) \cup Permutations(Users)
=============================================================================
