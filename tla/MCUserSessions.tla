--------------------------- MODULE MCUserSessions ---------------------------
(***************************************************************************)
(* UserSessions for TLC.  Requests, sessions and users are interchangeable *)
(* (no formula of the specification names one of them), so the run that    *)
(* checks safety only uses their permutations.                             *)
(***************************************************************************)
EXTENDS UserSessions, TLC

Symmetry ==
  Permutations(Requests) \cup Permutations(SessionIds) \cup Permutations(Users)
=============================================================================
