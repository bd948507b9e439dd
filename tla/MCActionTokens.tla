--------------------------- MODULE MCActionTokens ---------------------------
(***************************************************************************)
(* ActionTokens for TLC: tokens, requests, users and addresses are         *)
(* interchangeable.                                                        *)
(***************************************************************************)
EXTENDS ActionTokens, TLC

Symmetry ==
  Permutations(Users) \cup Permutations(Emails) \cup Permutations(Tokens)
    \cup Permutations(Requests)
=============================================================================
