--------------------------- MODULE MCManagedTable ---------------------------
(* Symmetry for TLC: no property mentions a particular id, key, value or   *)
(* request.                                                                *)
EXTENDS ManagedTable, TLC

Symmetry ==
  Permutations(Ids) \cup Permutations(Keys) \cup Permutations(Values)
    \cup Permutations(Requests)
=============================================================================
