------------------------------ MODULE MCCatalog ------------------------------
(* Symmetry for TLC: no property mentions a particular organization, brand *)
(* or request.                                                             *)
EXTENDS Catalog, TLC

Symmetry ==
  Permutations(Organizations) \cup Permutations(Brands) \cup Permutations(Requests)
=============================================================================
