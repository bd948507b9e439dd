--------------------------- MODULE MCAccessControl ---------------------------
(***************************************************************************)
(* AccessControl for TLC: one manager is seeded, another one is elsewhere; *)
(* an earlier release let agents manage companies and auditors do nothing. *)
(***************************************************************************)
EXTENDS AccessControl, TLC

CONSTANT u1

SomeSeeds == {<<u1, "manager">>}

SomeRoleSets == {{}, {"agent", "auditor"}}

EarlierRelease ==
  [RoleDefinitions EXCEPT !["agent"] = @ \cup {<<"company", "manage">>},
                          !["auditor"] = {}]

SomeOthers ==
  {[roles |-> {"manager"}, permissions |-> RoleDefinitions["manager"],
    began |-> 1, signed |-> 1]}

Symmetry == Permutations(Requests)
=============================================================================
