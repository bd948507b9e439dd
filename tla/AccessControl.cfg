SPECIFICATION Spec
CONSTANTS
  Users = {u1}
  Requests = {r1, r2}
  u1 = u1
  Brands = {b1}
  Seeds <- SomeSeeds
  Others <- SomeOthers
  BrandSets = {{b1}}
  RoleSets <- SomeRoleSets
  Earlier <- EarlierRelease
  AccessTTL = 1
  MaxTime = 2
  AppModules = {"company", "organization", "brand", "user", "call", "audit_log"}
  None = None
SYMMETRY Symmetry
INVARIANTS TypeOK RevokedAccessExpires RolesMeanWhatTheySay AssignmentsAreWhole
CHECK_DEADLOCK FALSE
