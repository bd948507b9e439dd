SPECIFICATION FairSpec
CONSTANTS
  Users = {u1}
  SessionIds = {s1}
  Requests = {r1, r2}
  RefreshTTL = 1
  AccessTTL = 1
  MaxVersion = 2
  MaxClock = 2
  None = None
INVARIANTS TypeOK VersionsFollowSaves
PROPERTIES RegistrySpec DeadStaysDead GoneForGood
