\* One session; two requests of its user that overlap.
SPECIFICATION LogoutSpec
CONSTANTS
  Users = {u1}
  SessionIds = {s1}
  Requests = {r1, r2}
  RefreshTTL = 2
  AccessTTL = 1
  MaxVersion = 2
  MaxClock = 2
  None = None
INVARIANT LogoutStands
