SPECIFICATION Spec
CONSTANTS
  Users = {u1, u2}
  SessionIds = {s1, s2}
  Requests = {r1}
  RefreshTTL = 1
  AccessTTL = 1
  MaxVersion = 3
  MaxClock = 1
  None = None
INVARIANT ReuseVerdictSound
PROPERTIES OwnSessionsOnly RevokedStaysRevoked RotatedOnce
SYMMETRY Symmetry
