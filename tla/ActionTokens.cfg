SPECIFICATION Spec
CONSTANTS
  Users = {u1}
  Emails = {e1, e2}
  Tokens = {t1, t2}
  Requests = {r1, r2}
  ResetTTL = 1
  VerifyTTL = 1
  MaxClock = 2
  None = None
INVARIANTS TypeOK VerifiedByToken SingleUse OneOutstanding AddressProven
SYMMETRY Symmetry
