SPECIFICATION Spec
CONSTANTS
  Users = {u1}
  Passwords = {p1, p2}
  Requests = {r1, r2}
  MaxFailed = 2
  LockTime = 1
  MaxTime = 2
  MaxGuesses = 3
  None = None
SYMMETRY Symmetry
INVARIANTS TypeOK NoUnearnedLock LockoutHolds RowsAsIntended
CHECK_DEADLOCK FALSE
