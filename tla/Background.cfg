\* Two processes, a mail and a task at a time; the cron's ten minutes are
\* two units, of which the lock lives one (540 s of 600 s in the code).
CONSTANTS
  Processes = {p1, p2}
  None = None
  Torn = Torn
  Mails = {m1}
  Tasks = {t1}
  Attempts = 2
  MaxStalled = 1
  LockTime = 1
  Period = 2
SPECIFICATION Spec
INVARIANTS TypeOK MailsAccountedFor
PROPERTIES GrantsApart WorkGetsDone
CHECK_DEADLOCK FALSE
