\* Two users, two files, two requests at a time, and deployments of each
\* kind; one file has a name that a URL escapes.
CONSTANTS
  Users = {u1, u2}
  None = None
  Odd = {f2}
  Names = {"storage", "local", "crm"}
  Bucket = bucket
  AmazonS3 = AmazonS3
  Files = {f1, f2}
  Configs <- MCConfigs
  Requests = {r1, r2}
SPECIFICATION Spec
SYMMETRY Symmetry
INVARIANTS TypeOK AvatarsAreAsChosen
CHECK_DEADLOCK FALSE
