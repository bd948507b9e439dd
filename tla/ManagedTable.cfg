SPECIFICATION TableSpec
CONSTANTS
  Ids = {i1, i2, i3}
  Keys = {k1, k2}
  Values = {v1, v2}
  Requests = {r1, r2}
  None = None
INVARIANTS TableTypeOK UniqueKeys CheckedKeysAreFree
PROPERTIES DeletedStaysDeleted UpdatesOnlyWhatIsSet
SYMMETRY Symmetry
