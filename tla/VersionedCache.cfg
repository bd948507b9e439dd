SPECIFICATION FairSpec
CONSTANTS
  Keys = {k1}
  Readers = {r1, r2}
  Writers = {w1, w2}
  MaxWrites = 3
  Backends = {"redis", "files"}
  None = None
INVARIANTS TypeOK ReadsAreFresh PagesAreFresh
PROPERTY CacheSettles
