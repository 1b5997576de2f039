SPECIFICATION AllFairSpec
CONSTANTS
  CatPlay = CatPlay
  CarLife = CarLife
  Cover = {c1, c2}
  NoCover = NoCover
  None = None
  Phones <- Apart
  MaxRevision = 2
  Attempts = 3
  Id = {s1, s2, s3}
  Record <- AnyRecord
  MaxSessions = 2
INVARIANTS
  SoleCoverWhole
  TableSound
PROPERTIES
  CoversAdvance
CHECK_DEADLOCK FALSE
