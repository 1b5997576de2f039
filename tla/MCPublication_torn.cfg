SPECIFICATION AllFairSpec
CONSTANTS
  CatPlay = CatPlay
  CarLife = CarLife
  Cover = {c1, c2}
  NoCover = NoCover
  None = None
  Phones <- Together
  MaxRevision = 3
  Attempts = 3
  Id = {s1, s2, s3}
  Record <- AnyRecord
  MaxSessions = 2
INVARIANT CoverWhole
CHECK_DEADLOCK FALSE
