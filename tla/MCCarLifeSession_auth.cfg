SPECIFICATION FairSpec
CONSTANTS
  Channel = {"CMD", "VIDEO"}
  Versions = {"v2", "v4"}
  Plan <- Plans
  MaxOffers = 1
  SilenceLimit = 1
  AuthGrace = 2
PROPERTY AuthTimesOut
CHECK_DEADLOCK FALSE
