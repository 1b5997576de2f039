SPECIFICATION FairSpec
CONSTANTS
  Capacity = 3
  MaxKnobRepeat = 3
  MaxDtmfDigits = 2
  MaxPoints = 10
  NoControl = NoControl
  Config = {c1}
  None = None
  Worker = {w1}
  Plan <- StopPlans
  MaxCalls = 0
  MaxEvents = 0
PROPERTY StopReturns
CHECK_DEADLOCK FALSE
