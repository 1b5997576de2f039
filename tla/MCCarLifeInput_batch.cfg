SPECIFICATION Spec
CONSTANTS
  Capacity = 3
  MaxKnobRepeat = 3
  MaxDtmfDigits = 2
  MaxPoints = 10
  NoControl = NoControl
  Config = {c1}
  None = None
  Worker = {w1, w2}
  Plan <- BatchPlans
  MaxCalls = 0
  MaxEvents = 3
PROPERTY BatchWhole
CHECK_DEADLOCK FALSE
