SPECIFICATION FairSpec
CONSTANTS
  Capacity = 3
  MaxKnobRepeat = 3
  MaxDtmfDigits = 2
  MaxPoints = 10
  NoControl = NoControl
  Config = {c1, c2}
  None = None
  Worker = {w1, w2}
  Plan <- Plans
  MaxCalls = 4
  MaxEvents = 3
INVARIANTS
  SidesAgree
  ControlsInOrder
  BlocksMerged
PROPERTY Reconnects
