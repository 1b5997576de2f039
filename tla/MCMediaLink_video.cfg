SPECIFICATION Spec
CONSTANTS
  Role = {0}
  Content = {"a", "b"}
  NoContent = NoContent
  ControlCap = 3
  VideoCap = 1
  ControlPerService = 2
  VideoPerService = 1
  OutCap = 4
  RingSize = 2
  MaxSession = 2
  MaxStream = 2
  MaxActs = 5
INVARIANT RingDecodes
INVARIANT StoreFollows
INVARIANT OnlyEngineLoses
CHECK_DEADLOCK FALSE
