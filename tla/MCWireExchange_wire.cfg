SPECIFICATION OneSpec
CONSTANTS
  Unset = Unset
  Bad = Bad
  NotYet = NotYet
  NotTaken = NotTaken
  ShortLimit = 4
  MaxExtra = 1
  Shape = {"all", "odd", "even"}
  Touches <- Motions
  Payload <- Payloads
  Service = {1, 2}
  MaxFrames = 3
  Script <- Scripts
  Route = {"bluetooth", "broadcast"}
  MaxDials = 2
  MaxBody = 60
  MaxFields = 16
  MaxTouches = 2
  MaxDigits = 3
  TooLong = {"a_long_name"}
  Numerals <- Numbers
  NoEvent = NoEvent
  Part <- Parts
  Meaning <- Meanings
  MaxParts = 4
  Unread = Unread
INVARIANTS
  ReadsAsWritten
  FramesInStep
  NobodyWaitsForever
  RequestsUnderstood
CHECK_DEADLOCK FALSE
