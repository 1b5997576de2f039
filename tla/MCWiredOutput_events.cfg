SPECIFICATION FairEventSpec
CONSTANTS
  NoStream = NoStream
  StreamId = {s1}
  Slot = {n1}
  Sizes = {1}
  PendingRequests = 2
  InboundRequests = 2
  EventLimit = 2
  MediaPackets = 1
  MediaBytes = 1
  MicPackets = 1
  MicBytes = 1
  MaxStreams = 1
  MaxId = 4
  MaxEpoch = 2
  MaxNotes = 1
INVARIANT EventsAwaitReply
PROPERTY RequestsAnswered
PROPERTY CommandsReplied
PROPERTY NoPhaseStuck
CHECK_DEADLOCK FALSE
