SPECIFICATION FairSpec
CONSTANTS
  NoStream = NoStream
  NoPacket = NoPacket
  StreamId <- Streams
  Slot <- Slots
  Sizes = {1}
  PendingRequests = 3
  InboundRequests = 2
  EventLimit = 2
  MediaPackets = 1
  MediaBytes = 1
  MicPackets = 1
  MicBytes = 1
  MaxStreams = 2
  InStream = {1}
  Config <- OneVoice
  Caps <- AnyCaps
  Requests = 2
  PacketLimit = 2
  MicLimit = 1
  StreamLimit = 2
  MaxChanges = 3
  MaxEpoch = 1
  Acts = {"select", "stop", "phone", "declare", "command", "request", "mic", "due"}
INVARIANT NothingTakenIsLost
PROPERTY StopCompletes
CHECK_DEADLOCK FALSE
