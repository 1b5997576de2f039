SPECIFICATION Spec
CONSTANTS
  NoStream = NoStream
  NoPacket = NoPacket
  StreamId <- Streams
  Slot <- Slots
  Sizes = {1}
  PendingRequests = 3
  InboundRequests = 2
  EventLimit = 2
  MediaPackets = 1
  MediaBytes = 1
  MicPackets = 1
  MicBytes = 1
  MaxStreams = 2
  InStream = {1, 2}
  Config <- Mixed
  Caps <- AllCaps
  Requests = 2
  PacketLimit = 2
  MicLimit = 1
  StreamLimit = 2
  MaxChanges = 4
  MaxEpoch = 2
  Acts = {"select", "phone", "declare", "media", "lose", "fail", "due"}
INVARIANT TablesAgree
INVARIANT MediaAcknowledged
CHECK_DEADLOCK FALSE
