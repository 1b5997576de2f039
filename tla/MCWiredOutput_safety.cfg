SPECIFICATION PacketSpec
CONSTANTS
  NoStream = NoStream
  StreamId = {s1, s2}
  Slot = {n1, n2}
  Sizes = {1, 2}
  PendingRequests = 2
  InboundRequests = 1
  EventLimit = 1
  MediaPackets = 2
  MediaBytes = 3
  MicPackets = 1
  MicBytes = 1
  MaxStreams = 2
  MaxId = 5
  MaxEpoch = 2
  MaxNotes = 1
SYMMETRY Symmetry
INVARIANT TypeOK
INVARIANT ExactlyOnce
INVARIANT Capacity
INVARIANT PendingStillValid
INVARIANT NoStalePacket
INVARIANT BytesMatch
INVARIANT NoResidue
PROPERTY UnknownOutcomeEndsSession
PROPERTY ResultsAreFinal
CHECK_DEADLOCK FALSE
