--------------------------- MODULE MCWiredOutput ----------------------------
\* Instances of WiredOutput for TLC.  The packet queues and the event queues
\* share only the session and the requests they live with, so each run lets one
\* of the two groups act together with the requests.
EXTENDS WiredOutput, TLC

Symmetry == Permutations(StreamId) \cup Permutations(Slot)

RequestNext == ApplicationNext \/ BackendNext \/ TimeNext

PacketSpec == Init /\ [][RequestNext \/ MediaNext \/ BackendMediaNext]_vars

EventSpec == Init /\ [][RequestNext \/ EventNext \/ BackendEventNext]_vars

FairEventSpec == EventSpec /\ Fairness

=============================================================================
