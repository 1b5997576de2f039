--------------------------- MODULE FrameExchange ----------------------------
(***************************************************************************)
(* A channel of CarLife carries frames one after the other, or the payload *)
(* of a TOUCH_ACTION_3; the end may be missing; the other end reads.       *)
(***************************************************************************)
EXTENDS CarLifeFrames

CONSTANTS
  NotTaken,            \* not read
  Touches,             \* TOUCH_ACTION_3 messages
  Payload,             \* payloads of frames
  Service,             \* service types
  MaxFrames            \* bound: frames on a channel

\* What a touch has room for on the wire: an action of 32 bits, ids of 8, places of 16.
Places == {v \in Nat : v <= 65535}
Pointers == (0..255) \X Places \X Places
Lowest == -2147483647 - 1
Highest == 2147483647
Actions == Lowest..Highest

ASSUME FrameExchangeAssumption ==
  /\ MaxFrames \in Nat /\ Service \subseteq Nat /\ Payload \subseteq Seq(Nat)
  /\ Touches \subseteq [action : Actions, pointers : Seq(Pointers)]

VARIABLES
  channel,             \* "short", "long" (frames) or "touch"
  framed,              \* what the one end sends
  stream,              \* its cells
  missing,             \* cells missing at the end
  taken                \* what the other end makes of it, NotTaken

frameVars == <<channel, framed, stream, missing, taken>>

FrameInit ==
  /\ missing = 0 /\ taken = NotTaken
  /\ \/ channel \in {"short", "long"} /\ framed = <<>> /\ stream = <<>>
     \/ channel = "touch" /\ framed \in Touches /\ stream = EncodeAction3(framed)

\* send().
SendFrame ==
  /\ channel # "touch" /\ taken = NotTaken /\ missing = 0 /\ Len(framed) < MaxFrames
  /\ \E payload \in Payload, svc \in Service :
       /\ CanFrame(channel = "short", payload)
       /\ stream' = stream \o EncodeFrame(channel = "short", svc, payload)
       /\ framed' = Append(framed, [svc |-> svc, payload |-> payload])
  /\ UNCHANGED <<channel, missing, taken>>

\* The connection ends somewhere.
LoseEnd ==
  /\ taken = NotTaken /\ missing = 0
  /\ missing' \in 1..Len(stream)
  /\ UNCHANGED <<channel, framed, stream, taken>>

Take ==
  /\ taken = NotTaken
  /\ LET cells == SubSeq(stream, 1, Len(stream) - missing) IN
     taken' = IF channel = "touch" THEN DecodeAction3(cells) ELSE DecodeFrames(cells)
  /\ UNCHANGED <<channel, framed, stream, missing>>

FrameNext == SendFrame \/ LoseEnd \/ Take
FrameSpec == FrameInit /\ [][FrameNext]_frameVars

-----------------------------------------------------------------------------
(* Properties.                                                             *)

\* The frames of a channel and the pointers of a touch come out as they went in,
\* each whole: no length is cut to 16 bits, and what comes after a frame is not
\* taken for a part of it (transport.cpp:213, wire.cpp:1095).
FramesInStep ==
  taken # NotTaken =>
    IF channel # "touch" THEN IsPrefix(taken, framed) /\ (missing = 0 => taken = framed)
    ELSE /\ taken # Bad => taken.action = framed.action /\ IsPrefix(taken.pointers, framed.pointers)
         /\ missing = 0 => taken = framed
=============================================================================
