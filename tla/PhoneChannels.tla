--------------------------- MODULE PhoneChannels ---------------------------
(***************************************************************************)
(* What the transport of a CarLife session promises of the messages of the *)
(* phone: each channel is a FIFO.  A message is handled once, in the order *)
(* of its channel and after it was sent, and is lost only once the link    *)
(* is down, and then with all that were sent after it.                     *)
(***************************************************************************)
EXTENDS SequencesExt

CONSTANTS Channel, Message

VARIABLES
  flight,              \* by channel: sent and not handled
  heard,               \* by channel: the last message handled
  up                   \* the link is up

Init ==
  /\ flight = [c \in Channel |-> <<>>]
  /\ heard \in [Channel -> Message]
  /\ up = TRUE

Send(c) ==
  /\ \E m \in Message : flight' = [flight EXCEPT ![c] = Append(@, m)]
  /\ UNCHANGED <<heard, up>>

Handle(c) ==
  /\ flight[c] # <<>>
  /\ heard' = [heard EXCEPT ![c] = Head(flight[c])]
  /\ flight' = [flight EXCEPT ![c] = Tail(@)]
  /\ UNCHANGED up

Down ==
  /\ up' = FALSE
  /\ UNCHANGED <<flight, heard>>

Lose(c) ==
  /\ ~up
  /\ \E n \in 0..Len(flight[c]) : flight' = [flight EXCEPT ![c] = SubSeq(@, 1, n)]
  /\ UNCHANGED <<heard, up>>

Next == Down \/ \E c \in Channel : Send(c) \/ Handle(c) \/ Lose(c)

Spec == Init /\ [][Next]_<<flight, heard, up>>
=============================================================================
