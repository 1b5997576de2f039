-------------------------- MODULE WirelessEndpoint --------------------------
(***************************************************************************)
(* WirelessEndpoint (Core/Forward/src/wireless_endpoint.cpp): the bounded  *)
(* seam between a wireless input and the forwarding coordinator.  Every    *)
(* method holds mutex_ for its whole body, so as in OutputBroker a call is *)
(* a function from one endpoint record to the next.  A generation is one   *)
(* phone session; a call with another generation is refused.               *)
(*                                                                         *)
(* Abstractions.  A queue of results is a function from id to result.  The *)
(* byte limits are left out beside the packet limits, and so are checks of *)
(* argument values.  `due' is a deadline that has passed.                  *)
(***************************************************************************)
EXTENDS Naturals, Sequences, FiniteSets, Functions

CONSTANTS
  Requests,            \* kRequests
  PacketLimit,         \* packet_limit_
  MicLimit,            \* packets of the microphone queue
  StreamLimit          \* streams an input may declare

Empty == [x \in {} |-> x]

\* caps: "commands" and "mic" are the ways back to the phone it really has.
NewEndpoint ==
  [ generation |-> 0, connected |-> FALSE, caps |-> {}, streams |-> Empty,
    media |-> <<>>, mics |-> <<>>, nextId |-> 1,
    phones |-> Empty, phoneDone |-> Empty,
    reverse |-> Empty, reverseDone |-> Empty ]

With(f, x, v) == [y \in DOMAIN f \cup {x} |-> IF y = x THEN v ELSE f[y]]
Less(f, xs) == Restrict(f, DOMAIN f \ xs)

\* The entries of `from' named by xs become results with the same code.
Finished(done, xs, code) ==
  [x \in DOMAIN done \cup xs |-> IF x \in xs THEN code ELSE done[x]]

Reset(e) ==
  [e EXCEPT !.streams = Empty, !.media = <<>>, !.mics = <<>>,
            !.phones = Empty, !.phoneDone = Empty,
            !.reverse = Empty, !.reverseDone = Empty]

----------------------------------------------------------------------------
\* Called by the input

Begin(e, caps) ==
  [Reset(e) EXCEPT !.generation = @ + 1, !.connected = TRUE, !.caps = caps]

End(e) == [Reset(e) EXCEPT !.generation = @ + 1, !.connected = FALSE, !.caps = {}]

\* A call of this generation, while the phone is connected
Accepts(e, g) == g = e.generation /\ e.connected

Other(q, s) == LET Foreign(p) == p.sid # s IN SelectSeq(q, Foreign)

\* A stream that is declared anew loses the packets of its old configuration.
CanSetStream(e, g, s) ==
  /\ Accepts(e, g)
  /\ s \in DOMAIN e.streams \/ Cardinality(DOMAIN e.streams) < StreamLimit

SetStream(e, s, config) ==
  [e EXCEPT !.streams = With(@, s, config),
            !.media = Other(@, s), !.mics = Other(@, s)]

RemoveStream(e, s) ==
  [e EXCEPT !.streams = Less(@, {s}), !.media = Other(@, s), !.mics = Other(@, s)]

CanPushMedia(e, p) ==
  /\ Accepts(e, p.epoch)
  /\ p.sid \in DOMAIN e.streams
  /\ Len(e.media) < PacketLimit

PushMedia(e, p) == [e EXCEPT !.media = Append(@, p)]

CanRequest(e, g) ==
  /\ Accepts(e, g)
  /\ Cardinality(DOMAIN e.phones) + Cardinality(DOMAIN e.phoneDone) < Requests

RequestOutput(e, kind) ==
  [e EXCEPT !.nextId = @ + 1,
            !.phones = With(@, e.nextId, [kind |-> kind, taken |-> FALSE, due |-> FALSE])]

PopPhoneCompletion(e, id) == [e EXCEPT !.phoneDone = Less(@, {id})]

TakeReverse(e, id) == [e EXCEPT !.reverse[id].taken = TRUE]

\* An answer that comes after the deadline is a timeout.
CanCompleteReverse(e, g, id) ==
  g = e.generation /\ id \in DOMAIN e.reverse /\ e.reverse[id].taken

CompleteReverse(e, id, code) ==
  [e EXCEPT !.reverse = Less(@, {id}),
            !.reverseDone = With(@, id, IF e.reverse[id].due THEN "Timeout" ELSE code)]

TakeMicrophone(e) == [e EXCEPT !.mics = Tail(@)]

----------------------------------------------------------------------------
\* Called by the coordinator

CanTakeMedia(e, g) == g = e.generation /\ e.media # <<>>

TakeMedia(e) == [e EXCEPT !.media = Tail(@)]

DiscardMedia(e) == [e EXCEPT !.media = <<>>, !.mics = <<>>]

UntakenPhones(e) == {id \in DOMAIN e.phones : ~ e.phones[id].taken}

TakePhone(e, id) == [e EXCEPT !.phones[id].taken = TRUE]

\* result: phone request to code.  One that is gone is ignored.
CompletePhones(e, g, result) ==
  LET ids == IF g = e.generation THEN DOMAIN result \cap DOMAIN e.phones ELSE {} IN
  [e EXCEPT !.phones = Less(@, ids),
            !.phoneDone = [id \in DOMAIN @ \cup ids |->
                             IF id \notin ids THEN @[id]
                             ELSE IF e.phones[id].due THEN "Timeout" ELSE result[id]]]

\* `late': the deadline of the car's command has passed.
CanPostReverse(e, g, late) ==
  /\ Accepts(e, g) /\ ~ late
  /\ "commands" \in e.caps
  /\ Cardinality(DOMAIN e.reverse) + Cardinality(DOMAIN e.reverseDone) < Requests

PostReverse(e) ==
  [e EXCEPT !.nextId = @ + 1,
            !.reverse = With(@, e.nextId, [taken |-> FALSE, due |-> FALSE])]

PopReverseCompletions(e) == [e EXCEPT !.reverseDone = Empty]

MicRefused(e, p) ==
  \/ ~ Accepts(e, p.epoch) \/ "mic" \notin e.caps
  \/ p.sid \notin DOMAIN e.streams \/ "mic" \notin e.streams[p.sid].legs

MicFull(e) == Len(e.mics) >= MicLimit

PostMicrophone(e, p) == [e EXCEPT !.mics = Append(@, p)]

CancelRequests(e) ==
  [e EXCEPT !.phones = Empty, !.reverse = Empty,
            !.phoneDone = Finished(@, DOMAIN e.phones, "Cancelled"),
            !.reverseDone = Finished(@, DOMAIN e.reverse, "Cancelled")]

Due(entries) == {id \in DOMAIN entries : entries[id].due}

Expire(e) ==
  [e EXCEPT !.phones = Less(@, Due(@)), !.reverse = Less(@, Due(@)),
            !.phoneDone = Finished(@, Due(e.phones), "Timeout"),
            !.reverseDone = Finished(@, Due(e.reverse), "Timeout")]

----------------------------------------------------------------------------
\* Deadlines pass

PhoneOverdue(e, id) == [e EXCEPT !.phones[id].due = TRUE]
ReverseOverdue(e, id) == [e EXCEPT !.reverse[id].due = TRUE]
=============================================================================
