---------------------------- MODULE OutputBroker ----------------------------
(***************************************************************************)
(* The data structure behind WiredCarPlayOutput (Output/WiredCarPlay/src/  *)
(* output.cpp, struct Impl): a broker between the application that submits *)
(* requests and media and the transport backend that takes and answers     *)
(* them.  Every public method of the class holds Impl::mutex for its whole *)
(* body, so a call is a function from one Impl record to the next; this    *)
(* module holds those functions and no behaviour.  WiredOutput gives them  *)
(* an arbitrary environment, CarPlayForward gives them the coordinator.    *)
(*                                                                         *)
(* Abstractions.  A deque of completions is a function from request id to  *)
(* result, and a deque of packets a function from buffer slot to packet:   *)
(* ids are never reused and no property depends on the FIFO order.  An     *)
(* operation keeps its kind, its stream and the stream's media legs;       *)
(* checks of argument values and of negotiated capabilities, which refuse  *)
(* a call and change nothing, are left out.  The clock is the flag `due'   *)
(* of every deadline: the deadline has passed.                             *)
(***************************************************************************)
EXTENDS Integers, FiniteSets, Functions

CONSTANTS
  StreamId,            \* ids of media streams
  NoStream,            \* the stream of an operation that has none
  Slot,                \* places of the two packet queues
  Sizes,               \* payload sizes of packets
  PendingRequests,     \* Limits::pending_requests
  InboundRequests,     \* Limits::inbound_requests
  EventLimit,          \* Limits::events
  MediaPackets,        \* Limits::media_packets
  MediaBytes,          \* Limits::media_bytes
  MicPackets,          \* Limits::microphone_packets
  MicBytes,            \* Limits::microphone_bytes
  MaxStreams           \* Limits::max_streams

\* The constructor throws on a limit of zero.
ASSUME LimitsAssumption ==
  /\ PendingRequests \in Nat \ {0}
  /\ InboundRequests \in Nat \ {0}
  /\ EventLimit \in Nat \ {0}
  /\ MediaPackets \in Nat \ {0}
  /\ MediaBytes \in Nat \ {0}
  /\ MicPackets \in Nat \ {0}
  /\ MicBytes \in Nat \ {0}
  /\ MaxStreams \in Nat \ {0}

ASSUME StreamAssumption == NoStream \notin StreamId

ASSUME SizeAssumption == Sizes \subseteq Nat \ {0}

----------------------------------------------------------------------------
\* Phases, operations and results

\* GadgetEnabled .. RtspConnecting are one phase: "Bootstrapping".
BootstrapPhase == {"Starting", "Bootstrapping"}
ConnectedPhase == {"Ready", "Streaming"}
Phase == {"Idle", "Stopping", "Closed", "Failed"} \cup BootstrapPhase \cup ConnectedPhase

Connected(phase) == phase \in ConnectedPhase

\* "out": the stream carries packets to the car (every screen, audio with
\* playback); "mic": audio with a microphone leg.
Legs == SUBSET {"out", "mic"} \ {{}}

PlainKind == {"Start", "Stop", "Record", "Drain", "Modes", "Send"}

Plain(kind) == [kind |-> kind, sid |-> NoStream, legs |-> {}]
SetupOf(s, legs) == [kind |-> "Setup", sid |-> s, legs |-> legs]
TeardownOf(s) == [kind |-> "Teardown", sid |-> s, legs |-> {}]

Operation == {Plain(k) : k \in PlainKind}
             \cup {SetupOf(s, legs) : s \in StreamId, legs \in Legs}
             \cup {TeardownOf(s) : s \in StreamId}

\* "Setup" is ScreenConfiguration or AudioConfiguration, "Drain" is
\* DrainTeardown or PairingRequest, "Modes" is AssertModes or SendControl of
\* ModesChanged, "Send" every request that mutates nothing.
Mutation(op) == op.kind \in {"Setup", "Teardown", "Record", "Drain", "Modes"}

Lifecycle(op) == op.kind \in {"Start", "Stop"}

Code == {"Ok", "Failed", "Timeout", "Cancelled", "Disconnected"}

NoEntry == [x \in {} |-> x]

NewImpl ==
  [ epoch |-> 0, nextId |-> 1, phase |-> "Idle",
    pending |-> NoEntry, completions |-> NoEntry,
    incoming |-> NoEntry, events |-> {}, notes |-> 0,
    media |-> NoEntry, mics |-> NoEntry, mediaBytes |-> 0, micBytes |-> 0,
    streams |-> NoEntry, peer |-> FALSE, clock |-> FALSE ]

Put(f, x, v) == [y \in DOMAIN f \cup {x} |-> IF y = x THEN v ELSE f[y]]

Without(f, xs) == Restrict(f, DOMAIN f \ xs)

\* Bytes held by a packet queue.
Bytes(q) == FoldFunction(+, 0, [s \in DOMAIN q |-> q[s].size])

----------------------------------------------------------------------------
\* Private helpers

\* Bug: the streams of the session are forgotten in the reset.
ClearSessionKeepsStreams(i) ==
  [i EXCEPT !.peer = FALSE, !.clock = FALSE,
            !.media = NoEntry, !.mics = NoEntry, !.mediaBytes = 0, !.micBytes = 0,
            !.incoming = NoEntry, !.events = {}, !.notes = 0]

ClearSession(i) ==
  [i EXCEPT !.peer = FALSE, !.clock = FALSE, !.streams = NoEntry,
            !.media = NoEntry, !.mics = NoEntry, !.mediaBytes = 0, !.micBytes = 0,
            !.incoming = NoEntry, !.events = {}, !.notes = 0]

\* The requests `ids' leave `pending' with the same result.
Answer(i, ids, code) ==
  [i EXCEPT !.pending = Without(@, ids),
            !.completions = [id \in DOMAIN @ \cup ids |->
                               IF id \in ids THEN [epoch |-> i.epoch, code |-> code]
                                             ELSE @[id]]]

\* Bug: pending is cleared without results.
FinishAllForgets(i, code) == [i EXCEPT !.pending = NoEntry]

FinishAll(i, code) == Answer(i, DOMAIN i.pending, code)

Fail(i, code) == ClearSession(FinishAll([i EXCEPT !.phase = "Failed"], code))

DueRequests(i) == {id \in DOMAIN i.pending : i.pending[id].due}

\* Bug: a Start or Stop that times out is only answered.
FatalTimeoutMutations(p) == p.taken /\ Mutation(p.op)

\* Whether the timeout of p leaves the state of the car unknown.
FatalTimeout(p) == Lifecycle(p.op) \/ (p.taken /\ Mutation(p.op))

\* Bug: requests that are not fatal are left waiting.
ExpireFatalOnly(i) ==
  IF \E id \in DueRequests(i) : FatalTimeout(i.pending[id]) THEN Fail(i, "Timeout") ELSE i

\* The loop visits ids in order and stops at the first fatal one; the due
\* requests before it and all the others then get the same code, Timeout.
ExpirePending(i) ==
  IF \E id \in DueRequests(i) : FatalTimeout(i.pending[id])
  THEN Fail(i, "Timeout")
  ELSE Answer(i, DueRequests(i), "Timeout")

Mutating(i) == \E id \in DOMAIN i.pending : Mutation(i.pending[id].op)

\* Bug: mutations are not serialised.
ValidateUnserialised(i, op) ==
  /\ Connected(i.phase) /\ i.peer
  /\ op.kind = "Setup" => /\ op.sid \notin DOMAIN i.streams
                          /\ Cardinality(DOMAIN i.streams) < MaxStreams
  /\ op.kind = "Teardown" => op.sid \in DOMAIN i.streams
  /\ op.kind = "Record" => DOMAIN i.streams # {} /\ i.phase # "Streaming"

Validate(i, op) ==
  /\ Connected(i.phase) /\ i.peer
  /\ ~ (Mutation(op) /\ Mutating(i))
  /\ op.kind = "Setup" => /\ op.sid \notin DOMAIN i.streams
                          /\ Cardinality(DOMAIN i.streams) < MaxStreams
  /\ op.kind = "Teardown" => op.sid \in DOMAIN i.streams
  /\ op.kind = "Record" => DOMAIN i.streams # {} /\ i.phase # "Streaming"

\* Bug: results that nobody popped do not count.
CanEnqueuePendingOnly(i, op) ==
  /\ Cardinality(DOMAIN i.pending) < PendingRequests + (IF op.kind = "Stop" THEN 1 ELSE 0)
  /\ op.kind = "Start" => i.phase \in {"Idle", "Closed", "Failed"}
  /\ op.kind = "Stop" => i.phase \notin {"Idle", "Closed", "Stopping"}
  /\ ~ Lifecycle(op) => Validate(i, op)

\* The admission test of enqueue, on the record that expire_pending left.
CanEnqueue(i, op) ==
  /\ Cardinality(DOMAIN i.pending) + Cardinality(DOMAIN i.completions)
       < PendingRequests + (IF op.kind = "Stop" THEN 1 ELSE 0)
  /\ op.kind = "Start" => i.phase \in {"Idle", "Closed", "Failed"}
  /\ op.kind = "Stop" => i.phase \notin {"Idle", "Closed", "Stopping"}
  /\ ~ Lifecycle(op) => Validate(i, op)

\* What an admitted operation does to the session before it is queued.
OpenRequest(i, op) ==
  CASE op.kind = "Start" -> [ClearSession(i) EXCEPT !.epoch = @ + 1, !.phase = "Starting"]
    [] op.kind = "Stop"  -> [ClearSession(FinishAll(i, "Cancelled")) EXCEPT !.phase = "Stopping"]
    [] OTHER             -> i

\* Bug: the id is used again.
EnqueueReusesId(i, op) ==
  LET j == OpenRequest(i, op)
  IN  [j EXCEPT !.pending = Put(@, i.nextId, [op |-> op, taken |-> FALSE, due |-> FALSE])]

Enqueue(i, op) ==
  LET j == OpenRequest(i, op)
  IN  [j EXCEPT !.nextId = @ + 1,
                !.pending = Put(@, i.nextId, [op |-> op, taken |-> FALSE, due |-> FALSE])]

TeardownPending(i, s) ==
  \E id \in DOMAIN i.pending : i.pending[id].op = TeardownOf(s)

\* packet_valid: `leg' is "out" for push_media and "mic" for receive_microphone.
PacketValid(i, p, leg) ==
  /\ p.epoch = i.epoch
  /\ i.phase = "Streaming"
  /\ p.sid \in DOMAIN i.streams
  /\ ~ TeardownPending(i, p.sid)
  /\ leg \in i.streams[p.sid]

PacketsOf(q, s) == {n \in DOMAIN q : q[n].sid = s}

\* Bug: the packets of the stream stay queued.
RemoveStreamKeepsPackets(i, s) ==
  [i EXCEPT !.streams = Without(@, {s}),
            !.phase = IF DOMAIN i.streams \subseteq {s} THEN "Ready" ELSE @]

RemoveStream(i, s) ==
  LET outs == PacketsOf(i.media, s)
      mics == PacketsOf(i.mics, s)
  IN  [i EXCEPT !.streams = Without(@, {s}),
                !.media = Without(@, outs), !.mics = Without(@, mics),
                !.mediaBytes = @ - Bytes(Restrict(i.media, outs)),
                !.micBytes = @ - Bytes(Restrict(i.mics, mics)),
                !.phase = IF DOMAIN i.streams \subseteq {s} THEN "Ready" ELSE @]

----------------------------------------------------------------------------
\* Public methods called by the application

\* Bug: a change the backend has taken is cancelled as if it had not been.
CancelFailsStop(p) == p.op.kind = "Stop"

\* cancel of the pending request id
CancelFails(p) == p.op.kind = "Stop" \/ (p.taken /\ (Mutation(p.op) \/ p.op.kind = "Start"))

Cancel(i, id) ==
  LET p == i.pending[id]
      j == Answer(i, {id}, "Cancelled")
  IN  IF CancelFails(p) THEN Fail(i, "Cancelled")
      ELSE IF Lifecycle(p.op) THEN [ClearSession(j) EXCEPT !.phase = "Closed"]
      ELSE j

PopCompletion(i, id) == [i EXCEPT !.completions = Without(@, {id})]

\* Bug: the byte counters are not reset.
DiscardMediaKeepsBytes(i) == [i EXCEPT !.media = NoEntry, !.mics = NoEntry]

DiscardMedia(i) ==
  [i EXCEPT !.media = NoEntry, !.mics = NoEntry, !.mediaBytes = 0, !.micBytes = 0]

CanPushMedia(i, p) ==
  /\ PacketValid(i, p, "out")
  /\ Cardinality(DOMAIN i.media) < MediaPackets
  /\ i.mediaBytes + p.size <= MediaBytes

PushMedia(i, slot, p) ==
  [i EXCEPT !.media = Put(@, slot, p), !.mediaBytes = @ + p.size]

PopMicrophone(i, slot) ==
  [i EXCEPT !.mics = Without(@, {slot}), !.micBytes = @ - i.mics[slot].size]

\* pop_event hands out a control command, or an event that expects no reply
PopCommand(i, id) == [i EXCEPT !.events = @ \ {id}]

PopNote(i) == [i EXCEPT !.notes = @ - 1]

\* respond: the first reply before the deadline wins
CanRespond(i, id) == ~ i.incoming[id].replied /\ ~ i.incoming[id].due

\* Bug: the event stays in the queue.
RespondKeepsEvent(i, id) == [i EXCEPT !.incoming[id].replied = TRUE]

Respond(i, id) ==
  [i EXCEPT !.incoming[id].replied = TRUE, !.events = @ \ {id}]

----------------------------------------------------------------------------
\* Public methods called by the backend

Untaken(i) == {id \in DOMAIN i.pending : ~ i.pending[id].taken}

\* take_work marks and returns the first request that was not taken yet
TakeWork(i, id) == [i EXCEPT !.pending[id].taken = TRUE]

\* The effect of the backend's answer on the session
ApplyResult(i, op, ok) ==
  CASE op.kind = "Start" /\ ok   -> [i EXCEPT !.peer = TRUE, !.phase = "Ready"]
    [] op.kind = "Start" /\ ~ ok -> ClearSession([i EXCEPT !.phase = "Failed"])
    [] op.kind = "Stop"          -> ClearSession([i EXCEPT !.phase = IF ok THEN "Closed" ELSE "Failed"])
    [] op.kind = "Setup" /\ ok   -> [i EXCEPT !.streams = IF op.sid \in DOMAIN @ THEN @
                                                                ELSE Put(@, op.sid, op.legs)]
    [] op.kind = "Teardown" /\ ok -> RemoveStream(i, op.sid)
    [] op.kind = "Record" /\ ok  -> [i EXCEPT !.phase = "Streaming"]
    [] OTHER                     -> i

\* Bug: the answered request is not erased.
CompleteKeepsPending(i, id, ok) ==
  [ApplyResult(i, i.pending[id].op, ok) EXCEPT
     !.completions = Put(@, id, [epoch |-> i.epoch, code |-> IF ok THEN "Ok" ELSE "Failed"])]

\* complete of a taken request, after expire_pending
Complete(i, id, ok) ==
  Answer(ApplyResult(i, i.pending[id].op, ok), {id}, IF ok THEN "Ok" ELSE "Failed")

CanReportProgress(i) ==
  \E id \in DOMAIN i.pending : i.pending[id].taken /\ i.pending[id].op.kind = "Start"

ReportProgress(i, phase) == [i EXCEPT !.phase = phase]

Disconnect(i) == Fail(i, "Disconnected")

UpdateClock(i) == [i EXCEPT !.clock = TRUE]

\* take_media runs expire_pending first, then pops
TakeMedia(i, slot) ==
  [i EXCEPT !.media = Without(@, {slot}), !.mediaBytes = @ - i.media[slot].size]

CanReceiveMicrophone(i, p) ==
  /\ PacketValid(i, p, "mic")
  /\ Cardinality(DOMAIN i.mics) < MicPackets
  /\ i.micBytes + p.size <= MicBytes

ReceiveMicrophone(i, slot, p) ==
  [i EXCEPT !.mics = Put(@, slot, p), !.micBytes = @ + p.size]

EventCount(i) == Cardinality(i.events) + i.notes

CanReceiveControl(i) ==
  /\ Connected(i.phase) /\ i.peer
  /\ Cardinality(DOMAIN i.incoming) < InboundRequests
  /\ EventCount(i) < EventLimit

ReceiveControl(i) ==
  [i EXCEPT !.nextId = @ + 1,
            !.events = @ \cup {i.nextId},
            !.incoming = Put(@, i.nextId, [replied |-> FALSE, due |-> FALSE])]

\* receive_iap2 and receive_service: an event that expects no reply
CanReceiveNote(i) == Connected(i.phase) /\ i.peer /\ EventCount(i) < EventLimit

ReceiveNote(i) == [i EXCEPT !.notes = @ + 1]

\* Bug: overdue commands are left to the application.
AnswerableReplied(i) == {id \in DOMAIN i.incoming : i.incoming[id].replied}

\* take_reply hands out the first command that was answered or is overdue
Answerable(i) == {id \in DOMAIN i.incoming : i.incoming[id].replied \/ i.incoming[id].due}

TakeReply(i, id) ==
  [i EXCEPT !.incoming = Without(@, {id}), !.events = @ \ {id}]
----------------------------------------------------------------------------
\* Deadlines pass

RequestOverdue(i, id) == [i EXCEPT !.pending[id].due = TRUE]

CommandOverdue(i, id) == [i EXCEPT !.incoming[id].due = TRUE]

----------------------------------------------------------------------------
\* What a record is made of, and what is true of every reachable one

PendingEntry == [op : Operation, taken : BOOLEAN, due : BOOLEAN]
Completion == [epoch : Nat, code : Code]
Inbound == [replied : BOOLEAN, due : BOOLEAN]
MediaPacket == [epoch : Nat, sid : StreamId, size : Sizes]

\* The ids whose requests still occupy the broker.
Held(i) == DOMAIN i.pending \cup DOMAIN i.completions

ImplType(i) ==
  /\ DOMAIN i = DOMAIN NewImpl
  /\ i.epoch \in Nat /\ i.nextId \in Nat \ {0} /\ i.phase \in Phase
  /\ i.pending \in [DOMAIN i.pending -> PendingEntry]
  /\ i.completions \in [DOMAIN i.completions -> Completion]
  /\ i.incoming \in [DOMAIN i.incoming -> Inbound]
  /\ Held(i) \cup DOMAIN i.incoming \cup i.events \subseteq 1..(i.nextId - 1)
  /\ i.notes \in Nat
  /\ i.media \in [DOMAIN i.media -> MediaPacket] /\ DOMAIN i.media \subseteq Slot
  /\ i.mics \in [DOMAIN i.mics -> MediaPacket] /\ DOMAIN i.mics \subseteq Slot
  /\ i.streams \in [DOMAIN i.streams -> Legs] /\ DOMAIN i.streams \subseteq StreamId
  /\ i.peer \in BOOLEAN /\ i.clock \in BOOLEAN

StillValid(i, id) ==
  LET op == i.pending[id].op
  IN  /\ op.kind = "Start" => i.phase \in BootstrapPhase /\ DOMAIN i.pending = {id}
      /\ op.kind = "Stop" => i.phase = "Stopping" /\ DOMAIN i.pending = {id}
      /\ ~ Lifecycle(op) => Connected(i.phase)
      /\ op.kind = "Setup" => /\ op.sid \notin DOMAIN i.streams
                              /\ Cardinality(DOMAIN i.streams) < MaxStreams
      /\ op.kind = "Teardown" => op.sid \in DOMAIN i.streams
      /\ op.kind = "Record" => i.phase = "Ready" /\ DOMAIN i.streams # {}

RequestsStillValid(i) == \A id \in DOMAIN i.pending : StillValid(i, id)

StreamsBounded(i) ==
  IsFiniteSet(DOMAIN i.streams) /\ Cardinality(DOMAIN i.streams) <= MaxStreams

OneMutation(i) ==
  \A a, b \in DOMAIN i.pending :
     Mutation(i.pending[a].op) /\ Mutation(i.pending[b].op) => a = b

NothingLeft(i) ==
  /\ i.peer <=> Connected(i.phase)
  /\ ~ Connected(i.phase) =>
       /\ ~ i.clock /\ DOMAIN i.streams = {}
       /\ DOMAIN i.media = {} /\ DOMAIN i.mics = {}
       /\ DOMAIN i.incoming = {} /\ i.events = {} /\ i.notes = 0

QueueLive(i, q, leg) ==
  \A n \in DOMAIN q : /\ q[n].epoch = i.epoch
                      /\ q[n].sid \in DOMAIN i.streams
                      /\ leg \in i.streams[q[n].sid]

PacketsLive(i) ==
  /\ i.phase = "Streaming" => DOMAIN i.streams # {}
  /\ QueueLive(i, i.media, "out") /\ QueueLive(i, i.mics, "mic")

EventsOpen(i) ==
  \A id \in i.events : id \in DOMAIN i.incoming /\ ~ i.incoming[id].replied
=============================================================================
