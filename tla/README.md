# Carbox: a TLA+ verification project

Carbox sits in a car between a phone and the head unit: it receives wireless
CarPlay (through the CatPlay engine, a Rust program) and Baidu CarLife+, shows
either of them on a web page beside a desktop of its own, and can forward the
CarPlay session to a wired CarPlay output.  This directory models the parts of
it that are programs with state, checks them with TLC on small instances and
proves what matters most with TLAPS.  Paths below are relative to the
repository; `session_core.cpp` and the like are named once with their place.

## 1. The system

| part | place | state it keeps | operations |
|---|---|---|---|
| SessionCore | `Core/MainMenu/src/session_core.cpp` | sources, mode, choice, active source, cached frame and audio block, control sinks, link state with its session table, artwork and lyrics buffers, blocks of state replaced whole | `upsert_source`, `set_selection`, `set_desktop_source`, `submit_*`, `route_control`, sinks, `upsert_session`, `set_active_session`, `set_artwork`, `set_media_info`, `artwork`, ... one mutex each |
| Desktop renderer | `Core/MainMenu/src/desktop.cpp` | last picture's signature, whether it was published since the switch | `tick` (1 Hz thread), `publish_now`, touch |
| Web service | `Core/Web/src/main.cpp` | four HTTP workers, one stream per viewer | `/api/select`, `/api/synthetic`, `/api/sessions`, artwork, media streams, control |
| Media store | `Core/Convert/src/real_media_store.cpp` | handshake and session, two screens with a ring of frames, six audio streams with a ring of chunks, gain, keyframe requests | `ingest` of records, the direct calls of CarLife, `take_keyframe_request`, `set_selected`, `video_packet`, `audio_packet` |
| CatPlay client | `Input/WirelessCarPlay/src/catplay_media_client.cpp` | socket, parser, mirrors of what it published, control queue | connect, read records, publish, send requests (thread, 2 ms) |
| CatPlay engine and media tap | `Input/WirelessCarPlay/Engine` | access point, pairing, supervision; the tap's epochs, streams and queues | Rust; the tap is a patch against CatPlay |
| MFi coprocessor | `Input/WirelessCarPlay/MFI` | challenge and signature registers | read, sign |
| CarLife transport | `Input/WirelessCarLifePlus/src/transport.cpp` | seven sockets, their readers, one queue, acceptors | connect or serve, read, send, `close` from any thread |
| CarLife session | `Input/WirelessCarLifePlus/src/session.cpp`, `encryption.cpp` | state of the handshake, cipher and what it excludes, heartbeat, microphone | `start` and its loop, a handler for every message, `requestStop`, sending of controls |
| CarLife wire format | `Input/WirelessCarLifePlus/src/wire.cpp` | none | encode and decode of every message and frame |
| CarLife adapter | `Input/WirelessCarLifePlus/src/carlife_input.cpp` | thread, session pointer, ring of controls, epochs and sequences of video and audio, blocks of link, route and call | `start`, `stop`, `run`, `on_control`, the session's callbacks |
| CarLife program | `Input/WirelessCarLifePlus/src/main.cpp`, `bt_link.cpp` | bluetooth link and its buffer | `bringup`, dialing, retries |
| Control requests | `Core/Web/include/wirelesscarplay/control_request.hpp` | none | `parse_control_request` |
| Wireless endpoint | `Core/Forward/src/wireless_endpoint.cpp` | generation, declared streams, media queue, requests both ways | called by the input and by the coordinator |
| CarPlay forwarder | `Core/Forward/src/carplay_forward.cpp` | epoch and generation it is bound to, streams it owns, its tickets | `tick`, `start`, `stop` |
| Wired output | `Output/WiredCarPlay/src/output.cpp` | phase, epoch, peer, streams, pending requests, completions, media and microphone queues, events and replies | application calls, backend calls, deadlines |

How they interact.  An input registers itself in SessionCore and is online
while it has a phone.  SessionCore alone decides which source is active; the
renderer, the workers and the inputs read that decision with `snapshot()` and
act on it after the lock is gone.  Media goes around SessionCore: from the input
to its media store and from there to the viewers, and, when the coordinator is
bound, from the endpoint to the output.  The coordinator never calls back: it
polls both sides in `tick()`.

What is hard in it:

* nearly everything is a sequence of calls each of which takes a lock, so a
  decision may be stale when it is carried out (`publish_now`,
  `sync_media_selection`, `publishable`, `tick`, `stable_artwork`);
* requests have deadlines, and an answer may come after its request was
  answered by a timeout, a cancel or a loss of the session;
* ids (tickets, commands, streams, revisions, generations, epochs) keep the
  past apart from the present, and whoever numbers for itself meets others;
* every queue is bounded, and what happens at the bound decides whether a
  stream recovers;
* a CarLife session is ended by its loop, its heartbeat, a broken channel or the
  host, at once or one after the other, while its readers still deliver;
* encryption begins on the two ends at different moments, with messages of the
  other kind on their way;
* whoever answers a phone does so in an order the phone waits for, over links
  that split and join what was written.

What makes each part correct: the output loses no ticket, answers everything
and keeps nothing of a session that ended; SessionCore's choice is a function
of who is online and what the user chose, and what it caches belongs to that
choice; the service brings the right picture to the screen in the end; what
the inputs publish is whole and consistent; the coordinator attaches only what
was acknowledged, lets go of everything when it lets go, and gives back every
request it took; a CarLife channel is a FIFO whatever the threads do, each
request of the phone is answered once, both ends agree on what is encrypted,
what one end writes the other reads, and the adapter, the media store and
SessionCore agree on the session and its streams.

## 2. Modules

| module | models | checked by | proved in |
|---|---|---|---|
| `OutputBroker` | the `Impl` record of the wired output: each public call a function from record to record | through `WiredOutput`, `CarPlayForward` | |
| `WiredOutput` | the output between an arbitrary application and an arbitrary backend | `MCWiredOutput` | `WiredOutputProofs` |
| `SessionCore` | sources, choice, cached media, control routing | `MCSessionCore` | `SessionCoreProofs` |
| `MainMenu` | SessionCore with renderer, workers and inputs; refines `SessionCore` | `MCMainMenu` | `SessionCoreProofs` |
| `WirelessEndpoint` | the endpoint, in the style of `OutputBroker` | through `CarPlayForward` | |
| `CarPlayForward` | the coordinator's tick, composed with both | `MCCarPlayForward` | `CarPlayForwardProofs` |
| `MediaLink` | video from the engine's tap over the socket to the store | `MCMediaLink` | `MediaLinkProofs` |
| `CoverPublication` | covers from two inputs through SessionCore to the page | through `Publication` | |
| `SessionTable` | the session table and its three writers | through `Publication` | |
| `Publication` | the two together | `MCPublication` | `PublicationProofs` |
| `PhoneChannels` | what a CarLife transport promises: a FIFO for each channel | through `CarLifeSession` | |
| `CarLifeTransport` | sockets, readers, acceptors, the queue, `close` | through `CarLifeSession` | through `CarLifeSessionProofs` |
| `CarLifeSession` | the session's threads and handlers over the transport, with a phone; refines `PhoneChannels` | `MCCarLifeSession` | `CarLifeSessionProofs` |
| `CarLifeFrames` | frames of a channel, the layout of `TOUCH_ACTION_3` | through `FrameExchange`, `CarLifeBringup` | through `CarLifeProofs` |
| `FrameExchange` | a channel's frames, or a touch, that may be cut anywhere | `MCWireExchange` | `CarLifeProofs` |
| `CarLifeWire` | field tables, writer, tolerant reader | through `WireExchange` | |
| `WireExchange` | a message between two versions | `MCWireExchange` | |
| `CarLifeBringup` | the stand-alone program until it has a session | `MCWireExchange` | `CarLifeProofs` |
| `ControlRequest` | `parse_control_request` | through `RequestExchange` | |
| `RequestExchange` | a page that says what it means, field by field | `MCWireExchange` | |
| `CarLifeControls` | `on_control` and the ring of controls | through `CarLifeInput` | through `CarLifeProofs` |
| `CarLifeMedia` | the session's callbacks, as operators on adapter, store and SessionCore | through `CarLifeInput` | through `CarLifeProofs` |
| `CarLifeInput` | the adapter's thread, owner, callbacks and controls together | `MCCarLifeInput` | `CarLifeProofs` |
| `FoldFacts` | nothing of the program: what is true of folds over finite sets and sequences | | itself |

### WiredOutput

`out` is the `Impl` struct.  Each public method holds `Impl::mutex` for its
whole body, so each is one action, with everything it calls: a `Submit` expires
what is due first, as `submit` does, and a `Cancel` that hits a state change
already handed over fails the session.  `completions` is a function from id to
result instead of a deque, packets sit in slots, and the clock is the flag
`due`.  `accepted` and `delivered` are history variables.  Argument checks that
refuse a call and change nothing are left out.

### SessionCore and MainMenu

A source is registered in `place` (its index decides ties), online in
`connected`.  `ResolveActive` is `resolve_active_locked`, applied by every action
whose method calls it.  A frame is the source and the connection (`link`) it was
submitted in.  `route_control` is two actions, because the sink is called after
the lock is released, by whichever HTTP worker got there; what that does to the order
of the car's events is checked where they are queued, in `CarLifeInput`.

`MainMenu` adds the renderer, whose `publish_now` is snapshot, comparison and
submission, and workers, whose select is one call of SessionCore, one
`snapshot`, two `set_selected` and a `publish_now`.  Whether a picture equals the
last one is a free choice at each comparison.  Each of its steps is a step of
`SessionCore` or leaves its variables alone, which is proved.

### WirelessEndpoint and CarPlayForward

`fwd` is `CarPlayForwarder::Impl`.  `tick()` reads selection, input and output
once into `snap` and then makes many calls; the model cuts it where another
thread may change something it will read: `ExpireBoth`, `Collect`, `Look`,
`Drain`, `Release`, `SettleStep`, `EventStep`, `ConfigureStep`, `MoveStep`.  Held packets
(`media`, `mic`) are the two optional packets the code keeps when the other side
is full.  Packets carry their configuration, which the code's do not, so that
`ConfigMatches` can be stated.  Left out: the vehicle information handed to the
input, the limits of 16 and 32 items a tick, statistics, the destructor.

### MediaLink

The engine's half is `media_ipc.rs`, which exists only as what the three patches of
`Engine/catplay-patch` add: `engine` is `Inner` with the state of `MediaServer`.
It runs on one thread, so a call of the tap is a step and so is a whole
`service_once` (accept, at most one request read, control drained before video).
`store` is the video part of `RealMediaStore`, `client` the connection of
`CatPlayMediaClient`.  A record in `down` is on its way; a connection that closes
may lose what was not read.  The throttle of half a second is the set
`throttled`, any part of which may open at a later step; `lost` is a history
variable.  The phone answers a request with a key frame at any later time, and
sends a key frame after new parameter sets.  That the phone is asked at
`on_record` too is left out.

### CoverPublication, SessionTable, Publication

The artwork buffer is two halves, so that a copy made without the lock can meet
a write.  `CatPlay` asks whether it is active and then publishes; `CarLife` does
not ask.  In `SessionTable` a MultiSession record is several calls with other
writers between them; it may list sessions beyond the table's places and name any as active,
or none.  `left` is a history variable: the names a record left over as active though it
listed no such session.  `Publication` runs either, the chooser `traffic` being a
bound: the two share only the active source that `publishable` reads.

### PhoneChannels, CarLifeTransport, CarLifeSession

`CarLifeTransport` has the variables and actions of `transport.cpp`: what the
phone wrote on a channel (`net`), the queue the readers share with the loop, what
the phone has not read (`out`), a reader for each channel that ends when its
socket does, the acceptors of the listening mode, and `close()`, which closes the
queue, then joins every thread before it returns.

`CarLifeSession` composes these with the threads that call them.  `main` is the
thread of `start()`: connecting or serving, the first message, then rounds of taking
one message (`Receive`), handling it, and the checks the loop makes when it got none
(`RecvTimeout`, `Check`).
`beat` is the heartbeat thread, `stopper` the host's `requestStop`.  Each handler
is an operator named as in the code that gives the session after the message and
the messages it sends.  A message is its channel, service, what its payload says
and whether it is encrypted.  The cipher's `enabled` stands for `enabled()`, that is for
`state_ == Ready`: a request for the public key and a new AES key leave that state, so
either switches encryption off until the next `MD_ENCRYPT_READY`.  Of the phone,
`ph.asked` and `ph.again` remember that it asked for the public key, and that it did so a
second time.  The phone follows `SPEC.md`, says what its plan
allows beside that, and breaks off in the ways the plan names.  `s.silent` and
`s.failAt` count seconds.  `PhoneChannels` is the abstract specification: by
channel, messages are handled in the order they were sent, and none is lost while
the link is up.  The map is the readers' bytes after the queue's messages of the
channel, the last message handled and `~closed`.

### CarLifeFrames, FrameExchange, CarLifeWire, WireExchange, CarLifeBringup

`CarLifeFrames` is how `transport.cpp` frames a payload and how a reader finds the frames
again, one cell after another (a fold of `ReadCell`); a header has two cells, its length and
service type.  The time stamp of a long header and the reader's limit of 64 MB are left out.
The fixed layout of `TOUCH_ACTION_3` is there too, byte by byte.  `FrameExchange` sends
frames on a channel, or one touch, may lose any end of it, and reads.

`CarLifeWire` holds the tables of fields of all messages, from which one writer and
one reader follow, as the code's templates have it: varints, zigzag, fixed
widths, nested and repeated messages, unknown fields skipped by their wire type.
`WireExchange` writes a message, lets a newer version add fields or give one
another type, may cut it at any byte, and reads it.

`CarLifeBringup` is `main.cpp` with `bt_link.cpp`: the link is a stream of cells, and
`TakeFrame` consumes `rxbuf_` as the code does.  A phone is a script of what it
says and what it waits for: that of `bt_link.h` 8-16, that of `mdsim.py` 541-578
and variants of them that repeat, interleave or stop.  What is asked of a script is
`Sensible`, assumed of `Script` and evaluated by TLC for the run's eight:

* It waits for no more than what it is owed for what it said before (`Due`): an answer to
  each status, one to each question (for information or the target) that comes before
  its address, and the program's own request for the address, which goes out once.  A phone
  that waits for more waits for ever, with any program.
* What it says fits a short frame.

When it speaks is free.  A frame without payload is given everything that stands behind it in
`rxbuf_` (item 16 of section 5).  That is modelled, down to an address that a swallowed
frame's length is taken for (`HasAddress`), and `hu.lost` is a history variable that
remembers it; `NobodyWaitsForever` says that the two ends wait for each other only
after it has happened.

### ControlRequest, RequestExchange

The body of `/api/control` is a sequence of cells (separators, escapes, words,
numerals).  `Segments`, `FormOf` and one operator for each type of event follow the code.  `RequestExchange` builds bodies from parts of which it
knows what field they were meant to be, so that the meaning of a body is
independent of how it is read.

### CarLifeControls, CarLifeMedia, CarLifeInput

`CarLifeControls` turns an event of SessionCore into one control or a batch, and
keeps them in the ring: first, count and slots as in the code, a move replacing a
move at the end.  `CarLifeMedia` has the callbacks as operators from a world
(adapter `a`, media store `store`, what SessionCore shows `core`) to a world.
`core.told` is a history variable: what the phone said last of each part.
`CarLifeInput` adds the thread (`run`: where it is, from the head of its loop over
discovery, connecting and the session's own loop back), the owner's `start` and
`stop` with the session pointer they share, and the HTTP workers that bring the car's
events (`car`, one place for each `Worker`).  `RouteControl` accepts an event and marks it with
the events that were answered by then (`env.through`, a history variable);
`OnControlEnters` is the call of the sink after the lock.  Several workers may stand between
the two, so events whose requests overlap enter the ring in any order, and the controls
say so: `x.after` are the events that were through when `x` was accepted.

## 3. Runs

Each run asks a question of its own, on a small instance chosen so
that the interesting cases happen.

| run | question | bounds |
|---|---|---|
| `output_safety` | are tickets, queues and streams sound with packets and requests | 2 streams, 2 slots, 2 sizes against 3 bytes, 5 ids, 2 sessions, 2 pending requests |
| `output_events` | is everything answered | 4 ids, 2 sessions, 1 stream, 2 events |
| `core_selection` | is the choice right, are frames its own | 2 phones, a test input, the desktop, a table of 3 |
| `menu_desktop` | does the desktop appear, do requests end | 2 phones, a test input, 1 worker |
| `pub_all` | covers whole, in order, announced as stored; table sound | 2 revisions, 3 attempts; 3 session names for 2 places, records of up to 3 that name any as active or none |
| `link_video` | can pictures be decoded, does the store follow the engine, who loses a request | 1 screen, 2 parameter sets, 2 sessions, 2 streams, queues of 3 and 1, a ring of 2, 5 acts |
| `forward_streams` | do coordinator and output agree on tickets and streams, is media acknowledged | 2 input streams (screen, voice), 3 output ids, 4 acts of the environment, 2 sessions |
| `forward_requests` | are commands and requests given back, does a stop end | 1 stream, 3 acts, deadlines |
| `carlife_session` | is each channel a FIFO, is everything answered, do both ends agree on the cipher, does a session end | channels CMD and VIDEO, versions 2 and 4, ten plans, one of them with keys asked for twice, 1 control of the host, 1 s of silence, 2 s after a failed authentication |
| `exchange_wire` | is what is written what is read, on the wire, over bluetooth, from the page | every message with all, the odd or the even fields, 1 added field, any cut; 3 frames, the limit of 65536 scaled to 4; 8 scripts, two of them with an empty frame that swallows another or with a phone that does not wait, 2 dials; bodies of 4 parts |
| `adapter_input` | do adapter, store and SessionCore agree, do controls keep their order, are blocks merged, does the thread come back | ring of 3, knobs of 3, 2 configurations, 4 callbacks, 3 events, 2 workers, eight plans |
| `adapter_stop` | does `stop()` return | a phone that stays; fails |

A property may have several parts where they are about one hazard: `TablesAgree`
has the coordinator's tickets known to the output and its streams existing there,
`MediaAcknowledged` that only acknowledged streams get media and nothing is queued once
let go, `NothingTakenIsLost` commands of the car and requests of the phone,
`PendingStillValid` that waiting requests are acceptable and changes serial,
`SoleCoverWhole` that a cover is whole and what is announced is stored,
`TableSound` that the table is bounded, only listed sessions have the flag and the active one has it,
`CipherInStep` that the car excludes no service wrongly and that the phone can read what it is sent,
`SidesAgree` that the store is open just if the adapter's is, with sequences that
the store accepts, and SessionCore online only with a session.

Some instances are kept beside the runs because the property they check does not
hold; section 5 describes what they show:

| configuration | property | where |
|---|---|---|
| `MCMainMenu_switch.cfg` | `MediaFollowsActive` | `Core/Convert/MAPPING.md` 170 |
| `MCPublication_torn.cfg` | `CoverWhole` | `Core/Web/src/main.cpp` 474 |
| `MCCarPlayForward_orphan.cfg` | `NoOrphan` | `Core/Forward/src/carplay_forward.cpp` 198 |
| `MCCarPlayForward_config.cfg` | `ConfigMatches` | `Core/Forward/src/carplay_forward.cpp` 147 |
| `MCCarLifeSession_auth.cfg` | `AuthTimesOut` | `SPEC.md` 57, `README.md` 101 of CarLife |
| `MCCarLifeInput_batch.cfg` | `BatchWhole` | `carlife_input.cpp` 713 |

Why the bounds are enough.  Two sessions let an answer, a packet or a ticket of
the first meet the second; two streams let one be torn down beside another; a
limit of one or two makes every queue full and every `full` branch taken; a
table one smaller than the sources makes a registration fail.  `MaxId` 5 lets a
Start, two Setups, a Record and a Teardown meet.  In `MCWiredOutput` the safety
run leaves out events and the event run packets: the two groups touch no common
field but session and requests; `TypeOK`, `NoResidue` and `EventsAwaitReply` are
proved for all of them together.  In `MCCarPlayForward` each run lets the
environment act in the ways named by `Acts` at most `MaxChanges` times; the
coordinator and backend are complete in all of them.  In `pub_all` one input
at a time has a phone (see `MCPublication_torn.cfg`); the records are any.

In `link_video` the queues are smaller than
in the engine (16 and 8 entries, 4 of each a service) in the same order, so
that five acts of phone, user and network fill them; one screen is enough
because the roles share only the control queue and the connection.  Reading,
connecting, serving and sending requests are not acts and are unbounded.

In `carlife_session` two channels are enough for one to overtake the other, to
break alone and to be silent alone; the other five differ from VIDEO in nothing the
session's control looks at.  A plan has one kind of traffic (the messages of the
cipher, a second negotiation of it, of the voice, of the car's data, of the video) and one fault (a stop, a
quit, a phone that hangs up, is silent, connects partly, or joins channel by channel
in the listening mode), because each kind is handled by code that shares only the
loop, the cipher and the transport with the others.  Version 4 is one the session
refuses.  In `exchange_wire` a message is written with values at the edges of their
encodings (one byte and several, empty and nested fields); frames are short enough that a length just fits and just does not.
Scripts of phones have up to eleven steps and the link may split each frame
anywhere.  In `adapter_input` the ring holds one burst, so that two controls and a
batch fill it; two workers are enough for events to overtake each other, and a third event to
come after both; a plan is one kind of callback or of control, since those of
different kinds write different members of the world, but for the end of a session,
which every plan has.

Deadlock is not checked where the system really stops: when every id, session,
revision, act, message or plan of the bound is used up.  `core_selection`,
`menu_desktop` and `adapter_input` check it.

### Fairness

* `output_events`: `expire` is called again and again, `take_reply` is called
  while there is a reply, deadlines pass.  `Output/WiredCarPlay/API.md` 157-160
  obliges the backend to the first two.  Nothing is assumed of answers.
* `menu_desktop`: the renderer's thread wakes each second
  (`desktop.cpp` 405-411), started calls return, workers go on; a worker that
  waits for the renderer's lock is served in the end (strong fairness of `Show`,
  as the lock is free between any two publications).
* `forward_requests`: the tick is called again and again and requests become
  due; whether the backend or the phone ever answers is not assumed.
* `pub_all`: a call that holds the lock goes on; a reader that waits for the
  lock gets it (strong fairness, because writers take it again and again).
  Inputs are under no obligation to publish.
* `carlife_session`: the thread of `start()`, the heartbeat and each reader are
  scheduled while they can run (weak fairness), seconds pass, and a stop that was
  asked for goes through.  Nothing makes the phone speak, read or connect.
* `adapter_input` and `adapter_stop`: the owner's call, once begun, and the adapter's
  thread go on (weak fairness); connecting has a timeout in the code, so that
  waiting for a phone is a loop of steps.  The phone and the callbacks are free.

## 4. Proofs

**WiredOutput** (`WiredOutputProofs`).  From the limits being positive and
nothing else, for any streams, sizes, slots and bounds.  `ExactlyOnce`,
`NoResidue` and the others are not inductive alone: that a Teardown's answer
removes a stream that exists needs that the request, admitted long ago, is still
valid, which needs that requests that change the state are serial, which needs
that each operation is admitted only in phases that the others cannot leave.
The inductive invariant is `Coherent(out)` (typed fields, requests still valid,
one mutation at a time, nothing left outside a session, packets of live
streams, commands that are open), the ids handed out, `ExactlyOnce` and
`Bounded`.  Each call of the broker is one lemma, by cases of what it does to
the session: enters it, leaves it (`Fail`, `ClearSession`), or moves inside.  Then
`TypeCorrect`, `TicketsExactlyOnce`, `CapacityHolds`, `RequestsStayValid`,
`SessionsLeaveNothing`, `PacketsNeverStale` and `CommandsAwaitReply` follow.

The module ends with the two action properties.  A call of the broker is
related to what it does to results (`ResultsKept`: a result that is there stays, unless it
is the one delivered), to requests that were handed over (`Resolved`: they
are answered, or the session ends) and to those that were not (`Spared`); the relations
compose, so a call that expires first and then acts is one application of
each.  From these `ResultsStayFinal` and `UnknownOutcomeAlwaysEnds`.

`BytesAlwaysMatch` is about sums.  `Bytes` is a fold over the slots of a queue, which
the library computes by a recursive function: `TotalsExist` and `TotalIsOne` show that
there is one such function, by induction over the subsets of a finite set with a set
for the property (`SetInduction`, from a smallest counterexample), and `TotalsSplit`
that a whole is the sum of two parts in whatever order it is counted.  With these
each call either leaves the packets and their counter alone, or empties both, or
moves both by the same amount; `Counted` says it of both queues and is inductive.

**SessionCore** (`SessionCoreProofs`).  For any finite set of sources.  The heart
is `Choice`: among the online sources of the highest priority the first of the
table is taken, so that a choice exists is a least-element argument (well-founded
induction on places).  The invariant is `CoreTypeOK`, `ActiveIsRight`,
`NoStaleFrame` and `Linked` (a cached frame is of the last connection, an
unregistered source has none).

**MainMenu** (`SessionCoreProofs`, its last part).  `MenuImplementsCore`: `Spec => CoreSpec`, by cases
of `Next`; so all of the above holds of the service.

**Publication** (`PublicationProofs`).  For any revisions, pages, attempts and
sessions.  `SoleCoverWhole` is not inductive: the buffer is torn while a writer is
half way, and the page's copy with it.  `CoverInv` says where each is: the writer is
one revision ahead of what is announced and has written the first half, both or
none according to its step; and a reader's copy is whole as long as the revision
it noted is the current one.  `CoversAdvance` follows since the revision the reader noted
never exceeds the buffer's.  `TableSound` is proved for both the table of the link and
the mirror a record is built in, since a record that is half way
through will replace one by the other.  Nothing is assumed of records: one that names no
session it lists, or one the table has no place for, leaves the old name behind (item 10 of section
5), so the invariant says of the active name that it carries the flag or is such a
one (`left`).

**CarPlayForward** (`CarPlayForwardProofs`).  `NothingTakenIsLost`, for any phone,
backend, user, clock and limits.  A tick is many calls of the output and of the
input, so each call is related to what it does to the other's property:
`Follows` for the output (a command that was handed over does not come back, none is
carried into another session, one that is answered for stays so), `Succeeds` for
the input and its jobs.  Both compose, so a step that makes several calls is one chain.
The property is not inductive: that an unbound coordinator may forget what it
holds needs that it holds nothing then.  The invariant `TakenInv` adds to it the shapes
of the tables, `Places` (where the tick is says whether it is bound, draining or
about to be; while it drains or is unbound nothing of car or phone is held) and
`OfThisSession` (what is held is of the session and generation it is bound to).  Each
action is one lemma; steps that take and answer nothing share `KeptStep` and
`UntouchedStep`.

The second half of the module goes on from there to `TablesAgree` and `MediaAcknowledged`.
The invariant `Tables` is a predicate of an output, a coordinator and the
application's tickets, so that it can be followed through the records between the
calls of one step.  Neither property is inductive, because the coordinator acts on
what it read earlier.  What is needed besides:

* `RequestsFit`, `RequestsOwned`: in a session that comes up only its Start waits, and
  everything else that waits is the request one job of the coordinator was made for,
  in that job's session.
* `JobsFit`, `BoundFits`: one job at a time changes the streams; no job is older than
  the session the coordinator is bound to, and while it drains none is newer.
* `SnapFits`: a snapshot goes stale in one direction only.  If the session it saw is
  still the present one it may have failed since, and not begun; if it is not, then
  nothing was set up or asked in the later one.  This is why a drain that goes by an
  old snapshot may forget its jobs and streams.
* `StreamsFit`: the table of streams is that of the output but for answers not yet
  collected; ids are not shared; a stream about to be set up has an id of its own.
* `MediaFits`: packets are of a stream held on both sides, in a session that records.

Most calls only settle (`Settles`: they answer without success, throw away, or fail
the session), and settling preserves `Tables` once and for all (`SettlesTables`).
What is left are the calls that make something, a lemma each: an admitted request
(`EnqueueTables`, `StartTables`), a success of the backend (`AcknowledgedTables`), a packet
(`PushTables`) and the answers collected (`CollectKeeps`).  TLC checked the invariant on
the configurations of the runs first.

**CarLife adapter** (`CarLifeProofs`).  For any plan whose callbacks are
`Callable` and whose events are `Drivable`, and a `None` that is no number; any number of
callbacks, any ring.  The
invariant is `Good(World)` (the world's types; no stream without a session; the
store's sequences never ahead of the adapter's, hence no record is
ever refused because of what came before; what SessionCore shows is what was told
last) and `Phases` (a thread that is not in a session has none).  Each
callback preserves `Good` as a lemma on worlds; the actions only add `Phases`.  Then
`SidesAlwaysAgree` and `BlocksAlwaysMerged`.

`ControlsAlwaysInOrder` is `[]ControlsInOrder`, for any number of workers.  The ring is read as a queue (`Nth`): a
control put, merged, taken or cleared does to it what it would to a sequence, since slots
less than a capacity apart are distinct (`SlotsApart`).  A batch is put by `FoldLeft`, a
recursive function of the library: `FoldsExist` (`FoldFacts`) builds such a function for any
finite set, `PuttingExists` shows that there is one only, and `BatchQueues` by induction over the
batch that its controls come behind those that are there.  The workers may bring their events in any order, so there is no
number that grows along the ring; what holds is that a control stands behind another only
if its event had not been answered when the other's was accepted (`Behind`).  The
invariant `InLine` says so of any two controls of the ring and of the one taken last, that of
neighbours the second is the next part of the same event or the first of another, that the ring ends
with an event's last part, and that what each worker has under way is of an event of its own
that is not through: so it may come behind whatever is there.  It also needs
that a touch is never part of a batch: a merged move would tear one.

**CarLife frames** (`CarLifeProofs`, its second part).  `FramesAlwaysInStep`: `[]FramesInStep`, for
any payloads, service types and number of frames, any limit, any touch whose parts have room (an action of
32 bits, ids of 8, places of 16) and any cut.  `Laid(q, b, pos)` says where each frame of `q` lies among the
cells `b`; a frame that is sent lies behind the others (`FrameInv`).  The reader is a fold, so its states are a
function of how many cells it has read (`ReadingRun`, from `FoldFacts`), and `ReadTo` says of each of them that the
frames are those that end there and the part that is left is the beginning of the next: by induction
over the cells.  It needs that a length is written as it is, which is what `CanFrame` is for.  Of a touch
it is arithmetic: what `Be16` writes `Get16` reads, the sign comes back with the first byte
(`ActionBack`), and a cut that leaves a multiple of five is a prefix of the pointers (`TouchRead`).

**CarLife link** (`CarLifeProofs`, its last part).  `NobodyEverWaits`: `[]NobodyWaitsForever`, for every script
that is `Sensible`: its frames fit and it waits for no more than it is owed; it may say anything at any
time, also behind an empty frame.  That both ends wait with nothing on its way is about the whole past, so the
invariant `LinkInv` keeps what has been of it, as long as nothing was swallowed (`hu.lost`, which
the program never takes back): of a script the phone has done the first `p` steps and the program has
read the frames of the first `c`; of the cells `b` that the phone has said, `rx` is the part from the end of
those frames to where the program has taken cells off the link, and `toHu` the rest (`Run`); what is on its way to the phone
is `Due` for the first `c` steps less what it has heard in `p` (`Owed`); and the program is at
its last stage exactly when the address is among those `c` (`Stage`).  A whole frame in `rx` is that of the
next step of the script that says anything (`NextFrame`), whether the code takes all of it or, when it
is empty, all there is (`StepRead`); if there was more, it is swallowed, and nothing is left to
be shown.  A phone that waits with nothing on its way is owed
something by a frame not yet read (`LeftToRead`), and with an empty link that frame is whole in
`rx` (`WholeFrame`), so the program does not wait.

**CarLife session** (`CarLifeSessionProofs`).  For any channels with `CMD` among them,
any versions and any phone whose plan says nothing that belongs to the handshake
or the key exchange (`SessionAssumption`: those messages it sends as replies).  The
handlers are a table of two dozen records to records, so the proof takes them once:
each is characterised by what it sends and what it does to the keys
(`CarDataHandled` and the lemmas before it), a round of the loop by `RoundIs`, and then `NextIs` says that every
action of `Next` is one of eight kinds of step: nothing moves (`Idle`), the car
sends of its own accord (`Posting`, `Beating`), a message is taken and handled (`Taking`), a
frame is read (`Reading`), a reader ends (`Ending`), the phone reads or says something.  The rest
is by these kinds.

* `ShapeAlways`: the types, and with them that a queue of a channel holds its messages only
  and that an answer about the key is sent only with a key.
* `ChannelsAlwaysInOrder`: `Spec => ChannelsInOrder`, the refinement of `PhoneChannels`.  What is
  in flight on a channel is what the loop's queue holds of it, then what the socket holds
  (`Flight`).  A reader moves a frame between the two and is a stutter; a round is
  `Handle`, the phone `Send`, a reader that ends `Lose`, whatever it drops.
* `CipherAlwaysInStep`: `[]CipherInStep`.  It is about messages that are read later, so the
  invariant has to look at all that is in transit.  What the car decrypts (`Inbound`): what it has
  excluded the phone knows to be excluded (`Windowed`), a cipher is on only with a key and only after
  `MD_ENCRYPT_READY` (`Keyed`, `Begun`), and in the phone's messages nothing in plain comes
  behind `MD_ENCRYPT_READY` but what the phone knows of (`Decrypts`).  This holds for any phone,
  since a cipher that is switched off decrypts nothing.  What the car encrypts (`Encrypts`): in its
  messages the one that ends plain text, `MD_ENCRYPT_READY_DONE`, is where plain and cipher
  meet.  This needs that nothing switches the cipher off, and a message about the keys that
  is handled while it is on (`Rekeying`) does.  For a phone that asks for the keys once there is none, which
  `Token` shows: of the key exchange at most one message is in transit, and none once the
  cipher is on; of that the next message of the exchange is always the other side's.  So
  `Agreed`, the invariant of both theorems, is `Inbound`, and the rest as long as `ph.again` is
  false, which once true stays so (`AgainStays`).

* `AnswersNeverLost`: `[]NoLostAnswer`, for the same phones: an encrypted message that finds the
  cipher off is not understood and not answered (item 19 of section 5).  The invariant `Owing` relates three sequences: as far as
  the phone can be sure of an answer (`Sure`: to what it did not send in plain while the car
  began to decrypt), the answers it waits for are those on their way to it and then those
  due for its requests on their way to the car (`Balanced`).  A round moves an answer from the third to the
  second, if it reads the request as it was sent: that is `Inbound` again, and `Courteous`, which says
  of each message in flight that an encrypted one finds a cipher and that only a phone
  that was given a public key sends one of its own.  Of a channel that is closed nothing is
  said but `Courteous`, since what is dropped there is never answered.

`Where`, which picks messages out of a sequence, is a recursive function; that it distributes
over a concatenation, and what it makes of a sequence from which one message is struck
(`RemoveFirst`), is proved by `SeqInduction`, induction over sequences with a set for
the property, from a counterexample of least length.

**MediaLink** (`MediaLinkProofs`).  For any finite set of screens, any contents, any
capacities of the queues, ring and buffers, any number of sessions, streams and
connections.  No property here is inductive, nor near it: engine and client never see
one state, there are five queues between what the phone did and what the page reads,
and a connection may end wherever it is.  The invariant `LinkInv` says that there is a
book (of every stream there ever was its session, its screen and, in their order, the
configurations it was given) such that

* `World`: all that is in the engine, on the wire and in the store could have been written from it.
  An event or a frame that still waits is exactly the book's (`EventOK`, `FrameOK`); what was announced may be of
  another session, but only of one that the server will not be in any more (`Told`,
  `Missed`); sessions are announced in their order (`ControlOK`, `Lower`); the ring of
  a slot is a row of frames (`RingOK`).
* `Follows`: the records on the wire, read one after another, lead the client from what
  it shows (`View`) to what the engine believes it shows (`Leads`, `Match`), and each
  comes when it may (`Fit`: a frame only when its configuration is shown, a start not of
  an earlier session).
* `Hears`: of the stream the phone sends now, a slot that waits for a key frame has asked, in
  one of the places a request passes through, or something is on its way that will
  make it ask, or the engine let something fall.

The book only grows, so `Extends` and `Onward` carry all of it over a step of the tap.
Each call of the engine or the store is an operator from a record to a record with a
lemma about what it keeps.  `snapshot`, `drain` and a burst of requests are folds over such
calls: `ControlFolds`, `VideoFolds`, `AnnounceFolds` and `RequestFolds` take what is true of each
step to the whole, by `FoldFacts`.  The lemma that matters
most is about a new client (`SnapshotKeeps`): whatever the store kept from earlier
connections, the snapshot leads it to the engine's state.  `AnnounceStart`, a snapshot
without configurations, breaks it, and the run shows so.  Then
`RingAlwaysDecodes`, `StoreAlwaysFollows` and `OnlyEngineEverLoses`
are read off.  TLC checked the invariant first, with the book built up along the
behaviour.

Only model-checked.  Liveness, as fairness and ENABLED are outside the prover:
`RequestsAnswered`, `CommandsReplied`, `NoPhaseStuck`, `DesktopShows`, `RequestsServed`,
`StopCompletes`, `SessionEnds`, `Reconnects`.  And two invariants: `ReadsAsWritten`, whose reader and writer are
recursive operators, as messages nest, and what those compute for every message is an induction over data;
and `RequestsUnderstood`, which compares the reading of a body with a table of what its parts
were meant to be: the table is the run's, and for tables in general there is nothing to prove but
what one would assume of them; besides, numerals are distinct through `ToString`, which has no
definition the provers could use.
Every other invariant and every action property that a run checks is a theorem.

## 5. What the models showed

A run that fails, because the code differs from what is written about it:

1. `adapter_stop`: `stop()` is to stop the thread and join it, whatever its state
   (`carlife_input.cpp` 172).  It clears `running_` and asks the session it finds in
   `active_session_` (175) to stop.  The thread has read `running_` before (292 and 321) and
   publishes its session after (344), so the stop reaches nobody; and one that
   reaches a session that has not begun is undone when it begins (`session.cpp` 188).
   `join` then waits until the phone leaves.

Configurations that fail, each kept beside the runs:

2. `MCMainMenu_switch`: `Core/Convert/MAPPING.md` 170 has the active input's media side
   selected at a switch.  Only `/api/select` and `/api/synthetic` do that; a phone that
   connects or drops switches the source and selects nothing.
3. `MCPublication_torn`: `stable_artwork` compares revisions, but two inputs number theirs
   independently; a write under the same number is not noticed.
4. `MCCarPlayForward_orphan`: `drain` pops and discards the completion of a SETUP that had
   succeeded since `collect`; nobody owns its stream.
5. `MCCarPlayForward_config`: a stream redeclared after `tick` took its snapshot sends packets of
   the new configuration on the old output stream.
6. `MCCarLifeSession_auth`: a phone that does not answer the request for its
   authentication within 30 s is to be let go (`SPEC.md` 57, `README.md` 101); the
   session says so in its log (`session.cpp` 623) and counts nothing.
7. `MCCarLifeInput_batch`: a number is to be sent as a whole or not at all
   (`carlife_input.cpp` 713).  It enters the ring as a whole; but a touch or a key that
   then finds the ring full clears it (`push_control_locked`), with what is left of
   a number whose first keys are on their way to the phone.

Seen while modelling; stated as definitions or in prose only:

8. `session_core.cpp` 115-119: the same revision is taken for the same cover,
   with inputs that number independently the second cover is not stored.
9. `catplay_media_client.cpp` 153-156: `publishable` is asked before the call that
   publishes; the selection may change between (`UnselectedStaysSilent`).
10. `catplay_media_client.cpp` 459-472: a record that names no active session, or one beyond the
   places of the table, keeps the old name though its list lacks it.  `session_core.cpp` 220 has
   no session active without existing; `FrontListed` says so but for such names (`left`).  And
   `session_core.cpp` 198-202: a session that is new and active does not take
   the flag from the one that has it (`OneActiveSession`).

11. `StoreFollows` compares the store with the engine's own snapshot.  When the control
   queue is full (`catplay-c2a-cp-native.patch` 423-435) the event is lost and the
   client cut off; the snapshot the next one gets is made of the events that
   `control_event` has seen, so a lost SessionBegin, VideoStart or VideoConfig
   stays lost, and frames of that stream are dropped until the next one.
12. `OnlyEngineLoses` names the two places where a waiting picture is left with
   nobody asking, against `Core/Web/ALTSCREEN-DESIGN.md` 196 and 217: the
   engine's throttle swallows a client's request (the store has already cleared
   its own), and `video_event` drops a key frame whose configuration is not the
   announced one and asks for none.  A frame that follows with a gap, a new
   page or a new selection asks again.
13. A session or stream that ends while no client is connected is not told to the
   next one when nothing has begun since: `snapshot` says nothing without a
   session, and the store keeps the old one.
14. `OddFieldsSkipped` and `MalformedRefused` (`WireExchange`): `wire.cpp` 560-561 skips
   fields it does not expect and refuses what is malformed.  A repeated number
   written with a fixed width is taken as 0 and its bytes as the next tag (578), and
   a message that ends within a tag is accepted.
15. `CloseReturns` (`CarLifeSession`): `close()` joins its threads (`transport.cpp` 261), an
   acceptor among them that waits in `accept()` for a channel the phone never opens.
16. `bt_link.cpp` 388: after a frame of length zero everything in the buffer is given
   to it; a frame that came right behind is swallowed, though the comment on line 389 takes the
   whole frame to be its header.  After that both ends may wait for each other;
   `NobodyWaitsForever` excepts just this.
17. Controls left in the ring when a session ends are taken by the next one.
18. The page, which no model has yet: `app.js` 130 skips a frame whose number is not above
   the last one it decoded, and `runVideoStream` (173-181) begins again without forgetting
   that number.  The engine numbers each stream from 1
   (`catplay-c2a-cp-native.patch` 457, 494), and `video_packet` passes the mark of a key
   frame but not that of a discontinuity (`real_media_store.cpp` 373), so after a new
   stream in the same session the page skips pictures until their numbers pass the old one.
19. A second negotiation of the cipher.  `session.cpp` 1238 sets the state to `Advertised` on every
   `MD_RSA_PUBLIC_KEY_REQUEST`, and a new key sets it to `KeyReceived` (`encryption.cpp` 179);
   `enabled()` is `state_ == Ready` (`encryption.h` 92).  So a phone that asks for the keys again
   after encryption began has switched off the cipher of the car; if it goes on encrypting itself,
   the answer `HU_RSA_PUBLIC_KEY_RESPONSE` still goes out encrypted (1237), everything after it in
   plain, and the phone's `MD_AES_KEY_SEND_REQUEST` is taken as it came, does not
   parse, and gets no answer.  `session.cpp` 103-104 has the six messages of the negotiation
   before `Ready` and therefore always plain, which is so the first time only.  `SPEC.md`
   does not say whether a phone may ask twice.  `CipherInStep` and `NoLostAnswer` except a phone
   that has (`ph.again`); without the exception TLC finds both violated in the plan that asks twice.
20. Events of the car that overlap.  `route_control` calls the sink after its lock
   (`session_core.cpp` 92), and four HTTP workers call it (`Core/Web/src/main.cpp` 800-810; the
   requests are at 719, 741 and in the last line of `client`).  Two events whose requests are
   served at once may enter the ring in the other order than they were accepted in.  The page waits for the
   answer to each touch before it sends the next (`app.js` 471-483), but not so with keys and the other
   requests (512, 1014, 1074).  `ControlsInOrder` is about events that do not overlap.

## 6. Plan

Done in this order: the output (the broker every forwarded request goes
through), the selection, the service, the coordinator, publication, the
video link; then the CarLife input from the wire to SessionCore, the requests
of the page, and the proofs of results, publication, adapter, coordinator, CarLife
session, video link, frames and link.  What is left:

1. Proofs: messages of the wire, whose modules would first have to be written without
   recursive operators.
2. The audio half of `MediaLink`, rings and cursors of the page; the client's control
   requests.
3. `CatplayCapture`: the observer between client and endpoint.
4. `EngineSupervisor`: the supervision loop of `cp-native`, the access point and
   its rollback; the status of `cp-harness`; the MFi sequence.

## 7. Not modelled

* The engine's supervisor, its harness library and the MFi coprocessor: programs
  of their own behind a socket or a bus, next in the plan.
* The capture between the CatPlay client and the endpoint; the client's control requests,
  which it numbers from 1 again after a restart (`catplay_media_client.cpp` 564) while
  the engine remembers the old numbers: a hazard that no property covers.
* Audio of CatPlay, gain and frame rates; display configuration, telemetry and
  statistics, which read or write one value or file.
* Parsers and tables without state (`metadata_validation.hpp`, `catalog.hpp`, the
  codec of CatPlay's records).
* RSA and AES themselves: a message is encrypted or plain, and decrypts or does not.
* Finding a phone's bluetooth channel with `sdptool`, D-Bus profiles and pairing, the
  HFP service level connection, the scripts of the access point.
* Drawing and hit-testing of the desktop, the page's layout and polling, the SDL
  window of the stand-alone program, HTTP itself.
* Build, flash and audit scripts, and the kernel configuration.

The CatPlay program itself is not in the repository: what it does is taken from
how the code here uses it.
