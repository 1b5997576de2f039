----------------------------- MODULE MediaLink -----------------------------
(***************************************************************************)
(* Video of wireless CarPlay on its way from the phone to the page: the    *)
(* engine's MediaTap and MediaServer (media_ipc.rs, which the patches of   *)
(* Engine/catplay-patch build up), the socket, CatPlayMediaClient and      *)
(* RealMediaStore.                                                         *)
(*                                                                         *)
(* The engine runs on one thread: a call of the tap and one service_once   *)
(* are a step each.  The client takes one record at a time, under the lock *)
(* of the store.  The engine's throttle of 500 ms is a set of roles any of *)
(* which may be open again at the next step; that of the store only delays *)
(* what FlushRequest may do at any time anyhow.  Records of audio, gain,   *)
(* touch and metadata are left out, as are partial writes; what is still   *)
(* in the buffer of a socket when its other end closes may be read or      *)
(* lost.                                                                   *)
(***************************************************************************)
EXTENDS Integers, FiniteSets, SequencesExt

CONSTANTS
  Role,                \* screens
  Content,             \* SPS/PPS a stream may be configured with
  NoContent,
  ControlCap, VideoCap,            \* queues of the tap
  ControlPerService, VideoPerService,
  OutCap,              \* records for a client that does not read
  RingSize,            \* kVideoFrames
  MaxSession, MaxStream, MaxActs   \* bounds: sessions, streams, acts

ASSUME LinkAssumption ==
  /\ IsFiniteSet(Role) /\ NoContent \notin Content
  /\ {ControlCap, VideoCap, ControlPerService, VideoPerService, OutCap, RingSize} \subseteq Nat \ {0}

VARIABLES
  engine,              \* Inner, MediaServer and what the phone was asked
  client,              \* CatPlayMediaClient: its connection
  store,               \* RealMediaStore
  acts                 \* how many acts there were

vars == <<engine, client, store, acts>>

NoEntry == [x \in {} |-> x]

Put(f, x, v) == [y \in DOMAIN f \cup {x} |-> IF y = x THEN v ELSE f[y]]

NewEngine ==
  [ session |-> 0, nextSession |-> 1, nextStream |-> 1,
    taps |-> NoEntry,           \* stream: [session, role, config, content, sequence]
    control |-> <<>>, video |-> <<>>, fatal |-> FALSE,
    throttled |-> {},           \* roles asked for within 500 ms
    asked |-> {},               \* roles whose key frame the phone owes
    lost |-> {},                \* history: roles whose request met the throttle or
                                \* whose key frame was dropped, and not asked since
    serving |-> FALSE, down |-> <<>>, up |-> <<>>,   \* the connection
    early |-> <<>>, ghost |-> FALSE,   \* the backlog: what a client that waits has
                                \* sent, and whether one before it gave up there
    state |-> [session |-> 0, video |-> NoEntry] ]   \* Snapshot: by role

NewSlot ==
  [ started |-> FALSE, id |-> 0, have |-> FALSE, config |-> 0, content |-> NoContent,
    waiting |-> TRUE, counted |-> FALSE, last |-> 0, requested |-> FALSE,
    ring |-> <<>> ]

NewStore ==
  [session |-> 0, hello |-> FALSE, selected |-> TRUE, video |-> [r \in Role |-> NewSlot]]

Init ==
  /\ engine = NewEngine /\ client = "off" /\ store = NewStore /\ acts = 0

----------------------------------------------------------------------------
\* The connection, at the engine.  The client's state is "off", "wait" (in
\* the backlog), "on" or "refused"; it is at the other end when "on".

\* What was sent may still be read.
Close(e) == [e EXCEPT !.serving = FALSE, !.up = <<>>]

Send(e, rec) ==
  IF ~ e.serving THEN e
  ELSE IF Len(e.down) < OutCap THEN [e EXCEPT !.down = Append(@, rec)]
  ELSE Close(e)

Hello == [kind |-> "hello"]
Begin(s) == [kind |-> "begin", session |-> s]
End(s) == [kind |-> "end", session |-> s]
Start(s, st, r) == [kind |-> "start", session |-> s, stream |-> st, role |-> r]
Configure(s, st, id, c) ==
  [kind |-> "config", session |-> s, stream |-> st, config |-> id, content |-> c]
Stop(s, st) == [kind |-> "stop", session |-> s, stream |-> st]

\* Half a second may have passed since a request.
Later(e) == {[e EXCEPT !.throttled = shut] : shut \in SUBSET e.throttled}

\* request_keyframe: the phone is asked at most twice a second for each role.
RequestKeyframe(e, r) ==
  IF r \in e.throttled THEN [e EXCEPT !.lost = @ \cup {r}]
  ELSE IF e.session # 0
       THEN [e EXCEPT !.asked = @ \cup {r}, !.throttled = @ \cup {r}, !.lost = @ \ {r}]
  ELSE e

----------------------------------------------------------------------------
\* MediaTap and VideoTap

\* control: the event is lost when the queue is full, and the client is cut off.
Post(e, event) ==
  IF Len(e.control) < ControlCap THEN [e EXCEPT !.control = Append(@, event)]
  ELSE [e EXCEPT !.fatal = TRUE]

\* begin_session
BeginSession(e) ==
  Post([e EXCEPT !.session = e.nextSession, !.nextSession = @ + 1, !.asked = {}],
       Begin(e.nextSession))

\* end_session_for_epoch
EndSession(e, s) ==
  IF s = e.session THEN Post([e EXCEPT !.session = 0, !.asked = {}], End(s)) ELSE e

\* video_stream
VideoStream(e, r) ==
  Post([e EXCEPT !.nextStream = @ + 1,
                 !.taps = Put(@, e.nextStream,
                   [session |-> e.session, role |-> r, config |-> 0, content |-> NoContent,
                    sequence |-> 0])],
       Start(e.session, e.nextStream, r))

\* config: NoContent stands for SPS/PPS that are not valid.
TapConfig(e, st, c) ==
  LET t == e.taps[st] IN
  IF c = NoContent THEN RequestKeyframe(e, t.role)
  ELSE Post([e EXCEPT !.taps[st].config = @ + 1, !.taps[st].content = c],
            Configure(t.session, st, t.config + 1, c))

\* The stream the phone sends a screen with: its newest
Screen(e, r) == Max({0} \cup {st \in DOMAIN e.taps : e.taps[st].role = r})

\* frame: sequence numbers count what is lost, too.
TapFrame(e, st, key, fits) ==
  LET t == e.taps[st]
      counted == [e EXCEPT !.taps[st].sequence = @ + 1,
                           !.asked = IF key /\ st = Screen(e, t.role) THEN @ \ {t.role} ELSE @]
      f == [kind |-> "frame", session |-> t.session, stream |-> st, sequence |-> t.sequence + 1,
            config |-> t.config, content |-> t.content, key |-> key]
  IN  IF ~ e.serving THEN counted
      ELSE IF ~ fits \/ Len(e.video) >= VideoCap THEN RequestKeyframe(counted, t.role)
      ELSE [counted EXCEPT !.video = Append(@, f)]

\* drop of the tap
DropTap(e, st) ==
  Post([e EXCEPT !.taps = Restrict(@, DOMAIN @ \ {st})], Stop(e.taps[st].session, st))

----------------------------------------------------------------------------
\* MediaServer: service_once

\* Bug: a stream is announced without its configuration.
AnnounceStart(e, r) == Send(e, Start(e.state.session, e.state.video[r].stream, r))

\* A stream, and its configuration when it has one
Announce(e, r) ==
  LET v == e.state.video[r]
      started == Send(e, Start(e.state.session, v.stream, r))
  IN  IF v.config = 0 THEN started
      ELSE Send(started, Configure(e.state.session, v.stream, v.config, v.content))

\* What a new client is told
Snapshot(e) ==
  IF e.state.session = 0 THEN e
  ELSE FoldLeft(Announce, Send(e, Begin(e.state.session)), SetToSeq(DOMAIN e.state.video))

\* accept of a client when there is none
Accept(e) ==
  LET open == [e EXCEPT !.serving = TRUE, !.down = <<>>,
                        !.up = IF e.ghost THEN <<>> ELSE e.early]
  IN  FoldLeft(RequestKeyframe, Snapshot(Send(open, Hello)), SetToSeq(Role))

\* read_request: a request is for the session and a stream that there is.
ReadRequest(e) ==
  LET q == Head(e.up)
      rest == [e EXCEPT !.up = Tail(@)]
      roles == {r \in DOMAIN e.state.video : e.state.video[r].stream = q.stream}
  IN  IF q.session = e.state.session /\ roles # {}
      THEN RequestKeyframe(rest, CHOOSE r \in roles : TRUE) ELSE rest

\* An end of another session and a configuration of a stream that is not there
\* are passed over.
Heeded(state, event) ==
  /\ event.kind = "end" => event.session = state.session
  /\ event.kind = "config" => \E r \in DOMAIN state.video : state.video[r].stream = event.stream

\* The snapshot with an event in it
Noted(state, event) ==
  LET video == state.video IN
  CASE event.kind = "begin" -> [session |-> event.session, video |-> NoEntry]
    [] event.kind = "end" -> [session |-> 0, video |-> NoEntry]
    [] event.kind = "start" ->
         [state EXCEPT !.video = Put(video, event.role,
            [stream |-> event.stream, config |-> 0, content |-> NoContent])]
    [] event.kind = "config" ->
         [state EXCEPT !.video = [r \in DOMAIN video |->
            IF video[r].stream # event.stream THEN video[r]
            ELSE [stream |-> event.stream, config |-> event.config, content |-> event.content]]]
    [] event.kind = "stop" ->
         [state EXCEPT !.video =
            Restrict(video, {r \in DOMAIN video : video[r].stream # event.stream})]

\* control_event
ControlEvent(e, event) ==
  IF Heeded(e.state, event) THEN Send([e EXCEPT !.state = Noted(@, event)], event) ELSE e

\* video_event: only frames of a stream and a configuration that were announced
VideoEvent(e, f) ==
  LET roles == {r \in DOMAIN e.state.video : e.state.video[r].stream = f.stream} IN
  IF /\ f.session = e.state.session /\ f.config # 0
     /\ \E r \in roles : e.state.video[r].config = f.config
  THEN Send(e, f)
  ELSE [e EXCEPT !.lost = IF f.key THEN @ \cup roles ELSE @]

\* drain: control before video, so many of each or until there is none
NextControl(e, i) ==
  IF e.control = <<>> THEN e ELSE ControlEvent([e EXCEPT !.control = Tail(@)], Head(e.control))
NextVideo(e, i) ==
  IF e.video = <<>> THEN e ELSE VideoEvent([e EXCEPT !.video = Tail(@)], Head(e.video))
UpTo(n) == [i \in 1..n |-> i]
Drain(e) ==
  FoldLeft(NextVideo, FoldLeft(NextControl, e, UpTo(ControlPerService)), UpTo(VideoPerService))

\* here: the client is at the other end; hangup: its end is closed and seen so.
Served(e, accepted, here, hangup) ==
  LET cut == IF e.fatal THEN [Close(e) EXCEPT !.fatal = FALSE] ELSE e
      met == IF accepted THEN Accept(cut) ELSE cut
      read == IF ~ met.serving THEN met
              ELSE IF hangup \/ (~ here /\ met.up = <<>>) THEN Close(met)
              ELSE IF met.up # <<>> THEN ReadRequest(met)
              ELSE met
      drained == Drain(read)
  IN  IF drained.serving /\ ~ here /\ drained.down # <<>>
      THEN [Close(drained) EXCEPT !.down = <<>>] ELSE drained

\* The one that gave up in the backlog is accepted before the one that waits,
\* which is refused then.
Service ==
  LET free == engine.fatal \/ ~ engine.serving
      accepted == client = "wait" /\ free /\ ~ engine.ghost
      here == client = "on" \/ accepted
  IN  /\ client' = IF accepted THEN "on" ELSE IF client = "wait" THEN "refused" ELSE client
      /\ \E hangup \in IF here THEN {FALSE} ELSE BOOLEAN, e \in Later(engine) :
           engine' = [Served(e, free /\ (engine.ghost \/ accepted), here, hangup)
                        EXCEPT !.early = <<>>, !.ghost = FALSE]
      /\ UNCHANGED <<store, acts>>

\* flush: a client that does not read is cut off after two tries or 100 ms.
Cut ==
  /\ engine.serving /\ engine.down # <<>>
  /\ engine' = Close(engine)
  /\ acts < MaxActs /\ acts' = acts + 1
  /\ UNCHANGED <<client, store>>

----------------------------------------------------------------------------
\* RealMediaStore, under its lock

\* Bug: a gap in the numbers goes unnoticed.
PushFrameNoGap(v, f, selected) ==
  LET counted == [v EXCEPT !.counted = TRUE, !.last = f.sequence]
  IN  IF v.counted /\ f.sequence <= v.last THEN v
      ELSE IF ~ selected \/ (v.waiting /\ ~ f.key) THEN counted
      ELSE IF f.key THEN [counted EXCEPT !.waiting = FALSE, !.requested = FALSE, !.ring = <<f>>]
      ELSE [counted EXCEPT !.ring = Append(IF Len(@) = RingSize THEN Tail(@) ELSE @, f)]

\* push_video_frame_locked
PushFrame(v, f, selected) ==
  LET gap == v.counted /\ f.sequence # v.last + 1
      seen == IF gap THEN [v EXCEPT !.waiting = TRUE, !.ring = <<>>, !.requested = TRUE] ELSE v
      counted == [seen EXCEPT !.counted = TRUE, !.last = f.sequence]
  IN  IF v.counted /\ f.sequence <= v.last THEN seen
      ELSE IF ~ selected \/ (seen.waiting /\ ~ f.key) THEN counted
      ELSE IF f.key THEN [counted EXCEPT !.waiting = FALSE, !.requested = FALSE, !.ring = <<f>>]
      ELSE [counted EXCEPT !.ring = Append(IF Len(@) = RingSize THEN Tail(@) ELSE @, f)]

SlotOf(s, st) == {r \in Role : s.video[r].started /\ s.video[r].id = st}

ClearMedia(s) ==
  [s EXCEPT !.session = 0,
            !.video = [r \in Role |-> NewSlot]]

\* VideoStart: the slot that has the stream already, or that of its role
StartSlot(s, rec) ==
  LET r == IF SlotOf(s, rec.stream) # {} THEN CHOOSE x \in SlotOf(s, rec.stream) : TRUE ELSE rec.role
  IN  [s EXCEPT !.video[r] = [NewSlot EXCEPT !.started = TRUE, !.id = rec.stream]]

\* VideoConfig: the same SPS/PPS under a new id go on as before.
ConfigureSlot(v, rec) ==
  IF v.have /\ rec.config = v.config THEN v
  ELSE IF v.have /\ rec.content = v.content THEN [v EXCEPT !.config = rec.config]
  ELSE [v EXCEPT !.have = TRUE, !.config = rec.config, !.content = rec.content, !.waiting = TRUE,
                 !.counted = FALSE, !.ring = <<>>, !.requested = TRUE]

\* ingest
Ingest(s, rec) ==
  LET slots == SlotOf(s, rec.stream) IN
  IF rec.kind = "hello" THEN [s EXCEPT !.hello = TRUE]
  ELSE IF ~ s.hello THEN s ELSE
  CASE rec.kind = "begin" ->
         IF rec.session = s.session THEN s
         ELSE [ClearMedia(s) EXCEPT !.session = rec.session]
    [] rec.kind = "end" -> IF rec.session = s.session THEN ClearMedia(s) ELSE s
    [] OTHER ->
         IF s.session = 0 \/ rec.session # s.session THEN s
         ELSE IF rec.kind = "start" THEN StartSlot(s, rec)
         ELSE [s EXCEPT !.video = [r \in Role |->
                 LET v == s.video[r] IN
                 IF r \notin slots THEN v
                 ELSE IF rec.kind = "config" THEN ConfigureSlot(v, rec)
                 ELSE IF rec.kind = "stop" THEN NewSlot
                 ELSE IF v.have /\ rec.config = v.config THEN PushFrame(v, rec, s.selected)
                 ELSE v]]

\* Bug: a source that is shown again does not ask for a key frame.
SelectSilently(s, on) ==
  [s EXCEPT !.selected = on,
            !.video = [r \in Role |-> [s.video[r] EXCEPT !.ring = <<>>, !.counted = FALSE,
                                                  !.waiting = @ \/ (on /\ s.video[r].have)]]]

\* set_selected
SetSelected(s, on) ==
  [s EXCEPT !.selected = on,
            !.video = [r \in Role |-> [s.video[r] EXCEPT !.ring = <<>>, !.counted = FALSE,
                                                  !.waiting = @ \/ (on /\ s.video[r].have),
                                                  !.requested = @ \/ (on /\ s.video[r].have)]]]

----------------------------------------------------------------------------
\* CatPlayMediaClient

Act == acts < MaxActs /\ acts' = acts + 1

\* fail: the store keeps its session and pictures.
Fail(s) ==
  /\ client' = "off"
  /\ store' = [s EXCEPT !.hello = FALSE]
  /\ engine' = [engine EXCEPT !.down = <<>>, !.early = <<>>, !.ghost = @ \/ client = "wait"]

Connect ==
  /\ client = "off" /\ client' = "wait"
  /\ UNCHANGED <<engine, store, acts>>

Read ==
  /\ client = "on" /\ engine.down # <<>>
  /\ store' = Ingest(store, Head(engine.down))
  /\ engine' = [engine EXCEPT !.down = Tail(@)]
  /\ UNCHANGED <<client, acts>>

\* The end of the connection is seen, perhaps before all of it was read.
SeeEnd ==
  /\ client = "refused" \/ (client = "on" /\ ~ engine.serving)
  /\ Fail(store) /\ UNCHANGED acts

\* No hello within 500 ms, no record within 10 s, or an error
GiveUp ==
  /\ Act /\ client \in {"wait", "on"} /\ Fail(store)

\* take_keyframe_request, and the request is sent, before the engine has
\* accepted perhaps
FlushRequest ==
  /\ client # "off"
  /\ \E r \in Role :
       LET taken == [store EXCEPT !.video[r].requested = FALSE]
           request == [session |-> store.session, stream |-> store.video[r].id]
           open == client = "wait" \/ (client = "on" /\ engine.serving)
       IN
       /\ store.video[r].requested
       /\ ~ open => Fail(taken)
       /\ open =>
            /\ store' = taken /\ UNCHANGED client
            /\ engine' = IF client = "wait" THEN [engine EXCEPT !.early = Append(@, request)]
                         ELSE [engine EXCEPT !.up = Append(@, request)]
  /\ UNCHANGED acts

ClientNext == Connect \/ Read \/ SeeEnd \/ GiveUp \/ FlushRequest

----------------------------------------------------------------------------
\* The phone, the user and the page

Phone(e) == engine' = e /\ UNCHANGED <<client, store>>

PhoneBegins == Act /\ engine.nextSession <= MaxSession /\ Phone(BeginSession(engine))

\* The owner of any session ends it, late perhaps.
PhoneEnds == Act /\ \E s \in 1..engine.nextSession - 1 : Phone(EndSession(engine, s))

\* open_screen: the phone is asked, past the throttle.  A screen is torn down
\* before it is set up again; the stream of a session that ended may be
\* dropped late.
StreamStarts ==
  /\ engine.session # 0 /\ engine.nextStream <= MaxStream /\ UNCHANGED acts
  /\ \E r \in Role :
       /\ \A st \in DOMAIN engine.taps :
            engine.taps[st].role = r => engine.taps[st].session # engine.session
       /\ Phone([VideoStream(engine, r) EXCEPT !.asked = @ \cup {r}])

\* Parameter sets take effect with the key frame that follows them.
StreamConfigured ==
  Act /\ \E st \in DOMAIN engine.taps, c \in Content \cup {NoContent} :
           LET e == TapConfig(engine, st, c) IN
           Phone(IF c = NoContent THEN e ELSE [e EXCEPT !.asked = @ \cup {engine.taps[st].role}])

StreamSends ==
  Act /\ \E st \in DOMAIN engine.taps, key, fits \in BOOLEAN, e \in Later(engine) :
           Phone(TapFrame(e, st, key, fits))

StreamEnds == Act /\ \E st \in DOMAIN engine.taps : Phone(DropTap(engine, st))

PhoneNext == PhoneBegins \/ PhoneEnds \/ StreamStarts \/ StreamConfigured \/ StreamSends \/ StreamEnds

Select ==
  /\ Act /\ store' = SetSelected(store, ~ store.selected)
  /\ UNCHANGED <<engine, client>>

\* request_keyframe, when a page starts to read
PageAsks ==
  /\ Act /\ store.selected
  /\ \E r \in Role : store.video[r].started /\ store' = [store EXCEPT !.video[r].requested = TRUE]
  /\ UNCHANGED <<engine, client>>

Next == Service \/ Cut \/ ClientNext \/ PhoneNext \/ Select \/ PageAsks

Spec == Init /\ [][Next]_vars

----------------------------------------------------------------------------
\* Properties

\* What a page reads can be decoded: frames of one configuration without a
\* gap, none of them while a key frame is waited for.
RingDecodes ==
  \A r \in Role :
    LET v == store.video[r] IN
    /\ v.waiting => v.ring = <<>>
    /\ \A i \in DOMAIN v.ring :
         /\ v.ring[i].stream = v.id /\ v.ring[i].content = v.content
         /\ i > 1 => v.ring[i].sequence = v.ring[i - 1].sequence + 1

\* Once all that was sent is read the store shows the streams the engine
\* has announced, each with its configuration, however often the two were
\* separated meanwhile.
StoreFollows ==
  /\ client = "on" /\ engine.serving /\ store.hello /\ engine.down = <<>>
  /\ engine.session # 0 /\ engine.state.session = engine.session
  =>
    /\ store.session = engine.session
    /\ \A r \in DOMAIN engine.state.video :
         LET v == engine.state.video[r] IN
         /\ store.video[r].started /\ store.video[r].id = v.stream
         /\ store.video[r].have <=> v.config # 0
         /\ v.config # 0 => store.video[r].config = v.config /\ store.video[r].content = v.content

Linked == client = "on" /\ engine.serving /\ ~ engine.fatal

\* The stream shown is the one the phone sends the screen r with.
Current(e, s, r) ==
  /\ s.session # 0 /\ s.session = e.session /\ s.session = e.state.session
  /\ s.video[r].id = Screen(e, r)
  /\ r \in DOMAIN e.state.video /\ e.state.video[r].stream = s.video[r].id

\* Such a record will show the stream of slot v, screen r, or ask anew.
Shows(rec, session, v, r) ==
  \/ rec.kind = "frame" /\ rec.stream = v.id /\ rec.key
  \/ rec.kind = "config" /\ rec.stream = v.id /\ rec.content # v.content
  \/ rec.kind = "start" /\ (rec.role = r \/ rec.stream = v.id)
  \/ rec.kind = "begin" /\ rec.session # session

Coming(e, s, r) ==
  \E rec \in ToSet(e.down) \cup ToSet(e.video) \cup ToSet(e.control) :
    Shows(rec, s.session, s.video[r], r)

AskedFor(e, s, r) ==
  \/ s.video[r].requested \/ r \in e.asked \/ Coming(e, s, r)
  \/ \E i \in DOMAIN e.up : e.up[i].stream = s.video[r].id

\* A picture that waits for a key frame has asked for one: what is lost is
\* asked for again (Core/Web/ALTSCREEN-DESIGN.md 196, 217).  Only the engine
\* lets one fall, in its throttle or as a frame of another configuration.
OnlyEngineLoses ==
  \A r \in Role :
    /\ Linked /\ Current(engine, store, r)
    /\ store.selected /\ store.video[r].have /\ store.video[r].waiting
    => AskedFor(engine, store, r) \/ r \in engine.lost

=============================================================================
