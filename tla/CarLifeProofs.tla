--------------------------- MODULE CarLifeProofs ----------------------------
(***************************************************************************)
(* Proofs about CarLife: the input adapter, then the frames of the session *)
(* and the bluetooth link.                                                 *)
(*                                                                         *)
(* The adapter, for every phone, every car and any number of callbacks:    *)
(* each callback is an operator from a world to a world, so that what it   *)
(* preserves is a lemma about worlds; the actions follow.  The ring of     *)
(* controls is read as a queue, and a batch, which FoldLeft puts there, by *)
(* what a fold over a finite set is.                                       *)
(*                                                                         *)
(* A stream of frames, for all payloads and all the ways it can fall into  *)
(* pieces: where each frame lies among the cells is a function, and a      *)
(* reader that has taken the first n cells has the frames that end there.  *)
(***************************************************************************)
EXTENDS CarLifeInput, FrameExchange, CarLifeBringup, FoldFacts

Sequence == Nat \cup {None}

\* The shapes of the three parts of a world, as far as the callbacks go by them.
Member == { "running", "connected", "sid", "epoch", "size", "config", "vopen", "vseq", "aopen",
            "aseq", "ducked", "audio", "link", "nav", "file" }
Adapter(x) ==
  /\ DOMAIN x = Member
  /\ x.sid \in 0..2 /\ x.epoch \in 0..1 /\ x.connected \in BOOLEAN
  /\ x.vopen \in BOOLEAN /\ x.vseq \in Nat
  /\ x.aopen \subseteq Stream /\ x.aseq \in [Stream -> Nat]
Store(x) ==
  /\ DOMAIN x = {"sid", "hello", "video", "audio", "gain", "refused"}
  /\ x.sid \in 0..2 /\ x.refused \in BOOLEAN
  /\ DOMAIN x.video = {"started", "config", "last"}
  /\ x.video.started \in BOOLEAN /\ x.video.last \in Nat
  /\ x.audio \in [Stream -> Sequence]
Shown(x) ==
  /\ DOMAIN x = {"sink", "on", "ducking", "audio", "link", "nav", "call", "fps", "told"}
  /\ x.on \in BOOLEAN
Typed(w) == DOMAIN w = {"a", "store", "core"} /\ Adapter(w.a) /\ Store(w.store) /\ Shown(w.core)

\* Adapter and store number the session and its streams alike, and the store
\* is never ahead: what the adapter pushes next is new to it.
VideoAgrees(w) ==
  /\ w.a.vopen <=> w.store.video.started
  /\ w.a.vseq = w.store.video.last
  /\ w.a.vopen => w.a.config = w.store.video.config /\ w.a.sid # 0
  /\ ~w.a.vopen => w.a.vseq = 0
AudioAgrees(w) ==
  \A i \in Stream : /\ i \in w.a.aopen <=> w.store.audio[i] # None
                    /\ i \in w.a.aopen => w.store.audio[i] <= w.a.aseq[i] /\ w.a.sid # 0
Agree(w) ==
  /\ ~w.store.refused /\ w.a.sid = w.store.sid
  /\ VideoAgrees(w) /\ AudioAgrees(w)

\* What every callback leaves alone, but those about the link and the route.
Kept(w, v) ==
  /\ v.core.on = w.core.on /\ v.a.connected = w.a.connected
  /\ w.a.sid # 0 => v.a.sid # 0
SameBlocks(w, v) ==
  /\ v.a.link = w.a.link /\ v.a.nav = w.a.nav /\ v.a.file = w.a.file
  /\ v.core.link = w.core.link /\ v.core.nav = w.core.nav /\ v.core.told = w.core.told
Follows(w, v) == Typed(v) /\ Agree(v) /\ Kept(w, v) /\ SameBlocks(w, v)

LEMMA Chain ==
  ASSUME NEW u, NEW v, NEW w, Follows(u, v), Follows(v, w) PROVE Follows(u, w)
  BY DEF Follows, Kept, SameBlocks

\* v is w but for what says nothing about the session and its streams.
Quiet(w, v) ==
  /\ DOMAIN v = DOMAIN w /\ DOMAIN v.a = DOMAIN w.a
  /\ DOMAIN v.store = DOMAIN w.store /\ DOMAIN v.core = DOMAIN w.core
  /\ v.a.connected = w.a.connected /\ v.a.sid = w.a.sid /\ v.a.epoch = w.a.epoch
  /\ v.a.config = w.a.config /\ v.a.vopen = w.a.vopen /\ v.a.vseq = w.a.vseq
  /\ v.a.aopen = w.a.aopen /\ v.a.aseq = w.a.aseq
  /\ v.store.sid = w.store.sid /\ v.store.refused = w.store.refused
  /\ v.store.video = w.store.video /\ v.store.audio = w.store.audio
  /\ v.core.on = w.core.on

LEMMA QuietKeeps ==
  ASSUME NEW w, NEW v, Typed(w), Agree(w), Quiet(w, v)
  PROVE  Typed(v) /\ Agree(v) /\ Kept(w, v)
<1>1. Adapter(v.a)
  BY DEF Typed, Adapter, Member, Quiet
<1>2. Store(v.store)
  BY DEF Typed, Store, Quiet
<1>3. Shown(v.core)
  BY DEF Typed, Shown, Quiet
<1>4. Typed(v)
  BY <1>1, <1>2, <1>3 DEF Typed, Quiet
<1>5. Agree(v)
  BY DEF Agree, VideoAgrees, AudioAgrees, Quiet
<1> QED
  BY <1>4, <1>5 DEF Kept, Quiet

\* v is w with a new session, begun on both sides at once, in an empty store.
Begun(w, v) ==
  /\ DOMAIN v = {"a", "store", "core"}
  /\ \E sid \in 1..2, epoch \in 0..1 :
       /\ v.a = [w.a EXCEPT !.sid = sid, !.epoch = epoch]
       /\ v.store = [EmptyStore EXCEPT !.sid = sid, !.hello = TRUE, !.refused = w.store.refused]
  /\ v.core = w.core

LEMMA SessionBegins ==
  ASSUME NEW w, Typed(w), w.a.sid = 0, w.store.sid = 0
  PROVE  Begun(w, EnsureSession(w))
<1> DEFINE sid == w.a.epoch + 1
           begun == [EmptyStore EXCEPT !.sid = sid, !.hello = TRUE, !.refused = w.store.refused]
<1>1. sid \in 1..2 /\ sid % 2 \in 0..1
  BY DEF Typed, Adapter, Member
<1>2. BeginSession(w.store, sid) = begun
  BY <1>1 DEF BeginSession
<1>3. begun.hello = TRUE
  BY DEF EmptyStore
<1>4. TransportReady(begun) = begun
  BY <1>3 DEF TransportReady
<1> HIDE DEF sid, begun
<1>5. EnsureSession(w) = [w EXCEPT !.a.sid = sid, !.a.epoch = sid % 2, !.store = begun]
  BY <1>2, <1>4 DEF EnsureSession, sid
<1>6. DOMAIN w = {"a", "store", "core"}
  BY DEF Typed
<1> QED
  BY <1>1, <1>5, <1>6 DEF Begun, begun

LEMMA EnsureSessionTyped ==
  ASSUME NEW w, Typed(w), w.a.sid = w.store.sid PROVE Typed(EnsureSession(w))
<1>1. CASE w.a.sid # 0
  BY <1>1 DEF EnsureSession
<1>2. CASE w.a.sid = 0
  <2> DEFINE v == EnsureSession(w)
  <2>1. Begun(w, v)
    BY <1>2, SessionBegins
  <2> HIDE DEF v
  <2>2. Adapter(v.a)
    BY <2>1 DEF Begun, Typed, Adapter, Member
  <2>3. Store(v.store)
    <3>1. PICK sid \in 1..2 :
            v.store = [EmptyStore EXCEPT !.sid = sid, !.hello = TRUE, !.refused = w.store.refused]
      BY <2>1 DEF Begun
    <3>2. v.store.audio = [i \in Stream |-> None] /\ v.store.video = NoVideo
      BY <3>1 DEF EmptyStore
    <3>3. v.store.audio \in [Stream -> Sequence]
      BY <3>2 DEF Sequence
    <3>4. v.store.sid \in 0..2 /\ v.store.refused \in BOOLEAN
      BY <3>1 DEF EmptyStore, Typed, Store
    <3>5. DOMAIN v.store = {"sid", "hello", "video", "audio", "gain", "refused"}
      BY <3>1 DEF EmptyStore
    <3>6. /\ DOMAIN v.store.video = {"started", "config", "last"}
          /\ v.store.video.started \in BOOLEAN /\ v.store.video.last \in Nat
      BY <3>2 DEF NoVideo
    <3> QED
      BY <3>3, <3>4, <3>5, <3>6 DEF Store
  <2> QED
    BY <2>1, <2>2, <2>3 DEF Begun, Typed, v
<1> QED
  BY <1>1, <1>2

LEMMA EnsureSessionAgrees ==
  ASSUME NEW w, Typed(w), Agree(w)
  PROVE  Agree(EnsureSession(w)) /\ EnsureSession(w).a.sid # 0
<1>1. CASE w.a.sid # 0
  BY <1>1 DEF EnsureSession
<1>2. CASE w.a.sid = 0
  <2> DEFINE v == EnsureSession(w)
  <2>1. Begun(w, v)
    BY <1>2, SessionBegins DEF Agree
  <2> HIDE DEF v
  <2>2. v.store.sid = v.a.sid /\ v.a.sid # 0 /\ ~v.store.refused
    BY <2>1 DEF Begun, Typed, Adapter, Member, EmptyStore, Agree
  <2>3. VideoAgrees(v)
    <3>1. v.store.video = NoVideo
      BY <2>1 DEF Begun, EmptyStore
    <3>2. v.store.video.started = FALSE /\ v.store.video.last = 0
      BY <3>1 DEF NoVideo
    <3>3. v.a.vopen = w.a.vopen /\ v.a.vseq = w.a.vseq
      BY <2>1 DEF Begun, Typed, Adapter, Member
    <3> QED
      BY <1>2, <3>2, <3>3 DEF Agree, VideoAgrees
  <2>4. AudioAgrees(v)
    <3>1. v.store.audio = [i \in Stream |-> None] /\ v.a.aopen = w.a.aopen
      BY <2>1 DEF Begun, Typed, Adapter, Member, EmptyStore
    <3>2. \A i \in Stream : i \notin w.a.aopen
      BY <1>2 DEF Agree, AudioAgrees
    <3> QED
      BY <3>1, <3>2 DEF AudioAgrees
  <2> QED
    BY <2>2, <2>3, <2>4 DEF Agree, v
<1> QED
  BY <1>1, <1>2

LEMMA SessionFollows ==
  ASSUME NEW w, Typed(w), Agree(w)
  PROVE  Follows(w, EnsureSession(w)) /\ EnsureSession(w).a.sid # 0
<1> DEFINE v == EnsureSession(w)
<1>1. Typed(v) /\ Agree(v) /\ v.a.sid # 0
  BY EnsureSessionTyped, EnsureSessionAgrees DEF Agree
<1>2. v.core = w.core
  BY SessionBegins, ZenonT(30) DEF Agree, Begun, EnsureSession
<1>3. v.a.connected = w.a.connected /\ v.a.link = w.a.link /\ v.a.nav = w.a.nav /\ v.a.file = w.a.file
  <2>1. CASE w.a.sid = 0
    <3>1. Begun(w, v)
      BY <2>1, SessionBegins DEF Agree
    <3> QED
      BY <3>1 DEF Begun, Typed, Adapter, Member
  <2>2. CASE w.a.sid # 0
    BY <2>2 DEF EnsureSession
  <2> QED
    BY <2>1, <2>2
<1> QED
  BY <1>1, <1>2, <1>3 DEF Follows, Kept, SameBlocks

-----------------------------------------------------------------------------
\* Video

LEMMA VideoConfigFollows ==
  ASSUME NEW w, Typed(w), Agree(w) PROVE Follows(w, OnVideoConfig(w))
<1> DEFINE v == [w EXCEPT !.a.size = TRUE]
<1>1. Quiet(w, v) /\ SameBlocks(w, v)
  BY DEF Quiet, SameBlocks, Typed, Adapter, Member
<1>2. Follows(w, v)
  BY <1>1, QuietKeeps DEF Follows
<1> HIDE DEF v
<1>3. Follows(v, EnsureSession(v))
  BY <1>2, SessionFollows DEF Follows
<1> QED
  BY <1>2, <1>3, Chain DEF OnVideoConfig, v

LEMMA ReconfiguredFollows ==
  ASSUME NEW w, Typed(w), Agree(w), NEW config PROVE Follows(w, Reconfigured(w, config))
<1> DEFINE v == Reconfigured(w, config)
<1>1. /\ DOMAIN v = {"a", "store", "core"} /\ v.core = w.core
      /\ v.a = [w.a EXCEPT !.config = config, !.vseq = 0, !.vopen = FALSE]
      /\ v.store = IF w.a.vopen THEN EndVideoStream(w.store) ELSE w.store
  BY DEF Reconfigured, Typed
<1> HIDE DEF v
<1>2. /\ v.a.vopen \in BOOLEAN /\ ~v.a.vopen /\ v.a.vseq = 0
      /\ v.core = w.core /\ DOMAIN v = {"a", "store", "core"}
      /\ v.a.sid = w.a.sid /\ v.a.epoch = w.a.epoch
      /\ v.a.aopen = w.a.aopen /\ v.a.aseq = w.a.aseq /\ v.a.connected = w.a.connected
      /\ v.a.link = w.a.link /\ v.a.nav = w.a.nav /\ v.a.file = w.a.file
      /\ DOMAIN v.a = DOMAIN w.a
  BY <1>1 DEF Typed, Adapter, Member
<1>3. Adapter(v.a)
  BY <1>2 DEF Typed, Adapter, Member
<1>4. /\ DOMAIN v.store = DOMAIN w.store /\ v.store.sid = w.store.sid
      /\ v.store.audio = w.store.audio /\ v.store.refused = w.store.refused
      /\ DOMAIN v.store.video = {"started", "config", "last"}
      /\ v.store.video.started \in BOOLEAN /\ ~v.store.video.started /\ v.store.video.last = 0
  <2>1. CASE w.a.vopen
    <3>1. v.store = [w.store EXCEPT !.video = NoVideo]
      BY <1>1, <2>1 DEF EndVideoStream
    <3>2. v.store.video = NoVideo
      BY <3>1 DEF Typed, Store
    <3>3. /\ DOMAIN v.store.video = {"started", "config", "last"}
          /\ v.store.video.started \in BOOLEAN /\ ~v.store.video.started /\ v.store.video.last = 0
      BY <3>2 DEF NoVideo
    <3>4. /\ DOMAIN v.store = DOMAIN w.store /\ v.store.sid = w.store.sid
          /\ v.store.audio = w.store.audio /\ v.store.refused = w.store.refused
      BY <3>1 DEF Typed, Store
    <3> QED
      BY <3>3, <3>4
  <2>2. CASE ~w.a.vopen
    <3>1. v.store = w.store
      BY <1>1, <2>2
    <3>2. ~w.store.video.started /\ w.store.video.last = 0
      BY <2>2 DEF Agree, VideoAgrees
    <3>3. w.store.video.started \in BOOLEAN /\ DOMAIN w.store.video = {"started", "config", "last"}
      BY DEF Typed, Store
    <3> QED
      BY <3>1, <3>2, <3>3
  <2> QED
    BY <2>1, <2>2
<1>6. Typed(v)
  BY <1>2, <1>3, <1>4 DEF Typed, Store
<1>7. Agree(v)
  BY <1>2, <1>4 DEF Agree, VideoAgrees, AudioAgrees
<1> QED
  BY <1>2, <1>6, <1>7 DEF Follows, Kept, SameBlocks, v
LEMMA EnsureVideoFollows ==
  ASSUME NEW w, Typed(w), Agree(w) PROVE Follows(w, EnsureVideoStream(w))
<1> DEFINE v == EnsureVideoStream(w)
           opens == ~w.a.vopen /\ w.a.config # None /\ w.a.size /\ CanSetVideo(w.store)
<1>1. CASE ~opens
  <2>1. v = w
    BY <1>1 DEF EnsureVideoStream
  <2> QED
    BY <2>1 DEF Follows, Kept, SameBlocks
<1>2. CASE opens
  <2>1. v = [w EXCEPT !.a.vopen = TRUE, !.store = SetVideoStream(w.store, w.a.config)]
    BY <1>2 DEF EnsureVideoStream
  <2>2. /\ DOMAIN v = {"a", "store", "core"} /\ v.core = w.core
        /\ v.a = [w.a EXCEPT !.vopen = TRUE]
        /\ v.store = [w.store EXCEPT !.video = [started |-> TRUE, config |-> w.a.config, last |-> 0]]
    BY <2>1 DEF Typed, SetVideoStream
  <2>3. w.a.sid # 0 /\ w.a.vseq = 0
    BY <1>2 DEF CanSetVideo, Agree, VideoAgrees
  <2> HIDE DEF v, opens
  <2>4. /\ v.a.vopen \in BOOLEAN /\ v.a.vopen /\ v.a.vseq = 0 /\ v.a.config = w.a.config
        /\ v.a.sid = w.a.sid /\ v.a.epoch = w.a.epoch
        /\ v.a.aopen = w.a.aopen /\ v.a.aseq = w.a.aseq /\ v.a.connected = w.a.connected
        /\ v.a.link = w.a.link /\ v.a.nav = w.a.nav /\ v.a.file = w.a.file
        /\ DOMAIN v.a = DOMAIN w.a
    BY <2>2, <2>3 DEF Typed, Adapter, Member
  <2>5. /\ DOMAIN v.store = DOMAIN w.store /\ v.store.sid = w.store.sid
        /\ v.store.audio = w.store.audio /\ v.store.refused = w.store.refused
        /\ v.store.video = [started |-> TRUE, config |-> w.a.config, last |-> 0]
    BY <2>2 DEF Typed, Store
  <2>6. /\ DOMAIN v.store.video = {"started", "config", "last"}
        /\ v.store.video.started \in BOOLEAN /\ v.store.video.started
        /\ v.store.video.last = 0 /\ v.store.video.config = w.a.config
    BY <2>5
  <2>7. Adapter(v.a)
    BY <2>4 DEF Typed, Adapter, Member
  <2>8. Typed(v)
    BY <2>2, <2>5, <2>6, <2>7 DEF Typed, Store
  <2>9. Agree(v)
    BY <2>3, <2>4, <2>5, <2>6 DEF Agree, VideoAgrees, AudioAgrees
  <2> QED
    BY <2>2, <2>4, <2>8, <2>9 DEF Follows, Kept, SameBlocks, v
<1> QED
  BY <1>1, <1>2

\* A frame is never refused: its stream is open on both sides and its number new.
LEMMA FrameFollows ==
  ASSUME NEW w, Typed(w), Agree(w), w.a.vopen
  PROVE  LET seq == w.a.vseq + 1
         IN  Follows(w, [w EXCEPT !.a.vseq = seq, !.store = PushVideoFrame(w.store, seq)])
<1> DEFINE seq == w.a.vseq + 1
           v == [w EXCEPT !.a.vseq = seq, !.store = PushVideoFrame(w.store, seq)]
<1>1. seq \in Nat /\ seq > w.store.video.last /\ w.store.sid # 0 /\ w.store.video.started
  BY DEF Typed, Adapter, Member, Agree, VideoAgrees
<1>2. PushVideoFrame(w.store, seq) = [w.store EXCEPT !.video.last = seq]
  BY <1>1 DEF PushVideoFrame
<1> HIDE DEF seq
<1>3. DOMAIN v = {"a", "store", "core"} /\ v.core = w.core /\ v.a = [w.a EXCEPT !.vseq = seq]
  BY DEF Typed
<1>4. v.store = [w.store EXCEPT !.video.last = seq]
  BY <1>2 DEF Typed
<1> HIDE DEF v
<1>5. DOMAIN w.a = Member
  BY DEF Typed, Adapter
<1>6. /\ v.a.vseq = seq /\ v.a.config = w.a.config /\ v.a.vopen = w.a.vopen
      /\ v.a.sid = w.a.sid /\ v.a.epoch = w.a.epoch
      /\ v.a.aopen = w.a.aopen /\ v.a.aseq = w.a.aseq /\ v.a.connected = w.a.connected
      /\ v.a.link = w.a.link /\ v.a.nav = w.a.nav /\ v.a.file = w.a.file
      /\ DOMAIN v.a = DOMAIN w.a
  BY <1>3, <1>5, ZenonT(30) DEF Member
<1>7. DOMAIN w.store = {"sid", "hello", "video", "audio", "gain", "refused"}
  BY DEF Typed, Store
<1>8. /\ DOMAIN v.store = DOMAIN w.store /\ v.store.sid = w.store.sid
      /\ v.store.audio = w.store.audio /\ v.store.refused = w.store.refused
      /\ v.store.video = [w.store.video EXCEPT !.last = seq]
  BY <1>4, <1>7
<1>9. /\ DOMAIN v.store.video = DOMAIN w.store.video /\ v.store.video.last = seq
       /\ v.store.video.started = w.store.video.started
       /\ v.store.video.config = w.store.video.config
  BY <1>8 DEF Typed, Store
<1>10. Adapter(v.a)
  BY <1>1, <1>6 DEF Typed, Adapter, Member
<1>11. Store(v.store)
  BY <1>1, <1>8, <1>9 DEF Typed, Store
<1>12. Agree(v)
  BY <1>6, <1>8, <1>9 DEF Agree, VideoAgrees, AudioAgrees
<1> QED
  BY <1>3, <1>6, <1>10, <1>11, <1>12 DEF Follows, Kept, SameBlocks, Typed, v, seq

LEMMA VideoFollows ==
  ASSUME NEW w, Typed(w), Agree(w), NEW config PROVE Follows(w, OnVideoAnnexB(w, config))
<1> DEFINE here == EnsureSession(w)
           new == IF config \in {None, here.a.config} THEN here ELSE Reconfigured(here, config)
           open == EnsureVideoStream(new)
           seq == open.a.vseq + 1
           pushed == [open EXCEPT !.a.vseq = seq, !.store = PushVideoFrame(open.store, seq)]
<1>1. Follows(w, here)
  BY SessionFollows
<1>2. Follows(here, new)
  BY <1>1, ReconfiguredFollows DEF Follows, Kept, SameBlocks
<1> HIDE DEF here, new
<1>3. Follows(new, open)
  BY <1>2, EnsureVideoFollows DEF Follows
<1>4. Follows(w, open)
  BY <1>1, <1>2, <1>3, Chain
<1> HIDE DEF open
<1>5. open.a.vopen => Follows(open, pushed)
  BY <1>4, FrameFollows DEF Follows
<1>6. open.a.vopen => Follows(w, pushed)
  BY <1>4, <1>5, Chain
<1>7. OnVideoAnnexB(w, config) = IF ~open.a.vopen THEN open ELSE pushed
  BY DEF OnVideoAnnexB, open, new, here
<1> QED
  BY <1>4, <1>6, <1>7
-----------------------------------------------------------------------------
\* Audio

\* v is w but for the audio streams.
AudioOnly(w, v) ==
  /\ DOMAIN v = DOMAIN w /\ DOMAIN v.a = DOMAIN w.a /\ DOMAIN v.store = DOMAIN w.store
  /\ v.a.connected = w.a.connected /\ v.a.sid = w.a.sid /\ v.a.epoch = w.a.epoch
  /\ v.a.config = w.a.config /\ v.a.vopen = w.a.vopen /\ v.a.vseq = w.a.vseq
  /\ v.a.link = w.a.link /\ v.a.nav = w.a.nav /\ v.a.file = w.a.file
  /\ v.store.sid = w.store.sid /\ v.store.refused = w.store.refused
  /\ v.store.video = w.store.video
  /\ v.core = w.core

LEMMA AudioKeeps ==
  ASSUME NEW w, NEW v, Typed(w), Agree(w), AudioOnly(w, v),
         v.a.aopen \subseteq Stream, v.a.aseq \in [Stream -> Nat],
         v.store.audio \in [Stream -> Sequence], AudioAgrees(v)
  PROVE  Follows(w, v)
<1>1. Adapter(v.a)
  BY DEF Typed, Adapter, AudioOnly
<1>2. Store(v.store)
  BY DEF Typed, Store, AudioOnly
<1>3. Typed(v)
  BY <1>1, <1>2 DEF Typed, AudioOnly
<1>4. Agree(v)
  BY DEF Agree, VideoAgrees, AudioOnly
<1> QED
  BY <1>3, <1>4 DEF Follows, Kept, SameBlocks, AudioOnly

LEMMA AudioStarts ==
  ASSUME NEW w, Typed(w), Agree(w), NEW i \in Stream, w.a.sid # 0
  PROVE  Follows(w, [w EXCEPT !.a.aopen = @ \cup {i}, !.a.aseq[i] = 0, !.store = StartAudio(w.store, i)])
<1> DEFINE v == [w EXCEPT !.a.aopen = @ \cup {i}, !.a.aseq[i] = 0, !.store = StartAudio(w.store, i)]
<1>1. /\ DOMAIN v = {"a", "store", "core"} /\ v.core = w.core
      /\ v.a = [w.a EXCEPT !.aopen = @ \cup {i}, !.aseq[i] = 0]
  BY DEF Typed
<1>2. v.store = [w.store EXCEPT !.audio[i] = 0]
  BY DEF Typed, StartAudio
<1> HIDE DEF v
<1>3. /\ DOMAIN w.a = Member /\ DOMAIN w = {"a", "store", "core"}
      /\ DOMAIN w.store = {"sid", "hello", "video", "audio", "gain", "refused"}
  BY DEF Typed, Adapter, Store
<1>4. v.store.audio = [w.store.audio EXCEPT ![i] = 0]
  BY <1>2, <1>3
<1>5. v.a.aopen = w.a.aopen \cup {i} /\ v.a.aseq = [w.a.aseq EXCEPT ![i] = 0]
  BY <1>1, <1>3 DEF Member
<1>6. AudioOnly(w, v)
  BY <1>1, <1>2, <1>3 DEF AudioOnly, Member
<1>7. v.a.aopen \subseteq Stream /\ v.a.aseq \in [Stream -> Nat] /\ v.store.audio \in [Stream -> Sequence]
  BY <1>4, <1>5 DEF Typed, Adapter, Store, Sequence
<1>8. AudioAgrees(v)
  BY <1>4, <1>5, <1>6, NoneAssumption DEF Agree, AudioAgrees, AudioOnly, Typed, Adapter, Store
<1> QED
  BY <1>6, <1>7, <1>8, AudioKeeps DEF v

LEMMA AudioEnds ==
  ASSUME NEW w, Typed(w), Agree(w), NEW i \in Stream
  PROVE  Follows(w, [w EXCEPT !.a.aopen = @ \ {i}, !.a.aseq[i] = 0, !.store = EndAudio(w.store, i)])
<1> DEFINE v == [w EXCEPT !.a.aopen = @ \ {i}, !.a.aseq[i] = 0, !.store = EndAudio(w.store, i)]
<1>1. /\ DOMAIN v = {"a", "store", "core"} /\ v.core = w.core
      /\ v.a = [w.a EXCEPT !.aopen = @ \ {i}, !.aseq[i] = 0]
  BY DEF Typed
<1>2. v.store = [w.store EXCEPT !.audio[i] = None]
  BY DEF Typed, EndAudio
<1> HIDE DEF v
<1>3. /\ DOMAIN w.a = Member /\ DOMAIN w = {"a", "store", "core"}
      /\ DOMAIN w.store = {"sid", "hello", "video", "audio", "gain", "refused"}
  BY DEF Typed, Adapter, Store
<1>4. v.store.audio = [w.store.audio EXCEPT ![i] = None]
  BY <1>2, <1>3
<1>5. v.a.aopen = w.a.aopen \ {i} /\ v.a.aseq = [w.a.aseq EXCEPT ![i] = 0]
  BY <1>1, <1>3 DEF Member
<1>6. AudioOnly(w, v)
  BY <1>1, <1>2, <1>3 DEF AudioOnly, Member
<1>7. v.a.aopen \subseteq Stream /\ v.a.aseq \in [Stream -> Nat] /\ v.store.audio \in [Stream -> Sequence]
  BY <1>4, <1>5 DEF Typed, Adapter, Store, Sequence
<1>8. AudioAgrees(v)
  BY <1>4, <1>5, <1>6 DEF Agree, AudioAgrees, AudioOnly, Typed, Adapter, Store
<1> QED
  BY <1>6, <1>7, <1>8, AudioKeeps DEF v

\* Samples are never refused: the stream is open on both sides and the number new.
LEMMA PcmFollows ==
  ASSUME NEW w, Typed(w), Agree(w), NEW i \in Stream, NEW whole \in BOOLEAN
  PROVE  Follows(w, OnAudioPcm(w, i, whole))
<1> DEFINE seq == w.a.aseq[i] + 1
           v == [w EXCEPT !.a.aseq[i] = seq, !.store = PushAudio(w.store, i, seq, whole)]
<1>1. CASE i \notin w.a.aopen
  <2>1. OnAudioPcm(w, i, whole) = w
    BY <1>1 DEF OnAudioPcm
  <2> QED
    BY <2>1 DEF Follows, Kept, SameBlocks
<1>2. CASE i \in w.a.aopen
  <2>1. OnAudioPcm(w, i, whole) = v
    BY <1>2 DEF OnAudioPcm
  <2>2. /\ w.store.sid # 0 /\ w.store.audio[i] # None /\ w.store.audio[i] \in Nat
        /\ w.store.audio[i] <= w.a.aseq[i] /\ w.a.aseq[i] \in Nat
    BY <1>2 DEF Agree, AudioAgrees, Typed, Adapter, Store, Sequence
  <2>3. seq \in Nat /\ seq > w.store.audio[i] /\ w.store.audio[i] <= seq
    BY <2>2
  <2> HIDE DEF seq
  <2>4. /\ DOMAIN v = {"a", "store", "core"} /\ v.core = w.core
        /\ v.a = [w.a EXCEPT !.aseq[i] = seq]
    BY DEF Typed
  <2>5. v.store = IF whole THEN [w.store EXCEPT !.audio[i] = seq] ELSE w.store
    BY <2>2, <2>3 DEF Typed, PushAudio
  <2> HIDE DEF v
  <2>6. /\ DOMAIN w.a = Member /\ DOMAIN w = {"a", "store", "core"}
        /\ DOMAIN w.store = {"sid", "hello", "video", "audio", "gain", "refused"}
    BY DEF Typed, Adapter, Store
  <2>7. v.a.aopen = w.a.aopen /\ v.a.aseq = [w.a.aseq EXCEPT ![i] = seq]
    BY <2>4, <2>6 DEF Member
  <2>8. AudioOnly(w, v) /\ v.store.audio \in {w.store.audio, [w.store.audio EXCEPT ![i] = seq]}
    <3>1. CASE whole
      <4>1. v.store = [w.store EXCEPT !.audio[i] = seq]
        BY <3>1, <2>5
      <4> QED
        BY <4>1, <2>4, <2>6 DEF AudioOnly, Member
    <3>2. CASE ~whole
      <4>1. v.store = w.store
        BY <3>2, <2>5
      <4> QED
        BY <4>1, <2>4, <2>6 DEF AudioOnly, Member
    <3> QED
      BY <3>1, <3>2
  <2>9. v.a.aopen \subseteq Stream /\ v.a.aseq \in [Stream -> Nat] /\ v.store.audio \in [Stream -> Sequence]
    BY <2>3, <2>7, <2>8 DEF Typed, Adapter, Store, Sequence
  <2>10. AudioAgrees(v)
    BY <1>2, <2>2, <2>3, <2>7, <2>8, NoneAssumption DEF Agree, AudioAgrees, AudioOnly, Typed, Adapter, Store
  <2> QED
    BY <2>1, <2>8, <2>9, <2>10, AudioKeeps
<1> QED
  BY <1>1, <1>2
\* What is done to the sound of other sources, and what is shown of it.
LEMMA SoundFollows ==
  ASSUME NEW w, Typed(w), Agree(w), NEW on \in BOOLEAN, NEW audio
  PROVE  /\ Follows(w, Duck(w, on))
         /\ Follows(w, ShowAudio(w))
         /\ Follows(w, [w EXCEPT !.a.audio = audio])
<1>1. /\ DOMAIN w.a = Member /\ DOMAIN w = {"a", "store", "core"}
      /\ DOMAIN w.store = {"sid", "hello", "video", "audio", "gain", "refused"}
      /\ DOMAIN w.core = {"sink", "on", "ducking", "audio", "link", "nav", "call", "fps", "told"}
  BY DEF Typed, Adapter, Store, Shown
<1>2. Quiet(w, Duck(w, on)) /\ SameBlocks(w, Duck(w, on))
  BY <1>1 DEF Quiet, SameBlocks, Duck, Member
<1>3. Quiet(w, ShowAudio(w)) /\ SameBlocks(w, ShowAudio(w))
  BY <1>1 DEF Quiet, SameBlocks, ShowAudio
<1>4. Quiet(w, [w EXCEPT !.a.audio = audio]) /\ SameBlocks(w, [w EXCEPT !.a.audio = audio])
  BY <1>1 DEF Quiet, SameBlocks, Member
<1> QED
  BY <1>2, <1>3, <1>4, QuietKeeps DEF Follows

LEMMA AudioInitFollows ==
  ASSUME NEW w, Typed(w), Agree(w), NEW i \in Stream, NEW rate
  PROVE  Follows(w, OnAudioInit(w, i, rate))
<1> DEFINE ducked == IF i = TTS THEN ShowAudio(Duck(w, TRUE)) ELSE w
           format == [ducked EXCEPT !.a.audio.others = w.a.aopen, !.a.audio.format = i]
           here == EnsureSession(ShowAudio(format))
           started == [here EXCEPT !.a.aopen = @ \cup {i}, !.a.aseq[i] = 0, !.store = StartAudio(here.store, i)]
<1>1. Follows(w, ducked)
  <2>1. Follows(w, w)
    BY DEF Follows, Kept, SameBlocks
  <2>2. Follows(w, Duck(w, TRUE))
    BY SoundFollows
  <2>3. Follows(Duck(w, TRUE), ShowAudio(Duck(w, TRUE)))
    BY <2>2, SoundFollows DEF Follows
  <2> QED
    BY <2>1, <2>2, <2>3, Chain
<1>2. Follows(w, format)
  <2>1. \A audio : Follows(ducked, [ducked EXCEPT !.a.audio = audio])
    BY <1>1, SoundFollows DEF Follows
  <2>2. format = [ducked EXCEPT !.a.audio = [ducked.a.audio EXCEPT !.others = w.a.aopen, !.format = i]]
    <3>1. DOMAIN ducked = {"a", "store", "core"} /\ DOMAIN ducked.a = Member
      BY <1>1 DEF Follows, Typed, Adapter
    <3> HIDE DEF ducked
    <3> QED
      BY <3>1 DEF Member
  <2> HIDE DEF format, ducked
  <2>3. Follows(ducked, format)
    BY <2>1, <2>2
  <2> QED
    BY <1>1, <2>3, Chain
<1> HIDE DEF ducked, format
<1>3. Follows(w, ShowAudio(format))
  <2>1. Follows(format, ShowAudio(format))
    BY <1>2, SoundFollows DEF Follows
  <2> QED
    BY <1>2, <2>1, Chain
<1>4. Follows(w, here) /\ here.a.sid # 0
  <2>1. Follows(ShowAudio(format), here) /\ here.a.sid # 0
    BY <1>3, SessionFollows DEF Follows
  <2> QED
    BY <1>3, <2>1, Chain
<1>5. Follows(w, started)
  <2> HIDE DEF here
  <2>1. Follows(here, started)
    BY <1>4, AudioStarts DEF Follows
  <2> QED
    BY <1>4, <2>1, Chain
<1>6. OnAudioInit(w, i, rate) \in {ducked, started, here}
  BY DEF OnAudioInit, ducked, format
<1> QED
  BY <1>1, <1>4, <1>5, <1>6

LEMMA AudioEndFollows ==
  ASSUME NEW w, Typed(w), Agree(w), NEW i \in Stream
  PROVE  Follows(w, OnAudioEnd(w, i))
<1> DEFINE up == IF i = TTS THEN ShowAudio(Duck(w, FALSE)) ELSE w
<1>1. Follows(w, up)
  <2>1. Follows(w, w)
    BY DEF Follows, Kept, SameBlocks
  <2>2. Follows(w, Duck(w, FALSE))
    BY SoundFollows
  <2>3. Follows(Duck(w, FALSE), ShowAudio(Duck(w, FALSE)))
    BY <2>2, SoundFollows DEF Follows
  <2> QED
    BY <2>1, <2>2, <2>3, Chain
<1> DEFINE ended == [up EXCEPT !.a.aopen = @ \ {i}, !.a.aseq[i] = 0, !.store = EndAudio(up.store, i)]
<1>2. OnAudioEnd(w, i) \in {up, ended}
  BY DEF OnAudioEnd
<1> HIDE DEF up
<1>3. Follows(w, ended)
  <2>1. Follows(up, ended)
    BY <1>1, AudioEnds DEF Follows
  <2> QED
    BY <1>1, <2>1, Chain
<1> QED
  BY <1>1, <1>2, <1>3
-----------------------------------------------------------------------------
\* The information blocks

NoFile == [active |-> FALSE, bytes |-> 0, total |-> 0, ota |-> "none"]
FileMember == {"active", "bytes", "total", "ota"}

\* The Core has what the adapter has, and this is what the phone said last.
Merged(w) ==
  /\ w.core.link = w.a.link /\ w.core.nav = w.a.nav /\ w.core.told.file = w.a.file
  /\ DOMAIN w.a.link = {"activation", "encryption", "active", "bytes", "total", "ota"}
  /\ DOMAIN w.a.nav = {"valid", "code", "ahead", "remaining", "seconds"}
  /\ DOMAIN w.a.file = FileMember
  /\ DOMAIN w.core.told = {"link", "file", "nav"}
  /\ DOMAIN w.core.told.link = {"activation", "encryption"}
  /\ DOMAIN w.core.told.nav = {"code", "ahead", "remaining", "seconds"}
  /\ w.a.link.activation = w.core.told.link.activation
  /\ w.a.link.encryption = w.core.told.link.encryption
  /\ w.a.file # NoFile => \A f \in FileMember : w.a.link[f] = w.a.file[f]
  /\ \A f \in {"code", "ahead", "remaining", "seconds"} : w.a.nav[f] = w.core.told.nav[f]

LEMMA MergedKept ==
  ASSUME NEW w, NEW v, Merged(w), SameBlocks(w, v) PROVE Merged(v)
  BY DEF Merged, SameBlocks

LEMMA ActivationKeeps ==
  ASSUME NEW w, Typed(w), Agree(w), Merged(w), NEW yes
  PROVE  LET v == OnActivationRequest(w, yes) IN Quiet(w, v) /\ Merged(v)
<1> DEFINE n == IF yes THEN 3 ELSE 0
           ls == [w.a.link EXCEPT !.activation = n]
           v == OnActivationRequest(w, yes)
<1>1. /\ DOMAIN w.a = Member /\ DOMAIN w = {"a", "store", "core"}
      /\ DOMAIN w.core = {"sink", "on", "ducking", "audio", "link", "nav", "call", "fps", "told"}
  BY DEF Typed, Adapter, Shown
<1>2. v = [w EXCEPT !.core.told.link.activation = n, !.a.link = ls, !.core.link = ls]
  BY <1>1 DEF OnActivationRequest, SetLink, Tell
<1> HIDE DEF n, ls, v
<1>3. /\ DOMAIN v = {"a", "store", "core"} /\ v.store = w.store
      /\ v.a = [w.a EXCEPT !.link = ls]
      /\ v.core = [w.core EXCEPT !.told.link.activation = n, !.link = ls]
  BY <1>1, <1>2
<1>4. Quiet(w, v)
  BY <1>1, <1>3 DEF Quiet, Member
<1>5. /\ v.a.link = ls /\ v.core.link = ls /\ v.a.nav = w.a.nav /\ v.core.nav = w.core.nav
      /\ v.a.file = w.a.file /\ v.core.told = [w.core.told EXCEPT !.link.activation = n]
  BY <1>1, <1>3 DEF Member
<1>6. Merged(v)
  BY <1>5, SMTT(30) DEF Merged, FileMember, ls
<1> QED
  BY <1>4, <1>6 DEF v

LEMMA EncryptionKeeps ==
  ASSUME NEW w, Typed(w), Agree(w), Merged(w), NEW state
  PROVE  LET v == OnEncryption(w, state) IN Quiet(w, v) /\ Merged(v)
<1> DEFINE n == CASE state = "Off" -> 0 [] state = "Ready" -> 2 [] OTHER -> 1
           ls == [w.a.link EXCEPT !.encryption = n]
           v == OnEncryption(w, state)
<1>1. /\ DOMAIN w.a = Member /\ DOMAIN w = {"a", "store", "core"}
      /\ DOMAIN w.core = {"sink", "on", "ducking", "audio", "link", "nav", "call", "fps", "told"}
  BY DEF Typed, Adapter, Shown
<1>2. v = SetLink(Tell(w, "link", "encryption", n), ls)
  BY Zenon DEF OnEncryption
<1> HIDE DEF n, ls, v
<1>3. /\ DOMAIN v = {"a", "store", "core"} /\ v.store = w.store
      /\ v.a = [w.a EXCEPT !.link = ls]
      /\ v.core = [w.core EXCEPT !.told.link.encryption = n, !.link = ls]
  BY <1>1, <1>2 DEF SetLink, Tell
<1>4. Quiet(w, v)
  BY <1>1, <1>3 DEF Quiet, Member
<1>5. /\ v.a.link = ls /\ v.core.link = ls /\ v.a.nav = w.a.nav /\ v.core.nav = w.core.nav
      /\ v.a.file = w.a.file /\ v.core.told = [w.core.told EXCEPT !.link.encryption = n]
  BY <1>1, <1>3 DEF Member
<1>6. Merged(v)
  BY <1>5 DEF Merged, FileMember, ls
<1> QED
  BY <1>4, <1>6 DEF v

LEMMA FileKeeps ==
  ASSUME NEW w, Typed(w), Agree(w), Merged(w),
         NEW svc \in {"START", "DATA", "FINISH", "STOP", "UPDATE_START", "UPDATE_END"}
  PROVE  LET v == OnFileTransfer(w, svc) IN Quiet(w, v) /\ Merged(v)
<1> DEFINE file == FileStep(w.a.file, svc)
           ls == [w.a.link EXCEPT !.active = file.active, !.bytes = file.bytes,
                                  !.total = file.total, !.ota = file.ota]
           v == OnFileTransfer(w, svc)
<1>1. /\ DOMAIN w.a = Member /\ DOMAIN w = {"a", "store", "core"}
      /\ DOMAIN w.core = {"sink", "on", "ducking", "audio", "link", "nav", "call", "fps", "told"}
  BY DEF Typed, Adapter, Shown
<1>2. DOMAIN file = FileMember
  BY DEF Merged, FileStep, FileMember
<1>3. v = SetLink([w EXCEPT !.a.file = file, !.core.told.file = file], ls)
  BY Zenon DEF OnFileTransfer
<1> HIDE DEF file, ls, v
<1>4. /\ DOMAIN v = {"a", "store", "core"} /\ v.store = w.store
      /\ v.a = [w.a EXCEPT !.file = file, !.link = ls]
      /\ v.core = [w.core EXCEPT !.told.file = file, !.link = ls]
  BY <1>1, <1>3 DEF SetLink
<1>5. Quiet(w, v)
  BY <1>1, <1>4 DEF Quiet, Member
<1>6. /\ v.a.link = ls /\ v.core.link = ls /\ v.a.nav = w.a.nav /\ v.core.nav = w.core.nav
      /\ v.a.file = file /\ v.core.told = [w.core.told EXCEPT !.file = file]
  BY <1>1, <1>4 DEF Member
<1>7. /\ DOMAIN ls = DOMAIN w.a.link
      /\ ls.activation = w.a.link.activation /\ ls.encryption = w.a.link.encryption
      /\ \A f \in FileMember : ls[f] = file[f]
  BY DEF Merged, FileMember, ls
<1>8. Merged(v)
  BY <1>2, <1>6, <1>7 DEF Merged
<1> QED
  BY <1>5, <1>8 DEF v
\* v is w with a new route, told alike.
NewRoute(w, v, nav, told) ==
  /\ DOMAIN v = {"a", "store", "core"} /\ v.store = w.store
  /\ v.a = [w.a EXCEPT !.nav = nav]
  /\ v.core = [w.core EXCEPT !.told.nav = told, !.nav = nav]

LEMMA RouteKeeps ==
  ASSUME NEW w, NEW v, NEW nav, NEW told, Typed(w), Agree(w), Merged(w), NewRoute(w, v, nav, told),
         DOMAIN nav = DOMAIN w.a.nav, DOMAIN told = DOMAIN w.core.told.nav,
         \A f \in {"code", "ahead", "remaining", "seconds"} : nav[f] = told[f]
  PROVE  Quiet(w, v) /\ Merged(v)
<1>1. /\ DOMAIN w.a = Member /\ DOMAIN w = {"a", "store", "core"}
      /\ DOMAIN w.core = {"sink", "on", "ducking", "audio", "link", "nav", "call", "fps", "told"}
  BY DEF Typed, Adapter, Shown
<1>2. Quiet(w, v)
  BY <1>1 DEF Quiet, NewRoute, Member
<1>3. /\ v.a.link = w.a.link /\ v.core.link = w.core.link /\ v.a.nav = nav /\ v.core.nav = nav
      /\ v.a.file = w.a.file /\ v.core.told = [w.core.told EXCEPT !.nav = told]
  BY <1>1 DEF NewRoute, Member
<1>4. Merged(v)
  BY <1>3 DEF Merged
<1> QED
  BY <1>2, <1>4

LEMMA NextTurnKeeps ==
  ASSUME NEW w, Typed(w), Agree(w), Merged(w),
         NEW code, NEW ahead, NEW remaining, NEW seconds \in Nat
  PROVE  LET v == OnNaviNextTurn(w, code, ahead, remaining, seconds) IN Quiet(w, v) /\ Merged(v)
<1> DEFINE v == OnNaviNextTurn(w, code, ahead, remaining, seconds)
           told == [code |-> code, ahead |-> ahead, remaining |-> remaining,
                    seconds |-> IF seconds > 0 THEN seconds ELSE w.core.told.nav.seconds]
           turn == [w.a.nav EXCEPT !.valid = TRUE, !.code = code, !.ahead = ahead, !.remaining = remaining]
           nav == IF seconds > 0 THEN [turn EXCEPT !.seconds = seconds] ELSE turn
<1>1. /\ DOMAIN w.a = Member /\ DOMAIN w = {"a", "store", "core"}
      /\ DOMAIN w.core = {"sink", "on", "ducking", "audio", "link", "nav", "call", "fps", "told"}
  BY DEF Typed, Adapter, Shown
<1>2. DOMAIN w.a.nav = {"valid", "code", "ahead", "remaining", "seconds"}
  BY DEF Merged
<1>3. /\ DOMAIN w.core.told.nav = {"code", "ahead", "remaining", "seconds"}
      /\ DOMAIN w.core.told = {"link", "file", "nav"}
      /\ w.a.nav.seconds = w.core.told.nav.seconds
  BY DEF Merged
<1>4. DOMAIN turn = DOMAIN w.a.nav /\ turn.seconds = w.a.nav.seconds
      /\ turn.code = code /\ turn.ahead = ahead /\ turn.remaining = remaining
  BY <1>2
<1> HIDE DEF turn
<1>5. /\ DOMAIN nav = DOMAIN w.a.nav
      /\ nav.code = code /\ nav.ahead = ahead /\ nav.remaining = remaining
      /\ nav.seconds = IF seconds > 0 THEN seconds ELSE w.a.nav.seconds
  <2>1. CASE seconds > 0
    <3>1. nav = [turn EXCEPT !.seconds = seconds]
      BY <2>1
    <3> QED
      BY <1>2, <1>4, <2>1, <3>1
  <2>2. CASE ~(seconds > 0)
    BY <1>2, <1>4, <2>2
  <2> QED
    BY <2>1, <2>2
<1>6. DOMAIN told = DOMAIN w.core.told.nav
  BY <1>3
<1>7. \A f \in {"code", "ahead", "remaining", "seconds"} : nav[f] = told[f]
  <2> HIDE DEF nav
  <2>1. /\ told.code = code /\ told.ahead = ahead /\ told.remaining = remaining
        /\ told.seconds = IF seconds > 0 THEN seconds ELSE w.core.told.nav.seconds
    OBVIOUS
  <2> HIDE DEF told
  <2> QED
    BY <1>3, <1>5, <2>1
<1>8. v = SetNav([w EXCEPT !.core.told.nav = told], nav)
  BY Zenon DEF OnNaviNextTurn, turn
<1> HIDE DEF v, nav, told
<1>9. NewRoute(w, v, nav, told)
  BY <1>1, <1>8 DEF SetNav, NewRoute
<1> QED
  BY <1>5, <1>6, <1>7, <1>9, RouteKeeps DEF v

LEMMA GuideKeeps ==
  ASSUME NEW w, Typed(w), Agree(w), Merged(w), NEW ahead, NEW remaining
  PROVE  LET v == OnNaviAssistantGuide(w, ahead, remaining) IN Quiet(w, v) /\ Merged(v)
<1> DEFINE v == OnNaviAssistantGuide(w, ahead, remaining)
           Given(n, old) == IF n > 0 THEN n ELSE old
           told == [w.core.told.nav EXCEPT !.ahead = Given(ahead, @), !.remaining = Given(remaining, @)]
           nav == [w.a.nav EXCEPT !.valid = TRUE, !.ahead = Given(ahead, @), !.remaining = Given(remaining, @)]
<1>1. /\ DOMAIN w.a = Member /\ DOMAIN w = {"a", "store", "core"}
      /\ DOMAIN w.core = {"sink", "on", "ducking", "audio", "link", "nav", "call", "fps", "told"}
  BY DEF Typed, Adapter, Shown
<1>2. /\ DOMAIN w.a.nav = {"valid", "code", "ahead", "remaining", "seconds"}
      /\ DOMAIN w.core.told.nav = {"code", "ahead", "remaining", "seconds"}
      /\ DOMAIN w.core.told = {"link", "file", "nav"}
      /\ \A f \in {"code", "ahead", "remaining", "seconds"} : w.a.nav[f] = w.core.told.nav[f]
  BY DEF Merged
<1>3. DOMAIN nav = DOMAIN w.a.nav /\ DOMAIN told = DOMAIN w.core.told.nav
  OBVIOUS
<1>4. \A f \in {"code", "ahead", "remaining", "seconds"} : nav[f] = told[f]
  BY <1>2
<1>5. v = SetNav([w EXCEPT !.core.told.nav = told], nav)
  BY DEF OnNaviAssistantGuide
<1> HIDE DEF v, nav, told
<1>6. NewRoute(w, v, nav, told)
  BY <1>1, <1>5 DEF SetNav, NewRoute
<1> QED
  BY <1>3, <1>4, <1>6, RouteKeeps DEF v

LEMMA CallKeeps ==
  ASSUME NEW w, Typed(w), Agree(w), Merged(w), NEW call, NEW fps
  PROVE  /\ Follows(w, [w EXCEPT !.core.call = call])
         /\ Follows(w, [w EXCEPT !.core.fps = fps])
<1>1. /\ DOMAIN w = {"a", "store", "core"}
      /\ DOMAIN w.core = {"sink", "on", "ducking", "audio", "link", "nav", "call", "fps", "told"}
  BY DEF Typed, Shown
<1>2. Quiet(w, [w EXCEPT !.core.call = call]) /\ SameBlocks(w, [w EXCEPT !.core.call = call])
  BY <1>1 DEF Quiet, SameBlocks
<1>3. Quiet(w, [w EXCEPT !.core.fps = fps]) /\ SameBlocks(w, [w EXCEPT !.core.fps = fps])
  BY <1>1 DEF Quiet, SameBlocks
<1> QED
  BY <1>2, <1>3, QuietKeeps DEF Follows

-----------------------------------------------------------------------------
\* Every callback keeps what worlds have.

Good(w) == Typed(w) /\ Agree(w) /\ Merged(w)

LEMMA CalledKeeps ==
  ASSUME NEW w, Good(w), NEW call, Callable(call)
  PROVE  Good(Called(w, call)) /\ Kept(w, Called(w, call))
<1> DEFINE v == Called(w, call)
<1> USE DEF Good
<1>1. SUFFICES Follows(w, v) \/ (Quiet(w, v) /\ Merged(v))
  BY QuietKeeps, MergedKept DEF Follows
<1> HIDE DEF v
<1>2. CASE call.on = "Video"
  <2>1. v = OnVideoAnnexB(w, call.config)
    BY <1>2 DEF Called, v
  <2> QED
    BY <2>1, VideoFollows
<1>3. CASE call.on = "AudioInit"
  <2>1. v = OnAudioInit(w, call.stream, call.rate)
    BY <1>3 DEF Called, v
  <2>2. call.stream \in Stream
    BY <1>3 DEF Callable
  <2> QED
    BY <2>1, <2>2, AudioInitFollows
<1>4. CASE call.on = "AudioPcm"
  <2>1. v = OnAudioPcm(w, call.stream, call.whole)
    BY <1>4 DEF Called, v
  <2>2. call.stream \in Stream /\ call.whole \in BOOLEAN
    BY <1>4 DEF Callable
  <2> QED
    BY <2>1, <2>2, PcmFollows
<1>5. CASE call.on = "AudioEnd"
  <2>1. v = OnAudioEnd(w, call.stream)
    BY <1>5 DEF Called, v
  <2>2. call.stream \in Stream
    BY <1>5 DEF Callable
  <2> QED
    BY <2>1, <2>2, AudioEndFollows
<1>6. CASE call.on = "Activation"
  <2>1. v = OnActivationRequest(w, call.yes)
    BY <1>6 DEF Called, v
  <2> QED
    BY <2>1, ActivationKeeps
<1>7. CASE call.on = "Encryption"
  <2>1. v = OnEncryption(w, call.state)
    BY <1>7 DEF Called, v
  <2> QED
    BY <2>1, EncryptionKeeps
<1>8. CASE call.on = "File"
  <2>1. v = OnFileTransfer(w, call.svc)
    BY <1>8 DEF Called, v
  <2>2. call.svc \in {"START", "DATA", "FINISH", "STOP", "UPDATE_START", "UPDATE_END"}
    BY <1>8 DEF Callable
  <2> QED
    BY <2>1, <2>2, FileKeeps
<1>9. CASE call.on = "NextTurn"
  <2>1. v = OnNaviNextTurn(w, call.code, call.ahead, call.remaining, call.seconds)
    BY <1>9 DEF Called, v
  <2>2. call.seconds \in Nat
    BY <1>9 DEF Callable
  <2> QED
    BY <2>1, <2>2, NextTurnKeeps
<1>10. CASE call.on = "Guide"
  <2>1. v = OnNaviAssistantGuide(w, call.ahead, call.remaining)
    BY <1>10 DEF Called, v
  <2> QED
    BY <2>1, GuideKeeps
<1>11. CASE call.on = "Telephony"
  <2>1. v = OnTelephony(w, call.state, call.number, call.name)
    BY <1>11 DEF Called, v
  <2> QED
    BY <2>1, CallKeeps DEF OnTelephony
<1>12. CASE call.on = "VideoControl"
  <2>1. v = OnVideoControl(w, call.rate)
    BY <1>12 DEF Called, v
  <2>2. Follows(w, w)
    BY DEF Follows, Kept, SameBlocks
  <2> QED
    BY <2>1, <2>2, CallKeeps DEF OnVideoControl
<1> QED
  BY <1>2, <1>3, <1>4, <1>5, <1>6, <1>7, <1>8, <1>9, <1>10, <1>11, <1>12 DEF Callable
LEMMA StateKeeps ==
  ASSUME NEW w, Good(w), NEW on \in BOOLEAN
  PROVE  LET v == OnState(w, on)
         IN  Good(v) /\ v.a.connected = on /\ v.core.on = on /\ v.a.sid = w.a.sid
<1> DEFINE v == OnState(w, on)
<1>1. /\ DOMAIN w.a = Member /\ DOMAIN w = {"a", "store", "core"}
      /\ DOMAIN w.core = {"sink", "on", "ducking", "audio", "link", "nav", "call", "fps", "told"}
  BY DEF Good, Typed, Adapter, Shown
<1>2. /\ DOMAIN v = {"a", "store", "core"} /\ v.store = w.store
      /\ v.a = [w.a EXCEPT !.connected = on] /\ v.core = [w.core EXCEPT !.on = on]
  BY <1>1 DEF OnState
<1> HIDE DEF v
<1>3. /\ DOMAIN v.a = DOMAIN w.a /\ v.a.connected = on
      /\ v.a.sid = w.a.sid /\ v.a.epoch = w.a.epoch /\ v.a.vopen = w.a.vopen /\ v.a.vseq = w.a.vseq
      /\ v.a.config = w.a.config /\ v.a.aopen = w.a.aopen /\ v.a.aseq = w.a.aseq
      /\ v.a.link = w.a.link /\ v.a.nav = w.a.nav /\ v.a.file = w.a.file
  BY <1>1, <1>2 DEF Member
<1>4. /\ DOMAIN v.core = DOMAIN w.core /\ v.core.on = on
      /\ v.core.link = w.core.link /\ v.core.nav = w.core.nav /\ v.core.told = w.core.told
  BY <1>1, <1>2
<1>5. Adapter(v.a)
  BY <1>3 DEF Good, Typed, Adapter
<1>6. Typed(v)
  BY <1>2, <1>4, <1>5 DEF Good, Typed, Shown
<1>7. Agree(v)
  BY <1>2, <1>3 DEF Good, Agree, VideoAgrees, AudioAgrees
<1>8. Merged(v)
  BY <1>3, <1>4, MergedKept DEF Good, SameBlocks
<1> QED
  BY <1>3, <1>4, <1>6, <1>7, <1>8 DEF Good, v

\* A session ends on both sides, and takes all its streams with it.
LEMMA LeaveKeeps ==
  ASSUME NEW w, Good(w)
  PROVE  LET v == LeaveSession(w)
         IN  Good(v) /\ v.a.sid = 0 /\ v.a.connected = w.a.connected /\ v.core = w.core
<1> DEFINE v == LeaveSession(w)
           ended == IF w.a.sid = 0 THEN w.store ELSE EndSession(w.store, w.a.sid)
<1>1. /\ DOMAIN w.a = Member /\ DOMAIN w = {"a", "store", "core"}
      /\ DOMAIN w.store = {"sid", "hello", "video", "audio", "gain", "refused"}
  BY DEF Good, Typed, Adapter, Store
<1>2. /\ DOMAIN v = {"a", "store", "core"} /\ v.core = w.core
      /\ v.a = [NoStreams(w.a) EXCEPT !.sid = 0] /\ v.store = [ended EXCEPT !.hello = FALSE]
  BY <1>1 DEF LeaveSession, TransportClosed
<1>3. /\ DOMAIN ended = DOMAIN w.store /\ ended.sid = 0 /\ ended.refused = w.store.refused
      /\ ended.audio = [i \in Stream |-> None]
      /\ DOMAIN ended.video = {"started", "config", "last"}
      /\ ended.video.started \in BOOLEAN /\ ~ended.video.started /\ ended.video.last = 0
  <2>1. CASE w.a.sid = 0
    <3>1. ended = w.store
      BY <2>1
    <3>2. w.store.sid = 0 /\ ~w.store.video.started /\ w.store.video.last = 0
      BY <2>1 DEF Good, Agree, VideoAgrees
    <3>3. \A i \in Stream : w.store.audio[i] = None
      BY <2>1 DEF Good, Agree, AudioAgrees
    <3>4. w.store.audio = [i \in Stream |-> None]
      BY <3>3 DEF Good, Typed, Store
    <3>5. DOMAIN w.store.video = {"started", "config", "last"} /\ w.store.video.started \in BOOLEAN
      BY DEF Good, Typed, Store
    <3> HIDE DEF ended
    <3> QED
      BY <3>1, <3>2, <3>4, <3>5
  <2>2. CASE w.a.sid # 0
    <3>1. ended = [EmptyStore EXCEPT !.hello = TRUE, !.refused = w.store.refused]
      BY <2>2 DEF EndSession, Good, Agree
    <3> HIDE DEF ended
    <3>2. /\ ended.sid = 0 /\ ended.refused = w.store.refused
          /\ ended.audio = [i \in Stream |-> None] /\ ended.video = NoVideo
          /\ DOMAIN ended = {"sid", "hello", "video", "audio", "gain", "refused"}
      BY <3>1 DEF EmptyStore
    <3>3. /\ DOMAIN ended.video = {"started", "config", "last"}
          /\ ended.video.started \in BOOLEAN /\ ~ended.video.started /\ ended.video.last = 0
      BY <3>2 DEF NoVideo
    <3> QED
      BY <1>1, <3>2, <3>3
  <2> QED
    BY <2>1, <2>2
<1> HIDE DEF v, ended
<1>4. /\ DOMAIN v.a = DOMAIN w.a /\ v.a.connected = w.a.connected
      /\ v.a.sid = 0 /\ v.a.epoch = w.a.epoch /\ v.a.vopen \in BOOLEAN /\ ~v.a.vopen /\ v.a.vseq = 0
      /\ v.a.aopen = {} /\ v.a.aseq = [i \in Stream |-> 0]
      /\ v.a.link = w.a.link /\ v.a.nav = w.a.nav /\ v.a.file = w.a.file
  BY <1>1, <1>2 DEF NoStreams, Member
<1>5. /\ DOMAIN v.store = DOMAIN w.store /\ v.store.sid = 0 /\ v.store.refused = w.store.refused
      /\ v.store.audio = [i \in Stream |-> None] /\ v.store.video = ended.video
  BY <1>1, <1>2, <1>3
<1>6. Adapter(v.a)
  BY <1>4 DEF Good, Typed, Adapter
<1>7. Store(v.store)
  BY <1>3, <1>5 DEF Good, Typed, Store, Sequence
<1>8. Typed(v)
  BY <1>2, <1>6, <1>7 DEF Good, Typed
<1>9. Agree(v)
  BY <1>3, <1>4, <1>5 DEF Good, Agree, VideoAgrees, AudioAgrees
<1>10. Merged(v)
  BY <1>2, <1>4, MergedKept DEF Good, SameBlocks
<1> QED
  BY <1>2, <1>4, <1>8, <1>9, <1>10 DEF Good, v
-----------------------------------------------------------------------------
\* The actions

\* Where run() has no session, and the Core shows none.
Idle == {"off", "head", "discover", "failed", "make", "connect", "detach", "exit", "done"}

Planned == "plan" \in DOMAIN env /\ env.plan \in Plan
Phases ==
  /\ core.on = a.connected
  /\ core.on => run = "loop" /\ a.sid # 0
  /\ run \in Idle => a.sid = 0
  /\ owner = "off" => run = "off"
  /\ owner = "stopped" => ~core.sink /\ run = "done"
Inv == Good(World) /\ Phases /\ Planned

LEMMA Arrives ==
  ASSUME NEW v, Good(v), Becomes(v) PROVE Good(World)'
  BY DEF Good, Typed, Adapter, Store, Shown, Agree, VideoAgrees, AudioAgrees, Merged, Becomes, World

LEMMA InitInv == Init => Inv
<1> SUFFICES ASSUME Init PROVE Inv
  OBVIOUS
<1>1. Adapter(a)
  BY DEF Init, Adapter, Member
<1>2. Store(store)
  <2>1. store = EmptyStore
    BY DEF Init
  <2>2. /\ DOMAIN store = {"sid", "hello", "video", "audio", "gain", "refused"}
        /\ store.sid = 0 /\ store.refused = FALSE /\ store.video = NoVideo
        /\ store.audio = [i \in Stream |-> None]
    BY <2>1 DEF EmptyStore
  <2>3. /\ DOMAIN store.video = {"started", "config", "last"}
        /\ store.video.started \in BOOLEAN /\ store.video.last \in Nat
    BY <2>2 DEF NoVideo
  <2>4. store.audio \in [Stream -> Sequence] /\ store.refused \in BOOLEAN
    BY <2>2 DEF Sequence
  <2> QED
    BY <2>2, <2>3, <2>4 DEF Store
<1>3. Shown(core)
  BY DEF Init, Shown
<1>4. Typed(World)
  BY <1>1, <1>2, <1>3 DEF Typed, World
<1>5. Agree(World)
  BY DEF Init, EmptyStore, NoVideo, Agree, VideoAgrees, AudioAgrees, World
<1>6. Merged(World)
  <2>1. /\ a.link = NoLink /\ a.nav = NoNav /\ a.file = NoFile /\ core.link = NoLink /\ core.nav = NoNav
        /\ core.told = [link |-> [activation |-> 0, encryption |-> 0], file |-> NoFile,
                        nav |-> [code |-> 0, ahead |-> 0, remaining |-> 0, seconds |-> 0]]
    BY DEF Init, NoFile
  <2>2. World.a = a /\ World.core = core
    BY DEF World
  <2>3. /\ DOMAIN a.link = {"activation", "encryption", "active", "bytes", "total", "ota"}
        /\ a.link.activation = 0 /\ a.link.encryption = 0 /\ DOMAIN a.file = FileMember
    BY <2>1 DEF NoLink, NoFile, FileMember
  <2>4. /\ DOMAIN a.nav = {"valid", "code", "ahead", "remaining", "seconds"}
        /\ \A f \in {"code", "ahead", "remaining", "seconds"} : a.nav[f] = 0
    BY <2>1 DEF NoNav
  <2>5. /\ DOMAIN core.told = {"link", "file", "nav"} /\ core.told.file = NoFile
        /\ DOMAIN core.told.link = {"activation", "encryption"}
        /\ core.told.link.activation = 0 /\ core.told.link.encryption = 0
        /\ DOMAIN core.told.nav = {"code", "ahead", "remaining", "seconds"}
        /\ \A f \in {"code", "ahead", "remaining", "seconds"} : core.told.nav[f] = 0
    BY <2>1
  <2> QED
    BY <2>1, <2>2, <2>3, <2>4, <2>5 DEF Merged
<1>7. Phases
  BY DEF Init, Phases
<1>8. Planned
  BY DEF Init, Planned
<1> QED
  BY <1>4, <1>5, <1>6, <1>7, <1>8 DEF Inv, Good

\* The steps that leave adapter, store and Core alone.
LEMMA OtherKeeps ==
  ASSUME Inv, UNCHANGED adapter, Planned', Phases' PROVE Inv'
  BY DEF Inv, adapter, World

\* The steps that only set running_ or the sink.
LEMMA FlagsKeep ==
  ASSUME Good(World), Quiet(World, World'), SameBlocks(World, World') PROVE Good(World)'
<1>1. Good(World')
  BY QuietKeeps, MergedKept DEF Good
<1> QED
  BY <1>1

LEMMA OwnerKeeps ==
  ASSUME Inv, Owner \/ Stop PROVE Inv'
<1>0. /\ DOMAIN a = Member /\ DOMAIN store = {"sid", "hello", "video", "audio", "gain", "refused"}
      /\ DOMAIN core = {"sink", "on", "ducking", "audio", "link", "nav", "call", "fps", "told"}
  BY DEF Inv, Good, Typed, Adapter, Store, Shown, World
<1>1. CASE Start
  <2>1. core.on = FALSE
    BY <1>1 DEF Start, Inv, Phases, Good, Typed, Shown, World
  <2>2. Quiet(World, World') /\ SameBlocks(World, World')
    BY <1>0, <1>1, <2>1 DEF Start, Quiet, SameBlocks, World, Member
  <2>3. Good(World)'
    BY <2>2, FlagsKeep DEF Inv
  <2>4. a'.sid = a.sid /\ a'.connected = a.connected /\ core'.on = FALSE
    BY <1>0, <1>1 DEF Start, Member
  <2>5. Phases'
    BY <1>1, <2>1, <2>4 DEF Start, Inv, Phases, Idle
  <2> QED
    BY <1>1, <2>3, <2>5 DEF Inv, Planned, Start
<1>2. CASE Stop
  <2>1. Quiet(World, World') /\ SameBlocks(World, World')
    BY <1>0, <1>2 DEF Stop, Quiet, SameBlocks, World, Member
  <2>2. Good(World)'
    BY <2>1, FlagsKeep DEF Inv
  <2>3. a'.sid = a.sid /\ a'.connected = a.connected
    BY <1>0, <1>2 DEF Stop, Member
  <2>4. Phases'
    BY <1>2, <2>3 DEF Stop, Inv, Phases, Idle
  <2> QED
    BY <1>2, <2>2, <2>4 DEF Inv, Planned, Stop
<1>3. CASE LoadSession
  BY <1>3, OtherKeeps DEF LoadSession, Inv, Phases, Planned, adapter
<1>4. CASE TellSession
  BY <1>4, OtherKeeps DEF TellSession, Inv, Phases, Planned, adapter
<1>5. CASE Cleanup
  <2> DEFINE left == LeaveSession(World)
             v == [left EXCEPT !.a.connected = FALSE, !.core.on = FALSE, !.core.sink = FALSE]
  <2>1. Good(left) /\ left.a.sid = 0 /\ left.a.connected = a.connected /\ left.core = core
    BY LeaveKeeps DEF Inv, World
  <2>2. core.on = FALSE /\ a.connected = FALSE
    BY <1>5 DEF Cleanup, Inv, Phases, Good, Typed, Shown, World
  <2> HIDE DEF left
  <2>3. /\ DOMAIN left.a = Member /\ DOMAIN left = {"a", "store", "core"}
        /\ DOMAIN left.core = {"sink", "on", "ducking", "audio", "link", "nav", "call", "fps", "told"}
    BY <2>1 DEF Good, Typed, Adapter, Shown
  <2>4. /\ DOMAIN v = {"a", "store", "core"} /\ v.store = left.store
        /\ v.a = [left.a EXCEPT !.connected = FALSE]
        /\ v.core = [left.core EXCEPT !.on = FALSE, !.sink = FALSE]
    BY <2>3
  <2> HIDE DEF v
  <2>5. Quiet(left, v) /\ SameBlocks(left, v)
    BY <2>1, <2>2, <2>3, <2>4, ZenonT(30) DEF Quiet, SameBlocks, Member
  <2>6. Good(v)
    BY <2>1, <2>5, QuietKeeps, MergedKept DEF Good
  <2>7. v.a.sid = 0 /\ v.a.connected = FALSE /\ v.core.on = FALSE /\ v.core.sink = FALSE
    BY <2>1, <2>3, <2>4 DEF Member
  <2>8. Becomes(v) /\ UNCHANGED <<run, env>> /\ owner' = "stopped" /\ run = "done"
    BY <1>5 DEF Cleanup, v, left
  <2>9. Good(World)'
    BY <2>6, <2>8, Arrives
  <2>10. Phases'
    BY <2>7, <2>8 DEF Becomes, Phases, Idle
  <2> QED
    BY <2>8, <2>9, <2>10 DEF Inv, Planned
<1> QED
  BY <1>1, <1>2, <1>3, <1>4, <1>5 DEF Owner
LEMMA ThreadKeeps ==
  ASSUME Inv, Thread \/ PhoneFound \/ PhoneLeaves PROVE Inv'
<1> USE DEF At, GoTo, Idle
<1>1. CASE Again
  BY <1>1, OtherKeeps DEF Again, Inv, Phases, Planned, adapter
<1>2. CASE PhoneFound
  BY <1>2, OtherKeeps DEF PhoneFound, Inv, Phases, Planned, adapter
<1>3. CASE GiveUp
  BY <1>3, OtherKeeps DEF GiveUp, Inv, Phases, Planned, adapter
<1>4. CASE BootstrapFailed
  BY <1>4, OtherKeeps DEF BootstrapFailed, Inv, Phases, Planned, adapter
<1>5. CASE MakeSession
  BY <1>5, OtherKeeps DEF MakeSession, Inv, Phases, Planned, adapter
<1>6. CASE Connected
  <2>1. Follows(World, OnVideoConfig(World))
    BY VideoConfigFollows DEF Inv, Good
  <2>2. Good(OnVideoConfig(World))
    BY <2>1, MergedKept DEF Follows, Inv, Good
  <2>3. Good(World)'
    BY <1>6, <2>2, Arrives DEF Connected
  <2>4. core'.on = core.on /\ a'.connected = a.connected
    BY <1>6, <2>1 DEF Connected, Becomes, Follows, Kept, World
  <2>5. Phases'
    BY <1>6, <2>4 DEF Connected, Inv, Phases
  <2> QED
    BY <1>6, <2>3, <2>5 DEF Connected, Inv, Planned
<1>7. CASE NotConnected
  BY <1>7, OtherKeeps DEF NotConnected, Inv, Phases, Planned, adapter
<1>8. ASSUME SessionOver, run \in {"begin", "loop"} PROVE Inv'
  <2>1. Good(OnState(World, FALSE)) /\ OnState(World, FALSE).a.connected = FALSE
          /\ OnState(World, FALSE).core.on = FALSE
    BY StateKeeps DEF Inv
  <2>2. Good(World)'
    BY <1>8, <2>1, Arrives DEF SessionOver
  <2>3. core'.on = FALSE /\ a'.connected = FALSE
    BY <1>8, <2>1 DEF SessionOver, Becomes
  <2>4. Phases'
    BY <1>8, <2>3 DEF SessionOver, Inv, Phases
  <2> QED
    BY <1>8, <2>2, <2>4 DEF SessionOver, Inv, Planned
<1>9. CASE BeginLoop
  <2>1. CASE session.closed
    BY <1>8, <1>9, <2>1 DEF BeginLoop
  <2>2. CASE ~session.closed
    BY <1>9, <2>2, OtherKeeps DEF BeginLoop, Inv, Phases, Planned, adapter
  <2> QED
    BY <2>1, <2>2
<1>10. CASE LeaveLoop \/ PhoneLeaves
  BY <1>8, <1>10 DEF LeaveLoop, PhoneLeaves
<1>11. CASE Unpublish
  BY <1>11, OtherKeeps DEF Unpublish, Inv, Phases, Planned, adapter
<1>12. CASE LeaveMedia
  <2>1. /\ Good(LeaveSession(World)) /\ LeaveSession(World).a.sid = 0
        /\ LeaveSession(World).a.connected = a.connected /\ LeaveSession(World).core = core
    BY LeaveKeeps DEF Inv, World
  <2>2. Good(World)'
    BY <1>12, <2>1, Arrives DEF LeaveMedia
  <2>3. a'.sid = 0 /\ core'.on = core.on /\ a'.connected = a.connected
    BY <1>12, <2>1 DEF LeaveMedia, Becomes
  <2>4. Phases'
    BY <1>12, <2>3 DEF LeaveMedia, Inv, Phases
  <2> QED
    BY <1>12, <2>2, <2>4 DEF LeaveMedia, Inv, Planned
<1>13. CASE Detach
  <2>1. /\ Good(OnState(World, FALSE)) /\ OnState(World, FALSE).a.connected = FALSE
        /\ OnState(World, FALSE).core.on = FALSE /\ OnState(World, FALSE).a.sid = a.sid
    BY StateKeeps DEF Inv, World
  <2>2. Good(World)'
    BY <1>13, <2>1, Arrives DEF Detach
  <2>3. core'.on = FALSE /\ a'.connected = FALSE /\ a'.sid = a.sid
    BY <1>13, <2>1 DEF Detach, Becomes
  <2>4. Phases'
    BY <1>13, <2>3 DEF Detach, After, Inv, Phases
  <2> QED
    BY <1>13, <2>2, <2>4 DEF Detach, Inv, Planned
<1>14. CASE Exit
  <2>1. /\ DOMAIN a = Member /\ DOMAIN World = {"a", "store", "core"}
    BY DEF Inv, Good, Typed, Adapter, World
  <2>2. Quiet(World, World') /\ SameBlocks(World, World')
    BY <1>14, <2>1 DEF Exit, Quiet, SameBlocks, World, Member
  <2>3. Good(World)'
    BY <2>2, FlagsKeep DEF Inv
  <2>4. a'.sid = a.sid /\ a'.connected = a.connected
    BY <1>14, <2>1 DEF Exit, Member
  <2>5. Phases'
    BY <1>14, <2>4 DEF Exit, Inv, Phases
  <2> QED
    BY <1>14, <2>3, <2>5 DEF Exit, Inv, Planned
<1> QED
  BY <1>1, <1>2, <1>3, <1>4, <1>5, <1>6, <1>7, <1>9, <1>10, <1>11, <1>12, <1>13, <1>14 DEF Thread

LEMMA SessionKeeps ==
  ASSUME Inv, Callback \/ Established \/ TakeControl \/ \E w \in Worker : RouteControl(w) \/ OnControlEnters(w)
  PROVE  Inv'
<1>1. CASE Callback
  <2>1. PICK call \in env.plan.says : Becomes(Called(World, call))
    BY <1>1 DEF Callback
  <2>2. Callable(call)
    BY PlanAssumption DEF Inv, Planned
  <2>3. Good(Called(World, call)) /\ Kept(World, Called(World, call))
    BY <2>2, CalledKeeps DEF Inv
  <2>4. Good(World)'
    BY <2>1, <2>3, Arrives
  <2>5. core'.on = core.on /\ a'.connected = a.connected /\ (a.sid # 0 => a'.sid # 0)
    BY <2>1, <2>3 DEF Kept, Becomes, World
  <2>6. run = "loop" /\ UNCHANGED <<run, owner>>
    BY <1>1 DEF Callback, InLoop, At
  <2>7. Phases'
    BY <2>5, <2>6 DEF Inv, Phases, Idle
  <2>8. Planned'
    BY <1>1 DEF Callback, Inv, Planned
  <2> QED
    BY <2>4, <2>7, <2>8 DEF Inv
<1>2. CASE Established
  <2> DEFINE here == EnsureSession(World)
  <2>1. Follows(World, here) /\ here.a.sid # 0
    BY SessionFollows DEF Inv, Good
  <2>2. Good(here)
    BY <2>1, MergedKept DEF Follows, Inv, Good
  <2> HIDE DEF here
  <2>3. /\ Good(OnState(here, TRUE)) /\ OnState(here, TRUE).a.connected = TRUE
        /\ OnState(here, TRUE).core.on = TRUE /\ OnState(here, TRUE).a.sid # 0
    BY <2>1, <2>2, StateKeeps
  <2>4. Becomes(OnState(here, TRUE)) /\ run = "loop" /\ UNCHANGED <<run, owner, env>>
    BY <1>2 DEF Established, InLoop, At, here
  <2>5. Good(World)'
    BY <2>3, <2>4, Arrives
  <2>6. core'.on = TRUE /\ a'.connected = TRUE /\ a'.sid # 0
    BY <2>3, <2>4 DEF Becomes
  <2>7. Phases'
    BY <2>4, <2>6 DEF Inv, Phases, Idle
  <2> QED
    BY <2>4, <2>5, <2>7 DEF Inv, Planned
<1>3. CASE TakeControl
  BY <1>3, OtherKeeps DEF TakeControl, Inv, Phases, Planned, adapter
<1>4. ASSUME NEW w \in Worker, RouteControl(w) PROVE Inv'
  BY <1>4, OtherKeeps DEF RouteControl, Inv, Phases, Planned, adapter
<1>5. ASSUME NEW w \in Worker, OnControlEnters(w) PROVE Inv'
  BY <1>5, OtherKeeps DEF OnControlEnters, Inv, Phases, Planned, adapter
<1> QED
  BY <1>1, <1>2, <1>3, <1>4, <1>5

LEMMA NextInv == Inv /\ [Next]_vars => Inv'
<1> SUFFICES ASSUME Inv, [Next]_vars PROVE Inv'
  OBVIOUS
<1>1. CASE UNCHANGED vars
  BY <1>1, OtherKeeps DEF vars, adapter, Inv, Phases, Planned
<1>2. CASE Next
  BY <1>1, <1>2, OwnerKeeps, ThreadKeeps, SessionKeeps DEF Next, Surroundings, Over
<1> QED
  BY <1>1, <1>2

LEMMA InvHolds == Spec => []Inv
  BY InitInv, NextInv, PTL DEF Spec

-----------------------------------------------------------------------------
\* Adapter, store and Core agree on the session and its streams, for every
\* phone: no frame and no audio is refused because of an earlier session.
THEOREM SidesAlwaysAgree == Spec => []SidesAgree
<1>1. Inv => SidesAgree
  <2> SUFFICES ASSUME Inv PROVE SidesAgree
    OBVIOUS
  <2>1. a.vopen = store.video.started
    BY Zenon DEF Inv, Good, Typed, Adapter, Store, Agree, VideoAgrees, World
  <2>2. MediaAgrees
    BY <2>1 DEF Inv, Good, Agree, VideoAgrees, AudioAgrees, MediaAgrees, World
  <2>3. ConnectedMeansSession
    BY DEF Inv, Good, Agree, Phases, Idle, ConnectedMeansSession, World
  <2> QED
    BY <2>2, <2>3 DEF SidesAgree
<1> QED
  BY <1>1, InvHolds, PTL

\* The blocks about the link and the route hold, field by field, what the
\* phone said last: no message loses what another one said.
THEOREM BlocksAlwaysMerged == Spec => []BlocksMerged
<1>1. Inv => BlocksMerged
  BY DEF Inv, Good, Merged, NoFile, FileMember, BlocksMerged, World
<1> QED
  BY <1>1, InvHolds, PTL

-----------------------------------------------------------------------------
\* The ring as a queue

\* Rings of the controls X; while a batch enters, the count may run ahead.
Rings(X) == [at : [0..(Capacity - 1) -> X], begin : 0..(Capacity - 1), count : Nat]
RingType(r) == (\E X : r \in Rings(X)) /\ r.count <= Capacity

\* The n-th in the queue.
Nth(r, n) == r.at[Slot(r, n - 1)]

LEMMA PutType == ASSUME NEW X, NEW r \in Rings(X), NEW c \in X PROVE Put(r, c) \in Rings(X)
<1>1. Slot(r, r.count) \in 0..(Capacity - 1)
  <2>1. r.begin + r.count \in Nat /\ Capacity \in Nat \ {0}
    BY ControlsAssumption DEF Rings
  <2> QED
    BY <2>1 DEF Slot
<1> DEFINE new == [r.at EXCEPT ![Slot(r, r.count)] = c]
           n == r.count + 1
<1>2. new \in [0..(Capacity - 1) -> X] /\ n \in Nat
  BY <1>1 DEF Rings
<1>3. Put(r, c) = [r EXCEPT !.at = new, !.count = n]
  BY DEF Put, Rings
<1> HIDE DEF new, n
<1> QED
  BY <1>2, <1>3 DEF Rings

LEMMA RingIs ==
  ASSUME NEW r, RingType(r)
  PROVE  /\ Capacity \in Nat \ {0} /\ DOMAIN r.at = 0..(Capacity - 1)
         /\ r.begin \in 0..(Capacity - 1) /\ r.count \in 0..Capacity
  BY ControlsAssumption DEF RingType, Rings

LEMMA RingWith ==
  ASSUME NEW r, RingType(r), NEW c PROVE \E X : r \in Rings(X) /\ c \in X
<1>1. PICK X : r \in Rings(X)
  BY DEF RingType
<1>2. r \in Rings(X \cup {c})
  BY <1>1 DEF Rings
<1> QED
  BY <1>2

LEMMA SlotsApart ==
  ASSUME NEW r, RingType(r), NEW n \in 0..(Capacity - 1)
  PROVE  Slot(r, n) \in 0..(Capacity - 1) /\ \A k \in 0..(Capacity - 1) : k # n => Slot(r, k) # Slot(r, n)
<1>1. Capacity \in Nat \ {0} /\ r.begin \in 0..(Capacity - 1)
  BY RingIs
<1> DEFINE b == r.begin
<1> HIDE DEF b
<1>2. (b + n) % Capacity \in 0..(Capacity - 1)
  BY <1>1 DEF b
<1>3. ASSUME NEW k \in 0..(Capacity - 1), k # n PROVE (b + k) % Capacity # (b + n) % Capacity
  <2>1. b \in 0..(Capacity - 1)
    BY <1>1 DEF b
  <2> QED
    BY <1>1, <1>3, <2>1
<1> QED
  BY <1>2, <1>3 DEF Slot, b

LEMMA PutQueues ==
  ASSUME NEW r, RingType(r), r.count < Capacity, NEW c
  PROVE  /\ RingType(Put(r, c)) /\ Put(r, c).count = r.count + 1
         /\ Nth(Put(r, c), r.count + 1) = c
         /\ \A n \in 1..r.count : Nth(Put(r, c), n) = Nth(r, n)
<1> DEFINE p == Put(r, c)
<1>0. PICK X : r \in Rings(X) /\ c \in X
  BY RingWith
<1>1. /\ p \in Rings(X) /\ p.begin = r.begin /\ p.count = r.count + 1
      /\ p.at = [r.at EXCEPT ![Slot(r, r.count)] = c]
  BY <1>0, PutType DEF Put, Rings
<1> HIDE DEF p
<1>2. /\ r.count \in 0..(Capacity - 1) /\ DOMAIN r.at = 0..(Capacity - 1)
      /\ r.begin \in 0..(Capacity - 1) /\ Capacity \in Nat /\ r.count \in 0..Capacity
  BY RingIs
<1>3. RingType(p)
  BY <1>1, <1>2 DEF RingType
<1>4. \A n : Slot(p, n) = Slot(r, n)
  BY <1>1 DEF Slot
<1>5. Nth(p, r.count + 1) = c
  <2>1. (r.count + 1) - 1 = r.count /\ Slot(r, r.count) \in DOMAIN r.at
    BY <1>2, SlotsApart
  <2>2. p.at[Slot(r, r.count)] = c
    BY <1>1, <2>1
  <2>3. Slot(p, (r.count + 1) - 1) = Slot(r, r.count)
    BY <1>4, <2>1
  <2> QED
    BY <2>2, <2>3 DEF Nth
<1>6. ASSUME NEW n \in 1..r.count PROVE Nth(p, n) = Nth(r, n)
  <2>1. n - 1 \in 0..(Capacity - 1) /\ n - 1 # r.count
    BY <1>2
  <2>2. Slot(r, n - 1) # Slot(r, r.count) /\ Slot(r, n - 1) \in DOMAIN r.at
    BY <1>2, <2>1, SlotsApart
  <2> QED
    BY <1>1, <1>4, <2>2 DEF Nth
<1> QED
  BY <1>1, <1>3, <1>5, <1>6 DEF p

\* The last is replaced.
LEMMA MergeQueues ==
  ASSUME NEW r, RingType(r), r.count > 0, NEW c
  PROVE  LET p == [r EXCEPT !.at[Slot(r, r.count - 1)] = c]
         IN  /\ RingType(p) /\ p.count = r.count
             /\ Nth(p, r.count) = c /\ \A n \in 1..(r.count - 1) : Nth(p, n) = Nth(r, n)
<1> DEFINE p == [r EXCEPT !.at[Slot(r, r.count - 1)] = c]
<1>0. PICK X : r \in Rings(X) /\ c \in X
  BY RingWith
<1>1. /\ p \in Rings(X) /\ p.begin = r.begin /\ p.count = r.count
      /\ p.at = [r.at EXCEPT ![Slot(r, r.count - 1)] = c]
  BY <1>0 DEF Rings
<1> HIDE DEF p
<1>2. /\ r.count - 1 \in 0..(Capacity - 1) /\ DOMAIN r.at = 0..(Capacity - 1)
      /\ r.begin \in 0..(Capacity - 1) /\ Capacity \in Nat /\ r.count \in 0..Capacity
  BY RingIs
<1>3. RingType(p)
  BY <1>1, <1>2 DEF RingType
<1>4. \A n : Slot(p, n) = Slot(r, n)
  BY <1>1 DEF Slot
<1>5. Nth(p, r.count) = c
  <2>1. Slot(r, r.count - 1) \in DOMAIN r.at
    BY <1>2, SlotsApart
  <2> QED
    BY <1>1, <1>4, <2>1 DEF Nth
<1>6. ASSUME NEW n \in 1..(r.count - 1) PROVE Nth(p, n) = Nth(r, n)
  <2>1. n - 1 \in 0..(Capacity - 1) /\ n - 1 # r.count - 1
    BY <1>2
  <2>2. Slot(r, n - 1) # Slot(r, r.count - 1) /\ Slot(r, n - 1) \in DOMAIN r.at
    BY <1>2, <2>1, SlotsApart
  <2> QED
    BY <1>1, <1>4, <2>2 DEF Nth
<1> QED
  BY <1>1, <1>3, <1>5, <1>6 DEF p

LEMMA TakeQueues ==
  ASSUME NEW r, RingType(r), r.count > 0
  PROVE  /\ RingType(TakeFrom(r)) /\ TakeFrom(r).count = r.count - 1
         /\ \A n \in 1..(r.count - 1) : Nth(TakeFrom(r), n) = Nth(r, n + 1)
<1> DEFINE p == TakeFrom(r)
<1>0. PICK X : r \in Rings(X) /\ NoControl \in X
  BY RingWith
<1>1. /\ p \in Rings(X) /\ p.begin = (r.begin + 1) % Capacity
      /\ p.count = r.count - 1 /\ p.at = [r.at EXCEPT ![r.begin] = NoControl]
  <2>1. (r.begin + 1) % Capacity \in 0..(Capacity - 1) /\ r.count - 1 \in Nat
    BY RingIs
  <2> QED
    BY <1>0, <2>1 DEF TakeFrom, Rings
<1> HIDE DEF p
<1>2. /\ r.count \in 1..Capacity /\ DOMAIN r.at = 0..(Capacity - 1)
      /\ r.begin \in 0..(Capacity - 1) /\ Capacity \in Nat \ {0}
  BY RingIs
<1>3. RingType(p)
  BY <1>1, <1>2 DEF RingType
<1>4. Slot(r, 0) = r.begin
  BY <1>2 DEF Slot
<1>5. ASSUME NEW n \in 1..(r.count - 1) PROVE Nth(p, n) = Nth(r, n + 1)
  <2>1. n \in 0..(Capacity - 1) /\ n # 0 /\ 0 \in 0..(Capacity - 1) /\ n \in Nat
    BY <1>2
  <2>2. Slot(r, n) # r.begin /\ Slot(r, n) \in DOMAIN r.at
    BY <1>2, <1>4, <2>1, SlotsApart
  <2>3. Slot(p, n - 1) = Slot(r, n)
    <3>1. (((r.begin + 1) % Capacity) + (n - 1)) % Capacity = (r.begin + n) % Capacity
      <4> DEFINE b == r.begin
      <4>1. b \in 0..(Capacity - 1) /\ n - 1 \in 0..(Capacity - 1) /\ n \in 0..(Capacity - 1)
        BY <1>2, <2>1
      <4> HIDE DEF b
      <4>2. (((b + 1) % Capacity) + (n - 1)) % Capacity = (b + (n - 1) + 1) % Capacity
        <5>1. CASE b + 1 < Capacity
          <6>1. (b + 1) % Capacity = b + 1
            BY <1>2, <4>1, <5>1
          <6>2. (b + 1) + (n - 1) = b + (n - 1) + 1
            BY <4>1
          <6> QED
            BY <6>1, <6>2
        <5>2. CASE b + 1 = Capacity
          <6>1. (b + 1) % Capacity = 0 /\ (n - 1) % Capacity = n - 1
            BY <1>2, <4>1, <5>2
          <6>2. b + (n - 1) + 1 = Capacity + (n - 1)
            BY <4>1, <5>2
          <6>3. (Capacity + (n - 1)) % Capacity = n - 1
            BY <1>2, <4>1
          <6>4. 0 + (n - 1) = n - 1
            BY <4>1
          <6> QED
            BY <6>1, <6>2, <6>3, <6>4
        <5> QED
          BY <1>2, <4>1, <5>1, <5>2
      <4>3. b + (n - 1) + 1 = b + n
        BY <4>1
      <4> QED
        BY <4>2, <4>3 DEF b
    <3> QED
      BY <1>1, <3>1 DEF Slot
  <2>4. n + 1 - 1 = n
    BY <2>1
  <2> QED
    BY <1>1, <2>2, <2>3, <2>4 DEF Nth
<1> QED
  BY <1>1, <1>3, <1>5 DEF p

LEMMA ClearQueues == RingType(EmptyRing) /\ EmptyRing.count = 0
<1>1. EmptyRing \in Rings({NoControl})
  BY ControlsAssumption DEF EmptyRing, Rings
<1> QED
  BY <1>1, ControlsAssumption DEF RingType, EmptyRing

\* enqueue_batch_locked: the batch comes after what is there.
Batched(r, items, p) ==
  /\ RingType(p) /\ p.count = r.count + Len(items)
  /\ \A n \in 1..r.count : Nth(p, n) = Nth(r, n)
  /\ \A n \in 1..Len(items) : Nth(p, r.count + n) = items[n]

\* What FoldLeft computes by.
Putting(r, items, h) ==
  h = [s \in SUBSET DOMAIN items |->
         IF s = {} THEN r ELSE Put(h[s \ {Largest(s)}], items[Largest(s)])]

LEMMA PuttingExists ==
  ASSUME NEW r, RingType(r), NEW items, NEW m \in Nat, DOMAIN items = 1..m
  PROVE  /\ \E h : Putting(r, items, h)
         /\ \A h, k : Putting(r, items, h) /\ Putting(r, items, k) => h = k
<1> DEFINE D == 1..m
           X == {r.at[k] : k \in DOMAIN r.at} \cup {items[k] : k \in D}
           R == Rings(X)
           F == [p \in D \X R |-> Put(p[2], items[p[1]])]
           pick == [s \in SUBSET D |-> Largest(s)]
<1>1. \A s \in SUBSET D : s # {} => Largest(s) \in s
  BY LargestIn
<1>2. IsFiniteSet(D)
  BY FS_Interval
<1>3. r \in R
  <2>1. PICK Y : r \in Rings(Y)
    BY DEF RingType
  <2>2. \A k \in 0..(Capacity - 1) : r.at[k] \in X
    BY RingIs
  <2> HIDE DEF X
  <2> QED
    BY <2>1, <2>2 DEF Rings
<1>4. F \in [D \X R -> R]
  <2>1. ASSUME NEW p \in D \X R PROVE Put(p[2], items[p[1]]) \in R
    <3>1. items[p[1]] \in X /\ p[2] \in R
      OBVIOUS
    <3> HIDE DEF X
    <3> QED
      BY <3>1, PutType
  <2> HIDE DEF R, D
  <2> QED
    BY <2>1
<1>5. PICK h \in [SUBSET D -> R] : FoldedBy(D, pick, F, r, h)
  <2>1. \A s \in SUBSET D : s # {} => pick[s] \in s
    BY <1>1
  <2> HIDE DEF D, R, F, pick
  <2> QED
    BY <1>2, <1>3, <1>4, <2>1, FoldsExist
<1>6. ASSUME NEW s \in SUBSET D, s # {}
      PROVE  /\ Largest(s) \in D /\ s \ {Largest(s)} \in SUBSET D
             /\ h[s] = Put(h[s \ {Largest(s)}], items[Largest(s)])
  <2> DEFINE x == Largest(s)
             t == s \ {x}
  <2>1. x \in D /\ t \in SUBSET D /\ pick[s] = x
    BY <1>1, <1>6
  <2>2. h[s] = F[<<x, h[t]>>]
    <3> HIDE DEF F
    <3> QED
      BY <1>5, <1>6, <2>1 DEF FoldedBy
  <2>3. h[t] \in R
    BY <1>5, <2>1
  <2>4. F[<<x, h[t]>>] = Put(h[t], items[x])
    <3> HIDE DEF x, t, D, R
    <3> QED
      BY <2>1, <2>3
  <2> QED
    BY <2>1, <2>2, <2>4
<1>7. Putting(r, items, h)
  <2>1. \A s \in SUBSET D : h[s] = IF s = {} THEN r ELSE Put(h[s \ {Largest(s)}], items[Largest(s)])
    <3>1. h[{}] = r
      BY <1>5 DEF FoldedBy
    <3> QED
      BY <1>6, <3>1
  <2>2. h = [s \in SUBSET D |-> h[s]]
    BY <1>5
  <2> QED
    BY <2>1, <2>2 DEF Putting
<1>8. ASSUME NEW f, NEW k, Putting(r, items, f), Putting(r, items, k) PROVE f = k
  <2>1. \A s \in SUBSET D : s # {} => /\ f[s] = Put(f[s \ {Largest(s)}], items[Largest(s)])
                                     /\ k[s] = Put(k[s \ {Largest(s)}], items[Largest(s)])
    BY <1>8 DEF Putting
  <2>2. /\ f[{}] = r /\ k[{}] = r /\ DOMAIN f = SUBSET D /\ DOMAIN k = SUBSET D
        /\ f = [s \in SUBSET D |-> f[s]] /\ k = [s \in SUBSET D |-> k[s]]
    BY <1>8 DEF Putting
  <2> DEFINE Odd == {s \in SUBSET D : f[s] # k[s]}
  <2>3. Odd = {}
    <3> SUFFICES ASSUME Odd # {} PROVE FALSE
      OBVIOUS
    <3>0. Odd \subseteq SUBSET D
      OBVIOUS
    <3> HIDE DEF Odd
    <3>1. PICK s \in Odd : \A t \in Odd : t \subseteq s => t = s
      <4> HIDE DEF D
      <4> QED
        BY <1>2, <3>0, SmallestSet
    <3> DEFINE t == s \ {Largest(s)}
    <3>2. s \in SUBSET D /\ f[s] # k[s] /\ s # {}
      BY <2>2 DEF Odd
    <3>3. t \in SUBSET D /\ t \subseteq s /\ t # s
      BY <1>1, <3>2
    <3>4. f[t] = k[t]
      BY <3>1, <3>3 DEF Odd
    <3>5. f[s] = k[s]
      BY <2>1, <3>2, <3>4
    <3> QED
      BY <3>2, <3>5
  <2>4. \A s \in SUBSET D : f[s] = k[s]
    BY <2>3
  <2> QED
    BY <2>2, <2>4
<1> QED
  BY <1>7, <1>8

LEMMA BatchQueues ==
  ASSUME NEW r, RingType(r), NEW items, NEW m \in Nat, DOMAIN items = 1..m, Len(items) = m,
         r.count + m <= Capacity
  PROVE  Batched(r, items, EnqueueBatch(r, items))
<1> DEFINE c == CHOOSE h : Putting(r, items, h)
<1>1. Putting(r, items, c)
  BY PuttingExists
<1>2. EnqueueBatch(r, items) = c[DOMAIN items]
  <2>1. ~ (r.count + Len(items) > Capacity)
    BY RingIs
  <2>2. FoldLeft(Put, r, items) = c[DOMAIN items]
    BY DEF FoldLeft, MapThenFoldSet, Putting, Largest, Max
  <2> QED
    BY <2>1, <2>2 DEF EnqueueBatch
<1> HIDE DEF c
<1> DEFINE Part(n, p) == /\ RingType(p) /\ p.count = r.count + n
                         /\ \A k \in 1..r.count : Nth(p, k) = Nth(r, k)
                         /\ \A k \in 1..n : Nth(p, r.count + k) = items[k]
           P == {n \in Nat : n <= m => Part(n, c[1..n])}
<1>3. r.count \in Nat /\ Capacity \in Nat
  BY RingIs
<1>4. 0 \in P
  <2>1. (1..0) = {} /\ c[{}] = r
    BY <1>1 DEF Putting
  <2> QED
    BY <1>3, <2>1
<1>5. ASSUME NEW n \in Nat, n \in P PROVE n + 1 \in P
  <2> SUFFICES ASSUME n + 1 <= m PROVE Part(n + 1, c[1..n+1])
    OBVIOUS
  <2> DEFINE p == c[1..n]
             q == c[1..n+1]
  <2>1. Part(n, p)
    BY <1>5
  <2>2. q = Put(p, items[n + 1])
    <3>1. Largest(1..n+1) = n + 1
      BY LargestOf
    <3>2. (1..n+1) \in SUBSET DOMAIN items /\ (1..n+1) # {} /\ (1..n+1) \ {n + 1} = 1..n
      OBVIOUS
    <3> QED
      BY <1>1, <3>1, <3>2 DEF Putting
  <2> HIDE DEF p, q
  <2>3. p.count < Capacity /\ p.count = r.count + n
    BY <1>3, <2>1
  <2>4. /\ RingType(q) /\ q.count = p.count + 1 /\ Nth(q, p.count + 1) = items[n + 1]
        /\ \A k \in 1..p.count : Nth(q, k) = Nth(p, k)
    BY <2>1, <2>2, <2>3, PutQueues
  <2>5. \A k \in 1..r.count : Nth(q, k) = Nth(r, k)
    <3>1. \A k \in 1..r.count : k \in 1..p.count
      BY <1>3, <2>3
    <3> QED
      BY <2>1, <2>4, <3>1
  <2>6. ASSUME NEW k \in 1..n+1 PROVE Nth(q, r.count + k) = items[k]
    <3>1. CASE k = n + 1
      <4>1. r.count + (n + 1) = p.count + 1
        BY <1>3, <2>3
      <4> QED
        BY <2>4, <3>1, <4>1
    <3>2. CASE k \in 1..n
      <4>1. r.count + k \in 1..p.count
        BY <1>3, <2>3, <3>2
      <4> QED
        BY <2>1, <2>4, <3>2, <4>1
    <3> QED
      BY <3>1, <3>2
  <2>7. q.count = r.count + (n + 1)
    BY <1>3, <2>3, <2>4
  <2> QED
    BY <2>4, <2>5, <2>6, <2>7 DEF q
<1>6. m \in P
  <2> HIDE DEF P
  <2> QED
    BY <1>4, <1>5, NumberInduction
<1> QED
  BY <1>2, <1>6 DEF Batched

-----------------------------------------------------------------------------
\* The controls in the ring, by the events they come from

\* A control of one of the events that are through.
Control(x, done) ==
  /\ x.n \in done /\ x.after \subseteq done
  /\ x.of \in Nat /\ x.part \in 1..x.of
  /\ x.type = "Touch" => x.of = 1

Succeeds(x, y) == IF x.part < x.of THEN y.n = x.n ELSE y.part = 1

\* ControlsInOrder, and what it needs: the events are among those that are through.
Line(r, front, done) ==
  /\ RingType(r) /\ done \subseteq Nat \ {0}
  /\ front.n \in done \cup {0} /\ front.part \in Nat /\ front.after \subseteq done
  /\ \A k \in 1..r.count : Control(Nth(r, k), done) /\ Behind(front, Nth(r, k), k)
  /\ \A k \in 1..r.count : \A i \in 1..(k - 1) : Behind(Nth(r, i), Nth(r, k), k - i)
  /\ \A k \in 2..r.count : Succeeds(Nth(r, k - 1), Nth(r, k))
  /\ r.count > 0 => /\ Nth(r, r.count).part = Nth(r, r.count).of
                    /\ Nth(r, 1).n # front.n => Nth(r, 1).part = 1

LEMMA ClearLine ==
  ASSUME NEW r, NEW front, NEW done, Line(r, front, done) PROVE Line(EmptyRing, front, done)
<1>1. RingType(EmptyRing) /\ EmptyRing.count = 0
  BY ClearQueues
<1> QED
  BY <1>1 DEF Line

\* The controls of one event, the n-th, which was not through.
Whole(items, m, n, done) ==
  \A k \in 1..m : /\ items[k].n = n /\ items[k].part = k /\ items[k].of = m
                  /\ items[k].after \subseteq done
                  /\ items[k].type = "Touch" => m = 1

\* They come behind the first c in the ring, which are all of what those events say.
LEMMA LayLine ==
  ASSUME NEW r, NEW front, NEW done, Line(r, front, done),
         NEW n \in Nat \ {0}, n \notin done,
         NEW c \in 0..r.count, c > 0 => Nth(r, c).part = Nth(r, c).of,
         NEW items, NEW m \in Nat, Whole(items, m, n, done),
         NEW p, RingType(p), p.count = c + m,
         \A k \in 1..c : Nth(p, k) = Nth(r, k),
         \A k \in 1..m : Nth(p, c + k) = items[k]
  PROVE  Line(p, front, done \cup {n})
<1> DEFINE more == done \cup {n}
<1>1. r.count \in Nat /\ c \in Nat /\ c <= r.count /\ more \subseteq Nat \ {0}
  <2>1. RingType(r) /\ done \subseteq Nat \ {0}
    BY DEF Line
  <2>2. r.count \in Nat
    BY <2>1, RingIs
  <2> QED
    BY <2>1, <2>2
<1>2. ASSUME NEW k \in 1..p.count
      PROVE  \/ k \in 1..c /\ k \in 1..r.count /\ Nth(p, k) = Nth(r, k)
             \/ k \notin 1..c /\ k - c \in 1..m /\ Nth(p, k) = items[k - c]
  <2>1. CASE k \in 1..c
    BY <1>1, <2>1
  <2>2. CASE k \notin 1..c
    <3>1. k - c \in 1..m /\ c + (k - c) = k
      BY <1>1, <2>2
    <3> DEFINE j == k - c
    <3>2. j \in 1..m /\ c + j = k
      BY <3>1
    <3> HIDE DEF j
    <3>3. Nth(p, k) = items[j]
      BY <3>2
    <3> QED
      BY <2>2, <3>1, <3>3 DEF j
  <2> QED
    BY <2>1, <2>2
\* What is old and what is new.
<1>3. \A k \in 1..r.count : Nth(r, k).n # n /\ n \notin Nth(r, k).after
  BY DEF Line, Control
<1>4. front.n # n /\ n \notin front.after
  BY DEF Line
<1>5. \A j \in 1..m : Control(items[j], more)
  BY DEF Whole, Control
<1>6. \A x : Control(x, done) => Control(x, more)
  BY DEF Control
<1> HIDE DEF more
<1>7. ASSUME NEW k \in 1..p.count PROVE Control(Nth(p, k), more) /\ Behind(front, Nth(p, k), k)
  <2>1. CASE k \in 1..c
    BY <1>2, <1>6, <2>1 DEF Line
  <2>2. CASE k \notin 1..c
    <3> DEFINE j == k - c
    <3>1. j \in 1..m /\ Nth(p, k) = items[j]
      BY <1>2, <2>2
    <3> HIDE DEF j
    <3>2. items[j].n = n
      BY <3>1 DEF Whole
    <3> QED
      BY <1>4, <1>5, <3>1, <3>2 DEF Behind
  <2> QED
    BY <2>1, <2>2
<1>8. ASSUME NEW k \in 1..p.count, NEW i \in 1..(k - 1) PROVE Behind(Nth(p, i), Nth(p, k), k - i)
  <2>0. i \in 1..p.count /\ i \in Nat /\ k \in Nat /\ i < k
    BY <1>1
  <2>1. CASE k \in 1..c
    <3>1. i \in 1..c /\ k \in 1..r.count
      BY <1>1, <2>0, <2>1
    <3>2. Nth(p, k) = Nth(r, k) /\ Nth(p, i) = Nth(r, i)
      BY <2>1, <3>1
    <3> QED
      BY <3>1, <3>2 DEF Line
  <2>2. CASE k \notin 1..c
    <3> DEFINE j == k - c
    <3>1. j \in 1..m /\ Nth(p, k) = items[j] /\ k = c + j
      BY <1>1, <1>2, <2>0, <2>2
    <3> HIDE DEF j
    <3>2. items[j].n = n /\ items[j].part = j
      BY <3>1 DEF Whole
    <3>3. CASE i \in 1..c
      <4>1. i \in 1..r.count /\ Nth(p, i) = Nth(r, i)
        BY <1>1, <3>3
      <4> QED
        BY <1>3, <3>1, <3>2, <4>1 DEF Behind
    <3>4. CASE i \notin 1..c
      <4> DEFINE h == i - c
      <4>1. h \in 1..m /\ Nth(p, i) = items[h] /\ i = c + h
        BY <1>1, <1>2, <2>0, <3>4
      <4> HIDE DEF h
      <4>2. items[h].n = n /\ items[h].part = h /\ items[h].after \subseteq done
        BY <4>1 DEF Whole
      <4>3. j = h + (k - i)
        BY <1>1, <3>1, <4>1
      <4> QED
        BY <3>1, <3>2, <4>1, <4>2, <4>3 DEF Behind
    <3> QED
      BY <3>3, <3>4
  <2> QED
    BY <2>1, <2>2
<1>9. ASSUME NEW k \in 2..p.count PROVE Succeeds(Nth(p, k - 1), Nth(p, k))
  <2>1. CASE k \in 1..c
    <3>1. k \in 2..r.count /\ k - 1 \in 1..c
      BY <1>1, <2>1
    <3> QED
      BY <2>1, <3>1 DEF Line
  <2>2. CASE k = c + 1
    <3>1. c \in 1..c /\ k - 1 = c /\ 1 \in 1..m /\ c \in 1..r.count /\ c > 0
      BY <1>1, <2>2
    <3>2. Nth(p, k - 1) = Nth(r, c) /\ Nth(p, k) = items[1]
      BY <2>2, <3>1
    <3>3. items[1].part = 1 /\ Nth(r, c).part = Nth(r, c).of /\ Nth(r, c).of \in Nat
      BY <3>1 DEF Whole, Line, Control
    <3> QED
      BY <3>2, <3>3 DEF Succeeds
  <2>3. CASE k > c + 1
    <3> DEFINE j == k - c
               h == j - 1
    <3>1. j \in 1..m /\ h \in 1..m /\ k = c + j /\ k - 1 = c + h /\ h < m
      BY <1>1, <2>3
    <3> HIDE DEF j, h
    <3>2. Nth(p, k) = items[j] /\ Nth(p, k - 1) = items[h]
      BY <3>1
    <3>3. items[j].n = n /\ items[h].n = n /\ items[h].part = h /\ items[h].of = m
      BY <3>1 DEF Whole
    <3> QED
      BY <3>1, <3>2, <3>3 DEF Succeeds
  <2> QED
    BY <1>1, <2>1, <2>2, <2>3
<1>10. ASSUME p.count > 0
       PROVE  /\ Nth(p, p.count).part = Nth(p, p.count).of
              /\ Nth(p, 1).n # front.n => Nth(p, 1).part = 1
  <2>1. Nth(p, p.count).part = Nth(p, p.count).of
    <3>1. CASE m = 0
      <4>1. p.count = c /\ c \in 1..c
        BY <1>1, <1>10, <3>1
      <4> QED
        BY <1>10, <4>1
    <3>2. CASE m # 0
      <4>1. m \in 1..m
        BY <3>2
      <4> QED
        BY <4>1 DEF Whole
    <3> QED
      BY <3>1, <3>2
  <2>2. Nth(p, 1).n # front.n => Nth(p, 1).part = 1
    <3>1. CASE c = 0
      <4>1. 1 \in 1..m /\ c + 1 = 1
        BY <1>10, <3>1
      <4>2. Nth(p, 1) = items[1]
        BY <4>1
      <4> QED
        BY <4>1, <4>2 DEF Whole
    <3>2. CASE c # 0
      <4>1. 1 \in 1..c /\ r.count > 0
        BY <1>1, <3>2
      <4> QED
        BY <4>1 DEF Line
    <3> QED
      BY <3>1, <3>2
  <2> QED
    BY <2>1, <2>2
<1>11. front.n \in more \cup {0} /\ front.part \in Nat /\ front.after \subseteq more
  BY DEF Line, more
<1> QED
  BY <1>1, <1>7, <1>8, <1>9, <1>10, <1>11 DEF Line, more

\* An event that leaves no control behind.
LEMMA LineLater ==
  ASSUME NEW r, NEW front, NEW done, Line(r, front, done), NEW n \in Nat \ {0}, n \notin done
  PROVE  Line(r, front, done \cup {n})
<1>1. r.count \in Nat /\ RingType(r)
  BY RingIs DEF Line
<1>2. r.count \in 0..r.count /\ (r.count > 0 => Nth(r, r.count).part = Nth(r, r.count).of) /\ r.count = r.count + 0
  BY <1>1 DEF Line
<1>3. Whole(<<>>, 0, n, done) /\ 0 \in Nat /\ \A k \in 1..0 : Nth(r, r.count + k) = (<<>>)[k]
  BY DEF Whole
<1> QED
  BY <1>1, <1>2, <1>3, LayLine

\* A control alone of a new event.
Single(x, n, done) == Whole(<<x>>, 1, n, done)

LEMMA PutLine ==
  ASSUME NEW r, NEW front, NEW done, Line(r, front, done), r.count < Capacity,
         NEW n \in Nat \ {0}, n \notin done, NEW x, Single(x, n, done)
  PROVE  Line(Put(r, x), front, done \cup {n})
<1> DEFINE p == Put(r, x)
<1>1. /\ RingType(p) /\ p.count = r.count + 1 /\ Nth(p, r.count + 1) = x
      /\ \A k \in 1..r.count : Nth(p, k) = Nth(r, k)
  BY PutQueues DEF Line
<1> HIDE DEF p
<1>2. r.count \in Nat /\ r.count \in 0..r.count /\ (r.count > 0 => Nth(r, r.count).part = Nth(r, r.count).of)
  BY RingIs DEF Line
<1>3. Whole(<<x>>, 1, n, done) /\ 1 \in Nat /\ \A k \in 1..1 : Nth(p, r.count + k) = (<<x>>)[k]
  BY <1>1 DEF Single
<1>4. Line(p, front, done \cup {n})
  BY <1>1, <1>2, <1>3, LayLine
<1> QED
  BY <1>4 DEF p

\* A move takes the place of a last move, which is no part of a batch.
LEMMA MergeLine ==
  ASSUME NEW r, NEW front, NEW done, Line(r, front, done), NEW x, Merges(r, x),
         NEW n \in Nat \ {0}, n \notin done, Single(x, n, done)
  PROVE  Line([r EXCEPT !.at[Slot(r, r.count - 1)] = x], front, done \cup {n})
<1> DEFINE p == [r EXCEPT !.at[Slot(r, r.count - 1)] = x]
           c == r.count - 1
<1>1. r.count > 0 /\ Nth(r, r.count).type = "Touch"
  BY DEF Merges, Nth
<1>2. /\ RingType(p) /\ p.count = r.count /\ Nth(p, r.count) = x
      /\ \A k \in 1..(r.count - 1) : Nth(p, k) = Nth(r, k)
  BY <1>1, MergeQueues, ZenonT(30) DEF Line
<1> HIDE DEF p
<1>3. r.count \in Nat \ {0} /\ r.count \in 1..r.count /\ c \in 0..r.count /\ c + 1 = r.count
  BY <1>1, RingIs DEF Line
<1>4. Control(Nth(r, r.count), done) /\ Nth(r, r.count).part = 1
  <2>1. Control(Nth(r, r.count), done)
    BY <1>3 DEF Line
  <2> QED
    BY <1>1, <2>1 DEF Control
<1>5. ASSUME c > 0 PROVE Nth(r, c).part = Nth(r, c).of
  <2> DEFINE y == Nth(r, c)
             z == Nth(r, r.count)
  <2>1. r.count \in 2..r.count /\ c \in 1..(r.count - 1) /\ c \in 1..r.count /\ r.count - c = 1
    BY <1>3, <1>5
  <2>2. Succeeds(y, z) /\ Behind(y, z, 1) /\ Control(y, done)
    BY <1>3, <2>1 DEF Line
  <2> HIDE DEF y, z
  <2>3. z.part = 1
    BY <1>4 DEF z
  <2>4. y.part = y.of
    BY <2>2, <2>3 DEF Succeeds, Behind, Control
  <2> QED
    BY <2>4 DEF y
<1> HIDE DEF c
<1>6. p.count = c + 1 /\ (\A k \in 1..c : Nth(p, k) = Nth(r, k)) /\ Nth(p, c + 1) = x
  BY <1>2, <1>3 DEF c
<1>7. Whole(<<x>>, 1, n, done) /\ 1 \in Nat /\ \A k \in 1..1 : Nth(p, c + k) = (<<x>>)[k]
  BY <1>6 DEF Single
<1>8. RingType(p) /\ c \in 0..r.count /\ (c > 0 => Nth(r, c).part = Nth(r, c).of)
  BY <1>2, <1>3, <1>5
<1>9. Line(p, front, done \cup {n})
  BY <1>6, <1>7, <1>8, LayLine
<1> QED
  BY <1>9 DEF p

LEMMA BatchLine ==
  ASSUME NEW r, NEW front, NEW done, Line(r, front, done), NEW n \in Nat \ {0}, n \notin done,
         NEW items, NEW m \in Nat, DOMAIN items = 1..m, Len(items) = m, Whole(items, m, n, done)
  PROVE  Line(EnqueueBatch(r, items), front, done \cup {n})
<1>1. CASE r.count + m > Capacity
  BY <1>1, LineLater DEF EnqueueBatch
<1>2. CASE ~ (r.count + m > Capacity)
  <2> DEFINE p == EnqueueBatch(r, items)
  <2>1. RingType(r) /\ r.count \in Nat /\ Capacity \in Nat
    BY RingIs DEF Line
  <2>2. Batched(r, items, p)
    <3>1. r.count + m <= Capacity
      BY <1>2, <2>1
    <3> QED
      BY <2>1, <3>1, BatchQueues
  <2> HIDE DEF p
  <2>3. /\ RingType(p) /\ p.count = r.count + m /\ \A k \in 1..r.count : Nth(p, k) = Nth(r, k)
        /\ \A k \in 1..m : Nth(p, r.count + k) = items[k]
    BY <2>2 DEF Batched
  <2>4. r.count \in 0..r.count /\ (r.count > 0 => Nth(r, r.count).part = Nth(r, r.count).of)
    BY <2>1 DEF Line
  <2>5. Line(p, front, done \cup {n})
    BY <2>3, <2>4, LayLine
  <2> QED
    BY <2>5 DEF p
<1> QED
  BY <1>1, <1>2

\* The session takes the first.
LEMMA TakeLine ==
  ASSUME NEW r, NEW front, NEW done, Line(r, front, done), r.count > 0,
         NEW x, x.n = Nth(r, 1).n, x.part = Nth(r, 1).part, x.after = Nth(r, 1).after
  PROVE  Line(TakeFrom(r), x, done)
<1> DEFINE p == TakeFrom(r)
<1>1. /\ RingType(p) /\ p.count = r.count - 1
      /\ \A k \in 1..(r.count - 1) : Nth(p, k) = Nth(r, k + 1)
  BY TakeQueues DEF Line
<1> HIDE DEF p
<1>2. r.count \in Nat \ {0} /\ 1 \in 1..r.count
  BY RingIs DEF Line
<1>3. Control(Nth(r, 1), done)
  BY <1>2 DEF Line
<1>4. ASSUME NEW k \in 1..p.count PROVE Control(Nth(p, k), done) /\ Behind(x, Nth(p, k), k)
  <2>1. k + 1 \in 1..r.count /\ Nth(p, k) = Nth(r, k + 1) /\ 1 \in 1..((k + 1) - 1) /\ (k + 1) - 1 = k
    BY <1>1, <1>2
  <2>2. Behind(Nth(r, 1), Nth(r, k + 1), k)
    BY <2>1 DEF Line
  <2> QED
    BY <2>1, <2>2 DEF Line, Behind
<1>5. ASSUME NEW k \in 1..p.count, NEW i \in 1..(k - 1) PROVE Behind(Nth(p, i), Nth(p, k), k - i)
  <2>1. /\ k + 1 \in 1..r.count /\ Nth(p, k) = Nth(r, k + 1) /\ i \in 1..(r.count - 1)
        /\ i + 1 \in 1..((k + 1) - 1) /\ (k + 1) - (i + 1) = k - i
    BY <1>1, <1>2
  <2>2. Nth(p, i) = Nth(r, i + 1)
    BY <1>1, <2>1
  <2>3. Behind(Nth(r, i + 1), Nth(r, k + 1), (k + 1) - (i + 1))
    BY <2>1 DEF Line
  <2> QED
    BY <2>1, <2>2, <2>3
<1>6. ASSUME NEW k \in 2..p.count PROVE Succeeds(Nth(p, k - 1), Nth(p, k))
  <2>1. /\ k + 1 \in 2..r.count /\ Nth(p, k) = Nth(r, k + 1)
        /\ k - 1 \in 1..(r.count - 1) /\ (k - 1) + 1 = k /\ (k + 1) - 1 = k
    BY <1>1, <1>2
  <2>2. Nth(p, k - 1) = Nth(r, k)
    BY <1>1, <2>1
  <2>3. Succeeds(Nth(r, (k + 1) - 1), Nth(r, k + 1))
    BY <2>1 DEF Line
  <2> QED
    BY <2>1, <2>2, <2>3
<1>7. ASSUME p.count > 0
      PROVE  Nth(p, p.count).part = Nth(p, p.count).of /\ (Nth(p, 1).n # x.n => Nth(p, 1).part = 1)
  <2>1. Nth(p, p.count) = Nth(r, r.count) /\ Nth(p, 1) = Nth(r, 2)
    <3>1. r.count - 1 \in 1..(r.count - 1) /\ 1 \in 1..(r.count - 1) /\ (r.count - 1) + 1 = r.count
      BY <1>1, <1>2, <1>7
    <3> QED
      BY <1>1, <3>1
  <2>2. 2 \in 2..r.count /\ 2 - 1 = 1
    BY <1>1, <1>2, <1>7
  <2>3. Succeeds(Nth(r, 1), Nth(r, 2))
    BY <2>2 DEF Line
  <2>4. Nth(r, r.count).part = Nth(r, r.count).of
    BY DEF Line
  <2> QED
    BY <2>1, <2>3, <2>4 DEF Succeeds
<1>8. x.n \in done \cup {0} /\ x.part \in Nat /\ x.after \subseteq done /\ done \subseteq Nat \ {0}
  BY <1>3 DEF Control, Line
<1> QED
  BY <1>1, <1>4, <1>5, <1>6, <1>7, <1>8 DEF Line, p

-----------------------------------------------------------------------------
\* What an event becomes

\* How the controls of the n-th event enter.
Entering(result, n, done) ==
  \/ result.into = "nowhere"
  \/ result.into = "push" /\ Single(result.items[1], n, done)
  \/ result.into = "batch" /\ \E m \in Nat : /\ DOMAIN result.items = 1..m /\ Len(result.items) = m
                                             /\ Whole(result.items, m, n, done)

\* Others may be through by the time they do.
LEMMA EnteringLater ==
  ASSUME NEW result, NEW n, NEW done, NEW more, done \subseteq more, Entering(result, n, done)
  PROVE  Entering(result, n, more)
<1>1. \A items, m : Whole(items, m, n, done) => Whole(items, m, n, more)
  BY DEF Whole
<1> QED
  BY <1>1 DEF Entering, Single

LEMMA EnterLine ==
  ASSUME NEW r, NEW front, NEW done, Line(r, front, done), NEW n \in Nat \ {0}, n \notin done,
         NEW result, Entering(result, n, done)
  PROVE  Line(Enter(r, result), front, done \cup {n})
<1>1. CASE result.into = "nowhere"
  BY <1>1, LineLater DEF Enter
<1>2. CASE result.into = "push" /\ Single(result.items[1], n, done)
  <2> DEFINE c == result.items[1]
  <2>1. Enter(r, result) = PushControl(r, c)
    BY <1>2 DEF Enter
  <2>2. Single(c, n, done)
    BY <1>2
  <2> HIDE DEF c
  <2>3. CASE Merges(r, c)
    <3>1. Enter(r, result) = [r EXCEPT !.at[Slot(r, r.count - 1)] = c]
      BY <2>1, <2>3 DEF PushControl
    <3>2. Line([r EXCEPT !.at[Slot(r, r.count - 1)] = c], front, done \cup {n})
      BY <2>2, <2>3, MergeLine
    <3> QED
      BY <3>1, <3>2, Zenon
  <2>4. CASE ~ Merges(r, c) /\ r.count < Capacity
    BY <2>1, <2>2, <2>4, PutLine DEF PushControl
  <2>5. CASE ~ Merges(r, c) /\ ~ (r.count < Capacity) /\ c.phase = "Move"
    BY <2>1, <2>5, LineLater DEF PushControl
  <2>6. CASE ~ Merges(r, c) /\ ~ (r.count < Capacity) /\ c.phase # "Move"
    <3>1. Enter(r, result) = Put(EmptyRing, c)
      BY <2>1, <2>6 DEF PushControl, Clear
    <3>2. Line(EmptyRing, front, done) /\ EmptyRing.count < Capacity
      BY ClearLine, ClearQueues, ControlsAssumption
    <3> QED
      BY <2>2, <3>1, <3>2, PutLine
  <2> QED
    BY <2>3, <2>4, <2>5, <2>6
<1>3. CASE result.into = "batch" /\ \E m \in Nat : /\ DOMAIN result.items = 1..m /\ Len(result.items) = m
                                                  /\ Whole(result.items, m, n, done)
  BY <1>3, BatchLine DEF Enter
<1> QED
  BY <1>1, <1>2, <1>3 DEF Entering

LEMMA NumberedIs ==
  ASSUME NEW result, result = [into |-> result.into, items |-> result.items], NEW n, NEW done
  PROVE  /\ Numbered(result, n, done).into = result.into
         /\ Numbered(result, n, done).items =
              [k \in DOMAIN result.items |->
                 [n |-> n, part |-> k, of |-> Len(result.items), after |-> done, type |-> result.items[k].type,
                  phase |-> result.items[k].phase, data |-> result.items[k].data]]
<1> DEFINE new == [k \in DOMAIN result.items |->
                     [n |-> n, part |-> k, of |-> Len(result.items), after |-> done, type |-> result.items[k].type,
                      phase |-> result.items[k].phase, data |-> result.items[k].data]]
<1>1. Numbered(result, n, done) = [result EXCEPT !.items = new]
  BY Zenon DEF Numbered
<1> HIDE DEF new
<1>2. Numbered(result, n, done).into = result.into /\ Numbered(result, n, done).items = new
  BY <1>1
<1>3. Numbered(result, n, done).into = result.into
  BY <1>2
<1>4. Numbered(result, n, done).items = new
  BY <1>2
<1> HIDE DEF Numbered
<1> QED
  BY <1>3, <1>4 DEF new

LEMMA DropEnters == ASSUME NEW n, NEW done PROVE Entering(Numbered(Drop, n, done), n, done)
<1>1. Numbered(Drop, n, done).into = "nowhere"
  BY DEF Drop, Numbered
<1> QED
  BY <1>1 DEF Entering

LEMMA PushEnters ==
  ASSUME NEW n \in Nat \ {0}, NEW done, NEW type, NEW phase, NEW data
  PROVE  Entering(Numbered(Push(type, phase, data), n, done), n, done)
<1> DEFINE result == Push(type, phase, data)
<1>1. /\ result = [into |-> result.into, items |-> result.items] /\ result.into = "push"
      /\ DOMAIN result.items = 1..1 /\ Len(result.items) = 1
  BY DEF Push
<1> HIDE DEF result
<1>2. Numbered(result, n, done).into = "push" /\ Single(Numbered(result, n, done).items[1], n, done)
  <2> DEFINE c == Numbered(result, n, done).items[1]
  <2>1. /\ c.n = n /\ c.part = 1 /\ c.of = 1 /\ c.after = done /\ Numbered(result, n, done).into = "push"
    <3>1. 1 \in DOMAIN result.items
      BY <1>1
    <3>2. Numbered(result, n, done).items[1] =
            [n |-> n, part |-> 1, of |-> 1, after |-> done, type |-> result.items[1].type,
             phase |-> result.items[1].phase, data |-> result.items[1].data]
      <4> DEFINE X == Numbered(result, n, done).items
                 f(k) == [n |-> n, part |-> k, of |-> Len(result.items), after |-> done, type |-> result.items[k].type,
                          phase |-> result.items[k].phase, data |-> result.items[k].data]
      <4>0. result = [into |-> result.into, items |-> result.items]
        BY <1>1
      <4>1. X = [k \in DOMAIN result.items |-> f(k)]
        BY <4>0, NumberedIs
      <4> HIDE DEF X, f
      <4>2. X[1] = f(1)
        BY <3>1, <4>1
      <4>3. f(1) = [n |-> n, part |-> 1, of |-> 1, after |-> done, type |-> result.items[1].type,
                    phase |-> result.items[1].phase, data |-> result.items[1].data]
        BY <1>1, Zenon DEF f
      <4> QED
        BY <4>2, <4>3 DEF X
    <3>3. Numbered(result, n, done).into = "push"
      BY <1>1 DEF Numbered
    <3> QED
      BY <3>2, <3>3
  <2> HIDE DEF c
  <2>2. Single(c, n, done)
    BY <2>1 DEF Single, Whole
  <2> QED
    BY <2>1, <2>2 DEF c
<1> QED
  BY <1>2 DEF Entering, result

LEMMA SomeEnter ==
  ASSUME NEW n \in Nat \ {0}, NEW done, NEW result, NEW m \in Nat,
         result = [into |-> "batch", items |-> result.items],
         DOMAIN result.items = 1..m, Len(result.items) = m,
         \A k \in 1..m : result.items[k].type # "Touch"
  PROVE  Entering(Numbered(result, n, done), n, done)
<1>1. result = [into |-> result.into, items |-> result.items] /\ result.into = "batch"
  OBVIOUS
<1> DEFINE items == Numbered(result, n, done).items
<1>2. /\ Numbered(result, n, done).into = "batch"
      /\ items = [k \in 1..m |->
                 [n |-> n, part |-> k, of |-> m, after |-> done, type |-> result.items[k].type,
                  phase |-> result.items[k].phase, data |-> result.items[k].data]]
  BY <1>1, NumberedIs
<1> HIDE DEF items
<1>3. DOMAIN items = 1..m /\ Len(items) = m
  <2> DEFINE S == {items[k] : k \in 1..m}
  <2>1. items \in [1..m -> S]
    BY <1>2
  <2> HIDE DEF S
  <2> QED
    BY <1>2, <2>1
<1>4. Whole(items, m, n, done)
  BY <1>2 DEF Whole
<1> QED
  BY <1>2, <1>3, <1>4 DEF Entering, items

LEMMA BatchEnters ==
  ASSUME NEW n \in Nat \ {0}, NEW done, NEW keys, NEW m \in Nat, DOMAIN keys = 1..m
  PROVE  Entering(Numbered(Batch(keys), n, done), n, done)
<1> DEFINE result == Batch(keys)
<1>1. /\ result = [into |-> "batch", items |-> result.items]
      /\ result.items = [k \in 1..m |-> [type |-> "Key", phase |-> "Up", data |-> keys[k]]]
  BY DEF Batch
<1> HIDE DEF result
<1>2. DOMAIN result.items = 1..m /\ Len(result.items) = m
      /\ \A k \in 1..m : result.items[k].type # "Touch"
  <2> DEFINE S == {result.items[k] : k \in 1..m}
  <2>1. result.items \in [1..m -> S]
    BY <1>1
  <2> HIDE DEF S
  <2> QED
    BY <1>1, <2>1
<1> QED
  BY <1>1, <1>2, SomeEnter DEF result

LEMMA KeyEnters ==
  ASSUME NEW n \in Nat \ {0}, NEW done, NEW e
  PROVE  Entering(Numbered(KeyControl(e), n, done), n, done) /\ Entering(Numbered(VoiceControl(e), n, done), n, done)
  BY DropEnters, PushEnters DEF KeyControl, VoiceControl, PushKey

LEMMA EventEnters ==
  ASSUME NEW n \in Nat \ {0}, NEW done, NEW e, Drivable(e), e.type \notin {"Foreground", "ModuleControl"}
  PROVE  Entering(Numbered(OnControl(e), n, done), n, done)
<1>1. CASE e.type = "Touch"
  BY <1>1, DropEnters, PushEnters DEF OnControl, TouchControl
<1>2. CASE e.type \in {"Key", "Voice"}
  BY <1>2, KeyEnters DEF OnControl
<1>3. CASE e.type = "MultiTouch"
  BY <1>3, DropEnters, PushEnters DEF OnControl, MultiTouchControl
<1>4. CASE e.type \in {"Gesture", "Proximity", "VehicleCtrl"}
  BY <1>4, DropEnters DEF OnControl
<1>5. CASE e.type = "Knob"
  <2> DEFINE repeats == IF e.dir = "Press" THEN 1 ELSE IF e.steps < 0 THEN -e.steps ELSE e.steps
             key == [Left |-> "move_left", Right |-> "move_right", Up |-> "move_up",
                     Down |-> "move_down", Press |-> "ok"][e.dir]
  <2>1. OnControl(e) = IF repeats \in 1..MaxKnobRepeat THEN Batch([k \in 1..repeats |-> key]) ELSE Drop
    BY <1>5 DEF OnControl, KnobControls
  <2> HIDE DEF repeats, key
  <2>2. repeats \in 1..MaxKnobRepeat => repeats \in Nat
    BY ControlsAssumption
  <2>3. repeats \in 1..MaxKnobRepeat => Entering(Numbered(Batch([k \in 1..repeats |-> key]), n, done), n, done)
    BY <2>2, BatchEnters
  <2> QED
    BY <2>1, <2>3, DropEnters
<1>6. CASE e.type = "Telephony"
  <2> DEFINE digits == [k \in DOMAIN e.dtmf |-> Digit[e.dtmf[k]]]
             call == IF e.dial THEN <<"phone_call">> ELSE <<>>
             keys == digits \o call
  <2>1. OnControl(e) = TelephonyControls(e) /\ e.dtmf \in Seq(STRING)
    BY <1>6 DEF OnControl, Drivable
  <2>2. \/ TelephonyControls(e) = Drop \/ TelephonyControls(e) = KeyControl(e)
        \/ TelephonyControls(e) = Batch(keys)
    BY DEF TelephonyControls
  <2>3. \E m \in Nat : DOMAIN keys = 1..m
    <3> DEFINE S == {Digit[e.dtmf[k]] : k \in DOMAIN e.dtmf} \cup {"phone_call"}
    <3>1. DOMAIN e.dtmf = 1..Len(e.dtmf) /\ Len(e.dtmf) \in Nat
      BY <2>1
    <3>2. digits \in Seq(S)
      <4>1. digits \in [1..Len(e.dtmf) -> S]
        BY <3>1
      <4> HIDE DEF digits, S
      <4> QED
        BY <3>1, <4>1
    <3>3. call \in Seq(S)
      <4>1. "phone_call" \in S
        OBVIOUS
      <4> HIDE DEF S
      <4>2. <<"phone_call">> \in Seq(S) /\ <<>> \in Seq(S)
        BY <4>1
      <4> QED
        BY <4>2
    <3> HIDE DEF digits, call, S
    <3>4. keys \in Seq(S)
      BY <3>2, <3>3
    <3> HIDE DEF keys
    <3> QED
      BY <3>4
  <2> HIDE DEF keys
  <2>4. Entering(Numbered(Batch(keys), n, done), n, done)
    BY <2>3, BatchEnters
  <2> QED
    BY <2>1, <2>2, <2>4, DropEnters, KeyEnters
<1> QED
  BY <1>1, <1>2, <1>3, <1>4, <1>5, <1>6 DEF Drivable

LEMMA CommandEnters ==
  ASSUME NEW n \in Nat \ {0}, NEW done, NEW e, e.type \in {"Foreground", "ModuleControl"}
  PROVE  Entering(Numbered(Command(e), n, done), n, done)
<1>1. CASE e.valid
  <2> DEFINE result == Command(e)
  <2>1. /\ result = [into |-> "batch", items |-> result.items]
        /\ result.items = <<[type |-> e.type, phase |-> "Up", data |-> "none"]>>
    BY <1>1 DEF Command
  <2> HIDE DEF result
  <2>2. DOMAIN result.items = 1..1 /\ Len(result.items) = 1 /\ \A k \in 1..1 : result.items[k].type # "Touch"
    BY <2>1
  <2> QED
    BY <2>1, <2>2, SomeEnter DEF result
<1>2. CASE ~ e.valid
  BY <1>2, DropEnters DEF Command
<1> QED
  BY <1>1, <1>2

-----------------------------------------------------------------------------
\* The steps

\* Controls on their way to the ring are of events of their own, none of which is through.
InLine ==
  /\ {"events", "taken", "through"} \subseteq DOMAIN env
  /\ env.plan \in Plan /\ env.events \in Nat /\ env.through \subseteq 1..env.events
  /\ Line(ring, env.taken, env.through)
  /\ DOMAIN car = Worker
  /\ \A w \in Worker : \/ car[w] = Nothing
                       \/ /\ car[w].at = "sink" /\ car[w].n \in (1..env.events) \ env.through
                          /\ Entering(car[w].what, car[w].n, env.through)
  /\ \A v, w \in Worker : car[v].at = "sink" /\ car[w].at = "sink" /\ car[v].n = car[w].n => v = w

LEMMA InitInLine == Init => InLine
<1> SUFFICES ASSUME Init PROVE InLine
  OBVIOUS
<1>1. /\ car = Free /\ ring = EmptyRing /\ env.events = 0 /\ env.taken = NoItem
      /\ env.through = {} /\ env.plan \in Plan /\ {"events", "taken", "through"} \subseteq DOMAIN env
  BY DEF Init
<1>2. Line(EmptyRing, NoItem, {})
  <2>1. RingType(EmptyRing) /\ EmptyRing.count = 0
    BY ClearQueues
  <2> QED
    BY <2>1 DEF Line, NoItem
<1>3. DOMAIN car = Worker /\ \A w \in Worker : car[w] = Nothing /\ car[w].at # "sink"
  BY <1>1 DEF Free, Nothing
<1> QED
  BY <1>1, <1>2, <1>3 DEF InLine

\* A worker brings an event.
LEMMA RouteInLine == ASSUME InLine, NEW w \in Worker, RouteControl(w) PROVE InLine'
<1> DEFINE n == env.events + 1
           done == env.through
<1>1. PICK e \in env.plan.events :
        car' = [car EXCEPT ![w] = [at |-> "sink", n |-> n,
                                   what |-> Numbered(IF IsCommand(e) THEN Command(e) ELSE OnControl(e), n, done)]]
  BY DEF RouteControl
<1>2. UNCHANGED ring /\ env' = [env EXCEPT !.events = @ + 1]
  BY DEF RouteControl
<1>3. /\ env'.plan = env.plan /\ env'.events = n /\ env'.taken = env.taken /\ env'.through = done
      /\ DOMAIN env' = DOMAIN env
      /\ n \in Nat \ {0} /\ n \notin 1..env.events /\ 1..env.events \subseteq 1..n /\ n \in 1..n
  BY <1>2 DEF InLine
<1> DEFINE what == Numbered(IF IsCommand(e) THEN Command(e) ELSE OnControl(e), n, done)
<1>4. Entering(what, n, done)
  <2>1. Drivable(e)
    BY PlanAssumption DEF InLine
  <2> QED
    BY <1>3, <2>1, EventEnters, CommandEnters DEF IsCommand
<1> HIDE DEF n, done, what
<1>5. /\ DOMAIN car' = Worker
      /\ car'[w].at = "sink" /\ car'[w].n = n /\ car'[w].what = what
      /\ \A v \in Worker : v # w => car'[v] = car[v]
  BY <1>1 DEF what, InLine
<1>6. n \in (1..n) \ done
  BY <1>3 DEF InLine, done
<1>7. ASSUME NEW v \in Worker
      PROVE  \/ car'[v] = Nothing
             \/ /\ car'[v].at = "sink" /\ car'[v].n \in (1..n) \ done
                /\ Entering(car'[v].what, car'[v].n, done)
  <2>1. CASE v = w
    BY <1>4, <1>5, <1>6, <2>1
  <2>2. CASE v # w
    BY <1>3, <1>5, <2>2 DEF InLine, done
  <2> QED
    BY <2>1, <2>2
<1>8. ASSUME NEW u \in Worker, NEW v \in Worker, car'[u].at = "sink", car'[v].at = "sink", car'[u].n = car'[v].n
      PROVE  u = v
  <2>1. \A x \in Worker : car[x].at = "sink" => car[x].n # n
    BY <1>3 DEF InLine, Nothing
  <2> QED
    BY <1>5, <1>8, <2>1 DEF InLine
<1>9. Line(ring', env'.taken, env'.through) /\ env'.through \subseteq 1..env'.events
  BY <1>2, <1>3 DEF InLine, done
<1> QED
  BY <1>3, <1>5, <1>7, <1>8, <1>9 DEF InLine

\* And the adapter has it.
LEMMA EnterInLine == ASSUME InLine, NEW w \in Worker, OnControlEnters(w) PROVE InLine'
<1> DEFINE n == car[w].n
           more == env.through \cup {n}
<1>1. /\ car[w].at = "sink" /\ ring' = Enter(ring, car[w].what) /\ env' = [env EXCEPT !.through = more]
      /\ car' = [car EXCEPT ![w] = Nothing]
  BY DEF OnControlEnters
<1>2. /\ n \in (1..env.events) \ env.through /\ env.events \in Nat
      /\ Entering(car[w].what, n, env.through)
  BY <1>1 DEF InLine, Nothing
<1>3. /\ env'.plan = env.plan /\ env'.events = env.events /\ env'.taken = env.taken /\ env'.through = more
      /\ DOMAIN env' = DOMAIN env
  <2> HIDE DEF more
  <2> QED
    BY <1>1 DEF InLine
<1> HIDE DEF n
<1>4. Line(ring', env.taken, more)
  <2>1. n \in Nat \ {0} /\ n \notin env.through
    BY <1>2
  <2> QED
    BY <1>1, <1>2, <2>1, EnterLine DEF InLine
<1>5. /\ DOMAIN car' = Worker /\ car'[w] = Nothing /\ car'[w].at # "sink"
      /\ \A v \in Worker : v # w => car'[v] = car[v]
  BY <1>1 DEF InLine, Nothing
<1>6. ASSUME NEW v \in Worker
      PROVE  \/ car'[v] = Nothing
             \/ /\ car'[v].at = "sink" /\ car'[v].n \in (1..env.events) \ more
                /\ Entering(car'[v].what, car'[v].n, more)
  <2>1. CASE v = w
    BY <1>5, <2>1
  <2>2. CASE v # w /\ car[v] # Nothing
    <3>1. car[v].at = "sink" /\ car[v].n \in (1..env.events) \ env.through /\ Entering(car[v].what, car[v].n, env.through)
      BY <2>2 DEF InLine
    <3>2. car[v].n # n
      BY <1>1, <2>2, <3>1 DEF InLine, n
    <3>3. Entering(car[v].what, car[v].n, more)
      BY <3>1, EnteringLater
    <3> QED
      BY <1>5, <2>2, <3>1, <3>2, <3>3
  <2> QED
    BY <1>5, <2>1, <2>2
<1>7. \A u, v \in Worker : car'[u].at = "sink" /\ car'[v].at = "sink" /\ car'[u].n = car'[v].n => u = v
  BY <1>5 DEF InLine
<1>8. more \subseteq 1..env.events
  BY <1>2 DEF InLine
<1> HIDE DEF more
<1> QED
  BY <1>3, <1>4, <1>5, <1>6, <1>7, <1>8 DEF InLine

LEMMA NextInLine == InLine /\ [Next]_vars => InLine'
<1> SUFFICES ASSUME InLine, [Next]_vars PROVE InLine'
  OBVIOUS
<1>1. ASSUME UNCHANGED <<ring, car>>, env'.plan = env.plan, env'.events = env.events,
             env'.taken = env.taken, env'.through = env.through,
             DOMAIN env' = DOMAIN env
      PROVE  InLine'
  BY <1>1 DEF InLine
<1>2. ASSUME UNCHANGED <<ring, car, env>> PROVE InLine'
  BY <1>1, <1>2
<1>3. CASE Owner
  <2>1. CASE Cleanup
    <3>1. ring' = EmptyRing /\ UNCHANGED <<car, env>>
      BY <2>1 DEF Cleanup, Clear
    <3>2. Line(ring', env.taken, env.through)
      BY <3>1, ClearLine DEF InLine
    <3> QED
      BY <3>1, <3>2 DEF InLine
  <2> QED
    BY <1>2, <1>3, <2>1 DEF Owner, Start, LoadSession, TellSession
<1>4. CASE Thread
  BY <1>2, <1>4 DEF Thread, Again, GiveUp, BootstrapFailed, MakeSession, Connected, NotConnected,
    BeginLoop, LeaveLoop, SessionOver, Unpublish, LeaveMedia, Detach, Exit
<1>5. CASE Surroundings
  <2>1. CASE Stop \/ PhoneFound \/ PhoneLeaves \/ Established
    BY <1>2, <2>1 DEF Stop, PhoneFound, PhoneLeaves, SessionOver, Established
  <2>2. CASE Callback
    BY <1>1, <2>2 DEF Callback
  <2>3. CASE TakeControl
    <3> DEFINE x == [n |-> Queued(ring)[1].n, part |-> Queued(ring)[1].part,
                     of |-> Queued(ring)[1].of, after |-> Queued(ring)[1].after]
    <3>1. /\ ring.count > 0 /\ ring' = TakeFrom(ring) /\ UNCHANGED car
          /\ env' = [env EXCEPT !.taken = x]
      BY <2>3 DEF TakeControl
    <3>2. RingType(ring)
      BY DEF InLine, Line
    <3>3. Queued(ring)[1] = Nth(ring, 1)
      <4>1. 1 \in 1..ring.count
        BY <3>1, <3>2, RingIs
      <4> QED
        BY <4>1 DEF Queued, Nth
    <3>4. x.n = Nth(ring, 1).n /\ x.part = Nth(ring, 1).part /\ x.after = Nth(ring, 1).after
      BY <3>3
    <3> HIDE DEF x
    <3>5. /\ env'.plan = env.plan /\ env'.events = env.events /\ env'.through = env.through
          /\ env'.taken = x /\ DOMAIN env' = DOMAIN env
      BY <3>1 DEF InLine
    <3>6. Line(ring', x, env.through)
      BY <3>1, <3>4, TakeLine DEF InLine
    <3> QED
      BY <3>1, <3>5, <3>6 DEF InLine
  <2>4. ASSUME NEW w \in Worker, RouteControl(w) \/ OnControlEnters(w) PROVE InLine'
    BY <2>4, RouteInLine, EnterInLine
  <2> QED
    BY <1>5, <2>1, <2>2, <2>3, <2>4 DEF Surroundings
<1>6. CASE Over \/ UNCHANGED vars
  BY <1>2, <1>6 DEF Over, vars
<1> QED
  BY <1>3, <1>4, <1>5, <1>6 DEF Next

\* However many workers bring the car's controls, the session takes none before
\* one of an event that had been answered when its own was accepted; and of a batch
\* all or, once the ring is cleared, none: for any capacity, any number of events,
\* and a session that may begin or end at any time.
THEOREM ControlsAlwaysInOrder == Spec => []ControlsInOrder
<1>1. InLine => ControlsInOrder
  <2> SUFFICES ASSUME InLine PROVE ControlsInOrder
    OBVIOUS
  <2> DEFINE q == Queued(ring)
  <2>1. Line(ring, env.taken, env.through)
    BY DEF InLine
  <2>2. ring.count \in Nat /\ q = [n \in 1..ring.count |-> Nth(ring, n)]
    BY <2>1, RingIs DEF Line, Queued, Nth
  <2> HIDE DEF q
  <2>3. DOMAIN q = 1..ring.count /\ Len(q) = ring.count /\ (q # <<>> => ring.count > 0)
    <3> DEFINE S == {q[k] : k \in 1..ring.count}
    <3>1. q \in [1..ring.count -> S]
      BY <2>2
    <3> HIDE DEF S
    <3> QED
      BY <2>2, <3>1
  <2>4. ASSUME NEW k \in DOMAIN q
        PROVE  Behind(env.taken, q[k], k) /\ \A i \in 1..(k - 1) : Behind(q[i], q[k], k - i)
    <3>1. k \in 1..ring.count /\ q[k] = Nth(ring, k) /\ \A i \in 1..(k - 1) : i \in 1..ring.count
      BY <2>2, <2>3
    <3>2. \A i \in 1..(k - 1) : q[i] = Nth(ring, i)
      BY <2>2, <3>1
    <3> QED
      BY <2>1, <3>1, <3>2 DEF Line
  <2>5. ASSUME NEW k \in 2..Len(q) PROVE Succeeds(q[k - 1], q[k])
    <3>1. k \in 2..ring.count /\ k - 1 \in 1..ring.count /\ k \in 1..ring.count
      BY <2>2, <2>3
    <3>2. q[k - 1] = Nth(ring, k - 1) /\ q[k] = Nth(ring, k)
      BY <2>2, <3>1
    <3> QED
      BY <2>1, <3>1, <3>2 DEF Line
  <2>6. ASSUME q # <<>>
        PROVE  q[Len(q)].part = q[Len(q)].of /\ (q[1].n # env.taken.n => q[1].part = 1)
    <3>1. ring.count > 0 /\ 1 \in 1..ring.count /\ ring.count \in 1..ring.count
      BY <2>2, <2>3, <2>6
    <3>2. q[1] = Nth(ring, 1) /\ q[Len(q)] = Nth(ring, ring.count)
      BY <2>2, <2>3, <3>1
    <3> QED
      BY <2>1, <3>1, <3>2 DEF Line
  <2> QED
    BY <2>4, <2>5, <2>6 DEF ControlsInOrder, Succeeds, q
<1> QED
  BY <1>1, InitInLine, NextInLine, PTL DEF Spec

-----------------------------------------------------------------------------
(* Frames.                                                                 *)

LEMMA SameSeq ==
  ASSUME NEW S, NEW s \in Seq(S), NEW t \in Seq(S), NEW n \in Nat, Len(s) = n, Len(t) = n,
         \A i \in 1..n : s[i] = t[i]
  PROVE  s = t
  OBVIOUS

Frame == [svc : Nat, payload : Seq(Nat)]
Readers == [frames : Seq(Frame), part : Seq(Nat)]

LEMMA ReadCellType == \A r \in Readers, c \in Nat : ReadCell(r, c) \in Readers
<1> SUFFICES ASSUME NEW r \in Readers, NEW c \in Nat PROVE ReadCell(r, c) \in Readers
  OBVIOUS
<1> DEFINE part == Append(r.part, c)
<1>1. part \in Seq(Nat) /\ r.frames \in Seq(Frame)
  BY DEF Readers
<1> DEFINE e == [svc |-> part[2], payload |-> Beyond(part, 2)]
<1>2. CASE FullFrame(part)
  <2>1. part[2] \in Nat /\ Beyond(part, 2) \in Seq(Nat)
    BY <1>1, <1>2 DEF FullFrame, Beyond
  <2>2. e \in Frame
    BY <2>1 DEF Frame
  <2>3. ReadCell(r, c) = [frames |-> Append(r.frames, e), part |-> <<>>]
    BY <1>2 DEF ReadCell
  <2> HIDE DEF e
  <2>4. Append(r.frames, e) \in Seq(Frame)
    BY <1>1, <2>2
  <2> QED
    BY <2>3, <2>4 DEF Readers
<1>3. CASE ~FullFrame(part)
  <2> HIDE DEF part
  <2>1. [r EXCEPT !.part = part] \in Readers
    BY <1>1 DEF Readers
  <2> QED
    BY <1>3, <2>1 DEF ReadCell, part
<1> QED
  BY <1>2, <1>3

\* What DecodeFrames computes by.
Reading(q, c) ==
  c = [s \in SUBSET DOMAIN q |-> IF s = {} THEN Waiting ELSE ReadCell(c[s \ {Largest(s)}], q[Largest(s)])]

\* The reader after each cell.
ReadingRun(q, g) ==
  /\ g \in [0..Len(q) -> Readers] /\ g[0] = Waiting /\ g[Len(q)].frames = DecodeFrames(q)
  /\ \A n \in 1..Len(q) : g[n] = ReadCell(g[n - 1], q[n])

LEMMA FramesFold ==
  ASSUME NEW q \in Seq(Nat) PROVE \E g : ReadingRun(q, g)
<1> DEFINE F == [p \in Nat \X Readers |-> ReadCell(p[2], p[1])]
           c == CHOOSE h : Reading(q, h)
<1>0. Waiting \in Readers
  BY DEF Waiting, Readers
<1>1. F \in [Nat \X Readers -> Readers]
  BY ReadCellType
<1>2. \A i \in Nat, x \in Readers : F[<<i, x>>] = ReadCell(x, i)
  OBVIOUS
<1> HIDE DEF F
<1>3. DOMAIN q = 1..Len(q) /\ Len(q) \in Nat /\ \A k \in DOMAIN q : q[k] \in Nat
  OBVIOUS
<1>4. \E h : Reading(q, h)
  <2>1. PICK h \in [SUBSET DOMAIN q -> Readers] : Folding(F, Waiting, q, h)
    BY <1>0, <1>1, FoldingExists
  <2>2. ASSUME NEW s \in SUBSET DOMAIN q, s # {}
        PROVE  h[s] = ReadCell(h[s \ {Largest(s)}], q[Largest(s)])
    <3>1. Largest(s) \in DOMAIN q
      BY <1>3, <2>2, LargestIn
    <3>2. h[s \ {Largest(s)}] \in Readers
      BY <2>1
    <3>3. h[s] = F[<<q[Largest(s)], h[s \ {Largest(s)}]>>]
      BY <2>1, <2>2 DEF Folding
    <3> QED
      BY <1>2, <1>3, <3>1, <3>2, <3>3
  <2>3. h[{}] = Waiting
    BY <2>1 DEF Folding
  <2>4. h = [s \in SUBSET DOMAIN q |-> h[s]]
    BY <2>1
  <2>5. Reading(q, h)
    BY <2>2, <2>3, <2>4 DEF Reading
  <2> QED
    BY <2>5
<1>5. Reading(q, c)
  BY <1>4
<1>6. FoldLeft(ReadCell, Waiting, q) = c[DOMAIN q]
  BY DEF FoldLeft, MapThenFoldSet, Reading, Largest, Max
<1> HIDE DEF c
<1>7. c[{}] = Waiting
  BY <1>5 DEF Reading
<1>8. ASSUME NEW s \in SUBSET DOMAIN q, s # {}, c[s \ {Largest(s)}] \in Readers
      PROVE  c[s] = F[<<q[Largest(s)], c[s \ {Largest(s)}]>>]
  <2>1. Largest(s) \in DOMAIN q
    BY <1>3, <1>8, LargestIn
  <2>2. c[s] = ReadCell(c[s \ {Largest(s)}], q[Largest(s)])
    BY <1>5, <1>8 DEF Reading
  <2> QED
    BY <1>2, <1>3, <1>8, <2>1, <2>2
<1>9. Computed(F, Readers, Waiting, q, c)
  BY <1>7, <1>8 DEF Computed
<1>10. PICK g : Traced(F, Readers, Waiting, q, g) /\ g[Len(q)] = c[DOMAIN q]
  <2>1. Foldable(Nat, F, Readers, Waiting, q)
    BY <1>0, <1>1 DEF Foldable
  <2> QED
    BY <1>9, <2>1, FoldingSteps
<1>11. g \in [0..Len(q) -> Readers] /\ g[0] = Waiting
  BY <1>10 DEF Traced
<1>12. ASSUME NEW n \in 1..Len(q) PROVE g[n] = ReadCell(g[n - 1], q[n])
  <2>1. n - 1 \in 0..Len(q) /\ q[n] \in Nat
    BY <1>3
  <2>2. g[n - 1] \in Readers
    BY <1>11, <2>1
  <2>3. g[n] = F[<<q[n], g[n - 1]>>]
    BY <1>10 DEF Traced
  <2> QED
    BY <1>2, <2>1, <2>2, <2>3
<1>13. g[Len(q)].frames = DecodeFrames(q)
  BY <1>6, <1>10 DEF DecodeFrames
<1> QED
  BY <1>11, <1>12, <1>13 DEF ReadingRun
\* Where each frame of q ends among the cells b.
Laid(q, b, pos) ==
  /\ pos \in [0..Len(q) -> Nat] /\ pos[0] = 0 /\ pos[Len(q)] = Len(b)
  /\ \A k \in 1..Len(q) :
       /\ pos[k] = pos[k - 1] + 2 + Len(q[k].payload)
       /\ b[pos[k - 1] + 1] = Len(q[k].payload) /\ b[pos[k - 1] + 2] = q[k].svc
       /\ \A i \in 1..Len(q[k].payload) : b[pos[k - 1] + 2 + i] = q[k].payload[i]

\* The reader has k frames, and what has come of the next one.
ReadTo(q, b, pos, n, k, r) ==
  /\ k \in 0..Len(q) /\ pos[k] <= n /\ (k < Len(q) => n < pos[k + 1])
  /\ r = [frames |-> SubSeq(q, 1, k), part |-> SubSeq(b, pos[k] + 1, n)]

LEMMA Piece ==
  ASSUME NEW S, NEW b \in Seq(S), NEW p \in Nat, NEW n \in Nat, p <= n, n <= Len(b)
  PROVE  /\ SubSeq(b, p + 1, n) \in Seq(S) /\ Len(SubSeq(b, p + 1, n)) = n - p
         /\ \A i \in 1..(n - p) : SubSeq(b, p + 1, n)[i] = b[p + i]
<1>1. p + 1 \in Int /\ n \in Int /\ Len(b) \in Nat
  OBVIOUS
<1>2. \A i \in (p + 1)..n : i \in 1..Len(b)
  BY <1>1
<1>3. SubSeq(b, p + 1, n) \in Seq(S)
  BY <1>1, <1>2
<1>4. Len(SubSeq(b, p + 1, n)) = n - p
  BY <1>1
<1>5. ASSUME NEW i \in 1..(n - p) PROVE SubSeq(b, p + 1, n)[i] = b[p + i]
  <2>1. SubSeq(b, p + 1, n)[i] = b[p + 1 + i - 1]
    BY <1>1, <1>5
  <2>2. p + 1 + i - 1 = p + i
    BY <1>5
  <2> QED
    BY <2>1, <2>2
<1> QED
  BY <1>3, <1>4, <1>5

BeyondIs(s, n, S) ==
  /\ Beyond(s, n) \in Seq(S) /\ Len(Beyond(s, n)) = Len(s) - n
  /\ \A i \in 1..(Len(s) - n) : Beyond(s, n)[i] = s[n + i]

LEMMA BeyondPiece ==
  ASSUME NEW S, NEW s \in Seq(S), NEW n \in Nat, n <= Len(s)
  PROVE  BeyondIs(s, n, S)
<1>1. Len(s) \in Nat /\ Len(s) <= Len(s)
  OBVIOUS
<1>2. /\ SubSeq(s, n + 1, Len(s)) \in Seq(S) /\ Len(SubSeq(s, n + 1, Len(s))) = Len(s) - n
      /\ \A i \in 1..(Len(s) - n) : SubSeq(s, n + 1, Len(s))[i] = s[n + i]
  BY <1>1, Piece
<1> QED
  BY <1>2 DEF BeyondIs, Beyond

LEMMA PartExcept ==
  ASSUME NEW x, NEW y, NEW z
  PROVE  [[frames |-> x, part |-> y] EXCEPT !.part = z] = [frames |-> x, part |-> z]
  OBVIOUS

\* A piece that grows by one cell.
LEMMA PieceGrows ==
  ASSUME NEW S, NEW b \in Seq(S), NEW p \in Nat, NEW n \in Nat, p <= n, n < Len(b)
  PROVE  Append(SubSeq(b, p + 1, n), b[n + 1]) = SubSeq(b, p + 1, n + 1)
<1> DEFINE s == SubSeq(b, p + 1, n)
           t == SubSeq(b, p + 1, n + 1)
           x == b[n + 1]
<1>1. s \in Seq(S) /\ Len(s) = n - p /\ \A i \in 1..(n - p) : s[i] = b[p + i]
  BY Piece
<1>2. t \in Seq(S) /\ Len(t) = n + 1 - p /\ \A i \in 1..(n + 1 - p) : t[i] = b[p + i]
  <2>1. n + 1 \in Nat /\ p <= n + 1 /\ n + 1 <= Len(b)
    OBVIOUS
  <2> QED
    BY <2>1, Piece
<1>3. x \in S /\ t[n + 1 - p] = x
  <2>1. n + 1 - p \in 1..(n + 1 - p) /\ p + (n + 1 - p) = n + 1 /\ n + 1 \in 1..Len(b)
    OBVIOUS
  <2> QED
    BY <1>2, <2>1
<1> HIDE DEF s, t, x
<1>4. Append(s, x) \in Seq(S) /\ Len(Append(s, x)) = n + 1 - p
  <2>1. s \in Seq(S) /\ Len(s) = n - p /\ x \in S
    BY <1>1, <1>3
  <2>2. Append(s, x) \in Seq(S) /\ Len(Append(s, x)) = Len(s) + 1
    BY <2>1
  <2> QED
    BY <2>1, <2>2
<1>5. ASSUME NEW i \in 1..(n + 1 - p) PROVE Append(s, x)[i] = t[i]
  <2>1. CASE i = n + 1 - p
    BY <1>1, <1>3, <2>1
  <2>2. CASE i # n + 1 - p
    <3>1. i \in 1..(n - p)
      BY <1>5, <2>2
    <3> QED
      BY <1>1, <1>2, <1>5, <3>1
  <2> QED
    BY <2>1, <2>2
<1>6. Append(s, x) = t
  BY <1>2, <1>4, <1>5
<1> QED
  BY <1>6 DEF s, t, x

LEMMA FrameIs ==
  ASSUME NEW q \in Seq(Frame), NEW k \in 1..Len(q)
  PROVE  /\ q[k] = [svc |-> q[k].svc, payload |-> q[k].payload]
         /\ q[k].svc \in Nat /\ q[k].payload \in Seq(Nat) /\ Len(q[k].payload) \in Nat
<1>1. q[k] \in Frame
  OBVIOUS
<1> QED
  BY <1>1 DEF Frame

\* Of one frame.
LaidAt(e, b, p, n) ==
  /\ p \in Nat /\ n \in Nat /\ n = p + 2 + Len(e.payload)
  /\ b[p + 1] = Len(e.payload) /\ b[p + 2] = e.svc
  /\ \A i \in 1..Len(e.payload) : b[p + 2 + i] = e.payload[i]

LEMMA EachLaid ==
  ASSUME NEW q \in Seq(Frame), NEW b, NEW pos, Laid(q, b, pos), NEW k \in Nat, k < Len(q)
  PROVE  LaidAt(q[k + 1], b, pos[k], pos[k + 1])
<1>1. k + 1 \in 1..Len(q) /\ k + 1 \in 0..Len(q) /\ k \in 0..Len(q) /\ k + 1 - 1 = k
  OBVIOUS
<1> DEFINE e == q[k + 1]
<1>2. pos[k] \in Nat /\ pos[k + 1] \in Nat
  BY <1>1 DEF Laid
<1>3. /\ pos[k + 1] = pos[k] + 2 + Len(e.payload)
      /\ b[pos[k] + 1] = Len(e.payload) /\ b[pos[k] + 2] = e.svc
      /\ \A i \in 1..Len(e.payload) : b[pos[k] + 2 + i] = e.payload[i]
  <2> DEFINE G(j) ==
        /\ pos[j] = pos[j - 1] + 2 + Len(q[j].payload)
        /\ b[pos[j - 1] + 1] = Len(q[j].payload) /\ b[pos[j - 1] + 2] = q[j].svc
        /\ \A i \in 1..Len(q[j].payload) : b[pos[j - 1] + 2 + i] = q[j].payload[i]
  <2>1. \A j \in 1..Len(q) : G(j)
    BY DEF Laid
  <2> HIDE DEF G
  <2>2. G(k + 1)
    BY <1>1, <2>1
  <2> QED
    BY <1>1, <2>2 DEF G
<1> QED
  BY <1>2, <1>3 DEF LaidAt

LEMMA ReadFurther ==
  ASSUME NEW q \in Seq(Frame), NEW b \in Seq(Nat), NEW pos, Laid(q, b, pos),
         NEW n \in Nat, n < Len(b), NEW k, NEW r, ReadTo(q, b, pos, n, k, r)
  PROVE  \E j : ReadTo(q, b, pos, n + 1, j, ReadCell(r, b[n + 1]))
<1> DEFINE e == q[k + 1]
           p == pos[k]
           z == pos[k + 1]
           l == Len(e.payload)
           part == SubSeq(b, p + 1, n + 1)
<1>1. k \in Nat /\ k < Len(q) /\ k + 1 \in 1..Len(q) /\ Len(q) \in Nat /\ Len(b) \in Nat
      /\ k \in 0..Len(q) /\ k + 1 \in 0..Len(q)
  BY DEF Laid, ReadTo
<1>2. LaidAt(e, b, p, z) /\ p <= n /\ n < z
  BY <1>1, EachLaid DEF ReadTo
<1>3. /\ e = [svc |-> e.svc, payload |-> e.payload]
      /\ e.svc \in Nat /\ e.payload \in Seq(Nat) /\ Len(e.payload) \in Nat
  BY <1>1, FrameIs
<1>4. r.frames = SubSeq(q, 1, k) /\ r.part = SubSeq(b, p + 1, n)
      /\ r = [frames |-> SubSeq(q, 1, k), part |-> SubSeq(b, p + 1, n)]
  BY DEF ReadTo
<1> HIDE DEF e, p, z, l
<1>2a. p \in Nat /\ z \in Nat /\ z = p + 2 + l /\ p <= n /\ n < z /\ l \in Nat
  BY <1>2, <1>3 DEF LaidAt, l
<1>2b. b[p + 1] = l /\ b[p + 2] = e.svc
  BY <1>2 DEF LaidAt, l
<1>5. Append(r.part, b[n + 1]) = part
  BY <1>2a, <1>4, PieceGrows
<1>6. part \in Seq(Nat) /\ Len(part) = n + 1 - p /\ \A i \in 1..(n + 1 - p) : part[i] = b[p + i]
  <2> DEFINE Is(v) == /\ SubSeq(b, p + 1, v) \in Seq(Nat) /\ Len(SubSeq(b, p + 1, v)) = v - p
                      /\ \A i \in 1..(v - p) : SubSeq(b, p + 1, v)[i] = b[p + i]
  <2>1. n + 1 \in Nat /\ p \in Nat /\ p <= n + 1 /\ n + 1 <= Len(b)
    BY <1>1, <1>2a
  <2>2. \A v \in Nat : p <= v /\ v <= Len(b) => Is(v)
    BY <2>1, Piece
  <2> HIDE DEF Is
  <2>3. Is(n + 1)
    BY <2>1, <2>2
  <2>4. (n + 1) - p = n + 1 - p
    BY <1>2a
  <2> QED
    BY <2>3, <2>4 DEF Is
<1> HIDE DEF part
<1>7. FullFrame(part) <=> n + 1 = z
  <2>1. part[1] = l
    <3>1. 1 \in 1..(n + 1 - p)
      BY <1>2a
    <3> QED
      BY <1>2b, <1>6, <3>1
  <2>2. Len(part) = n + 1 - p
    BY <1>6
  <2> QED
    BY <1>2a, <2>1, <2>2 DEF FullFrame
<1>8. CASE n + 1 = z
  <2> DEFINE d == [svc |-> part[2], payload |-> Beyond(part, 2)]
  <2>1. d = e
    <3>1. part[2] = e.svc
      <4>1. 2 \in 1..(n + 1 - p)
        BY <1>2a, <1>8
      <4> QED
        BY <1>2b, <1>6, <4>1
    <3>2. Beyond(part, 2) = e.payload
      <4> DEFINE u == Beyond(part, 2)
      <4>1. u \in Seq(Nat) /\ Len(u) = l /\ \A i \in 1..l : u[i] = part[2 + i]
        <5>1. Len(part) = 2 + l /\ 2 \in Nat /\ Len(part) \in Nat /\ 2 <= Len(part) /\ Len(part) - 2 = l
          BY <1>2a, <1>6, <1>8
        <5>2. BeyondIs(part, 2, Nat)
          BY <1>6, <5>1, BeyondPiece
        <5> QED
          BY <5>1, <5>2 DEF BeyondIs
      <4>2. ASSUME NEW i \in 1..l PROVE u[i] = e.payload[i]
        <5>1. 2 + i \in 1..(n + 1 - p) /\ p + (2 + i) = p + 2 + i
          BY <1>2a, <1>8, <4>2
        <5>2. part[2 + i] = b[p + (2 + i)]
          BY <1>6, <5>1
        <5>3. b[p + 2 + i] = e.payload[i]
          BY <1>2, <4>2 DEF LaidAt, l
        <5> QED
          BY <4>1, <4>2, <5>1, <5>2, <5>3
      <4> HIDE DEF u
      <4>3. u = e.payload
        <5>1. e.payload \in Seq(Nat) /\ Len(e.payload) = l
          BY <1>3 DEF l
        <5>2. l \in Nat
          BY <1>2a
        <5> QED
          BY <4>1, <4>2, <5>1, <5>2, SameSeq, SMTT(30)
      <4> QED
        BY <4>3 DEF u
    <3> QED
      BY <1>3, <3>1, <3>2
  <2>2. ReadCell(r, b[n + 1]) = [frames |-> Append(r.frames, d), part |-> <<>>]
    BY <1>5, <1>7, <1>8 DEF ReadCell
  <2> HIDE DEF d
  <2>3. Append(r.frames, e) = SubSeq(q, 1, k + 1)
    <3>1. Append(SubSeq(q, 0 + 1, k), q[k + 1]) = SubSeq(q, 0 + 1, k + 1)
      <4>1. 0 \in Nat /\ 0 <= k
        BY <1>1
      <4> QED
        BY <1>1, <4>1, PieceGrows
    <3>2. 0 + 1 = 1
      OBVIOUS
    <3>3. r.frames = SubSeq(q, 1, k) /\ e = q[k + 1]
      BY <1>4 DEF e
    <3> QED
      BY <3>1, <3>2, <3>3, Zenon
  <2>4. SubSeq(b, z + 1, n + 1) = <<>>
    <3>1. z + 1 > n + 1 /\ z + 1 \in Int /\ n + 1 \in Int
      BY <1>2a, <1>8
    <3> QED
      BY <3>1
  <2>5. k + 1 < Len(q) => n + 1 < pos[k + 1 + 1]
    <3> SUFFICES ASSUME k + 1 < Len(q) PROVE n + 1 < pos[k + 1 + 1]
      OBVIOUS
    <3>1. LaidAt(q[k + 1 + 1], b, z, pos[k + 1 + 1])
      BY <1>1, EachLaid DEF z
    <3>2. Len(q[k + 1 + 1].payload) \in Nat
      <4>1. k + 1 + 1 \in 1..Len(q)
        BY <1>1
      <4> QED
        BY <4>1, FrameIs
    <3> DEFINE m == Len(q[k + 1 + 1].payload)
    <3>3. pos[k + 1 + 1] = z + 2 + m /\ m \in Nat
      BY <3>1, <3>2 DEF LaidAt
    <3> HIDE DEF m
    <3> QED
      BY <1>2a, <1>8, <3>3
  <2>6. z <= n + 1
    BY <1>2a, <1>8
  <2>7. ReadTo(q, b, pos, n + 1, k + 1, ReadCell(r, b[n + 1]))
    BY <1>1, <2>1, <2>2, <2>3, <2>4, <2>5, <2>6 DEF ReadTo, z
  <2> QED
    BY <2>7
<1>9. CASE n + 1 # z
  <2>1. ReadCell(r, b[n + 1]) = [r EXCEPT !.part = part]
    BY <1>5, <1>7, <1>9 DEF ReadCell
  <2>2. [r EXCEPT !.part = part] = [frames |-> SubSeq(q, 1, k), part |-> part]
    <3> DEFINE x == SubSeq(q, 1, k)
               y == SubSeq(b, p + 1, n)
    <3>1. r = [frames |-> x, part |-> y]
      BY <1>4
    <3>2. [[frames |-> x, part |-> y] EXCEPT !.part = part] = [frames |-> x, part |-> part]
      BY PartExcept
    <3> HIDE DEF x, y
    <3>3. [r EXCEPT !.part = part] = [frames |-> x, part |-> part]
      BY <3>1, <3>2
    <3> QED
      BY <3>3 DEF x
  <2>3. p <= n + 1 /\ n + 1 < z
    BY <1>2a, <1>9
  <2>4. ReadTo(q, b, pos, n + 1, k, ReadCell(r, b[n + 1]))
    BY <1>1, <2>1, <2>2, <2>3 DEF ReadTo, part, p, z
  <2> QED
    BY <2>4
<1> QED
  BY <1>8, <1>9

LEMMA LaidGrows ==
  ASSUME NEW q \in Seq(Frame), NEW b \in Seq(Nat), NEW pos, Laid(q, b, pos),
         NEW k \in 0..Len(q), NEW n \in Nat, k + n <= Len(q)
  PROVE  pos[k] + 2 * n <= pos[k + n]
<1> DEFINE P == {m \in Nat : k + m <= Len(q) => pos[k] + 2 * m <= pos[k + m]}
<1>1. 0 \in P
  <2>1. pos[k] \in Nat
    BY DEF Laid
  <2>2. k + 0 = k
    OBVIOUS
  <2> QED
    BY <2>1, <2>2
<1>2. ASSUME NEW m \in Nat, m \in P PROVE m + 1 \in P
  <2> SUFFICES ASSUME k + (m + 1) <= Len(q) PROVE pos[k] + 2 * (m + 1) <= pos[k + (m + 1)]
    OBVIOUS
  <2> DEFINE j == k + m
  <2>1. j \in Nat /\ j < Len(q) /\ j + 1 \in 1..Len(q) /\ k + (m + 1) = j + 1 /\ k + m <= Len(q)
    OBVIOUS
  <2>2. pos[k] + 2 * m <= pos[j]
    BY <1>2, <2>1
  <2> HIDE DEF j
  <2>3. LaidAt(q[j + 1], b, pos[j], pos[j + 1])
    BY <2>1, EachLaid
  <2>4. Len(q[j + 1].payload) \in Nat
    BY <2>1, FrameIs
  <2>5. pos[k] \in Nat
    BY DEF Laid
  <2> DEFINE l == Len(q[j + 1].payload)
  <2>6. pos[j] \in Nat /\ pos[j + 1] = pos[j] + 2 + l /\ l \in Nat
    BY <2>3, <2>4 DEF LaidAt
  <2> HIDE DEF l
  <2>7. pos[k] + 2 * (m + 1) <= pos[j + 1]
    BY <2>2, <2>5, <2>6, SMTT(30)
  <2> QED
    BY <2>1, <2>7
<1>3. n \in P
  <2> HIDE DEF P
  <2> QED
    BY <1>1, <1>2, NumberInduction
<1> QED
  BY <1>3

\* What is read of the first m cells are the frames that are whole among them.
LEMMA FramesRead ==
  ASSUME NEW q \in Seq(Frame), NEW b \in Seq(Nat), NEW pos, Laid(q, b, pos), NEW m \in 0..Len(b)
  PROVE  \E k \in 0..Len(q) : /\ DecodeFrames(SubSeq(b, 1, m)) = SubSeq(q, 1, k)
                              /\ m = Len(b) => k = Len(q)
<1> DEFINE s == SubSeq(b, 1, m)
<1>1. s \in Seq(Nat) /\ Len(s) = m /\ \A n \in 1..m : s[n] = b[n]
  OBVIOUS
<1>2. Len(q) \in Nat /\ Len(b) \in Nat /\ m \in Nat
  OBVIOUS
<1> HIDE DEF s
<1>3. PICK g : ReadingRun(s, g)
  BY <1>1, FramesFold
<1> DEFINE P == {n \in Nat : n <= m => \E k : ReadTo(q, b, pos, n, k, g[n])}
<1>4. 0 \in P
  <2>1. g[0] = [frames |-> <<>>, part |-> <<>>]
    BY <1>3 DEF ReadingRun, Waiting
  <2>2. SubSeq(q, 1, 0) = <<>> /\ SubSeq(b, pos[0] + 1, 0) = <<>>
    BY DEF Laid
  <2>3. 0 < Len(q) => 0 < pos[0 + 1]
    <3> SUFFICES ASSUME 0 < Len(q) PROVE 0 < pos[1]
      OBVIOUS
    <3>1. 0 + 1 <= Len(q) /\ 1 \in Nat /\ 0 \in 0..Len(q)
      BY <1>2
    <3>2. pos[0] + 2 * 1 <= pos[0 + 1]
      BY <3>1, LaidGrows
    <3>3. pos[0] = 0 /\ 0 + 1 = 1 /\ 1 \in 0..Len(q)
      BY <1>2, <3>1 DEF Laid
    <3>4. pos[1] \in Nat
      BY <3>3 DEF Laid
    <3> QED
      BY <3>2, <3>3, <3>4
  <2>4. ReadTo(q, b, pos, 0, 0, g[0])
    BY <1>2, <2>1, <2>2, <2>3 DEF ReadTo, Laid
  <2> QED
    BY <2>4
<1>5. ASSUME NEW n \in Nat, n \in P PROVE n + 1 \in P
  <2> SUFFICES ASSUME n + 1 <= m PROVE \E k : ReadTo(q, b, pos, n + 1, k, g[n + 1])
    OBVIOUS
  <2>1. PICK k : ReadTo(q, b, pos, n, k, g[n])
    BY <1>2, <1>5
  <2>2. n + 1 \in 1..m /\ n + 1 - 1 = n /\ n < Len(b)
    BY <1>2
  <2>3. g[n + 1] = ReadCell(g[n], b[n + 1])
    BY <1>1, <1>3, <2>2 DEF ReadingRun
  <2> QED
    BY <2>1, <2>2, <2>3, ReadFurther
<1>6. Nat \subseteq P
  <2> HIDE DEF P
  <2> QED
    BY <1>4, <1>5, NumberInduction
<1>7. PICK k : ReadTo(q, b, pos, m, k, g[m])
  <2>1. m \in P
    BY <1>2, <1>6
  <2> QED
    BY <1>2, <2>1
<1>8. DecodeFrames(s) = SubSeq(q, 1, k) /\ k \in 0..Len(q)
  <2>1. DecodeFrames(s) = g[m].frames
    BY <1>1, <1>3 DEF ReadingRun
  <2> QED
    BY <1>7, <2>1 DEF ReadTo
<1>9. ASSUME m = Len(b) PROVE k = Len(q)
  <2> SUFFICES ASSUME k # Len(q) PROVE FALSE
    OBVIOUS
  <2>1. k < Len(q) /\ k + 1 \in 0..Len(q) /\ Len(q) - (k + 1) \in Nat
        /\ (k + 1) + (Len(q) - (k + 1)) = Len(q)
    BY <1>2, <1>8
  <2>2. m < pos[k + 1]
    BY <1>7, <2>1 DEF ReadTo
  <2>3. pos[k + 1] + 2 * (Len(q) - (k + 1)) <= pos[(k + 1) + (Len(q) - (k + 1))]
    <3> DEFINE j == Len(q) - (k + 1)
    <3>1. j \in Nat /\ (k + 1) + j <= Len(q)
      BY <2>1
    <3> HIDE DEF j
    <3>2. pos[k + 1] + 2 * j <= pos[(k + 1) + j]
      BY <2>1, <3>1, LaidGrows
    <3> QED
      BY <3>2 DEF j
  <2>4. pos[Len(q)] = m /\ pos[k + 1] \in Nat
    BY <1>2, <1>9, <2>1 DEF Laid
  <2> QED
    BY <1>2, <2>1, <2>2, <2>3, <2>4, SMTT(30)
<1> QED
  BY <1>8, <1>9 DEF s

JoinedIs(s, t, S) ==
  /\ s \o t \in Seq(S) /\ Len(s \o t) = Len(s) + Len(t)
  /\ \A i \in 1..Len(s) : (s \o t)[i] = s[i]
  /\ \A i \in 1..Len(t) : (s \o t)[Len(s) + i] = t[i]

LEMMA Joined ==
  ASSUME NEW S, NEW s \in Seq(S), NEW t \in Seq(S) PROVE JoinedIs(s, t, S)
<1> DEFINE m == Len(s)
           n == Len(t)
<1>1. m \in Nat /\ n \in Nat /\ s \o t \in Seq(S) /\ Len(s \o t) = m + n
  OBVIOUS
<1>2. \A i \in 1..(m + n) : (s \o t)[i] = IF i <= m THEN s[i] ELSE t[i - m]
  OBVIOUS
<1>3. ASSUME NEW i \in 1..n PROVE (s \o t)[m + i] = t[i]
  <2> DEFINE j == m + i
  <2>1. j \in 1..(m + n) /\ ~ (j <= m) /\ j - m = i
    BY <1>1
  <2> HIDE DEF m, n, j
  <2>2. (s \o t)[j] = IF j <= m THEN s[j] ELSE t[j - m]
    BY <1>2, <2>1
  <2>3. (s \o t)[j] = t[i]
    BY <2>1, <2>2
  <2> QED
    BY <2>3 DEF j
<1>4. ASSUME NEW i \in 1..m PROVE (s \o t)[i] = s[i]
  <2>1. i \in 1..(m + n) /\ i <= m
    BY <1>1
  <2> QED
    BY <1>2, <2>1
<1> QED
  BY <1>1, <1>3, <1>4 DEF JoinedIs

\* The cells of one frame.
FrameCells(e) == <<Len(e.payload), e.svc>> \o e.payload

\* A frame comes after the cells b.
LEMMA LaidAtEnd ==
  ASSUME NEW b \in Seq(Nat), NEW e \in Frame
  PROVE  /\ FrameCells(e) \in Seq(Nat) /\ b \o FrameCells(e) \in Seq(Nat)
         /\ LaidAt(e, b \o FrameCells(e), Len(b), Len(b \o FrameCells(e)))
<1> DEFINE l == Len(e.payload)
           p == Len(b)
           cells == FrameCells(e)
           b2 == b \o cells
<1>1. e.svc \in Nat /\ e.payload \in Seq(Nat) /\ l \in Nat /\ p \in Nat
  BY DEF Frame
<1>2. cells \in Seq(Nat) /\ Len(cells) = 2 + l /\ cells[1] = l /\ cells[2] = e.svc
      /\ \A i \in 1..l : cells[2 + i] = e.payload[i]
  <2> DEFINE h == <<l, e.svc>>
  <2>1. h \in Seq(Nat) /\ Len(h) = 2 /\ h[1] = l /\ h[2] = e.svc
    BY <1>1
  <2>2. cells = h \o e.payload
    BY DEF FrameCells
  <2> HIDE DEF h
  <2>3. JoinedIs(h, e.payload, Nat)
    BY <1>1, <2>1, Joined
  <2>4. 1 \in 1..2 /\ 2 \in 1..2
    OBVIOUS
  <2> HIDE DEF cells, l
  <2>5. Len(e.payload) = l
    BY DEF l
  <2> QED
    BY <2>1, <2>2, <2>3, <2>4, <2>5 DEF JoinedIs
<1> HIDE DEF l, cells
<1>3. b2 \in Seq(Nat) /\ Len(b2) = p + 2 + l /\ \A i \in 1..(2 + l) : b2[p + i] = cells[i]
  <2>1. b2 \in Seq(Nat) /\ Len(b2) = p + Len(cells) /\ \A i \in 1..Len(cells) : b2[p + i] = cells[i]
    <3>1. JoinedIs(b, cells, Nat)
      BY <1>2, Joined
    <3> QED
      BY <3>1 DEF JoinedIs
  <2> HIDE DEF b2, p
  <2> QED
    BY <1>1, <1>2, <2>1
<1> HIDE DEF b2, p
<1>4. b2[p + 1] = l /\ b2[p + 2] = e.svc
  <2>1. 1 \in 1..(2 + l) /\ 2 \in 1..(2 + l)
    BY <1>1
  <2> QED
    BY <1>2, <1>3, <2>1
<1>5. ASSUME NEW i \in 1..l PROVE b2[p + 2 + i] = e.payload[i]
  <2>1. 2 + i \in 1..(2 + l) /\ p + (2 + i) = p + 2 + i
    BY <1>1, <1>5
  <2>2. b2[p + (2 + i)] = cells[2 + i]
    BY <1>3, <2>1
  <2> QED
    BY <1>2, <1>5, <2>1, <2>2
<1> DEFINE n == Len(b2)
<1>6. n \in Nat /\ n = p + 2 + l
  BY <1>1, <1>3
<1> HIDE DEF n
<1>7. Len(e.payload) = l
  BY DEF l
<1>8. LaidAt(e, b2, p, n)
  BY <1>1, <1>4, <1>5, <1>6, <1>7 DEF LaidAt
<1> QED
  BY <1>2, <1>3, <1>8 DEF n, b2, p, cells

\* What was there stays.
LEMMA LaidAtJoin ==
  ASSUME NEW b \in Seq(Nat), NEW t \in Seq(Nat), NEW e, Len(e.payload) \in Nat, NEW u, NEW w,
         LaidAt(e, b, u, w), w <= Len(b)
  PROVE  LaidAt(e, b \o t, u, w)
<1> DEFINE c == Len(e.payload)
           p == Len(b)
           b2 == b \o t
<1>1. p \in Nat /\ c \in Nat
  OBVIOUS
<1>2. \A i \in 1..p : b2[i] = b[i]
  <2>1. JoinedIs(b, t, Nat)
    BY Joined
  <2> QED
    BY <2>1 DEF JoinedIs
<1> HIDE DEF b2, p, c
<1>3. u \in Nat /\ w \in Nat /\ w = u + 2 + c /\ b[u + 1] = c /\ b[u + 2] = e.svc
      /\ \A i \in 1..c : b[u + 2 + i] = e.payload[i]
  BY DEF LaidAt, c
<1>4. w <= p
  BY DEF p
<1>5. u \in Nat /\ w \in Nat /\ w = u + 2 + c
  BY <1>3
<1>6. b2[u + 1] = b[u + 1] /\ b2[u + 2] = b[u + 2]
  <2>1. u + 1 \in 1..p /\ u + 2 \in 1..p
    BY <1>1, <1>4, <1>5
  <2> QED
    BY <1>2, <2>1
<1>7. ASSUME NEW i \in 1..c PROVE b2[u + 2 + i] = e.payload[i]
  <2>1. u + 2 + i \in 1..p
    BY <1>1, <1>4, <1>5, <1>7
  <2>2. b[u + 2 + i] = e.payload[i]
    BY <1>3, <1>7
  <2> QED
    BY <1>2, <2>1, <2>2
<1>8. LaidAt(e, b2, u, w)
  BY <1>3, <1>6, <1>7 DEF LaidAt, c
<1> QED
  BY <1>8 DEF b2

\* A frame more.
LEMMA LaidAppend ==
  ASSUME NEW q \in Seq(Frame), NEW b \in Seq(Nat), NEW pos, Laid(q, b, pos), NEW e \in Frame
  PROVE  \E at : Laid(Append(q, e), b \o FrameCells(e), at)
<1> DEFINE m == Len(q)
           p == Len(b)
           q2 == Append(q, e)
           cells == FrameCells(e)
           b2 == b \o cells
           n == Len(b2)
           at == [k \in 0..(m + 1) |-> IF k <= m THEN pos[k] ELSE n]
<1>1. m \in Nat /\ p \in Nat
  OBVIOUS
<1>2. Len(q2) = m + 1 /\ q2[m + 1] = e /\ \A k \in 1..m : q2[k] = q[k]
  OBVIOUS
<1>3. cells \in Seq(Nat) /\ b2 \in Seq(Nat) /\ LaidAt(e, b2, p, n)
  BY LaidAtEnd
<1>4. n \in Nat
  BY <1>3
<1> HIDE DEF cells, q2, n, m, p
<1>5. pos \in [0..m -> Nat] /\ pos[0] = 0 /\ pos[m] = p
  BY DEF Laid, m, p
<1>6. at \in [0..(m + 1) -> Nat] /\ at[m + 1] = n /\ \A k \in 0..m : at[k] = pos[k]
  BY <1>1, <1>4, <1>5
<1> HIDE DEF at
<1>7. ASSUME NEW k \in Nat, k < m PROVE LaidAt(q2[k + 1], b2, at[k], at[k + 1])
  <2> DEFINE d == q[k + 1]
             u == pos[k]
             w == pos[k + 1]
  <2>1. LaidAt(d, b, u, w)
    BY <1>7, EachLaid DEF m
  <2>2. k \in 0..m /\ k + 1 \in 0..m /\ k + 1 \in 1..m
    BY <1>1, <1>7
  <2>3. at[k] = u /\ at[k + 1] = w /\ q2[k + 1] = d
    BY <1>2, <1>6, <2>2
  <2>4. w <= p
    <3> DEFINE j == k + 1
               i == m - j
    <3>1. i \in Nat /\ j + i = m /\ j \in 0..m /\ j + i <= m
      BY <1>1, <1>7
    <3>2. w = pos[j]
      OBVIOUS
    <3> HIDE DEF j, i
    <3>3. pos[j] + 2 * i <= pos[j + i]
      BY <3>1, LaidGrows DEF m
    <3>4. pos[j] \in Nat
      BY <1>5, <3>1
    <3>5. pos[j] <= p
      <4>1. pos[j + i] = p
        BY <1>5, <3>1
      <4>2. pos[j] + 2 * i <= p
        BY <3>3, <4>1
      <4>3. i \in Nat
        BY <3>1
      <4> QED
        BY <1>1, <3>4, <4>2, <4>3
    <3> HIDE DEF w
    <3> QED
      BY <3>2, <3>5
  <2>5. Len(d.payload) \in Nat
    BY <2>2, FrameIs DEF m
  <2> HIDE DEF d, u, w
  <2>6. LaidAt(d, b2, u, w)
    BY <1>3, <2>1, <2>4, <2>5, LaidAtJoin DEF p
  <2> QED
    BY <2>3, <2>6
<1>8. LaidAt(q2[m + 1], b2, at[m], at[m + 1])
  <2>1. m \in 0..m
    BY <1>1
  <2>2. at[m] = p /\ at[m + 1] = n /\ q2[m + 1] = e
    BY <1>2, <1>5, <1>6, <2>1
  <2> QED
    BY <1>3, <2>2
<1>9. Laid(q2, b2, at)
  <2> HIDE DEF b2
  <2>1. ASSUME NEW j \in 1..(m + 1)
        PROVE  /\ at[j] = at[j - 1] + 2 + Len(q2[j].payload)
               /\ b2[at[j - 1] + 1] = Len(q2[j].payload) /\ b2[at[j - 1] + 2] = q2[j].svc
               /\ \A i \in 1..Len(q2[j].payload) : b2[at[j - 1] + 2 + i] = q2[j].payload[i]
    <3> DEFINE k == j - 1
    <3>1. k \in Nat /\ j = k + 1 /\ (k < m \/ k = m)
      BY <1>1, <2>1
    <3> HIDE DEF k
    <3>2. LaidAt(q2[k + 1], b2, at[k], at[k + 1])
      BY <1>7, <1>8, <3>1
    <3>3. LaidAt(q2[j], b2, at[k], at[j])
      BY <3>1, <3>2
    <3>4. j - 1 = k
      BY DEF k
    <3> QED
      BY <3>3, <3>4 DEF LaidAt
  <2>2. at[0] = 0 /\ at[m + 1] = Len(b2)
    <3>1. 0 \in 0..m
      BY <1>1
    <3> QED
      BY <1>5, <1>6, <3>1 DEF n
  <2> QED
    BY <1>2, <1>6, <2>1, <2>2 DEF Laid
<1> QED
  BY <1>9 DEF q2, cells

LEMMA LaidEmpty == Laid(<<>>, <<>>, [k \in {0} |-> 0])
<1>1. 0..0 = {0} /\ 1..0 = {} /\ Len(<<>>) = 0
  OBVIOUS
<1> QED
  BY <1>1 DEF Laid

LEMMA EncodeIs ==
  ASSUME NEW short \in BOOLEAN, NEW svc \in Nat, NEW payload \in Seq(Nat), CanFrame(short, payload)
  PROVE  EncodeFrame(short, svc, payload) = FrameCells([svc |-> svc, payload |-> payload])
<1> DEFINE l == Len(payload)
<1>1. l \in Nat /\ (short => l < ShortLimit) /\ ShortLimit \in Nat /\ ShortLimit # 0
  BY FramesAssumption DEF CanFrame
<1> HIDE DEF l
<1>2. short => l % ShortLimit = l
  BY <1>1
<1>3. (IF short THEN l % ShortLimit ELSE l) = l
  BY <1>2
<1> QED
  BY <1>3 DEF EncodeFrame, FrameCells, l

-----------------------------------------------------------------------------
(* Touches.                                                                *)

\* What FlattenSeq computes by.
Flattening(s, f) == f = [i \in 1..Len(s) |-> IF i = 1 THEN s[i] ELSE f[i - 1] \o s[i]]

Fives(s) == s \in Seq(Seq(Nat)) /\ \A n \in 1..Len(s) : Len(s[n]) = 5

\* The first n of the pieces s, each of five cells, one after the other.
FlatTo(s, n, b) ==
  /\ b \in Seq(Nat) /\ Len(b) = 5 * n
  /\ \A j \in 1..n, i \in 1..5 : b[5 * (j - 1) + i] = s[j][i]

LEMMA FlatOne == ASSUME NEW s, Fives(s), 1 <= Len(s) PROVE FlatTo(s, 1, s[1])
<1>1. Len(s) \in Nat /\ 1 \in 1..Len(s)
  BY DEF Fives
<1>2. s[1] \in Seq(Nat) /\ Len(s[1]) = 5
  BY <1>1 DEF Fives
<1>3. ASSUME NEW j \in 1..1, NEW i \in 1..5 PROVE s[1][5 * (j - 1) + i] = s[j][i]
  <2>1. j = 1 /\ 5 * (j - 1) + i = i
    OBVIOUS
  <2> QED
    BY <2>1
<1> QED
  BY <1>2, <1>3 DEF FlatTo

LEMMA FlatMore ==
  ASSUME NEW s, Fives(s), NEW n \in Nat, n < Len(s), NEW b, FlatTo(s, n, b)
  PROVE  FlatTo(s, n + 1, b \o s[n + 1])
<1> DEFINE t == s[n + 1]
           c == b \o t
<1>1. n + 1 \in 1..Len(s)
  BY DEF Fives
<1>2. t \in Seq(Nat) /\ Len(t) = 5 /\ b \in Seq(Nat) /\ Len(b) = 5 * n
  BY <1>1 DEF Fives, FlatTo
<1>3. JoinedIs(b, t, Nat)
  BY <1>2, Joined
<1>4. /\ c \in Seq(Nat) /\ Len(c) = 5 * n + 5 /\ (\A i \in 1..(5 * n) : c[i] = b[i])
      /\ \A i \in 1..5 : c[5 * n + i] = t[i]
  BY <1>2, <1>3 DEF JoinedIs
<1> HIDE DEF c
<1>5. ASSUME NEW j \in 1..(n + 1), NEW i \in 1..5 PROVE c[5 * (j - 1) + i] = s[j][i]
  <2>1. CASE j = n + 1
    <3>1. 5 * (j - 1) + i = 5 * n + i
      BY <2>1
    <3> QED
      BY <1>4, <2>1, <3>1
  <2>2. CASE j # n + 1
    <3> DEFINE k == 5 * (j - 1) + i
    <3>1. j \in 1..n /\ k \in 1..(5 * n)
      BY <2>2
    <3>2. b[k] = s[j][i]
      BY <3>1 DEF FlatTo
    <3> HIDE DEF k
    <3>3. c[k] = s[j][i]
      BY <1>4, <3>1, <3>2
    <3> QED
      BY <3>3 DEF k
  <2> QED
    BY <2>1, <2>2
<1>6. 5 * n + 5 = 5 * (n + 1)
  OBVIOUS
<1> QED
  BY <1>4, <1>5, <1>6 DEF FlatTo, c

LEMMA FlatSame ==
  ASSUME NEW s, NEW n \in Nat, NEW b, NEW c, FlatTo(s, n, b), FlatTo(s, n, c) PROVE b = c
<1>1. b \in Seq(Nat) /\ c \in Seq(Nat) /\ Len(b) = 5 * n /\ Len(c) = 5 * n
  BY DEF FlatTo
<1>2. ASSUME NEW k \in 1..(5 * n) PROVE b[k] = c[k]
  <2>1. PICK j \in 1..n, i \in 1..5 : k = 5 * (j - 1) + i
    <3> DEFINE j == ((k - 1) \div 5) + 1
               i == ((k - 1) % 5) + 1
    <3>1. j \in 1..n /\ i \in 1..5 /\ k = 5 * (j - 1) + i
      OBVIOUS
    <3> HIDE DEF j, i
    <3> QED
      BY <3>1
  <2>2. b[5 * (j - 1) + i] = s[j][i] /\ c[5 * (j - 1) + i] = s[j][i]
    BY DEF FlatTo
  <2> QED
    BY <2>1, <2>2
<1> QED
  BY <1>1, <1>2

\* The first n pieces one after the other, cell by cell.
Cells(s, n) == [k \in 1..(5 * n) |-> s[((k - 1) \div 5) + 1][((k - 1) % 5) + 1]]

LEMMA CellsFlat ==
  ASSUME NEW s, Fives(s), NEW n \in Nat, n <= Len(s) PROVE FlatTo(s, n, Cells(s, n))
<1> DEFINE c == Cells(s, n)
<1>1. ASSUME NEW k \in 1..(5 * n) PROVE s[((k - 1) \div 5) + 1][((k - 1) % 5) + 1] \in Nat
  <2> DEFINE j == ((k - 1) \div 5) + 1
             i == ((k - 1) % 5) + 1
  <2>1. j \in 1..n /\ i \in 1..5
    OBVIOUS
  <2> HIDE DEF j, i
  <2>2. s[j] \in Seq(Nat) /\ Len(s[j]) = 5
    BY <2>1 DEF Fives
  <2>3. s[j][i] \in Nat
    BY <2>1, <2>2
  <2> QED
    BY <2>3 DEF j, i
<1>2. 5 * n \in Nat
  OBVIOUS
<1>3. c \in [1..(5 * n) -> Nat]
  BY <1>1 DEF Cells
<1>4. c \in Seq(Nat) /\ Len(c) = 5 * n
  <2> HIDE DEF c
  <2> QED
    BY <1>2, <1>3
<1>5. ASSUME NEW j \in 1..n, NEW i \in 1..5 PROVE c[5 * (j - 1) + i] = s[j][i]
  <2> DEFINE k == 5 * (j - 1) + i
  <2>1. k \in 1..(5 * n) /\ ((k - 1) \div 5) + 1 = j /\ ((k - 1) % 5) + 1 = i
    OBVIOUS
  <2> HIDE DEF k
  <2>2. c[k] = s[((k - 1) \div 5) + 1][((k - 1) % 5) + 1]
    BY <2>1 DEF Cells
  <2>3. c[k] = s[j][i]
    BY <2>1, <2>2
  <2> QED
    BY <2>3 DEF k
<1> QED
  BY <1>4, <1>5 DEF FlatTo

LEMMA FlattenFives == ASSUME NEW s, Fives(s) PROVE FlatTo(s, Len(s), FlattenSeq(s))
<1> DEFINE g == [i \in 1..Len(s) |-> Cells(s, i)]
           f == CHOOSE h : Flattening(s, h)
<1>0. Len(s) \in Nat
  BY DEF Fives
<1>10. \A j \in 1..Len(s) : g[j] = Cells(s, j)
  OBVIOUS
<1> HIDE DEF g
<1>1. ASSUME NEW i \in 1..Len(s) PROVE Cells(s, i) = IF i = 1 THEN s[i] ELSE g[i - 1] \o s[i]
  <2>1. FlatTo(s, i, Cells(s, i))
    BY <1>0, CellsFlat
  <2>2. ASSUME i = 1 PROVE Cells(s, i) = s[i]
    <3>1. FlatTo(s, 1, s[1])
      BY <1>0, FlatOne
    <3> QED
      BY <2>1, <2>2, <3>1, FlatSame
  <2>3. ASSUME i # 1 PROVE Cells(s, i) = g[i - 1] \o s[i]
    <3> DEFINE j == i - 1
    <3>1. j \in Nat /\ j \in 1..Len(s) /\ i = j + 1 /\ j < Len(s) /\ j <= Len(s)
      BY <1>0, <2>3
    <3>2. FlatTo(s, j, Cells(s, j)) /\ g[j] = Cells(s, j)
      BY <1>10, <3>1, CellsFlat
    <3>3. FlatTo(s, j + 1, g[j] \o s[j + 1])
      <4> HIDE DEF j
      <4> QED
        BY <3>1, <3>2, FlatMore
    <3>4. FlatTo(s, i, g[i - 1] \o s[i])
      BY <3>1, <3>3
    <3> DEFINE c == g[i - 1] \o s[i]
               d == Cells(s, i)
    <3>5. FlatTo(s, i, c) /\ FlatTo(s, i, d) /\ i \in Nat
      BY <1>0, <2>1, <3>4
    <3> HIDE DEF j, c, d
    <3>6. d = c
      BY <3>5, FlatSame
    <3> QED
      BY <3>6 DEF c, d
  <2> DEFINE x == g[i - 1] \o s[i]
             y == Cells(s, i)
             z == s[i]
  <2>4. (i = 1 => y = z) /\ (i # 1 => y = x)
    BY <2>2, <2>3
  <2> HIDE DEF x, y, z
  <2>5. y = IF i = 1 THEN z ELSE x
    BY <2>4
  <2> QED
    BY <2>5 DEF x, y, z
<1>2. Flattening(s, g)
  BY <1>1 DEF Flattening, g
<1>3. Flattening(s, f)
  BY <1>2
<1>4. Len(s) # 0 => FlattenSeq(s) = f[Len(s)]
  BY DEF FlattenSeq, Flattening
<1> HIDE DEF f
<1>11. \A i \in 1..Len(s) : f[i] = IF i = 1 THEN s[i] ELSE f[i - 1] \o s[i]
  BY <1>3, Zenon DEF Flattening
<1> DEFINE P == {n \in Nat : n \in 1..Len(s) => FlatTo(s, n, f[n])}
<1>5. 0 \in P
  OBVIOUS
<1>6. ASSUME NEW n \in Nat, n \in P PROVE n + 1 \in P
  <2> SUFFICES ASSUME n + 1 \in 1..Len(s) PROVE FlatTo(s, n + 1, f[n + 1])
    OBVIOUS
  <2>1. f[n + 1] = IF n + 1 = 1 THEN s[n + 1] ELSE f[n + 1 - 1] \o s[n + 1]
    BY <1>11
  <2>2. CASE n = 0
    <3>1. f[n + 1] = s[1] /\ n + 1 = 1
      BY <2>1, <2>2
    <3>2. FlatTo(s, 1, s[1])
      BY <1>0, FlatOne
    <3> QED
      BY <3>1, <3>2
  <2>3. CASE n # 0
    <3>1. n \in 1..Len(s) /\ n < Len(s) /\ n + 1 # 1 /\ n + 1 - 1 = n
      BY <1>0, <2>3
    <3>2. FlatTo(s, n, f[n])
      BY <1>6, <3>1
    <3>3. f[n + 1] = f[n] \o s[n + 1]
      BY <2>1, <3>1
    <3>4. FlatTo(s, n + 1, f[n] \o s[n + 1])
      BY <3>1, <3>2, FlatMore
    <3> QED
      BY <3>3, <3>4
  <2> QED
    BY <2>2, <2>3
<1>7. Nat \subseteq P
  <2> HIDE DEF P
  <2> QED
    BY <1>5, <1>6, NumberInduction
<1>8. CASE Len(s) # 0
  <2>1. Len(s) \in P
    BY <1>0, <1>7
  <2> QED
    BY <1>0, <1>4, <1>8, <2>1
<1>9. CASE Len(s) = 0
  <2>1. FlattenSeq(s) = s /\ s = <<>>
    BY <1>9 DEF FlattenSeq, Fives
  <2> QED
    BY <1>9, <2>1 DEF FlatTo
<1> QED
  BY <1>8, <1>9

LEMMA WordBack ==
  ASSUME NEW v \in Places PROVE Get16(Be16(v)[1], Be16(v)[2]) = v
<1> DEFINE h == v \div 256
           l == v % 256
<1>1. v \in Int /\ 0 <= v /\ v <= 65535
  BY DEF Places
<1>2. h \in Int /\ 0 <= h /\ h <= 255 /\ h * 256 + l = v
  BY <1>1, SMT
<1>3. h % 256 = h
  <2> HIDE DEF h
  <2> QED
    BY <1>2, SMT
<1>4. Be16(v)[1] = h % 256 /\ Be16(v)[2] = l
  BY DEF Be16
<1> HIDE DEF h, l
<1> QED
  BY <1>2, <1>3, <1>4, SMT DEF Get16

LEMMA BytesOf ==
  ASSUME NEW v \in Int PROVE Be16(v) \in Seq(Nat) /\ Len(Be16(v)) = 2
<1>1. (v \div 256) % 256 \in Nat /\ v % 256 \in Nat
  <2> DEFINE h == v \div 256
  <2>1. h \in Int /\ v % 256 \in Nat
    OBVIOUS
  <2> HIDE DEF h
  <2>2. h % 256 \in Nat
    BY <2>1
  <2> QED
    BY <2>1, <2>2 DEF h
<1> QED
  BY <1>1 DEF Be16

\* The upper 16 bits, and the action that four cells are.
High(g) == g \div 65536
ActionOf(b1, b2, b3, b4) == Get16(Signed(b1), b2) * 65536 + Get16(b3, b4)

LEMMA ActionInt == ASSUME NEW g \in Actions PROVE g \in Int /\ Lowest <= g /\ g <= Highest
<1>1. Lowest \in Int /\ Highest \in Int
  BY SMT DEF Lowest, Highest
<1> QED
  BY <1>1 DEF Actions

LEMMA ActionBack ==
  ASSUME NEW g \in Actions
  PROVE  ActionOf(Be16(High(g))[1], Be16(High(g))[2], Be16(g)[1], Be16(g)[2]) = g
<1> DEFINE h == High(g)
           l == g % 65536
<1>0. g \in Int /\ Lowest <= g /\ g <= Highest
  BY ActionInt
<1>1. h \in Int /\ -32768 <= h /\ h <= 32767 /\ l \in Int /\ h * 65536 + l = g
  BY <1>0, SMT DEF High, Lowest, Highest
<1>2. Get16(Be16(g)[1], Be16(g)[2]) = l
  <2>1. ((g \div 256) % 256) * 256 + (g % 256) = l
    BY <1>0, SMT
  <2>2. Be16(g)[1] = (g \div 256) % 256 /\ Be16(g)[2] = g % 256
    BY DEF Be16
  <2> HIDE DEF l
  <2> QED
    BY <2>1, <2>2 DEF Get16
<1> HIDE DEF h, l
<1>3. Get16(Signed(Be16(h)[1]), Be16(h)[2]) = h
  <2> DEFINE x == h \div 256
             y == h % 256
  <2>1. x \in Int /\ y \in Int /\ -128 <= x /\ x <= 127 /\ x * 256 + y = h
    BY <1>1, SMT
  <2>2. Signed(x % 256) = x
    <3> HIDE DEF x, y
    <3>1. x >= 0 => x % 256 = x
      BY <2>1, SMT
    <3>2. x < 0 => x % 256 = x + 256
      BY <2>1, SMT
    <3> QED
      BY <2>1, <3>1, <3>2, SMT DEF Signed
  <2>3. Be16(h)[1] = x % 256 /\ Be16(h)[2] = y
    BY DEF Be16
  <2>4. Get16(x, y) = h
    BY <2>1, SMT DEF Get16
  <2> HIDE DEF x, y
  <2> QED
    BY <2>2, <2>3, <2>4
<1>4. ActionOf(Be16(h)[1], Be16(h)[2], Be16(g)[1], Be16(g)[2]) = h * 65536 + l
  BY <1>2, <1>3, SMT DEF ActionOf
<1>5. ActionOf(Be16(h)[1], Be16(h)[2], Be16(g)[1], Be16(g)[2]) = g
  BY <1>1, <1>4, SMT
<1> QED
  BY <1>5 DEF h

Touch == [action : Actions, pointers : Seq(Pointers)]

\* One pointer, after p cells.
PointerAt(e, b, p) ==
  b[p] = e[1] /\ Get16(b[p + 1], b[p + 2]) = e[2] /\ Get16(b[p + 3], b[p + 4]) = e[3]

TouchLaid(t, b) ==
  /\ b \in Seq(Nat) /\ Len(b) = 4 + 5 * Len(t.pointers)
  /\ ActionOf(b[1], b[2], b[3], b[4]) = t.action
  /\ \A n \in 1..Len(t.pointers) : PointerAt(t.pointers[n], b, 5 * n)

LEMMA PlaceInt == ASSUME NEW v \in Places PROVE v \in Int
  BY DEF Places

LEMMA JoinTwo ==
  ASSUME NEW s \in Seq(Nat), NEW t \in Seq(Nat), NEW n \in Nat, Len(s) = n, Len(t) = 2
  PROVE  /\ s \o t \in Seq(Nat) /\ Len(s \o t) = n + 2 /\ \A i \in 1..n : (s \o t)[i] = s[i]
         /\ (s \o t)[n + 1] = t[1] /\ (s \o t)[n + 2] = t[2]
<1> DEFINE c == s \o t
<1>1. JoinedIs(s, t, Nat)
  BY Joined
<1>2. c \in Seq(Nat) /\ Len(c) = n + 2 /\ (\A i \in 1..n : c[i] = s[i]) /\ \A i \in 1..2 : c[n + i] = t[i]
  BY <1>1 DEF JoinedIs
<1> HIDE DEF c
<1>3. 1 \in 1..2 /\ 2 \in 1..2
  OBVIOUS
<1>4. c[n + 1] = t[1] /\ c[n + 2] = t[2]
  BY <1>2, <1>3
<1> QED
  BY <1>2, <1>4 DEF c

Five(e) == <<e[1] % 256>> \o Be16(e[2]) \o Be16(e[3])

LEMMA FiveIs ==
  ASSUME NEW e \in Pointers
  PROVE  /\ Five(e) \in Seq(Nat) /\ Len(Five(e)) = 5 /\ Five(e)[1] = e[1]
         /\ Get16(Five(e)[2], Five(e)[3]) = e[2] /\ Get16(Five(e)[4], Five(e)[5]) = e[3]
<1> DEFINE u == Be16(e[2])
           v == Be16(e[3])
           w == e[1] % 256
<1>1. e[1] \in 0..255 /\ e[2] \in Places /\ e[3] \in Places
  BY DEF Pointers
<1>2. w \in Nat /\ w = e[1]
  BY <1>1
<1>3. u \in Seq(Nat) /\ Len(u) = 2 /\ v \in Seq(Nat) /\ Len(v) = 2
  <2>1. e[2] \in Int /\ e[3] \in Int
    BY <1>1, PlaceInt
  <2> QED
    BY <2>1, BytesOf
<1>4. Get16(u[1], u[2]) = e[2] /\ Get16(v[1], v[2]) = e[3]
  BY <1>1, WordBack
<1>5. Five(e) = (<<w>> \o u) \o v
  BY DEF Five
<1> HIDE DEF u, v, w
<1> DEFINE d == <<w>> \o u
           c == d \o v
<1>6. d \in Seq(Nat) /\ Len(d) = 3 /\ d[1] = w /\ d[2] = u[1] /\ d[3] = u[2]
  <2> DEFINE x == <<w>>
  <2>1. x \in Seq(Nat) /\ Len(x) = 1 /\ x[1] = w /\ 1 \in Nat
    BY <1>2
  <2> HIDE DEF x
  <2> DEFINE y == x \o u
  <2>2. y \in Seq(Nat) /\ Len(y) = 1 + 2 /\ (\A i \in 1..1 : y[i] = x[i]) /\ y[1 + 1] = u[1] /\ y[1 + 2] = u[2]
    BY <1>3, <2>1, JoinTwo, ZenonT(30)
  <2>3. d = y
    BY DEF x
  <2> HIDE DEF d, y
  <2> QED
    BY <2>1, <2>2, <2>3
<1> HIDE DEF d
<1>7. c \in Seq(Nat) /\ Len(c) = 5 /\ c[1] = d[1] /\ c[2] = d[2] /\ c[3] = d[3] /\ c[4] = v[1] /\ c[5] = v[2]
  <2>1. 3 \in Nat
    OBVIOUS
  <2>2. c \in Seq(Nat) /\ Len(c) = 3 + 2 /\ (\A i \in 1..3 : c[i] = d[i]) /\ c[3 + 1] = v[1] /\ c[3 + 2] = v[2]
    BY <1>3, <1>6, <2>1, JoinTwo
  <2> HIDE DEF c
  <2> QED
    BY <2>2
<1>8. Five(e) = c
  BY <1>5 DEF d
<1> HIDE DEF c
<1> QED
  BY <1>2, <1>4, <1>6, <1>7, <1>8

LEMMA TouchEncoded ==
  ASSUME NEW t \in Touch PROVE TouchLaid(t, EncodeAction3(t))
<1> DEFINE q == t.pointers
           s == [n \in DOMAIN q |-> Five(q[n])]
           f == FlattenSeq(s)
           g == t.action
           x == Be16(High(g))
           y == Be16(g)
           b == EncodeAction3(t)
<1>1. q \in Seq(Pointers) /\ g \in Actions
  BY DEF Touch
<1>2. DOMAIN q = 1..Len(q) /\ Len(q) \in Nat /\ \A n \in 1..Len(q) : q[n] \in Pointers
  BY <1>1
<1>3. b = (x \o y) \o f
  BY DEF EncodeAction3, Five, High
<1> HIDE DEF b, q
<1>4. Fives(s) /\ Len(s) = Len(q) /\ \A n \in 1..Len(q) : s[n] = Five(q[n])
  <2>1. \A n \in 1..Len(q) : Five(q[n]) \in Seq(Nat) /\ Len(Five(q[n])) = 5
    BY <1>2, FiveIs
  <2>2. s \in [1..Len(q) -> Seq(Nat)]
    BY <1>2, <2>1
  <2>3. \A n \in 1..Len(q) : s[n] = Five(q[n])
    BY <1>2
  <2> HIDE DEF s
  <2>4. s \in Seq(Seq(Nat)) /\ Len(s) = Len(q)
    BY <1>2, <2>2
  <2> QED
    BY <2>1, <2>3, <2>4 DEF Fives
<1> HIDE DEF s
<1>5. FlatTo(s, Len(q), f)
  BY <1>4, FlattenFives
<1>6. f \in Seq(Nat) /\ Len(f) = 5 * Len(q) /\ \A j \in 1..Len(q), i \in 1..5 : f[5 * (j - 1) + i] = s[j][i]
  BY <1>5 DEF FlatTo
<1>7. x \in Seq(Nat) /\ Len(x) = 2 /\ y \in Seq(Nat) /\ Len(y) = 2
  <2>1. g \in Int /\ High(g) \in Int
    BY <1>1, ActionInt, SMT DEF High
  <2> QED
    BY <2>1, BytesOf
<1>8. ActionOf(x[1], x[2], y[1], y[2]) = g
  BY <1>1, ActionBack
<1> HIDE DEF f, x, y, g
<1> DEFINE z == x \o y
<1>9. z \in Seq(Nat) /\ Len(z) = 4 /\ z[1] = x[1] /\ z[2] = x[2] /\ z[3] = y[1] /\ z[4] = y[2]
  <2>1. 2 \in Nat
    OBVIOUS
  <2>2. z \in Seq(Nat) /\ Len(z) = 2 + 2 /\ (\A i \in 1..2 : z[i] = x[i]) /\ z[2 + 1] = y[1] /\ z[2 + 2] = y[2]
    BY <1>7, <2>1, JoinTwo
  <2> HIDE DEF z
  <2> QED
    BY <2>2
<1> HIDE DEF z
<1>10. b = z \o f
  BY <1>3 DEF z
<1>11. JoinedIs(z, f, Nat)
  BY <1>6, <1>9, Joined
<1>12. /\ b \in Seq(Nat) /\ Len(b) = 4 + 5 * Len(q) /\ (\A i \in 1..4 : b[i] = z[i])
       /\ \A i \in 1..(5 * Len(q)) : b[4 + i] = f[i]
  BY <1>6, <1>9, <1>10, <1>11 DEF JoinedIs
<1>13. ActionOf(b[1], b[2], b[3], b[4]) = g
  <2>1. b[1] = x[1] /\ b[2] = x[2] /\ b[3] = y[1] /\ b[4] = y[2]
    BY <1>9, <1>12
  <2> QED
    BY <1>8, <2>1
<1>14. ASSUME NEW n \in 1..Len(q) PROVE PointerAt(q[n], b, 5 * n)
  <2>1. ASSUME NEW i \in 1..5 PROVE b[5 * n + i - 1] = Five(q[n])[i]
    <3> DEFINE j == 5 * (n - 1) + i
    <3>1. j \in 1..(5 * Len(q)) /\ 4 + j = 5 * n + i - 1
      BY <1>2
    <3>2. f[j] = s[n][i]
      BY <1>6
    <3> HIDE DEF j
    <3>3. b[4 + j] = f[j]
      BY <1>12, <3>1
    <3> QED
      BY <1>4, <3>1, <3>2, <3>3
  <2> DEFINE p == 5 * n
             c == Five(q[n])
  <2>2. b[p + 1 - 1] = c[1] /\ b[p + 2 - 1] = c[2] /\ b[p + 3 - 1] = c[3] /\ b[p + 4 - 1] = c[4] /\ b[p + 5 - 1] = c[5]
    BY <2>1
  <2>3. p \in Int /\ p + 1 - 1 = p /\ p + 2 - 1 = p + 1 /\ p + 3 - 1 = p + 2 /\ p + 4 - 1 = p + 3 /\ p + 5 - 1 = p + 4
    OBVIOUS
  <2>4. b[p] = c[1] /\ b[p + 1] = c[2] /\ b[p + 2] = c[3] /\ b[p + 3] = c[4] /\ b[p + 4] = c[5]
    <3> HIDE DEF p, c
    <3> QED
      BY <2>2, <2>3
  <2>5. c[1] = q[n][1] /\ Get16(c[2], c[3]) = q[n][2] /\ Get16(c[4], c[5]) = q[n][3]
    BY <1>2, FiveIs
  <2> HIDE DEF p, c
  <2>6. PointerAt(q[n], b, p)
    BY <2>4, <2>5 DEF PointerAt
  <2> QED
    BY <2>6 DEF p
<1> QED
  BY <1>12, <1>13, <1>14 DEF TouchLaid, q, g, b

\* One pointer, as it is read of the cells s.
PointerRead(s, n) == <<s[5 * n], Get16(s[5 * n + 1], s[5 * n + 2]), Get16(s[5 * n + 3], s[5 * n + 4])>>

LEMMA PointersRead ==
  ASSUME NEW t \in Touch, NEW b, TouchLaid(t, b), NEW m \in Nat, m <= Len(b), NEW k \in Nat, m = 4 + 5 * k
  PROVE  /\ k <= Len(t.pointers)
         /\ [n \in 1..k |-> PointerRead(SubSeq(b, 1, m), n)] = SubSeq(t.pointers, 1, k)
<1> DEFINE q == t.pointers
           s == SubSeq(b, 1, m)
           f == [n \in 1..k |-> PointerRead(s, n)]
           g == SubSeq(q, 1, k)
<1>1. q \in Seq(Pointers) /\ Len(q) \in Nat
  BY DEF Touch
<1>2. b \in Seq(Nat) /\ Len(b) = 4 + 5 * Len(q) /\ \A n \in 1..Len(q) : PointerAt(q[n], b, 5 * n)
  BY DEF TouchLaid
<1>3. k <= Len(q)
  BY <1>1, <1>2
<1>4. s \in Seq(Nat) /\ Len(s) = m /\ \A i \in 1..m : s[i] = b[i]
  BY <1>2
<1> HIDE DEF s
<1>5. ASSUME NEW n \in 1..k PROVE PointerRead(s, n) = q[n]
  <2> DEFINE p == 5 * n
  <2>1. p \in 1..m /\ p + 1 \in 1..m /\ p + 2 \in 1..m /\ p + 3 \in 1..m /\ p + 4 \in 1..m /\ n \in 1..Len(q)
    BY <1>1, <1>3
  <2>2. PointerAt(q[n], b, p) /\ q[n] \in Pointers
    BY <1>1, <1>2, <2>1
  <2>3. q[n] = <<q[n][1], q[n][2], q[n][3]>>
    BY <2>2 DEF Pointers
  <2>4. PointerRead(s, n) = <<s[p], Get16(s[p + 1], s[p + 2]), Get16(s[p + 3], s[p + 4])>>
    BY DEF PointerRead
  <2> HIDE DEF p
  <2>5. s[p] = b[p] /\ s[p + 1] = b[p + 1] /\ s[p + 2] = b[p + 2] /\ s[p + 3] = b[p + 3] /\ s[p + 4] = b[p + 4]
    BY <1>4, <2>1
  <2>6. PointerRead(s, n) = <<b[p], Get16(b[p + 1], b[p + 2]), Get16(b[p + 3], b[p + 4])>>
    BY <2>4, <2>5
  <2>7. b[p] = q[n][1] /\ Get16(b[p + 1], b[p + 2]) = q[n][2] /\ Get16(b[p + 3], b[p + 4]) = q[n][3]
    BY <2>2 DEF PointerAt
  <2> QED
    BY <2>3, <2>6, <2>7
<1>6. g = [n \in 1..k |-> q[n]]
  BY <1>1, <1>3
<1>7. f = g
  BY <1>5, <1>6
<1> QED
  BY <1>3, <1>7 DEF s

\* What is read of the first m cells: nothing, or the action and the first pointers.
LEMMA TouchRead ==
  ASSUME NEW t \in Touch, NEW b, TouchLaid(t, b), NEW m \in 0..Len(b)
  PROVE  \E k \in 0..Len(t.pointers) :
           /\ \/ DecodeAction3(SubSeq(b, 1, m)) = Bad
              \/ DecodeAction3(SubSeq(b, 1, m)) = [action |-> t.action, pointers |-> SubSeq(t.pointers, 1, k)]
           /\ m = Len(b) => DecodeAction3(SubSeq(b, 1, m)) = t
<1> DEFINE q == t.pointers
           s == SubSeq(b, 1, m)
           d == DecodeAction3(s)
           g == ActionOf(s[1], s[2], s[3], s[4])
           r(k) == [n \in 1..k |-> PointerRead(s, n)]
<1>1. q \in Seq(Pointers) /\ Len(q) \in Nat /\ t = [action |-> t.action, pointers |-> q]
  BY DEF Touch
<1>2. /\ b \in Seq(Nat) /\ Len(b) = 4 + 5 * Len(q) /\ m \in Nat /\ m <= Len(b)
      /\ ActionOf(b[1], b[2], b[3], b[4]) = t.action
  BY <1>1 DEF TouchLaid
<1>3. s \in Seq(Nat) /\ Len(s) = m /\ \A i \in 1..m : s[i] = b[i]
  BY <1>2, SMTT(30)
<1> HIDE DEF s, q
<1>4. d = IF Len(s) < 4 \/ (Len(s) - 4) % 5 # 0 THEN Bad
          ELSE [action |-> g, pointers |-> r((Len(s) - 4) \div 5)]
  BY SMT DEF DecodeAction3, ActionOf, PointerRead
<1> HIDE DEF d, r
<1>5. CASE m < 4 \/ (m - 4) % 5 # 0
  <2>1. d = Bad
    BY <1>3, <1>4, <1>5
  <2>2. m # Len(b)
    <3> SUFFICES ASSUME m = Len(b) PROVE FALSE
      OBVIOUS
    <3> DEFINE l == Len(q)
    <3>1. m = 4 + 5 * l /\ l \in Nat
      BY <1>1, <1>2
    <3> HIDE DEF l
    <3> QED
      BY <1>5, <3>1
  <2>3. 0 \in 0..Len(q)
    BY <1>1
  <2> QED
    BY <2>1, <2>2, <2>3 DEF d, q, s
<1>6. CASE ~ (m < 4 \/ (m - 4) % 5 # 0)
  <2> DEFINE k == (m - 4) \div 5
  <2>1. k \in Nat /\ m = 4 + 5 * k
    BY <1>2, <1>6
  <2>2. d = [action |-> g, pointers |-> r(k)]
    BY <1>3, <1>4, <1>6
  <2> HIDE DEF k, g
  <2>3. k <= Len(q) /\ r(k) = SubSeq(q, 1, k)
    <3>1. m <= Len(b) /\ m \in Nat
      BY <1>2
    <3>2. /\ k <= Len(t.pointers)
          /\ [n \in 1..k |-> PointerRead(SubSeq(b, 1, m), n)] = SubSeq(t.pointers, 1, k)
      BY <2>1, <3>1, PointersRead
    <3> QED
      BY <3>2 DEF q, r, s
  <2>4. g = t.action
    <3>1. 1 \in 1..m /\ 2 \in 1..m /\ 3 \in 1..m /\ 4 \in 1..m
      BY <2>1
    <3>2. s[1] = b[1] /\ s[2] = b[2] /\ s[3] = b[3] /\ s[4] = b[4]
      BY <1>3, <3>1
    <3> QED
      BY <1>2, <3>2 DEF g
  <2>5. m = Len(b) => k = Len(q)
    BY <1>1, <1>2, <2>1
  <2>6. SubSeq(q, 1, Len(q)) = q
    BY <1>1
  <2>7. d = [action |-> t.action, pointers |-> SubSeq(q, 1, k)]
    BY <2>2, <2>3, <2>4
  <2>8. m = Len(b) => d = t
    BY <1>1, <2>5, <2>6, <2>7
  <2>9. k \in 0..Len(q)
    BY <1>1, <2>1, <2>3
  <2> QED
    BY <2>7, <2>8, <2>9 DEF d, q, s
<1> QED
  BY <1>5, <1>6

-----------------------------------------------------------------------------
(* A channel.                                                              *)

LEMMA PrefixIs ==
  ASSUME NEW S, NEW q \in Seq(S), NEW k \in 0..Len(q) PROVE IsPrefix(SubSeq(q, 1, k), q)
<1>1. Len(SubSeq(q, 1, k)) = k /\ k <= Len(q) /\ SubSeq(SubSeq(q, 1, k), 1, k) = SubSeq(q, 1, k)
  OBVIOUS
<1> QED
  BY <1>1 DEF IsPrefix

Arrived == SubSeq(stream, 1, Len(stream) - missing)

FrameChannel ==
  channel # "touch" => framed \in Seq(Frame) /\ stream \in Seq(Nat) /\ \E pos : Laid(framed, stream, pos)
TouchChannel == channel = "touch" => framed \in Touch /\ TouchLaid(framed, stream)
TakenIs ==
  taken # NotTaken => taken = IF channel = "touch" THEN DecodeAction3(Arrived) ELSE DecodeFrames(Arrived)
FrameInv ==
  /\ FrameChannel /\ TouchChannel /\ TakenIs
  /\ stream \in Seq(Nat) /\ missing \in 0..Len(stream)

LEMMA FrameInitInv == FrameInit => FrameInv
<1> SUFFICES ASSUME FrameInit PROVE FrameInv
  OBVIOUS
<1>1. CASE channel \in {"short", "long"} /\ framed = <<>> /\ stream = <<>>
  <2>1. Laid(framed, stream, [k \in {0} |-> 0])
    BY <1>1, LaidEmpty
  <2>2. FrameChannel
    BY <1>1, <2>1 DEF FrameChannel
  <2> QED
    BY <1>1, <2>2 DEF FrameInit, FrameInv, TouchChannel, TakenIs
<1>2. CASE channel = "touch" /\ framed \in Touches /\ stream = EncodeAction3(framed)
  <2>1. framed \in Touch
    BY <1>2, FrameExchangeAssumption DEF Touch
  <2>2. TouchLaid(framed, stream)
    BY <1>2, <2>1, TouchEncoded
  <2>3. stream \in Seq(Nat)
    BY <2>2 DEF TouchLaid
  <2>4. 0 \in 0..Len(stream)
    BY <2>3
  <2> QED
    BY <1>2, <2>1, <2>2, <2>3, <2>4 DEF FrameInit, FrameInv, FrameChannel, TouchChannel, TakenIs
<1> QED
  BY <1>1, <1>2 DEF FrameInit

LEMMA FrameStep == FrameInv /\ [FrameNext]_frameVars => FrameInv'
<1> SUFFICES ASSUME FrameInv, [FrameNext]_frameVars PROVE FrameInv'
  OBVIOUS
<1> USE DEF FrameInv
<1>1. CASE SendFrame
  <2>1. channel # "touch" /\ UNCHANGED <<channel, missing, taken>> /\ taken = NotTaken /\ missing = 0
    BY <1>1 DEF SendFrame
  <2>2. PICK payload \in Payload, svc \in Service :
          /\ CanFrame(channel = "short", payload)
          /\ stream' = stream \o EncodeFrame(channel = "short", svc, payload)
          /\ framed' = Append(framed, [svc |-> svc, payload |-> payload])
    BY <1>1 DEF SendFrame
  <2> DEFINE e == [svc |-> svc, payload |-> payload]
  <2>3. svc \in Nat /\ payload \in Seq(Nat) /\ e \in Frame
    BY FrameExchangeAssumption DEF Frame
  <2>4. EncodeFrame(channel = "short", svc, payload) = FrameCells(e)
    BY <2>2, <2>3, EncodeIs
  <2>5. framed \in Seq(Frame) /\ stream \in Seq(Nat)
    BY <2>1 DEF FrameChannel
  <2>6. PICK pos : Laid(framed, stream, pos)
    BY <2>1 DEF FrameChannel
  <2> HIDE DEF e
  <2>7. \E at : Laid(Append(framed, e), stream \o FrameCells(e), at)
    BY <2>3, <2>5, <2>6, LaidAppend
  <2>8. \E at : Laid(framed', stream', at)
    BY <2>2, <2>4, <2>7 DEF e
  <2>9. framed' \in Seq(Frame)
    BY <2>2, <2>3, <2>5 DEF e
  <2>10. stream' \in Seq(Nat)
    BY <2>2, <2>3, <2>4, <2>5, LaidAtEnd
  <2>11. 0 \in 0..Len(stream')
    BY <2>10
  <2> QED
    BY <2>1, <2>8, <2>9, <2>10, <2>11 DEF FrameChannel, TouchChannel, TakenIs
<1>2. CASE LoseEnd
  <2>1. missing' \in 0..Len(stream) /\ UNCHANGED <<channel, framed, stream, taken>> /\ taken = NotTaken
    BY <1>2 DEF LoseEnd
  <2> QED
    BY <2>1 DEF FrameChannel, TouchChannel, TakenIs
<1>3. CASE Take
  <2>1. /\ UNCHANGED <<channel, framed, stream, missing>>
        /\ taken' = IF channel = "touch" THEN DecodeAction3(Arrived) ELSE DecodeFrames(Arrived)
    BY <1>3 DEF Take, Arrived
  <2>2. Arrived' = Arrived
    BY <2>1 DEF Arrived
  <2> QED
    BY <2>1, <2>2 DEF FrameChannel, TouchChannel, TakenIs
<1>4. CASE UNCHANGED frameVars
  BY <1>4 DEF frameVars, FrameChannel, TouchChannel, TakenIs, Arrived
<1> QED
  BY <1>1, <1>2, <1>3, <1>4 DEF FrameNext

LEMMA FrameInvInStep == FrameInv => FramesInStep
<1> SUFFICES ASSUME FrameInv, taken # NotTaken
             PROVE  IF channel # "touch" THEN IsPrefix(taken, framed) /\ (missing = 0 => taken = framed)
                    ELSE /\ taken # Bad => taken.action = framed.action /\ IsPrefix(taken.pointers, framed.pointers)
                         /\ missing = 0 => taken = framed
  BY DEF FramesInStep
<1> DEFINE m == Len(stream) - missing
<1>1. m \in 0..Len(stream) /\ (missing = 0 => m = Len(stream)) /\ Arrived = SubSeq(stream, 1, m)
  BY DEF FrameInv, Arrived
<1> HIDE DEF m
<1>2. CASE channel # "touch"
  <2>1. framed \in Seq(Frame) /\ stream \in Seq(Nat)
    BY <1>2 DEF FrameInv, FrameChannel
  <2>2. PICK pos : Laid(framed, stream, pos)
    BY <1>2 DEF FrameInv, FrameChannel
  <2>3. PICK k \in 0..Len(framed) : /\ DecodeFrames(SubSeq(stream, 1, m)) = SubSeq(framed, 1, k)
                                    /\ m = Len(stream) => k = Len(framed)
    BY <1>1, <2>1, <2>2, FramesRead
  <2>4. taken = SubSeq(framed, 1, k)
    BY <1>1, <1>2, <2>3 DEF FrameInv, TakenIs
  <2>5. IsPrefix(SubSeq(framed, 1, k), framed)
    BY <2>1, PrefixIs
  <2>6. SubSeq(framed, 1, Len(framed)) = framed
    BY <2>1
  <2>7. IsPrefix(taken, framed)
    BY <2>4, <2>5
  <2>8. missing = 0 => taken = framed
    BY <1>1, <2>3, <2>4, <2>6
  <2> QED
    BY <1>2, <2>7, <2>8
<1>3. CASE channel = "touch"
  <2>1. framed \in Touch /\ TouchLaid(framed, stream)
    BY <1>3 DEF FrameInv, TouchChannel
  <2>2. PICK k \in 0..Len(framed.pointers) :
          /\ \/ DecodeAction3(SubSeq(stream, 1, m)) = Bad
             \/ DecodeAction3(SubSeq(stream, 1, m)) = [action |-> framed.action, pointers |-> SubSeq(framed.pointers, 1, k)]
          /\ m = Len(stream) => DecodeAction3(SubSeq(stream, 1, m)) = framed
    BY <1>1, <2>1, TouchRead
  <2>3. taken = DecodeAction3(SubSeq(stream, 1, m))
    BY <1>1, <1>3 DEF FrameInv, TakenIs
  <2>4. framed.pointers \in Seq(Pointers)
    BY <2>1 DEF Touch
  <2>5. IsPrefix(SubSeq(framed.pointers, 1, k), framed.pointers)
    BY <2>4, PrefixIs
  <2>6. taken # Bad => taken.action = framed.action /\ IsPrefix(taken.pointers, framed.pointers)
    <3> DEFINE p == SubSeq(framed.pointers, 1, k)
    <3>1. taken # Bad => taken = [action |-> framed.action, pointers |-> p]
      BY <2>2, <2>3
    <3>2. IsPrefix(p, framed.pointers)
      BY <2>5
    <3> HIDE DEF p
    <3>3. taken # Bad => taken.action = framed.action /\ taken.pointers = p
      BY <3>1
    <3> QED
      BY <3>2, <3>3
  <2>7. missing = 0 => taken = framed
    BY <1>1, <2>2, <2>3
  <2> QED
    BY <1>3, <2>6, <2>7
<1> QED
  BY <1>2, <1>3

\* The frames of a channel come out as they went in, whole and in order, and so do
\* the pointers of a touch, wherever the connection ends: Transport::send and
\* readerLoop, and TOUCH_ACTION_3 (transport.cpp:160-244, wire.cpp:1074-1106).
THEOREM FramesAlwaysInStep == FrameSpec => []FramesInStep
<1>1. FrameInit => FrameInv
  BY FrameInitInv
<1>2. FrameInv /\ [FrameNext]_frameVars => FrameInv'
  BY FrameStep
<1>3. FrameInv => FramesInStep
  BY FrameInvInStep
<1> QED
  BY <1>1, <1>2, <1>3, PTL DEF FrameSpec

-----------------------------------------------------------------------------
(* The bluetooth link.  First pieces of a stream.                          *)

\* The cells after the first u, up to r.
Part(b, u, r) == SubSeq(b, u + 1, r)

PartIs(b, u, r) ==
  /\ Part(b, u, r) \in Seq(Nat) /\ Len(Part(b, u, r)) = r - u
  /\ \A i \in 1..(r - u) : Part(b, u, r)[i] = b[u + i]

LEMMA PartOf ==
  ASSUME NEW b \in Seq(Nat), NEW u \in Nat, NEW r \in Nat, u <= r, r <= Len(b)
  PROVE  PartIs(b, u, r)
<1>1. /\ SubSeq(b, u + 1, r) \in Seq(Nat) /\ Len(SubSeq(b, u + 1, r)) = r - u
      /\ \A i \in 1..(r - u) : SubSeq(b, u + 1, r)[i] = b[u + i]
  BY Piece
<1> QED
  BY <1>1 DEF Part, PartIs

\* Two parts that meet.
LEMMA PartsMeet ==
  ASSUME NEW b \in Seq(Nat), NEW u \in Nat, NEW v \in Nat, NEW r \in Nat, u <= v, v <= r, r <= Len(b)
  PROVE  Part(b, u, v) \o Part(b, v, r) = Part(b, u, r)
<1> DEFINE s == Part(b, u, v)
           t == Part(b, v, r)
           x == Part(b, u, r)
           c == s \o t
           n == r - u
           m == v - u
<1>1. Len(b) \in Nat /\ u <= r /\ v <= Len(b) /\ n \in Nat /\ m \in Nat /\ n - m = r - v /\ r - v \in Nat /\ m <= n
  OBVIOUS
<1>2. PartIs(b, u, v) /\ PartIs(b, v, r) /\ PartIs(b, u, r)
  BY <1>1, PartOf
<1>3. s \in Seq(Nat) /\ Len(s) = m /\ \A i \in 1..m : s[i] = b[u + i]
  BY <1>2 DEF PartIs
<1>4. t \in Seq(Nat) /\ Len(t) = r - v /\ \A i \in 1..(r - v) : t[i] = b[v + i]
  BY <1>2 DEF PartIs
<1>5. x \in Seq(Nat) /\ Len(x) = n /\ \A i \in 1..n : x[i] = b[u + i]
  BY <1>2 DEF PartIs
<1> HIDE DEF s, t, x
<1>6. JoinedIs(s, t, Nat)
  BY <1>3, <1>4, Joined
<1>7. /\ c \in Seq(Nat) /\ Len(c) = m + (r - v) /\ (\A i \in 1..m : c[i] = s[i])
      /\ \A i \in 1..(r - v) : c[m + i] = t[i]
  BY <1>3, <1>4, <1>6 DEF JoinedIs
<1> HIDE DEF c
<1>8. ASSUME NEW i \in 1..n PROVE c[i] = x[i]
  <2>1. CASE i <= m
    <3>1. i \in 1..m
      BY <1>1, <1>8, <2>1
    <3> QED
      BY <1>3, <1>5, <1>7, <1>8, <3>1
  <2>2. CASE ~ (i <= m)
    <3> DEFINE j == i - m
    <3>1. j \in 1..(r - v) /\ m + j = i /\ v + j = u + i
      BY <1>1, <1>8, <2>2
    <3> HIDE DEF j, m, n
    <3>2. c[m + j] = b[v + j]
      BY <1>4, <1>7, <3>1
    <3> QED
      BY <1>5, <1>8, <3>1, <3>2
  <2> QED
    BY <2>1, <2>2
<1>9. Len(c) = n
  BY <1>1, <1>7
<1> HIDE DEF n, m
<1>10. c = x
  BY <1>1, <1>5, <1>7, <1>8, <1>9, SameSeq
<1> QED
  BY <1>10 DEF c, s, t, x

\* A part of a part.
LEMMA PartOfPart ==
  ASSUME NEW b \in Seq(Nat), NEW u \in Nat, NEW r \in Nat, u <= r, r <= Len(b), NEW n \in Nat, u + n <= r
  PROVE  Beyond(Part(b, u, r), n) = Part(b, u + n, r) /\ SubSeq(Part(b, u, r), 1, n) = Part(b, u, u + n)
<1> DEFINE s == Part(b, u, r)
           d == Beyond(s, n)
           f == SubSeq(s, 1, n)
           v == u + n
           x == Part(b, v, r)
           y == Part(b, u, v)
           m == r - v
<1>1. v \in Nat /\ v <= r /\ u <= v /\ m \in Nat /\ v <= Len(b) /\ v - u = n /\ r - u \in Nat /\ n + m = r - u
  OBVIOUS
<1>2. PartIs(b, u, r) /\ PartIs(b, v, r) /\ PartIs(b, u, v)
  <2> HIDE DEF v
  <2> QED
    BY <1>1, PartOf
<1>3. s \in Seq(Nat) /\ Len(s) = r - u /\ \A i \in 1..(r - u) : s[i] = b[u + i]
  BY <1>2 DEF PartIs
<1>4. x \in Seq(Nat) /\ Len(x) = m /\ \A i \in 1..m : x[i] = b[v + i]
  BY <1>2 DEF PartIs
<1>5. y \in Seq(Nat) /\ Len(y) = n /\ \A i \in 1..n : y[i] = b[u + i]
  <2> HIDE DEF v
  <2> QED
    BY <1>1, <1>2 DEF PartIs
<1> HIDE DEF s, x, y
<1>6. d \in Seq(Nat) /\ Len(d) = m /\ \A i \in 1..m : d[i] = s[n + i]
  <2>1. n <= Len(s)
    BY <1>1, <1>3
  <2>2. BeyondIs(s, n, Nat)
    BY <1>3, <2>1, BeyondPiece
  <2>3. Len(s) - n = m
    BY <1>1, <1>3
  <2> HIDE DEF m
  <2> QED
    BY <2>2, <2>3 DEF BeyondIs
<1>7. f \in Seq(Nat) /\ Len(f) = n /\ \A i \in 1..n : f[i] = s[i]
  <2>1. n <= Len(s)
    BY <1>1, <1>3
  <2> QED
    BY <1>3, <2>1
<1> HIDE DEF d, f
<1>8. ASSUME NEW i \in 1..m PROVE d[i] = x[i]
  <2> DEFINE j == n + i
  <2>1. j \in 1..(r - u) /\ u + j = v + i
    BY <1>1, <1>8
  <2>2. d[i] = s[j]
    BY <1>6
  <2> HIDE DEF j, v, m
  <2>3. s[j] = b[u + j]
    BY <1>3, <2>1
  <2> QED
    BY <1>4, <1>8, <2>1, <2>2, <2>3
<1>9. ASSUME NEW i \in 1..n PROVE f[i] = y[i]
  <2>1. i \in 1..(r - u)
    BY <1>1
  <2> QED
    BY <1>3, <1>5, <1>7, <2>1
<1> HIDE DEF m
<1>10. d = x
  BY <1>1, <1>4, <1>6, <1>8, SameSeq
<1>11. f = y
  BY <1>5, <1>7, <1>9, SameSeq
<1> QED
  BY <1>10, <1>11 DEF d, f, s, x, y, v

\* A part of a longer stream.
LEMMA PartJoin ==
  ASSUME NEW b \in Seq(Nat), NEW t \in Seq(Nat), NEW u \in Nat, NEW r \in Nat, u <= r, r <= Len(b)
  PROVE  /\ b \o t \in Seq(Nat) /\ Len(b) <= Len(b \o t)
         /\ Part(b \o t, u, r) = Part(b, u, r)
         /\ Part(b, u, Len(b)) \o t = Part(b \o t, u, Len(b \o t))
<1> DEFINE c == b \o t
           p == Len(b)
           q == Len(c)
           x == Part(b, u, r)
           y == Part(c, u, r)
           n == r - u
<1>1. JoinedIs(b, t, Nat) /\ p \in Nat /\ Len(t) \in Nat
  BY Joined
<1>2. c \in Seq(Nat) /\ q = p + Len(t) /\ (\A i \in 1..p : c[i] = b[i]) /\ \A i \in 1..Len(t) : c[p + i] = t[i]
  BY <1>1 DEF JoinedIs
<1>3. q \in Nat /\ p <= q /\ r <= q /\ u <= p /\ p <= p /\ q <= q /\ n \in Nat
  BY <1>1, <1>2
<1> HIDE DEF c, p, q
<1>4. PartIs(b, u, r) /\ PartIs(c, u, r)
  BY <1>2, <1>3, PartOf DEF p, q
<1>5. x \in Seq(Nat) /\ Len(x) = n /\ y \in Seq(Nat) /\ Len(y) = n
  BY <1>4 DEF PartIs
<1>6. ASSUME NEW i \in 1..n PROVE y[i] = x[i]
  <2> DEFINE j == u + i
  <2>1. j \in 1..p
    BY <1>1, <1>3 DEF p
  <2>2. x[i] = b[j] /\ y[i] = c[j]
    BY <1>4 DEF PartIs
  <2> HIDE DEF j, x, y
  <2> QED
    BY <1>2, <2>1, <2>2
<1> HIDE DEF x, y, n
<1>7. y = x
  BY <1>3, <1>5, <1>6, SameSeq
<1>8. t = Part(c, p, q)
  <2> DEFINE z == Part(c, p, q)
             m == Len(t)
  <2>1. PartIs(c, p, q)
    BY <1>1, <1>2, <1>3, PartOf DEF q
  <2>2. q - p = m /\ m \in Nat
    BY <1>1, <1>2
  <2> HIDE DEF m
  <2>3. z \in Seq(Nat) /\ Len(z) = m /\ \A i \in 1..m : z[i] = c[p + i]
    BY <2>1, <2>2 DEF PartIs
  <2> HIDE DEF z
  <2>4. \A i \in 1..m : z[i] = t[i]
    BY <1>2, <2>3 DEF m
  <2>5. Len(t) = m
    BY DEF m
  <2>6. z = t
    BY <2>2, <2>3, <2>4, <2>5, SameSeq
  <2> QED
    BY <2>6 DEF z
<1>9. Part(b, u, p) = Part(c, u, p)
  <2> DEFINE v == Part(b, u, p)
             w == Part(c, u, p)
             m == p - u
  <2>1. PartIs(b, u, p) /\ PartIs(c, u, p) /\ m \in Nat
    BY <1>1, <1>2, <1>3, PartOf DEF p, q
  <2>2. v \in Seq(Nat) /\ Len(v) = m /\ w \in Seq(Nat) /\ Len(w) = m
    BY <2>1 DEF PartIs
  <2>3. ASSUME NEW i \in 1..m PROVE w[i] = v[i]
    <3> DEFINE j == u + i
    <3>1. j \in 1..p
      BY <1>1, <1>3, <2>3
    <3>2. v[i] = b[j] /\ w[i] = c[j]
      BY <2>1, <2>3 DEF PartIs
    <3> HIDE DEF j, v, w
    <3> QED
      BY <1>2, <3>1, <3>2
  <2> HIDE DEF v, w, m
  <2>4. w = v
    BY <2>1, <2>2, <2>3, SameSeq
  <2> QED
    BY <2>4 DEF v, w
<1>10. Part(c, u, p) \o Part(c, p, q) = Part(c, u, q)
  BY <1>1, <1>2, <1>3, PartsMeet, SMTT(30) DEF q
<1>11. Part(b, u, p) \o t = Part(c, u, q)
  BY <1>8, <1>9, <1>10
<1> QED
  BY <1>2, <1>3, <1>7, <1>11 DEF c, p, q, x, y

-----------------------------------------------------------------------------
(* What is due to a phone.                                                 *)

LEMMA UpToMore ==
  ASSUME NEW m \in Nat, NEW T, T \subseteq 1..m, NEW n \in Nat
  PROVE  /\ Cardinality(UpTo(T, n)) \in Nat
         /\ n + 1 \in T => Cardinality(UpTo(T, n + 1)) = Cardinality(UpTo(T, n)) + 1
         /\ n + 1 \notin T => UpTo(T, n + 1) = UpTo(T, n)
<1> DEFINE A == UpTo(T, n)
           B == UpTo(T, n + 1)
<1>1. IsFiniteSet(1..m)
  BY FS_Interval
<1>2. A \subseteq 1..m
  BY DEF UpTo
<1>3. IsFiniteSet(A)
  BY <1>1, <1>2, FS_Subset
<1>4. Cardinality(A) \in Nat
  BY <1>3, FS_CardinalityType
<1>5. \A i \in T : i \in Int /\ (i <= n + 1 <=> i <= n \/ i = n + 1)
  OBVIOUS
<1>6. ASSUME n + 1 \in T PROVE Cardinality(B) = Cardinality(A) + 1
  <2>1. B = A \union {n + 1} /\ n + 1 \notin A
    <3>1. n + 1 <= n + 1 /\ ~ (n + 1 <= n)
      OBVIOUS
    <3>2. \A i : i \in B <=> i \in T /\ i <= n + 1
      BY DEF UpTo
    <3>3. \A i : i \in A <=> i \in T /\ i <= n
      BY DEF UpTo
    <3> HIDE DEF A, B
    <3>4. \A i : i \in B <=> i \in A \/ i = n + 1
      BY <1>5, <1>6, <3>1, <3>2, <3>3
    <3> QED
      BY <3>1, <3>3, <3>4
  <2> HIDE DEF A, B
  <2> QED
    BY <1>3, <2>1, FS_AddElement
<1>7. n + 1 \notin T => B = A
  BY <1>5 DEF UpTo
<1> QED
  BY <1>4, <1>6, <1>7

LEMMA UpToSame ==
  ASSUME NEW m \in Nat, NEW T, T \subseteq 1..m, NEW c \in Nat, NEW n \in Nat, c <= n,
         \A k \in (c + 1)..n : k \notin T
  PROVE  UpTo(T, n) = UpTo(T, c)
<1>1. ASSUME NEW i \in T, i <= n PROVE i <= c
  <2>1. i \in Int /\ ~ (i > c)
    <3>1. i \in Int
      OBVIOUS
    <3> SUFFICES ASSUME i > c PROVE FALSE
      BY <3>1
    <3>2. i \in (c + 1)..n
      BY <1>1, <3>1
    <3> QED
      BY <3>2
  <2> QED
    BY <2>1
<1>2. \A i \in T : i <= c => i <= n
  OBVIOUS
<1> QED
  BY <1>1, <1>2 DEF UpTo

SaysStep(S, k) == S[k][1] = "say"
FrameOf(S, k) == [svc |-> S[k][2], payload |-> S[k][3]]

LEMMA SensibleStep ==
  ASSUME NEW S, Sensible(S), NEW k \in 1..Len(S)
  PROVE  /\ ~ SaysStep(S, k) => S[k][1] = "hear"
         /\ SaysStep(S, k) => FrameOf(S, k) \in Frame /\ CanFrame(TRUE, S[k][3])
<1>1. S[k] \in ({"say"} \X Nat \X Seq(Nat)) \union ({"hear"} \X Nat) /\ k \in DOMAIN S
  BY DEF Sensible
<1>2. CASE S[k] \in {"say"} \X Nat \X Seq(Nat)
  <2>1. S[k][1] = "say" /\ S[k][2] \in Nat /\ S[k][3] \in Seq(Nat)
    BY <1>2
  <2>2. Len(S[k][3]) < ShortLimit
    BY <1>1, <2>1 DEF Sensible
  <2> QED
    BY <2>1, <2>2 DEF SaysStep, FrameOf, Frame, CanFrame
<1>3. CASE S[k] \in {"hear"} \X Nat
  BY <1>3 DEF SaysStep
<1> QED
  BY <1>1, <1>2, <1>3

LEMMA SensibleType ==
  ASSUME NEW S, Sensible(S)
  PROVE  /\ Len(S) \in Nat /\ DOMAIN S = 1..Len(S)
         /\ S \in Seq(({"say"} \X Nat \X Seq(Nat)) \union ({"hear"} \X Nat))
         /\ Answered(S) \subseteq 1..Len(S) /\ AskedBack(S) \subseteq 1..Len(S)
         /\ Telling(S, TargetRequest) \subseteq 1..Len(S) /\ Addresses(S) \subseteq 1..Len(S)
         /\ Hearings(S) \subseteq 1..Len(S)
         /\ \A k \in 1..Len(S) : ~ SaysStep(S, k) =>
              /\ k \notin Answered(S) /\ k \notin AskedBack(S)
              /\ k \notin Telling(S, TargetRequest) /\ k \notin Addresses(S)
<1>1. Len(S) \in Nat /\ DOMAIN S = 1..Len(S)
      /\ S \in Seq(({"say"} \X Nat \X Seq(Nat)) \union ({"hear"} \X Nat))
  BY DEF Sensible
<1> QED
  BY <1>1 DEF Answered, AskedBack, Questions, Telling, Addresses, Hearings, SaysStep

\* What does not depend on steps that say nothing.
LEMMA DueSame ==
  ASSUME NEW S, Sensible(S), NEW c \in Nat, NEW n \in Nat, c <= n, n <= Len(S),
         \A k \in (c + 1)..n : ~ SaysStep(S, k)
  PROVE  /\ Due(S, n) = Due(S, c) /\ UpTo(Addresses(S), n) = UpTo(Addresses(S), c)
         /\ UpTo(Telling(S, TargetRequest), n) = UpTo(Telling(S, TargetRequest), c)
<1>1. Len(S) \in Nat /\ \A k \in (c + 1)..n : k \in 1..Len(S)
  BY SensibleType
<1>2. \A k \in (c + 1)..n : k \notin Answered(S) /\ k \notin AskedBack(S)
        /\ k \notin Telling(S, TargetRequest) /\ k \notin Addresses(S)
  BY <1>1, SensibleType
<1>3. /\ Answered(S) \subseteq 1..Len(S) /\ AskedBack(S) \subseteq 1..Len(S)
      /\ Telling(S, TargetRequest) \subseteq 1..Len(S) /\ Addresses(S) \subseteq 1..Len(S)
  BY SensibleType
<1>4. UpTo(Answered(S), n) = UpTo(Answered(S), c)
  BY <1>1, <1>2, <1>3, UpToSame
<1>5. UpTo(AskedBack(S), n) = UpTo(AskedBack(S), c)
  BY <1>1, <1>2, <1>3, UpToSame
<1>6. UpTo(Addresses(S), n) = UpTo(Addresses(S), c)
  BY <1>1, <1>2, <1>3, UpToSame
<1>7. UpTo(Telling(S, TargetRequest), n) = UpTo(Telling(S, TargetRequest), c)
  BY <1>1, <1>2, <1>3, UpToSame
<1> QED
  BY <1>4, <1>5, <1>6, <1>7 DEF Due

One(b) == IF b THEN 1 ELSE 0

LEMMA DueMore ==
  ASSUME NEW S, Sensible(S), NEW n \in Nat
  PROVE  /\ Due(S, n) \in Nat
         /\ Due(S, n + 1) = Due(S, n) + One(n + 1 \in Answered(S)) + One(n + 1 \in AskedBack(S))
<1> DEFINE A(k) == Cardinality(UpTo(Answered(S), k))
           B(k) == Cardinality(UpTo(AskedBack(S), k))
           x == One(n + 1 \in Answered(S))
           y == One(n + 1 \in AskedBack(S))
<1>1. Len(S) \in Nat /\ Answered(S) \subseteq 1..Len(S) /\ AskedBack(S) \subseteq 1..Len(S)
  BY SensibleType
<1>2. A(n) \in Nat /\ A(n + 1) = A(n) + x
  <2>1. /\ Cardinality(UpTo(Answered(S), n)) \in Nat
        /\ n + 1 \in Answered(S) => Cardinality(UpTo(Answered(S), n + 1)) = Cardinality(UpTo(Answered(S), n)) + 1
        /\ n + 1 \notin Answered(S) => UpTo(Answered(S), n + 1) = UpTo(Answered(S), n)
    BY <1>1, UpToMore
  <2> QED
    BY <2>1 DEF One
<1>3. B(n) \in Nat /\ B(n + 1) = B(n) + y
  <2>1. /\ Cardinality(UpTo(AskedBack(S), n)) \in Nat
        /\ n + 1 \in AskedBack(S) => Cardinality(UpTo(AskedBack(S), n + 1)) = Cardinality(UpTo(AskedBack(S), n)) + 1
        /\ n + 1 \notin AskedBack(S) => UpTo(AskedBack(S), n + 1) = UpTo(AskedBack(S), n)
    BY <1>1, UpToMore
  <2> QED
    BY <2>1 DEF One
<1>4. Due(S, n) = A(n) + B(n) /\ Due(S, n + 1) = A(n + 1) + B(n + 1) /\ x \in Nat /\ y \in Nat
  BY DEF Due, One
<1> HIDE DEF A, B, x, y
<1>5. Due(S, n) \in Nat /\ Due(S, n + 1) = Due(S, n) + x + y
  BY <1>2, <1>3, <1>4
<1> QED
  BY <1>5 DEF x, y

LEMMA HeardMore ==
  ASSUME NEW S, Sensible(S), NEW n \in Nat, n < Len(S)
  PROVE  /\ HeardBy(S, n) \in Nat
         /\ SaysStep(S, n + 1) => HeardBy(S, n + 1) = HeardBy(S, n)
         /\ ~ SaysStep(S, n + 1) => HeardBy(S, n + 1) = HeardBy(S, n) + 1
<1>1. Len(S) \in Nat /\ Hearings(S) \subseteq 1..Len(S) /\ n + 1 \in 1..Len(S) /\ DOMAIN S = 1..Len(S)
  BY SensibleType
<1>2. /\ Cardinality(UpTo(Hearings(S), n)) \in Nat
      /\ n + 1 \in Hearings(S) => Cardinality(UpTo(Hearings(S), n + 1)) = Cardinality(UpTo(Hearings(S), n)) + 1
      /\ n + 1 \notin Hearings(S) => UpTo(Hearings(S), n + 1) = UpTo(Hearings(S), n)
  BY <1>1, UpToMore
<1>3. SaysStep(S, n + 1) => n + 1 \notin Hearings(S)
  BY DEF SaysStep, Hearings
<1>4. ~ SaysStep(S, n + 1) => n + 1 \in Hearings(S)
  <2>1. ~ SaysStep(S, n + 1) => S[n + 1][1] = "hear"
    BY <1>1, SensibleStep
  <2> QED
    BY <1>1, <2>1 DEF Hearings
<1> QED
  BY <1>2, <1>3, <1>4 DEF HeardBy

LEMMA HeardGrows ==
  ASSUME NEW S, Sensible(S), NEW i \in Nat, NEW j \in Nat, i <= j
  PROVE  HeardBy(S, i) <= HeardBy(S, j) /\ HeardBy(S, i) \in Nat /\ HeardBy(S, j) \in Nat
<1> DEFINE A == UpTo(Hearings(S), i)
           B == UpTo(Hearings(S), j)
<1>1. Len(S) \in Nat /\ Hearings(S) \subseteq 1..Len(S)
  BY SensibleType
<1>2. IsFiniteSet(1..Len(S))
  BY <1>1, FS_Interval
<1>3. A \subseteq B /\ B \subseteq 1..Len(S)
  <2>1. \A k \in Hearings(S) : k \in Int /\ (k <= i => k <= j)
    BY <1>1
  <2> QED
    BY <1>1, <2>1 DEF UpTo
<1>4. IsFiniteSet(B) /\ IsFiniteSet(A)
  BY <1>2, <1>3, FS_Subset
<1>5. Cardinality(A) <= Cardinality(B) /\ Cardinality(A) \in Nat /\ Cardinality(B) \in Nat
  BY <1>3, <1>4, FS_Subset, FS_CardinalityType
<1> QED
  BY <1>5 DEF HeardBy

LEMMA NothingYet == ASSUME NEW S, Sensible(S)
  PROVE Due(S, 0) = 0 /\ HeardBy(S, 0) = 0 /\ UpTo(Addresses(S), 0) = {} /\ UpTo(Telling(S, TargetRequest), 0) = {}
<1>1. Len(S) \in Nat
  BY SensibleType
<1>2. ASSUME NEW T, T \subseteq 1..Len(S) PROVE UpTo(T, 0) = {}
  <2>1. \A i \in T : ~ (i <= 0)
    BY <1>1, <1>2
  <2> QED
    BY <2>1 DEF UpTo
<1>3. /\ UpTo(Answered(S), 0) = {} /\ UpTo(AskedBack(S), 0) = {} /\ UpTo(Hearings(S), 0) = {}
      /\ UpTo(Addresses(S), 0) = {} /\ UpTo(Telling(S, TargetRequest), 0) = {}
  BY <1>2, SensibleType
<1>4. Cardinality({}) = 0
  BY FS_EmptySet
<1> QED
  BY <1>3, <1>4 DEF Due, HeardBy

-----------------------------------------------------------------------------
(* What a phone has said, among the cells b.                               *)

StepAt(S, k, b, u, w) ==
  /\ SaysStep(S, k) => LaidAt(FrameOf(S, k), b, u, w)
  /\ ~ SaysStep(S, k) => w = u

StepsLaid(S, p, b, pos) ==
  /\ b \in Seq(Nat) /\ p \in Nat /\ p <= Len(S)
  /\ pos \in [0..p -> Nat] /\ pos[0] = 0 /\ pos[p] = Len(b)
  /\ \A k \in 0..(p - 1) : StepAt(S, k + 1, b, pos[k], pos[k + 1])

LEMMA EachStep ==
  ASSUME NEW S, Sensible(S), NEW p, NEW b, NEW pos, StepsLaid(S, p, b, pos), NEW k \in Nat, k < p
  PROVE  /\ pos[k] \in Nat /\ pos[k + 1] \in Nat /\ k + 1 \in 1..Len(S)
         /\ SaysStep(S, k + 1) => /\ LaidAt(FrameOf(S, k + 1), b, pos[k], pos[k + 1])
                                  /\ FrameOf(S, k + 1) \in Frame
                                  /\ pos[k + 1] = pos[k] + 2 + Len(S[k + 1][3]) /\ Len(S[k + 1][3]) \in Nat
         /\ ~ SaysStep(S, k + 1) => pos[k + 1] = pos[k]
<1>1. k \in 0..(p - 1) /\ k \in 0..p /\ k + 1 \in 0..p /\ k + 1 \in 1..Len(S)
  <2>1. p \in Nat /\ p <= Len(S) /\ Len(S) \in Nat
    BY SensibleType DEF StepsLaid
  <2> QED
    BY <2>1
<1>2. StepAt(S, k + 1, b, pos[k], pos[k + 1]) /\ pos[k] \in Nat /\ pos[k + 1] \in Nat
  BY <1>1 DEF StepsLaid
<1>3. ASSUME SaysStep(S, k + 1)
      PROVE  /\ LaidAt(FrameOf(S, k + 1), b, pos[k], pos[k + 1]) /\ FrameOf(S, k + 1) \in Frame
             /\ pos[k + 1] = pos[k] + 2 + Len(S[k + 1][3]) /\ Len(S[k + 1][3]) \in Nat
  <2>1. LaidAt(FrameOf(S, k + 1), b, pos[k], pos[k + 1])
    BY <1>2, <1>3 DEF StepAt
  <2>2. FrameOf(S, k + 1) \in Frame
    BY <1>1, <1>3, SensibleStep
  <2>3. FrameOf(S, k + 1).payload = S[k + 1][3]
    BY DEF FrameOf
  <2>4. S[k + 1][3] \in Seq(Nat)
    BY <2>2, <2>3 DEF Frame
  <2>5. pos[k + 1] = pos[k] + 2 + Len(S[k + 1][3])
    BY <2>1, <2>3 DEF LaidAt
  <2> QED
    BY <2>1, <2>2, <2>4, <2>5
<1>4. ~ SaysStep(S, k + 1) => pos[k + 1] = pos[k]
  BY <1>2 DEF StepAt
<1> QED
  BY <1>1, <1>2, <1>3, <1>4

LEMMA EachStepGrows ==
  ASSUME NEW S, Sensible(S), NEW p, NEW b, NEW pos, StepsLaid(S, p, b, pos), NEW k \in Nat, k < p
  PROVE  /\ pos[k] \in Nat /\ pos[k + 1] \in Nat /\ pos[k] <= pos[k + 1]
         /\ SaysStep(S, k + 1) <=> pos[k] < pos[k + 1]
<1> DEFINE u == pos[k]
           w == pos[k + 1]
           l == Len(S[k + 1][3])
<1>1. u \in Nat /\ w \in Nat
  BY EachStep
<1>2. SaysStep(S, k + 1) => w = u + 2 + l /\ l \in Nat
  BY EachStep
<1>3. ~ SaysStep(S, k + 1) => w = u
  BY EachStep
<1> HIDE DEF u, w, l
<1>4. u <= w /\ (SaysStep(S, k + 1) <=> u < w)
  BY <1>1, <1>2, <1>3
<1> QED
  BY <1>1, <1>4 DEF u, w

LEMMA StepsGrow ==
  ASSUME NEW S, Sensible(S), NEW p, NEW b, NEW pos, StepsLaid(S, p, b, pos),
         NEW i \in Nat, NEW n \in Nat, i + n <= p
  PROVE  pos[i] \in Nat /\ pos[i + n] \in Nat /\ pos[i] <= pos[i + n]
<1> DEFINE P == {m \in Nat : i + m <= p => pos[i + m] \in Nat /\ pos[i] <= pos[i + m]}
<1>0. p \in Nat /\ i \in 0..p
  BY DEF StepsLaid
<1>1. pos[i] \in Nat
  BY <1>0 DEF StepsLaid
<1>2. 0 \in P
  BY <1>1
<1>3. ASSUME NEW m \in Nat, m \in P PROVE m + 1 \in P
  <2> SUFFICES ASSUME i + (m + 1) <= p PROVE pos[i + (m + 1)] \in Nat /\ pos[i] <= pos[i + (m + 1)]
    OBVIOUS
  <2> DEFINE j == i + m
  <2>1. j \in Nat /\ j < p /\ j <= p /\ i + (m + 1) = j + 1
    BY <1>0
  <2>2. pos[j] \in Nat /\ pos[i] <= pos[j]
    BY <1>3, <2>1
  <2> HIDE DEF j
  <2>3. pos[j + 1] \in Nat /\ pos[j] <= pos[j + 1]
    BY <2>1, EachStepGrows
  <2>4. pos[i] <= pos[j + 1]
    BY <1>1, <2>2, <2>3
  <2> QED
    BY <2>1, <2>3, <2>4
<1>4. n \in P
  <2> HIDE DEF P
  <2> QED
    BY <1>2, <1>3, NumberInduction
<1> QED
  BY <1>1, <1>4

\* The next step that says something.
NextSays(S, c, n, pos) ==
  /\ n \in Nat /\ n > c /\ SaysStep(S, n) /\ pos[n - 1] = pos[c]
  /\ \A k \in (c + 1)..(n - 1) : ~ SaysStep(S, k)

LEMMA NextStep ==
  ASSUME NEW S, Sensible(S), NEW p, NEW b, NEW pos, StepsLaid(S, p, b, pos),
         NEW c \in Nat, c <= p, pos[c] < pos[p]
  PROVE  \E n \in Nat : n <= p /\ NextSays(S, c, n, pos)
<1> DEFINE Found(m) == \E n \in Nat : n <= c + m /\ NextSays(S, c, n, pos)
           Still(m) == pos[c + m] = pos[c] /\ \A k \in (c + 1)..(c + m) : ~ SaysStep(S, k)
           P == {m \in Nat : c + m <= p => Found(m) \/ Still(m)}
<1>0. p \in Nat /\ c \in 0..p /\ pos[c] \in Nat /\ pos[p] \in Nat
  <2>1. p \in Nat
    BY DEF StepsLaid
  <2>2. c \in 0..p /\ p \in 0..p
    BY <2>1
  <2> QED
    BY <2>1, <2>2 DEF StepsLaid
<1>1. 0 \in P
  <2>1. Still(0)
    <3>1. c + 0 = c /\ (c + 1)..(c + 0) = {}
      OBVIOUS
    <3> QED
      BY <3>1
  <2> HIDE DEF Found, Still
  <2> QED
    BY <2>1
<1>2. ASSUME NEW m \in Nat, m \in P PROVE m + 1 \in P
  <2> SUFFICES ASSUME c + (m + 1) <= p PROVE Found(m + 1) \/ Still(m + 1)
    OBVIOUS
  <2> DEFINE j == c + m
  <2>1. j \in Nat /\ j < p /\ j <= p /\ c + (m + 1) = j + 1 /\ j >= c
    BY <1>0
  <2>2. Found(m) \/ Still(m)
    BY <1>2, <2>1
  <2>3. CASE Found(m)
    <3>1. PICK n \in Nat : n <= j /\ NextSays(S, c, n, pos)
      BY <2>3
    <3>2. n <= c + (m + 1)
      BY <2>1, <3>1
    <3>3. Found(m + 1)
      BY <3>1, <3>2
    <3> HIDE DEF Found, Still
    <3> QED
      BY <3>3
  <2>4. CASE Still(m)
    <3>1. pos[j] = pos[c] /\ \A k \in (c + 1)..j : ~ SaysStep(S, k)
      BY <2>4
    <3> HIDE DEF j
    <3>2. CASE SaysStep(S, j + 1)
      <4> DEFINE n == j + 1
      <4>1. n \in Nat /\ n > c /\ n - 1 = j /\ n <= c + (m + 1)
        BY <2>1
      <4>2. NextSays(S, c, n, pos)
        BY <3>1, <3>2, <4>1 DEF NextSays
      <4> HIDE DEF n
      <4>3. Found(m + 1)
        BY <4>1, <4>2
      <4> HIDE DEF Found, Still
      <4> QED
        BY <4>3
    <3>3. CASE ~ SaysStep(S, j + 1)
      <4>1. pos[j + 1] = pos[j]
        BY <2>1, <3>3, EachStep
      <4>2. ASSUME NEW k \in (c + 1)..(j + 1) PROVE ~ SaysStep(S, k)
        <5>1. k \in (c + 1)..j \/ k = j + 1
          BY <2>1
        <5> QED
          BY <3>1, <3>3, <5>1
      <4>3. Still(m + 1)
        BY <2>1, <3>1, <4>1, <4>2
      <4> HIDE DEF Found, Still
      <4> QED
        BY <4>3
    <3> QED
      BY <3>2, <3>3
  <2> HIDE DEF Found, Still
  <2> QED
    BY <2>2, <2>3, <2>4
<1>3. Nat \subseteq P
  <2> HIDE DEF P
  <2> QED
    BY <1>1, <1>2, NumberInduction
<1> DEFINE m == p - c
<1>4. m \in Nat /\ c + m = p
  BY <1>0
<1>5. Found(m) \/ Still(m)
  <2>1. m \in P
    BY <1>3, <1>4
  <2> HIDE DEF Found, Still
  <2> QED
    BY <1>0, <1>4, <2>1
<1>6. ~ Still(m)
  BY <1>0, <1>4
<1>7. Found(m)
  <2> HIDE DEF Found, Still
  <2> QED
    BY <1>5, <1>6
<1> QED
  BY <1>4, <1>7

\* When nothing is left to read, nothing has been said.
LEMMA NoStep ==
  ASSUME NEW S, Sensible(S), NEW p, NEW b, NEW pos, StepsLaid(S, p, b, pos),
         NEW c \in Nat, c <= p, pos[c] = pos[p]
  PROVE  \A k \in (c + 1)..p : ~ SaysStep(S, k)
<1> SUFFICES ASSUME NEW k \in (c + 1)..p, SaysStep(S, k) PROVE FALSE
  OBVIOUS
<1> DEFINE j == k - 1
           m == j - c
           n == p - k
<1>0. p \in Nat
  BY DEF StepsLaid
<1>1. j \in Nat /\ j < p /\ k = j + 1 /\ m \in Nat /\ c + m = j /\ c + m <= p /\ n \in Nat /\ k + n = p /\ k \in Nat
      /\ k + n <= p
  BY <1>0
<1> HIDE DEF j, m, n
<1>2. pos[c] \in Nat /\ pos[c] <= pos[j]
  <2>1. pos[c] \in Nat /\ pos[c] <= pos[c + m]
    BY <1>1, StepsGrow
  <2> QED
    BY <1>1, <2>1
<1>3. pos[k] \in Nat /\ pos[p] \in Nat /\ pos[k] <= pos[p]
  <2>1. pos[k] \in Nat /\ pos[k + n] \in Nat /\ pos[k] <= pos[k + n]
    BY <1>1, StepsGrow
  <2> QED
    BY <1>1, <2>1
<1>4. pos[j] \in Nat /\ pos[j] < pos[k]
  <2>1. pos[j] \in Nat /\ (SaysStep(S, j + 1) <=> pos[j] < pos[j + 1])
    BY <1>1, EachStepGrows
  <2> QED
    BY <1>1, <2>1
<1> QED
  BY <1>2, <1>3, <1>4

LEMMA StepsMore ==
  ASSUME NEW S, Sensible(S), NEW p, NEW b, NEW pos, StepsLaid(S, p, b, pos), p < Len(S), NEW t \in Seq(Nat),
         SaysStep(S, p + 1) => LaidAt(FrameOf(S, p + 1), b \o t, Len(b), Len(b \o t)),
         ~ SaysStep(S, p + 1) => t = <<>>
  PROVE  \E at : StepsLaid(S, p + 1, b \o t, at) /\ \A k \in 0..p : at[k] = pos[k]
<1> DEFINE c == b \o t
           n == Len(c)
           at == [k \in 0..(p + 1) |-> IF k <= p THEN pos[k] ELSE n]
<1>1. b \in Seq(Nat) /\ p \in Nat /\ Len(S) \in Nat /\ p + 1 <= Len(S) /\ Len(b) \in Nat
      /\ pos \in [0..p -> Nat] /\ pos[0] = 0 /\ pos[p] = Len(b)
  BY SensibleType DEF StepsLaid
<1>2. c \in Seq(Nat) /\ n \in Nat
  BY <1>1
<1>3. t = <<>> => c = b
  BY <1>1
<1> HIDE DEF n
<1>4. at \in [0..(p + 1) -> Nat] /\ at[p + 1] = n /\ \A k \in 0..p : at[k] = pos[k]
  BY <1>1, <1>2
<1> HIDE DEF at
<1>5. ASSUME NEW k \in 0..(p + 1 - 1) PROVE StepAt(S, k + 1, c, at[k], at[k + 1])
  <2>1. CASE k = p
    <3>1. at[k] = Len(b) /\ at[k + 1] = n
      BY <1>1, <1>4, <2>1
    <3>2. ~ SaysStep(S, k + 1) => at[k + 1] = at[k]
      BY <1>3, <2>1, <3>1 DEF n
    <3>3. SaysStep(S, k + 1) => LaidAt(FrameOf(S, k + 1), c, at[k], at[k + 1])
      BY <2>1, <3>1 DEF n
    <3> HIDE DEF c
    <3> QED
      BY <3>2, <3>3 DEF StepAt
  <2>2. CASE k # p
    <3> DEFINE j == k + 1
               m == p - j
               e == FrameOf(S, j)
               u == pos[k]
               w == pos[j]
    <3>1. k \in Nat /\ k < p /\ k \in 0..p /\ j \in 0..p /\ j \in Nat /\ m \in Nat /\ j + m = p /\ j + m <= p
      BY <1>1, <1>5, <2>2
    <3>2. at[k] = u /\ at[j] = w
      BY <1>4, <3>1
    <3>3. SaysStep(S, j) => LaidAt(e, b, u, w) /\ e \in Frame
      BY <3>1, EachStep
    <3>4. ~ SaysStep(S, j) => w = u
      BY <3>1, EachStep
    <3>5. w <= Len(b)
      <4> HIDE DEF j, m, w
      <4>1. pos[j] <= pos[j + m]
        BY <3>1, StepsGrow
      <4>2. pos[j + m] = Len(b)
        BY <1>1, <3>1
      <4> QED
        BY <4>1, <4>2 DEF w
    <3> HIDE DEF c, e, u, w
    <3>6. SaysStep(S, j) => LaidAt(e, c, u, w)
      <4> SUFFICES ASSUME SaysStep(S, j) PROVE LaidAt(e, c, u, w)
        OBVIOUS
      <4>1. LaidAt(e, b, u, w) /\ e \in Frame
        BY <3>3
      <4>2. Len(e.payload) \in Nat
        BY <4>1 DEF Frame
      <4>3. LaidAt(e, b \o t, u, w)
        BY <1>1, <3>5, <4>1, <4>2, LaidAtJoin
      <4> QED
        BY <4>3 DEF c
    <3>7. StepAt(S, j, c, at[k], at[j])
      BY <3>2, <3>4, <3>6 DEF StepAt, e
    <3> QED
      BY <3>7
  <2> QED
    BY <2>1, <2>2
<1>6. at[0] = 0
  <2>1. 0 \in 0..p
    BY <1>1
  <2> QED
    BY <1>1, <1>4, <2>1
<1>7. p + 1 \in Nat /\ at[p + 1] = Len(c)
  BY <1>1, <1>4 DEF n
<1> HIDE DEF c
<1>8. StepsLaid(S, p + 1, c, at)
  BY <1>1, <1>2, <1>4, <1>5, <1>6, <1>7 DEF StepsLaid
<1> QED
  BY <1>4, <1>8 DEF c

-----------------------------------------------------------------------------
(* The link.                                                               *)

\* Of a phone with the script S the first p steps are done, and the program has
\* read the frames of the first c; b is what the phone has said, of which the
\* program has taken r cells off the link.
Run(S, p, c, b, pos, r) ==
  /\ StepsLaid(S, p, b, pos) /\ c \in Nat /\ c <= p /\ r \in Nat /\ pos[c] <= r /\ r <= Len(b)
  /\ hu.rx = Part(b, pos[c], r) /\ toHu = Part(b, r, Len(b))
Owed(S, p, c) ==
  /\ phone.todo = SubSeq(S, p + 1, Len(S))
  /\ toPhone \in Seq(Nat) /\ Len(toPhone) = Due(S, c) - HeardBy(S, p)
Stage(S, c) ==
  /\ hu.at = "tail" <=> UpTo(Addresses(S), c) # {}
  /\ hu.at # "tail" => (hu.asked <=> UpTo(Telling(S, TargetRequest), c) # {})
Joint(S, p, c, b, pos, r) == Run(S, p, c, b, pos, r) /\ Owed(S, p, c) /\ Stage(S, c)

Shapes ==
  /\ hu = [at |-> hu.at, route |-> hu.route, rx |-> hu.rx, asked |-> hu.asked, ip |-> hu.ip,
           tail |-> hu.tail, dials |-> hu.dials, lost |-> hu.lost]
  /\ hu.asked \in BOOLEAN /\ hu.lost \in BOOLEAN
  /\ phone = [at |-> phone.at, todo |-> phone.todo]
Before ==
  /\ hu.at \in {"open", "accept", "discover"} => hu.rx = <<>> /\ hu.asked = FALSE
  /\ hu.at \in {"open", "discover"} => phone.at # "linked"
Away ==
  phone.at = "away" => phone.todo \in Script /\ toHu = <<>> /\ toPhone = <<>> /\ hu.at \notin {"bringup", "tail"}
OnLink == phone.at = "linked" /\ hu.at \in {"accept", "bringup", "tail"} /\ ~ hu.lost
Linked == OnLink => \E S \in Script : \E p, c, b, pos, r : Joint(S, p, c, b, pos, r)
LinkInv == Shapes /\ Before /\ Away /\ Linked

LEMMA InScript == ASSUME NEW S \in Script PROVE Sensible(S)
  BY ScriptAssumption

\* A frame that is whole, and swallows nothing, is that of the next step that says
\* something.
FrameRead(S, p, c, b, pos, r, n) ==
  /\ n \in Nat /\ n <= p /\ NextSays(S, c, n, pos)
  /\ frame.svc = S[n][2] /\ (hu.rx[1] # 0 <=> S[n][3] # <<>>)
  /\ pos[n] <= r /\ frame.rest = Part(b, pos[n], r)

LEMMA NextFrame ==
  ASSUME NEW S, Sensible(S), NEW p, NEW c, NEW b, NEW pos, NEW r, Joint(S, p, c, b, pos, r), Complete(hu.rx),
         ~ Swallows
  PROVE  \E n : FrameRead(S, p, c, b, pos, r, n)
<1> DEFINE u == pos[c]
           x == Part(b, u, r)
<1>1. StepsLaid(S, p, b, pos) /\ c \in Nat /\ c <= p /\ r \in Nat /\ u <= r /\ r <= Len(b) /\ hu.rx = x
  BY DEF Joint, Run
<1>2. p \in Nat /\ p <= Len(S) /\ pos[p] = Len(b) /\ b \in Seq(Nat) /\ Len(b) \in Nat /\ u \in Nat
  <2>1. p \in Nat /\ p <= Len(S) /\ pos[p] = Len(b) /\ b \in Seq(Nat)
    BY <1>1 DEF StepsLaid
  <2>2. c \in 0..p
    BY <1>1, <2>1
  <2> QED
    BY <1>1, <2>1, <2>2 DEF StepsLaid
<1>3. PartIs(b, u, r)
  BY <1>1, <1>2, PartOf
<1>4. x \in Seq(Nat) /\ Len(x) = r - u /\ \A i \in 1..(r - u) : x[i] = b[u + i]
  BY <1>3 DEF PartIs
<1> HIDE DEF x
<1>5. Len(x) >= 2 /\ Len(x) >= 2 + x[1]
  BY <1>1 DEF Complete
<1>6. u + 2 <= r /\ u < pos[p]
  <2>1. r - u >= 2
    BY <1>4, <1>5
  <2>2. r \in Nat /\ u \in Nat /\ r <= pos[p] /\ pos[p] \in Nat
    BY <1>1, <1>2
  <2> HIDE DEF u
  <2> QED
    BY <2>1, <2>2
<1>7. PICK n \in Nat : n <= p /\ NextSays(S, c, n, pos)
  BY <1>1, <1>6, NextStep
<1> DEFINE k == n - 1
           w == pos[n]
           l == Len(S[n][3])
           e == FrameOf(S, n)
<1>8. k \in Nat /\ k < p /\ k + 1 = n /\ SaysStep(S, n) /\ pos[k] = u /\ k >= c
  BY <1>1, <1>2, <1>7 DEF NextSays
<1>9. LaidAt(e, b, u, w) /\ e \in Frame /\ w = u + 2 + l /\ l \in Nat /\ w \in Nat /\ n \in 1..Len(S)
  <2> HIDE DEF k
  <2>1. /\ pos[k] \in Nat /\ pos[k + 1] \in Nat /\ k + 1 \in 1..Len(S)
        /\ SaysStep(S, k + 1) => /\ LaidAt(FrameOf(S, k + 1), b, pos[k], pos[k + 1])
                                 /\ FrameOf(S, k + 1) \in Frame
                                 /\ pos[k + 1] = pos[k] + 2 + Len(S[k + 1][3]) /\ Len(S[k + 1][3]) \in Nat
    BY <1>1, <1>8, EachStep
  <2> QED
    BY <1>8, <2>1
<1>10. b[u + 1] = l /\ b[u + 2] = S[n][2]
  BY <1>9 DEF LaidAt, FrameOf
<1> HIDE DEF k, w, l, e
<1>11. x[1] = l /\ x[2] = S[n][2]
  <2>1. 1 \in 1..(r - u) /\ 2 \in 1..(r - u)
    BY <1>1, <1>2, <1>6
  <2> QED
    BY <1>4, <1>10, <2>1
<1>12. w <= r
  <2>1. r - u >= 2 + l
    BY <1>4, <1>5, <1>11
  <2>2. r \in Nat /\ u \in Nat /\ w = u + 2 + l /\ l \in Nat
    BY <1>1, <1>2, <1>9
  <2> HIDE DEF u
  <2> QED
    BY <2>1, <2>2
<1>13. frame.svc = S[n][2]
  BY <1>1, <1>11 DEF frame, TakeFrame
<1>14. x[1] # 0 <=> S[n][3] # <<>>
  <2>1. S[n][3] \in Seq(Nat)
    BY <1>9 DEF e, FrameOf, Frame
  <2>2. l = 0 <=> S[n][3] = <<>>
    BY <2>1 DEF l
  <2> QED
    BY <1>11, <2>2
<1>15. frame.rest = Part(b, w, r)
  <2>1. CASE l # 0
    <3> DEFINE m == 2 + l
    <3>1. frame.rest = Beyond(x, m)
      BY <1>1, <1>11, <2>1 DEF frame, TakeFrame
    <3>2. m \in Nat /\ u + m = w /\ u + m <= r
      BY <1>2, <1>9, <1>12
    <3> HIDE DEF m
    <3>3. Beyond(Part(b, u, r), m) = Part(b, u + m, r)
      BY <1>1, <1>2, <3>2, PartOfPart
    <3> QED
      BY <3>1, <3>2, <3>3 DEF x
  <2>2. CASE l = 0
    <3>1. frame.rest = <<>>
      BY <1>1, <1>11, <2>2 DEF frame, TakeFrame
    <3>2. Len(x) <= 2
      BY <1>1, <1>4, <1>11, <2>2 DEF Swallows
    <3>3. w = r
      <4>1. r \in Nat /\ u \in Nat /\ w \in Nat /\ w <= r /\ w = u + 2 + l
        BY <1>1, <1>2, <1>9, <1>12
      <4>2. Len(x) = r - u
        BY <1>4
      <4> HIDE DEF u
      <4>3. r - u <= 2
        BY <3>2, <4>2
      <4> QED
        BY <2>2, <4>1, <4>3
    <3>4. PartIs(b, w, r)
      BY <1>1, <1>2, <1>9, <1>12, PartOf
    <3>5. Part(b, w, r) = <<>>
      BY <1>1, <3>3, <3>4 DEF PartIs
    <3> QED
      BY <3>1, <3>5
  <2> QED
    BY <2>1, <2>2
<1>16. FrameRead(S, p, c, b, pos, r, n)
  BY <1>1, <1>7, <1>12, <1>13, <1>14, <1>15 DEF FrameRead, w
<1> QED
  BY <1>16

\* What the step that is read changes.
LEMMA StepRead ==
  ASSUME NEW S, Sensible(S), NEW c \in Nat, NEW n \in Nat, NEW pos, NextSays(S, c, n, pos), n <= Len(S)
  PROVE  /\ Due(S, n) = Due(S, c) + One(n \in Answered(S)) + One(n \in AskedBack(S))
         /\ UpTo(Addresses(S), n) # {} <=> UpTo(Addresses(S), c) # {} \/ n \in Addresses(S)
         /\ UpTo(Telling(S, TargetRequest), n) # {} <=>
              UpTo(Telling(S, TargetRequest), c) # {} \/ n \in Telling(S, TargetRequest)
         /\ n \in Addresses(S) <=> S[n][2] = ResponseIp /\ S[n][3] # <<>>
         /\ n \in Telling(S, TargetRequest) <=> S[n][2] = TargetRequest
         /\ n \in Answered(S) <=>
              \/ S[n][2] = MdStatus
              \/ S[n][2] \in {InfoRequest, TargetRequest} /\ UpTo(Addresses(S), c) = {}
         /\ n \in AskedBack(S) <=> /\ S[n][2] = TargetRequest /\ UpTo(Addresses(S), c) = {}
                                   /\ UpTo(Telling(S, TargetRequest), c) = {}
<1> DEFINE k == n - 1
           A == Addresses(S)
           T == Telling(S, TargetRequest)
<1>1. k \in Nat /\ k + 1 = n /\ c <= k /\ n \in 1..Len(S) /\ n \in DOMAIN S /\ S[n][1] = "say" /\ k <= Len(S) /\ Len(S) \in Nat
  BY SensibleType DEF NextSays, SaysStep
<1>2. \A g \in (c + 1)..k : ~ SaysStep(S, g)
  BY DEF NextSays
<1> HIDE DEF k
<1>3. Due(S, k) = Due(S, c) /\ UpTo(A, k) = UpTo(A, c) /\ UpTo(T, k) = UpTo(T, c)
  BY <1>1, <1>2, DueSame
<1>4. Due(S, k + 1) = Due(S, k) + One(k + 1 \in Answered(S)) + One(k + 1 \in AskedBack(S))
  BY <1>1, DueMore
<1>5. A \subseteq 1..Len(S) /\ T \subseteq 1..Len(S)
  BY SensibleType
<1>6. n \in A <=> S[n][2] = ResponseIp /\ S[n][3] # <<>>
  BY <1>1 DEF Addresses, Telling
<1>7. n \in T <=> S[n][2] = TargetRequest
  BY <1>1 DEF Telling
<1>8. ASSUME NEW X, X \subseteq 1..Len(S)
      PROVE  \A i : i \in UpTo(X, n) <=> i \in UpTo(X, k) \/ (i = n /\ n \in X)
  <2>1. \A i \in X : i \in Int /\ (i <= n <=> i <= k \/ i = n)
    BY <1>1, <1>8
  <2>2. n <= n
    OBVIOUS
  <2> QED
    BY <2>1, <2>2 DEF UpTo
<1> HIDE DEF A, T
<1>9. \A i : i \in UpTo(A, n) <=> i \in UpTo(A, c) \/ (i = n /\ n \in A)
  BY <1>3, <1>5, <1>8
<1>10. \A i : i \in UpTo(T, n) <=> i \in UpTo(T, c) \/ (i = n /\ n \in T)
  BY <1>3, <1>5, <1>8
<1>11. n \notin UpTo(T, c)
  BY <1>1 DEF UpTo
<1>12. UpTo(A, n) # {} <=> UpTo(A, c) # {} \/ n \in A
  BY <1>9
<1>13. UpTo(T, n) # {} <=> UpTo(T, c) # {} \/ n \in T
  BY <1>10
<1>14. n \in T => (UpTo(T, n) = {n} <=> UpTo(T, c) = {})
  <2>1. ASSUME n \in T, UpTo(T, n) = {n} PROVE UpTo(T, c) = {}
    BY <1>10, <1>11, <2>1
  <2>2. ASSUME n \in T, UpTo(T, c) = {} PROVE UpTo(T, n) = {n}
    BY <1>10, <2>2
  <2> QED
    BY <2>1, <2>2
<1>15. S[n][2] \in {InfoRequest, TargetRequest} => n \notin A
  BY <1>6 DEF InfoRequest, TargetRequest, ResponseIp
<1>16. S[n][2] \in {InfoRequest, TargetRequest} => (UpTo(A, n) = {} <=> UpTo(A, c) = {})
  BY <1>12, <1>15
<1>17. n \in Questions(S) <=> S[n][2] \in {InfoRequest, TargetRequest} /\ UpTo(A, n) = {}
  BY <1>1 DEF Questions, Telling, A
<1>18. n \in Answered(S) <=> S[n][2] = MdStatus \/ n \in Questions(S)
  BY <1>1 DEF Answered, Telling
<1>19. n \in AskedBack(S) <=> n \in T /\ n \in Questions(S) /\ UpTo(T, n) = {n}
  BY DEF AskedBack, T
<1>20. n \in Answered(S) <=> S[n][2] = MdStatus \/ (S[n][2] \in {InfoRequest, TargetRequest} /\ UpTo(A, c) = {})
  BY <1>16, <1>17, <1>18
<1>21. n \in AskedBack(S) <=> S[n][2] = TargetRequest /\ UpTo(A, c) = {} /\ UpTo(T, c) = {}
  BY <1>7, <1>14, <1>16, <1>17, <1>19
<1> QED
  BY <1>1, <1>3, <1>4, <1>6, <1>7, <1>12, <1>13, <1>20, <1>21 DEF A, T

LEMMA TodoRest ==
  ASSUME NEW X, NEW S \in Seq(X), NEW p \in Nat, p <= Len(S), SubSeq(S, p + 1, Len(S)) # <<>>
  PROVE  /\ p < Len(S) /\ SubSeq(S, p + 1, Len(S))[1] = S[p + 1]
         /\ Tail(SubSeq(S, p + 1, Len(S))) = SubSeq(S, p + 1 + 1, Len(S))
<1> DEFINE m == Len(S)
           g == p + 1
<1>1. m \in Nat /\ g \in Nat
  OBVIOUS
<1>2. p < m
  <2> SUFFICES ASSUME ~ (p < m) PROVE FALSE
    OBVIOUS
  <2>1. p + 1 > m
    BY <1>1
  <2> QED
    BY <2>1
<1>3. SubSeq(S, g, m)[1] = S[g]
  BY <1>1, <1>2
<1>4. Tail(SubSeq(S, g, m)) = SubSeq(S, g + 1, m)
  <2> DEFINE s == SubSeq(S, g, m)
             t == SubSeq(S, g + 1, m)
             n == m - g
  <2>1. s \in Seq(X) /\ Len(s) = n + 1 /\ n \in Nat /\ \A i \in 1..(n + 1) : s[i] = S[g + i - 1]
    BY <1>1, <1>2
  <2>2. t \in Seq(X) /\ Len(t) = n /\ \A i \in 1..n : t[i] = S[g + 1 + i - 1]
    BY <1>1, <1>2
  <2> HIDE DEF s, t, n, m, g
  <2>3. Tail(s) \in Seq(X) /\ Len(Tail(s)) = n /\ \A i \in 1..n : Tail(s)[i] = s[i + 1]
    BY <2>1
  <2>4. ASSUME NEW i \in 1..n PROVE Tail(s)[i] = t[i]
    <3> DEFINE j == i + 1
    <3>1. j \in 1..(n + 1) /\ g + j - 1 = g + 1 + i - 1
      BY <1>1, <2>1, <2>4
    <3>2. Tail(s)[i] = s[j]
      BY <2>3, <2>4
    <3> HIDE DEF j
    <3>3. s[j] = S[g + j - 1]
      BY <2>1, <3>1
    <3> QED
      BY <2>2, <2>4, <3>1, <3>2, <3>3
  <2>5. Tail(s) = t
    BY <2>1, <2>2, <2>3, <2>4, SameSeq
  <2> QED
    BY <2>5 DEF s, t
<1> QED
  BY <1>2, <1>3, <1>4 DEF g, m

LEMMA LinkInit == BringupInit => LinkInv
<1> SUFFICES ASSUME BringupInit PROVE LinkInv
  OBVIOUS
<1>1. PICK route \in Route : hu = HuInit(route)
  BY DEF BringupInit
<1>2. PICK script \in Script : phone = [at |-> "away", todo |-> script]
  BY DEF BringupInit
<1>3. toHu = <<>> /\ toPhone = <<>>
  BY DEF BringupInit
<1>4. hu.at = "open" /\ hu.rx = <<>> /\ hu.asked = FALSE
  BY <1>1 DEF HuInit
<1>5. phone.at = "away" /\ phone.todo = script
  BY <1>2
<1>6. Shapes
  BY <1>1, <1>2 DEF Shapes, HuInit
<1> QED
  BY <1>3, <1>4, <1>5, <1>6 DEF LinkInv, Before, Away, Linked, OnLink

\* The phone comes to the link.
LEMMA JointBegins ==
  ASSUME NEW S \in Script, hu.at = "accept", hu.rx = <<>>, hu.asked = FALSE, toHu = <<>>, toPhone = <<>>, phone.todo = S
  PROVE  Joint(S, 0, 0, <<>>, [k \in {0} |-> 0], 0)
<1> DEFINE pos == [k \in {0} |-> 0]
<1>1. Sensible(S)
  BY InScript
<1>2. Len(S) \in Nat /\ S \in Seq(({"say"} \X Nat \X Seq(Nat)) \union ({"hear"} \X Nat))
  BY <1>1, SensibleType
<1>3. pos[0] = 0 /\ 0..0 = {0} /\ 0..(0 - 1) = {}
  OBVIOUS
<1>4. pos \in [0..0 -> Nat]
  BY <1>3
<1> HIDE DEF pos
<1>5. <<>> \in Seq(Nat) /\ Len(<<>>) = 0
  OBVIOUS
<1>6. StepsLaid(S, 0, <<>>, pos)
  BY <1>2, <1>3, <1>4, <1>5 DEF StepsLaid
<1>7. Part(<<>>, 0, 0) = <<>>
  BY DEF Part
<1>8. Run(S, 0, 0, <<>>, pos, 0)
  BY <1>3, <1>5, <1>6, <1>7 DEF Run
<1>9. SubSeq(S, 0 + 1, Len(S)) = S
  BY <1>2
<1>10. Owed(S, 0, 0)
  BY <1>1, <1>5, <1>9, NothingYet DEF Owed
<1>11. Stage(S, 0)
  BY <1>1, NothingYet DEF Stage
<1> QED
  BY <1>8, <1>10, <1>11 DEF Joint, pos

LEMMA JointSays ==
  ASSUME NEW S \in Script, NEW p, NEW c, NEW b, NEW pos, NEW r, Joint(S, p, c, b, pos, r), Shapes, PhoneSays
  PROVE  \E q, d, at : Joint(S, q, c, d, at, r)'
<1>0. PICK t : t = EncodeFrame(TRUE, phone.todo[1][2], phone.todo[1][3])
  OBVIOUS
<1> DEFINE d == b \o t
           u == pos[c]
<1>1. Sensible(S) /\ Len(S) \in Nat /\ S \in Seq(({"say"} \X Nat \X Seq(Nat)) \union ({"hear"} \X Nat))
  BY InScript, SensibleType
<1>2. /\ StepsLaid(S, p, b, pos) /\ c \in Nat /\ c <= p /\ r \in Nat /\ u <= r /\ r <= Len(b)
      /\ hu.rx = Part(b, u, r) /\ toHu = Part(b, r, Len(b))
  BY DEF Joint, Run
<1>3. p \in Nat /\ p <= Len(S) /\ b \in Seq(Nat) /\ u \in Nat /\ c \in 0..p
  <2>1. p \in Nat /\ p <= Len(S) /\ b \in Seq(Nat)
    BY <1>2 DEF StepsLaid
  <2>2. c \in 0..p
    BY <1>2, <2>1
  <2> QED
    BY <1>2, <2>1, <2>2 DEF StepsLaid
<1>4. /\ phone.todo # <<>> /\ phone.todo[1][1] = "say" /\ toHu' = toHu \o t
      /\ phone' = [phone EXCEPT !.todo = Tail(@)] /\ UNCHANGED <<hu, toPhone>>
  BY <1>0 DEF PhoneSays, Says, Onwards
<1>5. phone.todo = SubSeq(S, p + 1, Len(S))
  BY DEF Joint, Owed
<1>6. p < Len(S) /\ phone.todo[1] = S[p + 1] /\ Tail(phone.todo) = SubSeq(S, p + 1 + 1, Len(S))
  BY <1>1, <1>3, <1>4, <1>5, TodoRest
<1>7. SaysStep(S, p + 1) /\ p + 1 \in 1..Len(S)
  <2>1. SaysStep(S, p + 1)
    BY <1>4, <1>6 DEF SaysStep
  <2>2. p + 1 \in 1..Len(S)
    <3>1. p \in Nat /\ Len(S) \in Nat /\ p < Len(S)
      BY <1>1, <1>3, <1>6
    <3> QED
      BY <3>1
  <2> QED
    BY <2>1, <2>2
<1>8. FrameOf(S, p + 1) \in Frame /\ CanFrame(TRUE, S[p + 1][3])
  BY <1>1, <1>7, SensibleStep
<1>9. t = FrameCells(FrameOf(S, p + 1))
  <2>1. S[p + 1][2] \in Nat /\ S[p + 1][3] \in Seq(Nat)
    BY <1>8 DEF FrameOf, Frame
  <2> QED
    BY <1>0, <1>6, <1>8, <2>1, EncodeIs DEF FrameOf
<1>10. t \in Seq(Nat) /\ LaidAt(FrameOf(S, p + 1), b \o t, Len(b), Len(b \o t))
  BY <1>3, <1>8, <1>9, LaidAtEnd
<1>11. PICK at : StepsLaid(S, p + 1, b \o t, at) /\ \A k \in 0..p : at[k] = pos[k]
  BY <1>1, <1>2, <1>6, <1>7, <1>10, StepsMore
<1>12. at[c] = u
  BY <1>3, <1>11
<1> HIDE DEF u
<1>13. Len(b) \in Nat /\ Len(b) <= Len(b)
  BY <1>3
<1>14. d \in Seq(Nat) /\ Len(b) <= Len(d) /\ Part(d, u, r) = Part(b, u, r) /\ Part(b, r, Len(b)) \o t = Part(d, r, Len(d))
  <2>1. b \o t \in Seq(Nat) /\ Len(b) <= Len(b \o t) /\ Part(b \o t, u, r) = Part(b, u, r)
    BY <1>2, <1>3, <1>10, PartJoin, SMTT(30)
  <2>2. r <= r
    BY <1>2
  <2>3. Part(b, r, Len(b)) \o t = Part(b \o t, r, Len(b \o t))
    BY <1>2, <1>3, <1>10, <2>2, PartJoin
  <2> QED
    BY <2>1, <2>3
<1> HIDE DEF d
<1>15. r <= Len(d)
  BY <1>2, <1>13, <1>14
<1>16. p + 1 \in Nat /\ c <= p + 1
  BY <1>2, <1>3
<1>17. Run(S, p + 1, c, d, at, r)'
  <2>1. StepsLaid(S, p + 1, d, at)
    BY <1>11 DEF d
  <2>2. hu'.rx = Part(d, u, r) /\ toHu' = Part(d, r, Len(d))
    BY <1>2, <1>4, <1>14
  <2> QED
    BY <1>2, <1>12, <1>15, <1>16, <2>1, <2>2 DEF Run
<1>18. phone'.todo = Tail(phone.todo)
  BY <1>4 DEF Shapes
<1>19. HeardBy(S, p + 1) = HeardBy(S, p)
  BY <1>1, <1>3, <1>6, <1>7, HeardMore
<1>20. Owed(S, p + 1, c)'
  BY <1>4, <1>6, <1>18, <1>19 DEF Owed, Joint
<1>21. Stage(S, c)'
  BY <1>4 DEF Stage, Joint
<1> QED
  BY <1>17, <1>20, <1>21 DEF Joint

LEMMA JointHears ==
  ASSUME NEW S \in Script, NEW p, NEW c, NEW b, NEW pos, NEW r, Joint(S, p, c, b, pos, r), Shapes, PhoneHears,
         phone'.at = "linked", phone.at = "linked"
  PROVE  \E q, at : Joint(S, q, c, b, at, r)'
<1>1. Sensible(S) /\ Len(S) \in Nat /\ S \in Seq(({"say"} \X Nat \X Seq(Nat)) \union ({"hear"} \X Nat))
  BY InScript, SensibleType
<1>2. /\ StepsLaid(S, p, b, pos) /\ c \in Nat /\ c <= p /\ r \in Nat /\ pos[c] <= r /\ r <= Len(b)
      /\ hu.rx = Part(b, pos[c], r) /\ toHu = Part(b, r, Len(b))
  BY DEF Joint, Run
<1>3. p \in Nat /\ p <= Len(S) /\ b \in Seq(Nat) /\ c \in 0..p
  <2>1. p \in Nat /\ p <= Len(S) /\ b \in Seq(Nat)
    BY <1>2 DEF StepsLaid
  <2> QED
    BY <1>2, <2>1
<1>4. /\ phone.todo # <<>> /\ phone.todo[1][1] = "hear" /\ toPhone # <<>> /\ toPhone' = Tail(toPhone)
      /\ UNCHANGED <<hu, toHu>>
  BY DEF PhoneHears, Says
<1>5. phone'.todo = Tail(phone.todo)
  <2>1. CASE toPhone[1] = phone.todo[1][2]
    <3>1. phone' = [phone EXCEPT !.todo = Tail(@)]
      BY <2>1 DEF PhoneHears, Onwards
    <3> QED
      BY <3>1 DEF Shapes
  <2>2. CASE toPhone[1] # phone.todo[1][2]
    <3>1. phone' = [phone EXCEPT !.at = "gone"]
      BY <2>2 DEF PhoneHears
    <3>2. phone'.at = "gone"
      BY <3>1 DEF Shapes
    <3> QED
      BY <3>2
  <2> QED
    BY <2>1, <2>2
<1>6. phone.todo = SubSeq(S, p + 1, Len(S)) /\ toPhone \in Seq(Nat) /\ Len(toPhone) = Due(S, c) - HeardBy(S, p)
  BY DEF Joint, Owed
<1>7. p < Len(S) /\ phone.todo[1] = S[p + 1] /\ Tail(phone.todo) = SubSeq(S, p + 1 + 1, Len(S))
  BY <1>1, <1>3, <1>4, <1>6, TodoRest
<1>8. ~ SaysStep(S, p + 1)
  BY <1>4, <1>7 DEF SaysStep
<1>0. PICK t \in Seq(Nat) : t = <<>>
  <2>1. <<>> \in Seq(Nat)
    OBVIOUS
  <2> QED
    BY <2>1
<1>9. b \o t = b
  BY <1>0, <1>3
<1>10. PICK at : StepsLaid(S, p + 1, b \o t, at) /\ \A k \in 0..p : at[k] = pos[k]
  <2>1. SaysStep(S, p + 1) => LaidAt(FrameOf(S, p + 1), b \o t, Len(b), Len(b \o t))
    BY <1>8
  <2>2. ~ SaysStep(S, p + 1) => t = <<>>
    BY <1>0
  <2> QED
    BY <1>1, <1>2, <1>7, <2>1, <2>2, StepsMore
<1>11. at[c] = pos[c] /\ StepsLaid(S, p + 1, b, at)
  BY <1>3, <1>9, <1>10
<1>12. p + 1 \in Nat /\ c <= p + 1
  BY <1>2, <1>3
<1>13. Run(S, p + 1, c, b, at, r)'
  BY <1>2, <1>4, <1>11, <1>12 DEF Run
<1>14. HeardBy(S, p) \in Nat /\ HeardBy(S, p + 1) = HeardBy(S, p) + 1
  BY <1>1, <1>3, <1>7, <1>8, HeardMore
<1>15. Due(S, c) \in Nat
  BY <1>1, <1>2, DueMore
<1>16. Tail(toPhone) \in Seq(Nat) /\ Len(Tail(toPhone)) = Len(toPhone) - 1
  BY <1>4, <1>6
<1>17. Len(Tail(toPhone)) = Due(S, c) - HeardBy(S, p + 1)
  BY <1>6, <1>14, <1>15, <1>16
<1>18. Owed(S, p + 1, c)'
  BY <1>4, <1>5, <1>7, <1>16, <1>17 DEF Owed
<1>19. Stage(S, c)'
  BY <1>4 DEF Stage, Joint
<1> QED
  BY <1>13, <1>18, <1>19 DEF Joint

LEMMA JointReads ==
  ASSUME NEW S \in Script, NEW p, NEW c, NEW b, NEW pos, NEW r, Joint(S, p, c, b, pos, r), Shapes, ReadSome
  PROVE  \E s : Joint(S, p, c, b, pos, s)'
<1> DEFINE u == pos[c]
           m == Len(b)
<1>1. /\ StepsLaid(S, p, b, pos) /\ c \in Nat /\ c <= p /\ r \in Nat /\ u <= r /\ r <= m
      /\ hu.rx = Part(b, u, r) /\ toHu = Part(b, r, m)
  BY DEF Joint, Run
<1>2. p \in Nat /\ b \in Seq(Nat) /\ u \in Nat /\ m \in Nat
  <2>1. p \in Nat /\ b \in Seq(Nat)
    BY <1>1 DEF StepsLaid
  <2>2. c \in 0..p
    BY <1>1, <2>1
  <2> QED
    BY <1>1, <2>1, <2>2 DEF StepsLaid
<1>3. PICK n \in DOMAIN toHu : /\ hu' = [hu EXCEPT !.rx = @ \o SubSeq(toHu, 1, n)]
                               /\ toHu' = Beyond(toHu, n)
  BY DEF ReadSome
<1>4. UNCHANGED <<phone, toPhone>>
  BY DEF ReadSome
<1>5. n \in Nat /\ r + n <= m
  <2>1. m <= m
    BY <1>2
  <2>2. PartIs(b, r, m)
    BY <1>1, <1>2, <2>1, PartOf
  <2>3. PICK t : t = toHu
    OBVIOUS
  <2>4. t \in Seq(Nat) /\ Len(t) = m - r /\ n \in DOMAIN t
    BY <1>1, <2>2, <2>3 DEF PartIs
  <2>5. n \in 1..Len(t)
    BY <2>4
  <2>6. n \in Nat /\ n <= m - r /\ m \in Nat /\ r \in Nat
    BY <1>1, <1>2, <2>4, <2>5
  <2> HIDE DEF m
  <2> QED
    BY <2>6
<1> DEFINE s == r + n
<1>6. s \in Nat /\ r <= s /\ u <= s /\ s <= m
  BY <1>1, <1>2, <1>5
<1>7. Beyond(Part(b, r, m), n) = Part(b, s, m) /\ SubSeq(Part(b, r, m), 1, n) = Part(b, r, s)
  <2>1. m <= Len(b)
    BY <1>2
  <2> HIDE DEF m
  <2> QED
    <3>1. r \in Nat /\ m \in Nat /\ r <= m /\ m <= Len(b) /\ n \in Nat /\ r + n <= m /\ b \in Seq(Nat)
      BY <1>1, <1>2, <1>5, <2>1
    <3>2. Beyond(Part(b, r, m), n) = Part(b, r + n, m) /\ SubSeq(Part(b, r, m), 1, n) = Part(b, r, r + n)
      BY <3>1, PartOfPart, ZenonT(30)
    <3> QED
      BY <3>2
<1>8. Part(b, u, r) \o Part(b, r, s) = Part(b, u, s)
  <2> HIDE DEF s, u
  <2> QED
    BY <1>1, <1>2, <1>6, PartsMeet, SMTT(30)
<1>9. hu'.rx = Part(b, u, s) /\ hu'.at = hu.at /\ hu'.asked = hu.asked /\ toHu' = Part(b, s, m)
  <2>1. hu'.rx = hu.rx \o SubSeq(toHu, 1, n) /\ hu'.at = hu.at /\ hu'.asked = hu.asked
    BY <1>3 DEF Shapes
  <2> HIDE DEF s, u, m
  <2> QED
    BY <1>1, <1>3, <1>7, <1>8, <2>1
<1> HIDE DEF s
<1>10. Run(S, p, c, b, pos, s)'
  BY <1>1, <1>6, <1>9 DEF Run
<1>11. Owed(S, p, c)' /\ Stage(S, c)'
  BY <1>4, <1>9 DEF Owed, Stage, Joint
<1> QED
  BY <1>10, <1>11 DEF Joint

\* The program reads a frame and answers.
LEMMA JointAnswers ==
  ASSUME NEW S \in Script, NEW p, NEW c, NEW b, NEW pos, NEW r, Joint(S, p, c, b, pos, r),
         NEW n, FrameRead(S, p, c, b, pos, r, n), NEW types \in Seq(Nat),
         Len(types) = One(n \in Answered(S)) + One(n \in AskedBack(S)),
         hu'.rx = frame.rest, UNCHANGED <<phone, toHu>>, toPhone' = toPhone \o types, Stage(S, n)'
  PROVE  Joint(S, p, n, b, pos, r)'
<1>1. Sensible(S)
  BY InScript
<1>2. /\ StepsLaid(S, p, b, pos) /\ c \in Nat /\ r \in Nat /\ r <= Len(b) /\ toHu = Part(b, r, Len(b))
  BY DEF Joint, Run
<1>3. n \in Nat /\ n <= p /\ NextSays(S, c, n, pos) /\ pos[n] <= r /\ frame.rest = Part(b, pos[n], r)
  BY DEF FrameRead
<1>4. Run(S, p, n, b, pos, r)'
  BY <1>2, <1>3 DEF Run
<1>5. n <= Len(S)
  <2>1. p \in Nat /\ p <= Len(S) /\ Len(S) \in Nat
    BY <1>1, <1>2, SensibleType DEF StepsLaid
  <2> QED
    BY <1>3, <2>1
<1>6. Due(S, n) = Due(S, c) + One(n \in Answered(S)) + One(n \in AskedBack(S))
  BY <1>1, <1>2, <1>3, <1>5, StepRead
<1>7. Due(S, c) \in Nat /\ HeardBy(S, p) \in Nat
  <2>1. p \in Nat /\ p <= p
    BY <1>2 DEF StepsLaid
  <2> QED
    BY <1>1, <1>2, <2>1, DueMore, HeardGrows
<1>8. toPhone \in Seq(Nat) /\ Len(toPhone) = Due(S, c) - HeardBy(S, p) /\ phone.todo = SubSeq(S, p + 1, Len(S))
  BY DEF Joint, Owed
<1> DEFINE x == One(n \in Answered(S))
           y == One(n \in AskedBack(S))
<1>9. x \in Nat /\ y \in Nat
  BY DEF One
<1>10. toPhone' \in Seq(Nat) /\ Len(toPhone') = Len(toPhone) + Len(types)
  <2>1. JoinedIs(toPhone, types, Nat)
    BY <1>8, Joined
  <2> QED
    BY <2>1 DEF JoinedIs
<1> HIDE DEF x, y
<1>11. Len(toPhone') = Due(S, n) - HeardBy(S, p)
  <2>1. Len(types) = x + y /\ Due(S, n) = Due(S, c) + x + y
    BY <1>6 DEF x, y
  <2> DEFINE l == Len(toPhone')
             k == Len(toPhone)
             m == Len(types)
             d == Due(S, c)
             e == Due(S, n)
             h == HeardBy(S, p)
  <2>2. m = x + y /\ e = d + x + y /\ d \in Nat /\ h \in Nat /\ k = d - h /\ l = k + m
    BY <1>7, <1>8, <1>10, <2>1
  <2> HIDE DEF l, k, m, d, e, h
  <2>3. l = e - h
    BY <1>9, <2>2
  <2> QED
    BY <2>3 DEF l, e, h
<1>12. Owed(S, p, n)'
  BY <1>8, <1>10, <1>11 DEF Owed
<1> QED
  BY <1>4, <1>12 DEF Joint

LEMMA Answers ==
  /\ <<>> \in Seq(Nat) /\ Len(<<>>) = 0
  /\ \A x \in Nat : <<x>> \in Seq(Nat) /\ Len(<<x>>) = 1
  /\ \A x \in Nat, y \in Nat : <<x, y>> \in Seq(Nat) /\ Len(<<x, y>>) = 2
  OBVIOUS

\* The program is still to learn the address.
LEMMA BringupAnswers ==
  ASSUME NEW S \in Script, NEW p, NEW c, NEW b, NEW pos, NEW r, Joint(S, p, c, b, pos, r), Shapes,
         NEW n, FrameRead(S, p, c, b, pos, r, n), hu.at = "bringup", ~ Swallows,
         AnswerInfo \/ AnswerTarget \/ AnswerStatus \/ GetAddress \/ Ignore
  PROVE  Joint(S, p, n, b, pos, r)'
<1> DEFINE A == Addresses(S)
           T == Telling(S, TargetRequest)
           kind == S[n][2]
<1>1. Sensible(S) /\ c \in Nat /\ n \in Nat /\ NextSays(S, c, n, pos) /\ n <= Len(S)
  <2>1. Sensible(S)
    BY InScript
  <2>2. StepsLaid(S, p, b, pos) /\ c \in Nat
    BY DEF Joint, Run
  <2>3. p \in Nat /\ p <= Len(S) /\ Len(S) \in Nat
    BY <2>1, <2>2, SensibleType DEF StepsLaid
  <2>4. n \in Nat /\ n <= p /\ NextSays(S, c, n, pos)
    BY DEF FrameRead
  <2> QED
    BY <2>1, <2>2, <2>3, <2>4
<1>2. frame.svc = kind /\ (hu.rx[1] # 0 <=> S[n][3] # <<>>)
  BY DEF FrameRead
<1>3. UpTo(A, c) = {} /\ (hu.asked <=> UpTo(T, c) # {})
  BY DEF Joint, Stage
<1>4. /\ UpTo(A, n) # {} <=> UpTo(A, c) # {} \/ n \in A
      /\ UpTo(T, n) # {} <=> UpTo(T, c) # {} \/ n \in T
      /\ n \in A <=> kind = ResponseIp /\ S[n][3] # <<>>
      /\ n \in T <=> kind = TargetRequest
      /\ n \in Answered(S) <=> kind = MdStatus \/ (kind \in {InfoRequest, TargetRequest} /\ UpTo(A, c) = {})
      /\ n \in AskedBack(S) <=> kind = TargetRequest /\ UpTo(A, c) = {} /\ UpTo(T, c) = {}
  BY <1>1, StepRead
<1>5. InfoResponse \in Nat /\ TargetResponse \in Nat /\ RequestIp \in Nat /\ HuStatus \in Nat
  BY DEF InfoResponse, TargetResponse, RequestIp, HuStatus
<1> HIDE DEF A, T, kind
<1>6. CASE AnswerInfo
  <2>1. /\ kind = InfoRequest /\ hu'.rx = frame.rest /\ hu'.at = "bringup" /\ hu'.asked = hu.asked
        /\ toPhone' = toPhone \o <<InfoResponse>> /\ UNCHANGED <<phone, toHu>>
    BY <1>2, <1>6 DEF AnswerInfo, Answer, Shapes, Took
  <2>2. n \in Answered(S) /\ n \notin AskedBack(S) /\ n \notin A /\ n \notin T
    BY <1>3, <1>4, <2>1 DEF InfoRequest, TargetRequest, ResponseIp
  <2>3. Stage(S, n)'
    BY <1>3, <1>4, <2>1, <2>2 DEF Stage, A, T
  <2>4. Len(<<InfoResponse>>) = One(n \in Answered(S)) + One(n \in AskedBack(S)) /\ <<InfoResponse>> \in Seq(Nat)
    BY <1>5, <2>2, Answers DEF One
  <2> QED
    BY <2>1, <2>3, <2>4, JointAnswers
<1>7. CASE AnswerTarget
  <2>1. PICK types : types = IF hu.asked THEN <<TargetResponse>> ELSE <<TargetResponse, RequestIp>>
    OBVIOUS
  <2>2. /\ kind = TargetRequest /\ hu'.rx = frame.rest /\ hu'.at = "bringup" /\ hu'.asked = TRUE
        /\ toPhone' = toPhone \o types /\ UNCHANGED <<phone, toHu>>
    BY <1>2, <1>7, <2>1 DEF AnswerTarget, Answer, Shapes, Took
  <2>3. n \in Answered(S) /\ (n \in AskedBack(S) <=> ~ hu.asked) /\ n \notin A /\ n \in T
    BY <1>3, <1>4, <2>2 DEF InfoRequest, TargetRequest, ResponseIp
  <2>4. Stage(S, n)'
    BY <1>3, <1>4, <2>2, <2>3 DEF Stage, A, T
  <2>5. Len(types) = One(n \in Answered(S)) + One(n \in AskedBack(S)) /\ types \in Seq(Nat)
    <3>1. CASE hu.asked
      BY <1>5, <2>1, <2>3, <3>1, Answers DEF One
    <3>2. CASE ~ hu.asked
      BY <1>5, <2>1, <2>3, <3>2, Answers DEF One
    <3> QED
      BY <3>1, <3>2
  <2> QED
    BY <2>2, <2>4, <2>5, JointAnswers
<1>8. CASE AnswerStatus
  <2>1. /\ kind = MdStatus /\ hu'.rx = frame.rest /\ hu'.at = "bringup" /\ hu'.asked = hu.asked
        /\ toPhone' = toPhone \o <<HuStatus>> /\ UNCHANGED <<phone, toHu>>
    BY <1>2, <1>8 DEF AnswerStatus, Answer, Shapes, Took
  <2>2. n \in Answered(S) /\ n \notin AskedBack(S) /\ n \notin A /\ n \notin T
    BY <1>3, <1>4, <2>1 DEF MdStatus, TargetRequest, ResponseIp
  <2>3. Stage(S, n)'
    BY <1>3, <1>4, <2>1, <2>2 DEF Stage, A, T
  <2>4. Len(<<HuStatus>>) = One(n \in Answered(S)) + One(n \in AskedBack(S)) /\ <<HuStatus>> \in Seq(Nat)
    BY <1>5, <2>2, Answers DEF One
  <2> QED
    BY <2>1, <2>3, <2>4, JointAnswers
<1>9. CASE GetAddress
  <2>1. /\ kind = ResponseIp /\ S[n][3] # <<>> /\ hu'.rx = frame.rest /\ hu'.at = "tail"
        /\ UNCHANGED <<phone, toHu, toPhone>>
    BY <1>2, <1>9 DEF GetAddress, HasAddress, Shapes, Took
  <2>2. n \notin Answered(S) /\ n \notin AskedBack(S) /\ n \in A
    BY <1>3, <1>4, <2>1 DEF InfoRequest, MdStatus, TargetRequest, ResponseIp
  <2>3. Stage(S, n)'
    BY <1>3, <1>4, <2>1, <2>2 DEF Stage, A, T
  <2>4. Len(<<>>) = One(n \in Answered(S)) + One(n \in AskedBack(S)) /\ <<>> \in Seq(Nat)
    BY <2>2, Answers DEF One
  <2>5. toPhone' = toPhone \o <<>>
    <3>1. toPhone \in Seq(Nat)
      BY DEF Joint, Owed
    <3> QED
      BY <2>1, <3>1
  <2>6. PICK types \in Seq(Nat) : types = <<>>
    BY <2>4
  <2> QED
    BY <2>1, <2>3, <2>4, <2>5, <2>6, JointAnswers
<1>10. CASE Ignore
  <2>1. /\ kind \notin {InfoRequest, TargetRequest, MdStatus, ResponseIp} /\ hu'.rx = frame.rest /\ hu'.at = "bringup"
        /\ hu'.asked = hu.asked /\ UNCHANGED <<phone, toHu, toPhone>>
    BY <1>2, <1>10 DEF Ignore, Shapes, Took
  <2>2. n \notin Answered(S) /\ n \notin AskedBack(S) /\ n \notin A /\ n \notin T
    BY <1>3, <1>4, <2>1
  <2>3. Stage(S, n)'
    BY <1>3, <1>4, <2>1, <2>2 DEF Stage, A, T
  <2>4. Len(<<>>) = One(n \in Answered(S)) + One(n \in AskedBack(S)) /\ <<>> \in Seq(Nat)
    BY <2>2, Answers DEF One
  <2>5. toPhone' = toPhone \o <<>>
    <3>1. toPhone \in Seq(Nat)
      BY DEF Joint, Owed
    <3> QED
      BY <2>1, <3>1
  <2>6. PICK types \in Seq(Nat) : types = <<>>
    BY <2>4
  <2> QED
    BY <2>1, <2>3, <2>4, <2>5, <2>6, JointAnswers
<1> QED
  BY <1>6, <1>7, <1>8, <1>9, <1>10

\* The program knows the address, and takes a few frames more.
LEMMA TailAnswers ==
  ASSUME NEW S \in Script, NEW p, NEW c, NEW b, NEW pos, NEW r, Joint(S, p, c, b, pos, r), Shapes,
         NEW n, FrameRead(S, p, c, b, pos, r, n), hu.at = "tail", AnswerTail
  PROVE  Joint(S, p, n, b, pos, r)'
<1> DEFINE A == Addresses(S)
           T == Telling(S, TargetRequest)
           kind == S[n][2]
<1>1. Sensible(S) /\ c \in Nat /\ n \in Nat /\ NextSays(S, c, n, pos) /\ n <= Len(S)
  <2>1. Sensible(S)
    BY InScript
  <2>2. StepsLaid(S, p, b, pos) /\ c \in Nat
    BY DEF Joint, Run
  <2>3. p \in Nat /\ p <= Len(S) /\ Len(S) \in Nat
    BY <2>1, <2>2, SensibleType DEF StepsLaid
  <2>4. n \in Nat /\ n <= p /\ NextSays(S, c, n, pos)
    BY DEF FrameRead
  <2> QED
    BY <2>1, <2>2, <2>3, <2>4
<1>2. frame.svc = kind
  BY DEF FrameRead
<1>3. UpTo(A, c) # {}
  BY DEF Joint, Stage
<1>4. /\ UpTo(A, n) # {} <=> UpTo(A, c) # {} \/ n \in A
      /\ n \in Answered(S) <=> kind = MdStatus \/ (kind \in {InfoRequest, TargetRequest} /\ UpTo(A, c) = {})
      /\ n \in AskedBack(S) <=> kind = TargetRequest /\ UpTo(A, c) = {} /\ UpTo(T, c) = {}
  BY <1>1, StepRead
<1> HIDE DEF A, T, kind
<1>5. PICK types : types = IF kind = MdStatus THEN <<HuStatus>> ELSE <<>>
  OBVIOUS
<1>6. /\ hu'.rx = frame.rest /\ hu'.at = "tail" /\ toPhone' = toPhone \o types /\ UNCHANGED <<phone, toHu>>
  BY <1>2, <1>5 DEF AnswerTail, Answer, Shapes, Took
<1>7. Stage(S, n)'
  BY <1>3, <1>4, <1>6 DEF Stage, A
<1>8. Len(types) = One(n \in Answered(S)) + One(n \in AskedBack(S)) /\ types \in Seq(Nat)
  <2>1. HuStatus \in Nat
    BY DEF HuStatus
  <2>2. n \notin AskedBack(S) /\ (n \in Answered(S) <=> kind = MdStatus)
    BY <1>3, <1>4
  <2>3. CASE kind = MdStatus
    BY <1>5, <2>1, <2>2, <2>3, Answers DEF One
  <2>4. CASE kind # MdStatus
    BY <1>5, <2>1, <2>2, <2>4, Answers DEF One
  <2> QED
    BY <2>3, <2>4
<1> QED
  BY <1>6, <1>7, <1>8, JointAnswers

\* A step of the phone on the link, and one of the program.
LEMMA PhoneStep ==
  LinkInv /\ (PhoneConnects \/ PhoneSays \/ PhoneHears \/ PhoneHangsUp \/ PhoneBroadcasts) => LinkInv'
<1> SUFFICES ASSUME LinkInv, PhoneConnects \/ PhoneSays \/ PhoneHears \/ PhoneHangsUp \/ PhoneBroadcasts
             PROVE  LinkInv'
  OBVIOUS
<1>1. Shapes /\ Before /\ Away /\ Linked
  BY DEF LinkInv
<1>2. /\ UNCHANGED hu /\ phone' = [at |-> phone'.at, todo |-> phone'.todo]
      /\ phone'.at # "away" /\ (phone'.at = "linked" => phone.at = "linked" \/ ProgramAt("accept"))
  <2>1. phone = [at |-> phone.at, todo |-> phone.todo]
    BY <1>1 DEF Shapes
  <2>2. CASE PhoneConnects
    BY <2>1, <2>2 DEF PhoneConnects
  <2>3. CASE PhoneSays
    BY <2>1, <2>3 DEF PhoneSays, Says, Onwards
  <2>4. CASE PhoneHears
    <3>1. CASE toPhone[1] = phone.todo[1][2]
      BY <2>1, <2>4, <3>1 DEF PhoneHears, Says, Onwards
    <3>2. CASE toPhone[1] # phone.todo[1][2]
      BY <2>1, <2>4, <3>2 DEF PhoneHears
    <3> QED
      BY <3>1, <3>2
  <2>5. CASE PhoneHangsUp
    BY <2>1, <2>5 DEF PhoneHangsUp
  <2>6. CASE PhoneBroadcasts
    BY <2>1, <2>6 DEF PhoneBroadcasts
  <2> QED
    BY <2>2, <2>3, <2>4, <2>5, <2>6
<1>3. Shapes'
  BY <1>1, <1>2 DEF Shapes
<1>4. Before'
  BY <1>1, <1>2 DEF Before, ProgramAt
<1>5. Away'
  BY <1>2 DEF Away
<1>6. ASSUME OnLink' PROVE \E S \in Script : \E p, c, b, pos, r : Joint(S, p, c, b, pos, r)'
  <2>1. phone'.at = "linked" /\ hu.at \in {"accept", "bringup", "tail"} /\ ~ hu.lost
    BY <1>2, <1>6 DEF OnLink
  <2>2. CASE PhoneConnects
    <3>1. PICK S : S = phone.todo
      OBVIOUS
    <3>2. /\ hu.at = "accept" /\ phone.at = "away" /\ phone' = [phone EXCEPT !.at = "linked"]
          /\ UNCHANGED <<hu, toHu, toPhone>>
      BY <2>2 DEF PhoneConnects, ProgramAt
    <3>3. S \in Script /\ hu.rx = <<>> /\ hu.asked = FALSE /\ toHu = <<>> /\ toPhone = <<>>
      BY <1>1, <3>1, <3>2 DEF Before, Away
    <3>4. Joint(S, 0, 0, <<>>, [k \in {0} |-> 0], 0)
      BY <3>1, <3>2, <3>3, JointBegins
    <3>5. phone'.todo = phone.todo
      BY <1>1, <3>2 DEF Shapes
    <3>6. Joint(S, 0, 0, <<>>, [k \in {0} |-> 0], 0)'
      BY <3>2, <3>4, <3>5 DEF Joint, Run, Owed, Stage
    <3> QED
      BY <3>3, <3>6
  <2>3. CASE PhoneSays
    <3>1. OnLink
      BY <2>1, <2>3 DEF OnLink, PhoneSays, Says
    <3>2. PICK S \in Script : \E p, c, b, pos, r : Joint(S, p, c, b, pos, r)
      BY <1>1, <3>1 DEF Linked
    <3>3. PICK p, c, b, pos, r : Joint(S, p, c, b, pos, r)
      BY <3>2
    <3>4. \E q, d, at : Joint(S, q, c, d, at, r)'
      BY <1>1, <2>3, <3>3, JointSays
    <3> QED
      BY <3>4
  <2>4. CASE PhoneHears
    <3>1. OnLink /\ phone.at = "linked"
      BY <2>1, <2>4 DEF OnLink, PhoneHears, Says
    <3>2. PICK S \in Script : \E p, c, b, pos, r : Joint(S, p, c, b, pos, r)
      BY <1>1, <3>1 DEF Linked
    <3>3. PICK p, c, b, pos, r : Joint(S, p, c, b, pos, r)
      BY <3>2
    <3>4. \E q, at : Joint(S, q, c, b, at, r)'
      BY <1>1, <2>1, <2>4, <3>1, <3>3, JointHears
    <3> QED
      BY <3>4
  <2>5. CASE PhoneHangsUp \/ PhoneBroadcasts
    <3>1. \E at \in {"open", "gone"} : phone' = [phone EXCEPT !.at = at]
      BY <2>5 DEF PhoneHangsUp, PhoneBroadcasts
    <3>2. phone'.at \in {"open", "gone"}
      BY <1>1, <3>1 DEF Shapes
    <3> QED
      BY <2>1, <3>2
  <2> QED
    BY <2>2, <2>3, <2>4, <2>5
<1>7. Linked'
  BY <1>6 DEF Linked
<1> QED
  BY <1>3, <1>4, <1>5, <1>7 DEF LinkInv

\* The program lets go of the link.
LEMMA LeaveStep ==
  ASSUME NEW place \in {"dial", "exit"}, LinkInv, Leave(place)
  PROVE  LinkInv'
<1>1. Shapes /\ Away
  BY DEF LinkInv
<1>2. /\ hu' = [hu EXCEPT !.at = place, !.rx = <<>>] /\ toHu' = <<>> /\ UNCHANGED toPhone
      /\ phone' = phone \/ phone' = [phone EXCEPT !.at = "gone"]
  BY DEF Leave
<1>3. hu'.at = place /\ Shapes'
  BY <1>1, <1>2 DEF Shapes
<1>4. Before' /\ Linked'
  BY <1>3 DEF Before, Linked, OnLink
<1>5. Away'
  <2>1. phone'.at = "away" => phone' = phone
    BY <1>1, <1>2 DEF Shapes
  <2> QED
    BY <1>1, <1>2, <1>3, <2>1 DEF Away
<1> QED
  BY <1>3, <1>4, <1>5 DEF LinkInv

\* A step of the program on the link.
LEMMA HearingStep ==
  LinkInv /\ (ReadSome \/ AnswerInfo \/ AnswerTarget \/ AnswerStatus \/ GetAddress \/ Ignore \/ AnswerTail) => LinkInv'
<1> SUFFICES ASSUME LinkInv,
                    ReadSome \/ AnswerInfo \/ AnswerTarget \/ AnswerStatus \/ GetAddress \/ Ignore \/ AnswerTail
             PROVE  LinkInv'
  OBVIOUS
<1>1. Shapes /\ Before /\ Away /\ Linked
  BY DEF LinkInv
<1>2. hu.at \in {"bringup", "tail"} /\ UNCHANGED phone
  BY DEF ReadSome, Receiving, AnswerInfo, AnswerTarget, AnswerStatus, GetAddress, Ignore, AnswerTail, Ready, ProgramAt
<1>3. /\ Shapes' /\ hu'.at \in {"bringup", "tail"}
      /\ ~ hu'.lost => ~ hu.lost /\ (ReadSome \/ ~ Swallows)
  <2>1. CASE ReadSome
    BY <1>1, <1>2, <2>1 DEF ReadSome, Shapes
  <2>2. CASE AnswerInfo
    BY <1>1, <1>2, <2>2 DEF AnswerInfo, Shapes, Took, Swallows
  <2>3. CASE AnswerTarget
    BY <1>1, <1>2, <2>3 DEF AnswerTarget, Shapes, Took, Swallows
  <2>4. CASE AnswerStatus
    BY <1>1, <1>2, <2>4 DEF AnswerStatus, Shapes, Took, Swallows
  <2>5. CASE GetAddress
    BY <1>1, <1>2, <2>5 DEF GetAddress, Shapes, Took, Swallows
  <2>6. CASE Ignore
    BY <1>1, <1>2, <2>6 DEF Ignore, Shapes, Took, Swallows
  <2>7. CASE AnswerTail
    BY <1>1, <1>2, <2>7 DEF AnswerTail, Shapes, Took, Swallows
  <2> QED
    BY <2>1, <2>2, <2>3, <2>4, <2>5, <2>6, <2>7
<1>4. Before'
  BY <1>3 DEF Before
<1>5. Away'
  BY <1>1, <1>2 DEF Away
<1>6. ASSUME OnLink' PROVE \E S \in Script : \E p, c, b, pos, r : Joint(S, p, c, b, pos, r)'
  <2>1. OnLink /\ (ReadSome \/ ~ Swallows)
    BY <1>2, <1>3, <1>6 DEF OnLink
  <2>2. PICK S \in Script : \E p, c, b, pos, r : Joint(S, p, c, b, pos, r)
    BY <1>1, <2>1 DEF Linked
  <2>3. PICK p, c, b, pos, r : Joint(S, p, c, b, pos, r)
    BY <2>2
  <2>4. CASE ReadSome
    <3>1. \E s : Joint(S, p, c, b, pos, s)'
      BY <1>1, <2>3, <2>4, JointReads
    <3> QED
      BY <3>1
  <2>5. CASE ~ Swallows /\ (AnswerInfo \/ AnswerTarget \/ AnswerStatus \/ GetAddress \/ Ignore)
    <3>1. Complete(hu.rx) /\ hu.at = "bringup"
      BY <2>5 DEF AnswerInfo, AnswerTarget, AnswerStatus, GetAddress, Ignore, Ready, ProgramAt
    <3>2. PICK n : FrameRead(S, p, c, b, pos, r, n)
      BY <2>3, <2>5, <3>1, InScript, NextFrame
    <3>3. Joint(S, p, n, b, pos, r)'
      BY <1>1, <2>3, <2>5, <3>1, <3>2, BringupAnswers
    <3> QED
      BY <3>3
  <2>6. CASE ~ Swallows /\ AnswerTail
    <3>1. Complete(hu.rx) /\ hu.at = "tail"
      BY <2>6 DEF AnswerTail, Ready, ProgramAt
    <3>2. PICK n : FrameRead(S, p, c, b, pos, r, n)
      BY <2>3, <2>6, <3>1, InScript, NextFrame
    <3>3. Joint(S, p, n, b, pos, r)'
      BY <1>1, <2>3, <2>6, <3>1, <3>2, TailAnswers
    <3> QED
      BY <3>3
  <2> QED
    BY <2>1, <2>4, <2>5, <2>6
<1>7. Linked'
  BY <1>6 DEF Linked
<1> QED
  BY <1>3, <1>4, <1>5, <1>7 DEF LinkInv

\* A step of the program away from the link, or the one that takes it.
LEMMA PlaceStep ==
  LinkInv /\ (Open \/ AcceptLink \/ Discover \/ Dial) => LinkInv'
<1> SUFFICES ASSUME LinkInv, Open \/ AcceptLink \/ Discover \/ Dial PROVE LinkInv'
  OBVIOUS
<1>1. Shapes /\ Before /\ Away /\ Linked
  BY DEF LinkInv
<1>2. /\ UNCHANGED <<phone, toHu, toPhone>>
      /\ hu' = [hu EXCEPT !.at = hu'.at] \/ hu' = [hu EXCEPT !.dials = hu'.dials]
      /\ \/ hu.at = "open" /\ hu'.at \in {"discover", "accept", "exit"}
         \/ hu.at = "accept" /\ hu'.at \in {"bringup", "exit"} /\ (hu'.at = "bringup" => phone.at = "linked")
         \/ hu.at \in {"discover", "dial"} /\ hu'.at \in {"dial", "exit", "session"}
  <2>1. CASE Open
    <3>1. PICK place \in {"discover", "accept", "exit"} : hu' = [hu EXCEPT !.at = place]
      <4>1. CASE hu.route = "broadcast"
        BY <2>1, <4>1 DEF Open, ProgramTo
      <4>2. CASE hu.route # "broadcast"
        BY <2>1, <4>2 DEF Open, ProgramTo
      <4> QED
        BY <4>1, <4>2
    <3>2. hu'.at = place
      BY <1>1, <3>1 DEF Shapes
    <3> QED
      BY <2>1, <3>1, <3>2 DEF Open, ProgramAt
  <2>2. CASE AcceptLink
    <3>1. PICK place : place = IF phone.at = "linked" THEN "bringup" ELSE "exit"
      OBVIOUS
    <3>2. hu' = [hu EXCEPT !.at = place] /\ hu.at = "accept" /\ UNCHANGED <<phone, toHu, toPhone>>
      BY <2>2, <3>1 DEF AcceptLink, ProgramAt, ProgramTo
    <3>3. hu'.at = place
      BY <1>1, <3>2 DEF Shapes
    <3>4. place \in {"bringup", "exit"} /\ (place = "bringup" => phone.at = "linked")
      BY <3>1
    <3> QED
      BY <3>2, <3>3, <3>4
  <2>3. CASE Discover
    <3>1. PICK place : place = IF phone.at = "open" THEN "dial" ELSE "exit"
      OBVIOUS
    <3>2. hu' = [hu EXCEPT !.at = place] /\ hu.at = "discover" /\ UNCHANGED <<phone, toHu, toPhone>>
      BY <2>3, <3>1 DEF Discover, ProgramAt, ProgramTo
    <3>3. hu'.at = place
      BY <1>1, <3>2 DEF Shapes
    <3>4. place \in {"dial", "exit"}
      BY <3>1
    <3> QED
      BY <3>2, <3>3, <3>4
  <2>4. CASE Dial
    <3>1. hu.at = "dial" /\ UNCHANGED <<phone, toHu, toPhone>>
      BY <2>4 DEF Dial, ProgramAt
    <3>2. CASE phone.at = "open"
      <4>1. hu' = [hu EXCEPT !.at = "session"]
        BY <2>4, <3>2 DEF Dial
      <4>2. hu'.at = "session"
        BY <1>1, <4>1 DEF Shapes
      <4> QED
        BY <3>1, <4>1, <4>2
    <3>3. CASE phone.at # "open" /\ hu.dials < MaxDials
      <4>1. hu' = [hu EXCEPT !.dials = @ + 1]
        BY <2>4, <3>3 DEF Dial
      <4>2. hu'.at = hu.at /\ hu'.dials = hu.dials + 1
        BY <1>1, <4>1 DEF Shapes
      <4>3. hu' = [hu EXCEPT !.dials = hu'.dials]
        BY <1>1, <4>1, <4>2 DEF Shapes
      <4> QED
        BY <3>1, <4>2, <4>3
    <3>4. CASE phone.at # "open" /\ ~ (hu.dials < MaxDials)
      <4>1. hu' = [hu EXCEPT !.at = "exit"]
        BY <2>4, <3>4 DEF Dial
      <4>2. hu'.at = "exit"
        BY <1>1, <4>1 DEF Shapes
      <4> QED
        BY <3>1, <4>1, <4>2
    <3> QED
      BY <3>2, <3>3, <3>4
  <2> QED
    BY <2>1, <2>2, <2>3, <2>4
<1>3. Shapes' /\ hu'.rx = hu.rx /\ hu'.asked = hu.asked /\ hu'.lost = hu.lost
  BY <1>1, <1>2 DEF Shapes
<1>4. Before'
  BY <1>1, <1>2, <1>3 DEF Before
<1>5. Away'
  BY <1>1, <1>2 DEF Away
<1>6. ASSUME OnLink' PROVE \E S \in Script : \E p, c, b, pos, r : Joint(S, p, c, b, pos, r)'
  <2>1. phone.at = "linked" /\ hu'.at \in {"accept", "bringup", "tail"} /\ ~ hu.lost
    BY <1>2, <1>3, <1>6 DEF OnLink
  <2>2. hu.at = "accept" /\ hu'.at = "bringup"
    BY <1>1, <1>2, <2>1 DEF Before
  <2>3. PICK S \in Script : \E p, c, b, pos, r : Joint(S, p, c, b, pos, r)
    BY <1>1, <2>1, <2>2 DEF Linked, OnLink
  <2>4. PICK p, c, b, pos, r : Joint(S, p, c, b, pos, r)
    BY <2>3
  <2>5. Joint(S, p, c, b, pos, r)'
    BY <1>2, <1>3, <2>2, <2>4 DEF Joint, Run, Owed, Stage
  <2> QED
    BY <2>5
<1>7. Linked'
  BY <1>6 DEF Linked
<1> QED
  BY <1>3, <1>4, <1>5, <1>7 DEF LinkInv

LEMMA LinkStep == LinkInv /\ [BringupNext]_bringupVars => LinkInv'
<1> SUFFICES ASSUME LinkInv, [BringupNext]_bringupVars PROVE LinkInv'
  OBVIOUS
<1>1. CASE TailEnds \/ BringupFails \/ NoAddress \/ TailFull
  <2>1. \E place \in {"dial", "exit"} : Leave(place)
    BY <1>1 DEF TailEnds, BringupFails, NoAddress, TailFull
  <2>2. PICK place \in {"dial", "exit"} : Leave(place)
    BY <2>1
  <2> QED
    BY <2>2, LeaveStep
<1>2. CASE UNCHANGED bringupVars
  <2>1. UNCHANGED <<hu, phone, toHu, toPhone>>
    BY <1>2 DEF bringupVars
  <2>2. Shapes' /\ Before' /\ Away'
    BY <2>1 DEF LinkInv, Shapes, Before, Away
  <2>3. ASSUME OnLink' PROVE \E S \in Script : \E p, c, b, pos, r : Joint(S, p, c, b, pos, r)'
    <3>1. PICK S \in Script : \E p, c, b, pos, r : Joint(S, p, c, b, pos, r)
      BY <2>1, <2>3 DEF LinkInv, Linked, OnLink
    <3>2. PICK p, c, b, pos, r : Joint(S, p, c, b, pos, r)
      BY <3>1
    <3>3. Joint(S, p, c, b, pos, r)'
      BY <2>1, <3>2 DEF Joint, Run, Owed, Stage
    <3> QED
      BY <3>3
  <2> QED
    BY <2>2, <2>3 DEF LinkInv, Linked
<1> QED
  <2>1. CASE PhoneConnects \/ PhoneSays \/ PhoneHears \/ PhoneHangsUp \/ PhoneBroadcasts
    BY <2>1, PhoneStep
  <2>2. CASE ReadSome \/ AnswerInfo \/ AnswerTarget \/ AnswerStatus \/ GetAddress \/ Ignore \/ AnswerTail
    BY <2>2, HearingStep
  <2>3. CASE Open \/ AcceptLink \/ Discover \/ Dial
    BY <2>3, PlaceStep
  <2>4. BringupNext \/ UNCHANGED bringupVars
    OBVIOUS
  <2> QED
    BY <1>1, <1>2, <2>1, <2>2, <2>3, <2>4 DEF BringupNext

-----------------------------------------------------------------------------
(* Nobody waits for ever.                                                  *)

\* A phone that waits for an answer that is not on its way has said a frame that
\* the program has yet to read.
LEMMA LeftToRead ==
  ASSUME NEW S \in Script, NEW p, NEW c, NEW b, NEW pos, NEW r, Joint(S, p, c, b, pos, r),
         phone.todo # <<>>, phone.todo[1][1] = "hear", toPhone = <<>>
  PROVE  pos[c] < pos[p]
<1>1. Sensible(S) /\ Len(S) \in Nat /\ S \in Seq(({"say"} \X Nat \X Seq(Nat)) \union ({"hear"} \X Nat))
      /\ DOMAIN S = 1..Len(S)
  BY InScript, SensibleType
<1>2. StepsLaid(S, p, b, pos) /\ c \in Nat /\ c <= p
  BY DEF Joint, Run
<1>3. p \in Nat /\ p <= Len(S) /\ c \in 0..p /\ p \in 0..p
  <2>1. p \in Nat /\ p <= Len(S)
    BY <1>2 DEF StepsLaid
  <2> QED
    BY <1>2, <2>1
<1>4. pos[c] \in Nat /\ pos[p] \in Nat
  BY <1>2, <1>3 DEF StepsLaid
<1>5. p < Len(S) /\ S[p + 1][1] = "hear"
  <2>1. phone.todo = SubSeq(S, p + 1, Len(S))
    BY DEF Joint, Owed
  <2> QED
    BY <1>1, <1>3, <2>1, TodoRest
<1> DEFINE m == p + 1
<1>6. m \in Nat /\ m \in DOMAIN S /\ m <= Len(S) /\ p <= m
  BY <1>1, <1>3, <1>5
<1>7. HeardBy(S, m) <= Due(S, m)
  <2> HIDE DEF m
  <2>1. S[m][1] = "hear"
    BY <1>5 DEF m
  <2> QED
    BY <1>1, <1>6, <2>1 DEF Sensible
<1>8. HeardBy(S, m) = HeardBy(S, p) + 1 /\ HeardBy(S, p) \in Nat
  <2>1. ~ SaysStep(S, p + 1)
    BY <1>5 DEF SaysStep
  <2> QED
    BY <1>1, <1>3, <1>5, <2>1, HeardMore
<1>9. Due(S, m) = Due(S, p)
  <2>1. \A k \in (p + 1)..m : ~ SaysStep(S, k)
    <3>1. \A k \in (p + 1)..m : k = p + 1
      BY <1>3
    <3> QED
      BY <1>5, <3>1 DEF SaysStep
  <2> HIDE DEF m
  <2> QED
    BY <1>1, <1>3, <1>6, <2>1, DueSame
<1>10. Due(S, c) \in Nat /\ Due(S, p) \in Nat
  BY <1>1, <1>2, <1>3, DueMore
<1>11. Due(S, c) = HeardBy(S, p)
  <2>1. Len(toPhone) = Due(S, c) - HeardBy(S, p) /\ Len(toPhone) = 0
    BY DEF Joint, Owed
  <2> QED
    BY <1>8, <1>10, <2>1
<1>12. Due(S, c) < Due(S, p)
  <2> HIDE DEF m
  <2> QED
    BY <1>7, <1>8, <1>9, <1>10, <1>11
<1>13. pos[c] # pos[p]
  <2> SUFFICES ASSUME pos[c] = pos[p] PROVE FALSE
    OBVIOUS
  <2>1. \A k \in (c + 1)..p : ~ SaysStep(S, k)
    BY <1>1, <1>2, <1>3, NoStep
  <2>2. Due(S, p) = Due(S, c)
    BY <1>1, <1>2, <1>3, <2>1, DueSame
  <2> QED
    BY <1>10, <1>12, <2>2
<1>14. pos[c] <= pos[p]
  <2> DEFINE i == p - c
  <2>1. i \in Nat /\ c + i = p /\ c + i <= p
    BY <1>2, <1>3
  <2> HIDE DEF i
  <2>2. pos[c] <= pos[c + i]
    BY <1>1, <1>2, <2>1, StepsGrow
  <2> QED
    BY <2>1, <2>2
<1> QED
  BY <1>4, <1>13, <1>14

\* When the link is empty such a frame is whole.
LEMMA WholeFrame ==
  ASSUME NEW S \in Script, NEW p, NEW c, NEW b, NEW pos, NEW r, Joint(S, p, c, b, pos, r),
         pos[c] < pos[p], toHu = <<>>
  PROVE  Complete(hu.rx)
<1> DEFINE u == pos[c]
           m == Len(b)
           x == Part(b, u, r)
<1>1. /\ StepsLaid(S, p, b, pos) /\ c \in Nat /\ c <= p /\ r \in Nat /\ u <= r /\ r <= m
      /\ hu.rx = x /\ toHu = Part(b, r, m)
  BY DEF Joint, Run
<1>2. Sensible(S)
  BY InScript
<1>3. p \in Nat /\ b \in Seq(Nat) /\ m \in Nat /\ pos[p] = m /\ u \in Nat /\ p <= Len(S)
  <2>1. p \in Nat /\ b \in Seq(Nat) /\ pos[p] = m /\ p <= Len(S)
    BY <1>1 DEF StepsLaid
  <2>2. c \in 0..p
    BY <1>1, <2>1
  <2> QED
    BY <1>1, <2>1, <2>2 DEF StepsLaid
<1>4. r = m
  <2>1. m <= m
    BY <1>3
  <2>2. PartIs(b, r, m)
    BY <1>1, <1>3, <2>1, PartOf
  <2>3. Len(Part(b, r, m)) = m - r /\ Len(Part(b, r, m)) = 0
    BY <1>1, <2>2 DEF PartIs
  <2> HIDE DEF m
  <2> QED
    BY <1>1, <1>3, <2>3
<1>5. PartIs(b, u, r)
  BY <1>1, <1>3, PartOf
<1>6. Len(x) = r - u /\ \A i \in 1..(r - u) : x[i] = b[u + i]
  BY <1>5 DEF PartIs
<1>7. PICK n \in Nat : n <= p /\ NextSays(S, c, n, pos)
  BY <1>1, <1>2, NextStep
<1> DEFINE k == n - 1
           w == pos[n]
           l == Len(S[n][3])
           e == FrameOf(S, n)
<1>8. k \in Nat /\ k < p /\ k + 1 = n /\ SaysStep(S, n) /\ pos[k] = u
  BY <1>1, <1>3, <1>7 DEF NextSays
<1>9. LaidAt(e, b, u, w) /\ w = u + 2 + l /\ l \in Nat /\ w \in Nat
  <2> HIDE DEF k
  <2>1. /\ pos[k + 1] \in Nat
        /\ SaysStep(S, k + 1) => /\ LaidAt(FrameOf(S, k + 1), b, pos[k], pos[k + 1])
                                 /\ pos[k + 1] = pos[k] + 2 + Len(S[k + 1][3]) /\ Len(S[k + 1][3]) \in Nat
    BY <1>1, <1>2, <1>8, EachStep
  <2> QED
    BY <1>8, <2>1
<1>10. b[u + 1] = l
  BY <1>9 DEF LaidAt, FrameOf
<1>11. w <= m
  <2> DEFINE i == p - n
  <2>1. i \in Nat /\ n + i = p /\ n + i <= p
    BY <1>3, <1>7
  <2> HIDE DEF i
  <2>2. pos[n] <= pos[n + i]
    BY <1>1, <1>2, <1>7, <2>1, StepsGrow
  <2> QED
    BY <1>3, <2>1, <2>2
<1> HIDE DEF k, w, l, e, x, u, m
<1>12. r - u \in Nat /\ r - u >= 2 + l
  BY <1>1, <1>3, <1>4, <1>9, <1>11
<1>13. x[1] = l
  <2>1. 1 \in 1..(r - u)
    BY <1>9, <1>12
  <2> QED
    BY <1>6, <1>10, <2>1
<1>14. Len(x) >= 2 /\ Len(x) >= 2 + x[1]
  BY <1>6, <1>9, <1>12, <1>13
<1> QED
  BY <1>1, <1>14 DEF Complete

LEMMA LinkNoWait == LinkInv => NobodyWaitsForever
<1> SUFFICES ASSUME LinkInv, MutualWait, ~ hu.lost PROVE FALSE
  BY DEF NobodyWaitsForever
<1>1. /\ hu.at \in {"bringup", "tail"} /\ ~ Complete(hu.rx) /\ toHu = <<>> /\ toPhone = <<>>
      /\ phone.at = "linked" /\ phone.todo # <<>> /\ phone.todo[1][1] = "hear"
  BY DEF MutualWait, Receiving, Says
<1>2. PICK S \in Script : \E p, c, b, pos, r : Joint(S, p, c, b, pos, r)
  BY <1>1 DEF LinkInv, Linked, OnLink
<1>3. PICK p, c, b, pos, r : Joint(S, p, c, b, pos, r)
  BY <1>2
<1>4. pos[c] < pos[p]
  BY <1>1, <1>3, LeftToRead
<1> QED
  BY <1>1, <1>3, <1>4, WholeFrame

\* However the stream of the link falls into pieces, a phone that waits for no
\* more than the program owes it never waits for a program that waits for it: no
\* frame is lost, taken for part of another, or left unanswered
\* (bt_link.cpp:383-417), unless an empty frame has swallowed what came right
\* behind it (388-392).
THEOREM NobodyEverWaits == BringupSpec => []NobodyWaitsForever
<1>1. BringupInit => LinkInv
  BY LinkInit
<1>2. LinkInv /\ [BringupNext]_bringupVars => LinkInv'
  BY LinkStep
<1>3. LinkInv => NobodyWaitsForever
  BY LinkNoWait
<1> QED
  BY <1>1, <1>2, <1>3, PTL DEF BringupSpec
=============================================================================
