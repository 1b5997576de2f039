---------------------------- MODULE CarLifeMedia ----------------------------
(***************************************************************************)
(* What a CarLife session tells the car: the callbacks CarLifeInputAdapter *)
(* gets for video, audio and the information blocks, each an operator from *)
(* a world to the world after it.  A world is the adapter's members (a),   *)
(* the RealMediaStore that only this adapter feeds (store), and what the   *)
(* Core shows of the source (core).                                        *)
(*                                                                         *)
(* Video is a frame with the configuration it carries, if any, and whether *)
(* it holds a keyframe.  Audio streams are numbered as in kAudioStreamId.  *)
(* Left out: queues of the store and frame rates (MediaLink has them),     *)
(* payloads, counters, log lines, and texts that only status() reads.      *)
(***************************************************************************)
EXTENDS Integers

CONSTANTS
  Config,              \* pairs of SPS and PPS a phone may send
  None                 \* no configuration, no stream

ASSUME NoneAssumption == None \notin Nat

VARIABLES a, store, core

World == [a |-> a, store |-> store, core |-> core]
Becomes(w) == a' = w.a /\ store' = w.store /\ core' = w.core

Stream == 1..3
MEDIA == 1
TTS == 2
VR == 3

-----------------------------------------------------------------------------
(* RealMediaStore.  A stream that is open holds the last sequence number it *)
(* took, 0 for none yet.                                                    *)

NoVideo == [started |-> FALSE, config |-> None, last |-> 0]
EmptyStore ==
  [sid |-> 0, hello |-> FALSE, video |-> NoVideo, audio |-> [i \in Stream |-> None],
   gain |-> "full", refused |-> FALSE]       \* refused: history, a push it would not take

BeginSession(st, sid) ==
  IF sid = st.sid THEN st ELSE [EmptyStore EXCEPT !.sid = sid, !.hello = TRUE, !.refused = st.refused]
EndSession(st, sid) ==
  IF sid # st.sid THEN st ELSE [EmptyStore EXCEPT !.hello = TRUE, !.refused = st.refused]
TransportReady(st) ==
  IF st.hello THEN st ELSE [EmptyStore EXCEPT !.hello = TRUE, !.refused = st.refused]
TransportClosed(st) == [st EXCEPT !.hello = FALSE]

\* set_video_stream of the adapter's one stream: refused if it is started.
CanSetVideo(st) == st.sid # 0 /\ ~st.video.started
SetVideoStream(st, config) == [st EXCEPT !.video = [started |-> TRUE, config |-> config, last |-> 0]]
EndVideoStream(st) == [st EXCEPT !.video = NoVideo]
PushVideoFrame(st, seq) ==
  IF st.sid # 0 /\ st.video.started /\ seq > st.video.last
  THEN [st EXCEPT !.video.last = seq] ELSE [st EXCEPT !.refused = TRUE]

CanStartAudio(st, i, rate) == rate = "valid" /\ st.sid # 0 /\ st.audio[i] = None
StartAudio(st, i) == [st EXCEPT !.audio[i] = 0]
EndAudio(st, i) == [st EXCEPT !.audio[i] = None]

\* A payload that is no whole number of samples is not taken.
PushAudio(st, i, seq, whole) ==
  IF st.sid = 0 \/ st.audio[i] = None THEN [st EXCEPT !.refused = TRUE]
  ELSE IF ~whole THEN st
  ELSE IF seq > st.audio[i] THEN [st EXCEPT !.audio[i] = seq]
  ELSE [st EXCEPT !.refused = TRUE]

-----------------------------------------------------------------------------
(* A session and its streams.                                              *)

NoStreams(x) ==
  [x EXCEPT !.vopen = FALSE, !.config = None, !.vseq = 0,
            !.aopen = {}, !.aseq = [i \in Stream |-> 0]]

\* ensure_session_locked.  Session numbers wrap: only two are ever compared.
EnsureSession(w) ==
  IF w.a.sid # 0 THEN w
  ELSE LET sid == w.a.epoch + 1
       IN  [w EXCEPT !.a.sid = sid, !.a.epoch = sid % 2,
                     !.store = TransportReady(BeginSession(w.store, sid))]

\* Between two sessions, and in stop().
LeaveSession(w) ==
  LET ended == IF w.a.sid = 0 THEN w.store ELSE EndSession(w.store, w.a.sid)
  IN  [w EXCEPT !.a = [NoStreams(w.a) EXCEPT !.sid = 0], !.store = TransportClosed(ended)]

OnVideoConfig(w) == EnsureSession([w EXCEPT !.a.size = TRUE])

\* ensure_video_stream_locked.
EnsureVideoStream(w) ==
  IF ~w.a.vopen /\ w.a.config # None /\ w.a.size /\ CanSetVideo(w.store)
  THEN [w EXCEPT !.a.vopen = TRUE, !.store = SetVideoStream(w.store, w.a.config)] ELSE w

\* Bug: a stream stays open when its parameters change.
ReconfiguredOpen(w, config) == [w EXCEPT !.a.config = config, !.a.vseq = 0]

\* New parameters: the decoder starts over, with a stream of its own.
Reconfigured(w, config) ==
  [w EXCEPT !.a.config = config, !.a.vseq = 0, !.a.vopen = FALSE,
            !.store = IF w.a.vopen THEN EndVideoStream(w.store) ELSE w.store]

\* forward_video_annexb.
OnVideoAnnexB(w, config) ==
  LET here == EnsureSession(w)
      new == IF config \in {None, here.a.config} THEN here ELSE Reconfigured(here, config)
      open == EnsureVideoStream(new)
      seq == open.a.vseq + 1
  IN  IF ~open.a.vopen THEN open
      ELSE [open EXCEPT !.a.vseq = seq, !.store = PushVideoFrame(open.store, seq)]

\* A1: while a route is being announced, media is turned down.
Duck(w, on) ==
  LET gain == IF on THEN "low" ELSE "full"
  IN  [w EXCEPT !.a.ducked = on, !.store.gain = gain, !.core.ducking = on,
                !.a.audio = [@ EXCEPT !.nav = on, !.gain = gain,
                                      !.role = IF on THEN "Navigation" ELSE "Media"]]

\* set_audio_state, which takes the whole block.
ShowAudio(w) == [w EXCEPT !.core.audio = w.a.audio]

OnAudioInit(w, i, rate) ==
  LET ducked == IF i = TTS THEN ShowAudio(Duck(w, TRUE)) ELSE w
      shown == ShowAudio([ducked EXCEPT !.a.audio.others = w.a.aopen, !.a.audio.format = i])
      here == EnsureSession(shown)
  IN  IF rate = "coded" THEN ducked              \* not PCM16, or no rate at all
      ELSE IF i \notin here.a.aopen /\ CanStartAudio(here.store, i, rate)
      THEN [here EXCEPT !.a.aopen = @ \cup {i}, !.a.aseq[i] = 0, !.store = StartAudio(here.store, i)]
      ELSE here

OnAudioPcm(w, i, whole) ==
  LET seq == w.a.aseq[i] + 1
  IN  IF i \notin w.a.aopen THEN w
      ELSE [w EXCEPT !.a.aseq[i] = seq, !.store = PushAudio(w.store, i, seq, whole)]

OnAudioEnd(w, i) ==
  LET up == IF i = TTS THEN ShowAudio(Duck(w, FALSE)) ELSE w
  IN  IF i \notin up.a.aopen THEN up
      ELSE [up EXCEPT !.a.aopen = @ \ {i}, !.a.aseq[i] = 0, !.store = EndAudio(up.store, i)]

-----------------------------------------------------------------------------
(* Information blocks, read, changed and handed to the Core as a whole.    *)
(* told is a history: by field, the last value a phone gave it.            *)

NoLink == [activation |-> 0, encryption |-> 0, active |-> FALSE, bytes |-> 0, total |-> 0, ota |-> "none"]
NoNav == [valid |-> FALSE, code |-> 0, ahead |-> 0, remaining |-> 0, seconds |-> 0]
SetLink(w, ls) == [w EXCEPT !.a.link = ls, !.core.link = ls]
SetNav(w, nav) == [w EXCEPT !.a.nav = nav, !.core.nav = nav]
Tell(w, block, field, v) == [w EXCEPT !.core.told[block][field] = v]

\* Bug: the block is put together anew.
OnActivationRequestAlone(w, provisioned) ==
  SetLink(Tell(w, "link", "activation", IF provisioned THEN 3 ELSE 0),
          [NoLink EXCEPT !.activation = IF provisioned THEN 3 ELSE 0])

OnActivationRequest(w, provisioned) ==
  LET v == IF provisioned THEN 3 ELSE 0
  IN  SetLink(Tell(w, "link", "activation", v), [w.a.link EXCEPT !.activation = v])

OnEncryption(w, state) ==
  LET v == CASE state = "Off" -> 0 [] state = "Ready" -> 2 [] OTHER -> 1
  IN  SetLink(Tell(w, "link", "encryption", v), [w.a.link EXCEPT !.encryption = v])

\* onFileTransfer; the members file_transfer_* and ota_state_ are a.file.
FileStep(f, svc) ==
  CASE svc = "START" -> [active |-> TRUE, bytes |-> 0, total |-> 2, ota |-> "downloading"]
    [] svc = "DATA" -> [f EXCEPT !.bytes = IF @ < 2 THEN @ + 1 ELSE 0]    \* uint32_t, as small
    [] svc = "FINISH" -> [f EXCEPT !.active = FALSE, !.ota = "ready"]
    [] svc = "STOP" -> [f EXCEPT !.active = FALSE, !.ota = "failed"]
    [] svc = "UPDATE_START" -> [f EXCEPT !.ota = "downloading"]
    [] svc = "UPDATE_END" -> [f EXCEPT !.ota = "verifying"]
OnFileTransfer(w, svc) ==
  LET f == FileStep(w.a.file, svc)
      ls == [w.a.link EXCEPT !.active = f.active, !.bytes = f.bytes, !.total = f.total, !.ota = f.ota]
  IN  SetLink([w EXCEPT !.a.file = f, !.core.told.file = f], ls)

\* Zero says nothing: the next turn clears a distance, a guide keeps it.
OnNaviNextTurn(w, code, ahead, remaining, seconds) ==
  LET told == [w EXCEPT !.core.told.nav =
                 [code |-> code, ahead |-> ahead, remaining |-> remaining,
                  seconds |-> IF seconds > 0 THEN seconds ELSE @.seconds]]
      nav == [w.a.nav EXCEPT !.valid = TRUE, !.code = code, !.ahead = ahead, !.remaining = remaining]
  IN  SetNav(told, IF seconds > 0 THEN [nav EXCEPT !.seconds = seconds] ELSE nav)

OnNaviAssistantGuide(w, ahead, remaining) ==
  LET Given(v, old) == IF v > 0 THEN v ELSE old
      nav == [w.a.nav EXCEPT !.valid = TRUE, !.ahead = Given(ahead, @), !.remaining = Given(remaining, @)]
      told == [w.core.told.nav EXCEPT !.ahead = Given(ahead, @), !.remaining = Given(remaining, @)]
  IN  SetNav([w EXCEPT !.core.told.nav = told], nav)

\* onTelephony: a name stands in for a number that is missing, and the other way round.
OnTelephony(w, state, number, name) ==
  [w EXCEPT !.core.call = [state |-> state, number |-> IF number = None THEN name ELSE number,
                           name |-> IF name = None THEN number ELSE name]]

\* onVideoControl: the rate that the phone confirms, if it does.
OnVideoControl(w, rate) == IF rate > 0 THEN [w EXCEPT !.core.fps = rate] ELSE w
=============================================================================
