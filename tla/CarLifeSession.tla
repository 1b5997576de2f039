--------------------------- MODULE CarLifeSession ---------------------------
(***************************************************************************)
(* A CarLife session (session.cpp) and its cipher (encryption.cpp), over   *)
(* the transport: the thread that runs start() and its loop, the heartbeat *)
(* thread, the host that stops the session, and a phone that follows the   *)
(* order of SPEC.md.                                                       *)
(*                                                                         *)
(* A message is its channel, its service and what its payload says: "none" *)
(* when empty, "bad" when it cannot be parsed, and whether it is           *)
(* encrypted.  What a handler sends is collected in tx and leaves in the   *)
(* same step.  Time is a clock of seconds; the half minute that SPEC.md    *)
(* gives the phone for its authentication has no counterpart in the code.  *)
(* Left out: log lines, counters, snapshots, and configured limits of time *)
(* and frames, which end the loop as quitRequested() does.                 *)
(***************************************************************************)
EXTENDS CarLifeTransport

CONSTANTS
  Versions,            \* protocol versions a phone may speak, "v2" is ours
  Plan,                \* behaviours of the surroundings, each a record of what the
                       \* phone says beyond the handshake, its version, what the
                       \* host has to send, and how things go wrong
  MaxOffers,           \* how often the host has something to send
  SilenceLimit,        \* 10 s without a byte of video
  AuthGrace            \* 5 s from a failed authentication to the end

\* What the phone says only as its part of the handshake and of the key exchange.
Handshake ==
  {"PROTOCOL_VERSION_MATCH_STATUS", "MD_INFO", "MD_AUTH_RESPONSE", "MD_AUTH_RESULT",
   "VIDEO_ENCODER_INIT_DONE", "MD_AES_KEY_SEND_REQUEST", "MD_ENCRYPT_READY"}

ASSUME SessionAssumption ==
  /\ "v2" \in Versions /\ Versions \subseteq STRING \ {"match", "reject"}
  /\ Plan \subseteq [says : SUBSET [ch : Channel, svc : STRING \ Handshake, arg : STRING, enc : {FALSE}],
                    major : Versions, host : {"none", "touch", "mic", "report"},
                    fault : {"none", "stop", "serve", "partial", "silence", "hangup", "quit"}]
  /\ MaxOffers \in Nat
  /\ SilenceLimit \in Nat /\ AuthGrace \in Nat \ {0, 1}

VARIABLES
  s,                   \* Session and its ContentCipher
  main,                \* where the thread of start() is
  beat,                \* where heartbeatLoop is
  stopper,             \* where the host's requestStop is
  ph,                  \* the phone
  heard                \* by channel: the last message handled

sessionVars == <<s, main, beat, stopper, ph, heard>>
vars == <<transportVars, sessionVars>>

\* The messages of a channel.
Of(seq, c) == Where(seq, {m \in Range(seq) : m.ch = c})

Msg(c, svc, arg) == [ch |-> c, svc |-> svc, arg |-> arg, enc |-> FALSE]
NoMsg == Msg("CMD", "none", "none")

\* The order of State, by which the code asks how far a session has come.
Order == <<"Idle", "Connected", "VersionMatched", "AuthRequested", "AuthVerified",
           "Established", "VideoInitSent", "VideoStarted", "Failed", "Closed">>
AtLeast(st, t) == \E i, j \in DOMAIN Order : Order[i] = st /\ Order[j] = t /\ i >= j

SessionInit ==
  /\ \E keypair \in BOOLEAN :
       s = [ st |-> "Idle", running |-> FALSE, err |-> FALSE,
             major |-> "v2",         \* sentProtocolMajor_
             failAt |-> 0,           \* seconds left of failAtMs, 0: not set
             silent |-> 0,           \* seconds since the last byte of video
             keypair |-> keypair, key |-> FALSE, enabled |-> FALSE, excludes |-> {},
             mic |-> FALSE, subscribed |-> FALSE,
             host |-> "none",        \* the last callback of the HostSink
             tx |-> <<>> ]
  /\ main = "start" /\ beat = "off" /\ stopper = "idle"
  /\ \E plan \in Plan :
       /\ plan.fault = "serve" <=> \E c \in Channel : acceptor[c] = "wait"
       /\ plan.fault \notin {"serve", "partial"} => far = Channel
       /\ ph = [ plan |-> plan, offers |-> 0,
              ready |-> FALSE,       \* history: MD_ENCRYPT_READY was sent
              inside |-> FALSE,      \* it has read MD_AUTH_RESULT_RESPONSE
              encrypts |-> FALSE,    \* it has read MD_ENCRYPT_READY_DONE
              window |-> {},         \* history: services sent in plain between the two,
                                     \* or before on another channel
              asked |-> FALSE,       \* history: MD_RSA_PUBLIC_KEY_REQUEST was sent
              again |-> FALSE,       \* history: it was sent once more
              owed |-> <<>> ]        \* history: answers it waits for, in order
  /\ heard = [c \in Channel |-> NoMsg]

Init == TransportInit /\ SessionInit

-----------------------------------------------------------------------------
(* What the session sends.                                                 *)

\* encrypt_payload, which leaves an empty one empty.
Encrypt(m) == [m EXCEPT !.enc = m.arg # "none"]

\* sendOn: everything is encrypted once the cipher is enabled.
SendOn(x, c, svc, arg) ==
  LET m == Msg(c, svc, arg)
  IN  [x EXCEPT !.tx = Append(@, IF x.enabled THEN Encrypt(m) ELSE m)]
SendCmd(x, svc, arg) == SendOn(x, "CMD", svc, arg)

\* Sends outside of the lines of sendOn: the heartbeat and injected touches.
Flush(x) == [x EXCEPT !.tx = <<>>]
Leaves(x) == [c \in Channel |-> IF CanSend(c) THEN out[c] \o Of(x.tx, c) ELSE out[c]]

Fail(x) == [x EXCEPT !.st = "Failed", !.err = TRUE, !.running = FALSE]
SetState(x, st) == [x EXCEPT !.st = st]
Calls(x, callback) == [x EXCEPT !.host = callback]

-----------------------------------------------------------------------------
(* The cipher: what a message says once decryptInbound is done with it.    *)

Unread(f) == [f EXCEPT !.arg = IF f.enc THEN "bad" ELSE @, !.enc = FALSE]

\* decrypt_payload takes a plain text only if its length is that of blocks and
\* its end looks like padding; what it makes of it then is not what was sent.
Decrypted(x, f) ==
  IF f.enc THEN {<<x, [f EXCEPT !.enc = FALSE]>>}
  ELSE {<<[x EXCEPT !.excludes = @ \cup {f.svc}], f>>, <<x, [f EXCEPT !.arg = "bad"]>>}

DecryptInbound(x, f) ==
  IF x.enabled /\ f.arg # "none" /\ f.svc \notin x.excludes
  THEN Decrypted(x, f) ELSE {<<x, Unread(f)>>}

\* enabled stands for enabled(): the flag is set and the state is Ready.
\* Bug: the cipher is enabled before the phone is ready.
InstallKeyEnables(x) == [x EXCEPT !.key = TRUE, !.excludes = {}, !.enabled = TRUE]

\* install_aes_key_raw: the exclusions are forgotten, and the state that is left,
\* KeyReceived, is not the one in which enabled() holds.
InstallKey(x) == [x EXCEPT !.key = TRUE, !.excludes = {}, !.enabled = FALSE]

\* The key is sent in the old state; the new one, Advertised, is not Ready.
HandleEncryption(x, f) ==
  CASE f.svc = "MD_RSA_PUBLIC_KEY_REQUEST" ->
         IF x.keypair
         THEN [SendCmd(x, "HU_RSA_PUBLIC_KEY_RESPONSE", "ok") EXCEPT !.enabled = FALSE] ELSE x
    [] f.svc = "MD_AES_KEY_SEND_REQUEST" ->
         IF x.keypair /\ f.arg = "ok"
         THEN SendCmd(InstallKey(x), "HU_AES_REC_RESPONSE", "none") ELSE x
    [] f.svc = "MD_ENCRYPT_READY" ->
         [SendCmd(x, "MD_ENCRYPT_READY_DONE", "none") EXCEPT !.enabled = @ \/ x.key]

-----------------------------------------------------------------------------
(* The handshake.                                                          *)

\* A mismatch is tried once more with the version the phone names.
HandleProtocolVersionMatch(x, f) ==
  CASE f.arg = "match" -> SetState(SendCmd(x, "STATISTIC_INFO", "ok"), "VersionMatched")
    [] f.arg \in Versions \ {x.major} ->
         SendCmd([x EXCEPT !.major = f.arg], "HU_PROTOCOL_VERSION", f.arg)
    [] OTHER -> Fail(x)

HandleMdInfo(x) ==
  LET y == SendCmd(SendCmd(x, "HU_INFO", "ok"), "HU_AUTH_REQUEST", "ok")
  IN  IF CanSend("CMD") THEN SetState(y, "AuthRequested") ELSE Fail(y)

\* A phone that fails is told so, and the loop gives it AuthGrace seconds.
HandleAuthResponse(x, f) ==
  CASE f.arg = "good"  -> SetState(SendCmd(x, "HU_AUTH_RESULT", "true"), "AuthVerified")
    [] f.arg = "wrong" -> [SetState(SendCmd(x, "HU_AUTH_RESULT", "false"), "Failed")
                             EXCEPT !.err = TRUE, !.failAt = AuthGrace]
    [] OTHER -> Fail(x)

OnEstablished(x) ==
  SetState(SendCmd(SetState(x, "Established"), "VIDEO_ENCODER_INIT", "ok"), "VideoInitSent")

HandleAuthResult(x, f) ==
  LET y == SendCmd(x, "MD_AUTH_RESULT_RESPONSE", "none")
  IN  IF f.arg = "true" THEN OnEstablished(y) ELSE Fail(y)

HandleVideoInitDone(x) == SetState(SendCmd(x, "VIDEO_ENCODER_START", "none"), "VideoStarted")

-----------------------------------------------------------------------------
(* What is answered, and what only reaches the host.                       *)

HandleFeatureConfigRequest(x) == SendCmd(x, "HU_FEATURE_CONFIG_RESPONSE", "ok")

\* Bug: no answer when the cue fails.
HandleMicRecordPrepareQuiet(x) == Calls(x, "prepareMicrophone")

\* The cue may fail, and the phone is told that it is done all the same.
HandleMicRecordPrepare(x) ==
  SendCmd(Calls(x, "prepareMicrophone"), "MIC_RECORD_PREPARE_DONE", "none")

HandleMicRecord(x, f) ==
  [Calls(x, "onMicRecord") EXCEPT !.mic = f.svc # "MIC_RECORD_END"]

HandleHfpStatusRequest(x, f) ==
  IF f.arg = "bad" THEN x
  ELSE SendCmd(Calls(x, "onHfpStatusRequest"), "BT_HFP_STATUS_RESPONSE", "ok")

HandleActivationRequest(x, f) ==
  IF f.arg = "bad" THEN x ELSE SendCmd(Calls(x, "onActivationRequest"), "HU_ACTIVE", "ok")

\* publishVehicleReport: one message for each thing the host knows.
PublishVehicleReport(x) == SendCmd(x, "CAR_VELOCITY", "ok")

\* A subscription is answered with a report, if the host has one.
HandleCarDataSubscribe(x, f, reports) ==
  LET y == Calls(x, "onCarDataSubscribe") IN
  CASE f.svc = "CAR_DATA_SUBSCRIBE_REQ" ->
         LET z == [y EXCEPT !.subscribed = TRUE]
         IN  IF reports THEN PublishVehicleReport(z) ELSE z
    [] f.svc = "CAR_DATA_STOP_REQ" -> [y EXCEPT !.subscribed = FALSE]
    [] f.svc = "CARLIFE_DATA_REQ" -> SendCmd(y, "CARLIFE_DATA_SUBSCRIBE", "ok")
    [] f.svc = "CARLIFE_DATA_SUBSCRIBE_DONE" ->
         SendCmd(y, "CARLIFE_DATA_SUBSCRIBE_DONE_RSP", "none")

\* Messages whose handler parses the payload and calls the host, by group.
Metadata == [ MEDIA_INFO |-> "onMediaInfo", NAV_NEXT_TURN_INFO |-> "onNaviNextTurn",
              NAV_ASSISTANT_GUIDE |-> "onNaviAssistantGuide", GEAR_INFO |-> "onGearFromPhone" ]
PhoneInput == [ TOUCH_PAD_DOWN |-> "onPhoneInput", TOUCH_PAD_MOVE |-> "onPhoneInput",
                TOUCH_PAD_PINCH |-> "onPhoneInput", TOUCH_ACTION_3 |-> "onPhoneTouchAction3" ]
Telephony == [ BT_HFP_REQUEST |-> "onHfpRequest", BT_HFP_CALL_STATUS_COVER |-> "onTelephony" ]
CarControl == [ VEHICLE_CONTROL |-> "onVehicleControl", HU_VOICE_CONTROL |-> "onVoiceControl" ]
Parsed == Metadata @@ PhoneInput @@ Telephony @@ CarControl
          @@ [ MODULE_STATUS |-> "onModuleStatus", TIME_SYNC |-> "onTimeSync",
               MEDIA_PROGRESS_BAR |-> "onMediaProgress" ]

\* Messages that call the host whatever their payload is, lifecycle events if empty.
Signal == [ TEL_STATE_INCOMING |-> "onTelephony", TEL_STATE_IDLE |-> "onTelephony",
            VIDEO_ENCODER_FRAME_RATE_CHANGE_DONE |-> "onVideoControl" ]
Lifecycle == {"GO_TO_DESKTOP", "FOREGROUND", "BACKGROUND", "SCREEN_ON", "SCREEN_OFF"}

Notify(x, f) ==
  CASE f.svc \in DOMAIN Parsed /\ f.arg # "bad" -> Calls(x, Parsed[f.svc])
    [] f.svc \in DOMAIN Signal -> Calls(x, Signal[f.svc])
    [] f.svc \in Lifecycle /\ f.arg = "none" -> Calls(x, "onAppEvent")
    [] OTHER -> x

HandleCmd(x, f, reports) ==
  CASE f.svc = "PROTOCOL_VERSION_MATCH_STATUS" -> HandleProtocolVersionMatch(x, f)
    [] f.svc = "MD_INFO" -> HandleMdInfo(x)
    [] f.svc = "MD_AUTH_RESPONSE" -> HandleAuthResponse(x, f)
    [] f.svc = "MD_AUTH_RESULT" -> HandleAuthResult(x, f)
    [] f.svc = "MD_FEATURE_CONFIG_REQUEST" -> HandleFeatureConfigRequest(x)
    [] f.svc = "VIDEO_ENCODER_INIT_DONE" -> HandleVideoInitDone(x)
    [] f.svc = "MD_EXIT" -> [x EXCEPT !.running = FALSE]
    [] f.svc = "MIC_RECORD_PREPARE_START" -> HandleMicRecordPrepare(x)
    [] f.svc \in {"MIC_RECORD_WAKEUP_START", "MIC_RECORD_END"} -> HandleMicRecord(x, f)
    [] f.svc = "BT_HFP_STATUS_REQUEST" -> HandleHfpStatusRequest(x, f)
    [] f.svc = "BOX_ACTIVE" -> HandleActivationRequest(x, f)
    [] f.svc \in {"MD_RSA_PUBLIC_KEY_REQUEST", "MD_AES_KEY_SEND_REQUEST", "MD_ENCRYPT_READY"} ->
         HandleEncryption(x, f)
    [] f.svc \in {"CAR_DATA_SUBSCRIBE_REQ", "CAR_DATA_STOP_REQ", "CARLIFE_DATA_REQ",
                  "CARLIFE_DATA_SUBSCRIBE_DONE"} -> HandleCarDataSubscribe(x, f, reports)
    [] OTHER -> Notify(x, f)

\* The other channels: video and audio go to the host as bytes.
MediaCall ==
  [ VIDEO_DATA |-> "onVideoAnnexB", MEDIA_INIT |-> "onAudioInit", MEDIA_DATA |-> "onAudioPcm",
    MEDIA_STOP |-> "onAudioEnd", NAV_TTS_INIT |-> "onAudioInit", NAV_TTS_DATA |-> "onAudioPcm",
    NAV_TTS_END |-> "onAudioEnd", VR_AUDIO_DATA |-> "onAudioPcm", VR_AUDIO_STOP |-> "onAudioEnd",
    DATA_MD_TRANSFER_START |-> "onFileTransfer", DATA_HU_UPDATE_END |-> "onFileTransfer",
    TOUCH_ACTION_3 |-> "onPhoneTouchAction3" ]

HandleMedia(x, f) ==
  LET y == IF f.ch = "VIDEO" /\ f.svc \in {"VIDEO_DATA", "VIDEO_HEARTBEAT"}
           THEN [x EXCEPT !.silent = 0] ELSE x
  IN  IF f.svc \in DOMAIN MediaCall THEN Calls(y, MediaCall[f.svc]) ELSE y

HandleFrame(x, f, reports) ==
  IF f.ch = "CMD" THEN HandleCmd(x, f, reports) ELSE HandleMedia(x, f)

-----------------------------------------------------------------------------
(* The thread of start().                                                  *)

Still == UNCHANGED <<net, queue, reader, acceptor, far, closed, closer>>

\* start(): running_ is set whatever requestStop did before.
Start ==
  /\ main = "start"
  /\ s' = [SetState(s, "Connected") EXCEPT !.running = TRUE]
  /\ main' = "hello"
  /\ UNCHANGED <<transportVars, beat, stopper, ph, heard>>

\* The first message; without it the threads are not started and nothing is closed.
Hello ==
  /\ main = "hello"
  /\ IF CanSend("CMD")
     THEN LET x == SendCmd(s, "HU_PROTOCOL_VERSION", s.major)
          IN  s' = Flush(x) /\ out' = Leaves(x) /\ main' = "loop" /\ beat' = "sleep"
     ELSE /\ s' = [SetState(s, "Failed") EXCEPT !.err = TRUE]
          /\ main' = "returned" /\ UNCHANGED <<out, beat>>
  /\ Still /\ UNCHANGED <<stopper, ph, heard>>

\* What the host gives to pollTouchOutput, pollMicrophone and pollVehicleReport.
Polls(x, offer) ==
  CASE offer = "touch" -> SendOn(x, "TOUCH", "TOUCH_ACTION_DOWN", "ok")
    [] offer = "mic" /\ x.mic -> SendOn(x, "VR", "VR_DATA", "ok")
    [] offer = "report" /\ x.subscribed -> PublishVehicleReport(x)
    [] OTHER -> x

Offer(offer) ==
  /\ offer # "none" => ph.offers < MaxOffers
  /\ ph' = [ph EXCEPT !.offers = IF offer = "none" THEN @ ELSE @ + 1]

\* Bug: nobody looks at the time.
OnwardsForEver(x) == "loop"

\* A round ends: the time after a failed authentication may be over.
Onwards(x) == IF x.failAt = 1 THEN "after" ELSE "loop"

\* One round of mainLoop that receives a message.
Receive ==
  /\ main = "loop" /\ s.running /\ queue # <<>>
  /\ LET f == Head(queue) IN
     /\ \E d \in DecryptInbound(s, f), offer \in {"none", ph.plan.host} :
          LET x == Polls(HandleFrame(d[1], d[2], offer = "report"), offer) IN
          /\ Offer(offer)
          /\ s' = Flush(x)
          /\ out' = Leaves(x)
          /\ main' = Onwards(x)
     /\ heard' = [heard EXCEPT ![f.ch] = f]
  /\ queue' = Tail(queue)
  /\ UNCHANGED <<net, reader, acceptor, far, closed, closer, beat, stopper>>

\* A round without one: recv() gives up, and closed_ is read after that.
RecvTimeout ==
  /\ main = "loop" /\ s.running /\ queue = <<>>
  /\ main' = "check"
  /\ UNCHANGED <<transportVars, s, beat, stopper, ph, heard>>

Check ==
  /\ main = "check"
  /\ IF closed THEN main' = "after" /\ UNCHANGED <<s, out, ph>>
     ELSE \E offer \in {"none", ph.plan.host} :
            LET x == Polls(s, offer) IN
            /\ Offer(offer) /\ s' = Flush(x) /\ out' = Leaves(x) /\ main' = Onwards(x)
  /\ Still /\ UNCHANGED <<beat, stopper, heard>>

\* The loop ends: running_ is down, or the host wants to quit.
LoopEnds ==
  /\ main = "loop"
  /\ main' = "after"
  /\ UNCHANGED <<transportVars, s, beat, stopper, ph, heard>>

Stopped == ~s.running /\ LoopEnds
Quit == "quit" = ph.plan.fault /\ LoopEnds

\* The end of mainLoop and of start().
After ==
  /\ main = "after"
  /\ s' = [s EXCEPT !.mic = FALSE, !.running = FALSE,
                    !.st = IF @ = "Failed" THEN @ ELSE "Closed"]
  /\ main' = "close"
  /\ UNCHANGED <<transportVars, beat, stopper, ph, heard>>

MainClose ==
  \/ main = "close" /\ CloseBegin("main") /\ main' = "join"
     /\ UNCHANGED <<s, beat, stopper, ph, heard>>
  \/ main = "join" /\ CloseEnd("main") /\ main' = "returned"
     /\ UNCHANGED <<s, beat, stopper, ph, heard>>

-----------------------------------------------------------------------------
(* The other threads.                                                      *)

\* A second passes; failAt = 1 means that the time has come.  Unless the plan is
\* silence, video comes often enough.
Second ==
  LET silent == IF s.silent > SilenceLimit \/ ph.plan.fault # "silence" THEN s.silent ELSE s.silent + 1
      failAt == IF s.failAt > 1 THEN s.failAt - 1 ELSE s.failAt
  IN  /\ main \notin {"start", "returned"}
      /\ <<silent, failAt>> # <<s.silent, s.failAt>>
      /\ s' = [s EXCEPT !.silent = silent, !.failAt = failAt]
      /\ UNCHANGED <<transportVars, main, beat, stopper, ph, heard>>

\* heartbeatLoop wakes.  The bound: the phone has read the last heartbeat.
Heartbeat ==
  /\ beat = "sleep"
  /\ LET sends == AtLeast(s.st, "Established") /\ "VIDEO" \in Channel /\ CanSend("VIDEO")
         silent == s.st = "VideoStarted" /\ s.silent > SilenceLimit IN
     IF ~s.running THEN beat' = "end" /\ UNCHANGED <<s, out>>
     ELSE /\ out' = IF sends /\ out["VIDEO"] = <<>>
                    THEN Sent(out, Msg("VIDEO", "VIDEO_HEARTBEAT", "none")) ELSE out
          /\ s' = [s EXCEPT !.running = ~silent]
          /\ beat' = IF silent THEN "close" ELSE "sleep"
  /\ Still /\ UNCHANGED <<main, stopper, ph, heard>>

BeatClose ==
  \/ beat = "close" /\ CloseBegin("beat") /\ beat' = "join"
     /\ UNCHANGED <<s, main, stopper, ph, heard>>
  \/ beat = "join" /\ CloseEnd("beat") /\ beat' = "end"
     /\ UNCHANGED <<s, main, stopper, ph, heard>>

\* requestStop.
RequestStop ==
  \/ /\ stopper = "idle" /\ ph.plan.fault = "stop" /\ stopper' = "close"
     /\ s' = [s EXCEPT !.running = FALSE]
     /\ UNCHANGED <<transportVars, main, beat, ph, heard>>
  \/ stopper = "close" /\ CloseBegin("host") /\ stopper' = "join"
     /\ UNCHANGED <<s, main, beat, ph, heard>>
  \/ stopper = "join" /\ CloseEnd("host") /\ stopper' = "end"
     /\ UNCHANGED <<s, main, beat, ph, heard>>

\* The threads of the transport.
Threads ==
  /\ \E c \in Channel : Accept(c) \/ Read(c) \/ ReaderEnd(c)
  /\ UNCHANGED sessionVars

-----------------------------------------------------------------------------
(* The phone, which is external: SPEC.md, sections 3 and 5.                *)

\* Requests and what the phone is answered.
AnswerTo ==
  [ MD_AUTH_RESPONSE |-> "HU_AUTH_RESULT", MD_AUTH_RESULT |-> "MD_AUTH_RESULT_RESPONSE",
    VIDEO_ENCODER_INIT_DONE |-> "VIDEO_ENCODER_START",
    MD_FEATURE_CONFIG_REQUEST |-> "HU_FEATURE_CONFIG_RESPONSE",
    MD_RSA_PUBLIC_KEY_REQUEST |-> "HU_RSA_PUBLIC_KEY_RESPONSE",
    MD_AES_KEY_SEND_REQUEST |-> "HU_AES_REC_RESPONSE",
    MD_ENCRYPT_READY |-> "MD_ENCRYPT_READY_DONE",
    MIC_RECORD_PREPARE_START |-> "MIC_RECORD_PREPARE_DONE",
    BT_HFP_STATUS_REQUEST |-> "BT_HFP_STATUS_RESPONSE", BOX_ACTIVE |-> "HU_ACTIVE",
    CARLIFE_DATA_REQ |-> "CARLIFE_DATA_SUBSCRIBE",
    CARLIFE_DATA_SUBSCRIBE_DONE |-> "CARLIFE_DATA_SUBSCRIBE_DONE_RSP" ]

\* A request is owed its answer, if the payload parses where it matters, and
\* if the car has keys to speak of.
Payloads == {"MD_AUTH_RESPONSE", "MD_AES_KEY_SEND_REQUEST", "BT_HFP_STATUS_REQUEST", "BOX_ACTIVE"}
Owed(m) ==
  /\ m.ch = "CMD" /\ m.svc \in DOMAIN AnswerTo
  /\ m.svc \in Payloads => m.arg # "bad"
  /\ m.svc = "MD_RSA_PUBLIC_KEY_REQUEST" => s.keypair

Speaks(p, m) ==
  LET plain == ~p.encrypts /\ (p.ready \/ m.ch # "CMD") /\ m.arg # "none"
      q == [p EXCEPT !.window = IF plain THEN @ \cup {m.svc} ELSE @,
                     !.ready = @ \/ m.svc = "MD_ENCRYPT_READY",
                     !.again = @ \/ (p.asked /\ m.svc = "MD_RSA_PUBLIC_KEY_REQUEST"),
                     !.asked = @ \/ m.svc = "MD_RSA_PUBLIC_KEY_REQUEST"]
  IN  [q EXCEPT !.owed = IF Owed(m) THEN Append(@, AnswerTo[m.svc]) ELSE @]

Says(p, m) ==
  /\ "CMD" \in far /\ m.ch \in far
  /\ net' = [net EXCEPT ![m.ch] = Append(@, [m EXCEPT !.enc = p.encrypts /\ m.arg # "none"])]
  /\ ph' = Speaks(p, m)

\* What the phone may say to a message, "silent" among them.
Command(svc, args) == {Msg("CMD", svc, arg) : arg \in args}
Replies(m) ==
  CASE m.svc = "HU_PROTOCOL_VERSION" ->
         Command("PROTOCOL_VERSION_MATCH_STATUS",
                 IF m.arg = ph.plan.major THEN {"match"} ELSE {ph.plan.major, "reject"})
    [] m.svc = "STATISTIC_INFO" -> Command("MD_INFO", {"ok"})
    [] m.svc = "HU_AUTH_REQUEST" -> Command("MD_AUTH_RESPONSE", {"good", "wrong", "bad"})
                                \cup Command("MD_AUTH_RESULT", {"false"}) \cup {NoMsg}
    [] m.svc = "HU_AUTH_RESULT" -> Command("MD_AUTH_RESULT", {m.arg})
    [] m.svc = "VIDEO_ENCODER_INIT" -> Command("VIDEO_ENCODER_INIT_DONE", {"none"})
    [] m.svc = "HU_RSA_PUBLIC_KEY_RESPONSE" -> Command("MD_AES_KEY_SEND_REQUEST", {"ok", "bad"})
    [] m.svc = "HU_AES_REC_RESPONSE" -> Command("MD_ENCRYPT_READY", {"none"})
    [] OTHER -> {NoMsg}

\* It reads a command, and may answer at once.
PhoneReads ==
  /\ "CMD" \in far /\ out["CMD"] # <<>>
  /\ LET m == Head(out["CMD"])
         p == [ph EXCEPT !.inside = @ \/ m.svc = "MD_AUTH_RESULT_RESPONSE",
                         !.encrypts = @ \/ m.svc = "MD_ENCRYPT_READY_DONE",
                         !.owed = RemoveFirst(@, m.svc)] IN
     \E reply \in Replies(m) :
       IF reply = NoMsg THEN ph' = p /\ UNCHANGED net ELSE Says(p, reply)
  /\ out' = [out EXCEPT !["CMD"] = Tail(@)]
  /\ UNCHANGED <<queue, reader, acceptor, far, closed, closer, s, main, beat, stopper, heard>>

\* It says something of its plan, each thing once.
PhoneSays ==
  /\ ph.inside
  /\ \E m \in ph.plan.says : Says([ph EXCEPT !.plan.says = @ \ {m}], m)
  /\ UNCHANGED <<queue, out, reader, acceptor, far, closed, closer, s, main, beat, stopper, heard>>

\* It closes a channel, or dies.
PhoneHangsUp ==
  /\ ph.plan.fault = "hangup"
  /\ \E gone \in {{c} : c \in far} \cup {far} : gone # {} /\ far' = far \ gone
  /\ UNCHANGED <<net, queue, out, reader, acceptor, closed, closer, sessionVars>>

-----------------------------------------------------------------------------
MainThread ==
  Start \/ Hello \/ Receive \/ RecvTimeout \/ Check \/ Stopped \/ After \/ MainClose
BeatThread == Heartbeat \/ BeatClose
Phone == PhoneReads \/ PhoneSays \/ PhoneHangsUp

Next == MainThread \/ Quit \/ BeatThread \/ RequestStop \/ Threads \/ Second \/ Phone

Spec == Init /\ [][Next]_vars

\* Threads run, and time passes.  Nothing makes the phone speak, nor the host
\* ask for a stop; once it has asked, its thread runs on.
FairSpec ==
  /\ Spec
  /\ WF_vars(MainThread) /\ WF_vars(BeatThread) /\ WF_vars(Second)
  /\ WF_vars(stopper # "idle" /\ RequestStop)
  /\ \A c \in Channel : WF_vars((Read(c) \/ ReaderEnd(c)) /\ UNCHANGED sessionVars)

-----------------------------------------------------------------------------
(* Properties.                                                             *)

\* Every message a phone can send.
Message ==
  LET handshake == Command("PROTOCOL_VERSION_MATCH_STATUS", Versions \cup {"match", "reject"})
        \cup Command("MD_INFO", {"ok"}) \cup Command("MD_AUTH_RESPONSE", {"good", "wrong", "bad"})
        \cup Command("MD_AUTH_RESULT", {"true", "false"})
        \cup Command("VIDEO_ENCODER_INIT_DONE", {"none"})
        \cup Command("MD_AES_KEY_SEND_REQUEST", {"ok", "bad"})
        \cup Command("MD_ENCRYPT_READY", {"none"}) \cup {NoMsg}
      plain == handshake \cup UNION {p.says : p \in Plan}
  IN  plain \cup {[m EXCEPT !.enc = TRUE] : m \in plain}

\* The messages of a channel are handled once and in order, whatever the
\* threads and close() do, and are lost only after the link was closed
\* (transport.cpp:160, 246).
Abstract == INSTANCE PhoneChannels WITH
  flight <- [c \in Channel |-> Of(queue, c) \o net[c]],
  heard <- heard, up <- ~closed
ChannelsInOrder == Abstract!Spec

\* What the phone waits for is on its way to it, or is the answer to a request
\* on its way to the car, in this order, while the command channel lives: no
\* request is forgotten or answered twice or out of turn, PREPARE_DONE comes
\* even when the cue fails, and a request that was sent in plain while the car
\* began to decrypt is the only one that may go unheard (session.cpp:266).  A
\* phone that asks for the keys once more switches off the cipher of the car and
\* goes on encrypting, so that nothing is promised to it (session.cpp:1238).
NoLostAnswer ==
  LET sure == {AnswerTo[svc] : svc \in DOMAIN AnswerTo \ ph.window}
      answers == [i \in DOMAIN out["CMD"] |-> out["CMD"][i].svc]
      flight == Of(queue, "CMD") \o net["CMD"]
      requests == Where(flight, {m \in Range(flight) : Owed(m)})
      Sure(svcs) == Where(svcs, sure)
  IN  Alive("CMD") /\ ~closed /\ ~ph.again =>
        Sure(ph.owed) = Sure(answers \o [i \in DOMAIN requests |-> AnswerTo[requests[i].svc]])

\* Both ends agree on what is encrypted.  A service is excluded from decryption
\* only if the phone sent it in plain and the car may have begun to decrypt:
\* after MD_ENCRYPT_READY, or any time on a channel that MD_ENCRYPT_READY may
\* overtake.  A command is encrypted just if the phone reads
\* MD_ENCRYPT_READY_DONE before it, unless the phone asks for the keys once more
\* (session.cpp:122, 1238, 1256).
CipherInStep ==
  /\ s.excludes \subseteq ph.window
  /\ ~ph.again => \A i \in DOMAIN out["CMD"] :
       LET m == out["CMD"][i] IN
       m.arg # "none" =>
         (m.enc <=> s.key /\ (ph.encrypts \/ \E j \in 1..i : out["CMD"][j].svc = "MD_ENCRYPT_READY_DONE"))

\* A session ends once it has to: the host asked for it, every channel is gone
\* or closed, the phone has failed its authentication, or VIDEO is silent.
\* Only an acceptor no phone has connected to can keep close() from returning
\* (session.cpp:85, 223, 226, 255, 1415).
Ended == main = "returned" \/ \E c \in Channel : acceptor[c] = "wait"
Doomed == stopper # "idle" \/ closed \/ s.failAt > 0
Silent == s.st = "VideoStarted" /\ s.silent > SilenceLimit
SessionEnds ==
  /\ Doomed ~> Ended
  /\ Silent ~> (~Silent \/ Ended)

\* SPEC.md:57 and README.md:101: a phone that does not answer HU_AUTH_REQUEST
\* within 30 s is let go.
AuthTimesOut == s.st = "AuthRequested" ~> s.st # "AuthRequested"

\* transport.cpp:261: close() joins every thread in the end.
CloseReturns == closer # "none" ~> closer = "none"
=============================================================================
