--------------------------- MODULE MCCarLifeInput ---------------------------
\* An instance of CarLifeInput for TLC: one kind of traffic at a time.
EXTENDS CarLifeInput

Frame(config) == [on |-> "Video", config |-> config]
AudioInit(i, rate) == [on |-> "AudioInit", stream |-> i, rate |-> rate]
Pcm(i, whole) == [on |-> "AudioPcm", stream |-> i, whole |-> whole]
AudioEnd(i) == [on |-> "AudioEnd", stream |-> i]
Video == {Frame(config) : config \in Config \cup {None}}
Sound == {AudioInit(TTS, "valid"), AudioInit(TTS, "coded"), AudioInit(MEDIA, "valid"), AudioInit(VR, "wild"),
          Pcm(MEDIA, TRUE), Pcm(MEDIA, FALSE), AudioEnd(TTS), AudioEnd(MEDIA)}
LinkInfo ==
  {[on |-> "Activation", yes |-> TRUE], [on |-> "Activation", yes |-> FALSE]}
    \cup {[on |-> "Encryption", state |-> st] : st \in {"Off", "Advertised", "Ready"}}
    \cup {[on |-> "File", svc |-> svc] : svc \in {"START", "DATA", "FINISH", "STOP", "UPDATE_START", "UPDATE_END"}}
RouteInfo ==
  { [on |-> "NextTurn", code |-> 1, ahead |-> 2, remaining |-> 0, seconds |-> 1],
    [on |-> "NextTurn", code |-> 2, ahead |-> 0, remaining |-> 1, seconds |-> 0],
    [on |-> "Guide", ahead |-> 1, remaining |-> 0],
    [on |-> "Telephony", state |-> 1, number |-> None, name |-> "caller"],
    [on |-> "VideoControl", rate |-> 1], [on |-> "VideoControl", rate |-> -1] }

Touch(phase, negative) == [type |-> "Touch", phase |-> phase, negative |-> negative]
Dtmf(digits, dial) == [type |-> "Telephony", dtmf |-> digits, dial |-> dial, name |-> "hangup"]
Knob(dir, steps) == [type |-> "Knob", dir |-> dir, steps |-> steps]
Driving == { Touch("Move", FALSE), Touch("Up", FALSE), Knob("Left", -2) }
Buttons ==
  { Touch("Down", TRUE), Knob("Press", 3), [type |-> "Key", name |-> "home"], [type |-> "Voice", phase |-> "Up"],
    Dtmf(<<"1", "#">>, TRUE), [type |-> "MultiTouch", phase |-> "Move", points |-> 12] }
Others ==
  { [type |-> "Key", name |-> "torn"], [type |-> "Key", name |-> "play"], [type |-> "Voice", phase |-> "Down"],
    [type |-> "Gesture"], Knob("Up", 9), Dtmf(<<"*", "9">>, FALSE), [type |-> "ModuleControl", valid |-> TRUE] }
Refused ==
  { Knob("Right", 0), Dtmf(<<"x">>, FALSE), Dtmf(<<>>, FALSE), Dtmf(<<"torn">>, FALSE),
    [type |-> "MultiTouch", phase |-> "Down", points |-> 0], [type |-> "ModuleControl", valid |-> FALSE],
    [type |-> "Foreground", valid |-> TRUE] }

Around(says, events, bt, stop, leaves) ==
  [says |-> says, events |-> events, bt |-> bt, stop |-> stop, leaves |-> leaves]
Plans == { Around(Video, {}, FALSE, TRUE, TRUE), Around(Sound, {}, TRUE, TRUE, TRUE),
           Around(LinkInfo, {}, FALSE, TRUE, TRUE), Around(RouteInfo, {}, FALSE, TRUE, TRUE),
           Around({}, Driving, FALSE, TRUE, TRUE), Around({}, Buttons, FALSE, FALSE, TRUE),
           Around({}, Others, FALSE, FALSE, TRUE), Around({}, Refused, FALSE, FALSE, TRUE) }
StopPlans == {Around({}, {}, FALSE, TRUE, FALSE)}
BatchPlans == {Around({}, Buttons, FALSE, FALSE, FALSE)}
=============================================================================
