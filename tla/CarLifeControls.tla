--------------------------- MODULE CarLifeControls ---------------------------
(***************************************************************************)
(* Controls of the car on their way to a CarLife phone: on_control of      *)
(* CarLifeInputAdapter turns an event of the Core into the controls the    *)
(* protocol has, one or a batch, and a ring of fixed capacity keeps them   *)
(* until the session takes them one by one.                                *)
(*                                                                         *)
(* An event carries what decides its fate.  A text field is a name, "torn" *)
(* when its end is missing; DTMF digits are a sequence.  Coordinates that  *)
(* are not negative are left out.                                          *)
(***************************************************************************)
EXTENDS Integers, SequencesExt

CONSTANTS
  Capacity,            \* kControlCapacity
  MaxKnobRepeat,       \* kMaxKnobRepeat
  MaxDtmfDigits,       \* kMaxDtmfDigits
  MaxPoints,           \* HostControl::kMaxPoints
  NoControl            \* an empty place of the ring

\* static_assert: a knob's burst fits the ring (carlife_input.h:250).
ASSUME ControlsAssumption ==
  /\ Capacity \in Nat \ {0} /\ MaxPoints \in Nat \ {0}
  /\ MaxKnobRepeat \in 1..Capacity
  /\ MaxDtmfDigits \in 1..(Capacity - 1)

-----------------------------------------------------------------------------
(* From an event to its controls: a record of how they enter the ring.     *)

\* carlife_keycode_for, without the synonyms: names with a key of their own
\* name, and those called otherwise.
OwnName ==
  { "move_up_left", "move_up_right", "move_down_left", "move_down_right", "ok", "back", "home",
    "main", "mute", "media_start", "media_stop", "selector_next", "seek_add", "seek_sub",
    "setting", "media", "nav", "radio", "src", "mode", "tel", "hfp", "vr_stop" }
OtherName ==
  [ up |-> "move_up", down |-> "move_down", left |-> "move_left", right |-> "move_right",
    enter |-> "ok", escape |-> "back", menu |-> "main", volume_up |-> "volume_add",
    volume_down |-> "volume_sub", play |-> "media_start", pause |-> "media_stop",
    next |-> "selector_next", prev |-> "selector_previous", answer |-> "phone_call",
    hangup |-> "phone_end", end_mute |-> "phone_end_mute", voice |-> "vr_start",
    star |-> "number_star", pound |-> "number_pound", del |-> "number_del",
    clear |-> "number_clear", plus |-> "number_add" ]
Digit == [d \in {"0", "1", "2", "9"} |-> "number_" \o d] @@ [x \in {"*"} |-> "number_star"]
           @@ [x \in {"#"} |-> "number_pound"]
Keycode(name) ==
  IF name \in OwnName THEN name
  ELSE IF name \in DOMAIN OtherName THEN OtherName[name]
  ELSE IF name \in DOMAIN Digit THEN Digit[name]
  ELSE "none"

Drop == [into |-> "nowhere", items |-> <<>>]
Push(type, phase, data) == [into |-> "push", items |-> <<[type |-> type, phase |-> phase, data |-> data]>>]
Batch(keys) ==
  [into |-> "batch", items |-> [n \in DOMAIN keys |-> [type |-> "Key", phase |-> "Up", data |-> keys[n]]]]

\* A key keeps the phase HostControl has by default; one that is not known is dropped.
PushKey(key) == IF key = "none" THEN Drop ELSE Push("Key", "Up", key)

TouchControl(e) == IF e.negative THEN Drop ELSE Push("Touch", e.phase, "point")
KeyControl(e) == IF e.name = "torn" THEN Drop ELSE PushKey(Keycode(e.name))
MultiTouchControl(e) ==
  IF e.points = 0 THEN Drop
  ELSE Push("MultiTouch", e.phase, IF e.points > MaxPoints THEN MaxPoints ELSE e.points)
VoiceControl(e) == PushKey(IF e.phase = "Up" THEN "vr_stop" ELSE "vr_start")

\* As many keys as steps, or none.
KnobControls(e) ==
  LET key == [Left |-> "move_left", Right |-> "move_right", Up |-> "move_up",
              Down |-> "move_down", Press |-> "ok"][e.dir]
      repeats == IF e.dir = "Press" THEN 1 ELSE IF e.steps < 0 THEN -e.steps ELSE e.steps
  IN  IF repeats \in 1..MaxKnobRepeat THEN Batch([n \in 1..repeats |-> key]) ELSE Drop

\* The whole number, with the call key after it when it is dialled, or nothing.
TelephonyControls(e) ==
  IF e.dtmf = <<"torn">> \/ Len(e.dtmf) > MaxDtmfDigits THEN Drop
  ELSE IF e.dtmf = <<>> THEN KeyControl(e)
  ELSE IF \E n \in DOMAIN e.dtmf : e.dtmf[n] \notin DOMAIN Digit THEN Drop
  ELSE Batch([n \in DOMAIN e.dtmf |-> Digit[e.dtmf[n]]] \o IF e.dial THEN <<"phone_call">> ELSE <<>>)

OnControl(e) ==
  CASE e.type = "Touch" -> TouchControl(e)           [] e.type = "Key" -> KeyControl(e)
    [] e.type = "MultiTouch" -> MultiTouchControl(e) [] e.type = "Knob" -> KnobControls(e)
    [] e.type = "Voice" -> VoiceControl(e)           [] e.type = "Telephony" -> TelephonyControls(e)
    [] e.type \in {"Gesture", "Proximity", "VehicleCtrl"} -> Drop

-----------------------------------------------------------------------------
(* The ring.                                                               *)

EmptyRing == [at |-> [i \in 0..(Capacity - 1) |-> NoControl], begin |-> 0, count |-> 0]
Slot(r, n) == (r.begin + n) % Capacity

\* What the session will take, in order.
Queued(r) == [n \in 1..r.count |-> r.at[Slot(r, n - 1)]]

\* What is left in a place that is not in use is never read.
Clear(r) == EmptyRing
Put(r, c) == [r EXCEPT !.at[Slot(r, r.count)] = c, !.count = @ + 1]

\* Bug: only the first move of a drag is kept.
MergesAny(r, c) == r.count > 0 /\ c.phase = "Move"

\* push_control_locked: a move takes the place of a last move of one finger.
Merges(r, c) ==
  /\ r.count > 0 /\ c.phase = "Move"
  /\ LET last == r.at[Slot(r, r.count - 1)] IN last.type = "Touch" /\ last.phase = "Move"

PushControl(r, c) ==
  IF Merges(r, c) THEN [r EXCEPT !.at[Slot(r, r.count - 1)] = c]
  ELSE IF r.count < Capacity THEN Put(r, c)
  ELSE IF c.phase = "Move" THEN r
  ELSE Put(Clear(r), c)

\* enqueue_batch_locked: all of it or nothing.
EnqueueBatch(r, items) ==
  IF r.count + Len(items) > Capacity THEN r ELSE FoldLeft(Put, r, items)

Enter(r, result) ==
  CASE result.into = "push" -> PushControl(r, result.items[1])
    [] result.into = "batch" -> EnqueueBatch(r, result.items)
    [] OTHER -> r

\* take_control_locked.
TakeFrom(r) == [r EXCEPT !.at[r.begin] = NoControl, !.begin = (@ + 1) % Capacity, !.count = @ - 1]
=============================================================================
