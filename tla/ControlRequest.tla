--------------------------- MODULE ControlRequest ---------------------------
(***************************************************************************)
(* What the body of /api/control means: parse_control_request.  A body is  *)
(* a sequence of cells: the separators & = ; and , the escapes of          *)
(* separators, and words, numerals or digits, each one cell.  "+" is a     *)
(* space, "%" an escape that is cut short or no escape at all.             *)
(***************************************************************************)
EXTENDS Integers, SequencesExt

CONSTANTS
  MaxBody,             \* kMaxBodyBytes, in cells
  MaxFields,           \* kMaxFields
  MaxTouches,          \* kMaxMultiTouch
  MaxDigits,           \* kMaxDtmfDigits
  TooLong,             \* words that do not fit their field
  Numerals,            \* numbers that bodies hold, as cells ToString(n)
  NoEvent              \* no event

ASSUME RequestAssumption ==
  /\ MaxBody \in Nat /\ MaxFields \in Nat /\ MaxTouches \in Nat /\ MaxDigits \in Nat
  /\ Numerals \subseteq Int

-----------------------------------------------------------------------------
(* The form.                                                               *)

Pieces(text, separator) ==
  LET ends == SetToSortSeq({n \in DOMAIN text : text[n] = separator} \cup {Len(text) + 1}, <)
  IN  [k \in DOMAIN ends |-> SubSeq(text, IF k = 1 THEN 1 ELSE ends[k - 1] + 1, ends[k] - 1)]

Escape ==
  [c \in {"%26"} |-> "&"] @@ [c \in {"%3D"} |-> "="] @@ [c \in {"%3B"} |-> ";"]
    @@ [c \in {"%2C"} |-> ","] @@ [c \in {"+"} |-> " "]
Torn(text) == \E n \in DOMAIN text : text[n] \in {"%", "%00"}
Plain(text) == [n \in DOMAIN text |-> IF text[n] \in DOMAIN Escape THEN Escape[text[n]] ELSE text[n]]

HasEquals(segment) == \E n \in DOMAIN segment : segment[n] = "="
NameOf(segment) == Pieces(segment, "=")[1]
ValueOf(segment) == SubSeq(segment, Len(NameOf(segment)) + 2, Len(segment))

\* Bug: a body is decoded first and cut into fields after.
SegmentsDecoded(body) == Pieces(Plain(body), "&")

Segments(body) == Pieces(body, "&")

GoodSegment(segment) ==
  /\ HasEquals(segment)
  /\ ~Torn(segment) /\ NameOf(segment) # <<>>
  /\ \A n \in DOMAIN NameOf(segment) : segment[n] \notin TooLong

\* The fields by name, or nothing when a part of the body is no field.
FormOf(body) ==
  LET segments == Segments(body)
      Name(k) == Plain(NameOf(segments[k]))
      All == DOMAIN segments
  IN  IF /\ Len(body) \in 1..MaxBody /\ Len(segments) <= MaxFields
         /\ \A k \in All : GoodSegment(segments[k])
         /\ \A j, k \in All : Name(j) = Name(k) => j = k
      THEN [name \in {Name(k) : k \in All} |->
              Plain(ValueOf(segments[CHOOSE k \in All : Name(k) = name]))]
      ELSE [name \in {} |-> <<>>]

-----------------------------------------------------------------------------
(* The fields.                                                             *)

Has(form, names) == DOMAIN form = {<<n>> : n \in names \cup {"type"}}
Field(form, name) == form[<<name>>]

\* parse_int and int_in_range: a numeral and nothing else.
InRange(text, low, high) == \E n \in Numerals : n \in low..high /\ text = <<ToString(n)>>
IntOf(text) == CHOOSE n \in Numerals : text = <<ToString(n)>>

Among(text, choice) == Len(text) = 1 /\ text[1] \in DOMAIN choice
Fits(text) == text # <<>> /\ \A n \in DOMAIN text : text[n] \notin TooLong

Phase == [down |-> "Down", move |-> "Move", up |-> "Up"]
Direction == [left |-> "Left", right |-> "Right", up |-> "Up", down |-> "Down", press |-> "Press"]
VoicePhase == [down |-> "Down", up |-> "Up", prewarm |-> "Move"]

\* kTelephonyForms.
Telephony ==
  LET T(x, key, digits) == [x |-> x, key |-> key, digits |-> digits]
  IN  [accept |-> T(0, "call", FALSE), hangup |-> T(1, "hangup", FALSE), dial |-> T(2, "call", TRUE),
       dtmf |-> T(3, "dtmf", TRUE), mute |-> T(4, "mute", FALSE), hold |-> T(5, "hold", FALSE)]
Digits == {"0", "1", "9", "*", "#"}

Coordinate(text) == InRange(text, 0, 32767)

\* A point of a touch with more fingers: id,x,y,phase.
GoodPoint(item) ==
  LET token == Pieces(item, ",")
  IN  /\ Len(token) = 4
      /\ InRange(token[1], 0, 9) /\ Coordinate(token[2]) /\ Coordinate(token[3]) /\ Among(token[4], Phase)
PointOf(item) ==
  LET token == Pieces(item, ",")
  IN  [id |-> IntOf(token[1]), x |-> IntOf(token[2]), y |-> IntOf(token[3]), phase |-> Phase[token[4][1]]]
GoodPoints(text) ==
  LET item == Pieces(text, ";")
  IN  /\ Len(item) <= MaxTouches
      /\ \A k \in DOMAIN item : GoodPoint(item[k])
      /\ \A j, k \in DOMAIN item : PointOf(item[j]).id = PointOf(item[k]).id => j = k

-----------------------------------------------------------------------------
(* The event, by type.                                                     *)

TouchIn(f) ==
  IF /\ Has(f, {"x", "y", "phase"}) /\ Coordinate(Field(f, "x")) /\ Coordinate(Field(f, "y"))
     /\ Among(Field(f, "phase"), Phase)
  THEN [type |-> "Touch", x |-> IntOf(Field(f, "x")), y |-> IntOf(Field(f, "y")),
        phase |-> Phase[Field(f, "phase")[1]]]
  ELSE NoEvent

MultiTouchIn(f) ==
  IF Has(f, {"phase", "points"}) /\ Among(Field(f, "phase"), Phase) /\ GoodPoints(Field(f, "points"))
  THEN LET item == Pieces(Field(f, "points"), ";")
       IN  [type |-> "MultiTouch", phase |-> Phase[Field(f, "phase")[1]],
            points |-> [k \in DOMAIN item |-> PointOf(item[k])]]
  ELSE NoEvent

\* Key and gesture: a name that fits.
NameIn(f, name, type) ==
  IF Has(f, {name}) /\ Fits(Field(f, name)) THEN [type |-> type, name |-> Field(f, name)] ELSE NoEvent

KnobIn(f) ==
  IF Has(f, {"direction", "steps"}) /\ Among(Field(f, "direction"), Direction)
       /\ InRange(Field(f, "steps"), -127, 127)
  THEN [type |-> "Knob", dir |-> Direction[Field(f, "direction")[1]], steps |-> IntOf(Field(f, "steps"))]
  ELSE NoEvent

ProximityIn(f) ==
  IF Has(f, {"state"}) /\ InRange(Field(f, "state"), 0, 1)
  THEN [type |-> "Proximity", x |-> IntOf(Field(f, "state"))] ELSE NoEvent

VoiceIn(f) ==
  IF Has(f, {"action"}) /\ Among(Field(f, "action"), VoicePhase)
  THEN [type |-> "Voice", phase |-> VoicePhase[Field(f, "action")[1]]] ELSE NoEvent

\* x and key follow from the action; a body that names them must agree.
TelephonyIn(f) ==
  LET Given(name) == <<name>> \in DOMAIN f
      t == Telephony[Field(f, "action")[1]]
      digits == IF Given("dtmf") THEN Field(f, "dtmf") ELSE <<>>
  IN  IF /\ Given("action") /\ DOMAIN f \subseteq {<<n>> : n \in {"type", "action", "dtmf", "x", "key"}}
         /\ Among(Field(f, "action"), Telephony) /\ Given("dtmf") = t.digits
         /\ Given("dtmf") => Len(digits) \in 1..MaxDigits /\ \A n \in DOMAIN digits : digits[n] \in Digits
         /\ Given("x") => InRange(Field(f, "x"), t.x, t.x)
         /\ Given("key") => Field(f, "key") = <<t.key>>
      THEN [type |-> "Telephony", x |-> t.x, key |-> t.key, dtmf |-> digits]
      ELSE NoEvent

VehicleIn(f) ==
  IF Has(f, {"control", "value"}) /\ Fits(Field(f, "control")) /\ InRange(Field(f, "value"), -32768, 32767)
  THEN [type |-> "VehicleCtrl", ctrl |-> Field(f, "control"), x |-> IntOf(Field(f, "value"))]
  ELSE NoEvent

\* parse_control_request.
EventIn(body) ==
  LET f == FormOf(body)
      type == IF <<"type">> \in DOMAIN f THEN Field(f, "type") ELSE <<>>
  IN  CASE type = <<"touch">> -> TouchIn(f)           [] type = <<"key">> -> NameIn(f, "key", "Key")
        [] type = <<"multitouch">> -> MultiTouchIn(f) [] type = <<"knob">> -> KnobIn(f)
        [] type = <<"gesture">> -> NameIn(f, "gesture", "Gesture")
        [] type = <<"proximity">> -> ProximityIn(f)   [] type = <<"voice">> -> VoiceIn(f)
        [] type = <<"telephony">> -> TelephonyIn(f)   [] type = <<"vehicle">> -> VehicleIn(f)
        [] OTHER -> NoEvent
=============================================================================
