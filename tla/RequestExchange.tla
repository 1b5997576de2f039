-------------------------- MODULE RequestExchange --------------------------
(***************************************************************************)
(* A page, or somebody with curl, says what the car's controls do, field   *)
(* by field, and the Web service reads the body.  A part is what is        *)
(* written, as cells, and the field it was meant to be: some are spelled   *)
(* in an unusual way, some are wrong, some are no field at all.            *)
(***************************************************************************)
EXTENDS ControlRequest, FiniteSets

CONSTANTS
  Part,                \* by type of event, the parts a body may have
  Meaning,             \* by type of event, the events that these parts can say
  MaxParts,            \* bound: parts of a body
  Unread               \* not read

ASSUME PartsAssumption == MaxParts \in Nat

VARIABLES
  said,                \* the type, and the parts in order
  heard                \* what parse_control_request made of it

requestVars == <<said, heard>>

NoField == <<>>

RequestInit == (\E type \in DOMAIN Part : said = [type |-> type, parts |-> <<>>]) /\ heard = Unread

SayPart ==
  /\ heard = Unread /\ Len(said.parts) < MaxParts
  /\ \E part \in Part[said.type] : said' = [said EXCEPT !.parts = Append(@, part)]
  /\ UNCHANGED heard

BodyOf(parts) == FlattenSeq([k \in DOMAIN parts |-> IF k = 1 THEN parts[k].cells ELSE <<"&">> \o parts[k].cells])

Hear ==
  /\ heard = Unread
  /\ heard' = EventIn(BodyOf(said.parts))
  /\ UNCHANGED said

RequestNext == SayPart \/ Hear

-----------------------------------------------------------------------------
(* What is meant, from the comment at the head of control_request.hpp:     *)
(* the fields an event has, each once, and those that follow from others.  *)

Spelling(choice, v) == <<CHOOSE word \in DOMAIN choice : choice[word] = v>>
Numeral(n) == <<ToString(n)>>

SpeltPoint(p) ==
  Numeral(p.id) \o <<",">> \o Numeral(p.x) \o <<",">> \o Numeral(p.y) \o <<",">> \o Spelling(Phase, p.phase)

FieldsOf(e) ==
  CASE e.type = "Touch" ->
         [type |-> <<"touch">>, x |-> Numeral(e.x), y |-> Numeral(e.y), phase |-> Spelling(Phase, e.phase)]
    [] e.type = "Key" -> [type |-> <<"key">>, key |-> e.name]
    [] e.type = "MultiTouch" ->
         [type |-> <<"multitouch">>, phase |-> Spelling(Phase, e.phase),
          points |-> FlattenSeq([k \in DOMAIN e.points |->
                       IF k = 1 THEN SpeltPoint(e.points[k]) ELSE <<";">> \o SpeltPoint(e.points[k])])]
    [] e.type = "Knob" ->
         [type |-> <<"knob">>, direction |-> Spelling(Direction, e.dir), steps |-> Numeral(e.steps)]
    [] e.type = "Gesture" -> [type |-> <<"gesture">>, gesture |-> e.name]
    [] e.type = "Proximity" -> [type |-> <<"proximity">>, state |-> Numeral(e.x)]
    [] e.type = "Voice" -> [type |-> <<"voice">>, action |-> Spelling(VoicePhase, e.phase)]
    [] e.type = "VehicleCtrl" -> [type |-> <<"vehicle">>, control |-> e.ctrl, value |-> Numeral(e.x)]
    [] e.type = "Telephony" ->
         LET action == <<CHOOSE word \in DOMAIN Telephony : Telephony[word].x = e.x>>
         IN  IF e.dtmf = <<>> THEN [type |-> <<"telephony">>, action |-> action]
             ELSE [type |-> <<"telephony">>, action |-> action, dtmf |-> e.dtmf]

\* Fields that may be left out.
Derived(e) == IF e.type = "Telephony" THEN {<<"x", Numeral(e.x)>>, <<"key", <<e.key>>>>} ELSE {}

Expresses(parts, e) ==
  LET needed == {<<name, FieldsOf(e)[name]>> : name \in DOMAIN FieldsOf(e)}
      given == {parts[k].field : k \in DOMAIN parts}
  IN  /\ Cardinality(given) = Len(parts)
      /\ needed \subseteq given /\ given \subseteq needed \cup Derived(e)

Meant(type, parts) ==
  IF \E e \in Meaning[type] : Expresses(parts, e) THEN CHOOSE e \in Meaning[type] : Expresses(parts, e) ELSE NoEvent

-----------------------------------------------------------------------------
(* Properties.                                                             *)

\* In whatever order and spelling the fields of a request come, the car gets
\* the event that was meant; a field that is missing, said twice, unknown, cut
\* short or out of its range makes no other event, only a refusal
\* (control_request.hpp:30-44).
RequestsUnderstood == heard # Unread => heard = Meant(said.type, said.parts)
=============================================================================
