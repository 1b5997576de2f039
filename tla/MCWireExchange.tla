--------------------------- MODULE MCWireExchange ---------------------------
\* An instance for TLC: either a message (WireExchange), a channel's frames
\* (FrameExchange), the bluetooth link (CarLifeBringup), whose phones wait for an
\* answer before they say more, or say their status or an address right behind
\* another frame, an empty one too, or a request for the car's controls
\* (RequestExchange).
EXTENDS WireExchange, FrameExchange, CarLifeBringup, RequestExchange

Points == {<<>>, <<<<0, 300, 7>>>>, <<<<0, 300, 7>>, <<255, 5, 65535>>>>}
Motions == [action : {0, 261, -2, -2147483647 - 1, 2147483647}, pointers : Points]
Payloads == {<<>>, <<1>>, <<0, 1, 2>>, <<0, 0, 1, 2>>}

Ask(type, payload, answers) ==
  <<<<"say", type, payload>>>> \o [n \in DOMAIN answers |-> <<"hear", answers[n]>>]
Info == Ask(InfoRequest, <<1>>, <<InfoResponse>>)
Target == Ask(TargetRequest, <<>>, <<TargetResponse, RequestIp>>)
TargetAgain == Ask(TargetRequest, <<>>, <<TargetResponse>>)
Address == Ask(ResponseIp, <<7>>, <<>>)
Status == Ask(MdStatus, <<1>>, <<HuStatus>>)
Other == Ask(20, <<1, 2>>, <<>>)

Usual == Info \o Target \o Address \o Status
Together == Ask(MdStatus, <<1>>, <<>>) \o Ask(InfoRequest, <<1>>, <<HuStatus, InfoResponse>>)
Hasty == Info \o Ask(TargetRequest, <<>>, <<>>) \o Ask(MdStatus, <<1>>, <<TargetResponse, RequestIp, HuStatus>>)
Scripts ==
  { Usual, Together \o Target \o Address \o Status, Info \o Info \o Target \o TargetAgain \o Status \o Address,
    Other \o Info \o Other \o Target \o Address \o Other \o Status \o Status \o Other \o Other \o Status,
    Info \o Target \o Ask(ResponseIp, <<>>, <<>>), Info,
    Hasty \o Address, Info \o Target \o Ask(ResponseIp, <<>>, <<>>) \o Address \o Status }

Write(field, text) == [cells |-> <<field, "=">> \o text, field |-> <<field, text>>]
Spell(cells, field, text) == [cells |-> cells, field |-> <<field, text>>]
Junk(cells) == [cells |-> cells, field |-> NoField]
Finger(n, phase) == <<n, ",", "0", ",", "9", ",", phase>>
Both(n, m) == Finger(n, "down") \o <<";">> \o Finger(m, "up")

Parts ==
  [ touch |-> {Write("type", <<"touch">>), Write("x", <<"0">>), Write("x", <<"32768">>), Write("y", <<"32767">>),
               Write("phase", <<"down">>), Write("phase", <<"left">>), Write("z", <<"1">>), Junk(<<"x">>)},
    key |-> {Write("type", <<"key">>), Write("key", <<"home">>), Write("key", <<"a_long_name">>), Write("key", <<>>),
             Spell(<<"key", "=", "home", "%26", "x", "%3D", "0">>, "key", <<"home", "&", "x", "=", "0">>),
             Spell(<<"key", "=", "up", "+", "left">>, "key", <<"up", " ", "left">>), Junk(<<"key", "=", "%">>),
             Junk(<<"a_long_name", "=", "home">>)},
    multitouch |-> {Write("type", <<"multitouch">>), Write("phase", <<"move">>), Write("points", Finger("1", "down")),
                    Spell(<<"points", "=", "1", "%2C", "0", ",", "9", "%2C", "down", "%3B">> \o Finger("2", "up"),
                          "points", Both("1", "2")),
                    Write("points", Both("1", "1")), Write("points", Both("1", "2") \o <<";">> \o Finger("9", "down")),
                    Write("points", Finger("1", "down") \o <<";">>), Write("points", <<"1", ",", "0", ",", "down">>),
                    Write("points", Finger("1", "down") \o <<",", "1">>)},
    knob |-> {Write("type", <<"knob">>), Write("direction", <<"press">>), Write("direction", <<"down", "up">>),
              Write("steps", <<"-127">>), Write("steps", <<"128">>), Write("steps", <<"-128">>), Write("steps", <<"1", "x">>),
              Write("x", <<"0">>)},
    gesture |-> {Write("type", <<"gesture">>), Write("gesture", <<"circle">>), Write("gesture", <<"a_long_name">>),
                 Write("key", <<"home">>), Junk(<<>>), Junk(<<"=", "home">>)},
    proximity |-> {Write("type", <<"proximity">>), Write("state", <<"1">>), Write("state", <<"-1">>), Write("state", <<"2">>),
                  Junk(<<"state", "=", "1", "%00">>), Write("type", <<"voice">>)},
    voice |-> {Write("type", <<"voice">>), Write("type", <<"voices">>), Write("action", <<"prewarm">>), Write("action", <<"up">>), Write("action", <<"hold">>)},
    telephony |-> {Write("type", <<"telephony">>), Write("action", <<"dial">>), Write("action", <<"hold">>),
                   Write("dtmf", <<"1", "#">>), Write("dtmf", <<"1", "x">>), Write("dtmf", <<"1", "1", "9", "0">>),
                   Write("dtmf", <<>>), Write("x", <<"2">>), Write("key", <<"call">>)},
    vehicle |-> {Write("type", <<"vehicle">>), Write("control", <<"lights">>), Write("control", <<"a_long_name">>),
                 Write("value", <<"-32768">>), Write("value", <<"32768">>), Write("value", <<"-32769">>)} ]

Down(n) == [id |-> n, x |-> 0, y |-> 9, phase |-> "Down"]
Calls == {[type |-> "Telephony", x |-> 2, key |-> "call", dtmf |-> <<"1", "#">>],
          [type |-> "Telephony", x |-> 5, key |-> "hold", dtmf |-> <<>>]}
Meanings ==
  [ touch |-> {[type |-> "Touch", x |-> 0, y |-> 32767, phase |-> "Down"]},
    key |-> {[type |-> "Key", name |-> n] : n \in {<<"home">>, <<"home", "&", "x", "=", "0">>, <<"up", " ", "left">>}},
    multitouch |-> {[type |-> "MultiTouch", phase |-> "Move", points |-> ps] :
                      ps \in {<<Down(1)>>, <<Down(1), [Down(2) EXCEPT !.phase = "Up"]>>}},
    knob |-> {[type |-> "Knob", dir |-> "Press", steps |-> -127]},
    gesture |-> {[type |-> "Gesture", name |-> <<"circle">>]},
    proximity |-> {[type |-> "Proximity", x |-> 1]},
    voice |-> {[type |-> "Voice", phase |-> "Move"], [type |-> "Voice", phase |-> "Up"]},
    telephony |-> Calls,
    vehicle |-> {[type |-> "VehicleCtrl", ctrl |-> <<"lights">>, x |-> -32768]} ]
Numbers == {-32769, -32768, -128, -127, -1, 0, 1, 2, 5, 9, 10, 128, 32767, 32768}

WireRest == name = "none" /\ value = <<>> /\ sent = <<>> /\ extra = {} /\ cut = 0 /\ got = NotYet
FrameRest == channel = "none" /\ framed = <<>> /\ stream = <<>> /\ missing = 0 /\ taken = NotTaken
LinkRest ==
  /\ hu = [HuInit("none") EXCEPT !.at = "exit"]
  /\ phone = [at |-> "gone", todo |-> <<>>]
  /\ toHu = <<>> /\ toPhone = <<>>
RequestRest == said = [type |-> "none", parts |-> <<>>] /\ heard = Unread

OneInit ==
  \/ Init /\ FrameRest /\ LinkRest /\ RequestRest
  \/ WireRest /\ FrameInit /\ LinkRest /\ RequestRest
  \/ WireRest /\ FrameRest /\ BringupInit /\ RequestRest
  \/ WireRest /\ FrameRest /\ LinkRest /\ RequestInit

OneNext ==
  \/ name # "none" /\ Next /\ UNCHANGED <<frameVars, bringupVars, requestVars>>
  \/ channel # "none" /\ FrameNext /\ UNCHANGED <<exchangeVars, bringupVars, requestVars>>
  \/ hu.route # "none" /\ BringupNext /\ UNCHANGED <<exchangeVars, frameVars, requestVars>>
  \/ said.type # "none" /\ RequestNext /\ UNCHANGED <<exchangeVars, frameVars, bringupVars>>

OneSpec == OneInit /\ [][OneNext]_<<exchangeVars, frameVars, bringupVars, requestVars>>
=============================================================================
