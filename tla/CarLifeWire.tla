---------------------------- MODULE CarLifeWire -----------------------------
(***************************************************************************)
(* The messages of CarLife on the wire (wire.cpp): the protobuf writer and *)
(* the tolerant reader, and the field tables of all messages but the one   *)
(* of a fixed layout.  A message is written, may meet what another version *)
(* of the other end adds to it or be cut, and is read.                     *)
(*                                                                         *)
(* Bytes are bytes.  A value is a pair of what the reader takes it for and *)
(* what it is; that of a float is its bytes.  Left out: numbers of more    *)
(* than 28 bits, hence negative ones but for the zigzag encoding.          *)
(***************************************************************************)
EXTENDS CarLifeFrames

CONSTANTS
  Unset,               \* a field that is not there: the default of its member
  MaxExtra             \* bound: fields another version adds or types otherwise

ASSUME WireAssumption ==
  Unset # Bad /\ MaxExtra \in Nat

-----------------------------------------------------------------------------
(* Field tables: the kind of every field from 1 on.  A kind that names a   *)
(* message is a repeated one.  "count" and "zero" are written and not read.*)

HandshakeFields ==
  [ ProtocolVersion |-> <<"int", "int">>, ProtocolVersionMatchStatus |-> <<"int", "int">>,
    AuthenRequest |-> <<"string">>, AuthenResponse |-> <<"string">>,
    AuthenResult |-> <<"bool">>, VideoEncoderInfo |-> <<"int", "int", "int">>,
    VideoFrameRate |-> <<"int">> ]
DeviceFields ==
  [ DeviceInfo |-> [i \in 1..24 |-> IF i = 21 THEN "int" ELSE "string"],
    StatisticsInfo |-> <<"string", "string", "int", "string", "int", "int", "int">> ]
ConfigFields ==
  [ FeatureConfigList |-> <<"count", "FeatureConfig", "bool", "string", "string">>,
    FeatureConfig |-> <<"string", "int">>,
    TouchSinglePoint |-> <<"int", "int", "int", "int">>, CarHardKeyCode |-> <<"int">>,
    MediaProgressBar |-> <<"int">>, ModuleStatusList |-> <<"count", "ModuleStatus">>,
    ModuleStatus |-> <<"int", "int">>, AudioInit |-> <<"int", "int", "int">> ]
MediaFields ==
  [ MediaInfo |-> <<"string", "string", "string", "string", "string",
                    "int", "int", "string", "int">>,
    NaviNextTurnInfo |-> <<"int", "int", "string", "int", "int", "iconOrTime">>,
    NaviAssistantGuideInfo |-> <<"int", "int", "int", "int", "int", "int">> ]
BookFields ==
  [ ContactsList |-> <<"int", "Contact">>, Contact |-> <<"int", "string", "string">>,
    CallRecordsList |-> <<"int", "CallRecord">>,
    CallRecord |-> <<"int", "string", "string", "string", "string", "int">> ]
HfpFields ==
  [ BTHfpRequest |-> <<"int", "string", "int">>, BTHfpResponse |-> <<"int", "int", "int">>,
    BTHfpIndication |-> <<"int", "string", "string", "string">>,
    BTHfpConnection |-> <<"int", "string", "string">>, BTHfpStatusRequest |-> <<"int">>,
    BTHfpStatusResponse |-> <<"int", "int">>,
    BTHfpCallStatusCover |-> <<"int", "string", "string">> ]
BoxFields ==
  [ ActiveRequest |-> <<"string", "int", "int">>, ActiveResponse |-> <<"string", "string">>,
    HuRsaPublicKeyResponse |-> <<"string">>, MdAesKeyRequest |-> <<"string">>,
    FileTransferBegin |-> <<"int", "int">> ]
VehicleControlFields ==
  [ VehicleControl |-> <<"int", "int", "bool", "string", "int", "ints", "int", "string",
                         "sints", "sints", "floats", "string">> ]
TouchFields ==
  [ TouchEvent |-> <<"int", "int", "int">>,
    TouchEventDevice |-> [i \in 1..12 |-> IF i < 9 THEN "int"
                                          ELSE IF i = 9 THEN "string" ELSE "TouchEvent"],
    TouchEventAllDevice |-> <<"int", "int", "TouchEventDevice">> ]
TouchPadFields ==
  [ TouchPadMove |-> <<"int", "int", "int">>, TouchPadPinch |-> <<"float">>,
    TouchPadSimple |-> <<"int">>, TouchScroll |-> <<"int", "int", "int", "int", "float", "float">>,
    TouchFling |-> <<"int", "int", "int", "int", "float", "float">> ]
PairFields ==
  [ VoiceControlRequest |-> <<"int", "int">>, BTStartPairReq |-> <<"int", "string">>,
    BTIdentifyResultInd |-> <<"int", "string">>,
    BTPairInfo |-> <<"string", "string", "string", "string", "string", "string", "int">>,
    ConnectTimeSync |-> <<"int">>, BTAudioInfo |-> <<"int">> ]
CarDataFields ==
  [ CarSpeed |-> <<"int", "int">>, GearInfo |-> <<"int">>, Oil |-> <<"int", "int", "bool">>,
    Gyroscope |-> <<"int", "double", "double", "double", "int">>,
    Acceleration |-> <<"double", "double", "double", "int">>,
    CarGps |-> [i \in 1..25 |-> IF i \in 8..13 \cup 15..17 \cup {20, 21} THEN "zero" ELSE "int"] ]

Fields ==
  HandshakeFields @@ DeviceFields @@ ConfigFields @@ MediaFields @@ BookFields @@ HfpFields
    @@ BoxFields @@ VehicleControlFields @@ TouchFields @@ TouchPadFields @@ PairFields
    @@ CarDataFields

\* Fields encode() writes whether they are empty or not; those of a message that
\* only the phone writes may all be missing.
Always ==
  [ ProtocolVersion |-> {1, 2}, AuthenRequest |-> {1}, AuthenResponse |-> {1},
    AuthenResult |-> {1}, VideoEncoderInfo |-> {1, 2, 3}, VideoFrameRate |-> {1},
    DeviceInfo |-> {21}, StatisticsInfo |-> 1..7, FeatureConfigList |-> {1, 3},
    FeatureConfig |-> {1, 2}, TouchSinglePoint |-> 1..4, CarHardKeyCode |-> {1},
    BTHfpResponse |-> {1, 2}, BTHfpIndication |-> {1}, BTHfpConnection |-> {1},
    BTHfpStatusResponse |-> {1, 2}, ActiveResponse |-> {1}, HuRsaPublicKeyResponse |-> {1},
    BTStartPairReq |-> {1}, BTPairInfo |-> {1, 5, 6, 7}, BTAudioInfo |-> {1}, CarSpeed |-> {1},
    GearInfo |-> {1}, Oil |-> {1, 2, 3}, Gyroscope |-> 1..4, Acceleration |-> 1..3,
    CarGps |-> 1..24, Contact |-> 1..3 ]
Written(m) == IF m \in DOMAIN Always THEN Always[m] ELSE {}

\* A message without its required field is refused.
Required == [MediaProgressBar |-> 1, MediaInfo |-> 2, NaviNextTurnInfo |-> 1]

-----------------------------------------------------------------------------
(* Writer.                                                                 *)

RECURSIVE Varint(_)
Varint(v) == IF v < 128 THEN <<v>> ELSE <<128 + (v % 128)>> \o Varint(v \div 128)

Zigzag(v) == IF v < 0 THEN -2 * v - 1 ELSE 2 * v

\* The kinds of wire.
WireOf == [ int |-> 0, bool |-> 0, zero |-> 0, count |-> 0, ints |-> 0, sints |-> 0, time |-> 0,
            double |-> 1, string |-> 2, icon |-> 2, float |-> 5, floats |-> 5 ]
WireType(kind) == IF kind \in DOMAIN WireOf THEN WireOf[kind] ELSE 2

Tag(field, wire) == Varint(field * 8 + wire)
FieldBytes(field, bytes) == Tag(field, 2) \o Varint(Len(bytes)) \o bytes

RECURSIVE Chunks(_, _), FieldChunks(_, _)

\* One field: a string of bytes for each tag.
FieldChunks(i, val) ==
  LET kind == val[1] IN
  CASE kind \in {"int", "bool", "zero", "count", "time"} -> <<Tag(i, 0) \o Varint(val[2])>>
    [] kind = "double" -> <<Tag(i, 1) \o val[2]>>
    [] kind = "float"  -> <<Tag(i, 5) \o val[2]>>
    [] kind \in {"string", "icon"} -> <<FieldBytes(i, val[2])>>
    [] kind = "ints"   -> [n \in DOMAIN val[2] |-> Tag(i, 0) \o Varint(val[2][n])]
    [] kind = "sints"  -> [n \in DOMAIN val[2] |-> Tag(i, 0) \o Varint(Zigzag(val[2][n]))]
    [] kind = "floats" -> [n \in DOMAIN val[2] |-> Tag(i, 5) \o val[2][n]]
    [] OTHER -> [n \in DOMAIN val[2] |-> FieldBytes(i, FlattenSeq(Chunks(kind, val[2][n])))]

\* encode(), or the phone's.
Chunks(m, value) ==
  FlattenSeq([i \in DOMAIN value |->
    IF value[i] # Unset THEN FieldChunks(i, value[i])
    ELSE IF Fields[m][i] \in {"zero", "count"} THEN FieldChunks(i, <<Fields[m][i], 0>>)
    ELSE <<>>])

\* A phone may pack repeated numbers.
Packed(i, val) ==
  CASE val[1] = "ints"   -> FieldBytes(i, FlattenSeq([n \in DOMAIN val[2] |-> Varint(val[2][n])]))
    [] val[1] = "sints"  -> FieldBytes(i, FlattenSeq([n \in DOMAIN val[2] |-> Varint(Zigzag(val[2][n]))]))
    [] val[1] = "floats" -> FieldBytes(i, FlattenSeq(val[2]))

-----------------------------------------------------------------------------
(* Reader.  What it reads is followed by the rest of the bytes.            *)

Read(v, rest) == [ok |-> TRUE, v |-> v, rest |-> rest]
NotRead == [ok |-> FALSE]

\* readVarint: at most ten bytes.
ReadVarint(b) ==
  LET Ends(n) == n <= Len(b) /\ b[n] < 128 /\ \A i \in 1..(n - 1) : b[i] >= 128
      n == CHOOSE k \in 1..10 : Ends(k) IN
  IF ~\E k \in 1..10 : Ends(k) THEN NotRead
  ELSE Read(FoldRight(LAMBDA x, sum : (x % 128) + 128 * sum, SubSeq(b, 1, n), 0), Beyond(b, n))

ReadBytes(b, n) == IF Len(b) < n THEN NotRead ELSE Read(SubSeq(b, 1, n), Beyond(b, n))
ReadLengthDelimited(b) ==
  LET len == ReadVarint(b) IN IF len.ok THEN ReadBytes(len.rest, len.v) ELSE NotRead

\* Bug: bytes are skipped with a length of one byte only.
SkipShort(b, wire) ==
  CASE wire = 0 -> ReadVarint(b) [] wire = 1 -> ReadBytes(b, 8) [] wire = 5 -> ReadBytes(b, 8)
    [] wire = 2 -> ReadLengthDelimited(b) [] OTHER -> NotRead

Skip(b, wire) ==
  CASE wire = 0 -> ReadVarint(b) [] wire = 1 -> ReadBytes(b, 8) [] wire = 5 -> ReadBytes(b, 4)
    [] wire = 2 -> ReadLengthDelimited(b) [] OTHER -> NotRead

UnZigzag(raw) == IF raw % 2 = 0 THEN raw \div 2 ELSE -(raw \div 2) - 1
Number(kind, raw) == IF kind = "sints" THEN UnZigzag(raw) ELSE raw

RECURSIVE Unpack(_), DecodeFrom(_, _, _)

\* The numbers of a packed field.
Unpack(b) ==
  IF b = <<>> THEN Read(<<>>, <<>>)
  ELSE LET x == ReadVarint(b) IN
       IF ~x.ok THEN NotRead
       ELSE LET more == Unpack(x.rest)
            IN  IF more.ok THEN Read(<<x.v>> \o more.v, <<>>) ELSE NotRead

\* RepeatedReader::each takes a number of eight or four bytes for a zero, and
\* leaves its bytes where they are.
ReadRepeated(kind, wire, b) ==
  LET numbers == CASE wire = 0 -> LET x == ReadVarint(b)
                                  IN  IF x.ok THEN Read(<<x.v>>, x.rest) ELSE NotRead
                   [] wire \in {1, 5} -> Read(<<0>>, b)
                   [] wire = 2 -> LET x == ReadLengthDelimited(b)
                                      all == Unpack(x.v)
                                  IN  IF x.ok /\ all.ok THEN Read(all.v, x.rest) ELSE NotRead
                   [] OTHER -> NotRead
  IN  IF numbers.ok
      THEN Read(<<kind, [n \in DOMAIN numbers.v |-> Number(kind, numbers.v[n])]>>, numbers.rest)
      ELSE NotRead

ReadFloats(wire, b) ==
  LET bytes == IF wire = 5 THEN ReadBytes(b, 4) ELSE ReadLengthDelimited(b)
  IN  IF bytes.ok
      THEN Read(<<"floats", [n \in 1..(Len(bytes.v) \div 4) |-> SubSeq(bytes.v, 4 * n - 3, 4 * n)]>>,
                bytes.rest)
      ELSE NotRead

\* A field of a kind and a wire type that the message knows.
Knows(kind, wire) ==
  CASE kind \in {"zero", "count"} -> FALSE
    [] kind = "iconOrTime" -> wire \in {0, 2}
    [] kind \in {"ints", "sints"} -> TRUE
    [] kind = "floats" -> wire \in {2, 5}
    [] OTHER -> wire = WireType(kind)

ReadKnown(kind, wire, b) ==
  LET raw == IF wire = 0 THEN ReadVarint(b)
             ELSE IF wire = 2 THEN ReadLengthDelimited(b)
             ELSE ReadBytes(b, IF wire = 1 THEN 8 ELSE 4)
      name == IF kind = "iconOrTime" THEN (IF wire = 0 THEN "time" ELSE "icon") ELSE kind IN
  CASE kind \in {"ints", "sints"} -> ReadRepeated(kind, wire, b)
    [] kind = "floats" -> ReadFloats(wire, b)
    [] ~raw.ok -> NotRead
    [] kind \in DOMAIN Fields -> LET sub == DecodeFrom(kind, raw.v, [i \in DOMAIN Fields[kind] |-> Unset])
                                 IN  IF sub = Bad THEN NotRead ELSE Read(<<kind, <<sub>>>>, raw.rest)
    [] OTHER -> Read(<<name, raw.v>>, raw.rest)

\* The last of a single field counts, a repeated one grows.
Store(got, field, val) ==
  LET more == val[1] \in {"ints", "sints", "floats"} \cup DOMAIN Fields
  IN  [got EXCEPT ![field] = IF more /\ @ # Unset THEN <<val[1], @[2] \o val[2]>> ELSE val]

\* The loop of decode: it ends where there is no tag, or a field 0.
DecodeFrom(m, b, got) ==
  LET tag == ReadVarint(b) IN
  IF ~tag.ok \/ tag.v < 8 THEN got
  ELSE LET field == tag.v \div 8
           wire == tag.v % 8
           known == field \in DOMAIN Fields[m] /\ Knows(Fields[m][field], wire)
           x == IF known THEN ReadKnown(Fields[m][field], wire, tag.rest) ELSE Skip(tag.rest, wire) IN
       IF ~x.ok THEN Bad
       ELSE DecodeFrom(m, x.rest, IF known THEN Store(got, field, x.v) ELSE got)

Decode(m, b) ==
  LET got == DecodeFrom(m, b, [i \in DOMAIN Fields[m] |-> Unset])
  IN  IF got # Bad /\ m \in DOMAIN Required /\ got[Required[m]] = Unset THEN Bad ELSE got
=============================================================================
