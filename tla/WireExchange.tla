---------------------------- MODULE WireExchange ----------------------------
(***************************************************************************)
(* One message of CarLife on its way between two versions: it is written,  *)
(* the writer may know fields the reader does not, or give a field another *)
(* type, the end may be missing, and it is read.                           *)
(***************************************************************************)
EXTENDS CarLifeWire, FiniteSets

CONSTANTS
  NotYet,              \* not read
  Shape                \* which fields of a message are set: "all", "odd", "even", "none"

ASSUME ExchangeAssumption == NotYet \notin {Unset, Bad}

VARIABLES
  name,                \* the message
  value,               \* what the writer says
  sent,                \* its bytes, in strings that belong together
  extra,               \* history: what a newer version added, as <<field, wire>>
  cut,                 \* bytes missing at the end
  got                  \* what decode makes of it, NotYet

exchangeVars == <<name, value, sent, extra, cut, got>>

-----------------------------------------------------------------------------
(* What is written.                                                        *)

RECURSIVE Sample(_, _), Whole(_)

\* A value of a kind that no other field of the message has.
Sample(kind, i) ==
  CASE kind = "int" -> <<kind, 127 + i>> [] kind = "bool" -> <<kind, 1>>
    [] kind = "string" -> <<kind, <<64 + i>>>>
    [] kind = "double" -> <<kind, <<1, 2, 3, 4, 5, 6, 7, i>>>>
    [] kind = "float" -> <<kind, <<1, 2, 3, i>>>>
    [] kind = "ints" -> <<kind, <<1, 200>>>> [] kind = "sints" -> <<kind, <<-i, 100>>>>
    [] kind = "floats" -> <<kind, <<<<1, 2, 3, 4>>, <<5, 6, 7, i>>>>>>
    [] kind = "iconOrTime" -> <<"icon", <<64 + i>>>>
    [] kind \in {"zero", "count"} -> Unset
    [] OTHER -> <<kind, <<Whole(kind), Whole(kind)>>>>
Whole(m) == [i \in DOMAIN Fields[m] |-> Sample(Fields[m][i], i)]

Set(m, shape) ==
  Written(m) \cup CASE shape = "all" -> DOMAIN Fields[m] [] shape = "none" -> {}
                    [] shape = "odd" -> {i \in DOMAIN Fields[m] : i % 2 = 1}
                    [] shape = "even" -> {i \in DOMAIN Fields[m] : i % 2 = 0}
Value(m, shape) == [i \in DOMAIN Fields[m] |-> IF i \in Set(m, shape) THEN Whole(m)[i] ELSE Unset]

PackedChunks(m, v) ==
  FlattenSeq([i \in DOMAIN v |->
    IF v[i] = Unset THEN <<>>
    ELSE IF Fields[m][i] \in {"ints", "sints", "floats"} THEN <<Packed(i, v[i])>>
    ELSE FieldChunks(i, v[i])])

Init ==
  /\ extra = {} /\ cut = 0 /\ got = NotYet
  /\ \E shape \in Shape, packs \in BOOLEAN :
       /\ name \in DOMAIN Fields
       /\ value = Value(name, shape)
       /\ packs => name = "VehicleControl"
       /\ sent = IF packs THEN PackedChunks(name, value) ELSE Chunks(name, value)

-----------------------------------------------------------------------------
\* Another version adds a field, or gives one another type, first or last.
Odd(field, wire) ==
  Tag(field, wire) \o CASE wire = 0 -> <<5>> [] wire = 1 -> <<1, 2, 3, 4, 5, 6, 7, 8>>
                        [] wire = 2 -> <<1, 7>> [] wire = 5 -> <<8, 7, 16, 3>>
Add ==
  /\ got = NotYet /\ cut = 0 /\ Cardinality(extra) < MaxExtra
  /\ \E field \in 1..(Len(Fields[name]) + 1), wire \in {0, 1, 2, 5} :
       /\ field \in DOMAIN Fields[name] =>
            Fields[name][field] # "iconOrTime" /\ wire \notin {WireType(Fields[name][field])}
       /\ field \in DOMAIN Fields[name] /\ Fields[name][field] \in {"ints", "sints", "floats"} => wire # 2
       /\ extra' = extra \cup {<<field, wire>>}
       /\ sent' \in {<<Odd(field, wire)>> \o sent, Append(sent, Odd(field, wire))}
  /\ UNCHANGED <<name, value, cut, got>>

\* The end is missing; the bound: of a message of our own version.
CutEnd ==
  /\ got = NotYet /\ cut = 0 /\ extra = {}
  /\ cut' \in 1..Len(FlattenSeq(sent))
  /\ UNCHANGED <<name, value, sent, extra, got>>

Receive ==
  /\ got = NotYet
  /\ LET all == FlattenSeq(sent)
         bytes == SubSeq(all, 1, Len(all) - cut) IN
     got' = Decode(name, bytes)
  /\ UNCHANGED <<name, value, sent, extra, cut>>

Next == Add \/ CutEnd \/ Receive
Spec == Init /\ [][Next]_exchangeVars

-----------------------------------------------------------------------------
(* Properties.                                                             *)

Refused == name \in DOMAIN Required /\ value[Required[name]] = Unset

\* Numbers that come as eight or four bytes are where ReadRepeated goes astray.
Astray == name = "VehicleControl" /\ \E x \in extra : x[1] \in {6, 9, 10} /\ x[2] \in {1, 5}

\* What is left of a field when the end of the message is missing.
Shortened(part, full) ==
  \/ part = Unset \/ part = full
  \/ full[1] \in {"ints", "sints", "floats"} \cup DOMAIN Fields /\ IsPrefix(part[2], full[2])

\* A message reads as it was written, whatever unknown fields or types are
\* mixed in, packed or not; without its required field it is refused.  If the
\* end is missing it is refused, or what is read is what was written
\* (wire.cpp:560).
ReadsAsWritten ==
  got # NotYet /\ ~Astray =>
    IF cut = 0 THEN got = IF Refused THEN Bad ELSE value
    ELSE got = Bad \/ \A i \in DOMAIN value : Shortened(got[i], value[i])

\* wire.cpp:560: a field the reader does not expect is skipped.
OddFieldsSkipped ==
  got # NotYet /\ cut = 0 => got = IF Refused THEN Bad ELSE value

\* wire.cpp:561: a message whose format is wrong is refused, for instance one
\* that ends within a tag.
MalformedRefused ==
  got # NotYet /\ extra = {}
    /\ (\E n \in DOMAIN sent : Len(sent[n]) > 1 /\ sent[n][1] >= 128
          /\ Len(FlattenSeq(sent)) - cut = Len(FlattenSeq(SubSeq(sent, 1, n - 1))) + 1)
  => got = Bad
=============================================================================
