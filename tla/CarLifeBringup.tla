--------------------------- MODULE CarLifeBringup ---------------------------
(***************************************************************************)
(* The stand-alone program of CarLife (main.cpp) until it has a session.   *)
(* It learns the phone's address, over bluetooth (bt_link.cpp) or from the *)
(* phone's broadcast, and dials until the phone answers or the time for    *)
(* that is over.  Over bluetooth the phone asks and the program answers,   *)
(* then the program asks for the address.  What a phone says and waits for *)
(* is a script; the one of bt_link.h:8-16 and mdsim.py:541-578 among them. *)
(*                                                                         *)
(* The link is a stream: what was written in one piece may be read in any  *)
(* pieces, and what was written in two pieces in one.  A header has two    *)
(* cells here, the length and the type.  The payload of RESPONSE_IP is the *)
(* address; the others have one cell that is not looked at, or none.       *)
(***************************************************************************)
EXTENDS CarLifeFrames

CONSTANTS
  Script,              \* what phones do, steps <<"say", type, payload>> or <<"hear", type>>
  Route,               \* how the program learns the address: "bluetooth", "broadcast"
  MaxDials             \* bound: attempts of the time given to retry

ASSUME BringupAssumption == MaxDials \in Nat

VARIABLES
  hu,                  \* the program: where it is, its route, rxbuf_, the locals of bringup, and
                       \* for the properties whether it swallowed a frame
  phone,               \* the phone: where it is, and what is left of its script
  toHu,                \* cells on the link
  toPhone              \* types of the frames on the way to the phone

bringupVars == <<hu, phone, toHu, toPhone>>

NoIp == 0

\* Service types, too large for a length.
InfoRequest == 11
InfoResponse == 12
TargetRequest == 14
TargetResponse == 15
RequestIp == 16
ResponseIp == 17
MdStatus == 18
HuStatus == 19

\* What a phone may wait for: an answer to each status, and until it has told the
\* address to each question; the first time it asks for the target it is asked back.
Telling(script, kind) == {i \in DOMAIN script : script[i][1] = "say" /\ script[i][2] = kind}
Hearings(script) == {i \in DOMAIN script : script[i][1] = "hear"}
UpTo(steps, n) == {i \in steps : i <= n}
Addresses(script) == {i \in Telling(script, ResponseIp) : script[i][3] # <<>>}
Questions(script) ==
  {i \in Telling(script, InfoRequest) \union Telling(script, TargetRequest) : UpTo(Addresses(script), i) = {}}
Answered(script) == Telling(script, MdStatus) \union Questions(script)
AskedBack(script) == {i \in Telling(script, TargetRequest) \intersect Questions(script) :
                        UpTo(Telling(script, TargetRequest), i) = {i}}

Due(script, n) == Cardinality(UpTo(Answered(script), n)) + Cardinality(UpTo(AskedBack(script), n))
HeardBy(script, n) == Cardinality(UpTo(Hearings(script), n))

\* It waits for no more than that, and what it says fits into a frame.
Sensible(script) ==
  /\ script \in Seq(({"say"} \X Nat \X Seq(Nat)) \union ({"hear"} \X Nat))
  /\ \A i \in DOMAIN script :
       IF script[i][1] = "hear" THEN HeardBy(script, i) <= Due(script, i)
       ELSE Len(script[i][3]) < ShortLimit

ASSUME ScriptAssumption == \A script \in Script : Sensible(script)

HuInit(route) ==
  [at |-> "open", route |-> route, rx |-> <<>>, asked |-> FALSE, ip |-> NoIp, tail |-> 0, dials |-> 0,
   lost |-> FALSE]

BringupInit ==
  /\ \E route \in Route : hu = HuInit(route)
  /\ \E script \in Script : phone = [at |-> "away", todo |-> script]
  /\ toHu = <<>> /\ toPhone = <<>>

ProgramAt(place) == hu.at = place
ProgramTo(place) == hu' = [hu EXCEPT !.at = place]

-----------------------------------------------------------------------------
(* The phone.                                                              *)

PhoneConnects ==
  /\ ProgramAt("accept") /\ phone.at = "away"
  /\ phone' = [phone EXCEPT !.at = "linked"]
  /\ UNCHANGED <<hu, toHu, toPhone>>

Says(kind) == phone.at = "linked" /\ phone.todo # <<>> /\ phone.todo[1][1] = kind
Onwards == phone' = [phone EXCEPT !.todo = Tail(@)]

PhoneSays ==
  /\ Says("say")
  /\ toHu' = toHu \o EncodeFrame(TRUE, phone.todo[1][2], phone.todo[1][3])
  /\ Onwards
  /\ UNCHANGED <<hu, toPhone>>

PhoneHears ==
  /\ Says("hear") /\ toPhone # <<>>
  /\ IF toPhone[1] = phone.todo[1][2] THEN Onwards ELSE phone' = [phone EXCEPT !.at = "gone"]
  /\ toPhone' = Tail(toPhone)
  /\ UNCHANGED <<hu, toHu>>

\* It is done, or it waited too long; then it opens its channels, or does not.
PhoneHangsUp ==
  /\ phone.at = "linked" /\ (Says("hear") \/ phone.todo = <<>>)
  /\ \E at \in {"open", "gone"} : phone' = [phone EXCEPT !.at = at]
  /\ UNCHANGED <<hu, toHu, toPhone>>

PhoneBroadcasts ==
  /\ phone.at = "away" /\ ProgramAt("discover")
  /\ phone' = [phone EXCEPT !.at = "open"]
  /\ UNCHANGED <<hu, toHu, toPhone>>

-----------------------------------------------------------------------------
(* BtLink: recv.                                                           *)

Complete(rx) == Len(rx) >= 2 /\ Len(rx) >= 2 + rx[1]

\* Bug: the whole buffer is taken, whatever the length says.
TakeAll(rx) == [svc |-> rx[2], payload |-> SubSeq(rx, 3, 2 + rx[1]), rest |-> <<>>]

\* A frame of length zero is given all there is after its header.
TakeFrame(rx) ==
  IF rx[1] = 0 THEN [svc |-> rx[2], payload |-> Beyond(rx, 2), rest |-> <<>>]
  ELSE [svc |-> rx[2], payload |-> SubSeq(rx, 3, 2 + rx[1]), rest |-> Beyond(rx, 2 + rx[1])]

Receiving == hu.at \in {"bringup", "tail"} /\ ~Complete(hu.rx)

ReadSome ==
  /\ Receiving /\ toHu # <<>>
  /\ \E n \in DOMAIN toHu :
       /\ hu' = [hu EXCEPT !.rx = @ \o SubSeq(toHu, 1, n)]
       /\ toHu' = Beyond(toHu, n)
  /\ UNCHANGED <<phone, toPhone>>

\* The program lets go of the link; the phone sees the end of it.
Leave(place) ==
  /\ hu' = [hu EXCEPT !.at = place, !.rx = <<>>]
  /\ toHu' = <<>>
  /\ phone' = IF phone.at = "linked" /\ phone.todo # <<>>
              THEN [phone EXCEPT !.at = "gone"] ELSE phone
  /\ UNCHANGED toPhone

\* recv returned false: too late, or the phone has left.
TailEnds == ProgramAt("tail") /\ Receiving /\ Leave("dial")

\* recv returned false, or the time for all is over and what may be in the
\* buffer is not looked at.
BringupFails == ProgramAt("bringup") /\ Leave("exit")

-----------------------------------------------------------------------------
(* BtLink: bringup.                                                        *)

Answer(types) == toPhone' = toPhone \o types

Ready(place) == ProgramAt(place) /\ Complete(hu.rx)
frame == TakeFrame(hu.rx)

\* An empty frame is given cells of those that come behind it.
Swallows == hu.rx[1] = 0 /\ Len(hu.rx) > 2
Took == [hu EXCEPT !.rx = frame.rest, !.lost = @ \/ Swallows]

\* What was swallowed begins with the length of a frame, which is read as a
\* field of the message; its number is 0, which ends the reading, unless the
\* frame is long (wire.cpp:112-118).
HasAddress == hu.rx[1] # 0 \/ (Swallows /\ frame.payload[1] >= 2048)

AnswerInfo ==
  /\ Ready("bringup") /\ frame.svc = InfoRequest
  /\ hu' = Took
  /\ Answer(<<InfoResponse>>)
  /\ UNCHANGED <<phone, toHu>>

AnswerTarget ==
  /\ Ready("bringup") /\ frame.svc = TargetRequest
  /\ hu' = [Took EXCEPT !.asked = TRUE]
  /\ Answer(IF hu.asked THEN <<TargetResponse>> ELSE <<TargetResponse, RequestIp>>)
  /\ UNCHANGED <<phone, toHu>>

AnswerStatus ==
  /\ Ready("bringup") /\ frame.svc = MdStatus
  /\ hu' = Took
  /\ Answer(<<HuStatus>>)
  /\ UNCHANGED <<phone, toHu>>

GetAddress ==
  /\ Ready("bringup") /\ frame.svc = ResponseIp /\ HasAddress
  /\ hu' = [Took EXCEPT !.ip = frame.payload[1], !.at = "tail"]
  /\ UNCHANGED <<phone, toHu, toPhone>>

NoAddress ==
  /\ Ready("bringup") /\ frame.svc = ResponseIp /\ hu.rx[1] = 0
  /\ Leave("exit")

Ignore ==
  /\ Ready("bringup") /\ frame.svc \notin {InfoRequest, TargetRequest, MdStatus, ResponseIp}
  /\ hu' = Took
  /\ UNCHANGED <<phone, toHu, toPhone>>

\* At most five more frames once the address is known.
AnswerTail ==
  /\ Ready("tail") /\ hu.tail < 5
  /\ hu' = [Took EXCEPT !.tail = @ + 1]
  /\ Answer(IF frame.svc = MdStatus THEN <<HuStatus>> ELSE <<>>)
  /\ UNCHANGED <<phone, toHu>>

TailFull == ProgramAt("tail") /\ hu.tail = 5 /\ Leave("dial")

-----------------------------------------------------------------------------
(* main.                                                                   *)

Open ==
  /\ ProgramAt("open")
  /\ \E place \in IF hu.route = "broadcast" THEN {"discover"} ELSE {"accept", "exit"} : ProgramTo(place)
  /\ UNCHANGED <<phone, toHu, toPhone>>

AcceptLink ==
  /\ ProgramAt("accept")
  /\ ProgramTo(IF phone.at = "linked" THEN "bringup" ELSE "exit")
  /\ UNCHANGED <<phone, toHu, toPhone>>

Discover ==
  /\ ProgramAt("discover")
  /\ ProgramTo(IF phone.at = "open" THEN "dial" ELSE "exit")
  /\ UNCHANGED <<phone, toHu, toPhone>>

\* A session that got past its first state is not tried again.
Dial ==
  /\ ProgramAt("dial")
  /\ hu' = IF phone.at = "open" THEN [hu EXCEPT !.at = "session"]
           ELSE IF hu.dials < MaxDials THEN [hu EXCEPT !.dials = @ + 1]
           ELSE [hu EXCEPT !.at = "exit"]
  /\ UNCHANGED <<phone, toHu, toPhone>>

BringupNext ==
  \/ PhoneConnects \/ PhoneSays \/ PhoneHears \/ PhoneHangsUp \/ PhoneBroadcasts
  \/ ReadSome \/ TailEnds \/ BringupFails
  \/ AnswerInfo \/ AnswerTarget \/ AnswerStatus \/ GetAddress \/ NoAddress \/ Ignore
  \/ AnswerTail \/ TailFull
  \/ Open \/ AcceptLink \/ Discover \/ Dial

BringupSpec == BringupInit /\ [][BringupNext]_bringupVars

-----------------------------------------------------------------------------
(* Properties.                                                             *)

\* The program waits for a frame that is not complete and of which nothing more
\* is on its way, the phone waits for an answer that is not either.
MutualWait ==
  /\ Receiving /\ toHu = <<>>
  /\ Says("hear") /\ toPhone = <<>>

\* However the stream of the link falls into pieces, the two ends never wait for
\* each other: no frame is lost, taken for part of another, or left unanswered
\* (bt_link.cpp:383-417), unless an empty frame has swallowed what came right
\* behind it (388-392).
NobodyWaitsForever == MutualWait => hu.lost
=============================================================================
