--------------------------- MODULE CarPlayForward ---------------------------
(***************************************************************************)
(* The coordinator of direct CarPlay forwarding (Core/Forward/src/         *)
(* carplay_forward.cpp) between the wireless input and the wired output.   *)
(* tick() runs in one thread; the phone, the transport backend and the     *)
(* user act between any two of its calls, each of which takes a lock of    *)
(* its own.  tick() reads the three states once (`snap') and decides by    *)
(* what it read.                                                           *)
(*                                                                         *)
(* A step of the tick is a run of calls that other threads cannot tell     *)
(* apart from one: it ends where the coordinator has read what somebody    *)
(* else may change before the next call.  The limits of 16 and 32 items a  *)
(* tick are left out, as are the vehicle information passed to the input,  *)
(* the statistics and the texts of errors.  Stream ids are reused once     *)
(* nothing mentions them any more; next_stream never repeats one.          *)
(***************************************************************************)
EXTENDS OutputBroker, Sequences

CONSTANTS
  InStream,            \* streams a phone may declare
  Config,              \* their configurations: [video, legs, fits]
  Caps,                \* what ways back to the phone an input may have
  NoPacket,            \* no packet held
  Requests, PacketLimit, MicLimit, StreamLimit,  \* of WirelessEndpoint
  MaxChanges,          \* bound: acts of the phone, the user and the car
  MaxEpoch,            \* bound: sessions of the output
  Acts                 \* which acts the environment has

ASSUME EndpointAssumption ==
  {Requests, PacketLimit, MicLimit, StreamLimit} \subseteq Nat \ {0}

VARIABLES
  out,                 \* WiredCarPlayOutput
  input,               \* WirelessEndpoint
  selected,            \* SessionCore's active source is this input
  fwd,                 \* CarPlayForwarder::Impl
  owner,               \* tickets of the application that starts the output
  changes              \* how many acts there were

vars == <<out, input, selected, fwd, owner, changes>>

In == INSTANCE WirelessEndpoint

Job == {"Setup", "Teardown", "Record", "Phone"}

NoSnap == [selected |-> FALSE, generation |-> 0, caps |-> {}, streams |-> NoEntry,
           epoch |-> 0, phase |-> "Idle", owned |-> FALSE]

NewForwarder ==
  [ pc |-> "idle", snap |-> NoSnap, phase |-> "Inactive",
    enabled |-> TRUE, bound |-> FALSE, draining |-> FALSE, failed |-> FALSE,
    generation |-> 0, epoch |-> 0,
    active |-> NoEntry,         \* source stream: [config, id, waiting]
    jobs |-> NoEntry,           \* pending: ticket to what it is for
    reverse |-> NoEntry,        \* request at the phone to command of the car, or 0
    media |-> NoPacket, mic |-> NoPacket ]   \* held packets

Init ==
  /\ out = NewImpl /\ input = In!NewEndpoint /\ selected \in BOOLEAN
  /\ fwd = NewForwarder /\ owner = {} /\ changes = 0

----------------------------------------------------------------------------
\* Calls of the coordinator on sets

StatePending(jobs) == \E t \in DOMAIN jobs : jobs[t].job # "Phone"

\* respond to each of the commands ids of the session e
RespondAll(o, e, ids) ==
  LET can == {id \in ids \cap DOMAIN o.incoming : e = o.epoch /\ CanRespond(o, id)} IN
  [o EXCEPT !.incoming = [id \in DOMAIN @ |-> IF id \in can THEN [@[id] EXCEPT !.replied = TRUE]
                                                            ELSE @[id]],
            !.events = @ \ can]

\* events(false): every event is popped, the commands are refused.
Refuse(o) == [RespondAll(o, o.epoch, o.events) EXCEPT !.events = {}, !.notes = 0]

\* cancel of each ticket, then its completion is popped and lost.
CancelJobs(o, jobs) ==
  LET open == {t \in DOMAIN jobs : t \in DOMAIN o.pending /\ jobs[t].epoch = o.epoch}
      cancelled == IF \E t \in open : CancelFails(o.pending[t]) THEN Fail(o, "Cancelled")
                   ELSE Answer(o, open, "Cancelled")
  IN  [cancelled EXCEPT !.completions = Without(@, DOMAIN jobs)]

\* Bug: packets that are queued already are left to play.
DiscardNothing == out

DiscardOutput == IF fwd.epoch = out.epoch THEN DiscardMedia(out) ELSE out

Commands(reverse) == {reverse[r] : r \in DOMAIN reverse} \ {0}

\* Bug: tickets whose results were popped are kept.
DrainedKeepsJobs(f) ==
  [f EXCEPT !.draining = TRUE, !.failed = FALSE, !.media = NoPacket, !.mic = NoPacket,
            !.reverse = NoEntry, !.phase = "Draining"]

\* drain(), which does nothing while draining.
Drained(f) ==
  [f EXCEPT !.draining = TRUE, !.failed = FALSE, !.media = NoPacket, !.mic = NoPacket,
            !.jobs = NoEntry, !.reverse = NoEntry, !.phase = "Draining"]

\* Bug: the phone's requests are not cancelled, or the car's not answered.
DrainForgetsPhone ==
  /\ input' = IF input.generation = fwd.generation THEN In!DiscardMedia(input) ELSE input
  /\ out' = RespondAll(CancelJobs(DiscardOutput, fwd.jobs), fwd.epoch, Commands(fwd.reverse))

DrainForgetsCar ==
  /\ input' = IF input.generation = fwd.generation
              THEN In!CancelRequests(In!DiscardMedia(input)) ELSE input
  /\ out' = CancelJobs(DiscardOutput, fwd.jobs)

DrainCalls ==
  /\ input' = IF input.generation = fwd.generation
              THEN In!CancelRequests(In!DiscardMedia(input)) ELSE input
  /\ out' = RespondAll(CancelJobs(DiscardOutput, fwd.jobs), fwd.epoch, Commands(fwd.reverse))

----------------------------------------------------------------------------
\* The tick

Goto(f, pc) == [f EXCEPT !.pc = pc, !.snap = IF pc = "idle" THEN NoSnap ELSE @]

Settle(phase) == fwd' = Goto([fwd EXCEPT !.phase = phase], "idle")

\* The tickets that are answered, and those answered with success.
DoneJobs == {t \in DOMAIN fwd.jobs : t \in DOMAIN out.completions}

DoneOk(job) == {t \in DoneJobs : fwd.jobs[t].job = job /\ out.completions[t].code = "Ok"}

SourceOf(ts) == {fwd.jobs[t].source : t \in ts}

\* Bug: a stream that was taken down stays in the table.
EstablishedForever ==
  LET up == DoneOk("Setup")
      StreamOf(s) == fwd.jobs[CHOOSE t \in up : fwd.jobs[t].source = s].stream
  IN  [s \in DOMAIN fwd.active \cup SourceOf(up) |->
         IF s \in SourceOf(up) THEN StreamOf(s) ELSE fwd.active[s]]

Established ==
  LET up == DoneOk("Setup")
      StreamOf(s) == fwd.jobs[CHOOSE t \in up : fwd.jobs[t].source = s].stream
  IN  [s \in (DOMAIN fwd.active \cup SourceOf(up)) \ SourceOf(DoneOk("Teardown")) |->
         IF s \in SourceOf(up) THEN StreamOf(s) ELSE fwd.active[s]]

JobFailed ==
  \E t \in DoneJobs : fwd.jobs[t].job # "Phone" /\ out.completions[t].code # "Ok"

\* The phone's requests that are answered
PhoneResults ==
  LET ts == {t \in DoneJobs : fwd.jobs[t].job = "Phone" /\ fwd.jobs[t].generation = input.generation}
      TicketOf(id) == CHOOSE t \in ts : fwd.jobs[t].phone = id
  IN  [id \in {fwd.jobs[t].phone : t \in ts} |-> out.completions[TicketOf(id)].code]

\* expire() of both ends, and collect()
CollectNow(o, e) ==
  LET answered == DOMAIN e.reverseDone \cap DOMAIN fwd.reverse
      commands == IF e.generation = fwd.generation
                  THEN Commands(Restrict(fwd.reverse, answered)) ELSE {}
  IN  /\ out' = RespondAll([o EXCEPT !.completions = Without(@, DoneJobs)], fwd.epoch, commands)
      /\ input' = In!PopReverseCompletions(e)
      /\ fwd' = [fwd EXCEPT !.pc = "look",
                            !.active = Established,
                            !.failed = @ \/ JobFailed,
                            !.jobs = Without(@, DoneJobs),
                            !.reverse = Without(@, answered)]

ExpireBoth ==
  /\ fwd.pc = "idle"
  /\ out' = ExpirePending(out) /\ input' = In!Expire(input)
  /\ fwd' = [fwd EXCEPT !.pc = "collect"]
  /\ UNCHANGED <<selected, owner, changes>>

Collect ==
  /\ fwd.pc = "collect"
  /\ CollectNow(out, In!CompletePhones(input, input.generation, PhoneResults))
  /\ UNCHANGED <<selected, owner, changes>>

\* The three snapshots; everything below goes by them.
Look ==
  /\ fwd.pc = "look"
  /\ LET s == [selected |-> fwd.enabled /\ selected /\ input.connected,
               generation |-> input.generation, caps |-> input.caps, streams |-> input.streams,
               epoch |-> out.epoch, phase |-> out.phase, owned |-> DOMAIN out.streams # {}]
         detached == \/ ~ s.selected \/ s.generation # fwd.generation
                     \/ s.epoch # fwd.epoch \/ ~ Connected(s.phase)
     IN  fwd' = [fwd EXCEPT !.snap = s,
                            !.pc = IF fwd.bound /\ detached /\ ~ fwd.draining THEN "drain"
                                   ELSE IF fwd.draining THEN "release" ELSE "settle"]
  /\ UNCHANGED <<out, input, selected, owner, changes>>

Drain ==
  /\ fwd.pc = "drain"
  /\ DrainCalls
  /\ fwd' = [Drained(fwd) EXCEPT !.pc = "release"]
  /\ UNCHANGED <<selected, owner, changes>>

----------------------------------------------------------------------------
\* Requests of state: submit, and what a refusal means

JobOf(job, source, stream) ==
  [job |-> job, epoch |-> out.epoch, source |-> source, stream |-> stream,
   phone |-> 0, generation |-> fwd.generation]

NoStreamYet == [config |-> NoStream, id |-> NoStream, waiting |-> FALSE]

\* o: the output before the call.  A refusal for good is a failure.
SubmitState(o, op, entry, refusedForGood, phase) ==
  LET i == ExpirePending(o) IN
  IF CanEnqueue(i, op) /\ ~ refusedForGood
  THEN /\ out' = Enqueue(i, op)
       /\ fwd' = Goto([fwd EXCEPT !.jobs = Put(@, i.nextId, [entry EXCEPT !.epoch = i.epoch]),
                                  !.phase = phase], "idle")
  ELSE /\ out' = i
       /\ fwd' = Goto([fwd EXCEPT !.failed = @ \/ refusedForGood, !.phase = phase], "idle")

\* The output has no such stream, though it could take the request.
TeardownNotFound(i, s) ==
  /\ Connected(i.phase) /\ ~ Mutating(i)
  /\ Cardinality(DOMAIN i.pending) + Cardinality(DOMAIN i.completions) < PendingRequests
  /\ s \notin DOMAIN i.streams

SubmitTeardown(o, source, phase) ==
  LET id == fwd.active[source].id IN
  SubmitState(o, TeardownOf(id), JobOf("Teardown", source, NoStreamYet),
              TeardownNotFound(ExpirePending(o), id), phase)

\* ++next_stream
Mentioned ==
  DOMAIN out.streams \cup {fwd.active[s].id : s \in DOMAIN fwd.active}
    \cup {out.pending[t].op.sid : t \in DOMAIN out.pending}
    \cup {fwd.jobs[t].stream.id : t \in DOMAIN fwd.jobs}
Fresh == CHOOSE s \in StreamId \ Mentioned : \A r \in StreamId \ Mentioned : s <= r

\* No microphone at the phone, a screen without a display, or a stream the
\* car cannot show: NotSupported.
SetupRefused(i, config) ==
  \/ "mic" \in config.legs /\ "mic" \notin fwd.snap.caps
  \/ config.video /\ ~ i.peer
  \/ CanEnqueue(i, SetupOf(Fresh, config.legs)) /\ ~ config.fits

SubmitSetup(source, config) ==
  SubmitState(out, SetupOf(Fresh, config.legs),
              JobOf("Setup", source, [config |-> config, id |-> Fresh, waiting |-> TRUE]),
              SetupRefused(ExpirePending(out), config), "Configuring")

----------------------------------------------------------------------------
\* Draining

SessionGone == fwd.snap.epoch # fwd.epoch \/ ~ Connected(fwd.snap.phase)

\* Bug: the streams of a session that is gone are still waited for.
AbandonedNever == fwd

Abandoned ==
  IF SessionGone THEN [fwd EXCEPT !.active = NoEntry, !.jobs = NoEntry] ELSE fwd

\* Streams that were set up are taken down one by one; when that fails the
\* session is ended.
Release ==
  /\ fwd.pc = "release"
  /\ LET f == Abandoned
         o == Refuse(out)
     IN  \/ /\ DOMAIN f.active = {}
            /\ out' = o
            /\ fwd' = IF StatePending(f.jobs) THEN Goto(f, "idle")
                      ELSE [f EXCEPT !.bound = FALSE, !.draining = FALSE, !.failed = FALSE,
                                     !.phase = "Inactive", !.pc = "settle"]
         \/ /\ DOMAIN f.active # {} /\ f.failed
            /\ out' = IF f.epoch = o.epoch THEN Disconnect(o) ELSE o
            /\ fwd' = Goto([f EXCEPT !.active = NoEntry], "idle")
         \/ /\ DOMAIN f.active # {} /\ ~ f.failed
            /\ IF StatePending(f.jobs) THEN out' = o /\ fwd' = Goto(f, "idle")
               ELSE \E s \in DOMAIN f.active : SubmitTeardown(o, s, f.phase)
  /\ UNCHANGED <<input, selected, owner, changes>>

----------------------------------------------------------------------------
\* Not draining

Unselected ==
  /\ ~ fwd.snap.selected
  /\ input' = In!CancelRequests(In!DiscardMedia(input))
  /\ out' = Refuse(out)
  /\ Settle("Inactive")

NoOutput ==
  /\ fwd.snap.selected /\ ~ Connected(fwd.snap.phase)
  /\ input' = In!DiscardMedia(input)
  /\ out' = Refuse(out)
  /\ Settle("WaitingOutput")

Usable == fwd.snap.selected /\ Connected(fwd.snap.phase)

\* Streams in the output that are not its own: it waits.
ForeignStreams ==
  /\ Usable /\ ~ fwd.bound /\ fwd.snap.owned
  /\ UNCHANGED <<out, input>>
  /\ Settle("WaitingOutput")

Bind ==
  /\ Usable /\ ~ fwd.bound /\ ~ fwd.snap.owned
  /\ UNCHANGED <<out, input>>
  /\ fwd' = [fwd EXCEPT !.bound = TRUE, !.generation = fwd.snap.generation,
                        !.epoch = fwd.snap.epoch, !.pc = "events"]

StayFailed ==
  /\ Usable /\ fwd.bound /\ fwd.failed
  /\ LET o == Refuse(out) IN out' = IF fwd.epoch = o.epoch THEN DiscardMedia(o) ELSE o
  /\ input' = In!DiscardMedia(input)
  /\ Settle("Failed")

Carry ==
  /\ Usable /\ fwd.bound /\ ~ fwd.failed
  /\ UNCHANGED <<out, input>>
  /\ fwd' = [fwd EXCEPT !.pc = "events"]

SettleStep ==
  /\ fwd.pc = "settle"
  /\ Unselected \/ NoOutput \/ ForeignStreams \/ Bind \/ StayFailed \/ Carry
  /\ UNCHANGED <<selected, owner, changes>>

----------------------------------------------------------------------------
\* events(true): a command of the car goes to the phone and its answer back.

PassCommand ==
  \E id \in out.events :
    /\ \A other \in out.events : id <= other
    /\ LET o == PopCommand(out, id) IN
       IF fwd.epoch = out.epoch /\ In!CanPostReverse(input, fwd.generation, out.incoming[id].due)
       THEN /\ out' = o /\ input' = In!PostReverse(input)
            /\ fwd' = [fwd EXCEPT !.reverse = Put(@, input.nextId, id)]
       ELSE /\ out' = RespondAll(o, o.epoch, {id})
            /\ UNCHANGED <<input, fwd>>

PassNote ==
  /\ out.notes > 0
  /\ out' = PopNote(out)
  /\ IF fwd.epoch = out.epoch /\ In!CanPostReverse(input, fwd.generation, FALSE)
     THEN /\ input' = In!PostReverse(input)
          /\ fwd' = [fwd EXCEPT !.reverse = Put(@, input.nextId, 0)]
     ELSE UNCHANGED <<input, fwd>>

EventsDone ==
  /\ out.events = {} /\ out.notes = 0
  /\ fwd' = [fwd EXCEPT !.pc = "configure"]
  /\ UNCHANGED <<out, input>>

EventStep ==
  /\ fwd.pc = "events"
  /\ PassCommand \/ PassNote \/ EventsDone
  /\ UNCHANGED <<selected, owner, changes>>

----------------------------------------------------------------------------
\* Streams, one request at a time

Changed ==
  {s \in DOMAIN fwd.active : \/ s \notin DOMAIN fwd.snap.streams
                             \/ fwd.snap.streams[s] # fwd.active[s].config}

Missing == DOMAIN fwd.snap.streams \ DOMAIN fwd.active

WaitForAnswer == StatePending(fwd.jobs) /\ UNCHANGED out /\ Settle("Configuring")

TearChanged ==
  /\ ~ StatePending(fwd.jobs)
  /\ \E s \in Changed :
       LET o == DiscardOutput
           id == fwd.active[s].id
           i == ExpirePending(o)
           ok == CanEnqueue(i, TeardownOf(id))
           entry == [JobOf("Teardown", s, NoStreamYet) EXCEPT !.epoch = i.epoch]
       IN  /\ out' = IF ok THEN Enqueue(i, TeardownOf(id)) ELSE i
           /\ fwd' = Goto([fwd EXCEPT !.media = NoPacket, !.mic = NoPacket,
                                      !.jobs = IF ok THEN Put(@, i.nextId, entry) ELSE @,
                                      !.failed = @ \/ TeardownNotFound(i, id),
                                      !.phase = "Configuring"], "idle")

SetUpMissing ==
  /\ ~ StatePending(fwd.jobs) /\ Changed = {}
  /\ \E s \in Missing : SubmitSetup(s, fwd.snap.streams[s])

StartRecord ==
  /\ ~ StatePending(fwd.jobs) /\ Changed = {} /\ Missing = {}
  /\ DOMAIN fwd.active # {} /\ fwd.snap.phase = "Ready"
  /\ SubmitState(out, Plain("Record"), JobOf("Record", 0, NoStreamYet), FALSE, "Configuring")

Configured ==
  /\ ~ StatePending(fwd.jobs) /\ Changed = {} /\ Missing = {}
  /\ DOMAIN fwd.active = {} \/ fwd.snap.phase # "Ready"
  /\ UNCHANGED out
  /\ fwd' = [fwd EXCEPT !.phase = IF DOMAIN fwd.active = {} THEN "Configuring" ELSE "Forwarding",
                        !.pc = "move"]

ConfigureStep ==
  /\ fwd.pc = "configure"
  /\ WaitForAnswer \/ TearChanged \/ SetUpMissing \/ StartRecord \/ Configured
  /\ UNCHANGED <<input, selected, owner, changes>>

----------------------------------------------------------------------------
\* phone_requests() and media()

ForwardPhone ==
  \E id \in In!UntakenPhones(input) :
    /\ \A other \in In!UntakenPhones(input) : id <= other
    /\ LET e == In!TakePhone(input, id)
           i == ExpirePending(out)
           op == Plain(input.phones[id].kind)
           Refused(code) == /\ input' = In!CompletePhones(e, input.generation, [x \in {id} |-> code])
                            /\ UNCHANGED fwd
       IN  IF input.generation # fwd.generation \/ input.phones[id].due
           THEN Refused("Refused") /\ UNCHANGED out
           ELSE IF ~ CanEnqueue(i, op) THEN Refused("Refused") /\ out' = i
           ELSE /\ out' = Enqueue(i, op) /\ input' = e
                /\ fwd' = [fwd EXCEPT !.jobs = Put(@, i.nextId,
                             [JobOf("Phone", 0, NoStreamYet) EXCEPT !.epoch = i.epoch, !.phone = id])]

\* The packet the coordinator holds, or takes, from the phone
Next1 == IF fwd.media # NoPacket THEN fwd.media ELSE Head(input.media)
HasMedia == fwd.media # NoPacket \/ In!CanTakeMedia(input, fwd.generation)

Unwanted(p) ==
  \/ p.sid \notin DOMAIN fwd.active \/ p.epoch # fwd.generation
  \/ fwd.active[p.sid].config.video /\ fwd.active[p.sid].waiting /\ ~ p.key

OutPacket(p) ==
  [epoch |-> fwd.epoch, sid |-> fwd.active[p.sid].id, size |-> 1, config |-> p.config]

OutputFull(p) ==
  /\ PacketValid(out, OutPacket(p), "out")
  /\ Cardinality(DOMAIN out.media) >= MediaPackets

\* Dropped, held because the output is full, or delivered.
ForwardMedia ==
  /\ fwd.phase = "Forwarding" /\ HasMedia
  /\ ~ (fwd.media # NoPacket /\ ~ Unwanted(fwd.media) /\ OutputFull(fwd.media))
  /\ input' = IF fwd.media = NoPacket THEN In!TakeMedia(input) ELSE input
  /\ LET p == Next1 IN
     \/ /\ ~ Unwanted(p) => ~ PacketValid(out, OutPacket(p), "out")
        /\ fwd' = [fwd EXCEPT !.media = NoPacket] /\ UNCHANGED out
     \/ /\ ~ Unwanted(p) /\ OutputFull(p)
        /\ fwd' = [fwd EXCEPT !.media = p] /\ UNCHANGED out
     \/ /\ ~ Unwanted(p) /\ CanPushMedia(out, OutPacket(p))
        /\ out' = PushMedia(out, CHOOSE n \in Slot : n \notin DOMAIN out.media, OutPacket(p))
        /\ fwd' = [fwd EXCEPT !.media = NoPacket,
                              !.active[p.sid].waiting = @ /\ ~ fwd.active[p.sid].config.video]

\* The microphone of the car, to the stream of the phone it belongs to
SourceStream(p) == {s \in DOMAIN fwd.active : fwd.active[s].id = p.sid}

InPacket(p) ==
  [epoch |-> fwd.generation, sid |-> CHOOSE s \in SourceStream(p) : TRUE,
   key |-> FALSE, config |-> NoStream]

ForwardMic ==
  /\ fwd.phase = "Forwarding"
  /\ fwd.mic = NoPacket => DOMAIN out.mics # {}
  /\ \E slot \in IF fwd.mic = NoPacket THEN DOMAIN out.mics ELSE {NoPacket} :
       LET p == IF slot = NoPacket THEN fwd.mic ELSE out.mics[slot]
           stale == p.epoch # fwd.epoch \/ SourceStream(p) = {}
       IN  /\ out' = IF slot = NoPacket THEN out ELSE PopMicrophone(out, slot)
           /\ IF stale \/ In!MicRefused(input, InPacket(p))
              THEN UNCHANGED input /\ fwd' = [fwd EXCEPT !.mic = NoPacket]
              ELSE IF In!MicFull(input)
              THEN UNCHANGED input /\ fwd.mic = NoPacket /\ fwd' = [fwd EXCEPT !.mic = p]
              ELSE /\ input' = In!PostMicrophone(input, InPacket(p))
                   /\ fwd' = [fwd EXCEPT !.mic = NoPacket]

\* Nothing left that could move
MediaIdle == ~ HasMedia \/ fwd.media # NoPacket
MicIdle == IF fwd.mic = NoPacket THEN DOMAIN out.mics = {} ELSE In!MicFull(input)

TickDone ==
  /\ In!UntakenPhones(input) = {}
  /\ fwd.phase = "Forwarding" => MediaIdle /\ MicIdle
  /\ fwd' = Goto(fwd, "idle")
  /\ UNCHANGED <<out, input>>

MoveStep ==
  /\ fwd.pc = "move"
  /\ ForwardPhone \/ ForwardMedia \/ ForwardMic \/ TickDone
  /\ UNCHANGED <<selected, owner, changes>>

TickNext ==
  \/ ExpireBoth \/ Collect \/ Look \/ Drain \/ Release
  \/ SettleStep \/ EventStep \/ ConfigureStep \/ MoveStep

----------------------------------------------------------------------------
\* The user: select another source, stop and start

Act(a) == a \in Acts /\ changes < MaxChanges /\ changes' = changes + 1

Select ==
  /\ Act("select")
  /\ selected' = ~ selected
  /\ UNCHANGED <<out, input, fwd, owner>>

Start ==
  /\ Act("stop") /\ fwd.pc = "idle" /\ ~ fwd.enabled
  /\ fwd' = [fwd EXCEPT !.enabled = TRUE]
  /\ UNCHANGED <<out, input, selected, owner>>

\* stop() drains at once.
Stop ==
  /\ Act("stop") /\ fwd.pc = "idle" /\ fwd.enabled
  /\ IF (fwd.bound \/ DOMAIN fwd.active # {}) /\ ~ fwd.draining
     THEN DrainCalls /\ fwd' = [Drained(fwd) EXCEPT !.enabled = FALSE]
     ELSE fwd' = [fwd EXCEPT !.enabled = FALSE] /\ UNCHANGED <<out, input>>
  /\ UNCHANGED <<selected, owner>>

UserNext == Select \/ Start \/ Stop

----------------------------------------------------------------------------
\* The phone

Input(e) == input' = e /\ UNCHANGED <<out, selected, fwd, owner>>

PhoneBegin == Act("phone") /\ \E c \in Caps : Input(In!Begin(input, c))

PhoneEnd == Act("phone") /\ input.connected /\ Input(In!End(input))

DeclareStream ==
  /\ Act("declare")
  /\ \E s \in InStream, c \in Config :
       /\ In!CanSetStream(input, input.generation, s)
       /\ s \in DOMAIN input.streams => input.streams[s] # c
       /\ Input(In!SetStream(input, s, c))

DropStream ==
  /\ Act("declare")
  /\ \E s \in DOMAIN input.streams : Input(In!RemoveStream(input, s))

SendMedia ==
  /\ Act("media")
  /\ \E s \in DOMAIN input.streams, key \in BOOLEAN :
       LET p == [epoch |-> input.generation, sid |-> s, key |-> key, config |-> input.streams[s]] IN
       In!CanPushMedia(input, p) /\ Input(In!PushMedia(input, p))

AskOutput ==
  /\ Act("request")
  /\ In!CanRequest(input, input.generation)
  /\ \E kind \in {"Send", "Modes"} : Input(In!RequestOutput(input, kind))

TakeCommand ==
  \E r \in DOMAIN input.reverse : ~ input.reverse[r].taken /\ Input(In!TakeReverse(input, r))

AnswerCommand ==
  \E r \in DOMAIN input.reverse :
    /\ In!CanCompleteReverse(input, input.generation, r)
    /\ Input(In!CompleteReverse(input, r, "Ok"))

PopPhone == \E id \in DOMAIN input.phoneDone : Input(In!PopPhoneCompletion(input, id))

HearMic == input.mics # <<>> /\ Input(In!TakeMicrophone(input))

PhoneNext ==
  \/ PhoneBegin \/ PhoneEnd \/ DeclareStream \/ DropStream \/ SendMedia \/ AskOutput
  \/ UNCHANGED changes /\ (TakeCommand \/ AnswerCommand \/ PopPhone \/ HearMic)

----------------------------------------------------------------------------
\* The application that starts the output, and the transport backend

Output(o) == out' = o /\ UNCHANGED <<input, selected, fwd>>

StartOutput ==
  /\ out.epoch < MaxEpoch
  /\ LET i == ExpirePending(out) IN
     /\ CanEnqueue(i, Plain("Start"))
     /\ Output(Enqueue(i, Plain("Start"))) /\ owner' = owner \cup {i.nextId}
  /\ UNCHANGED changes

PopStart ==
  /\ \E t \in owner \cap DOMAIN out.completions : Output(PopCompletion(out, t))
  /\ UNCHANGED <<owner, changes>>

Take ==
  /\ Untaken(out) # {}
  /\ LET i == ExpirePending(out) IN
     \/ \E t \in Untaken(i) : (\A u \in Untaken(i) : t <= u) /\ Output(TakeWork(i, t))
     \/ Untaken(i) = {} /\ Output(i)
  /\ UNCHANGED <<owner, changes>>

Succeed ==
  /\ \E t \in DOMAIN out.pending :
       /\ out.pending[t].taken
       /\ LET i == ExpirePending(out) IN
          Output(IF t \in DOMAIN i.pending THEN Complete(i, t, TRUE) ELSE i)
  /\ UNCHANGED <<owner, changes>>

Fails ==
  /\ Act("fail")
  /\ \E t \in DOMAIN out.pending :
       /\ out.pending[t].taken
       /\ LET i == ExpirePending(out) IN
          Output(IF t \in DOMAIN i.pending THEN Complete(i, t, FALSE) ELSE i)
  /\ UNCHANGED owner

Lose ==
  /\ Act("lose") /\ out.phase \notin {"Idle", "Failed"}
  /\ Output(Disconnect(out)) /\ UNCHANGED owner

SendPacket ==
  /\ DOMAIN out.media # {}
  /\ LET i == ExpirePending(out) IN
     \/ \E n \in DOMAIN i.media : Output(TakeMedia(i, n))
     \/ DOMAIN i.media = {} /\ Output(i)
  /\ UNCHANGED <<owner, changes>>

Command ==
  /\ Act("command") /\ CanReceiveControl(out)
  /\ Output(ReceiveControl(out)) /\ UNCHANGED owner

Note ==
  /\ Act("command") /\ CanReceiveNote(out)
  /\ Output(ReceiveNote(out)) /\ UNCHANGED owner

Speak ==
  /\ Act("mic")
  /\ \E s \in DOMAIN out.streams, n \in Slot \ DOMAIN out.mics :
       LET p == [epoch |-> out.epoch, sid |-> s, size |-> 1, config |-> NoStream] IN
       CanReceiveMicrophone(out, p) /\ Output(ReceiveMicrophone(out, n, p))
  /\ UNCHANGED owner

Reply ==
  /\ \E id \in Answerable(out) :
       (\A other \in Answerable(out) : id <= other) /\ Output(TakeReply(out, id))
  /\ UNCHANGED <<owner, changes>>

BackendNext ==
  \/ StartOutput \/ PopStart \/ Take \/ Succeed \/ Fails \/ Lose
  \/ SendPacket \/ Command \/ Note \/ Speak \/ Reply

----------------------------------------------------------------------------
\* Deadlines pass.

RequestDue ==
  /\ "due" \in Acts
  /\ \E t \in DOMAIN out.pending : ~ out.pending[t].due /\ Output(RequestOverdue(out, t))
  /\ UNCHANGED <<owner, changes>>

CommandDue ==
  /\ "due" \in Acts
  /\ \E id \in DOMAIN out.incoming : ~ out.incoming[id].due /\ Output(CommandOverdue(out, id))
  /\ UNCHANGED <<owner, changes>>

AtPhoneDue ==
  /\ "due" \in Acts
  /\ \/ \E id \in DOMAIN input.phones : ~ input.phones[id].due /\ Input(In!PhoneOverdue(input, id))
     \/ \E id \in DOMAIN input.reverse : ~ input.reverse[id].due /\ Input(In!ReverseOverdue(input, id))
  /\ UNCHANGED changes

TimeNext == RequestDue \/ CommandDue \/ AtPhoneDue

----------------------------------------------------------------------------

Next == TickNext \/ UserNext \/ PhoneNext \/ BackendNext \/ TimeNext

Spec == Init /\ [][Next]_vars

\* The executor ticks every few milliseconds, deadlines pass, and take_work is
\* called; whether the backend ever answers is not assumed.
Fairness ==
  /\ WF_vars(ExpireBoth) /\ WF_vars(Collect) /\ WF_vars(Look)
  /\ WF_vars(Drain) /\ WF_vars(Release) /\ WF_vars(SettleStep)
  /\ WF_vars(EventStep) /\ WF_vars(ConfigureStep) /\ WF_vars(MoveStep)
  /\ WF_vars(RequestDue)

FairSpec == Spec /\ Fairness

----------------------------------------------------------------------------
\* Properties

Attached == fwd.epoch = out.epoch /\ Connected(out.phase)

OutputIds == {fwd.active[s].id : s \in DOMAIN fwd.active}

JobsKnown ==
  /\ \A t \in DOMAIN fwd.jobs : t \in Held(out) /\ t \notin owner
  /\ \A t, u \in DOMAIN fwd.jobs :
       fwd.jobs[t].job # "Phone" /\ fwd.jobs[u].job # "Phone" => t = u

ActiveExists ==
  Attached /\ ~ fwd.draining =>
    \A s \in DOMAIN fwd.active :
      \/ fwd.active[s].id \in DOMAIN out.streams
      \/ \E t \in DoneOk("Teardown") : fwd.jobs[t].source = s

\* The coordinator and the output agree.  Its tickets are known to the output
\* until it has collected them, and at most one of them changes the streams;
\* a stream it takes for established exists in the output, or the answer to
\* its teardown waits to be collected, while it is not draining.
TablesAgree == JobsKnown /\ ActiveExists

\* Media goes to streams whose SETUP was acknowledged, in a session that
\* records, for as long as the coordinator holds the stream and has not asked
\* for it to be taken down.  Once it has let go of a session nothing of it is
\* left to play (Core/Forward/README.md: a switch clears the queues of both ends).
MediaAcknowledged ==
  /\ \A n \in DOMAIN out.media :
       LET s == out.media[n].sid IN
       s \in OutputIds /\ ~ TeardownPending(out, s) /\ out.phase = "Streaming"
  /\ ~ fwd.bound \/ fwd.draining => DOMAIN out.media = {}

CommandHandled ==
  \A id \in DOMAIN out.incoming :
    \/ id \in out.events \/ out.incoming[id].replied \/ out.incoming[id].due
    \/ id \in Commands(fwd.reverse)

PhoneHandled ==
  \A id \in DOMAIN input.phones :
    input.phones[id].taken =>
      \E t \in DOMAIN fwd.jobs : /\ fwd.jobs[t].job = "Phone" /\ fwd.jobs[t].phone = id
                                 /\ fwd.jobs[t].generation = input.generation

\* Nothing that was taken is lost.  A command of the car that left the event
\* queue is answered, or its answer is awaited from the phone: only its deadline
\* can end it else; a request taken from the phone has a ticket of the output,
\* so its answer will reach the phone.
NothingTakenIsLost == CommandHandled /\ PhoneHandled

\* A stopped coordinator comes to rest, whether or not the backend answers.
StopCompletes == ~ fwd.enabled ~> fwd.phase = "Inactive" \/ fwd.enabled

\* It does not leave streams in the output that nobody will take down
\* (README.md: a switch closes the streams this coordinator owns;
\* carplay_forward.cpp 198-199: no orphaned stream keeps playing).
NoOrphan ==
  fwd.pc = "idle" /\ ~ fwd.bound => DOMAIN out.streams = {}

\* Media of a configuration goes to a stream set up with it (README.md: no
\* media before the SETUP is acknowledged; a change of configuration closes
\* the old output stream and sets up a new one).
ConfigMatches ==
  \A n \in DOMAIN out.media : \A s \in DOMAIN fwd.active :
    fwd.active[s].id = out.media[n].sid => fwd.active[s].config = out.media[n].config

=============================================================================
