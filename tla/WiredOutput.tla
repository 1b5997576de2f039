---------------------------- MODULE WiredOutput -----------------------------
(***************************************************************************)
(* WiredCarPlayOutput (Output/WiredCarPlay) under an arbitrary application *)
(* and an arbitrary transport backend.  Each public method is one action:  *)
(* the class serialises calls with one mutex, so calls of the application, *)
(* of the backend and of its receiving threads interleave at this grain.   *)
(* Nothing obliges the backend to answer, to answer in order or to answer  *)
(* only once; deadlines pass at any time.                                  *)
(***************************************************************************)
EXTENDS OutputBroker

CONSTANTS
  MaxId,               \* bound: requests and control commands ever numbered
  MaxEpoch,            \* bound: sessions ever started
  MaxNotes             \* bound: queued iAP2 and service events

VARIABLES
  out,                 \* the Impl record
  accepted,            \* history: ids of tickets given to the application
  delivered            \* history: ids whose completion was popped

vars == <<out, accepted, delivered>>

history == <<accepted, delivered>>

Init == /\ out = NewImpl
        /\ accepted = {}
        /\ delivered = {}

----------------------------------------------------------------------------
\* The application

\* submit, start and shutdown.  A refused call still expires what is due.
Submit(op) ==
  LET i == ExpirePending(out)
  IN  /\ out.nextId <= MaxId
      /\ op.kind = "Start" => out.epoch < MaxEpoch
      /\ \/ /\ CanEnqueue(i, op)
            /\ out' = Enqueue(i, op)
            /\ accepted' = accepted \cup {i.nextId}
         \/ /\ ~ CanEnqueue(i, op)
            /\ out' = i
            /\ UNCHANGED accepted
      /\ UNCHANGED delivered

CancelRequest(id) ==
  /\ id \in DOMAIN out.pending
  /\ out' = Cancel(out, id)
  /\ UNCHANGED history

Deliver(id) ==
  /\ id \in DOMAIN out.completions
  /\ out' = PopCompletion(out, id)
  /\ delivered' = delivered \cup {id}
  /\ UNCHANGED accepted

Discard(e) ==
  /\ e = out.epoch
  /\ out' = DiscardMedia(out)
  /\ UNCHANGED history

Packet(e, s, size) == [epoch |-> e, sid |-> s, size |-> size]

Push(slot, p) ==
  /\ slot \notin DOMAIN out.media
  /\ CanPushMedia(out, p)
  /\ out' = PushMedia(out, slot, p)
  /\ UNCHANGED history

PopMic(slot) ==
  /\ slot \in DOMAIN out.mics
  /\ out' = PopMicrophone(out, slot)
  /\ UNCHANGED history

HandleCommand(id) ==
  /\ id \in out.events
  /\ out' = PopCommand(out, id)
  /\ UNCHANGED history

HandleNote ==
  /\ out.notes > 0
  /\ out' = PopNote(out)
  /\ UNCHANGED history

RespondTo(id) ==
  /\ id \in DOMAIN out.incoming
  /\ CanRespond(out, id)
  /\ out' = Respond(out, id)
  /\ UNCHANGED history

ApplicationNext ==
  \/ \E op \in Operation : Submit(op)
  \/ \E id \in DOMAIN out.pending : CancelRequest(id)
  \/ \E id \in DOMAIN out.completions : Deliver(id)

MediaNext ==
  \/ \E slot \in Slot, e \in 0..out.epoch, s \in StreamId, size \in Sizes :
        Push(slot, Packet(e, s, size))
  \/ \E slot \in DOMAIN out.mics : PopMic(slot)
  \/ \E e \in 0..out.epoch : Discard(e)

EventNext ==
  \/ \E id \in out.events : HandleCommand(id)
  \/ HandleNote
  \/ \E id \in DOMAIN out.incoming : RespondTo(id)

----------------------------------------------------------------------------
\* The backend

Take ==
  LET i == ExpirePending(out)
  IN  /\ \/ \E id \in Untaken(i) :
              /\ \A other \in Untaken(i) : id <= other
              /\ out' = TakeWork(i, id)
         \/ Untaken(i) = {} /\ out' = i
      /\ UNCHANGED history

\* An answer to a request that was never taken, is unknown or belongs to an
\* older session changes nothing.
Answered(e, id, ok) ==
  /\ e = out.epoch
  /\ LET i == ExpirePending(out)
     IN  \/ /\ id \in DOMAIN i.pending
            /\ i.pending[id].taken
            /\ out' = Complete(i, id, ok)
         \/ /\ id \notin DOMAIN i.pending
            /\ out' = i
  /\ UNCHANGED history

Progress(e, phase) ==
  /\ e = out.epoch
  /\ CanReportProgress(out)
  /\ out' = ReportProgress(out, phase)
  /\ UNCHANGED history

Lost(e) ==
  /\ e = out.epoch
  /\ out' = Disconnect(out)
  /\ UNCHANGED history

MeasureClock(e) ==
  /\ e = out.epoch
  /\ Connected(out.phase)
  /\ out' = UpdateClock(out)
  /\ UNCHANGED history

TakePacket ==
  LET i == ExpirePending(out)
  IN  /\ \/ \E slot \in DOMAIN i.media : out' = TakeMedia(i, slot)
         \/ DOMAIN i.media = {} /\ out' = i
      /\ UNCHANGED history

MicPacket(slot, p) ==
  /\ slot \notin DOMAIN out.mics
  /\ CanReceiveMicrophone(out, p)
  /\ out' = ReceiveMicrophone(out, slot, p)
  /\ UNCHANGED history

ControlArrives(e) ==
  /\ e = out.epoch
  /\ out.nextId <= MaxId
  /\ CanReceiveControl(out)
  /\ out' = ReceiveControl(out)
  /\ UNCHANGED history

NoteArrives(e) ==
  /\ e = out.epoch
  /\ out.notes < MaxNotes
  /\ CanReceiveNote(out)
  /\ out' = ReceiveNote(out)
  /\ UNCHANGED history

Reply(id) ==
  /\ id \in Answerable(out)
  /\ \A other \in Answerable(out) : id <= other
  /\ out' = TakeReply(out, id)
  /\ UNCHANGED history

Expire ==
  /\ out' = ExpirePending(out)
  /\ UNCHANGED history

BackendNext ==
  \/ Take
  \/ \E e \in 0..out.epoch, id \in DOMAIN out.pending, ok \in BOOLEAN : Answered(e, id, ok)
  \/ \E e \in 0..out.epoch, phase \in BootstrapPhase : Progress(e, phase)
  \/ \E e \in 0..out.epoch : Lost(e)
  \/ Expire

BackendMediaNext ==
  \/ \E e \in 0..out.epoch : MeasureClock(e)
  \/ TakePacket
  \/ \E slot \in Slot, e \in 0..out.epoch, s \in StreamId, size \in Sizes :
        MicPacket(slot, Packet(e, s, size))

BackendEventNext ==
  \/ \E e \in 0..out.epoch : ControlArrives(e) \/ NoteArrives(e)
  \/ \E id \in DOMAIN out.incoming : Reply(id)

----------------------------------------------------------------------------
\* Time

RequestDue(id) ==
  /\ id \in DOMAIN out.pending
  /\ ~ out.pending[id].due
  /\ out' = RequestOverdue(out, id)
  /\ UNCHANGED history

CommandDue(id) ==
  /\ id \in DOMAIN out.incoming
  /\ ~ out.incoming[id].due
  /\ out' = CommandOverdue(out, id)
  /\ UNCHANGED history

TimeNext ==
  \/ \E id \in DOMAIN out.pending : RequestDue(id)
  \/ \E id \in DOMAIN out.incoming : CommandDue(id)

----------------------------------------------------------------------------

Next ==
  \/ ApplicationNext \/ MediaNext \/ EventNext
  \/ BackendNext \/ BackendMediaNext \/ BackendEventNext
  \/ TimeNext

Spec == Init /\ [][Next]_vars

\* API.md (157-160) obliges the backend to call expire periodically and to
\* consume take_reply; deadlines are monotonic-clock times, so they pass.
\* Nothing is assumed of the application or of the backend's answers.
Fairness ==
  /\ WF_vars(Expire)
  /\ WF_vars(\E id \in DOMAIN out.incoming : Reply(id))
  /\ \A id \in 1..MaxId : WF_vars(RequestDue(id)) /\ WF_vars(CommandDue(id))

FairSpec == Spec /\ Fairness

----------------------------------------------------------------------------
\* Safety

\* Every field of the broker has the type output.cpp declares for it, and ids
\* are handed out in order.
TypeOK == ImplType(out) /\ accepted \cup delivered \subseteq 1..(out.nextId - 1)

\* Every ticket the application was given is in exactly one place: still
\* pending, answered and waiting to be popped, or popped.  finish_all, the
\* expiry loop and complete move ids between two containers; none may be
\* lost, duplicated or answered twice.
ExactlyOnce ==
  /\ accepted = Held(out) \cup delivered
  /\ Held(out) \cap delivered = {}
  /\ DOMAIN out.pending \cap DOMAIN out.completions = {}

\* Results that nobody pops count against the queue, so the memory of the
\* broker stays bounded: the one extra place is reserved for a Stop.  Streams
\* are bounded too, though the limit is tested when a Setup is submitted and
\* the stream is added when its answer arrives.
Capacity ==
  /\ Cardinality(Held(out)) <= PendingRequests + 1
  /\ StreamsBounded(out)

\* What an admitted request was checked against still holds when its answer
\* arrives, whatever happened in between (output.cpp 354-370 relies on it:
\* peer is dereferenced, emplace is assumed to insert, Record to have a stream).
\* At most one of those that change the car's state is outstanding.
PendingStillValid == RequestsStillValid(out) /\ OneMutation(out)

\* A session leaves nothing behind: outside Ready and Streaming there is no
\* peer, clock, stream, packet, command or event of the session that ended,
\* and inside there is a peer.
NoResidue == NothingLeft(out)

\* Every packet waiting for the car or for the application is of this session
\* and of a stream that still exists with that leg, and Streaming needs a stream.
NoStalePacket == PacketsLive(out)

\* A control command the application can still pop is one it can still
\* answer: its reply was not given and not handed to the car as a timeout.
EventsAwaitReply == EventsOpen(out)

\* The byte counters are the bytes held, so the unsigned subtraction in the
\* limit test (output.cpp 399, 411) never wraps.
BytesMatch ==
  /\ out.mediaBytes = Bytes(out.media) /\ out.mediaBytes <= MediaBytes
  /\ out.micBytes = Bytes(out.mics) /\ out.micBytes <= MicBytes

----------------------------------------------------------------------------
\* Action properties

\* A change of state already handed to the backend leaves `pending' only with
\* the backend's own answer; a timeout, a cancel or a disconnect instead ends
\* the session, because the car's state is then unknown.  (The call that finds
\* the timeout may be a Start, which opens the next session in the same step.)
UnknownOutcomeEndsSession ==
  [][\A id \in DOMAIN out.pending :
       (/\ out.pending[id].taken /\ Mutation(out.pending[id].op)
        /\ id \notin DOMAIN out'.pending)
       => \/ out'.phase \in {"Failed", "Stopping"}
          \/ out'.epoch # out.epoch
          \/ out'.completions[id].code \in {"Ok", "Failed"}]_vars

\* A popped result was the final word: an answered id never becomes pending
\* again and its result never changes before it is popped.
ResultsAreFinal ==
  [][\A id \in DOMAIN out.completions :
       /\ id \notin DOMAIN out'.pending
       /\ id \in DOMAIN out'.completions => out'.completions[id] = out.completions[id]]_vars

----------------------------------------------------------------------------
\* Liveness

\* Every request is answered, whatever the backend does with it.
RequestsAnswered ==
  \A id \in 1..MaxId : (id \in DOMAIN out.pending) ~> (id \notin DOMAIN out.pending)

\* Every control command of the car gets a reply or dies with its session.
CommandsReplied ==
  \A id \in 1..MaxId : (id \in DOMAIN out.incoming) ~> (id \notin DOMAIN out.incoming)

\* A session that is being opened or closed does not stay so.
NoPhaseStuck ==
  out.phase \in BootstrapPhase \cup {"Stopping"}
    ~> out.phase \notin BootstrapPhase \cup {"Stopping"}
=============================================================================
