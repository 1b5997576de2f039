------------------------- MODULE WiredOutputProofs --------------------------
(***************************************************************************)
(* Proofs about WiredOutput, for every value of the constants.  The broker *)
(* is one record and every call is a function of it, so the argument is    *)
(* made once per function: Coherent, the inductive invariant of the        *)
(* record, is preserved by every operator of OutputBroker.  Then the       *)
(* action properties, and the byte counters, which are sums over queues.  *)
(***************************************************************************)
EXTENDS WiredOutput, FiniteSetTheorems, WellFoundedInduction, TLAPS

Disjoint(i) == DOMAIN i.pending \cap DOMAIN i.completions = {}

\* OneMutation is what makes RequestsStillValid inductive: a second mutation
\* could remove the stream, or start the recording, the first was checked for.
\* NothingLeft gives a connected session its peer and a new one no streams.
Coherent(i) ==
  /\ ImplType(i)
  /\ Disjoint(i)
  /\ RequestsStillValid(i)
  /\ OneMutation(i)
  /\ StreamsBounded(i)
  /\ NothingLeft(i)
  /\ PacketsLive(i)
  /\ EventsOpen(i)

----------------------------------------------------------------------------
\* How the records the helpers build relate to the one they are given

IsImpl(i) == DOMAIN i = DOMAIN NewImpl

SameSession(i, j) ==
  /\ j.incoming = i.incoming /\ j.events = i.events /\ j.notes = i.notes
  /\ j.media = i.media /\ j.mics = i.mics /\ j.streams = i.streams
  /\ j.peer = i.peer /\ j.clock = i.clock

SameRequests(i, j) ==
  /\ j.nextId = i.nextId /\ j.pending = i.pending /\ j.completions = i.completions

NoSession(j) ==
  /\ j.incoming = NoEntry /\ j.events = {} /\ j.notes = 0
  /\ j.media = NoEntry /\ j.mics = NoEntry /\ j.streams = NoEntry
  /\ j.peer = FALSE /\ j.clock = FALSE

MovedToCompletions(i, ids, code, j) ==
  /\ j.pending = [id \in DOMAIN i.pending \ ids |-> i.pending[id]]
  /\ j.completions = [id \in DOMAIN i.completions \cup ids |->
        IF id \in ids THEN [epoch |-> i.epoch, code |-> code] ELSE i.completions[id]]
  /\ j.epoch = i.epoch /\ j.nextId = i.nextId /\ j.phase = i.phase

\* clear_session touches the session and nothing of the request queue.
LEMMA ClearSessionShape ==
  ASSUME NEW i, IsImpl(i)
  PROVE  /\ IsImpl(ClearSession(i)) /\ NoSession(ClearSession(i))
         /\ SameRequests(i, ClearSession(i))
         /\ ClearSession(i).epoch = i.epoch /\ ClearSession(i).phase = i.phase
  BY DEF ClearSession, NewImpl, IsImpl, NoSession, SameRequests

\* An answer moves ids from `pending' to `completions'.
LEMMA AnswerShape ==
  ASSUME NEW i, IsImpl(i), NEW ids \in SUBSET DOMAIN i.pending, NEW code
  PROVE  /\ IsImpl(Answer(i, ids, code)) /\ SameSession(i, Answer(i, ids, code))
         /\ MovedToCompletions(i, ids, code, Answer(i, ids, code))
  BY DEF Answer, NewImpl, Without, Restrict, IsImpl, SameSession, MovedToCompletions

\* A record whose session is empty and whose queue is empty is coherent in
\* every phase that is not connected.
LEMMA NoSessionCoherent ==
  ASSUME NEW j, IsImpl(j), NoSession(j), DOMAIN j.pending = {},
         j.phase \in Phase \ ConnectedPhase, j.epoch \in Nat, j.nextId \in Nat \ {0},
         j.pending \in [DOMAIN j.pending -> PendingEntry],
         j.completions \in [DOMAIN j.completions -> Completion],
         Held(j) \subseteq 1..(j.nextId - 1)
  PROVE  Coherent(j)
<1>1. /\ j.incoming \in [DOMAIN j.incoming -> Inbound]
      /\ j.media \in [DOMAIN j.media -> MediaPacket] /\ DOMAIN j.media \subseteq Slot
      /\ j.mics \in [DOMAIN j.mics -> MediaPacket] /\ DOMAIN j.mics \subseteq Slot
      /\ j.streams \in [DOMAIN j.streams -> Legs] /\ DOMAIN j.streams \subseteq StreamId
      /\ DOMAIN j.incoming = {} /\ DOMAIN j.media = {} /\ DOMAIN j.mics = {}
      /\ DOMAIN j.streams = {}
  BY DEF NoEntry, NoSession
<1>2. ImplType(j)
  <2>1. Held(j) \cup DOMAIN j.incoming \cup j.events \subseteq 1..(j.nextId - 1)
    BY <1>1 DEF NoSession
  <2>2. j.phase \in Phase /\ j.notes \in Nat
    BY DEF NoSession
  <2>3. j.peer \in BOOLEAN /\ j.clock \in BOOLEAN
    BY Zenon DEF NoSession
  <2> QED
    BY <1>1, <2>1, <2>2, <2>3 DEF ImplType, IsImpl
<1>3. RequestsStillValid(j) /\ OneMutation(j) /\ Disjoint(j)
  BY DEF RequestsStillValid, OneMutation, Disjoint
<1>4. StreamsBounded(j)
  BY <1>1, FS_EmptySet, LimitsAssumption DEF StreamsBounded
<1>5. NothingLeft(j) /\ PacketsLive(j) /\ EventsOpen(j)
  BY <1>1 DEF NothingLeft, PacketsLive, QueueLive, EventsOpen, NoSession, Connected, ConnectedPhase
<1> QED
  BY <1>2, <1>3, <1>4, <1>5 DEF Coherent

\* Answering some requests keeps the record coherent and holds the same ids.
LEMMA AnswerCoherent ==
  ASSUME NEW i, Coherent(i), NEW ids \in SUBSET DOMAIN i.pending, NEW code \in Code
  PROVE  /\ Coherent(Answer(i, ids, code))
         /\ Held(Answer(i, ids, code)) = Held(i)
<1> DEFINE j == Answer(i, ids, code)
<1>1. IsImpl(i)
  BY DEF Coherent, ImplType, IsImpl
<1>2. IsImpl(j) /\ SameSession(i, j) /\ MovedToCompletions(i, ids, code, j)
  BY <1>1, AnswerShape
<1> HIDE DEF j
<1>3. Held(j) = Held(i)
  BY <1>2 DEF Held, MovedToCompletions
<1>4. ImplType(j)
  BY <1>2, <1>3 DEF Coherent, ImplType, Completion, MovedToCompletions, SameSession, IsImpl
<1>5. RequestsStillValid(j)
  BY <1>2 DEF Coherent, RequestsStillValid, StillValid, MovedToCompletions, SameSession
<1>6. OneMutation(j) /\ Disjoint(j)
  BY <1>2 DEF Coherent, OneMutation, Disjoint, MovedToCompletions
<1>7. NothingLeft(j) /\ PacketsLive(j) /\ EventsOpen(j) /\ StreamsBounded(j)
  BY <1>2 DEF Coherent, StreamsBounded, NothingLeft, PacketsLive, QueueLive, EventsOpen,
              MovedToCompletions, SameSession
<1> QED
  BY <1>3, <1>4, <1>5, <1>6, <1>7 DEF Coherent, j

\* fail() ends in the state in which every broken session ends.
LEMMA FailCoherent ==
  ASSUME NEW i, Coherent(i), NEW code \in Code
  PROVE  /\ Coherent(Fail(i, code))
         /\ Held(Fail(i, code)) = Held(i)
         /\ DOMAIN Fail(i, code).pending = {}
         /\ Fail(i, code).phase = "Failed"
         /\ Fail(i, code).epoch = i.epoch
         /\ Fail(i, code).nextId = i.nextId
<1> DEFINE f == [i EXCEPT !.phase = "Failed"]
           a == Answer(f, DOMAIN f.pending, code)
           j == ClearSession(a)
<1>0. j = Fail(i, code)
  BY DEF Fail, FinishAll
<1>1. IsImpl(i)
  BY DEF Coherent, ImplType, IsImpl
<1>2. IsImpl(f) /\ SameRequests(i, f) /\ f.phase = "Failed" /\ f.epoch = i.epoch
  BY <1>1 DEF NewImpl, IsImpl, SameRequests
<1> HIDE DEF f
<1>3. IsImpl(a) /\ MovedToCompletions(f, DOMAIN f.pending, code, a)
  BY <1>2, AnswerShape
<1> HIDE DEF a
<1>4. IsImpl(j) /\ NoSession(j) /\ SameRequests(a, j) /\ j.epoch = a.epoch /\ j.phase = a.phase
  BY <1>3, ClearSessionShape
<1> HIDE DEF j
<1>5. j.phase = "Failed" /\ j.epoch = i.epoch /\ j.nextId = i.nextId
  BY <1>2, <1>3, <1>4 DEF SameRequests, MovedToCompletions
<1>6. DOMAIN j.pending = {} /\ j.pending \in [DOMAIN j.pending -> PendingEntry]
  BY <1>2, <1>3, <1>4 DEF SameRequests, MovedToCompletions
<1>7. Held(j) = Held(i)
  BY <1>2, <1>3, <1>4 DEF SameRequests, MovedToCompletions, Held
<1>8. j.completions \in [DOMAIN j.completions -> Completion]
  BY <1>2, <1>3, <1>4 DEF SameRequests, MovedToCompletions, Completion, Coherent, ImplType
<1>9. j.phase \in Phase \ ConnectedPhase
  BY <1>5 DEF Phase, ConnectedPhase
<1>10. Held(j) \subseteq 1..(j.nextId - 1) /\ j.epoch \in Nat /\ j.nextId \in Nat \ {0}
  BY <1>5, <1>7 DEF Coherent, ImplType
<1>11. Coherent(j)
  BY <1>4, <1>6, <1>8, <1>9, <1>10, NoSessionCoherent
<1> QED
  BY <1>0, <1>5, <1>6, <1>7, <1>11

\* expire_pending keeps the record coherent and the ids it holds.
LEMMA ExpirePendingCoherent ==
  ASSUME NEW i, Coherent(i)
  PROVE  /\ Coherent(ExpirePending(i))
         /\ Held(ExpirePending(i)) = Held(i)
         /\ ExpirePending(i).epoch = i.epoch
         /\ ExpirePending(i).nextId = i.nextId
<1>1. DueRequests(i) \in SUBSET DOMAIN i.pending /\ "Timeout" \in Code /\ IsImpl(i)
  BY DEF DueRequests, Code, Coherent, ImplType, IsImpl
<1>2. CASE \E id \in DueRequests(i) : FatalTimeout(i.pending[id])
  BY <1>1, <1>2, FailCoherent DEF ExpirePending
<1>3. CASE ~ \E id \in DueRequests(i) : FatalTimeout(i.pending[id])
  <2> DEFINE j == Answer(i, DueRequests(i), "Timeout")
  <2>1. Coherent(j) /\ Held(j) = Held(i) /\ MovedToCompletions(i, DueRequests(i), "Timeout", j)
    BY <1>1, AnswerCoherent, AnswerShape
  <2>2. ExpirePending(i) = j
    BY <1>3 DEF ExpirePending
  <2> QED
    BY <2>1, <2>2 DEF MovedToCompletions
<1> QED
  BY <1>2, <1>3

----------------------------------------------------------------------------
\* Calls that touch only the request queue, or only the session's queues

\* Marking requests as taken or due, or dropping popped results.
LEMMA RequestsMarkedCoherent ==
  ASSUME NEW i, Coherent(i), NEW j, IsImpl(j), SameSession(i, j),
         j.epoch = i.epoch, j.nextId = i.nextId, j.phase = i.phase,
         j.pending \in [DOMAIN i.pending -> PendingEntry],
         \A id \in DOMAIN i.pending : j.pending[id].op = i.pending[id].op,
         j.completions \in [DOMAIN j.completions -> Completion],
         DOMAIN j.completions \subseteq DOMAIN i.completions
  PROVE  Coherent(j)
<1>1. DOMAIN j.pending = DOMAIN i.pending /\ Held(j) \subseteq Held(i)
  BY DEF Held
<1>2. ImplType(j)
  BY <1>1 DEF Coherent, ImplType, SameSession, IsImpl
<1>3. RequestsStillValid(j)
  BY <1>1 DEF Coherent, RequestsStillValid, StillValid, SameSession
<1>4. OneMutation(j) /\ Disjoint(j)
  BY <1>1 DEF Coherent, OneMutation, Disjoint
<1>5. NothingLeft(j) /\ PacketsLive(j) /\ EventsOpen(j) /\ StreamsBounded(j)
  BY DEF Coherent, StreamsBounded, NothingLeft, PacketsLive, QueueLive, EventsOpen, SameSession
<1> QED
  BY <1>2, <1>3, <1>4, <1>5 DEF Coherent

SessionType(j) ==
  /\ j.notes \in Nat /\ j.clock \in BOOLEAN
  /\ j.media \in [DOMAIN j.media -> MediaPacket] /\ DOMAIN j.media \subseteq Slot
  /\ j.mics \in [DOMAIN j.mics -> MediaPacket] /\ DOMAIN j.mics \subseteq Slot
  /\ j.incoming \in [DOMAIN j.incoming -> Inbound]

\* A change of the packet queues, the events, the commands or the clock while
\* the session, its streams and the request queue stay as they are.
LEMMA SessionQueuesCoherent ==
  ASSUME NEW i, Coherent(i), NEW j, IsImpl(j),
         j.pending = i.pending, j.completions = i.completions,
         j.nextId \in Nat \ {0}, i.nextId <= j.nextId,
         j.epoch = i.epoch, j.phase = i.phase, j.streams = i.streams, j.peer = i.peer,
         SessionType(j),
         DOMAIN j.incoming \cup j.events \subseteq 1..(j.nextId - 1),
         QueueLive(i, j.media, "out"), QueueLive(i, j.mics, "mic"), EventsOpen(j),
         ~ Connected(i.phase) =>
            /\ ~ j.clock /\ DOMAIN j.media = {} /\ DOMAIN j.mics = {}
            /\ DOMAIN j.incoming = {} /\ j.events = {} /\ j.notes = 0
  PROVE  Coherent(j)
<1>1. Held(j) \subseteq 1..(i.nextId - 1)
  BY DEF Held, Coherent, ImplType
<1>2. i.nextId \in Nat
  BY DEF Coherent, ImplType
<1>3. 1..(i.nextId - 1) \subseteq 1..(j.nextId - 1)
  BY <1>2
<1>4. Held(j) \cup DOMAIN j.incoming \cup j.events \subseteq 1..(j.nextId - 1)
  BY <1>1, <1>3
<1>5. ImplType(j)
  BY <1>4 DEF Coherent, ImplType, SessionType, IsImpl
<1>6. RequestsStillValid(j) /\ OneMutation(j) /\ Disjoint(j)
  BY DEF Coherent, RequestsStillValid, StillValid, OneMutation, Disjoint
<1>7. StreamsBounded(j)
  BY DEF Coherent, StreamsBounded
<1>8. NothingLeft(j)
  BY DEF Coherent, NothingLeft
<1>9. PacketsLive(j)
  BY DEF Coherent, PacketsLive, QueueLive
<1> QED
  BY <1>5, <1>6, <1>7, <1>8, <1>9 DEF Coherent

\* Popping a result frees its id for good.
LEMMA PopCompletionCoherent ==
  ASSUME NEW i, Coherent(i), NEW id \in DOMAIN i.completions
  PROVE  /\ Coherent(PopCompletion(i, id))
         /\ DOMAIN PopCompletion(i, id).pending = DOMAIN i.pending
         /\ DOMAIN PopCompletion(i, id).completions = DOMAIN i.completions \ {id}
         /\ PopCompletion(i, id).nextId = i.nextId
<1> DEFINE j == PopCompletion(i, id)
<1>1. IsImpl(i) /\ i.completions \in [DOMAIN i.completions -> Completion]
      /\ i.pending \in [DOMAIN i.pending -> PendingEntry]
  BY DEF Coherent, ImplType, IsImpl
<1>2. /\ IsImpl(j) /\ SameSession(i, j) /\ j.epoch = i.epoch /\ j.nextId = i.nextId
      /\ j.phase = i.phase /\ j.pending = i.pending
      /\ j.completions = [x \in DOMAIN i.completions \ {id} |-> i.completions[x]]
  BY <1>1 DEF PopCompletion, IsImpl, NewImpl, SameSession, Without, Restrict
<1> HIDE DEF j
<1>3. j.completions \in [DOMAIN j.completions -> Completion]
      /\ DOMAIN j.completions = DOMAIN i.completions \ {id}
  BY <1>1, <1>2
<1>4. Coherent(j)
  BY <1>1, <1>2, <1>3, RequestsMarkedCoherent
<1> QED
  BY <1>2, <1>3, <1>4 DEF j

\* take_work marks a request and the clock makes one overdue.
LEMMA MarkCoherent ==
  ASSUME NEW i, Coherent(i), NEW id \in DOMAIN i.pending, NEW j,
         \/ j = TakeWork(i, id)
         \/ j = RequestOverdue(i, id)
  PROVE  /\ Coherent(j) /\ DOMAIN j.pending = DOMAIN i.pending
         /\ j.completions = i.completions /\ j.nextId = i.nextId
<1>1. IsImpl(i) /\ i.pending \in [DOMAIN i.pending -> PendingEntry]
      /\ i.completions \in [DOMAIN i.completions -> Completion]
  BY DEF Coherent, ImplType, IsImpl
<1>2. /\ IsImpl(j) /\ SameSession(i, j) /\ j.epoch = i.epoch /\ j.nextId = i.nextId
      /\ j.phase = i.phase /\ j.completions = i.completions
      /\ \/ j.pending = [i.pending EXCEPT ![id] = [i.pending[id] EXCEPT !.taken = TRUE]]
         \/ j.pending = [i.pending EXCEPT ![id] = [i.pending[id] EXCEPT !.due = TRUE]]
  BY <1>1 DEF TakeWork, RequestOverdue, IsImpl, NewImpl, SameSession
<1>3. ASSUME NEW p \in PendingEntry
      PROVE  /\ [p EXCEPT !.taken = TRUE] \in PendingEntry
             /\ [p EXCEPT !.due = TRUE] \in PendingEntry
             /\ [p EXCEPT !.taken = TRUE].op = p.op
             /\ [p EXCEPT !.due = TRUE].op = p.op
  BY DEF PendingEntry
<1>4. \E q \in PendingEntry : /\ j.pending = [i.pending EXCEPT ![id] = q]
                              /\ q.op = i.pending[id].op
  BY <1>1, <1>2, <1>3
<1>5. /\ j.pending \in [DOMAIN i.pending -> PendingEntry]
      /\ \A x \in DOMAIN i.pending : j.pending[x].op = i.pending[x].op
  BY <1>1, <1>4
<1>6. Coherent(j)
  BY <1>1, <1>2, <1>5, RequestsMarkedCoherent
<1> QED
  BY <1>2, <1>5, <1>6

\* The fields a call on the session's queues leaves alone.
Kept(i, j) ==
  /\ IsImpl(j)
  /\ j.pending = i.pending /\ j.completions = i.completions
  /\ j.epoch = i.epoch /\ j.phase = i.phase /\ j.streams = i.streams /\ j.peer = i.peer

\* What the coherence of i says of its session's queues.
LEMMA CoherentSession ==
  ASSUME NEW i, Coherent(i)
  PROVE  /\ IsImpl(i) /\ SessionType(i) /\ i.nextId \in Nat \ {0} /\ i.nextId <= i.nextId
         /\ DOMAIN i.incoming \cup i.events \subseteq 1..(i.nextId - 1)
         /\ QueueLive(i, i.media, "out") /\ QueueLive(i, i.mics, "mic") /\ EventsOpen(i)
         /\ ~ Connected(i.phase) =>
              /\ ~ i.clock /\ DOMAIN i.media = {} /\ DOMAIN i.mics = {}
              /\ DOMAIN i.incoming = {} /\ i.events = {} /\ i.notes = 0
<1>1. IsImpl(i) /\ SessionType(i) /\ i.nextId \in Nat \ {0}
      /\ DOMAIN i.incoming \cup i.events \subseteq 1..(i.nextId - 1)
  BY DEF Coherent, ImplType, IsImpl, SessionType
<1> QED
  BY <1>1 DEF Coherent, PacketsLive, NothingLeft

\* push_media and receive_microphone queue only packets of a live stream.
LEMMA PacketQueuedCoherent ==
  ASSUME NEW i, Coherent(i), NEW slot \in Slot, NEW p \in MediaPacket
  PROVE  /\ PacketValid(i, p, "out") =>
              Coherent(PushMedia(i, slot, p)) /\ SameRequests(i, PushMedia(i, slot, p))
         /\ PacketValid(i, p, "mic") =>
              Coherent(ReceiveMicrophone(i, slot, p)) /\ SameRequests(i, ReceiveMicrophone(i, slot, p))
<1>1. /\ IsImpl(i) /\ SessionType(i) /\ i.nextId \in Nat \ {0} /\ i.nextId <= i.nextId
      /\ DOMAIN i.incoming \cup i.events \subseteq 1..(i.nextId - 1)
      /\ QueueLive(i, i.media, "out") /\ QueueLive(i, i.mics, "mic") /\ EventsOpen(i)
  BY CoherentSession
<1>2. ASSUME PacketValid(i, p, "out")
      PROVE  Coherent(PushMedia(i, slot, p)) /\ SameRequests(i, PushMedia(i, slot, p))
  <2> DEFINE j == PushMedia(i, slot, p)
  <2>1. /\ Kept(i, j) /\ j.nextId = i.nextId /\ j.clock = i.clock /\ j.mics = i.mics
        /\ j.incoming = i.incoming /\ j.events = i.events /\ j.notes = i.notes
        /\ j.media = Put(i.media, slot, p)
    BY <1>1 DEF PushMedia, IsImpl, NewImpl, Kept
  <2> HIDE DEF j
  <2>2. SessionType(j)
    BY <1>1, <2>1 DEF SessionType, Put
  <2>3. QueueLive(i, j.media, "out") /\ Connected(i.phase)
    BY <1>1, <1>2, <2>1 DEF QueueLive, Put, PacketValid, Connected, ConnectedPhase
  <2>4. EventsOpen(j)
    BY <1>1, <2>1 DEF EventsOpen
  <2>5. Coherent(j)
    BY <1>1, <2>1, <2>2, <2>3, <2>4, SessionQueuesCoherent DEF Kept
  <2> QED
    BY <2>1, <2>5 DEF j, Kept, SameRequests
<1>3. ASSUME PacketValid(i, p, "mic")
      PROVE  Coherent(ReceiveMicrophone(i, slot, p)) /\ SameRequests(i, ReceiveMicrophone(i, slot, p))
  <2> DEFINE j == ReceiveMicrophone(i, slot, p)
  <2>1. /\ Kept(i, j) /\ j.nextId = i.nextId /\ j.clock = i.clock /\ j.media = i.media
        /\ j.incoming = i.incoming /\ j.events = i.events /\ j.notes = i.notes
        /\ j.mics = Put(i.mics, slot, p)
    BY <1>1 DEF ReceiveMicrophone, IsImpl, NewImpl, Kept
  <2> HIDE DEF j
  <2>2. SessionType(j)
    BY <1>1, <2>1 DEF SessionType, Put
  <2>3. QueueLive(i, j.mics, "mic") /\ Connected(i.phase)
    BY <1>1, <1>3, <2>1 DEF QueueLive, Put, PacketValid, Connected, ConnectedPhase
  <2>4. EventsOpen(j)
    BY <1>1, <2>1 DEF EventsOpen
  <2>5. Coherent(j)
    BY <1>1, <2>1, <2>2, <2>3, <2>4, SessionQueuesCoherent DEF Kept
  <2> QED
    BY <2>1, <2>5 DEF j, Kept, SameRequests
<1> QED
  BY <1>2, <1>3

\* Popping or discarding packets.
LEMMA PacketsDroppedCoherent ==
  ASSUME NEW i, Coherent(i), NEW j,
         \/ j = DiscardMedia(i)
         \/ \E slot \in DOMAIN i.mics : j = PopMicrophone(i, slot)
         \/ \E slot \in DOMAIN i.media : j = TakeMedia(i, slot)
  PROVE  Coherent(j) /\ SameRequests(i, j)
<1>1. /\ IsImpl(i) /\ SessionType(i) /\ i.nextId \in Nat \ {0} /\ i.nextId <= i.nextId
      /\ DOMAIN i.incoming \cup i.events \subseteq 1..(i.nextId - 1)
      /\ QueueLive(i, i.media, "out") /\ QueueLive(i, i.mics, "mic") /\ EventsOpen(i)
      /\ ~ Connected(i.phase) =>
           /\ ~ i.clock /\ DOMAIN i.media = {} /\ DOMAIN i.mics = {}
           /\ DOMAIN i.incoming = {} /\ i.events = {} /\ i.notes = 0
  BY CoherentSession
<1> DEFINE Dropped ==
             /\ Kept(i, j) /\ j.nextId = i.nextId /\ j.clock = i.clock
             /\ j.incoming = i.incoming /\ j.events = i.events /\ j.notes = i.notes
             /\ \E gone \in SUBSET DOMAIN i.media : j.media = Without(i.media, gone)
             /\ \E gone \in SUBSET DOMAIN i.mics : j.mics = Without(i.mics, gone)
<1>2. Dropped
  <2>0. i.media \in [DOMAIN i.media -> MediaPacket] /\ i.mics \in [DOMAIN i.mics -> MediaPacket]
    BY <1>1 DEF SessionType
  <2>1. /\ Without(i.media, DOMAIN i.media) = NoEntry /\ Without(i.mics, DOMAIN i.mics) = NoEntry
        /\ Without(i.media, {}) = i.media /\ Without(i.mics, {}) = i.mics
    BY <2>0 DEF Without, Restrict, NoEntry
  <2>2. CASE j = DiscardMedia(i)
    BY <1>1, <2>1, <2>2 DEF DiscardMedia, IsImpl, NewImpl, Kept
  <2>3. ASSUME NEW slot \in DOMAIN i.mics, j = PopMicrophone(i, slot)
        PROVE  Dropped
    <3>1. /\ Kept(i, j) /\ j.nextId = i.nextId /\ j.clock = i.clock /\ j.media = i.media
          /\ j.incoming = i.incoming /\ j.events = i.events /\ j.notes = i.notes
          /\ j.mics = Without(i.mics, {slot})
      BY <1>1, <2>3 DEF PopMicrophone, IsImpl, NewImpl, Kept
    <3> QED
      BY <2>1, <3>1
  <2>4. ASSUME NEW slot \in DOMAIN i.media, j = TakeMedia(i, slot)
        PROVE  Dropped
    <3>1. /\ Kept(i, j) /\ j.nextId = i.nextId /\ j.clock = i.clock /\ j.mics = i.mics
          /\ j.incoming = i.incoming /\ j.events = i.events /\ j.notes = i.notes
          /\ j.media = Without(i.media, {slot})
      BY <1>1, <2>4 DEF TakeMedia, IsImpl, NewImpl, Kept
    <3> QED
      BY <2>1, <3>1
  <2> QED
    BY <2>2, <2>3, <2>4
<1>3. SessionType(j)
  BY <1>1, <1>2 DEF SessionType, Without, Restrict
<1>4. QueueLive(i, j.media, "out") /\ QueueLive(i, j.mics, "mic")
  BY <1>1, <1>2 DEF QueueLive, Without, Restrict
<1>5. EventsOpen(j)
  BY <1>1, <1>2 DEF EventsOpen
<1>6. ~ Connected(i.phase) => DOMAIN j.media = {} /\ DOMAIN j.mics = {}
  BY <1>1, <1>2 DEF Without, Restrict
<1>7. Coherent(j)
  BY <1>1, <1>2, <1>3, <1>4, <1>5, <1>6, SessionQueuesCoherent DEF Kept
<1> QED
  BY <1>2, <1>7 DEF Kept, SameRequests

\* Respond, take_reply, pop_event, the arrival of commands and events, the
\* deadline of a command and the clock measurement.
EventCall(i, j) ==
  \/ \E id \in DOMAIN i.incoming : j = Respond(i, id)
  \/ \E id \in DOMAIN i.incoming : j = TakeReply(i, id)
  \/ \E id \in DOMAIN i.incoming : j = CommandOverdue(i, id)
  \/ \E id \in i.events : j = PopCommand(i, id)
  \/ i.notes > 0 /\ j = PopNote(i)
  \/ CanReceiveControl(i) /\ j = ReceiveControl(i)
  \/ CanReceiveNote(i) /\ j = ReceiveNote(i)
  \/ Connected(i.phase) /\ j = UpdateClock(i)

\* The events and commands after such a call: which of them may have changed.
EventsChanged(i, j) ==
  /\ Kept(i, j) /\ j.media = i.media /\ j.mics = i.mics
  /\ \/ j.incoming = i.incoming /\ j.events \subseteq i.events
     \/ \E id \in DOMAIN i.incoming :
          /\ j.incoming = [i.incoming EXCEPT ![id] = [i.incoming[id] EXCEPT !.replied = TRUE]]
          /\ j.events = i.events \ {id}
     \/ \E id \in DOMAIN i.incoming :
          /\ j.incoming = [i.incoming EXCEPT ![id] = [i.incoming[id] EXCEPT !.due = TRUE]]
          /\ j.events = i.events
     \/ \E id \in DOMAIN i.incoming :
          j.incoming = Without(i.incoming, {id}) /\ j.events = i.events \ {id}
     \/ /\ Connected(i.phase) /\ j.nextId = i.nextId + 1
        /\ j.incoming = Put(i.incoming, i.nextId, [replied |-> FALSE, due |-> FALSE])
        /\ j.events = i.events \cup {i.nextId}
  /\ j.nextId = i.nextId \/ j.nextId = i.nextId + 1
  /\ j.notes \in Nat /\ (~ Connected(i.phase) => j.notes = i.notes \/ i.notes > 0)
  /\ j.clock = i.clock \/ (Connected(i.phase) /\ j.clock = TRUE)

LEMMA EventCallShape ==
  ASSUME NEW i, Coherent(i), NEW j, EventCall(i, j)
  PROVE  EventsChanged(i, j)
<1>1. IsImpl(i) /\ i.notes \in Nat /\ i.nextId \in Nat
  BY DEF Coherent, ImplType, IsImpl
<1>2. ASSUME NEW id \in DOMAIN i.incoming, j = Respond(i, id)
      PROVE  EventsChanged(i, j)
  BY <1>1, <1>2 DEF Respond, IsImpl, NewImpl, Kept, EventsChanged
<1>3. ASSUME NEW id \in DOMAIN i.incoming, j = TakeReply(i, id)
      PROVE  EventsChanged(i, j)
  BY <1>1, <1>3 DEF TakeReply, IsImpl, NewImpl, Kept, EventsChanged
<1>4. ASSUME NEW id \in DOMAIN i.incoming, j = CommandOverdue(i, id)
      PROVE  EventsChanged(i, j)
  BY <1>1, <1>4 DEF CommandOverdue, IsImpl, NewImpl, Kept, EventsChanged
<1>5. ASSUME NEW id \in i.events, j = PopCommand(i, id)
      PROVE  EventsChanged(i, j)
  BY <1>1, <1>5 DEF PopCommand, IsImpl, NewImpl, Kept, EventsChanged
<1>6. CASE i.notes > 0 /\ j = PopNote(i)
  BY <1>1, <1>6 DEF PopNote, IsImpl, NewImpl, Kept, EventsChanged
<1>7. CASE CanReceiveControl(i) /\ j = ReceiveControl(i)
  BY <1>1, <1>7 DEF CanReceiveControl, ReceiveControl, IsImpl, NewImpl, Kept, EventsChanged
<1>8. CASE CanReceiveNote(i) /\ j = ReceiveNote(i)
  <2>1. Connected(i.phase)
    BY <1>8 DEF CanReceiveNote
  <2> QED
    BY <1>1, <1>8, <2>1 DEF ReceiveNote, IsImpl, NewImpl, Kept, EventsChanged
<1>9. CASE Connected(i.phase) /\ j = UpdateClock(i)
  BY <1>1, <1>9 DEF UpdateClock, IsImpl, NewImpl, Kept, EventsChanged
<1> QED
  BY <1>2, <1>3, <1>4, <1>5, <1>6, <1>7, <1>8, <1>9 DEF EventCall

LEMMA EventCallCoherent ==
  ASSUME NEW i, Coherent(i), NEW j, EventCall(i, j)
  PROVE  /\ Coherent(j) /\ i.nextId <= j.nextId
         /\ j.pending = i.pending /\ j.completions = i.completions
<1>1. /\ IsImpl(i) /\ SessionType(i) /\ i.nextId \in Nat \ {0}
      /\ DOMAIN i.incoming \cup i.events \subseteq 1..(i.nextId - 1)
      /\ QueueLive(i, i.media, "out") /\ QueueLive(i, i.mics, "mic") /\ EventsOpen(i)
      /\ ~ Connected(i.phase) =>
           /\ ~ i.clock /\ DOMAIN i.media = {} /\ DOMAIN i.mics = {}
           /\ DOMAIN i.incoming = {} /\ i.events = {} /\ i.notes = 0
  BY CoherentSession
<1>2. EventsChanged(i, j)
  BY EventCallShape
<1>3. Kept(i, j) /\ j.media = i.media /\ j.mics = i.mics
  BY <1>2 DEF EventsChanged
<1>4. j.nextId \in Nat \ {0} /\ i.nextId <= j.nextId
  BY <1>1, <1>2 DEF EventsChanged
<1> DEFINE Good ==
             /\ j.incoming \in [DOMAIN j.incoming -> Inbound]
             /\ DOMAIN j.incoming \cup j.events \subseteq 1..(j.nextId - 1)
             /\ EventsOpen(j)
             /\ ~ Connected(i.phase) => DOMAIN j.incoming = {} /\ j.events = {}
<1>5. Good
  <2>0. /\ i.incoming \in [DOMAIN i.incoming -> Inbound]
        /\ 1..(i.nextId - 1) \subseteq 1..(j.nextId - 1)
        /\ DOMAIN i.incoming \cup i.events \subseteq 1..(j.nextId - 1)
    BY <1>1, <1>4 DEF SessionType
  <2>1. ASSUME NEW r \in Inbound
        PROVE  /\ [r EXCEPT !.replied = TRUE] \in Inbound
               /\ [r EXCEPT !.due = TRUE] \in Inbound
               /\ [r EXCEPT !.due = TRUE].replied = r.replied
    BY DEF Inbound
  <2>2. ASSUME j.incoming = i.incoming, j.events \subseteq i.events
        PROVE  Good
    BY <1>1, <2>0, <2>2 DEF EventsOpen
  <2>3. ASSUME NEW id \in DOMAIN i.incoming, NEW r \in Inbound,
               j.incoming = [i.incoming EXCEPT ![id] = r],
               \/ j.events = i.events \ {id}
               \/ j.events = i.events /\ r.replied = i.incoming[id].replied
        PROVE  Good
    BY <1>1, <2>0, <2>3 DEF EventsOpen
  <2>4. ASSUME NEW id \in DOMAIN i.incoming,
               j.incoming = Without(i.incoming, {id}), j.events = i.events \ {id}
        PROVE  Good
    BY <1>1, <2>0, <2>4 DEF EventsOpen, Without, Restrict
  <2>5. ASSUME Connected(i.phase), j.nextId = i.nextId + 1,
               j.incoming = Put(i.incoming, i.nextId, [replied |-> FALSE, due |-> FALSE]),
               j.events = i.events \cup {i.nextId}
        PROVE  Good
    <3>1. DOMAIN j.incoming = DOMAIN i.incoming \cup {i.nextId} /\ i.nextId \in 1..(j.nextId - 1)
      BY <1>1, <2>5 DEF Put
    <3>2. j.incoming \in [DOMAIN j.incoming -> Inbound]
      BY <2>0, <2>5 DEF Put, Inbound
    <3>3. i.nextId \notin i.events /\ i.nextId \notin DOMAIN i.incoming
      BY <1>1
    <3>4. EventsOpen(j)
      BY <1>1, <2>0, <2>5, <3>1, <3>3 DEF EventsOpen, Put
    <3> QED
      BY <2>0, <2>5, <3>1, <3>2, <3>4
  <2> HIDE DEF Good
  <2>6. ASSUME NEW id \in DOMAIN i.incoming,
               j.incoming = [i.incoming EXCEPT ![id] = [i.incoming[id] EXCEPT !.replied = TRUE]],
               j.events = i.events \ {id}
        PROVE  Good
    BY <2>0, <2>1, <2>3, <2>6
  <2>7. ASSUME NEW id \in DOMAIN i.incoming,
               j.incoming = [i.incoming EXCEPT ![id] = [i.incoming[id] EXCEPT !.due = TRUE]],
               j.events = i.events
        PROVE  Good
    BY <2>0, <2>1, <2>3, <2>7
  <2> QED
    BY <1>2, <2>2, <2>4, <2>5, <2>6, <2>7 DEF EventsChanged
<1>6. SessionType(j)
  <2>1. j.clock \in BOOLEAN
    BY <1>1, <1>2 DEF EventsChanged, SessionType
  <2> QED
    BY <1>1, <1>2, <1>3, <1>5, <2>1 DEF EventsChanged, SessionType
<1>7. ~ Connected(i.phase) => ~ j.clock /\ j.notes = 0
  BY <1>1, <1>2 DEF EventsChanged
<1>8. QueueLive(i, j.media, "out") /\ QueueLive(i, j.mics, "mic")
  BY <1>1, <1>3
<1>9. ~ Connected(i.phase) => DOMAIN j.media = {} /\ DOMAIN j.mics = {}
  BY <1>1, <1>3
<1>10. Coherent(j)
  BY <1>3, <1>4, <1>5, <1>6, <1>7, <1>8, <1>9, SessionQueuesCoherent DEF Kept
<1> QED
  BY <1>3, <1>4, <1>10 DEF Kept

----------------------------------------------------------------------------
\* Admission

\* Once the session was opened, closed or checked for op, op may be queued.
Opened(j, op) ==
  /\ op.kind = "Start" => j.phase \in BootstrapPhase /\ DOMAIN j.pending = {}
  /\ op.kind = "Stop" => j.phase = "Stopping" /\ DOMAIN j.pending = {}
  /\ ~ Lifecycle(op) => Validate(j, op)

LEMMA QueuedCoherent ==
  ASSUME NEW i, Coherent(i), NEW op \in Operation, Opened(i, op), NEW j, IsImpl(j),
         SameSession(i, j), j.phase = i.phase, j.epoch = i.epoch,
         j.completions = i.completions, j.nextId = i.nextId + 1,
         j.pending = Put(i.pending, i.nextId, [op |-> op, taken |-> FALSE, due |-> FALSE])
  PROVE  Coherent(j) /\ Held(j) = Held(i) \cup {i.nextId}
<1>1. /\ IsImpl(i) /\ i.nextId \in Nat \ {0} /\ i.pending \in [DOMAIN i.pending -> PendingEntry]
      /\ Held(i) \cup DOMAIN i.incoming \cup i.events \subseteq 1..(i.nextId - 1)
  BY DEF Coherent, ImplType, IsImpl
<1>2. /\ DOMAIN j.pending = DOMAIN i.pending \cup {i.nextId}
      /\ j.pending[i.nextId].op = op
      /\ \A id \in DOMAIN i.pending : j.pending[id] = i.pending[id]
      /\ j.pending \in [DOMAIN j.pending -> PendingEntry]
  <2>1. i.nextId \notin DOMAIN i.pending
    BY <1>1 DEF Held
  <2> QED
    BY <1>1, <2>1 DEF Put, PendingEntry
<1>3. Held(j) = Held(i) \cup {i.nextId}
  BY <1>2 DEF Held
<1>4. Held(j) \cup DOMAIN j.incoming \cup j.events \subseteq 1..(j.nextId - 1)
  BY <1>1, <1>3 DEF SameSession
<1>5. ImplType(j)
  <2>1. j.nextId \in Nat \ {0}
    BY <1>1
  <2> QED
    BY <1>2, <1>4, <2>1 DEF Coherent, ImplType, SameSession, IsImpl
<1>6. RequestsStillValid(j)
  <2>1. ASSUME NEW id \in DOMAIN i.pending
        PROVE  StillValid(j, id)
    <3>1. StillValid(i, id)
      BY DEF Coherent, RequestsStillValid
    <3>2. CASE Lifecycle(op)
      BY <2>1, <3>2 DEF Opened, Lifecycle
    <3>3. CASE ~ Lifecycle(op)
      <4>1. Connected(i.phase) /\ j.phase = i.phase /\ j.streams = i.streams
        BY <3>3 DEF Opened, Validate, SameSession
      <4>2. ~ Lifecycle(i.pending[id].op)
        BY <3>1, <4>1 DEF StillValid, Connected, ConnectedPhase, BootstrapPhase, Lifecycle
      <4> QED
        BY <1>2, <3>1, <4>1, <4>2 DEF StillValid, Lifecycle
    <3> QED
      BY <3>2, <3>3
  <2>2. StillValid(j, i.nextId)
    <3>1. CASE Lifecycle(op)
      BY <1>2, <3>1 DEF Opened, StillValid, Lifecycle
    <3>2. CASE ~ Lifecycle(op)
      <4>1. Validate(i, op)
        BY <3>2 DEF Opened
      <4>2. op.kind = "Record" => i.phase = "Ready"
        BY <4>1 DEF Validate, Connected, ConnectedPhase
      <4> QED
        BY <1>2, <3>2, <4>1, <4>2 DEF Validate, StillValid, SameSession, Lifecycle
    <3> QED
      BY <3>1, <3>2
  <2> QED
    BY <1>2, <2>1, <2>2 DEF RequestsStillValid
<1>7. OneMutation(j)
  <2>1. CASE Mutation(op) /\ ~ Lifecycle(op)
    <3>1. ~ Mutating(i)
      BY <2>1 DEF Opened, Validate
    <3> QED
      BY <1>2, <3>1 DEF OneMutation, Mutating
  <2>2. CASE ~ Mutation(op)
    BY <1>2, <2>2 DEF OneMutation, Coherent
  <2> QED
    BY <2>1, <2>2 DEF Mutation, Lifecycle
<1>8. NothingLeft(j) /\ PacketsLive(j) /\ EventsOpen(j) /\ StreamsBounded(j)
  BY DEF Coherent, StreamsBounded, NothingLeft, PacketsLive, QueueLive, EventsOpen, SameSession
<1>9. Disjoint(j)
  BY <1>1, <1>2 DEF Disjoint, Coherent, Held
<1> QED
  BY <1>3, <1>5, <1>6, <1>7, <1>8, <1>9 DEF Coherent

\* Outside a session that is being opened, used or closed nothing is pending.
LEMMA NothingPendingAtRest ==
  ASSUME NEW i, Coherent(i), i.phase \in {"Idle", "Closed", "Failed"}
  PROVE  DOMAIN i.pending = {}
<1>1. ASSUME NEW id \in DOMAIN i.pending PROVE FALSE
  <2>1. StillValid(i, id)
    BY DEF Coherent, RequestsStillValid
  <2> QED
    BY <2>1 DEF StillValid, Connected, ConnectedPhase, BootstrapPhase, Lifecycle
<1> QED
  BY <1>1

LEMMA OpenRequestCoherent ==
  ASSUME NEW i, Coherent(i), NEW op \in Operation, CanEnqueue(i, op)
  PROVE  LET j == OpenRequest(i, op)
         IN  /\ Coherent(j) /\ Opened(j, op) /\ Held(j) = Held(i)
             /\ j.nextId = i.nextId /\ IsImpl(j)
             /\ j.epoch = i.epoch \/ (op.kind = "Start" /\ j.epoch = i.epoch + 1)
<1> DEFINE j == OpenRequest(i, op)
<1>1. IsImpl(i) /\ i.epoch \in Nat
      /\ i.pending \in [DOMAIN i.pending -> PendingEntry]
      /\ i.completions \in [DOMAIN i.completions -> Completion]
      /\ Held(i) \subseteq 1..(i.nextId - 1) /\ i.nextId \in Nat \ {0}
  BY DEF Coherent, ImplType, IsImpl
<1> DEFINE c == ClearSession(i)
<1>2. CASE op.kind = "Start"
  <2>1. DOMAIN i.pending = {}
    BY <1>2, NothingPendingAtRest DEF CanEnqueue
  <2>2. IsImpl(c) /\ NoSession(c) /\ SameRequests(i, c) /\ c.epoch = i.epoch
    BY <1>1, ClearSessionShape
  <2>3. j = [c EXCEPT !.epoch = @ + 1, !.phase = "Starting"]
    BY <1>2 DEF OpenRequest
  <2> HIDE DEF c, j
  <2>4. /\ IsImpl(j) /\ NoSession(j) /\ SameRequests(i, j)
        /\ j.phase = "Starting" /\ j.epoch = i.epoch + 1
    BY <2>2, <2>3 DEF IsImpl, NewImpl, NoSession, SameRequests
  <2>5. /\ Held(j) = Held(i) /\ DOMAIN j.pending = {} /\ j.nextId = i.nextId
        /\ j.pending \in [DOMAIN j.pending -> PendingEntry]
        /\ j.completions \in [DOMAIN j.completions -> Completion]
    BY <1>1, <2>1, <2>4 DEF Held, SameRequests
  <2>6. j.phase \in Phase \ ConnectedPhase
    BY <2>4 DEF Phase, ConnectedPhase, BootstrapPhase
  <2>7. Coherent(j)
    BY <1>1, <2>4, <2>5, <2>6, NoSessionCoherent
  <2>8. Opened(j, op)
    BY <1>2, <2>4, <2>5 DEF Opened, Lifecycle, BootstrapPhase
  <2> QED
    BY <1>2, <2>4, <2>5, <2>7, <2>8 DEF j
<1>3. CASE op.kind = "Stop"
  <2> DEFINE a == Answer(i, DOMAIN i.pending, "Cancelled")
             d == ClearSession(a)
  <2>1. Coherent(a) /\ Held(a) = Held(i)
    BY AnswerCoherent DEF Code
  <2>2. IsImpl(a) /\ MovedToCompletions(i, DOMAIN i.pending, "Cancelled", a)
    BY <1>1, AnswerShape
  <2>3. j = [d EXCEPT !.phase = "Stopping"]
    BY <1>3 DEF OpenRequest, FinishAll
  <2> HIDE DEF a
  <2>4. IsImpl(d) /\ NoSession(d) /\ SameRequests(a, d) /\ d.epoch = a.epoch
    BY <2>2, ClearSessionShape
  <2> HIDE DEF d, j
  <2>5. /\ IsImpl(j) /\ NoSession(j) /\ SameRequests(a, j)
        /\ j.phase = "Stopping" /\ j.epoch = i.epoch
    BY <2>2, <2>3, <2>4 DEF IsImpl, NewImpl, NoSession, SameRequests, MovedToCompletions
  <2>6. /\ DOMAIN j.pending = {} /\ j.nextId = i.nextId
        /\ j.pending \in [DOMAIN j.pending -> PendingEntry]
    BY <2>2, <2>5 DEF SameRequests, MovedToCompletions
  <2>7. Held(j) = Held(i) /\ j.completions \in [DOMAIN j.completions -> Completion]
    BY <2>1, <2>5 DEF Held, SameRequests, Coherent, ImplType
  <2>8. j.phase \in Phase \ ConnectedPhase
    BY <2>5 DEF Phase, ConnectedPhase, BootstrapPhase
  <2>9. Coherent(j)
    BY <1>1, <2>5, <2>6, <2>7, <2>8, NoSessionCoherent
  <2>10. Opened(j, op)
    BY <1>3, <2>5, <2>6 DEF Opened, Lifecycle
  <2> QED
    BY <2>5, <2>6, <2>7, <2>9, <2>10 DEF j
<1>4. CASE ~ Lifecycle(op)
  <2>1. j = i
    BY <1>4 DEF OpenRequest, Lifecycle
  <2>2. Opened(i, op)
    BY <1>4 DEF CanEnqueue, Opened, Lifecycle
  <2> QED
    BY <1>1, <2>1, <2>2
<1> QED
  BY <1>2, <1>3, <1>4 DEF Lifecycle

\* An admitted request takes the next id, and nothing else enters the queue.
LEMMA EnqueueCoherent ==
  ASSUME NEW i, Coherent(i), NEW op \in Operation, CanEnqueue(i, op)
  PROVE  /\ Coherent(Enqueue(i, op))
         /\ Held(Enqueue(i, op)) = Held(i) \cup {i.nextId}
         /\ Enqueue(i, op).nextId = i.nextId + 1
<1> DEFINE o == OpenRequest(i, op)
           j == Enqueue(i, op)
<1>1. /\ Coherent(o) /\ Opened(o, op) /\ Held(o) = Held(i)
      /\ o.nextId = i.nextId /\ IsImpl(o)
  BY OpenRequestCoherent
<1>2. j = [o EXCEPT !.nextId = @ + 1,
                    !.pending = Put(@, i.nextId, [op |-> op, taken |-> FALSE, due |-> FALSE])]
  BY DEF Enqueue
<1> HIDE DEF o, j
<1>3. /\ IsImpl(j) /\ SameSession(o, j) /\ j.phase = o.phase /\ j.epoch = o.epoch
      /\ j.completions = o.completions /\ j.nextId = o.nextId + 1
      /\ j.pending = Put(o.pending, o.nextId, [op |-> op, taken |-> FALSE, due |-> FALSE])
  BY <1>1, <1>2 DEF IsImpl, NewImpl, SameSession
<1>4. Coherent(j) /\ Held(j) = Held(o) \cup {o.nextId}
  BY <1>1, <1>3, QueuedCoherent
<1> QED
  BY <1>1, <1>3, <1>4 DEF j

----------------------------------------------------------------------------
\* The backend's answer

\* What the queue of j is once the request id of i was answered, with the
\* session of r.
ResultMoved(i, id, r, j) ==
  /\ IsImpl(j) /\ SameSession(r, j) /\ j.phase = r.phase
  /\ j.epoch = i.epoch /\ j.nextId = i.nextId
  /\ j.pending = [x \in DOMAIN i.pending \ {id} |-> i.pending[x]]
  /\ j.pending \in [DOMAIN j.pending -> PendingEntry]
  /\ j.completions \in [DOMAIN j.completions -> Completion]
  /\ DOMAIN j.completions = DOMAIN i.completions \cup {id}
  /\ Held(j) = Held(i) /\ Held(j) \subseteq 1..(j.nextId - 1)

\* complete after ApplyResult turned i into r: the request leaves the queue.
LEMMA ResultQueued ==
  ASSUME NEW i, Coherent(i), NEW id \in DOMAIN i.pending, NEW code \in Code,
         NEW r, IsImpl(r), SameRequests(i, r), r.epoch = i.epoch
  PROVE  ResultMoved(i, id, r, Answer(r, {id}, code))
<1> DEFINE j == Answer(r, {id}, code)
<1>1. /\ i.pending \in [DOMAIN i.pending -> PendingEntry]
      /\ i.completions \in [DOMAIN i.completions -> Completion]
      /\ Held(i) \subseteq 1..(i.nextId - 1) /\ i.epoch \in Nat
  BY DEF Coherent, ImplType
<1>2. {id} \in SUBSET DOMAIN r.pending
  BY DEF SameRequests
<1>3. IsImpl(j) /\ SameSession(r, j) /\ MovedToCompletions(r, {id}, code, j)
  BY <1>2, AnswerShape
<1> HIDE DEF j
<1>4. /\ j.phase = r.phase /\ j.epoch = i.epoch /\ j.nextId = i.nextId
      /\ j.pending = [x \in DOMAIN i.pending \ {id} |-> i.pending[x]]
      /\ j.completions = [x \in DOMAIN i.completions \cup {id} |->
           IF x \in {id} THEN [epoch |-> i.epoch, code |-> code] ELSE i.completions[x]]
  BY <1>3 DEF MovedToCompletions, SameRequests
<1>5. j.pending \in [DOMAIN j.pending -> PendingEntry]
  BY <1>1, <1>4
<1>6. /\ j.completions \in [DOMAIN j.completions -> Completion]
      /\ DOMAIN j.completions = DOMAIN i.completions \cup {id}
  BY <1>1, <1>4 DEF Completion
<1>7. Held(j) = Held(i)
  BY <1>4, <1>6 DEF Held
<1> QED
  BY <1>1, <1>3, <1>4, <1>5, <1>6, <1>7 DEF j, ResultMoved

\* A lifecycle request is alone in the queue; its answer opens the session
\* or leaves none.
LEMMA LifecycleAnswered ==
  ASSUME NEW i, Coherent(i), NEW id \in DOMAIN i.pending, NEW ok \in BOOLEAN,
         Lifecycle(i.pending[id].op)
  PROVE  Coherent(Complete(i, id, ok)) /\ Held(Complete(i, id, ok)) = Held(i)
<1> DEFINE op == i.pending[id].op
           r == ApplyResult(i, op, ok)
           j == Complete(i, id, ok)
           code == IF ok THEN "Ok" ELSE "Failed"
<1>1. IsImpl(i) /\ code \in Code /\ i.epoch \in Nat /\ i.nextId \in Nat \ {0}
  BY DEF Coherent, ImplType, IsImpl, Code
<1>2. DOMAIN i.pending = {id} /\ ~ Connected(i.phase)
  <2>1. StillValid(i, id)
    BY DEF Coherent, RequestsStillValid
  <2> QED
    BY <2>1 DEF StillValid, Lifecycle, Connected, ConnectedPhase, BootstrapPhase
<1>3. j = Answer(r, {id}, code)
  BY DEF Complete
<1>4. CASE op.kind = "Start" /\ ok
  <2>1. r = [i EXCEPT !.peer = TRUE, !.phase = "Ready"]
    BY <1>4 DEF ApplyResult
  <2> HIDE DEF r
  <2>2. /\ IsImpl(r) /\ SameRequests(i, r) /\ r.epoch = i.epoch /\ r.phase = "Ready"
        /\ r.peer = TRUE /\ r.clock = i.clock /\ r.streams = i.streams
        /\ r.media = i.media /\ r.mics = i.mics
        /\ r.incoming = i.incoming /\ r.events = i.events /\ r.notes = i.notes
    BY <1>1, <2>1 DEF IsImpl, NewImpl, SameRequests
  <2> HIDE DEF code
  <2>3. ResultMoved(i, id, r, j)
    BY <1>1, <1>3, <2>2, ResultQueued
  <2> HIDE DEF j
  <2>4. DOMAIN j.pending = {} /\ RequestsStillValid(j) /\ OneMutation(j) /\ Disjoint(j)
    BY <1>2, <2>3 DEF ResultMoved, RequestsStillValid, OneMutation, Disjoint
  <2>5. /\ ~ i.clock /\ DOMAIN i.streams = {} /\ DOMAIN i.media = {} /\ DOMAIN i.mics = {}
        /\ DOMAIN i.incoming = {} /\ i.events = {} /\ i.notes = 0
    BY <1>2 DEF Coherent, NothingLeft
  <2>6. /\ j.peer = TRUE /\ j.phase = "Ready" /\ j.streams = i.streams
        /\ j.media = i.media /\ j.mics = i.mics /\ j.clock = i.clock
        /\ j.incoming = i.incoming /\ j.events = i.events /\ j.notes = i.notes
    BY <2>2, <2>3 DEF SameSession, ResultMoved
  <2>7. NothingLeft(j) /\ PacketsLive(j) /\ EventsOpen(j) /\ StreamsBounded(j)
    BY <2>5, <2>6 DEF NothingLeft, PacketsLive, QueueLive, EventsOpen, Connected, ConnectedPhase,
                      StreamsBounded, Coherent
  <2>8. ImplType(j)
    <3>1. j.peer \in BOOLEAN /\ j.phase \in Phase
      BY <2>6 DEF Phase, ConnectedPhase
    <3>2. Held(j) \cup DOMAIN j.incoming \cup j.events \subseteq 1..(j.nextId - 1)
      BY <2>3, <2>5, <2>6 DEF ResultMoved
    <3> QED
      BY <1>1, <2>3, <2>6, <3>1, <3>2 DEF Coherent, ImplType, IsImpl, ResultMoved
  <2> QED
    BY <2>3, <2>4, <2>7, <2>8 DEF Coherent, ResultMoved, j
<1>5. CASE op.kind = "Stop" \/ ~ ok
  <2> DEFINE f == [i EXCEPT !.phase = IF op.kind = "Stop" /\ ok THEN "Closed" ELSE "Failed"]
             c == ClearSession(f)
  <2>1. r = c
    BY <1>5, <1>1 DEF ApplyResult, Lifecycle
  <2>2. IsImpl(f) /\ SameRequests(i, f) /\ f.epoch = i.epoch /\ f.phase \in {"Closed", "Failed"}
    BY <1>1 DEF IsImpl, NewImpl, SameRequests
  <2> HIDE DEF f
  <2>3. IsImpl(c) /\ NoSession(c) /\ SameRequests(f, c) /\ c.epoch = f.epoch /\ c.phase = f.phase
    BY <2>2, ClearSessionShape
  <2> HIDE DEF c, r, code
  <2>4. SameRequests(i, r) /\ r.epoch = i.epoch /\ r.phase \in {"Closed", "Failed"} /\ IsImpl(r)
        /\ NoSession(r)
    BY <2>1, <2>2, <2>3 DEF SameRequests
  <2>5. ResultMoved(i, id, r, j)
    BY <1>1, <1>3, <2>4, ResultQueued
  <2> HIDE DEF j
  <2>6. NoSession(j) /\ j.phase \in Phase \ ConnectedPhase /\ DOMAIN j.pending = {}
    BY <1>2, <2>4, <2>5 DEF NoSession, SameSession, Phase, ConnectedPhase, ResultMoved
  <2>7. Coherent(j)
    BY <1>1, <2>5, <2>6, NoSessionCoherent DEF ResultMoved
  <2> QED
    BY <2>5, <2>7 DEF j, ResultMoved
<1> QED
  BY <1>4, <1>5 DEF Lifecycle

\* While a mutation is outstanding, every other request is a plain send.
LEMMA OthersAreSends ==
  ASSUME NEW i, Coherent(i), NEW id \in DOMAIN i.pending, Mutation(i.pending[id].op)
  PROVE  /\ Connected(i.phase)
         /\ \A x \in DOMAIN i.pending \ {id} : i.pending[x].op.kind = "Send"
<1>1. \A x \in DOMAIN i.pending : i.pending[x].op \in Operation
  BY DEF Coherent, ImplType, PendingEntry
<1>2. StillValid(i, id) /\ ~ Lifecycle(i.pending[id].op)
  BY DEF Coherent, RequestsStillValid, Mutation, Lifecycle
<1>3. Connected(i.phase)
  BY <1>2 DEF StillValid
<1>4. ASSUME NEW x \in DOMAIN i.pending \ {id}
      PROVE  i.pending[x].op.kind = "Send"
  <2>1. ~ Mutation(i.pending[x].op)
    BY <1>4 DEF Coherent, OneMutation
  <2>2. ~ Lifecycle(i.pending[x].op)
    <3>1. StillValid(i, x)
      BY <1>4 DEF Coherent, RequestsStillValid
    <3> QED
      BY <1>3, <3>1 DEF StillValid, Lifecycle, Connected, ConnectedPhase, BootstrapPhase
  <2>3. i.pending[x].op.kind \in PlainKind \cup {"Setup", "Teardown"}
    BY <1>1, <1>4 DEF Operation, Plain, SetupOf, TeardownOf
  <2> QED
    BY <2>1, <2>2, <2>3 DEF Mutation, Lifecycle, PlainKind
<1> QED
  BY <1>3, <1>4

\* A successful mutation: the session of r is in order and the other requests
\* are sends, so the answered record is coherent.
LEMMA MutationAnswered ==
  ASSUME NEW i, Coherent(i), NEW id \in DOMAIN i.pending, Mutation(i.pending[id].op),
         NEW r, NEW j, ResultMoved(i, id, r, j),
         Connected(r.phase), r.peer = TRUE, r.clock = i.clock,
         r.incoming = i.incoming, r.events = i.events, r.notes = i.notes,
         r.media \in [DOMAIN r.media -> MediaPacket], DOMAIN r.media \subseteq Slot,
         r.mics \in [DOMAIN r.mics -> MediaPacket], DOMAIN r.mics \subseteq Slot,
         r.streams \in [DOMAIN r.streams -> Legs], DOMAIN r.streams \subseteq StreamId,
         StreamsBounded(r), PacketsLive(r), r.epoch = i.epoch
  PROVE  Coherent(j) /\ Held(j) = Held(i)
<1>1. \A x \in DOMAIN i.pending \ {id} : i.pending[x].op.kind = "Send"
  BY OthersAreSends
<1>2. /\ j.phase = r.phase /\ j.streams = r.streams /\ j.media = r.media /\ j.mics = r.mics
      /\ j.incoming = i.incoming /\ j.events = i.events /\ j.notes = i.notes
      /\ j.clock = i.clock /\ j.peer = TRUE /\ j.epoch = i.epoch
      /\ j.pending = [x \in DOMAIN i.pending \ {id} |-> i.pending[x]]
  BY DEF ResultMoved, SameSession
<1>3. ImplType(j)
  <2>1. j.phase \in Phase
    BY <1>2 DEF Connected, Phase
  <2>2. j.peer \in BOOLEAN
    BY <1>2
  <2>3. Held(j) \cup DOMAIN j.incoming \cup j.events \subseteq 1..(j.nextId - 1)
    BY <1>2 DEF ResultMoved, Coherent, ImplType
  <2> QED
    BY <1>2, <2>1, <2>2, <2>3 DEF ResultMoved, Coherent, ImplType, IsImpl
<1>4. RequestsStillValid(j)
  BY <1>1, <1>2 DEF RequestsStillValid, StillValid, Lifecycle
<1>5. OneMutation(j) /\ Disjoint(j)
  BY <1>1, <1>2 DEF OneMutation, Mutation, Disjoint, ResultMoved, Coherent
<1>6. StreamsBounded(j) /\ PacketsLive(j)
  BY <1>2 DEF StreamsBounded, PacketsLive, QueueLive
<1>7. NothingLeft(j)
  BY <1>2 DEF NothingLeft
<1>8. EventsOpen(j)
  BY <1>2 DEF EventsOpen, Coherent
<1> QED
  BY <1>3, <1>4, <1>5, <1>6, <1>7, <1>8 DEF Coherent, ResultMoved

LEMMA SetupAnswered ==
  ASSUME NEW i, Coherent(i), NEW id \in DOMAIN i.pending, i.pending[id].op.kind = "Setup"
  PROVE  Coherent(Complete(i, id, TRUE)) /\ Held(Complete(i, id, TRUE)) = Held(i)
<1> DEFINE op == i.pending[id].op
           r == ApplyResult(i, op, TRUE)
           j == Complete(i, id, TRUE)
<1>1. IsImpl(i) /\ Mutation(op) /\ op \in Operation /\ "Ok" \in Code
  BY DEF Coherent, ImplType, IsImpl, Mutation, PendingEntry, Code
<1>2. op.sid \in StreamId /\ op.legs \in Legs
  BY <1>1 DEF Operation, Plain, SetupOf, TeardownOf, PlainKind
<1>3. /\ Connected(i.phase) /\ i.peer = TRUE
      /\ op.sid \notin DOMAIN i.streams /\ Cardinality(DOMAIN i.streams) < MaxStreams
  <2>1. StillValid(i, id)
    BY DEF Coherent, RequestsStillValid
  <2>2. Connected(i.phase)
    BY <2>1 DEF StillValid, Lifecycle
  <2>3. i.peer = TRUE
    BY <2>2 DEF Coherent, NothingLeft, ImplType
  <2> QED
    BY <2>1, <2>2, <2>3 DEF StillValid
<1>4. r = [i EXCEPT !.streams = Put(@, op.sid, op.legs)]
  BY <1>3 DEF ApplyResult
<1>5. j = Answer(r, {id}, "Ok")
  BY DEF Complete
<1> HIDE DEF r, j
<1>6. /\ IsImpl(r) /\ SameRequests(i, r) /\ r.epoch = i.epoch /\ r.phase = i.phase
      /\ r.peer = i.peer /\ r.clock = i.clock /\ r.streams = Put(i.streams, op.sid, op.legs)
      /\ r.media = i.media /\ r.mics = i.mics
      /\ r.incoming = i.incoming /\ r.events = i.events /\ r.notes = i.notes
  BY <1>1, <1>4 DEF IsImpl, NewImpl, SameRequests
<1>7. ResultMoved(i, id, r, j)
  BY <1>1, <1>5, <1>6, ResultQueued
<1> HIDE DEF op
<1>8. /\ r.streams \in [DOMAIN r.streams -> Legs] /\ DOMAIN r.streams \subseteq StreamId
      /\ DOMAIN r.streams = DOMAIN i.streams \cup {op.sid}
      /\ \A s \in DOMAIN i.streams : r.streams[s] = i.streams[s]
  BY <1>2, <1>3, <1>6 DEF Put, Coherent, ImplType
<1>9. StreamsBounded(r)
  <2>1. IsFiniteSet(DOMAIN i.streams)
    BY DEF Coherent, StreamsBounded
  <2>2. Cardinality(DOMAIN i.streams) \in Nat
    BY <2>1, FS_CardinalityType
  <2>3. /\ IsFiniteSet(DOMAIN r.streams)
        /\ Cardinality(DOMAIN r.streams) = Cardinality(DOMAIN i.streams) + 1
    BY <1>3, <1>8, <2>1, FS_AddElement
  <2> QED
    BY <1>3, <2>2, <2>3, LimitsAssumption DEF StreamsBounded
<1>10. PacketsLive(r)
  BY <1>6, <1>8 DEF PacketsLive, QueueLive, Coherent
<1>11. /\ r.media \in [DOMAIN r.media -> MediaPacket] /\ DOMAIN r.media \subseteq Slot
       /\ r.mics \in [DOMAIN r.mics -> MediaPacket] /\ DOMAIN r.mics \subseteq Slot
  BY <1>6 DEF Coherent, ImplType
<1>12. Coherent(j) /\ Held(j) = Held(i)
  BY <1>1, <1>3, <1>6, <1>7, <1>8, <1>9, <1>10, <1>11, MutationAnswered DEF op
<1> QED
  BY <1>12 DEF j

LEMMA TeardownAnswered ==
  ASSUME NEW i, Coherent(i), NEW id \in DOMAIN i.pending, i.pending[id].op.kind = "Teardown"
  PROVE  Coherent(Complete(i, id, TRUE)) /\ Held(Complete(i, id, TRUE)) = Held(i)
<1> DEFINE op == i.pending[id].op
           r == ApplyResult(i, op, TRUE)
           j == Complete(i, id, TRUE)
<1>1. IsImpl(i) /\ Mutation(op) /\ "Ok" \in Code
  BY DEF Coherent, ImplType, IsImpl, Mutation, Code
<1>2. Connected(i.phase) /\ i.peer = TRUE
  <2>1. StillValid(i, id)
    BY DEF Coherent, RequestsStillValid
  <2>2. Connected(i.phase)
    BY <2>1 DEF StillValid, Lifecycle
  <2> QED
    BY <2>2 DEF Coherent, NothingLeft, ImplType
<1>3. r = RemoveStream(i, op.sid)
  BY DEF ApplyResult
<1>4. j = Answer(r, {id}, "Ok")
  BY DEF Complete
<1> HIDE DEF r, j, op
<1>5. /\ IsImpl(r) /\ SameRequests(i, r) /\ r.epoch = i.epoch
      /\ r.phase = (IF DOMAIN i.streams \subseteq {op.sid} THEN "Ready" ELSE i.phase)
      /\ r.peer = i.peer /\ r.clock = i.clock /\ r.streams = Without(i.streams, {op.sid})
      /\ r.media = Without(i.media, PacketsOf(i.media, op.sid))
      /\ r.mics = Without(i.mics, PacketsOf(i.mics, op.sid))
      /\ r.incoming = i.incoming /\ r.events = i.events /\ r.notes = i.notes
  BY <1>1, <1>3 DEF RemoveStream, IsImpl, NewImpl, SameRequests
<1>6. ResultMoved(i, id, r, j)
  BY <1>1, <1>4, <1>5, ResultQueued
<1>7. /\ r.streams \in [DOMAIN r.streams -> Legs] /\ DOMAIN r.streams \subseteq StreamId
      /\ DOMAIN r.streams = DOMAIN i.streams \ {op.sid}
      /\ \A s \in DOMAIN r.streams : r.streams[s] = i.streams[s]
  BY <1>5 DEF Without, Restrict, Coherent, ImplType
<1>8. StreamsBounded(r)
  <2>1. IsFiniteSet(DOMAIN i.streams) /\ Cardinality(DOMAIN i.streams) <= MaxStreams
    BY DEF Coherent, StreamsBounded
  <2>2. /\ IsFiniteSet(DOMAIN r.streams)
        /\ Cardinality(DOMAIN r.streams) <= Cardinality(DOMAIN i.streams)
    BY <1>7, <2>1, FS_Subset
  <2>3. Cardinality(DOMAIN i.streams) \in Nat /\ Cardinality(DOMAIN r.streams) \in Nat
    BY <2>1, <2>2, FS_CardinalityType
  <2> QED
    BY <2>1, <2>2, <2>3, LimitsAssumption DEF StreamsBounded
<1>9. /\ r.media \in [DOMAIN r.media -> MediaPacket] /\ DOMAIN r.media \subseteq Slot
      /\ r.mics \in [DOMAIN r.mics -> MediaPacket] /\ DOMAIN r.mics \subseteq Slot
  BY <1>5 DEF Without, Restrict, Coherent, ImplType
<1>10. PacketsLive(r)
  <2>1. r.phase = "Streaming" => DOMAIN r.streams # {}
    BY <1>5, <1>7
  <2>2. QueueLive(r, r.media, "out")
    BY <1>5, <1>7 DEF QueueLive, PacketsLive, PacketsOf, Without, Restrict, Coherent
  <2>3. QueueLive(r, r.mics, "mic")
    BY <1>5, <1>7 DEF QueueLive, PacketsLive, PacketsOf, Without, Restrict, Coherent
  <2> QED
    BY <2>1, <2>2, <2>3 DEF PacketsLive
<1>11. Connected(r.phase)
  BY <1>2, <1>5 DEF Connected, ConnectedPhase
<1>12. Coherent(j) /\ Held(j) = Held(i)
  BY <1>1, <1>2, <1>5, <1>6, <1>7, <1>8, <1>9, <1>10, <1>11, MutationAnswered, ZenonT(30) DEF op
<1> QED
  BY <1>12 DEF j

LEMMA RecordAnswered ==
  ASSUME NEW i, Coherent(i), NEW id \in DOMAIN i.pending, i.pending[id].op.kind = "Record"
  PROVE  Coherent(Complete(i, id, TRUE)) /\ Held(Complete(i, id, TRUE)) = Held(i)
<1> DEFINE op == i.pending[id].op
           r == ApplyResult(i, op, TRUE)
           j == Complete(i, id, TRUE)
<1>1. IsImpl(i) /\ Mutation(op) /\ "Ok" \in Code
  BY DEF Coherent, ImplType, IsImpl, Mutation, Code
<1>2. Connected(i.phase) /\ i.peer = TRUE /\ DOMAIN i.streams # {}
  <2>1. StillValid(i, id)
    BY DEF Coherent, RequestsStillValid
  <2>2. Connected(i.phase)
    BY <2>1 DEF StillValid, Lifecycle
  <2>3. i.peer = TRUE
    BY <2>2 DEF Coherent, NothingLeft, ImplType
  <2> QED
    BY <2>1, <2>2, <2>3 DEF StillValid
<1>3. r = [i EXCEPT !.phase = "Streaming"]
  BY DEF ApplyResult
<1>4. j = Answer(r, {id}, "Ok")
  BY DEF Complete
<1> HIDE DEF r, j, op
<1>5. /\ IsImpl(r) /\ SameRequests(i, r) /\ r.epoch = i.epoch /\ r.phase = "Streaming"
      /\ r.peer = i.peer /\ r.clock = i.clock /\ r.streams = i.streams
      /\ r.media = i.media /\ r.mics = i.mics
      /\ r.incoming = i.incoming /\ r.events = i.events /\ r.notes = i.notes
  BY <1>1, <1>3 DEF IsImpl, NewImpl, SameRequests
<1>6. ResultMoved(i, id, r, j)
  BY <1>1, <1>4, <1>5, ResultQueued
<1>7. /\ r.media \in [DOMAIN r.media -> MediaPacket] /\ DOMAIN r.media \subseteq Slot
      /\ r.mics \in [DOMAIN r.mics -> MediaPacket] /\ DOMAIN r.mics \subseteq Slot
      /\ r.streams \in [DOMAIN r.streams -> Legs] /\ DOMAIN r.streams \subseteq StreamId
  BY <1>5 DEF Coherent, ImplType
<1>8. StreamsBounded(r) /\ PacketsLive(r) /\ Connected(r.phase)
  BY <1>2, <1>5 DEF StreamsBounded, PacketsLive, QueueLive, Coherent, Connected, ConnectedPhase
<1>9. Coherent(j) /\ Held(j) = Held(i)
  BY <1>1, <1>2, <1>5, <1>6, <1>7, <1>8, MutationAnswered DEF op
<1> QED
  BY <1>9 DEF j

\* Whatever the backend answers, the record stays coherent and keeps its ids.
LEMMA CompleteCoherent ==
  ASSUME NEW i, Coherent(i), NEW id \in DOMAIN i.pending, NEW ok \in BOOLEAN
  PROVE  Coherent(Complete(i, id, ok)) /\ Held(Complete(i, id, ok)) = Held(i)
<1> DEFINE op == i.pending[id].op
<1>1. CASE Lifecycle(op)
  BY <1>1, LifecycleAnswered
<1>2. CASE ok /\ op.kind \in {"Setup", "Teardown", "Record"}
  <2>1. ok = TRUE
    BY <1>2
  <2> QED
    BY <1>2, <2>1, SetupAnswered, TeardownAnswered, RecordAnswered
<1>3. CASE ~ Lifecycle(op) /\ ~ (ok /\ op.kind \in {"Setup", "Teardown", "Record"})
  <2>1. ApplyResult(i, op, ok) = i
    BY <1>3 DEF ApplyResult, Lifecycle
  <2>2. Complete(i, id, ok) = Answer(i, {id}, IF ok THEN "Ok" ELSE "Failed")
    BY <2>1 DEF Complete
  <2>3. (IF ok THEN "Ok" ELSE "Failed") \in Code
    BY DEF Code
  <2> QED
    BY <2>2, <2>3, AnswerCoherent
<1> QED
  BY <1>1, <1>2, <1>3

LEMMA CancelCoherent ==
  ASSUME NEW i, Coherent(i), NEW id \in DOMAIN i.pending
  PROVE  /\ Coherent(Cancel(i, id)) /\ Held(Cancel(i, id)) = Held(i)
         /\ Cancel(i, id).nextId = i.nextId
<1> DEFINE p == i.pending[id]
           a == Answer(i, {id}, "Cancelled")
           j == Cancel(i, id)
<1>1. IsImpl(i) /\ "Cancelled" \in Code /\ i.epoch \in Nat /\ i.nextId \in Nat \ {0}
  BY DEF Coherent, ImplType, IsImpl, Code
<1>2. Coherent(a) /\ Held(a) = Held(i) /\ IsImpl(a) /\ MovedToCompletions(i, {id}, "Cancelled", a)
  BY <1>1, AnswerCoherent, AnswerShape
<1>3. CASE CancelFails(p)
  BY <1>1, <1>3, FailCoherent DEF Cancel
<1>4. CASE ~ CancelFails(p) /\ ~ Lifecycle(p.op)
  BY <1>2, <1>4 DEF Cancel, MovedToCompletions
<1>5. CASE ~ CancelFails(p) /\ Lifecycle(p.op)
  <2> DEFINE c == ClearSession(a)
  <2>1. j = [c EXCEPT !.phase = "Closed"]
    BY <1>5 DEF Cancel
  <2>2. DOMAIN i.pending = {id}
    <3>1. StillValid(i, id)
      BY DEF Coherent, RequestsStillValid
    <3> QED
      BY <1>5, <3>1 DEF StillValid, Lifecycle
  <2> HIDE DEF a
  <2>3. IsImpl(c) /\ NoSession(c) /\ SameRequests(a, c) /\ c.epoch = a.epoch
    BY <1>2, ClearSessionShape
  <2> HIDE DEF c, j
  <2>4. /\ IsImpl(j) /\ NoSession(j) /\ SameRequests(a, j)
        /\ j.phase = "Closed" /\ j.epoch = a.epoch
    BY <2>1, <2>3 DEF IsImpl, NewImpl, NoSession, SameRequests
  <2>5. /\ DOMAIN j.pending = {} /\ j.nextId = i.nextId /\ j.epoch = i.epoch
        /\ j.pending \in [DOMAIN j.pending -> PendingEntry]
    BY <1>2, <2>2, <2>4 DEF SameRequests, MovedToCompletions
  <2>6. /\ Held(j) = Held(i) /\ j.completions \in [DOMAIN j.completions -> Completion]
        /\ Held(j) \subseteq 1..(j.nextId - 1)
    BY <1>2, <2>4 DEF Held, SameRequests, Coherent, ImplType
  <2>7. j.phase \in Phase \ ConnectedPhase
    BY <2>4 DEF Phase, ConnectedPhase
  <2>8. Coherent(j)
    BY <1>1, <2>4, <2>5, <2>6, <2>7, NoSessionCoherent
  <2> QED
    BY <2>5, <2>6, <2>8 DEF j
<1> QED
  BY <1>3, <1>4, <1>5

\* Progress moves between the phases of the bootstrap only.
LEMMA ProgressCoherent ==
  ASSUME NEW i, Coherent(i), CanReportProgress(i), NEW phase \in BootstrapPhase
  PROVE  /\ Coherent(ReportProgress(i, phase)) /\ SameRequests(i, ReportProgress(i, phase))
<1> DEFINE j == ReportProgress(i, phase)
<1>1. PICK id \in DOMAIN i.pending : i.pending[id].op.kind = "Start"
  BY DEF CanReportProgress
<1>2. StillValid(i, id)
  BY DEF Coherent, RequestsStillValid
<1>3. DOMAIN i.pending = {id} /\ ~ Connected(i.phase) /\ ~ Connected(phase) /\ phase \in Phase
  BY <1>1, <1>2 DEF StillValid, Connected, ConnectedPhase, BootstrapPhase, Phase
<1>4. IsImpl(i)
  BY DEF Coherent, ImplType, IsImpl
<1>5. /\ IsImpl(j) /\ SameSession(i, j) /\ SameRequests(i, j) /\ j.phase = phase /\ j.epoch = i.epoch
  BY <1>4 DEF ReportProgress, IsImpl, NewImpl, SameSession, SameRequests
<1> HIDE DEF j
<1>6. ImplType(j)
  BY <1>3, <1>5 DEF Coherent, ImplType, IsImpl, SameSession, SameRequests, Held
<1>7. RequestsStillValid(j)
  BY <1>1, <1>3, <1>5 DEF RequestsStillValid, StillValid, SameRequests, Lifecycle
<1>8. OneMutation(j) /\ Disjoint(j) /\ StreamsBounded(j) /\ EventsOpen(j)
  BY <1>5 DEF Coherent, OneMutation, Disjoint, StreamsBounded, EventsOpen, SameSession, SameRequests
<1>9. NothingLeft(j)
  BY <1>3, <1>5 DEF Coherent, NothingLeft, SameSession
<1>10. PacketsLive(j)
  BY <1>3, <1>5 DEF Coherent, PacketsLive, QueueLive, SameSession, Connected, ConnectedPhase
<1> QED
  BY <1>5, <1>6, <1>7, <1>8, <1>9, <1>10 DEF Coherent, j

----------------------------------------------------------------------------
\* The invariant of the specification

Bounded(i) == IsFiniteSet(Held(i)) /\ Cardinality(Held(i)) <= PendingRequests + 1

Inv ==
  /\ Coherent(out)
  /\ accepted \cup delivered \subseteq 1..(out.nextId - 1)
  /\ ExactlyOnce
  /\ Bounded(out)

LEMMA InitInv == Init => Inv
<1> SUFFICES ASSUME Init PROVE Inv
  OBVIOUS
<1>1. out = NewImpl /\ accepted = {} /\ delivered = {}
  BY DEF Init
<1>2. /\ IsImpl(out) /\ NoSession(out) /\ out.pending = NoEntry /\ out.completions = NoEntry
      /\ out.phase = "Idle" /\ out.epoch = 0 /\ out.nextId = 1
  BY <1>1 DEF IsImpl, NewImpl, NoSession
<1>3. /\ DOMAIN out.pending = {} /\ DOMAIN out.completions = {} /\ Held(out) = {}
      /\ out.pending \in [DOMAIN out.pending -> PendingEntry]
      /\ out.completions \in [DOMAIN out.completions -> Completion]
  BY <1>2 DEF NoEntry, Held
<1>4. out.phase \in Phase \ ConnectedPhase
  BY <1>2 DEF Phase, ConnectedPhase
<1>5. Held(out) \subseteq 1..(out.nextId - 1) /\ out.epoch \in Nat /\ out.nextId \in Nat \ {0}
  BY <1>2, <1>3
<1>6. Coherent(out)
  BY <1>2, <1>3, <1>4, <1>5, NoSessionCoherent
<1>7. Bounded(out)
  BY <1>3, FS_EmptySet, LimitsAssumption DEF Bounded
<1> QED
  BY <1>1, <1>3, <1>6, <1>7 DEF Inv, ExactlyOnce

\* A step that hands out no ticket and delivers no result only has to keep
\* the record coherent and the ids it holds.
LEMMA QuietStep ==
  ASSUME Inv, Coherent(out'), Held(out') = Held(out), out.nextId <= out'.nextId,
         UNCHANGED history
  PROVE  Inv'
<1>1. accepted' = accepted /\ delivered' = delivered
  BY DEF history
<1>2. out.nextId \in Nat /\ out'.nextId \in Nat
  BY DEF Inv, Coherent, ImplType
<1>3. (accepted \cup delivered \subseteq 1..(out.nextId - 1))'
  BY <1>1, <1>2 DEF Inv
<1>4. ExactlyOnce'
  BY <1>1 DEF Inv, ExactlyOnce, Coherent, Disjoint
<1>5. Bounded(out)'
  BY DEF Inv, Bounded
<1> QED
  BY <1>3, <1>4, <1>5 DEF Inv

LEMMA SubmitInv ==
  ASSUME Inv, NEW op \in Operation, Submit(op)
  PROVE  Inv'
<1> DEFINE i == ExpirePending(out)
<1>1. Coherent(i) /\ Held(i) = Held(out) /\ i.nextId = out.nextId
  BY ExpirePendingCoherent DEF Inv
<1>2. CASE ~ CanEnqueue(i, op)
  <2>1. out' = i /\ UNCHANGED history
    BY <1>2 DEF Submit, history
  <2> HIDE DEF i
  <2>2. out.nextId <= out'.nextId
    BY <1>1, <2>1 DEF Inv, Coherent, ImplType
  <2> QED
    BY <1>1, <2>1, <2>2, QuietStep
<1>3. CASE CanEnqueue(i, op)
  <2>1. out' = Enqueue(i, op) /\ accepted' = accepted \cup {i.nextId} /\ delivered' = delivered
    BY <1>3 DEF Submit
  <2> HIDE DEF i
  <2>2. /\ Coherent(out') /\ Held(out') = Held(out) \cup {out.nextId}
        /\ out'.nextId = out.nextId + 1
    BY <1>1, <1>3, <2>1, EnqueueCoherent
  <2>3. out.nextId \in Nat \ {0}
    BY DEF Inv, Coherent, ImplType
  <2>4. (accepted \cup delivered \subseteq 1..(out.nextId - 1))'
    BY <1>1, <2>1, <2>2, <2>3 DEF Inv
  <2>5. out.nextId \notin delivered
    BY <2>3 DEF Inv
  <2>6. ExactlyOnce'
    BY <1>1, <2>1, <2>2, <2>5 DEF Inv, ExactlyOnce, Coherent, Disjoint
  <2>7. Bounded(out)'
    <3>1. IsFiniteSet(Held(i)) /\ Cardinality(Held(i)) \in Nat
      BY <1>1, FS_CardinalityType DEF Inv, Bounded
    <3>2. /\ IsFiniteSet(DOMAIN i.pending) /\ IsFiniteSet(DOMAIN i.completions)
          /\ DOMAIN i.pending \cap DOMAIN i.completions = {}
      BY <1>1, <3>1, FS_Subset DEF Held, Coherent, Disjoint
    <3>3. Cardinality(Held(i)) = Cardinality(DOMAIN i.pending) + Cardinality(DOMAIN i.completions)
      <4>1. Cardinality(DOMAIN i.pending) \in Nat /\ Cardinality(DOMAIN i.completions) \in Nat
        BY <3>2, FS_CardinalityType
      <4>2. Cardinality(DOMAIN i.pending \cap DOMAIN i.completions) = 0
        BY <3>2, FS_EmptySet
      <4>3. Cardinality(DOMAIN i.pending \cup DOMAIN i.completions) =
              Cardinality(DOMAIN i.pending) + Cardinality(DOMAIN i.completions)
                - Cardinality(DOMAIN i.pending \cap DOMAIN i.completions)
        BY <3>2, FS_Union
      <4> QED
        BY <4>1, <4>2, <4>3 DEF Held
    <3>4. Cardinality(Held(i)) <= PendingRequests
      BY <1>3, <3>1, <3>3, LimitsAssumption DEF CanEnqueue
    <3>5. IsFiniteSet(Held(i) \cup {out.nextId})
          /\ Cardinality(Held(i) \cup {out.nextId}) <= Cardinality(Held(i)) + 1
      BY <3>1, FS_AddElement
    <3>6. IsFiniteSet(Held(out')) /\ Cardinality(Held(out')) <= PendingRequests + 1
      <4>1. Cardinality(Held(out')) \in Nat
        BY <1>1, <2>2, <3>5, FS_CardinalityType
      <4> QED
        BY <1>1, <2>2, <3>1, <3>4, <3>5, <4>1, LimitsAssumption
    <3> QED
      BY <3>6 DEF Bounded
  <2> QED
    BY <2>2, <2>4, <2>6, <2>7 DEF Inv
<1> QED
  BY <1>2, <1>3

LEMMA DeliverInv ==
  ASSUME Inv, NEW id, Deliver(id)
  PROVE  Inv'
<1>1. /\ id \in DOMAIN out.completions /\ out' = PopCompletion(out, id)
      /\ delivered' = delivered \cup {id} /\ accepted' = accepted
  BY DEF Deliver
<1>2. /\ Coherent(out')
      /\ DOMAIN out'.pending = DOMAIN out.pending
      /\ DOMAIN out'.completions = DOMAIN out.completions \ {id}
      /\ out'.nextId = out.nextId
  BY <1>1, PopCompletionCoherent DEF Inv
<1>3. DOMAIN out.pending \cap DOMAIN out.completions = {}
  BY DEF Inv, ExactlyOnce
<1>4. Held(out') = Held(out) \ {id} /\ id \in Held(out)
  BY <1>1, <1>2, <1>3 DEF Held
<1>5. ExactlyOnce'
  BY <1>1, <1>2, <1>4 DEF Inv, ExactlyOnce
<1>6. (accepted \cup delivered \subseteq 1..(out.nextId - 1))'
  BY <1>1, <1>2, <1>4 DEF Inv, ExactlyOnce
<1>7. Bounded(out)'
  <2>1. IsFiniteSet(Held(out)) /\ Cardinality(Held(out)) \in Nat
    BY FS_CardinalityType DEF Inv, Bounded
  <2>2. IsFiniteSet(Held(out')) /\ Cardinality(Held(out')) = Cardinality(Held(out)) - 1
    BY <1>4, <2>1, FS_RemoveElement
  <2> QED
    BY <2>1, <2>2, LimitsAssumption DEF Inv, Bounded
<1> QED
  BY <1>2, <1>5, <1>6, <1>7 DEF Inv

\* An answer takes no id.
LEMMA CompleteNextId ==
  ASSUME NEW i, Coherent(i), NEW id \in DOMAIN i.pending, NEW ok \in BOOLEAN
  PROVE  Complete(i, id, ok).nextId = i.nextId
<1> DEFINE r == ApplyResult(i, i.pending[id].op, ok)
<1>1. IsImpl(i)
  BY DEF Coherent, ImplType, IsImpl
<1>2. IsImpl(r) /\ SameRequests(i, r)
  BY <1>1 DEF ApplyResult, RemoveStream, ClearSession, IsImpl, NewImpl, SameRequests
<1> HIDE DEF r
<1>3. MovedToCompletions(r, {id}, IF ok THEN "Ok" ELSE "Failed",
                         Answer(r, {id}, IF ok THEN "Ok" ELSE "Failed"))
  BY <1>2, AnswerShape DEF SameRequests
<1> QED
  BY <1>2, <1>3 DEF Complete, r, MovedToCompletions, SameRequests

\* Every call of the application, the backend or the clock preserves Inv.
LEMMA NextInv == Inv /\ [Next]_vars => Inv'
<1> SUFFICES ASSUME Inv, [Next]_vars PROVE Inv'
  OBVIOUS
<1> DEFINE i == ExpirePending(out)
<1>1. /\ Coherent(out) /\ Coherent(i) /\ Held(i) = Held(out) /\ i.nextId = out.nextId
      /\ out.nextId \in Nat /\ out.nextId <= out.nextId
  BY ExpirePendingCoherent DEF Inv, Coherent, ImplType
<1> HIDE DEF i
<1>2. ASSUME UNCHANGED history, SameRequests(out, out'), Coherent(out')
      PROVE  Inv'
  BY <1>1, <1>2, QuietStep DEF SameRequests, Held
<1>3. ASSUME UNCHANGED history, SameRequests(i, out'), Coherent(out')
      PROVE  Inv'
  <2>1. Held(out') = Held(out) /\ out.nextId <= out'.nextId
    BY <1>1, <1>3 DEF SameRequests, Held
  <2> QED
    BY <1>3, <2>1, QuietStep
<1>4. ASSUME UNCHANGED history, out' = i
      PROVE  Inv'
  BY <1>1, <1>4, QuietStep
<1>5. ASSUME UNCHANGED history, EventCall(out, out')
      PROVE  Inv'
  <2>1. /\ Coherent(out') /\ out.nextId <= out'.nextId
        /\ out'.pending = out.pending /\ out'.completions = out.completions
    BY <1>1, <1>5, EventCallCoherent
  <2> QED
    BY <1>5, <2>1, QuietStep DEF Held
<1>6. CASE ApplicationNext
  <2>1. ASSUME NEW op \in Operation, Submit(op)
        PROVE  Inv'
    BY <2>1, SubmitInv
  <2>2. ASSUME NEW id \in DOMAIN out.pending, CancelRequest(id)
        PROVE  Inv'
    <3>1. out' = Cancel(out, id) /\ UNCHANGED history
      BY <2>2 DEF CancelRequest
    <3>2. Coherent(out') /\ Held(out') = Held(out) /\ out'.nextId = out.nextId
      BY <1>1, <3>1, CancelCoherent
    <3> QED
      BY <1>1, <3>1, <3>2, QuietStep
  <2>3. ASSUME NEW id \in DOMAIN out.completions, Deliver(id)
        PROVE  Inv'
    BY <2>3, DeliverInv
  <2> QED
    BY <1>6, <2>1, <2>2, <2>3 DEF ApplicationNext
<1>7. CASE MediaNext
  <2>1. ASSUME NEW slot \in Slot, NEW e \in 0..out.epoch, NEW s \in StreamId, NEW size \in Sizes,
               Push(slot, Packet(e, s, size))
        PROVE  Inv'
    <3>1. Packet(e, s, size) \in MediaPacket
      BY <1>1 DEF Packet, MediaPacket, Coherent, ImplType
    <3>2. /\ PacketValid(out, Packet(e, s, size), "out")
          /\ out' = PushMedia(out, slot, Packet(e, s, size)) /\ UNCHANGED history
      BY <2>1 DEF Push, CanPushMedia
    <3> QED
      BY <1>1, <1>2, <3>1, <3>2, PacketQueuedCoherent
  <2>2. ASSUME NEW slot \in DOMAIN out.mics, PopMic(slot)
        PROVE  Inv'
    BY <1>1, <1>2, <2>2, PacketsDroppedCoherent DEF PopMic
  <2>3. ASSUME NEW e \in 0..out.epoch, Discard(e)
        PROVE  Inv'
    BY <1>1, <1>2, <2>3, PacketsDroppedCoherent DEF Discard
  <2> QED
    BY <1>7, <2>1, <2>2, <2>3 DEF MediaNext
<1>8. CASE EventNext
  BY <1>5, <1>8 DEF EventNext, HandleCommand, HandleNote, RespondTo, EventCall
<1>9. CASE BackendNext
  <2>1. CASE Take
    <3>1. ASSUME NEW id \in Untaken(i), out' = TakeWork(i, id)
          PROVE  Inv'
      <4>1. id \in DOMAIN i.pending
        BY DEF Untaken
      <4>2. /\ Coherent(out') /\ DOMAIN out'.pending = DOMAIN i.pending
            /\ out'.completions = i.completions /\ out'.nextId = i.nextId
        BY <1>1, <3>1, <4>1, MarkCoherent
      <4>3. Held(out') = Held(out) /\ out.nextId <= out'.nextId
        BY <1>1, <4>2 DEF Held
      <4> QED
        BY <2>1, <4>2, <4>3, QuietStep DEF Take
    <3> QED
      BY <1>4, <2>1, <3>1 DEF Take, i
  <2>2. ASSUME NEW e \in 0..out.epoch, NEW id \in DOMAIN out.pending, NEW ok \in BOOLEAN,
               Answered(e, id, ok)
        PROVE  Inv'
    <3>1. ASSUME id \in DOMAIN i.pending, out' = Complete(i, id, ok)
          PROVE  Inv'
      <4>1. Coherent(out') /\ Held(out') = Held(out)
        BY <1>1, <3>1, CompleteCoherent
      <4>2. out'.nextId = i.nextId
        BY <1>1, <3>1, CompleteNextId
      <4> QED
        BY <1>1, <2>2, <4>1, <4>2, QuietStep DEF Answered
    <3> QED
      BY <1>4, <2>2, <3>1 DEF Answered, i
  <2>3. ASSUME NEW e \in 0..out.epoch, NEW phase \in BootstrapPhase, Progress(e, phase)
        PROVE  Inv'
    BY <1>1, <1>2, <2>3, ProgressCoherent DEF Progress
  <2>4. ASSUME NEW e \in 0..out.epoch, Lost(e)
        PROVE  Inv'
    <3>1. out' = Fail(out, "Disconnected") /\ UNCHANGED history /\ "Disconnected" \in Code
      BY <2>4 DEF Lost, Disconnect, Code
    <3>2. Coherent(out') /\ Held(out') = Held(out) /\ out'.nextId = out.nextId
      BY <1>1, <3>1, FailCoherent
    <3> QED
      BY <1>1, <3>1, <3>2, QuietStep
  <2>5. CASE Expire
    BY <1>4, <2>5 DEF Expire, i
  <2> QED
    BY <1>9, <2>1, <2>2, <2>3, <2>4, <2>5 DEF BackendNext
<1>10. CASE BackendMediaNext
  <2>1. ASSUME NEW e \in 0..out.epoch, MeasureClock(e)
        PROVE  Inv'
    BY <1>5, <2>1 DEF MeasureClock, EventCall
  <2>2. CASE TakePacket
    <3>1. ASSUME NEW slot \in DOMAIN i.media, out' = TakeMedia(i, slot)
          PROVE  Inv'
      BY <1>1, <1>3, <2>2, <3>1, PacketsDroppedCoherent DEF TakePacket
    <3> QED
      BY <1>4, <2>2, <3>1 DEF TakePacket, i
  <2>3. ASSUME NEW slot \in Slot, NEW e \in 0..out.epoch, NEW s \in StreamId, NEW size \in Sizes,
               MicPacket(slot, Packet(e, s, size))
        PROVE  Inv'
    <3>1. Packet(e, s, size) \in MediaPacket
      BY <1>1 DEF Packet, MediaPacket, Coherent, ImplType
    <3>2. /\ PacketValid(out, Packet(e, s, size), "mic")
          /\ out' = ReceiveMicrophone(out, slot, Packet(e, s, size)) /\ UNCHANGED history
      BY <2>3 DEF MicPacket, CanReceiveMicrophone
    <3> QED
      BY <1>1, <1>2, <3>1, <3>2, PacketQueuedCoherent
  <2> QED
    BY <1>10, <2>1, <2>2, <2>3 DEF BackendMediaNext
<1>11. CASE BackendEventNext
  <2>1. \A id : id \in Answerable(out) => id \in DOMAIN out.incoming
    BY DEF Answerable
  <2> QED
    BY <1>5, <1>11, <2>1 DEF BackendEventNext, ControlArrives, NoteArrives, Reply, EventCall
<1>12. CASE TimeNext
  <2>1. ASSUME NEW id \in DOMAIN out.pending, RequestDue(id)
        PROVE  Inv'
    <3>1. out' = RequestOverdue(out, id) /\ UNCHANGED history
      BY <2>1 DEF RequestDue
    <3>2. /\ Coherent(out') /\ DOMAIN out'.pending = DOMAIN out.pending
          /\ out'.completions = out.completions /\ out'.nextId = out.nextId
      BY <1>1, <3>1, MarkCoherent
    <3>3. Held(out') = Held(out) /\ out.nextId <= out'.nextId
      BY <1>1, <3>2 DEF Held
    <3> QED
      BY <3>1, <3>2, <3>3, QuietStep
  <2>2. ASSUME NEW id \in DOMAIN out.incoming, CommandDue(id)
        PROVE  Inv'
    BY <1>5, <2>2 DEF CommandDue, EventCall
  <2> QED
    BY <1>12, <2>1, <2>2 DEF TimeNext
<1>13. CASE UNCHANGED vars
  <2>1. out' = out /\ accepted' = accepted /\ delivered' = delivered
    BY <1>13 DEF vars
  <2> QED
    BY <1>1, <2>1, QuietStep DEF history
<1> QED
  BY <1>6, <1>7, <1>8, <1>9, <1>10, <1>11, <1>12, <1>13 DEF Next

LEMMA SpecInv == Spec => []Inv
  BY InitInv, NextInv, PTL DEF Spec

----------------------------------------------------------------------------
\* Theorems

\* The broker's fields keep their types and no id is used before it is given.
THEOREM TypeCorrect == Spec => []TypeOK
<1>1. Inv => TypeOK
  BY DEF Inv, Coherent, TypeOK
<1> QED
  BY <1>1, SpecInv, PTL

\* No ticket is lost, answered twice or delivered twice.
THEOREM TicketsExactlyOnce == Spec => []ExactlyOnce
<1>1. Inv => ExactlyOnce
  BY DEF Inv
<1> QED
  BY <1>1, SpecInv, PTL

\* The request queue and the stream table never exceed their limits.
THEOREM CapacityHolds == Spec => []Capacity
<1>1. Inv => Capacity
  BY DEF Inv, Bounded, Coherent, Capacity
<1> QED
  BY <1>1, SpecInv, PTL

\* What a request was admitted for still holds whenever it is answered.
THEOREM RequestsStayValid == Spec => []PendingStillValid
<1>1. Inv => PendingStillValid
  BY DEF Inv, Coherent, PendingStillValid
<1> QED
  BY <1>1, SpecInv, PTL

\* A session that ends leaves no peer, stream, packet, command or event.
THEOREM SessionsLeaveNothing == Spec => []NoResidue
<1>1. Inv => NoResidue
  BY DEF Inv, Coherent, NoResidue
<1> QED
  BY <1>1, SpecInv, PTL

\* Every queued packet is of the session and of a stream that still exist.
THEOREM PacketsNeverStale == Spec => []NoStalePacket
<1>1. Inv => NoStalePacket
  BY DEF Inv, Coherent, NoStalePacket
<1> QED
  BY <1>1, SpecInv, PTL

\* Every command the application can pop still awaits its reply.
THEOREM CommandsAwaitReply == Spec => []EventsAwaitReply
<1>1. Inv => EventsAwaitReply
  BY DEF Inv, Coherent, EventsAwaitReply
<1> QED
  BY <1>1, SpecInv, PTL

-----------------------------------------------------------------------------
\* What becomes of the answers: a result once given stays, and a change of the
\* car's state that the backend has begun never ends with the session still open
\* but by the backend's own answer.

\* Nobody but pop_completion takes a result away.
ResultsKept(i, j) ==
  \A id \in DOMAIN i.completions :
    id \in DOMAIN j.completions /\ j.completions[id] = i.completions[id]

Begun(i, id) == i.pending[id].taken /\ Mutation(i.pending[id].op)

Resolved(i, j) ==
  \A id \in DOMAIN i.pending :
    Begun(i, id) => \/ id \in DOMAIN j.pending
                    \/ j.phase \in {"Failed", "Stopping"} \/ j.epoch # i.epoch
                    \/ j.completions[id].code \in {"Ok", "Failed"}

\* After expire_pending, the session has failed or what was begun goes on.
Spared(i, j) ==
  j.phase = "Failed" \/ \A id \in DOMAIN i.pending : Begun(i, id) => id \in DOMAIN j.pending

-----------------------------------------------------------------------------
\* The calls

LEMMA AnswerKeeps ==
  ASSUME NEW i, Coherent(i), NEW r, IsImpl(r), SameRequests(i, r),
         NEW ids \in SUBSET DOMAIN i.pending, NEW code
  PROVE  /\ ResultsKept(i, Answer(r, ids, code))
         /\ Answer(r, ids, code).pending = [id \in DOMAIN i.pending \ ids |-> i.pending[id]]
         /\ \A id \in ids : Answer(r, ids, code).completions[id].code = code
         /\ Answer(r, ids, code).epoch = r.epoch /\ Answer(r, ids, code).phase = r.phase
<1>1. MovedToCompletions(r, ids, code, Answer(r, ids, code))
  BY AnswerShape DEF SameRequests
<1>2. \A id \in DOMAIN i.completions : id \notin ids
  BY DEF Coherent, Disjoint
<1> QED
  BY <1>1, <1>2 DEF MovedToCompletions, SameRequests, ResultsKept

LEMMA FailKeeps ==
  ASSUME NEW i, Coherent(i), NEW code \in Code
  PROVE  ResultsKept(i, Fail(i, code)) /\ Fail(i, code).phase = "Failed" /\ Fail(i, code).epoch = i.epoch
<1> DEFINE f == [i EXCEPT !.phase = "Failed"]
           a == Answer(f, DOMAIN f.pending, code)
<1>1. IsImpl(f) /\ SameRequests(i, f) /\ DOMAIN f.pending = DOMAIN i.pending
  BY DEF Coherent, ImplType, NewImpl, IsImpl, SameRequests
<1> HIDE DEF f
<1>2. ResultsKept(i, a)
  BY <1>1, AnswerKeeps
<1>3. IsImpl(a)
  BY <1>1, AnswerShape
<1>4. Fail(i, code) = ClearSession(a)
  BY DEF Fail, FinishAll, f
<1> HIDE DEF a
<1>5. Fail(i, code).completions = a.completions
  BY <1>3, <1>4, ClearSessionShape DEF SameRequests
<1> QED
  BY <1>2, <1>5, FailCoherent DEF ResultsKept

LEMMA ExpireKeeps ==
  ASSUME NEW i, Coherent(i)
  PROVE  /\ ResultsKept(i, ExpirePending(i)) /\ Spared(i, ExpirePending(i))
         /\ ExpirePending(i).epoch = i.epoch
<1>1. CASE \E id \in DueRequests(i) : FatalTimeout(i.pending[id])
  <2>1. ExpirePending(i) = Fail(i, "Timeout") /\ "Timeout" \in Code
    BY <1>1 DEF ExpirePending, Code
  <2> QED
    BY <2>1, FailKeeps DEF Spared
<1>2. CASE ~ \E id \in DueRequests(i) : FatalTimeout(i.pending[id])
  <2>1. ExpirePending(i) = Answer(i, DueRequests(i), "Timeout")
    BY <1>2 DEF ExpirePending
  <2>2. IsImpl(i) /\ SameRequests(i, i) /\ DueRequests(i) \in SUBSET DOMAIN i.pending
    BY DEF Coherent, ImplType, IsImpl, SameRequests, DueRequests
  <2>3. /\ ResultsKept(i, ExpirePending(i)) /\ ExpirePending(i).epoch = i.epoch
        /\ ExpirePending(i).pending = [id \in DOMAIN i.pending \ DueRequests(i) |-> i.pending[id]]
    <3> DEFINE due == DueRequests(i)
    <3>1. due \in SUBSET DOMAIN i.pending
      BY <2>2
    <3> HIDE DEF due
    <3>2. /\ ResultsKept(i, Answer(i, due, "Timeout")) /\ Answer(i, due, "Timeout").epoch = i.epoch
          /\ Answer(i, due, "Timeout").pending = [id \in DOMAIN i.pending \ due |-> i.pending[id]]
      BY <2>2, <3>1, AnswerKeeps
    <3> QED
      BY <2>1, <3>2 DEF due
  <2>4. \A id \in DOMAIN i.pending : Begun(i, id) => id \notin DueRequests(i)
    BY <1>2 DEF Begun, FatalTimeout
  <2> QED
    BY <2>3, <2>4 DEF Spared
<1> QED
  BY <1>1, <1>2

LEMMA EnqueueKeeps ==
  ASSUME NEW i, Coherent(i), NEW op \in Operation, CanEnqueue(i, op)
  PROVE  /\ ResultsKept(i, Enqueue(i, op))
         /\ \/ Enqueue(i, op).phase = "Stopping"
            \/ Enqueue(i, op).epoch = i.epoch + 1
            \/ /\ DOMAIN i.pending \subseteq DOMAIN Enqueue(i, op).pending
               /\ Enqueue(i, op).phase = i.phase /\ Enqueue(i, op).epoch = i.epoch
<1> DEFINE o == OpenRequest(i, op)
           j == Enqueue(i, op)
<1>1. IsImpl(i) /\ IsImpl(o)
  BY OpenRequestCoherent DEF Coherent, ImplType, IsImpl
<1>2. j = [o EXCEPT !.nextId = @ + 1,
                    !.pending = Put(@, i.nextId, [op |-> op, taken |-> FALSE, due |-> FALSE])]
  BY DEF Enqueue
<1>3. CASE op.kind = "Start"
  <2>1. o.completions = i.completions /\ o.epoch = i.epoch + 1
    <3>1. o = [ClearSession(i) EXCEPT !.epoch = @ + 1, !.phase = "Starting"]
      BY <1>3 DEF OpenRequest
    <3> QED
      BY <1>1, <3>1, ClearSessionShape DEF IsImpl, NewImpl, SameRequests
  <2> HIDE DEF o
  <2>2. j.completions = i.completions /\ j.epoch = i.epoch + 1
    BY <1>1, <1>2, <2>1 DEF IsImpl, NewImpl
  <2> QED
    BY <2>2 DEF ResultsKept
<1>4. CASE op.kind = "Stop"
  <2> DEFINE a == Answer(i, DOMAIN i.pending, "Cancelled")
  <2>1. ResultsKept(i, a) /\ IsImpl(a)
    BY <1>1, AnswerKeeps, AnswerShape DEF SameRequests
  <2>2. o = [ClearSession(a) EXCEPT !.phase = "Stopping"]
    BY <1>4 DEF OpenRequest, FinishAll
  <2> HIDE DEF a
  <2>3. o.completions = a.completions /\ o.phase = "Stopping"
    BY <2>1, <2>2, ClearSessionShape DEF IsImpl, NewImpl, SameRequests
  <2> HIDE DEF o
  <2>4. j.completions = a.completions /\ j.phase = "Stopping"
    BY <1>1, <1>2, <2>3 DEF IsImpl, NewImpl
  <2> QED
    BY <2>1, <2>4 DEF ResultsKept
<1>5. CASE op.kind \notin {"Start", "Stop"}
  <2>1. o = i
    BY <1>5 DEF OpenRequest
  <2> HIDE DEF o
  <2>2. /\ j.completions = i.completions /\ j.phase = i.phase /\ j.epoch = i.epoch
        /\ j.pending = Put(i.pending, i.nextId, [op |-> op, taken |-> FALSE, due |-> FALSE])
    BY <1>1, <1>2, <2>1 DEF IsImpl, NewImpl
  <2>3. DOMAIN i.pending \subseteq DOMAIN j.pending
    BY <2>2 DEF Put
  <2> QED
    BY <2>2, <2>3 DEF ResultsKept
<1> QED
  BY <1>3, <1>4, <1>5

LEMMA CompleteKeeps ==
  ASSUME NEW i, Coherent(i), NEW id \in DOMAIN i.pending, NEW ok \in BOOLEAN
  PROVE  /\ ResultsKept(i, Complete(i, id, ok)) /\ Complete(i, id, ok).epoch = i.epoch
         /\ Complete(i, id, ok).completions[id].code \in {"Ok", "Failed"}
         /\ \A x \in DOMAIN i.pending \ {id} : x \in DOMAIN Complete(i, id, ok).pending
<1> DEFINE r == ApplyResult(i, i.pending[id].op, ok)
           code == IF ok THEN "Ok" ELSE "Failed"
<1>1. IsImpl(i)
  BY DEF Coherent, ImplType, IsImpl
<1>2. IsImpl(r) /\ SameRequests(i, r) /\ r.epoch = i.epoch
  BY <1>1 DEF ApplyResult, RemoveStream, ClearSession, IsImpl, NewImpl, SameRequests
<1> HIDE DEF r
<1>3. Complete(i, id, ok) = Answer(r, {id}, code)
  BY DEF Complete, r
<1>4. code \in {"Ok", "Failed"}
  OBVIOUS
<1> HIDE DEF code
<1> DEFINE a == Answer(r, {id}, code)
<1>5. /\ ResultsKept(i, a) /\ a.epoch = r.epoch
      /\ a.pending = [x \in DOMAIN i.pending \ {id} |-> i.pending[x]]
      /\ a.completions[id].code = code
  <2> DEFINE ids == {id}
  <2>1. ids \in SUBSET DOMAIN i.pending /\ id \in ids
    OBVIOUS
  <2> HIDE DEF ids
  <2>2. /\ ResultsKept(i, Answer(r, ids, code)) /\ Answer(r, ids, code).epoch = r.epoch
        /\ Answer(r, ids, code).pending = [x \in DOMAIN i.pending \ ids |-> i.pending[x]]
        /\ Answer(r, ids, code).completions[id].code = code
    BY <1>2, <2>1, AnswerKeeps
  <2> QED
    BY <2>2 DEF ids
<1> HIDE DEF a
<1>6. Complete(i, id, ok) = a
  BY <1>3 DEF a
<1> QED
  BY <1>2, <1>4, <1>5, <1>6

LEMMA CancelKeeps ==
  ASSUME NEW i, Coherent(i), NEW id \in DOMAIN i.pending
  PROVE  ResultsKept(i, Cancel(i, id)) /\ Resolved(i, Cancel(i, id))
<1> DEFINE a == Answer(i, {id}, "Cancelled")
<1>1. IsImpl(i) /\ SameRequests(i, i) /\ {id} \in SUBSET DOMAIN i.pending /\ "Cancelled" \in Code
  BY DEF Coherent, ImplType, IsImpl, SameRequests, Code
<1>2. ResultsKept(i, a) /\ a.pending = [x \in DOMAIN i.pending \ {id} |-> i.pending[x]] /\ IsImpl(a)
  BY <1>1, AnswerKeeps, AnswerShape
<1>3. CASE CancelFails(i.pending[id])
  BY <1>1, <1>3, FailKeeps DEF Cancel, Resolved
<1>4. CASE ~CancelFails(i.pending[id])
  <2>1. ~Begun(i, id)
    BY <1>4 DEF CancelFails, Begun
  <2>2. \/ Cancel(i, id) = [ClearSession(a) EXCEPT !.phase = "Closed"]
        \/ Cancel(i, id) = a
    BY <1>4 DEF Cancel
  <2> HIDE DEF a
  <2>3. Cancel(i, id).completions = a.completions /\ Cancel(i, id).pending = a.pending
    BY <1>2, <2>2, ClearSessionShape DEF IsImpl, NewImpl, SameRequests
  <2> QED
    BY <1>2, <2>1, <2>3 DEF ResultsKept, Resolved
<1> QED
  BY <1>3, <1>4

-----------------------------------------------------------------------------
\* The steps

LEMMA StepKeeps ==
  ASSUME Inv, [Next]_vars, ~ \E id \in DOMAIN out.completions : Deliver(id)
  PROVE  ResultsKept(out, out') /\ Resolved(out, out')
<1> DEFINE i == ExpirePending(out)
           Goal == ResultsKept(out, out') /\ Resolved(out, out')
<1>1. Coherent(out) /\ Coherent(i) /\ ResultsKept(out, i) /\ Spared(out, i) /\ i.epoch = out.epoch
      /\ out.epoch \in Nat
  BY ExpirePendingCoherent, ExpireKeeps DEF Inv, Coherent, ImplType
<1> HIDE DEF i
\* A call that leaves the requests alone, after expire_pending or not.
<1>2. ASSUME out'.completions = out.completions, DOMAIN out'.pending = DOMAIN out.pending
      PROVE  Goal
  BY <1>2 DEF ResultsKept, Resolved
<1>3. ASSUME out'.completions = i.completions, DOMAIN i.pending \subseteq DOMAIN out'.pending,
             out'.phase = i.phase
      PROVE  Goal
  BY <1>1, <1>3 DEF ResultsKept, Spared, Resolved
<1>4. ASSUME EventCall(out, out') PROVE Goal
  BY <1>1, <1>2, <1>4, EventCallCoherent
<1>5. ASSUME SameRequests(out, out') PROVE Goal
  BY <1>2, <1>5 DEF SameRequests
<1>6. CASE ApplicationNext
  <2>1. ASSUME NEW op \in Operation, Submit(op) PROVE Goal
    <3>1. CASE CanEnqueue(i, op) /\ out' = Enqueue(i, op)
      <4>1. ResultsKept(i, out')
        BY <1>1, <3>1, EnqueueKeeps
      <4>2. ResultsKept(out, out')
        BY <1>1, <4>1 DEF ResultsKept
      <4>3. \/ out'.phase = "Stopping" \/ out'.epoch = i.epoch + 1
            \/ DOMAIN i.pending \subseteq DOMAIN out'.pending /\ out'.phase = i.phase
        BY <1>1, <3>1, EnqueueKeeps
      <4>4. Resolved(out, out')
        BY <1>1, <4>3 DEF Spared, Resolved
      <4> QED
        BY <4>2, <4>4
    <3>2. CASE out' = i
      BY <1>3, <3>2
    <3> QED
      BY <2>1, <3>1, <3>2 DEF Submit, i
  <2>2. ASSUME NEW id \in DOMAIN out.pending, CancelRequest(id) PROVE Goal
    BY <1>1, <2>2, CancelKeeps DEF CancelRequest
  <2> QED
    BY <1>6, <2>1, <2>2 DEF ApplicationNext
<1>7. CASE MediaNext
  <2>1. SameRequests(out, out')
    BY <1>1, <1>7 DEF MediaNext, Push, PushMedia, PopMic, PopMicrophone, Discard, DiscardMedia,
      Coherent, ImplType, NewImpl, SameRequests
  <2> QED
    BY <1>5, <2>1
<1>8. CASE EventNext
  BY <1>4, <1>8 DEF EventNext, HandleCommand, HandleNote, RespondTo, EventCall
<1>9. CASE BackendNext
  <2>1. CASE Take
    <3>1. ASSUME NEW id \in Untaken(i), out' = TakeWork(i, id) PROVE Goal
      <4>1. id \in DOMAIN i.pending
        BY DEF Untaken
      <4>2. DOMAIN out'.pending = DOMAIN i.pending /\ out'.completions = i.completions
        BY <1>1, <3>1, <4>1, MarkCoherent
      <4>3. out'.phase = i.phase
        BY <1>1, <3>1 DEF TakeWork, Coherent, ImplType, NewImpl
      <4> QED
        BY <1>3, <4>2, <4>3
    <3>2. ASSUME out' = i PROVE Goal
      BY <1>3, <3>2
    <3> QED
      BY <2>1, <3>1, <3>2 DEF Take, i
  <2>2. ASSUME NEW e \in 0..out.epoch, NEW id \in DOMAIN out.pending, NEW ok \in BOOLEAN,
               Answered(e, id, ok)
        PROVE  Goal
    <3>1. ASSUME id \in DOMAIN i.pending, out' = Complete(i, id, ok) PROVE Goal
      <4>1. i.phase # "Failed"
        BY <1>1, <3>1, NothingPendingAtRest
      <4>2. /\ ResultsKept(i, out') /\ out'.completions[id].code \in {"Ok", "Failed"}
            /\ \A x \in DOMAIN i.pending \ {id} : x \in DOMAIN out'.pending
        BY <1>1, <3>1, CompleteKeeps
      <4> QED
        BY <1>1, <4>1, <4>2 DEF ResultsKept, Spared, Resolved
    <3>2. ASSUME out' = i PROVE Goal
      BY <1>3, <3>2
    <3> QED
      BY <2>2, <3>1, <3>2 DEF Answered, i
  <2>3. ASSUME NEW e \in 0..out.epoch, NEW phase \in BootstrapPhase, Progress(e, phase) PROVE Goal
    BY <1>1, <1>5, <2>3, ProgressCoherent DEF Progress
  <2>4. ASSUME NEW e \in 0..out.epoch, Lost(e) PROVE Goal
    <3>1. out' = Fail(out, "Disconnected") /\ "Disconnected" \in Code
      BY <2>4 DEF Lost, Disconnect, Code
    <3> QED
      BY <1>1, <3>1, FailKeeps DEF Resolved
  <2>5. CASE Expire
    BY <1>3, <2>5 DEF Expire, i
  <2> QED
    BY <1>9, <2>1, <2>2, <2>3, <2>4, <2>5 DEF BackendNext
<1>10. CASE BackendMediaNext
  <2>1. ASSUME NEW e \in 0..out.epoch, MeasureClock(e) PROVE Goal
    BY <1>4, <2>1 DEF MeasureClock, EventCall
  <2>2. CASE TakePacket
    <3>1. ASSUME NEW slot \in DOMAIN i.media, out' = TakeMedia(i, slot) PROVE Goal
      <4>1. out'.completions = i.completions /\ out'.pending = i.pending /\ out'.phase = i.phase
        BY <1>1, <3>1 DEF TakeMedia, Coherent, ImplType, NewImpl
      <4> QED
        BY <1>3, <4>1
    <3>2. ASSUME out' = i PROVE Goal
      BY <1>3, <3>2
    <3> QED
      BY <2>2, <3>1, <3>2 DEF TakePacket, i
  <2>3. ASSUME NEW slot \in Slot, NEW p, MicPacket(slot, p) PROVE Goal
    <3>1. SameRequests(out, out')
      BY <1>1, <2>3 DEF MicPacket, ReceiveMicrophone, Coherent, ImplType, NewImpl, SameRequests
    <3> QED
      BY <1>5, <3>1
  <2> QED
    BY <1>10, <2>1, <2>2, <2>3 DEF BackendMediaNext
<1>11. CASE BackendEventNext
  <2>1. \A id : id \in Answerable(out) => id \in DOMAIN out.incoming
    BY DEF Answerable
  <2> QED
    BY <1>4, <1>11, <2>1 DEF BackendEventNext, ControlArrives, NoteArrives, Reply, EventCall
<1>12. CASE TimeNext
  <2>1. ASSUME NEW id \in DOMAIN out.pending, RequestDue(id) PROVE Goal
    <3>1. out' = RequestOverdue(out, id)
      BY <2>1 DEF RequestDue
    <3> QED
      BY <1>1, <1>2, <3>1, MarkCoherent
  <2>2. ASSUME NEW id \in DOMAIN out.incoming, CommandDue(id) PROVE Goal
    BY <1>4, <2>2 DEF CommandDue, EventCall
  <2> QED
    BY <1>12, <2>1, <2>2 DEF TimeNext
<1>13. CASE UNCHANGED vars
  BY <1>2, <1>13 DEF vars
<1> QED
  BY <1>6, <1>7, <1>8, <1>9, <1>10, <1>11, <1>12, <1>13 DEF Next

LEMMA DeliverKeepsRest ==
  ASSUME Inv, NEW id \in DOMAIN out.completions, Deliver(id)
  PROVE  /\ out'.pending = out.pending
         /\ out'.completions = [x \in DOMAIN out.completions \ {id} |-> out.completions[x]]
<1>1. out' = [out EXCEPT !.completions = Without(@, {id})]
  BY DEF Deliver, PopCompletion
<1> QED
  BY <1>1 DEF Inv, Coherent, ImplType, NewImpl, Without, Restrict

-----------------------------------------------------------------------------
\* Theorems

\* No call takes back a result, or changes it, before it is popped.
THEOREM ResultsStayFinal == Spec => ResultsAreFinal
<1> DEFINE Final == \A id \in DOMAIN out.completions :
                      /\ id \notin DOMAIN out'.pending
                      /\ id \in DOMAIN out'.completions => out'.completions[id] = out.completions[id]
<1>1. Inv /\ Inv' /\ [Next]_vars => Final
  <2> SUFFICES ASSUME Inv, Inv', [Next]_vars PROVE Final
    OBVIOUS
  <2>1. CASE \E id \in DOMAIN out.completions : Deliver(id)
    <3>1. PICK id \in DOMAIN out.completions : Deliver(id)
      BY <2>1
    <3>2. /\ out'.pending = out.pending
          /\ out'.completions = [x \in DOMAIN out.completions \ {id} |-> out.completions[x]]
      BY <3>1, DeliverKeepsRest
    <3> QED
      BY <3>2 DEF Inv, Coherent, Disjoint
  <2>2. CASE ~ \E id \in DOMAIN out.completions : Deliver(id)
    BY <2>2, StepKeeps DEF ResultsKept, Inv, Coherent, Disjoint
  <2> QED
    BY <2>1, <2>2
<1>2. Inv /\ Inv' /\ [Next]_vars => [Final]_vars
  BY <1>1
<1> QED
  BY <1>2, SpecInv, PTL DEF Spec, ResultsAreFinal

\* A change of the car's state that the backend has taken is answered by the
\* backend, or the session is over: no timeout, cancel or loss leaves the
\* session open with the car in an unknown state.
THEOREM UnknownOutcomeAlwaysEnds == Spec => UnknownOutcomeEndsSession
<1> DEFINE Known == \A id \in DOMAIN out.pending :
                      (/\ out.pending[id].taken /\ Mutation(out.pending[id].op)
                       /\ id \notin DOMAIN out'.pending)
                      => \/ out'.phase \in {"Failed", "Stopping"}
                         \/ out'.epoch # out.epoch
                         \/ out'.completions[id].code \in {"Ok", "Failed"}
<1>1. Inv /\ [Next]_vars => [Known]_vars
  <2> SUFFICES ASSUME Inv, [Next]_vars PROVE Known
    OBVIOUS
  <2>1. CASE \E id \in DOMAIN out.completions : Deliver(id)
    BY <2>1, DeliverKeepsRest
  <2>2. CASE ~ \E id \in DOMAIN out.completions : Deliver(id)
    BY <2>2, StepKeeps DEF Resolved, Begun
  <2> QED
    BY <2>1, <2>2
<1> QED
  BY <1>1, SpecInv, PTL DEF Spec, UnknownOutcomeEndsSession

----------------------------------------------------------------------------
\* Sums over finite sets

\* Sets of subsets have a smallest member.
LEMMA SmallestSet ==
  ASSUME NEW T, IsFiniteSet(T), NEW B, B \subseteq SUBSET T, B # {}
  PROVE  \E s \in B : \A t \in B : t \subseteq s => t = s
<1> DEFINE R == StrictSubsetOrdering(T)
<1>1. B \subseteq FiniteSubsetsOf(T)
  BY FS_Subset DEF FiniteSubsetsOf
<1>2. IsWellFoundedOn(R, FiniteSubsetsOf(T))
  BY FS_StrictSubsetOrderingWellFounded
<1> HIDE DEF R
<1>3. PICK s \in B : \A t \in B : ~ (<<t, s>> \in R)
  BY <1>1, <1>2, WFMin
<1>4. ASSUME NEW t \in B, t \subseteq s PROVE t = s
  BY <1>3, <1>4 DEF R, StrictSubsetOrdering
<1> QED
  BY <1>4

\* Induction over the subsets of a finite set, with a set for the property.
LEMMA SetInduction ==
  ASSUME NEW T, IsFiniteSet(T), NEW P, {} \in P,
         \A s \in SUBSET T, x \in T : x \notin s /\ s \in P => s \cup {x} \in P
  PROVE  SUBSET T \subseteq P
<1> DEFINE B == (SUBSET T) \ P
<1> SUFFICES ASSUME B # {} PROVE FALSE
  OBVIOUS
<1>0. B \subseteq SUBSET T
  OBVIOUS
<1>1. PICK s : /\ s \in SUBSET T /\ s \notin P
              /\ \A t \in SUBSET T : t \notin P /\ t \subseteq s => t = s
  <2> HIDE DEF B
  <2>1. PICK s \in B : \A t \in B : t \subseteq s => t = s
    BY <1>0, SmallestSet
  <2> QED
    BY <2>1 DEF B
<1>2. PICK x : x \in s
  <2>1. s \notin P
    BY <1>1
  <2> QED
    BY <2>1
<1> DEFINE r == s \ {x}
<1>3. r \in SUBSET T /\ x \in T /\ x \notin r /\ r \cup {x} = s /\ r \subseteq s /\ r # s
  BY <1>1, <1>2
<1>4. r \in P
  BY <1>1, <1>3
<1>5. r \cup {x} \in P
  BY <1>3, <1>4
<1> QED
  BY <1>1, <1>3, <1>5

\* h sums g over the subsets of T.
Totals(T, g, h) ==
  /\ h \in [SUBSET T -> Nat] /\ h[{}] = 0
  /\ \A s \in SUBSET T : \A x \in s : h[s] = g[x] + h[s \ {x}]

LEMMA TotalsGrow ==
  ASSUME NEW T, NEW x, x \notin T, NEW g, \A y \in T \cup {x} : g[y] \in Nat, NEW h, Totals(T, g, h)
  PROVE  Totals(T \cup {x}, g,
                [s \in SUBSET (T \cup {x}) |-> IF x \in s THEN g[x] + h[s \ {x}] ELSE h[s]])
<1> DEFINE k == [s \in SUBSET (T \cup {x}) |-> IF x \in s THEN g[x] + h[s \ {x}] ELSE h[s]]
<1>1. h \in [SUBSET T -> Nat] /\ h[{}] = 0 /\ \A s \in SUBSET T : \A y \in s : h[s] = g[y] + h[s \ {y}]
  BY DEF Totals
<1>2. k \in [SUBSET (T \cup {x}) -> Nat]
  <2>1. ASSUME NEW s \in SUBSET (T \cup {x})
        PROVE  (IF x \in s THEN g[x] + h[s \ {x}] ELSE h[s]) \in Nat
    <3>1. s \ {x} \in SUBSET T /\ (x \notin s => s \in SUBSET T)
      OBVIOUS
    <3> QED
      BY <1>1, <3>1
  <2> QED
    BY <2>1
<1>3. k[{}] = 0
  BY <1>1
<1>4. ASSUME NEW s \in SUBSET (T \cup {x}), NEW y \in s PROVE k[s] = g[y] + k[s \ {y}]
  <2> DEFINE r == s \ {x}
             q == r \ {y}
  <2>1. r \in SUBSET T /\ q \in SUBSET T /\ h[r] \in Nat /\ h[q] \in Nat
    BY <1>1
  <2>2. k[s] = IF x \in s THEN g[x] + h[r] ELSE h[s]
    OBVIOUS
  <2>3. k[s \ {y}] = IF x \in s \ {y} THEN g[x] + h[(s \ {y}) \ {x}] ELSE h[s \ {y}]
    OBVIOUS
  <2>4. CASE y = x
    BY <2>2, <2>3, <2>4
  <2>5. CASE y # x /\ x \in s
    <3>1. (s \ {y}) \ {x} = q
      OBVIOUS
    <3>2. h[r] = g[y] + h[q]
      BY <1>1, <2>1, <2>5
    <3>3. k[s] = g[x] + h[r] /\ k[s \ {y}] = g[x] + h[q]
      BY <2>2, <2>3, <2>5, <3>1
    <3>4. g[y] \in Nat /\ g[x] \in Nat
      BY <2>5
    <3> HIDE DEF r, q, k
    <3> QED
      BY <2>1, <3>2, <3>3, <3>4
  <2>6. CASE x \notin s
    BY <1>1, <2>2, <2>3, <2>6
  <2> QED
    BY <2>4, <2>5, <2>6
<1> QED
  BY <1>2, <1>3, <1>4 DEF Totals

LEMMA TotalsExist ==
  ASSUME NEW T, IsFiniteSet(T), NEW g, \A y \in T : g[y] \in Nat
  PROVE  \E h : Totals(T, g, h)
<1> DEFINE P == {s \in SUBSET T : \E h : Totals(s, g, h)}
<1>1. {} \in P
  <2>1. Totals({}, g, [s \in SUBSET {} |-> 0])
    BY DEF Totals
  <2> QED
    BY <2>1
<1>2. ASSUME NEW s \in SUBSET T, NEW x \in T, x \notin s, s \in P PROVE s \cup {x} \in P
  <2>1. PICK h : Totals(s, g, h)
    BY <1>1, <1>2
  <2>2. \E k : Totals(s \cup {x}, g, k)
    BY <1>2, <2>1, TotalsGrow
  <2> QED
    BY <2>2
<1>3. SUBSET T \subseteq P
  <2> HIDE DEF P
  <2> QED
    BY <1>1, <1>2, SetInduction
<1> QED
  BY <1>3

\* What FoldFunction computes by.
Pick(s) == CHOOSE x \in s : TRUE
Total(T, g, f) == f = [s \in SUBSET T |-> IF s = {} THEN 0 ELSE g[Pick(s)] + f[s \ {Pick(s)}]]

LEMMA PickIn == \A s : s # {} => Pick(s) \in s
  BY DEF Pick

LEMMA TotalsTotal ==
  ASSUME NEW T, NEW g, NEW h, Totals(T, g, h) PROVE Total(T, g, h)
<1>1. h = [s \in SUBSET T |-> h[s]]
  BY DEF Totals
<1>2. ASSUME NEW s \in SUBSET T
      PROVE  h[s] = IF s = {} THEN 0 ELSE g[Pick(s)] + h[s \ {Pick(s)}]
  BY PickIn DEF Totals
<1> QED
  BY <1>1, <1>2 DEF Total

LEMMA TotalIsOne ==
  ASSUME NEW T, IsFiniteSet(T), NEW g, NEW h, Total(T, g, h), NEW f, Total(T, g, f)
  PROVE  f = h
<1> DEFINE B == {s \in SUBSET T : f[s] # h[s]}
<1>1. DOMAIN f = SUBSET T /\ DOMAIN h = SUBSET T /\ f = [s \in SUBSET T |-> f[s]] /\ h = [s \in SUBSET T |-> h[s]]
  BY DEF Total
<1>2. \A s \in SUBSET T : /\ f[s] = IF s = {} THEN 0 ELSE g[Pick(s)] + f[s \ {Pick(s)}]
                         /\ h[s] = IF s = {} THEN 0 ELSE g[Pick(s)] + h[s \ {Pick(s)}]
  BY DEF Total
<1>3. B = {}
  <2> SUFFICES ASSUME B # {} PROVE FALSE
    OBVIOUS
  <2>0. B \subseteq SUBSET T
    OBVIOUS
  <2> HIDE DEF B
  <2>1. PICK s \in B : \A t \in B : t \subseteq s => t = s
    BY <2>0, SmallestSet
  <2> USE DEF B
  <2> DEFINE r == s \ {Pick(s)}
  <2>2. s # {}
    BY <1>1, <1>2
  <2>3. r \in SUBSET T /\ r \subseteq s /\ r # s
    BY <2>2, PickIn
  <2>4. f[r] = h[r]
    BY <2>1, <2>3
  <2>5. f[s] = h[s]
    BY <1>2, <2>2, <2>4
  <2> QED
    BY <2>5
<1>4. \A s \in SUBSET T : f[s] = h[s]
  BY <1>3
<1> QED
  BY <1>1, <1>4

LEMMA FoldIs ==
  ASSUME NEW g, IsFiniteSet(DOMAIN g), NEW h, Totals(DOMAIN g, g, h)
  PROVE  FoldFunction(+, 0, g) = h[DOMAIN g]
<1> DEFINE c == CHOOSE f : Total(DOMAIN g, g, f)
<1>1. Total(DOMAIN g, g, h) /\ \A f : Total(DOMAIN g, g, f) => f = h
  BY TotalsTotal, TotalIsOne
<1>2. c = h
  BY <1>1, Zenon
<1>3. FoldFunction(+, 0, g) = c[DOMAIN g]
  BY DEF FoldFunction, FoldFunctionOnSet, MapThenFoldSet, Total, Pick
<1> QED
  BY <1>2, <1>3

\* The whole is the sum of two parts.
LEMMA TotalsSplit ==
  ASSUME NEW T, IsFiniteSet(T), NEW g, \A y \in T : g[y] \in Nat, NEW h, Totals(T, g, h), NEW A \in SUBSET T
  PROVE  h[T] = h[A] + h[T \ A]
<1> DEFINE P == {s \in SUBSET T : h[T] = h[s] + h[T \ s]}
<1>0. h \in [SUBSET T -> Nat] /\ h[{}] = 0 /\ \A s \in SUBSET T : \A y \in s : h[s] = g[y] + h[s \ {y}]
  BY DEF Totals
<1>1. {} \in P
  BY <1>0
<1>2. ASSUME NEW s \in SUBSET T, NEW x \in T, x \notin s, s \in P PROVE s \cup {x} \in P
  <2> DEFINE t == s \cup {x}
             r == T \ s
             q == T \ t
  <2>1. t \ {x} = s /\ r \ {x} = q /\ t \in SUBSET T /\ r \in SUBSET T /\ q \in SUBSET T /\ x \in t /\ x \in r
    BY <1>1, <1>2
  <2>2. h[t] = g[x] + h[s] /\ h[r] = g[x] + h[q]
    <3>1. \A y \in t : h[t] = g[y] + h[t \ {y}]
      BY <1>0, <2>1
    <3>2. \A y \in r : h[r] = g[y] + h[r \ {y}]
      BY <1>0, <2>1
    <3> HIDE DEF t, r, q
    <3> QED
      BY <2>1, <3>1, <3>2
  <2>3. h[T] = h[s] + h[r]
    BY <1>1, <1>2
  <2>4. g[x] \in Nat /\ h[s] \in Nat /\ h[q] \in Nat
    BY <1>0, <2>1
  <2> HIDE DEF t, r, q
  <2>5. h[T] = h[t] + h[q]
    BY <2>2, <2>3, <2>4
  <2> QED
    BY <2>1, <2>5 DEF q, t
<1>3. SUBSET T \subseteq P
  <2> HIDE DEF P
  <2> QED
    BY <1>1, <1>2, SetInduction
<1> QED
  BY <1>3

LEMMA TotalsPart ==
  ASSUME NEW T, NEW g, NEW h, Totals(T, g, h), NEW A \in SUBSET T
  PROVE  Totals(A, [x \in A |-> g[x]], [s \in SUBSET A |-> h[s]])
  BY DEF Totals

----------------------------------------------------------------------------
\* Sums over the packets of a queue

\* Packets by slot, and their sizes.
Packed(q) == IsFiniteSet(DOMAIN q) /\ \A n \in DOMAIN q : q[n].size \in Nat
SizesOf(q) == [n \in DOMAIN q |-> q[n].size]

LEMMA BytesTotal ==
  ASSUME NEW q, Packed(q)
  PROVE  /\ \E h : Totals(DOMAIN q, SizesOf(q), h)
         /\ \A h : Totals(DOMAIN q, SizesOf(q), h) => Bytes(q) = h[DOMAIN q]
<1> DEFINE g == SizesOf(q)
<1>1. DOMAIN g = DOMAIN q /\ IsFiniteSet(DOMAIN q) /\ \A y \in DOMAIN q : g[y] \in Nat
  BY DEF Packed, SizesOf
<1>2. Bytes(q) = FoldFunction(+, 0, g)
  BY DEF Bytes, SizesOf
<1> HIDE DEF g
<1>3. \E h : Totals(DOMAIN q, g, h)
  BY <1>1, TotalsExist
<1>4. ASSUME NEW h, Totals(DOMAIN q, g, h) PROVE FoldFunction(+, 0, g) = h[DOMAIN g]
  BY <1>1, <1>4, FoldIs
<1> QED
  BY <1>1, <1>2, <1>3, <1>4 DEF g

LEMMA BytesType == ASSUME NEW q, Packed(q) PROVE Bytes(q) \in Nat
<1>1. PICK h : Totals(DOMAIN q, SizesOf(q), h)
  BY BytesTotal
<1>2. Bytes(q) = h[DOMAIN q]
  BY <1>1, BytesTotal
<1> QED
  BY <1>1, <1>2 DEF Totals

LEMMA BytesNone == ASSUME NEW q, DOMAIN q = {} PROVE Packed(q) /\ Bytes(q) = 0
<1>1. Packed(q)
  BY FS_EmptySet DEF Packed
<1>2. PICK h : Totals(DOMAIN q, SizesOf(q), h)
  BY <1>1, BytesTotal
<1>3. Bytes(q) = h[DOMAIN q]
  BY <1>1, <1>2, BytesTotal
<1> QED
  BY <1>1, <1>2, <1>3 DEF Totals

LEMMA BytesKept ==
  ASSUME NEW q, Packed(q), NEW A \in SUBSET DOMAIN q
  PROVE  /\ Packed(Restrict(q, A)) /\ Packed(Without(q, A))
         /\ Bytes(q) = Bytes(Restrict(q, A)) + Bytes(Without(q, A))
<1> DEFINE T == DOMAIN q
           g == SizesOf(q)
           a == Restrict(q, A)
           b == Without(q, A)
<1>1. PICK h : Totals(T, g, h)
  BY BytesTotal
<1>2. DOMAIN a = A /\ DOMAIN b = T \ A
  BY DEF Restrict, Without
<1>3. Packed(a) /\ Packed(b)
  <2>1. IsFiniteSet(T) /\ IsFiniteSet(A) /\ IsFiniteSet(T \ A)
    BY FS_Subset, FS_Difference DEF Packed
  <2> QED
    BY <1>2, <2>1 DEF Packed, Restrict, Without
<1>4. SizesOf(a) = [n \in A |-> g[n]] /\ SizesOf(b) = [n \in T \ A |-> g[n]]
  BY DEF SizesOf, Restrict, Without
<1>5. \A n \in T : g[n] \in Nat
  BY DEF SizesOf, Packed
<1>6. IsFiniteSet(T)
  BY DEF Packed
<1>7. h[T] = h[A] + h[T \ A]
  <2> HIDE DEF g, T
  <2> QED
    BY <1>1, <1>5, <1>6, TotalsSplit DEF T
<1>8. Bytes(q) = h[T]
  BY <1>1, BytesTotal
<1>9. Bytes(a) = h[A]
  <2> DEFINE k == [s \in SUBSET A |-> h[s]]
  <2>1. Totals(A, [n \in A |-> g[n]], k)
    BY <1>1, TotalsPart
  <2>2. Totals(DOMAIN a, SizesOf(a), k)
    BY <1>2, <1>4, <2>1
  <2>3. Bytes(a) = k[A]
    <3> HIDE DEF k, a
    <3> QED
      BY <1>2, <1>3, <2>2, BytesTotal
  <2> QED
    BY <2>3
<1>10. Bytes(b) = h[T \ A]
  <2> DEFINE r == T \ A
             k == [s \in SUBSET r |-> h[s]]
  <2>0. r \in SUBSET T
    OBVIOUS
  <2>1. Totals(r, [n \in r |-> g[n]], k)
    <3> HIDE DEF r, g, T
    <3> QED
      BY <1>1, <2>0, TotalsPart
  <2>2. Totals(DOMAIN b, SizesOf(b), k)
    BY <1>2, <1>4, <2>1
  <2>3. Bytes(b) = k[r]
    <3> HIDE DEF k, b
    <3> QED
      BY <1>2, <1>3, <2>2, BytesTotal
  <2> QED
    BY <2>3
<1> QED
  BY <1>3, <1>7, <1>8, <1>9, <1>10

\* One packet alone.
LEMMA BytesOne ==
  ASSUME NEW q, NEW n, DOMAIN q = {n}, q[n].size \in Nat
  PROVE  Packed(q) /\ Bytes(q) = q[n].size
<1>1. Packed(q)
  BY FS_Singleton DEF Packed
<1>2. PICK h : Totals(DOMAIN q, SizesOf(q), h)
  BY <1>1, BytesTotal
<1>3. Bytes(q) = h[DOMAIN q]
  BY <1>1, <1>2, BytesTotal
<1>4. h[{n}] = SizesOf(q)[n] + h[{n} \ {n}] /\ h[{}] = 0
  BY <1>2 DEF Totals
<1>5. {n} \ {n} = {} /\ SizesOf(q)[n] = q[n].size
  BY DEF SizesOf
<1>6. h[{n}] = q[n].size
  BY <1>4, <1>5
<1> QED
  BY <1>1, <1>3, <1>6

\* A packet leaves a queue.
LEMMA BytesDropped ==
  ASSUME NEW q, Packed(q), NEW n \in DOMAIN q
  PROVE  Packed(Without(q, {n})) /\ Bytes(Without(q, {n})) = Bytes(q) - q[n].size
<1> DEFINE A == {n}
           a == Restrict(q, A)
           b == Without(q, A)
<1>1. A \in SUBSET DOMAIN q
  OBVIOUS
<1>2. Packed(a) /\ Packed(b) /\ Bytes(q) = Bytes(a) + Bytes(b)
  BY <1>1, BytesKept
<1>3. DOMAIN a = {n} /\ a[n] = q[n] /\ q[n].size \in Nat
  BY DEF Restrict, Packed
<1>4. Bytes(a) = q[n].size
  <2> HIDE DEF a
  <2> QED
    BY <1>3, BytesOne
<1>5. Bytes(a) \in Nat /\ Bytes(b) \in Nat
  BY <1>2, BytesType
<1> QED
  BY <1>2, <1>4, <1>5

\* A packet joins one.
LEMMA BytesPut ==
  ASSUME NEW q, Packed(q), NEW n, n \notin DOMAIN q, NEW p, p.size \in Nat
  PROVE  Packed(Put(q, n, p)) /\ Bytes(Put(q, n, p)) = Bytes(q) + p.size
<1> DEFINE r == Put(q, n, p)
<1>1. DOMAIN r = DOMAIN q \cup {n} /\ r[n] = p /\ \A y \in DOMAIN q : r[y] = q[y]
  BY DEF Put
<1>2. Packed(r)
  <2>1. IsFiniteSet(DOMAIN q \cup {n})
    BY FS_AddElement DEF Packed
  <2> QED
    BY <1>1, <2>1 DEF Packed
<1>3. PICK f : Totals(DOMAIN r, SizesOf(r), f)
  BY <1>2, BytesTotal
<1> DEFINE g == SizesOf(r)
           T == DOMAIN q
           k == [s \in SUBSET T |-> f[s]]
<1>4. Bytes(r) = f[DOMAIN r]
  BY <1>2, <1>3, BytesTotal
<1>5. f[T \cup {n}] = g[n] + f[(T \cup {n}) \ {n}]
  BY <1>1, <1>3 DEF Totals
<1>6. (T \cup {n}) \ {n} = T /\ g[n] = p.size
  BY <1>1 DEF SizesOf
<1>7. Totals(T, [x \in T |-> g[x]], k)
  <2>1. T \in SUBSET DOMAIN r
    BY <1>1
  <2> HIDE DEF g, T, r
  <2> QED
    BY <1>3, <2>1, TotalsPart DEF g
<1>8. [x \in T |-> g[x]] = SizesOf(q)
  BY <1>1 DEF SizesOf
<1>9. Bytes(q) = k[T]
  BY <1>7, <1>8, BytesTotal
<1>10. Bytes(r) = Bytes(q) + p.size
  <2>1. k[T] = f[T]
    OBVIOUS
  <2>2. f[T] \in Nat
    BY <1>9, <2>1, BytesType
  <2> QED
    BY <1>1, <1>4, <1>5, <1>6, <1>9, <2>1, <2>2
<1> QED
  BY <1>2, <1>10

----------------------------------------------------------------------------
\* The byte counters

\* A counter is the bytes of its queue and within its limit.
Right(q, bytes, limit) == Packed(q) /\ bytes = Bytes(q) /\ bytes <= limit

Counted(i) == Right(i.media, i.mediaBytes, MediaBytes) /\ Right(i.mics, i.micBytes, MicBytes)

SamePackets(i, j) ==
  /\ j.media = i.media /\ j.mediaBytes = i.mediaBytes
  /\ j.mics = i.mics /\ j.micBytes = i.micBytes

NoPackets(j) ==
  j.media = NoEntry /\ j.mediaBytes = 0 /\ j.mics = NoEntry /\ j.micBytes = 0

LEMMA SameCounted == ASSUME NEW i, Counted(i), NEW j, SamePackets(i, j) PROVE Counted(j)
  BY DEF Counted, SamePackets

LEMMA NoneCounted == ASSUME NEW j, NoPackets(j) PROVE Counted(j)
<1>1. DOMAIN NoEntry = {}
  BY DEF NoEntry
<1>2. Packed(NoEntry) /\ Bytes(NoEntry) = 0
  BY <1>1, BytesNone
<1> QED
  BY <1>2, LimitsAssumption DEF NoPackets, Counted, Right

LEMMA DroppedRight ==
  ASSUME NEW q, NEW bytes, NEW limit \in Nat, Right(q, bytes, limit), NEW A \in SUBSET DOMAIN q
  PROVE  Right(Without(q, A), bytes - Bytes(Restrict(q, A)), limit)
<1>1. /\ Packed(Restrict(q, A)) /\ Packed(Without(q, A))
      /\ Bytes(q) = Bytes(Restrict(q, A)) + Bytes(Without(q, A))
  BY BytesKept DEF Right
<1>2. Bytes(Restrict(q, A)) \in Nat /\ Bytes(Without(q, A)) \in Nat
  BY <1>1, BytesType
<1> QED
  BY <1>1, <1>2 DEF Right

LEMMA PoppedRight ==
  ASSUME NEW q, NEW bytes, NEW limit \in Nat, Right(q, bytes, limit), NEW n \in DOMAIN q
  PROVE  Right(Without(q, {n}), bytes - q[n].size, limit)
<1>1. Packed(Without(q, {n})) /\ Bytes(Without(q, {n})) = Bytes(q) - q[n].size
  BY BytesDropped DEF Right
<1>2. q[n].size \in Nat /\ Bytes(q) \in Nat
  BY BytesType DEF Right, Packed
<1> QED
  BY <1>1, <1>2 DEF Right

LEMMA PutRight ==
  ASSUME NEW q, NEW bytes, NEW limit \in Nat, Right(q, bytes, limit), NEW n, n \notin DOMAIN q,
         NEW p, p.size \in Nat, bytes + p.size <= limit
  PROVE  Right(Put(q, n, p), bytes + p.size, limit)
  BY BytesPut DEF Right

----------------------------------------------------------------------------
\* The calls and the packets

LEMMA AnswerPackets ==
  ASSUME NEW i, IsImpl(i), NEW ids, NEW code
  PROVE  IsImpl(Answer(i, ids, code)) /\ SamePackets(i, Answer(i, ids, code))
  BY DEF Answer, IsImpl, NewImpl, SamePackets

LEMMA ClearPackets ==
  ASSUME NEW i, IsImpl(i)
  PROVE  IsImpl(ClearSession(i)) /\ NoPackets(ClearSession(i))
  BY DEF ClearSession, IsImpl, NewImpl, NoPackets

LEMMA PhasePackets ==
  ASSUME NEW i, IsImpl(i), NEW phase
  PROVE  IsImpl([i EXCEPT !.phase = phase]) /\ SamePackets(i, [i EXCEPT !.phase = phase])
  BY DEF IsImpl, NewImpl, SamePackets

LEMMA FailCounted ==
  ASSUME NEW i, IsImpl(i), NEW code PROVE IsImpl(Fail(i, code)) /\ Counted(Fail(i, code))
<1> DEFINE f == [i EXCEPT !.phase = "Failed"]
           a == Answer(f, DOMAIN f.pending, code)
<1>1. IsImpl(f)
  BY PhasePackets
<1> HIDE DEF f
<1>2. IsImpl(a)
  BY <1>1, AnswerPackets
<1>3. Fail(i, code) = ClearSession(a)
  BY DEF Fail, FinishAll, f
<1> HIDE DEF a
<1>4. IsImpl(ClearSession(a)) /\ NoPackets(ClearSession(a))
  BY <1>2, ClearPackets
<1> QED
  BY <1>3, <1>4, NoneCounted

LEMMA ExpireCounted ==
  ASSUME NEW i, IsImpl(i), Counted(i) PROVE Counted(ExpirePending(i))
<1>1. CASE \E id \in DueRequests(i) : FatalTimeout(i.pending[id])
  BY <1>1, FailCounted DEF ExpirePending
<1>2. CASE ~ \E id \in DueRequests(i) : FatalTimeout(i.pending[id])
  BY <1>2, AnswerPackets, SameCounted DEF ExpirePending
<1> QED
  BY <1>1, <1>2

LEMMA OpenCounted ==
  ASSUME NEW i, IsImpl(i), Counted(i), NEW op
  PROVE  IsImpl(OpenRequest(i, op)) /\ Counted(OpenRequest(i, op))
<1>1. CASE op.kind = "Start"
  <2> DEFINE c == ClearSession(i)
             o == [c EXCEPT !.epoch = @ + 1, !.phase = "Starting"]
  <2>1. OpenRequest(i, op) = o
    BY <1>1 DEF OpenRequest
  <2>2. IsImpl(c) /\ NoPackets(c)
    BY ClearPackets
  <2> HIDE DEF c
  <2>3. IsImpl(o) /\ NoPackets(o)
    BY <2>2 DEF IsImpl, NewImpl, NoPackets
  <2> QED
    BY <2>1, <2>3, NoneCounted
<1>2. CASE op.kind = "Stop"
  <2> DEFINE a == Answer(i, DOMAIN i.pending, "Cancelled")
             c == ClearSession(a)
             o == [c EXCEPT !.phase = "Stopping"]
  <2>1. OpenRequest(i, op) = o
    BY <1>2 DEF OpenRequest, FinishAll
  <2>2. IsImpl(a)
    BY AnswerPackets
  <2> HIDE DEF a
  <2>3. IsImpl(c) /\ NoPackets(c)
    BY <2>2, ClearPackets
  <2> HIDE DEF c
  <2>4. IsImpl(o) /\ NoPackets(o)
    BY <2>3 DEF IsImpl, NewImpl, NoPackets
  <2> QED
    BY <2>1, <2>4, NoneCounted
<1>3. CASE op.kind \notin {"Start", "Stop"}
  BY <1>3 DEF OpenRequest
<1> QED
  BY <1>1, <1>2, <1>3

LEMMA EnqueueCounted ==
  ASSUME NEW i, IsImpl(i), Counted(i), NEW op PROVE Counted(Enqueue(i, op))
<1> DEFINE o == OpenRequest(i, op)
           j == [o EXCEPT !.nextId = @ + 1,
                          !.pending = Put(@, i.nextId, [op |-> op, taken |-> FALSE, due |-> FALSE])]
<1>1. IsImpl(o) /\ Counted(o)
  BY OpenCounted
<1>2. Enqueue(i, op) = j
  BY DEF Enqueue
<1> HIDE DEF o
<1>3. SamePackets(o, j)
  BY <1>1 DEF IsImpl, NewImpl, SamePackets
<1> QED
  BY <1>1, <1>2, <1>3, SameCounted

\* A stream takes its packets and their bytes along.
LEMMA RemoveCounted ==
  ASSUME NEW i, IsImpl(i), Counted(i), NEW s
  PROVE  IsImpl(RemoveStream(i, s)) /\ Counted(RemoveStream(i, s))
<1> DEFINE outs == PacketsOf(i.media, s)
           mics == PacketsOf(i.mics, s)
           j == RemoveStream(i, s)
<1>1. outs \in SUBSET DOMAIN i.media /\ mics \in SUBSET DOMAIN i.mics
  BY DEF PacketsOf
<1> HIDE DEF outs, mics
<1>2. /\ IsImpl(j)
      /\ j.media = Without(i.media, outs) /\ j.mics = Without(i.mics, mics)
      /\ j.mediaBytes = i.mediaBytes - Bytes(Restrict(i.media, outs))
      /\ j.micBytes = i.micBytes - Bytes(Restrict(i.mics, mics))
  BY DEF RemoveStream, IsImpl, NewImpl, outs, mics
<1> HIDE DEF j
<1>3. Right(j.media, j.mediaBytes, MediaBytes)
  BY <1>1, <1>2, DroppedRight, LimitsAssumption DEF Counted
<1>4. Right(j.mics, j.micBytes, MicBytes)
  BY <1>1, <1>2, DroppedRight, LimitsAssumption DEF Counted
<1> QED
  BY <1>2, <1>3, <1>4 DEF Counted, j

LEMMA ResultCounted ==
  ASSUME NEW i, IsImpl(i), Counted(i), NEW op, NEW ok \in BOOLEAN
  PROVE  IsImpl(ApplyResult(i, op, ok)) /\ Counted(ApplyResult(i, op, ok))
<1> DEFINE j == ApplyResult(i, op, ok)
<1>1. CASE op.kind = "Start" /\ ok
  <2>1. IsImpl(j) /\ SamePackets(i, j)
    BY <1>1 DEF ApplyResult, IsImpl, NewImpl, SamePackets
  <2> QED
    BY <2>1, SameCounted
<1>2. CASE op.kind = "Start" /\ ~ ok
  <2>1. j = ClearSession([i EXCEPT !.phase = "Failed"])
    BY <1>2 DEF ApplyResult
  <2> QED
    BY <2>1, PhasePackets, ClearPackets, NoneCounted
<1>3. CASE op.kind = "Stop"
  <2> DEFINE phase == IF ok THEN "Closed" ELSE "Failed"
  <2>1. j = ClearSession([i EXCEPT !.phase = phase])
    BY <1>3 DEF ApplyResult
  <2> HIDE DEF phase
  <2> QED
    BY <2>1, PhasePackets, ClearPackets, NoneCounted
<1>4. CASE op.kind = "Setup" /\ ok
  <2>1. IsImpl(j) /\ SamePackets(i, j)
    BY <1>4 DEF ApplyResult, IsImpl, NewImpl, SamePackets
  <2> QED
    BY <2>1, SameCounted
<1>5. CASE op.kind = "Teardown" /\ ok
  BY <1>5, RemoveCounted DEF ApplyResult
<1>6. CASE op.kind = "Record" /\ ok
  <2>1. IsImpl(j) /\ SamePackets(i, j)
    BY <1>6 DEF ApplyResult, IsImpl, NewImpl, SamePackets
  <2> QED
    BY <2>1, SameCounted
<1>7. CASE /\ op.kind \notin {"Start", "Stop"}
           /\ ~ (op.kind \in {"Setup", "Teardown", "Record"} /\ ok)
  BY <1>7 DEF ApplyResult
<1> QED
  BY <1>1, <1>2, <1>3, <1>4, <1>5, <1>6, <1>7

LEMMA CompleteCounted ==
  ASSUME NEW i, IsImpl(i), Counted(i), NEW id, NEW ok \in BOOLEAN PROVE Counted(Complete(i, id, ok))
<1> DEFINE r == ApplyResult(i, i.pending[id].op, ok)
           code == IF ok THEN "Ok" ELSE "Failed"
<1>1. IsImpl(r) /\ Counted(r)
  BY ResultCounted
<1>2. Complete(i, id, ok) = Answer(r, {id}, code)
  BY DEF Complete
<1> HIDE DEF r, code
<1> QED
  BY <1>1, <1>2, AnswerPackets, SameCounted

LEMMA CancelCounted ==
  ASSUME NEW i, IsImpl(i), Counted(i), NEW id PROVE Counted(Cancel(i, id))
<1> DEFINE a == Answer(i, {id}, "Cancelled")
<1>1. IsImpl(a) /\ SamePackets(i, a)
  BY AnswerPackets
<1>2. \/ Cancel(i, id) = Fail(i, "Cancelled")
      \/ Cancel(i, id) = [ClearSession(a) EXCEPT !.phase = "Closed"]
      \/ Cancel(i, id) = a
  BY DEF Cancel
<1> HIDE DEF a
<1>3. Counted([ClearSession(a) EXCEPT !.phase = "Closed"])
  BY <1>1, ClearPackets, PhasePackets, NoneCounted, SameCounted
<1> QED
  BY <1>1, <1>2, <1>3, FailCounted, SameCounted

LEMMA PopCounted ==
  ASSUME NEW i, IsImpl(i), Counted(i), NEW n
  PROVE  /\ n \in DOMAIN i.media => Counted(TakeMedia(i, n))
         /\ n \in DOMAIN i.mics => Counted(PopMicrophone(i, n))
<1>1. ASSUME n \in DOMAIN i.media PROVE Counted(TakeMedia(i, n))
  <2> DEFINE j == TakeMedia(i, n)
  <2>1. /\ j.media = Without(i.media, {n}) /\ j.mediaBytes = i.mediaBytes - i.media[n].size
        /\ j.mics = i.mics /\ j.micBytes = i.micBytes
    BY DEF TakeMedia, IsImpl, NewImpl
  <2> HIDE DEF j
  <2>2. Right(j.media, j.mediaBytes, MediaBytes)
    BY <1>1, <2>1, PoppedRight, LimitsAssumption DEF Counted
  <2> QED
    BY <2>1, <2>2 DEF Counted, j
<1>2. ASSUME n \in DOMAIN i.mics PROVE Counted(PopMicrophone(i, n))
  <2> DEFINE j == PopMicrophone(i, n)
  <2>1. /\ j.mics = Without(i.mics, {n}) /\ j.micBytes = i.micBytes - i.mics[n].size
        /\ j.media = i.media /\ j.mediaBytes = i.mediaBytes
    BY DEF PopMicrophone, IsImpl, NewImpl
  <2> HIDE DEF j
  <2>2. Right(j.mics, j.micBytes, MicBytes)
    BY <1>2, <2>1, PoppedRight, LimitsAssumption DEF Counted
  <2> QED
    BY <2>1, <2>2 DEF Counted, j
<1> QED
  BY <1>1, <1>2

\* A packet is queued only where its bytes have room.
LEMMA QueuedCounted ==
  ASSUME NEW i, IsImpl(i), Counted(i), NEW n, NEW p, p.size \in Nat
  PROVE  /\ n \notin DOMAIN i.media /\ CanPushMedia(i, p) => Counted(PushMedia(i, n, p))
         /\ n \notin DOMAIN i.mics /\ CanReceiveMicrophone(i, p) => Counted(ReceiveMicrophone(i, n, p))
<1>1. ASSUME n \notin DOMAIN i.media, CanPushMedia(i, p) PROVE Counted(PushMedia(i, n, p))
  <2> DEFINE j == PushMedia(i, n, p)
  <2>1. /\ j.media = Put(i.media, n, p) /\ j.mediaBytes = i.mediaBytes + p.size
        /\ j.mics = i.mics /\ j.micBytes = i.micBytes
    BY DEF PushMedia, IsImpl, NewImpl
  <2>2. i.mediaBytes + p.size <= MediaBytes
    BY <1>1 DEF CanPushMedia
  <2> HIDE DEF j
  <2>3. Right(j.media, j.mediaBytes, MediaBytes)
    BY <1>1, <2>1, <2>2, PutRight, LimitsAssumption DEF Counted
  <2> QED
    BY <2>1, <2>3 DEF Counted, j
<1>2. ASSUME n \notin DOMAIN i.mics, CanReceiveMicrophone(i, p) PROVE Counted(ReceiveMicrophone(i, n, p))
  <2> DEFINE j == ReceiveMicrophone(i, n, p)
  <2>1. /\ j.mics = Put(i.mics, n, p) /\ j.micBytes = i.micBytes + p.size
        /\ j.media = i.media /\ j.mediaBytes = i.mediaBytes
    BY DEF ReceiveMicrophone, IsImpl, NewImpl
  <2>2. i.micBytes + p.size <= MicBytes
    BY <1>2 DEF CanReceiveMicrophone
  <2> HIDE DEF j
  <2>3. Right(j.mics, j.micBytes, MicBytes)
    BY <1>2, <2>1, <2>2, PutRight, LimitsAssumption DEF Counted
  <2> QED
    BY <2>1, <2>3 DEF Counted, j
<1> QED
  BY <1>1, <1>2

----------------------------------------------------------------------------
\* The steps

LEMMA StepCounted ==
  ASSUME Inv, Counted(out), [Next]_vars PROVE Counted(out')
<1> DEFINE i == ExpirePending(out)
<1>1. IsImpl(out) /\ IsImpl(i) /\ Counted(i)
  BY ExpirePendingCoherent, ExpireCounted DEF Inv, Coherent, ImplType, IsImpl
<1> HIDE DEF i
<1>2. ASSUME SamePackets(out, out') PROVE Counted(out')
  BY <1>2, SameCounted
<1>3. ASSUME NEW p, p.size \in Sizes PROVE p.size \in Nat
  BY <1>3, SizeAssumption
<1>4. CASE ApplicationNext
  <2>1. ASSUME NEW op \in Operation, Submit(op) PROVE Counted(out')
    BY <1>1, <2>1, EnqueueCounted DEF Submit, i
  <2>2. ASSUME NEW id \in DOMAIN out.pending, CancelRequest(id) PROVE Counted(out')
    BY <1>1, <2>2, CancelCounted DEF CancelRequest
  <2>3. ASSUME NEW id \in DOMAIN out.completions, Deliver(id) PROVE Counted(out')
    <3>1. SamePackets(out, out')
      BY <1>1, <2>3 DEF Deliver, PopCompletion, IsImpl, NewImpl, SamePackets
    <3> QED
      BY <1>2, <3>1
  <2> QED
    BY <1>4, <2>1, <2>2, <2>3 DEF ApplicationNext
<1>5. CASE MediaNext
  <2>1. ASSUME NEW slot \in Slot, NEW e \in 0..out.epoch, NEW s \in StreamId, NEW size \in Sizes,
               Push(slot, Packet(e, s, size))
        PROVE  Counted(out')
    <3>1. Packet(e, s, size).size \in Nat
      BY <1>3 DEF Packet
    <3> QED
      BY <1>1, <2>1, <3>1, QueuedCounted DEF Push
  <2>2. ASSUME NEW slot \in DOMAIN out.mics, PopMic(slot) PROVE Counted(out')
    BY <1>1, <2>2, PopCounted DEF PopMic
  <2>3. ASSUME NEW e, Discard(e) PROVE Counted(out')
    <3>1. NoPackets(out')
      BY <1>1, <2>3 DEF Discard, DiscardMedia, IsImpl, NewImpl, NoPackets
    <3> QED
      BY <3>1, NoneCounted
  <2> QED
    BY <1>5, <2>1, <2>2, <2>3 DEF MediaNext
<1>6. CASE EventNext
  <2>1. SamePackets(out, out')
    BY <1>1, <1>6 DEF EventNext, HandleCommand, HandleNote, RespondTo, PopCommand, PopNote, Respond,
      IsImpl, NewImpl, SamePackets
  <2> QED
    BY <1>2, <2>1
<1>7. CASE BackendNext
  <2>1. CASE Take
    <3>1. ASSUME NEW id, out' = TakeWork(i, id) PROVE Counted(out')
      <4>1. SamePackets(i, out')
        BY <1>1, <3>1 DEF TakeWork, IsImpl, NewImpl, SamePackets
      <4> QED
        BY <1>1, <4>1, SameCounted
    <3> QED
      BY <1>1, <2>1, <3>1 DEF Take, i
  <2>2. ASSUME NEW e, NEW id, NEW ok \in BOOLEAN, Answered(e, id, ok) PROVE Counted(out')
    BY <1>1, <2>2, CompleteCounted DEF Answered, i
  <2>3. ASSUME NEW e, NEW phase, Progress(e, phase) PROVE Counted(out')
    BY <1>1, <1>2, <2>3, PhasePackets DEF Progress, ReportProgress
  <2>4. ASSUME NEW e, Lost(e) PROVE Counted(out')
    BY <1>1, <2>4, FailCounted DEF Lost, Disconnect
  <2>5. CASE Expire
    BY <1>1, <2>5 DEF Expire, i
  <2> QED
    BY <1>7, <2>1, <2>2, <2>3, <2>4, <2>5 DEF BackendNext
<1>8. CASE BackendMediaNext
  <2>1. ASSUME NEW e, MeasureClock(e) PROVE Counted(out')
    <3>1. SamePackets(out, out')
      BY <1>1, <2>1 DEF MeasureClock, UpdateClock, IsImpl, NewImpl, SamePackets
    <3> QED
      BY <1>2, <3>1
  <2>2. CASE TakePacket
    BY <1>1, <2>2, PopCounted DEF TakePacket, i
  <2>3. ASSUME NEW slot \in Slot, NEW e \in 0..out.epoch, NEW s \in StreamId, NEW size \in Sizes,
               MicPacket(slot, Packet(e, s, size))
        PROVE  Counted(out')
    <3>1. Packet(e, s, size).size \in Nat
      BY <1>3 DEF Packet
    <3> QED
      BY <1>1, <2>3, <3>1, QueuedCounted DEF MicPacket
  <2> QED
    BY <1>8, <2>1, <2>2, <2>3 DEF BackendMediaNext
<1>9. CASE BackendEventNext
  <2>1. SamePackets(out, out')
    BY <1>1, <1>9 DEF BackendEventNext, ControlArrives, NoteArrives, Reply, ReceiveControl,
      ReceiveNote, TakeReply, IsImpl, NewImpl, SamePackets
  <2> QED
    BY <1>2, <2>1
<1>10. CASE TimeNext
  <2>1. SamePackets(out, out')
    BY <1>1, <1>10 DEF TimeNext, RequestDue, CommandDue, RequestOverdue, CommandOverdue,
      IsImpl, NewImpl, SamePackets
  <2> QED
    BY <1>2, <2>1
<1>11. CASE UNCHANGED vars
  BY <1>2, <1>11 DEF vars, SamePackets
<1> QED
  BY <1>4, <1>5, <1>6, <1>7, <1>8, <1>9, <1>10, <1>11 DEF Next

\* The counters are the bytes the queues hold, and never above their limits,
\* whatever is pushed, popped, discarded or removed with its stream: the
\* unsigned subtractions of output.cpp do not wrap.
THEOREM BytesAlwaysMatch == Spec => []BytesMatch
<1>1. Init => Counted(out)
  BY NoneCounted DEF Init, NewImpl, NoPackets
<1>2. Inv /\ Counted(out) /\ [Next]_vars => Counted(out)'
  BY StepCounted
<1>3. Counted(out) => BytesMatch
  BY DEF Counted, Right, BytesMatch
<1> QED
  BY <1>1, <1>2, <1>3, SpecInv, PTL DEF Spec
=============================================================================
