------------------------ MODULE CarPlayForwardProofs ------------------------
(***************************************************************************)
(* Proofs about CarPlayForward: nothing the coordinator has taken is lost, *)
(* its tables agree with those of the output, and media goes only to       *)
(* streams whose SETUP was acknowledged, for every value of the constants, *)
(* any phone, any backend and any user.                                    *)
(*                                                                         *)
(* Of what the output and the input do, the first is touched only by what *)
(* becomes of the car's commands and of the phone's requests: Follows and  *)
(* Succeeds say that for one call, and compose.                            *)
(***************************************************************************)
EXTENDS CarPlayForward, TLAPS

-----------------------------------------------------------------------------
\* The invariant

IsImpl(o) == DOMAIN o = DOMAIN NewImpl

\* The car's commands have ids that were given out, and only they are events.
CommandShape(o) ==
  /\ IsImpl(o)
  /\ o.nextId \in Nat \ {0}
  /\ o.incoming \in [DOMAIN o.incoming -> Inbound]
  /\ DOMAIN o.incoming \subseteq 1..(o.nextId - 1)
  /\ o.events \subseteq DOMAIN o.incoming

Ask == {"kind", "taken", "due"}
AtPhone(e) == DOMAIN e.reverse \cup DOMAIN e.reverseDone
InputShape(e) ==
  /\ DOMAIN e = DOMAIN In!NewEndpoint
  /\ e.nextId \in Nat \ {0} /\ e.generation \in Nat
  /\ \A id \in DOMAIN e.phones :
       DOMAIN e.phones[id] = Ask /\ e.phones[id].kind \in {"Send", "Modes"}

JobField == {"job", "epoch", "source", "stream", "phone", "generation"}
PhoneJobs == {t \in DOMAIN fwd.jobs : fwd.jobs[t].job = "Phone"}
ForwarderShape ==
  /\ DOMAIN fwd = DOMAIN NewForwarder
  /\ fwd.bound \in BOOLEAN /\ fwd.draining \in BOOLEAN
  /\ \A t \in DOMAIN fwd.jobs : t \in 1..(out.nextId - 1) /\ DOMAIN fwd.jobs[t] = JobField
  /\ \A r \in DOMAIN fwd.reverse : r \in 1..(input.nextId - 1) /\ fwd.reverse[r] \in 0..(out.nextId - 1)

\* Where the tick is says whether it is bound, and whether it drains; while it
\* drains, or is not bound, it holds nothing of the car or of the phone.
Places ==
  /\ fwd.pc \in {"drain", "events", "configure", "move"} => fwd.bound /\ ~fwd.draining
  /\ fwd.pc = "settle" => ~fwd.draining
  /\ fwd.pc = "release" => fwd.draining
  /\ fwd.draining \/ ~fwd.bound => fwd.reverse = NoEntry /\ PhoneJobs = {}

\* What it holds is of the session and of the generation it is bound to.
OfThisSession ==
  /\ fwd.epoch # out.epoch => Commands(fwd.reverse) \cap DOMAIN out.incoming = {}
  /\ fwd.generation # input.generation => AtPhone(input) \cap DOMAIN fwd.reverse = {}
  /\ \A t \in PhoneJobs : fwd.jobs[t].generation = fwd.generation

TakenInv ==
  /\ CommandShape(out) /\ InputShape(input) /\ ForwarderShape
  /\ Places /\ OfThisSession /\ NothingTakenIsLost

-----------------------------------------------------------------------------
\* The output: what a call leaves of the car's commands

\* Commands that wait to be popped, or have their answer, or are too late for it.
Cared(o) == {id \in DOMAIN o.incoming : id \in o.events \/ o.incoming[id].replied \/ o.incoming[id].due}

\* No command comes back, none is carried into another session, and one that
\* was cared for stays so.
Follows(o, p) ==
  /\ CommandShape(p) /\ o.nextId <= p.nextId
  /\ \A id \in DOMAIN p.incoming : id < o.nextId => id \in DOMAIN o.incoming /\ p.epoch = o.epoch
  /\ DOMAIN p.incoming \ Cared(p) \subseteq DOMAIN o.incoming \ Cared(o)

LEMMA FollowsFollows ==
  ASSUME NEW o, NEW p, NEW q, CommandShape(o), Follows(o, p), Follows(p, q)
  PROVE  Follows(o, q)
<1>1. /\ o.nextId \in Nat /\ p.nextId \in Nat /\ q.nextId \in Nat
      /\ o.nextId <= p.nextId /\ p.nextId <= q.nextId
  BY DEF Follows, CommandShape
<1>2. DOMAIN q.incoming \subseteq Nat
  BY <1>1 DEF Follows, CommandShape
<1> QED
  BY <1>1, <1>2 DEF Follows

\* A call that leaves the commands alone, or clears them.
Quiet(o, p) ==
  /\ IsImpl(p) /\ p.nextId \in Nat /\ o.nextId <= p.nextId
  /\ \/ p.incoming = o.incoming /\ p.events = o.events /\ p.epoch = o.epoch
     \/ p.incoming = NoEntry /\ p.events = {}

LEMMA QuietFollows ==
  ASSUME NEW o, NEW p, CommandShape(o), Quiet(o, p)
  PROVE  Follows(o, p)
<1>1. CASE p.incoming = o.incoming /\ p.events = o.events /\ p.epoch = o.epoch
  BY <1>1 DEF Quiet, Follows, CommandShape, Cared
<1>2. CASE p.incoming = NoEntry /\ p.events = {}
  <2>1. DOMAIN p.incoming = {}
    BY <1>2 DEF NoEntry
  <2> QED
    BY <1>2, <2>1 DEF Quiet, Follows, CommandShape, Cared
<1> QED
  BY <1>1, <1>2 DEF Quiet

LEMMA ClearIsQuiet ==
  ASSUME NEW o, NEW p, IsImpl(p), p.nextId \in Nat, o.nextId <= p.nextId
  PROVE  /\ Quiet(o, ClearSession(p)) /\ IsImpl(ClearSession(p))
         /\ ClearSession(p).nextId = p.nextId
  BY DEF ClearSession, IsImpl, NewImpl, Quiet

LEMMA FailIsQuiet ==
  ASSUME NEW o, CommandShape(o), NEW code
  PROVE  Quiet(o, Fail(o, code)) /\ Fail(o, code).nextId = o.nextId /\ IsImpl(Fail(o, code))
<1> DEFINE p == FinishAll([o EXCEPT !.phase = "Failed"], code)
<1>1. IsImpl(p) /\ p.nextId = o.nextId
  BY DEF FinishAll, Answer, IsImpl, NewImpl, CommandShape
<1> HIDE DEF p
<1>2. o.nextId \in Nat
  BY DEF CommandShape
<1>3. Fail(o, code) = ClearSession(p)
  BY DEF Fail, p
<1> QED
  BY <1>1, <1>2, <1>3, ClearIsQuiet

LEMMA AnswerIsQuiet ==
  ASSUME NEW o, CommandShape(o), NEW p, IsImpl(p), p.nextId = o.nextId, Quiet(o, p), NEW ids, NEW code
  PROVE  Quiet(o, Answer(p, ids, code))
  BY DEF Answer, IsImpl, NewImpl, CommandShape, Quiet

LEMMA ExpireIsQuiet ==
  ASSUME NEW o, CommandShape(o)
  PROVE  Quiet(o, ExpirePending(o)) /\ ExpirePending(o).nextId = o.nextId
<1>1. ExpirePending(o) \in {Fail(o, "Timeout"), Answer(o, DueRequests(o), "Timeout")}
  BY DEF ExpirePending
<1>2. Quiet(o, Answer(o, DueRequests(o), "Timeout")) /\ Answer(o, DueRequests(o), "Timeout").nextId = o.nextId
  BY DEF Answer, IsImpl, NewImpl, CommandShape, Quiet
<1>3. Quiet(o, Fail(o, "Timeout")) /\ Fail(o, "Timeout").nextId = o.nextId
  BY FailIsQuiet
<1> HIDE DEF Quiet
<1> QED
  BY <1>1, <1>2, <1>3

LEMMA EnqueueIsQuiet ==
  ASSUME NEW o, CommandShape(o), NEW op
  PROVE  Quiet(o, Enqueue(o, op)) /\ Enqueue(o, op).nextId = o.nextId + 1
<1> DEFINE j == OpenRequest(o, op)
<1>1. IsImpl(j) /\ j.nextId = o.nextId /\ Quiet(o, j)
  <2>1. CASE op.kind = "Start"
    <3>1. j = [ClearSession(o) EXCEPT !.epoch = @ + 1, !.phase = "Starting"]
      BY <2>1 DEF OpenRequest
    <3>2. IsImpl(ClearSession(o)) /\ ClearSession(o).nextId = o.nextId
          /\ ClearSession(o).incoming = NoEntry /\ ClearSession(o).events = {}
      BY DEF ClearSession, CommandShape, IsImpl, NewImpl
    <3> QED
      BY <3>1, <3>2 DEF Quiet, IsImpl, NewImpl, CommandShape
  <2>2. CASE op.kind = "Stop"
    <3> DEFINE f == FinishAll(o, "Cancelled")
    <3>1. IsImpl(f) /\ f.nextId = o.nextId
      BY DEF FinishAll, Answer, CommandShape, IsImpl, NewImpl
    <3> HIDE DEF f
    <3>2. j = [ClearSession(f) EXCEPT !.phase = "Stopping"]
      BY <2>2 DEF OpenRequest, f
    <3>3. IsImpl(ClearSession(f)) /\ ClearSession(f).nextId = o.nextId
          /\ ClearSession(f).incoming = NoEntry /\ ClearSession(f).events = {}
      BY <3>1 DEF ClearSession, IsImpl, NewImpl
    <3> QED
      BY <3>2, <3>3 DEF Quiet, IsImpl, NewImpl, CommandShape
  <2>3. CASE op.kind \notin {"Start", "Stop"}
    <3>1. j = o
      BY <2>3 DEF OpenRequest
    <3> QED
      BY <3>1 DEF Quiet, CommandShape
  <2> QED
    BY <2>1, <2>2, <2>3
<1>2. Enqueue(o, op) = [j EXCEPT !.nextId = @ + 1,
                                 !.pending = Put(@, o.nextId, [op |-> op, taken |-> FALSE, due |-> FALSE])]
  BY DEF Enqueue
<1> HIDE DEF j
<1> QED
  BY <1>1, <1>2 DEF Quiet, IsImpl, NewImpl, CommandShape

\* What the backend's success does to the session.
LEMMA CompleteIsQuiet ==
  ASSUME NEW o, CommandShape(o), NEW id, NEW ok \in BOOLEAN
  PROVE  Quiet(o, Complete(o, id, ok))
<1> DEFINE op == o.pending[id].op
           r == ApplyResult(o, op, ok)
<1>1. IsImpl(r) /\ r.nextId = o.nextId /\ Quiet(o, r)
  <2>0. ASSUME NEW phase
        PROVE  LET c == ClearSession([o EXCEPT !.phase = phase])
               IN  IsImpl(c) /\ c.nextId = o.nextId /\ Quiet(o, c)
    <3> DEFINE f == [o EXCEPT !.phase = phase]
    <3>1. IsImpl(f) /\ f.nextId = o.nextId /\ f.nextId \in Nat /\ o.nextId <= f.nextId
      BY DEF CommandShape, IsImpl, NewImpl
    <3> HIDE DEF f
    <3>2. IsImpl(ClearSession(f)) /\ ClearSession(f).nextId = o.nextId /\ Quiet(o, ClearSession(f))
      BY <3>1, ClearIsQuiet
    <3> QED
      BY <3>2 DEF f
  <2>1. CASE op.kind = "Start" /\ ok
    <3>1. r = [o EXCEPT !.peer = TRUE, !.phase = "Ready"]
      BY <2>1 DEF ApplyResult
    <3> QED
      BY <3>1 DEF Quiet, CommandShape, IsImpl, NewImpl
  <2>2. CASE op.kind = "Start" /\ ~ok
    <3>1. r = ClearSession([o EXCEPT !.phase = "Failed"])
      BY <2>2 DEF ApplyResult
    <3> QED
      BY <2>0, <3>1
  <2>3. CASE op.kind = "Stop"
    <3>1. PICK phase : r = ClearSession([o EXCEPT !.phase = phase])
      BY <2>3 DEF ApplyResult
    <3> QED
      BY <2>0, <3>1
  <2>4. CASE op.kind = "Setup" /\ ok
    <3>1. PICK streams : r = [o EXCEPT !.streams = streams]
      BY <2>4 DEF ApplyResult
    <3> QED
      BY <3>1 DEF Quiet, CommandShape, IsImpl, NewImpl
  <2>5. CASE op.kind = "Teardown" /\ ok
    <3>1. r = RemoveStream(o, op.sid)
      BY <2>5 DEF ApplyResult
    <3> QED
      BY <3>1 DEF RemoveStream, Quiet, CommandShape, IsImpl, NewImpl
  <2>6. CASE op.kind = "Record" /\ ok
    BY <2>6 DEF ApplyResult, Quiet, CommandShape, IsImpl, NewImpl
  <2>7. CASE /\ op.kind \notin {"Start", "Stop"}
             /\ ~(op.kind \in {"Setup", "Teardown", "Record"} /\ ok)
    <3>1. r = o
      BY <2>7 DEF ApplyResult
    <3> QED
      BY <3>1 DEF Quiet, CommandShape
  <2> QED
    BY <2>1, <2>2, <2>3, <2>4, <2>5, <2>6, <2>7
<1>2. PICK code : Complete(o, id, ok) = Answer(r, {id}, code)
  BY DEF Complete
<1> HIDE DEF r
<1> QED
  BY <1>1, <1>2, AnswerIsQuiet

\* Calls that touch neither commands nor events nor the session.
LEMMA PacketsAreQuiet ==
  ASSUME NEW o, CommandShape(o), NEW x, NEW y
  PROVE  /\ Quiet(o, DiscardMedia(o)) /\ Quiet(o, PushMedia(o, x, y)) /\ Quiet(o, TakeMedia(o, x))
         /\ Quiet(o, ReceiveMicrophone(o, x, y)) /\ Quiet(o, PopMicrophone(o, x))
         /\ Quiet(o, PopCompletion(o, x)) /\ Quiet(o, TakeWork(o, x)) /\ Quiet(o, RequestOverdue(o, x))
         /\ Quiet(o, PopNote(o)) /\ Quiet(o, ReceiveNote(o))
  BY DEF DiscardMedia, PushMedia, TakeMedia, ReceiveMicrophone, PopMicrophone, PopCompletion, TakeWork,
         RequestOverdue, PopNote, ReceiveNote, Quiet, CommandShape, IsImpl, NewImpl

LEMMA CancelIsQuiet ==
  ASSUME NEW o, CommandShape(o), NEW jobs
  PROVE  Quiet(o, CancelJobs(o, jobs)) /\ CancelJobs(o, jobs).nextId = o.nextId
<1> DEFINE open == {t \in DOMAIN jobs : t \in DOMAIN o.pending /\ jobs[t].epoch = o.epoch}
           c == IF \E t \in open : CancelFails(o.pending[t]) THEN Fail(o, "Cancelled")
                ELSE Answer(o, open, "Cancelled")
<1>1. CancelJobs(o, jobs) = [c EXCEPT !.completions = Without(@, DOMAIN jobs)]
  BY DEF CancelJobs
<1>0. c \in {Fail(o, "Cancelled"), Answer(o, open, "Cancelled")}
  OBVIOUS
<1> HIDE DEF open, c
<1>2. IsImpl(c) /\ c.nextId = o.nextId /\ Quiet(o, c)
  <2>1. Quiet(o, Fail(o, "Cancelled")) /\ Fail(o, "Cancelled").nextId = o.nextId
        /\ IsImpl(Fail(o, "Cancelled"))
    BY FailIsQuiet
  <2>2. /\ Quiet(o, Answer(o, open, "Cancelled")) /\ Answer(o, open, "Cancelled").nextId = o.nextId
        /\ IsImpl(Answer(o, open, "Cancelled"))
    BY DEF Answer, IsImpl, NewImpl, CommandShape, Quiet
  <2> QED
    BY <1>0, <2>1, <2>2
<1> QED
  BY <1>1, <1>2 DEF Quiet, IsImpl, NewImpl

\* An answer is there, or it is too late for one.
Settled(o, id) == o.incoming[id].replied \/ o.incoming[id].due

LEMMA RespondFollows ==
  ASSUME NEW o, CommandShape(o), NEW e, NEW ids
  PROVE  LET p == RespondAll(o, e, ids)
         IN  /\ Follows(o, p) /\ p.nextId = o.nextId /\ p.epoch = o.epoch
             /\ DOMAIN p.incoming = DOMAIN o.incoming /\ p.events \subseteq o.events
             /\ e = o.epoch => \A id \in ids \cap DOMAIN o.incoming : Settled(p, id)
<1> DEFINE can == {id \in ids \cap DOMAIN o.incoming : e = o.epoch /\ CanRespond(o, id)}
           now == [id \in DOMAIN o.incoming |-> IF id \in can THEN [o.incoming[id] EXCEPT !.replied = TRUE]
                                                              ELSE o.incoming[id]]
           p == RespondAll(o, e, ids)
<1>1. p = [o EXCEPT !.incoming = now, !.events = @ \ can]
  BY DEF RespondAll, CommandShape, IsImpl, NewImpl
<1>2. /\ IsImpl(p) /\ p.nextId = o.nextId /\ p.epoch = o.epoch
      /\ p.incoming = now /\ p.events = o.events \ can
  BY <1>1 DEF CommandShape, IsImpl, NewImpl
<1>3. \A id \in DOMAIN o.incoming :
        /\ now[id] \in Inbound
        /\ id \in can => now[id].replied
        /\ id \notin can => now[id] = o.incoming[id]
  BY DEF CommandShape, Inbound
<1> HIDE DEF p
<1>4. CommandShape(p)
  BY <1>2, <1>3 DEF CommandShape
<1>5. Cared(o) \subseteq Cared(p)
  <2> SUFFICES ASSUME NEW id \in Cared(o) PROVE id \in Cared(p)
    OBVIOUS
  <2>1. CASE id \in can
    BY <2>1, <1>2, <1>3 DEF Cared
  <2>2. CASE id \notin can
    BY <2>2, <1>2, <1>3 DEF Cared
  <2> QED
    BY <2>1, <2>2
<1>6. ASSUME e = o.epoch, NEW id \in ids \cap DOMAIN o.incoming
      PROVE  Settled(p, id)
  <2>1. CASE id \in can
    BY <2>1, <1>2, <1>3 DEF Settled
  <2>2. CASE id \notin can
    BY <2>2, <1>2, <1>3, <1>6 DEF Settled, CanRespond
  <2> QED
    BY <2>1, <2>2
<1>7. DOMAIN p.incoming = DOMAIN o.incoming
  BY <1>2
<1>8. Follows(o, p)
  BY <1>2, <1>4, <1>5, <1>7 DEF Follows, CommandShape
<1> QED
  BY <1>2, <1>6, <1>7, <1>8 DEF p

\* Every command is popped, and each has its answer or is too late for it.
LEMMA RefuseFollows ==
  ASSUME NEW o, CommandShape(o)
  PROVE  Follows(o, Refuse(o)) /\ Refuse(o).nextId = o.nextId /\ Refuse(o).epoch = o.epoch
<1> DEFINE q == RespondAll(o, o.epoch, o.events)
           p == Refuse(o)
<1>1. /\ Follows(o, q) /\ q.nextId = o.nextId /\ q.epoch = o.epoch
      /\ DOMAIN q.incoming = DOMAIN o.incoming /\ q.events \subseteq o.events
      /\ \A id \in o.events \cap DOMAIN o.incoming : Settled(q, id)
  BY RespondFollows
<1>2. p = [q EXCEPT !.events = {}, !.notes = 0]
  BY DEF Refuse
<1> HIDE DEF q, p
<1>3. IsImpl(q)
  BY <1>1 DEF Follows, CommandShape
<1>4. /\ IsImpl(p) /\ p.nextId = q.nextId /\ p.epoch = q.epoch
      /\ p.incoming = q.incoming /\ p.events = {}
  BY <1>2, <1>3 DEF IsImpl, NewImpl
<1>5. CommandShape(p)
  BY <1>1, <1>4 DEF CommandShape, Follows
<1>6. Cared(q) \subseteq Cared(p)
  BY <1>1, <1>4 DEF Cared, Settled, CommandShape
<1> QED
  BY <1>1, <1>4, <1>5, <1>6 DEF Follows, p

\* The car's side of the commands
LEMMA CommandFollows ==
  ASSUME NEW o, CommandShape(o)
  PROVE  /\ Follows(o, ReceiveControl(o))
         /\ \A id \in DOMAIN o.incoming : Follows(o, TakeReply(o, id)) /\ Follows(o, CommandOverdue(o, id))
<1>1. Follows(o, ReceiveControl(o))
  <2> DEFINE p == ReceiveControl(o)
  <2>1. /\ IsImpl(p) /\ p.nextId = o.nextId + 1 /\ p.epoch = o.epoch
        /\ p.events = o.events \cup {o.nextId}
        /\ p.incoming = Put(o.incoming, o.nextId, [replied |-> FALSE, due |-> FALSE])
    BY DEF ReceiveControl, CommandShape, IsImpl, NewImpl
  <2>2. /\ DOMAIN p.incoming = DOMAIN o.incoming \cup {o.nextId}
        /\ \A id \in DOMAIN o.incoming : id # o.nextId /\ p.incoming[id] = o.incoming[id]
        /\ p.incoming[o.nextId] = [replied |-> FALSE, due |-> FALSE]
    BY <2>1 DEF Put, CommandShape
  <2>3. p.incoming = [id \in DOMAIN p.incoming |-> p.incoming[id]]
    BY <2>1 DEF Put
  <2> HIDE DEF p
  <2>6. \A id \in DOMAIN p.incoming : p.incoming[id] \in Inbound
    <3>1. \A id \in DOMAIN o.incoming : o.incoming[id] \in Inbound
      BY DEF CommandShape
    <3>2. [replied |-> FALSE, due |-> FALSE] \in Inbound
      BY DEF Inbound
    <3> QED
      BY <2>2, <3>1, <3>2
  <2>7. p.incoming \in [DOMAIN p.incoming -> Inbound]
    BY <2>3, <2>6
  <2>4. CommandShape(p)
    BY <2>1, <2>2, <2>7 DEF CommandShape
  <2>5. DOMAIN p.incoming \ Cared(p) \subseteq DOMAIN o.incoming \ Cared(o)
    BY <2>1, <2>2 DEF Cared
  <2> QED
    BY <2>1, <2>2, <2>4, <2>5 DEF Follows, CommandShape, p
<1>2. ASSUME NEW id \in DOMAIN o.incoming PROVE Follows(o, TakeReply(o, id))
  <2> DEFINE p == TakeReply(o, id)
  <2>1. /\ IsImpl(p) /\ p.nextId = o.nextId /\ p.epoch = o.epoch /\ p.events = o.events \ {id}
        /\ p.incoming = [x \in DOMAIN o.incoming \ {id} |-> o.incoming[x]]
    BY DEF TakeReply, CommandShape, IsImpl, NewImpl, Without, Restrict
  <2> HIDE DEF p
  <2>2. CommandShape(p)
    BY <2>1 DEF CommandShape
  <2> QED
    BY <2>1, <2>2 DEF Follows, CommandShape, Cared, p
<1>3. ASSUME NEW id \in DOMAIN o.incoming PROVE Follows(o, CommandOverdue(o, id))
  <2> DEFINE p == CommandOverdue(o, id)
  <2>1. /\ IsImpl(p) /\ p.nextId = o.nextId /\ p.epoch = o.epoch /\ p.events = o.events
        /\ p.incoming = [o.incoming EXCEPT ![id] = [@ EXCEPT !.due = TRUE]]
    BY DEF CommandOverdue, CommandShape, IsImpl, NewImpl
  <2> HIDE DEF p
  <2>2. /\ DOMAIN p.incoming = DOMAIN o.incoming
        /\ p.incoming[id] = [o.incoming[id] EXCEPT !.due = TRUE]
        /\ \A x \in DOMAIN o.incoming : x # id => p.incoming[x] = o.incoming[x]
    BY <2>1
  <2>3. p.incoming[id] \in Inbound /\ p.incoming[id].due
    BY <2>2 DEF CommandShape, Inbound
  <2>4. CommandShape(p)
    BY <2>1, <2>2, <2>3 DEF CommandShape
  <2>5. Cared(o) \subseteq Cared(p)
    BY <2>1, <2>2, <2>3 DEF Cared
  <2> QED
    BY <2>1, <2>2, <2>4, <2>5 DEF Follows, CommandShape, p
<1> QED
  BY <1>1, <1>2, <1>3

-----------------------------------------------------------------------------
\* The input: what a call leaves of the phone's requests and of the car's
\* commands that are at the phone

\* None comes back, none is carried into another generation, none is taken.
Succeeds(e, f) ==
  /\ InputShape(f) /\ e.nextId <= f.nextId
  /\ \A r \in AtPhone(f) : r \in 1..(e.nextId - 1) => r \in AtPhone(e) /\ f.generation = e.generation
  /\ \A id \in DOMAIN f.phones : f.phones[id].taken =>
       id \in DOMAIN e.phones /\ e.phones[id].taken /\ f.generation = e.generation

LEMMA SucceedsSucceeds ==
  ASSUME NEW e, NEW f, NEW g, InputShape(e), Succeeds(e, f), Succeeds(f, g)
  PROVE  Succeeds(e, g)
<1>1. /\ e.nextId \in Nat /\ f.nextId \in Nat /\ g.nextId \in Nat
      /\ e.nextId <= f.nextId /\ f.nextId <= g.nextId
  BY DEF Succeeds, InputShape
<1> QED
  BY <1>1 DEF Succeeds

LEMMA ResetSucceeds ==
  ASSUME NEW e, InputShape(e), NEW c
  PROVE  Succeeds(e, In!Begin(e, c)) /\ Succeeds(e, In!End(e))
<1> DEFINE r == In!Reset(e)
<1>1. /\ DOMAIN r = DOMAIN e /\ r.nextId = e.nextId /\ r.generation = e.generation
      /\ r.phones = In!Empty /\ r.reverse = In!Empty /\ r.reverseDone = In!Empty
  BY DEF In!Reset, InputShape, In!NewEndpoint
<1>2. DOMAIN In!Empty = {}
  BY DEF In!Empty
<1> HIDE DEF r
<1>3. In!Begin(e, c) = [r EXCEPT !.generation = @ + 1, !.connected = TRUE, !.caps = c]
  BY DEF In!Begin, r
<1>4. In!End(e) = [r EXCEPT !.generation = @ + 1, !.connected = FALSE, !.caps = {}]
  BY DEF In!End, r
<1> QED
  BY <1>1, <1>2, <1>3, <1>4 DEF Succeeds, InputShape, AtPhone, In!NewEndpoint

\* Calls that touch neither the phone's requests nor the car's commands
LEMMA StreamsSucceed ==
  ASSUME NEW e, InputShape(e), NEW x, NEW y
  PROVE  /\ Succeeds(e, e)
         /\ Succeeds(e, In!SetStream(e, x, y)) /\ Succeeds(e, In!RemoveStream(e, x))
         /\ Succeeds(e, In!PushMedia(e, x)) /\ Succeeds(e, In!PostMicrophone(e, x))
         /\ Succeeds(e, In!TakeMedia(e)) /\ Succeeds(e, In!TakeMicrophone(e))
         /\ Succeeds(e, In!DiscardMedia(e)) /\ Succeeds(e, In!PopPhoneCompletion(e, x))
  BY DEF In!SetStream, In!RemoveStream, In!PushMedia, In!PostMicrophone, In!TakeMedia, In!TakeMicrophone,
         In!DiscardMedia, In!PopPhoneCompletion, Succeeds, InputShape, AtPhone, In!NewEndpoint

\* The phone's requests
LEMMA PhonesSucceed ==
  ASSUME NEW e, InputShape(e), NEW x, NEW y, NEW z
  PROVE  /\ x \in {"Send", "Modes"} => Succeeds(e, In!RequestOutput(e, x))
         /\ Succeeds(e, In!CompletePhones(e, y, z))
         /\ \A id \in DOMAIN e.phones : Succeeds(e, In!PhoneOverdue(e, id))
<1>1. ASSUME x \in {"Send", "Modes"} PROVE Succeeds(e, In!RequestOutput(e, x))
  <2> DEFINE f == In!RequestOutput(e, x)
             new == [kind |-> x, taken |-> FALSE, due |-> FALSE]
  <2>1. /\ DOMAIN f = DOMAIN e /\ f.nextId = e.nextId + 1 /\ f.generation = e.generation
        /\ AtPhone(f) = AtPhone(e) /\ f.phones = In!With(e.phones, e.nextId, new)
    BY DEF In!RequestOutput, InputShape, AtPhone, In!NewEndpoint
  <2>2. \A id \in DOMAIN f.phones : \/ f.phones[id] = new
                                    \/ id \in DOMAIN e.phones /\ f.phones[id] = e.phones[id]
    BY <2>1 DEF In!With
  <2>3. DOMAIN new = Ask /\ ~new.taken /\ new.kind \in {"Send", "Modes"}
    BY <1>1 DEF Ask
  <2> HIDE DEF f, new
  <2> QED
    BY <2>1, <2>2, <2>3 DEF Succeeds, InputShape, f
<1>2. Succeeds(e, In!CompletePhones(e, y, z))
  <2> DEFINE f == In!CompletePhones(e, y, z)
  <2>1. /\ DOMAIN f = DOMAIN e /\ f.nextId = e.nextId /\ f.generation = e.generation
        /\ AtPhone(f) = AtPhone(e) /\ \E xs : f.phones = In!Less(e.phones, xs)
    BY DEF In!CompletePhones, InputShape, AtPhone, In!NewEndpoint
  <2>2. \A id \in DOMAIN f.phones : id \in DOMAIN e.phones /\ f.phones[id] = e.phones[id]
    BY <2>1 DEF In!Less, In!Restrict
  <2> HIDE DEF f
  <2> QED
    BY <2>1, <2>2 DEF Succeeds, InputShape, f
<1>3. ASSUME NEW id \in DOMAIN e.phones PROVE Succeeds(e, In!PhoneOverdue(e, id))
  <2> DEFINE f == In!PhoneOverdue(e, id)
  <2>1. /\ DOMAIN f = DOMAIN e /\ f.nextId = e.nextId /\ f.generation = e.generation
        /\ AtPhone(f) = AtPhone(e)
        /\ f.phones = [e.phones EXCEPT ![id] = [@ EXCEPT !.due = TRUE]]
    BY DEF In!PhoneOverdue, InputShape, AtPhone, In!NewEndpoint
  <2>2. /\ DOMAIN f.phones = DOMAIN e.phones
        /\ f.phones[id] = [e.phones[id] EXCEPT !.due = TRUE]
        /\ \A a \in DOMAIN e.phones : a # id => f.phones[a] = e.phones[a]
    BY <2>1
  <2>3. /\ DOMAIN f.phones[id] = DOMAIN e.phones[id] /\ f.phones[id].taken = e.phones[id].taken
        /\ f.phones[id].kind = e.phones[id].kind
    BY <2>2 DEF InputShape, Ask
  <2> HIDE DEF f
  <2> QED
    BY <2>1, <2>2, <2>3 DEF Succeeds, InputShape, f
<1> QED
  BY <1>1, <1>2, <1>3

\* The car's commands at the phone
LEMMA ReverseSucceeds ==
  ASSUME NEW e, InputShape(e)
  PROVE  /\ Succeeds(e, In!PopReverseCompletions(e)) /\ Succeeds(e, In!PostReverse(e))
         /\ \A r \in DOMAIN e.reverse :
              /\ Succeeds(e, In!TakeReverse(e, r)) /\ Succeeds(e, In!ReverseOverdue(e, r))
              /\ \A code : Succeeds(e, In!CompleteReverse(e, r, code))
<1> DEFINE Same(f) == /\ DOMAIN f = DOMAIN e /\ e.nextId <= f.nextId /\ f.nextId \in Nat
                      /\ f.generation = e.generation /\ f.phones = e.phones
<1>1. ASSUME NEW f, Same(f), AtPhone(f) \cap 1..(e.nextId - 1) \subseteq AtPhone(e)
      PROVE  Succeeds(e, f)
  BY <1>1 DEF Succeeds, InputShape
<1>2. Succeeds(e, In!PopReverseCompletions(e))
  <2>1. /\ Same(In!PopReverseCompletions(e))
        /\ In!PopReverseCompletions(e).reverse = e.reverse
        /\ In!PopReverseCompletions(e).reverseDone = In!Empty
    BY DEF In!PopReverseCompletions, InputShape, In!NewEndpoint
  <2>2. AtPhone(In!PopReverseCompletions(e)) \subseteq AtPhone(e)
    BY <2>1 DEF AtPhone, In!Empty
  <2> QED
    BY <2>1, <2>2, <1>1
<1>3. Succeeds(e, In!PostReverse(e))
  <2> DEFINE f == In!PostReverse(e)
  <2>1. /\ Same(f) /\ f.reverseDone = e.reverseDone
        /\ f.reverse = In!With(e.reverse, e.nextId, [taken |-> FALSE, due |-> FALSE])
    BY DEF In!PostReverse, InputShape, In!NewEndpoint
  <2>2. DOMAIN f.reverse = DOMAIN e.reverse \cup {e.nextId}
    BY <2>1 DEF In!With
  <2>3. AtPhone(f) = AtPhone(e) \cup {e.nextId}
    BY <2>1, <2>2 DEF AtPhone
  <2>4. e.nextId \notin 1..(e.nextId - 1)
    BY DEF InputShape
  <2> QED
    BY <2>1, <2>3, <2>4, <1>1
<1>4. ASSUME NEW r \in DOMAIN e.reverse
      PROVE  Succeeds(e, In!TakeReverse(e, r)) /\ Succeeds(e, In!ReverseOverdue(e, r))
  <2>1. /\ Same(In!TakeReverse(e, r)) /\ Same(In!ReverseOverdue(e, r))
        /\ AtPhone(In!TakeReverse(e, r)) = AtPhone(e) /\ AtPhone(In!ReverseOverdue(e, r)) = AtPhone(e)
    BY DEF In!TakeReverse, In!ReverseOverdue, InputShape, In!NewEndpoint, AtPhone
  <2> QED
    BY <2>1, <1>1
<1>5. ASSUME NEW r \in DOMAIN e.reverse, NEW code PROVE Succeeds(e, In!CompleteReverse(e, r, code))
  <2> DEFINE f == In!CompleteReverse(e, r, code)
  <2>1. /\ Same(f) /\ f.reverse = In!Less(e.reverse, {r})
        /\ \E v : f.reverseDone = In!With(e.reverseDone, r, v)
    BY DEF In!CompleteReverse, InputShape, In!NewEndpoint
  <2>2. DOMAIN f.reverse \subseteq DOMAIN e.reverse /\ DOMAIN f.reverseDone = DOMAIN e.reverseDone \cup {r}
    BY <2>1 DEF In!Less, In!Restrict, In!With
  <2> QED
    BY <2>1, <2>2, <1>1 DEF AtPhone
<1> QED
  BY <1>2, <1>3, <1>4, <1>5

\* Both
LEMMA RequestsSucceed ==
  ASSUME NEW e, InputShape(e)
  PROVE  Succeeds(e, In!Expire(e)) /\ Succeeds(e, In!CancelRequests(e))
<1>1. Succeeds(e, In!Expire(e))
  <2> DEFINE f == In!Expire(e)
             phones == In!Due(e.phones)
             rev == In!Due(e.reverse)
  <2>1. /\ DOMAIN f = DOMAIN e /\ f.nextId = e.nextId /\ f.generation = e.generation
        /\ f.phones = In!Less(e.phones, phones) /\ f.reverse = In!Less(e.reverse, rev)
        /\ f.reverseDone = In!Finished(e.reverseDone, rev, "Timeout")
    BY DEF In!Expire, InputShape, In!NewEndpoint
  <2>2. \A id \in DOMAIN f.phones : id \in DOMAIN e.phones /\ f.phones[id] = e.phones[id]
    BY <2>1 DEF In!Less, In!Restrict
  <2>3. AtPhone(f) \subseteq AtPhone(e)
    BY <2>1 DEF In!Less, In!Restrict, In!Finished, In!Due, AtPhone
  <2> HIDE DEF f
  <2> QED
    BY <2>1, <2>2, <2>3 DEF Succeeds, InputShape, f
<1>2. Succeeds(e, In!CancelRequests(e))
  <2> DEFINE f == In!CancelRequests(e)
  <2>1. /\ DOMAIN f = DOMAIN e /\ f.nextId = e.nextId /\ f.generation = e.generation
        /\ f.phones = In!Empty /\ f.reverse = In!Empty
        /\ f.reverseDone = In!Finished(e.reverseDone, DOMAIN e.reverse, "Cancelled")
    BY DEF In!CancelRequests, InputShape, In!NewEndpoint
  <2>2. DOMAIN f.phones = {} /\ DOMAIN f.reverse = {}
        /\ DOMAIN f.reverseDone = DOMAIN e.reverseDone \cup DOMAIN e.reverse
    BY <2>1 DEF In!Empty, In!Finished
  <2> HIDE DEF f
  <2> QED
    BY <2>1, <2>2 DEF Succeeds, InputShape, AtPhone, f
<1> QED
  BY <1>1, <1>2

-----------------------------------------------------------------------------
\* The coordinator: steps that take nothing and answer nothing

Kept ==
  /\ DOMAIN fwd' = DOMAIN NewForwarder /\ fwd'.bound \in BOOLEAN /\ fwd'.draining \in BOOLEAN
  /\ fwd'.reverse = fwd.reverse
  /\ \A t \in DOMAIN fwd'.jobs : t \in 1..(out'.nextId - 1) /\ DOMAIN fwd'.jobs[t] = JobField
  /\ PhoneJobs' = PhoneJobs
  /\ \A t \in PhoneJobs : fwd'.jobs[t] = fwd.jobs[t]
  /\ \/ fwd'.generation = fwd.generation /\ fwd'.epoch = fwd.epoch
     \/ fwd.reverse = NoEntry /\ PhoneJobs = {}

LEMMA KeptStep ==
  ASSUME TakenInv, Follows(out, out'), Succeeds(input, input'), Kept, Places'
  PROVE  TakenInv'
<1>1. /\ out.nextId \in Nat /\ out'.nextId \in Nat /\ out.nextId <= out'.nextId
      /\ input.nextId \in Nat /\ input'.nextId \in Nat /\ input.nextId <= input'.nextId
  BY DEF TakenInv, Follows, Succeeds, CommandShape, InputShape
<1>2. CommandShape(out)' /\ InputShape(input)'
  BY DEF Follows, Succeeds
<1>3. ForwarderShape'
  BY <1>1 DEF TakenInv, Kept, ForwarderShape
<1>4. DOMAIN NoEntry = {} /\ (fwd.reverse = NoEntry => Commands(fwd.reverse) = {})
  BY DEF NoEntry, Commands
<1>5. OfThisSession'
  <2>1. fwd'.epoch # out'.epoch => Commands(fwd'.reverse) \cap DOMAIN out'.incoming = {}
    <3> SUFFICES ASSUME fwd'.epoch # out'.epoch,
                        NEW id \in Commands(fwd.reverse), id \in DOMAIN out'.incoming
                 PROVE  FALSE
      BY DEF Kept
    <3>1. fwd'.epoch = fwd.epoch
      BY <1>4 DEF Kept
    <3>2. id < out.nextId
      <4>1. PICK r \in DOMAIN fwd.reverse : id = fwd.reverse[r]
        BY DEF Commands
      <4> QED
        BY <4>1, <1>1 DEF TakenInv, ForwarderShape
    <3>3. id \in DOMAIN out.incoming /\ out'.epoch = out.epoch
      BY <3>2 DEF Follows
    <3> QED
      BY <3>1, <3>3 DEF TakenInv, OfThisSession
  <2>2. fwd'.generation # input'.generation => AtPhone(input') \cap DOMAIN fwd'.reverse = {}
    <3> SUFFICES ASSUME fwd'.generation # input'.generation,
                        NEW r \in DOMAIN fwd.reverse, r \in AtPhone(input')
                 PROVE  FALSE
      BY DEF Kept
    <3>1. fwd'.generation = fwd.generation
      BY <1>4 DEF Kept
    <3>2. r \in AtPhone(input) /\ input'.generation = input.generation
      BY DEF TakenInv, ForwarderShape, Succeeds
    <3> QED
      BY <3>1, <3>2 DEF TakenInv, OfThisSession
  <2>3. \A t \in PhoneJobs' : fwd'.jobs[t].generation = fwd'.generation
    BY DEF Kept, TakenInv, OfThisSession
  <2> QED
    BY <2>1, <2>2, <2>3 DEF OfThisSession
<1>6. CommandHandled'
  <2> SUFFICES ASSUME NEW id \in DOMAIN out'.incoming, id \notin Cared(out')
               PROVE  id \in Commands(fwd'.reverse)
    BY DEF CommandHandled, Cared
  <2>1. id \in DOMAIN out.incoming /\ id \notin Cared(out)
    BY DEF Follows
  <2> QED
    BY <2>1 DEF TakenInv, NothingTakenIsLost, CommandHandled, Cared, Kept
<1>7. PhoneHandled'
  <2> SUFFICES ASSUME NEW id \in DOMAIN input'.phones, input'.phones[id].taken
               PROVE  \E t \in PhoneJobs' : /\ fwd'.jobs[t].phone = id
                                            /\ fwd'.jobs[t].generation = input'.generation
    BY DEF PhoneHandled, PhoneJobs
  <2>1. id \in DOMAIN input.phones /\ input.phones[id].taken /\ input'.generation = input.generation
    BY DEF Succeeds
  <2>2. PICK t \in PhoneJobs : fwd.jobs[t].phone = id /\ fwd.jobs[t].generation = input.generation
    BY <2>1 DEF TakenInv, NothingTakenIsLost, PhoneHandled, PhoneJobs
  <2> QED
    BY <2>1, <2>2 DEF Kept
<1> QED
  BY <1>2, <1>3, <1>5, <1>6, <1>7 DEF TakenInv, NothingTakenIsLost

\* Nothing of what it holds changes.
Untouched ==
  /\ DOMAIN fwd' = DOMAIN NewForwarder
  /\ fwd'.bound = fwd.bound /\ fwd'.draining = fwd.draining
  /\ fwd'.reverse = fwd.reverse /\ fwd'.jobs = fwd.jobs
  /\ fwd'.generation = fwd.generation /\ fwd'.epoch = fwd.epoch

LEMMA UntouchedStep ==
  ASSUME TakenInv, Follows(out, out'), Succeeds(input, input'), Untouched,
         \/ fwd'.pc = fwd.pc
         \/ fwd'.pc \in {"idle", "collect", "look"}
         \/ fwd'.pc = "release" /\ fwd.draining
         \/ fwd'.pc = "settle" /\ ~fwd.draining
         \/ fwd'.pc \in {"drain", "events", "configure", "move"} /\ fwd.bound /\ ~fwd.draining
  PROVE  TakenInv'
<1>1. out.nextId \in Nat /\ out'.nextId \in Nat /\ out.nextId <= out'.nextId
  BY DEF TakenInv, Follows, CommandShape
<1>2. PhoneJobs' = PhoneJobs
  BY DEF PhoneJobs, Untouched
<1>3. Kept
  BY <1>1, <1>2 DEF Kept, Untouched, TakenInv, ForwarderShape, PhoneJobs
<1>4. Places'
  BY <1>2 DEF Places, Untouched, TakenInv
<1> QED
  BY <1>3, <1>4, KeptStep

LEMMA SameOut ==
  ASSUME NEW o, CommandShape(o)
  PROVE  Follows(o, o)
BY DEF Follows, CommandShape

\* A request of state is put among the jobs under a ticket that is new.
StateJob(entry) == DOMAIN entry = JobField /\ entry.job \in {"Setup", "Teardown", "Record"}

LEMMA JobStep ==
  ASSUME TakenInv, Follows(out, out'), Succeeds(input, input'),
         DOMAIN fwd' = DOMAIN NewForwarder, fwd'.pc = "idle",
         fwd'.bound = fwd.bound, fwd'.draining = fwd.draining, fwd'.reverse = fwd.reverse,
         fwd'.generation = fwd.generation, fwd'.epoch = fwd.epoch,
         NEW jobs, NEW entry, StateJob(entry),
         jobs = fwd.jobs \/ (jobs = NoEntry /\ PhoneJobs = {}),
         \/ fwd'.jobs = jobs
         \/ fwd'.jobs = Put(jobs, out.nextId, entry) /\ out'.nextId = out.nextId + 1
  PROVE  TakenInv'
<1>1. out.nextId \in Nat \ {0} /\ out'.nextId \in Nat /\ out.nextId <= out'.nextId
  BY DEF TakenInv, Follows, CommandShape
<1>2. DOMAIN NoEntry = {}
  BY DEF NoEntry
<1>3. \A t \in DOMAIN jobs : /\ t \in 1..(out.nextId - 1) /\ DOMAIN jobs[t] = JobField
                             /\ t # out.nextId
  BY <1>1, <1>2 DEF TakenInv, ForwarderShape
<1>4. {t \in DOMAIN jobs : jobs[t].job = "Phone"} = PhoneJobs
      /\ \A t \in PhoneJobs : t \in DOMAIN jobs /\ jobs[t] = fwd.jobs[t]
  BY <1>2 DEF PhoneJobs
<1>5. PhoneJobs' = PhoneJobs /\ (\A t \in PhoneJobs : fwd'.jobs[t] = fwd.jobs[t])
      /\ \A t \in DOMAIN fwd'.jobs : t \in 1..(out'.nextId - 1) /\ DOMAIN fwd'.jobs[t] = JobField
  <2>1. CASE fwd'.jobs = jobs
    BY <2>1, <1>1, <1>3, <1>4 DEF PhoneJobs
  <2>2. CASE fwd'.jobs = Put(jobs, out.nextId, entry) /\ out'.nextId = out.nextId + 1
    <3>1. /\ DOMAIN fwd'.jobs = DOMAIN jobs \cup {out.nextId}
          /\ fwd'.jobs[out.nextId] = entry
          /\ \A t \in DOMAIN jobs : fwd'.jobs[t] = jobs[t]
      BY <2>2, <1>3 DEF Put
    <3>2. entry.job # "Phone" /\ DOMAIN entry = JobField
      BY DEF StateJob
    <3>3. PhoneJobs' = {t \in DOMAIN fwd'.jobs : fwd'.jobs[t].job = "Phone"}
      BY DEF PhoneJobs
    <3>4. PhoneJobs' = {t \in DOMAIN jobs : jobs[t].job = "Phone"}
      BY <3>1, <3>2, <3>3
    <3> QED
      BY <2>2, <3>1, <3>2, <3>4, <1>1, <1>3, <1>4
  <2> QED
    BY <2>1, <2>2
<1>6. Kept
  BY <1>5 DEF Kept, TakenInv, ForwarderShape
<1>7. Places'
  BY <1>5 DEF Places, TakenInv
<1> QED
  BY <1>6, <1>7, KeptStep

LEMMA SubmitFollows ==
  ASSUME NEW o, CommandShape(o), NEW op
  PROVE  LET i == ExpirePending(o)
         IN  /\ Follows(o, i) /\ i.nextId = o.nextId
             /\ Follows(o, Enqueue(i, op)) /\ Enqueue(i, op).nextId = o.nextId + 1
<1> DEFINE i == ExpirePending(o)
<1>1. Follows(o, i) /\ i.nextId = o.nextId
  BY ExpireIsQuiet, QuietFollows
<1> HIDE DEF i
<1>2. CommandShape(i)
  BY <1>1 DEF Follows
<1>3. Follows(i, Enqueue(i, op)) /\ Enqueue(i, op).nextId = i.nextId + 1
  BY <1>2, EnqueueIsQuiet, QuietFollows
<1>4. Follows(o, Enqueue(i, op))
  BY <1>1, <1>3, FollowsFollows
<1> QED
  BY <1>1, <1>3, <1>4 DEF i

LEMMA ExpireBothTakes ==
  ASSUME TakenInv, ExpireBoth
  PROVE  TakenInv'
<1>1. CommandShape(out) /\ InputShape(input)
  BY DEF TakenInv
<1>2. Follows(out, out') /\ Succeeds(input, input')
  BY <1>1, SubmitFollows, RequestsSucceed DEF ExpireBoth
<1>3. Untouched /\ fwd'.pc = "collect"
  BY DEF ExpireBoth, Untouched, TakenInv, ForwarderShape, NewForwarder
<1> QED
  BY <1>2, <1>3, UntouchedStep

LEMMA LookTakes ==
  ASSUME TakenInv, Look
  PROVE  TakenInv'
<1>1. Follows(out, out') /\ Succeeds(input, input')
  BY SameOut, StreamsSucceed DEF TakenInv, Look
<1>2. PICK s, detached : fwd' = [fwd EXCEPT !.snap = s,
                            !.pc = IF fwd.bound /\ detached /\ ~ fwd.draining THEN "drain"
                                   ELSE IF fwd.draining THEN "release" ELSE "settle"]
  BY DEF Look
<1>3. Untouched
  BY <1>2 DEF Untouched, TakenInv, ForwarderShape, NewForwarder
<1>4. fwd'.pc = IF fwd.bound /\ detached /\ ~ fwd.draining THEN "drain"
                ELSE IF fwd.draining THEN "release" ELSE "settle"
  BY <1>2 DEF TakenInv, ForwarderShape, NewForwarder
<1> QED
  BY <1>1, <1>3, <1>4, UntouchedStep

\* An answer that is collected goes to whom it is for.
LEMMA CollectTakes ==
  ASSUME TakenInv, Collect
  PROVE  TakenInv'
<1> DEFINE e == In!CompletePhones(input, input.generation, PhoneResults)
           o == [out EXCEPT !.completions = Without(@, DoneJobs)]
           answered == DOMAIN e.reverseDone \cap DOMAIN fwd.reverse
           commands == IF e.generation = fwd.generation
                       THEN Commands(Restrict(fwd.reverse, answered)) ELSE {}
<1>1. /\ out' = RespondAll(o, fwd.epoch, commands)
      /\ input' = In!PopReverseCompletions(e)
      /\ fwd' = [fwd EXCEPT !.pc = "look", !.active = Established, !.failed = @ \/ JobFailed,
                            !.jobs = Without(@, DoneJobs), !.reverse = Without(@, answered)]
  BY DEF Collect, CollectNow
<1>2. /\ CommandShape(out) /\ InputShape(input) /\ ForwarderShape
      /\ Places /\ OfThisSession /\ CommandHandled /\ PhoneHandled
  BY DEF TakenInv, NothingTakenIsLost
<1>3. CommandShape(o) /\ Follows(out, o) /\ o.epoch = out.epoch /\ o.incoming = out.incoming
      /\ o.nextId = out.nextId
  <2>1. Quiet(out, o) /\ o.epoch = out.epoch /\ o.incoming = out.incoming /\ o.nextId = out.nextId
    BY <1>2 DEF Quiet, CommandShape, IsImpl, NewImpl
  <2> QED
    BY <1>2, <2>1, QuietFollows DEF Follows
<1>4. /\ e.generation = input.generation /\ e.reverse = input.reverse
      /\ e.reverseDone = input.reverseDone
      /\ e.phones = In!Less(input.phones, DOMAIN PhoneResults \cap DOMAIN input.phones)
  BY <1>2 DEF In!CompletePhones, InputShape, In!NewEndpoint
<1>5. Succeeds(input, e)
  BY <1>2, PhonesSucceed
<1> HIDE DEF e, o, commands
<1>6. /\ Follows(o, out') /\ out'.epoch = o.epoch /\ DOMAIN out'.incoming = DOMAIN o.incoming
      /\ fwd.epoch = o.epoch => \A id \in commands \cap DOMAIN o.incoming : Settled(out', id)
      /\ out'.nextId = o.nextId
  BY <1>1, <1>3, RespondFollows
<1>7. Follows(out, out')
  BY <1>2, <1>3, <1>6, FollowsFollows
<1>8. Succeeds(e, input') /\ Succeeds(input, input')
  BY <1>1, <1>2, <1>5, ReverseSucceeds, SucceedsSucceeds DEF Succeeds
<1>9. input'.phones = e.phones /\ input'.generation = e.generation /\ AtPhone(input') \subseteq AtPhone(input)
      /\ input'.nextId >= input.nextId /\ input.nextId \in Nat /\ input'.nextId \in Nat
  <2>1. DOMAIN e = DOMAIN In!NewEndpoint
    BY <1>5 DEF Succeeds, InputShape
  <2>2. input'.phones = e.phones /\ input'.generation = e.generation
        /\ input'.reverse = e.reverse /\ input'.reverseDone = In!Empty
    BY <1>1, <2>1 DEF In!PopReverseCompletions, In!NewEndpoint
  <2> QED
    BY <1>2, <1>4, <1>8, <2>2 DEF AtPhone, In!Empty, Succeeds, InputShape
<1>10. /\ DOMAIN fwd' = DOMAIN NewForwarder /\ fwd'.pc = "look"
       /\ fwd'.bound = fwd.bound /\ fwd'.draining = fwd.draining
       /\ fwd'.generation = fwd.generation /\ fwd'.epoch = fwd.epoch
       /\ fwd'.jobs = [t \in DOMAIN fwd.jobs \ DoneJobs |-> fwd.jobs[t]]
       /\ fwd'.reverse = [r \in DOMAIN fwd.reverse \ answered |-> fwd.reverse[r]]
  BY <1>1, <1>2 DEF ForwarderShape, NewForwarder, Without, Restrict
<1>11. PhoneJobs' = PhoneJobs \ DoneJobs
  BY <1>10 DEF PhoneJobs
<1>12. ForwarderShape'
  BY <1>2, <1>3, <1>6, <1>9, <1>10 DEF ForwarderShape
<1>13. Places'
  <2>1. fwd.reverse = NoEntry => fwd'.reverse = NoEntry
    BY <1>10 DEF NoEntry
  <2> QED
    BY <1>2, <1>10, <1>11, <2>1 DEF Places
<1>14. Commands(fwd'.reverse) \subseteq Commands(fwd.reverse)
  BY <1>10 DEF Commands
<1>15. OfThisSession'
  <2>1. fwd'.epoch # out'.epoch => Commands(fwd'.reverse) \cap DOMAIN out'.incoming = {}
    BY <1>2, <1>3, <1>6, <1>10, <1>14 DEF OfThisSession
  <2>2. fwd'.generation # input'.generation => AtPhone(input') \cap DOMAIN fwd'.reverse = {}
    BY <1>2, <1>4, <1>9, <1>10 DEF OfThisSession
  <2>3. \A t \in PhoneJobs' : fwd'.jobs[t].generation = fwd'.generation
    BY <1>2, <1>10, <1>11 DEF OfThisSession, PhoneJobs
  <2> QED
    BY <2>1, <2>2, <2>3 DEF OfThisSession
<1>16. CommandHandled'
  <2> SUFFICES ASSUME NEW id \in DOMAIN out'.incoming, id \notin Cared(out')
               PROVE  id \in Commands(fwd'.reverse)
    BY DEF CommandHandled, Cared
  <2>1. id \in DOMAIN out.incoming /\ id \notin Cared(out)
    BY <1>7 DEF Follows
  <2>2. id \in Commands(fwd.reverse)
    BY <1>2, <2>1 DEF CommandHandled, Cared
  <2>3. PICK r \in DOMAIN fwd.reverse : fwd.reverse[r] = id /\ id # 0
    BY <2>2 DEF Commands
  <2>4. r \notin answered
    <3> SUFFICES ASSUME r \in answered PROVE FALSE
      OBVIOUS
    <3>1. fwd.generation = input.generation
      BY <1>2, <1>4 DEF OfThisSession, AtPhone
    <3>2. id \in commands
      BY <1>4, <2>3, <3>1 DEF commands, Commands, Restrict
    <3>3. fwd.epoch = out.epoch
      BY <1>2, <2>1, <2>2 DEF OfThisSession
    <3>4. Settled(out', id)
      BY <1>3, <1>6, <2>1, <3>2, <3>3
    <3> QED
      BY <3>4 DEF Settled, Cared
  <2> QED
    BY <1>10, <2>3, <2>4 DEF Commands
<1>17. PhoneHandled'
  <2> SUFFICES ASSUME NEW id \in DOMAIN input'.phones, input'.phones[id].taken
               PROVE  \E t \in PhoneJobs' : /\ fwd'.jobs[t].phone = id
                                            /\ fwd'.jobs[t].generation = input'.generation
    BY DEF PhoneHandled, PhoneJobs
  <2>1. id \in DOMAIN input.phones \ DOMAIN PhoneResults /\ input.phones[id].taken
    BY <1>4, <1>9 DEF In!Less, In!Restrict
  <2>2. PICK t \in PhoneJobs : fwd.jobs[t].phone = id /\ fwd.jobs[t].generation = input.generation
    BY <1>2, <2>1 DEF PhoneHandled, PhoneJobs
  <2>3. t \notin DoneJobs
    BY <2>1, <2>2 DEF PhoneResults, PhoneJobs
  <2> QED
    BY <1>4, <1>9, <1>10, <1>11, <2>2, <2>3 DEF PhoneJobs
<1> QED
  BY <1>7, <1>8, <1>12, <1>13, <1>15, <1>16, <1>17 DEF TakenInv, NothingTakenIsLost, Follows, Succeeds

\* A drain answers all that it holds before it lets go of it.
LEMMA DrainTakes ==
  ASSUME TakenInv, DrainCalls,
         DOMAIN fwd' = DOMAIN NewForwarder, fwd'.pc \in {"idle", "release"},
         fwd'.bound = fwd.bound, fwd'.draining = TRUE,
         fwd'.reverse = NoEntry, fwd'.jobs = NoEntry,
         fwd'.generation = fwd.generation, fwd'.epoch = fwd.epoch
  PROVE  TakenInv'
<1> DEFINE d == DiscardOutput
           q == CancelJobs(d, fwd.jobs)
<1>1. /\ CommandShape(out) /\ InputShape(input) /\ ForwarderShape
      /\ Places /\ OfThisSession /\ CommandHandled /\ PhoneHandled
  BY DEF TakenInv, NothingTakenIsLost
<1>2. Follows(out, d)
  BY <1>1, SameOut, PacketsAreQuiet, QuietFollows DEF DiscardOutput
<1> HIDE DEF d
<1>3. CommandShape(d) /\ Follows(d, q)
  BY <1>2, CancelIsQuiet, QuietFollows DEF Follows
<1>4. Follows(out, q)
  BY <1>1, <1>2, <1>3, FollowsFollows
<1>5. out' = RespondAll(q, fwd.epoch, Commands(fwd.reverse))
  BY DEF DrainCalls, d
<1> HIDE DEF q
<1>6. /\ Follows(q, out') /\ DOMAIN out'.incoming = DOMAIN q.incoming
      /\ fwd.epoch = q.epoch =>
           \A id \in Commands(fwd.reverse) \cap DOMAIN q.incoming : Settled(out', id)
  BY <1>4, <1>5, RespondFollows DEF Follows
<1>7. Follows(out, out')
  BY <1>1, <1>4, <1>6, FollowsFollows
<1>8. Succeeds(input, input')
  <2> DEFINE m == In!DiscardMedia(input)
  <2>1. Succeeds(input, m) /\ Succeeds(input, input)
    BY <1>1, StreamsSucceed
  <2>2. Succeeds(m, In!CancelRequests(m))
    BY <2>1, RequestsSucceed DEF Succeeds
  <2>3. Succeeds(input, In!CancelRequests(m))
    BY <1>1, <2>1, <2>2, SucceedsSucceeds
  <2> QED
    BY <2>1, <2>3 DEF DrainCalls
<1>9. DOMAIN NoEntry = {}
  BY DEF NoEntry
<1>10. ForwarderShape'
  BY <1>1, <1>9 DEF ForwarderShape
<1>11. PhoneJobs' = {} /\ Commands(fwd'.reverse) = {}
  BY <1>9 DEF PhoneJobs, Commands
<1>12. Places' /\ OfThisSession'
  BY <1>9, <1>11 DEF Places, OfThisSession
<1>13. CommandHandled'
  <2> SUFFICES ASSUME NEW id \in DOMAIN out'.incoming, id \notin Cared(out')
               PROVE  FALSE
    BY DEF CommandHandled, Cared
  <2>1. id \in DOMAIN out.incoming /\ id \notin Cared(out)
    BY <1>7 DEF Follows
  <2>2. id \in Commands(fwd.reverse) /\ id < out.nextId /\ id \in DOMAIN q.incoming
    BY <1>1, <1>6, <2>1 DEF CommandHandled, Cared, CommandShape
  <2>3. q.epoch = out.epoch
    BY <1>4, <2>2 DEF Follows
  <2>4. fwd.epoch = q.epoch
    BY <1>1, <2>1, <2>2, <2>3 DEF OfThisSession
  <2>5. Settled(out', id)
    BY <1>6, <2>2, <2>4
  <2> QED
    BY <2>5 DEF Settled, Cared
<1>14. PhoneHandled'
  <2> SUFFICES ASSUME NEW id \in DOMAIN input'.phones, input'.phones[id].taken
               PROVE  FALSE
    BY DEF PhoneHandled
  <2>1. id \in DOMAIN input.phones /\ input.phones[id].taken
    BY <1>8 DEF Succeeds
  <2>2. PICK t \in PhoneJobs : fwd.jobs[t].generation = input.generation
    BY <1>1, <2>1 DEF PhoneHandled, PhoneJobs
  <2>3. input.generation = fwd.generation
    BY <1>1, <2>2 DEF OfThisSession
  <2>4. input' = In!CancelRequests(In!DiscardMedia(input))
    BY <2>3 DEF DrainCalls
  <2>5. DOMAIN In!DiscardMedia(input) = DOMAIN In!NewEndpoint
    BY <1>1 DEF In!DiscardMedia, InputShape, In!NewEndpoint
  <2>6. input'.phones = In!Empty
    BY <2>4, <2>5 DEF In!CancelRequests, In!NewEndpoint
  <2> QED
    BY <2>6 DEF In!Empty
<1> QED
  BY <1>7, <1>8, <1>10, <1>12, <1>13, <1>14 DEF TakenInv, NothingTakenIsLost, Follows, Succeeds

LEMMA DrainStepTakes ==
  ASSUME TakenInv, Drain
  PROVE  TakenInv'
<1>1. /\ DOMAIN fwd' = DOMAIN NewForwarder /\ fwd'.pc = "release"
      /\ fwd'.bound = fwd.bound /\ fwd'.draining = TRUE
      /\ fwd'.reverse = NoEntry /\ fwd'.jobs = NoEntry
      /\ fwd'.generation = fwd.generation /\ fwd'.epoch = fwd.epoch
  BY DEF Drain, Drained, TakenInv, ForwarderShape, NewForwarder
<1> QED
  BY <1>1, DrainTakes DEF Drain

\* submit of a request of state, whatever it means for the failure flag
LEMMA SubmitTakes ==
  ASSUME TakenInv, Succeeds(input, input'), NEW o, Follows(out, o), o.nextId = out.nextId,
         NEW op, NEW entry, NEW jobs,
         LET i == ExpirePending(o) IN
           \/ out' = i /\ fwd'.jobs = jobs
           \/ out' = Enqueue(i, op) /\ fwd'.jobs = Put(jobs, i.nextId, entry),
         StateJob(entry),
         jobs = fwd.jobs \/ (jobs = NoEntry /\ PhoneJobs = {}),
         DOMAIN fwd' = DOMAIN NewForwarder, fwd'.pc = "idle",
         fwd'.bound = fwd.bound, fwd'.draining = fwd.draining, fwd'.reverse = fwd.reverse,
         fwd'.generation = fwd.generation, fwd'.epoch = fwd.epoch
  PROVE  TakenInv'
<1> DEFINE i == ExpirePending(o)
<1>1. CommandShape(o) /\ CommandShape(out)
  BY DEF Follows, TakenInv
<1>2. /\ Follows(o, i) /\ i.nextId = o.nextId
      /\ Follows(o, Enqueue(i, op)) /\ Enqueue(i, op).nextId = o.nextId + 1
  BY <1>1, SubmitFollows
<1>3. \/ out' = i /\ fwd'.jobs = jobs
      \/ out' = Enqueue(i, op) /\ fwd'.jobs = Put(jobs, i.nextId, entry)
  OBVIOUS
<1> HIDE DEF i
<1>4. Follows(o, out')
  BY <1>2, <1>3
<1>5. Follows(out, out')
  BY <1>1, <1>4, FollowsFollows
<1>6. \/ fwd'.jobs = jobs
      \/ fwd'.jobs = Put(jobs, out.nextId, entry) /\ out'.nextId = out.nextId + 1
  BY <1>2, <1>3
<1> QED
  BY <1>5, <1>6, JobStep

LEMMA SubmitStateTakes ==
  ASSUME TakenInv, UNCHANGED input, NEW o, Follows(out, o), o.nextId = out.nextId,
         NEW op, NEW job \in {"Setup", "Teardown", "Record"}, NEW source, NEW stream,
         NEW refused, NEW phase,
         SubmitState(o, op, JobOf(job, source, stream), refused, phase)
  PROVE  TakenInv'
<1> DEFINE i == ExpirePending(o)
           entry == [JobOf(job, source, stream) EXCEPT !.epoch = i.epoch]
<1>1. StateJob(entry)
  BY DEF JobOf, StateJob, JobField
<1>2. Succeeds(input, input')
  BY StreamsSucceed DEF TakenInv
<1>3. DOMAIN fwd = DOMAIN NewForwarder
  BY DEF TakenInv, ForwarderShape
<1>4. \/ out' = Enqueue(i, op) /\ \E p : fwd' = Goto([fwd EXCEPT !.jobs = Put(@, i.nextId, entry), !.phase = p], "idle")
      \/ out' = i /\ \E p, b : fwd' = Goto([fwd EXCEPT !.failed = b, !.phase = p], "idle")
  BY DEF SubmitState
<1> HIDE DEF entry
<1>5. /\ DOMAIN fwd' = DOMAIN NewForwarder /\ fwd'.pc = "idle"
      /\ fwd'.bound = fwd.bound /\ fwd'.draining = fwd.draining /\ fwd'.reverse = fwd.reverse
      /\ fwd'.generation = fwd.generation /\ fwd'.epoch = fwd.epoch
  BY <1>3, <1>4 DEF Goto, NewForwarder
<1>6. \/ out' = i /\ fwd'.jobs = fwd.jobs
      \/ out' = Enqueue(i, op) /\ fwd'.jobs = Put(fwd.jobs, i.nextId, entry)
  BY <1>3, <1>4 DEF Goto, NewForwarder
<1> QED
  BY <1>1, <1>2, <1>5, <1>6, SubmitTakes

LEMMA ReleaseTakes ==
  ASSUME TakenInv, Release
  PROVE  TakenInv'
<1> DEFINE f == Abandoned
           o == Refuse(out)
<1>1. /\ CommandShape(out) /\ DOMAIN fwd = DOMAIN NewForwarder /\ Succeeds(input, input')
      /\ fwd.draining /\ fwd.reverse = NoEntry /\ PhoneJobs = {}
      /\ fwd.bound \in BOOLEAN /\ fwd.draining \in BOOLEAN
  BY StreamsSucceed DEF TakenInv, Release, ForwarderShape, Places
<1>2. Follows(out, o) /\ o.nextId = out.nextId
  BY <1>1, RefuseFollows
<1>3. /\ DOMAIN f = DOMAIN NewForwarder
      /\ f.bound = fwd.bound /\ f.draining = fwd.draining /\ f.reverse = fwd.reverse
      /\ f.generation = fwd.generation /\ f.epoch = fwd.epoch
      /\ f.jobs \in {fwd.jobs, NoEntry}
      /\ DOMAIN f.active # {} => f = fwd
  BY <1>1 DEF Abandoned, NewForwarder, NoEntry
<1> HIDE DEF o, f
<1>4. ASSUME Follows(out, out'), DOMAIN fwd' = DOMAIN NewForwarder, fwd'.reverse = fwd.reverse,
             fwd'.generation = fwd.generation, fwd'.epoch = fwd.epoch,
             fwd'.jobs \in {fwd.jobs, NoEntry},
             \/ fwd'.bound = fwd.bound /\ fwd'.draining = fwd.draining /\ fwd'.pc = "idle"
             \/ fwd'.bound = FALSE /\ fwd'.draining = FALSE /\ fwd'.pc = "settle"
      PROVE  TakenInv'
  <2>1. DOMAIN NoEntry = {}
    BY DEF NoEntry
  <2>2. PhoneJobs' = PhoneJobs
    BY <1>1, <1>4, <2>1 DEF PhoneJobs
  <2>3. out.nextId \in Nat /\ out'.nextId \in Nat /\ out.nextId <= out'.nextId
    BY <1>1, <1>4 DEF Follows, CommandShape
  <2>4. \A t \in DOMAIN fwd'.jobs : t \in 1..(out'.nextId - 1) /\ DOMAIN fwd'.jobs[t] = JobField
    BY <1>4, <2>1, <2>3 DEF TakenInv, ForwarderShape
  <2>5. Kept
    BY <1>1, <1>4, <2>2, <2>4 DEF Kept
  <2>6. Places'
    BY <1>1, <1>4, <2>2 DEF Places
  <2> QED
    BY <1>1, <1>4, <2>5, <2>6, KeptStep
<1>5. CASE /\ DOMAIN f.active = {} /\ out' = o
           /\ fwd' = IF StatePending(f.jobs) THEN Goto(f, "idle")
                     ELSE [f EXCEPT !.bound = FALSE, !.draining = FALSE, !.failed = FALSE,
                                    !.phase = "Inactive", !.pc = "settle"]
  <2>1. CASE fwd' = Goto(f, "idle")
    BY <1>2, <1>3, <1>4, <1>5, <2>1 DEF Goto, NewForwarder
  <2>2. CASE fwd' = [f EXCEPT !.bound = FALSE, !.draining = FALSE, !.failed = FALSE,
                              !.phase = "Inactive", !.pc = "settle"]
    BY <1>2, <1>3, <1>4, <1>5, <2>2 DEF NewForwarder
  <2> QED
    BY <1>5, <2>1, <2>2
<1>6. CASE /\ out' = IF f.epoch = o.epoch THEN Disconnect(o) ELSE o
           /\ fwd' = Goto([f EXCEPT !.active = NoEntry], "idle")
  <2>1. CommandShape(o)
    BY <1>2 DEF Follows
  <2>2. Follows(o, Disconnect(o)) /\ Follows(o, o)
    BY <2>1, FailIsQuiet, QuietFollows, SameOut DEF Disconnect
  <2>3. Follows(out, out')
    BY <1>1, <1>2, <1>6, <2>2, FollowsFollows
  <2> QED
    BY <1>3, <1>4, <1>6, <2>3 DEF Goto, NewForwarder
<1>7. CASE out' = o /\ fwd' = Goto(f, "idle")
  BY <1>2, <1>3, <1>4, <1>7 DEF Goto, NewForwarder
<1>8. CASE DOMAIN f.active # {} /\ \E s \in DOMAIN f.active : SubmitTeardown(o, s, f.phase)
  BY <1>2, <1>8, SubmitStateTakes DEF SubmitTeardown, Release
<1> QED
  BY <1>5, <1>6, <1>7, <1>8 DEF Release, o, f

LEMMA SettleStepTakes ==
  ASSUME TakenInv, SettleStep
  PROVE  TakenInv'
<1>1. /\ CommandShape(out) /\ InputShape(input) /\ DOMAIN fwd = DOMAIN NewForwarder
      /\ ~fwd.draining /\ fwd.pc = "settle"
  BY DEF TakenInv, SettleStep, ForwarderShape, Places
<1>2. Follows(out, out)
  BY <1>1, SameOut
<1>3. /\ Succeeds(input, input) /\ Succeeds(input, In!DiscardMedia(input))
      /\ Succeeds(input, In!CancelRequests(In!DiscardMedia(input)))
  <2> DEFINE m == In!DiscardMedia(input)
  <2>1. Succeeds(input, m) /\ Succeeds(input, input)
    BY <1>1, StreamsSucceed
  <2>2. Succeeds(m, In!CancelRequests(m))
    BY <2>1, RequestsSucceed DEF Succeeds
  <2> QED
    BY <1>1, <2>1, <2>2, SucceedsSucceeds
<1>4. Follows(out, Refuse(out))
  BY <1>1, RefuseFollows
<1>5. ASSUME NEW phase, Settle(phase)
      PROVE  Untouched /\ fwd'.pc = "idle"
  BY <1>1, <1>5 DEF Settle, Goto, Untouched, NewForwarder
<1>6. CASE Unselected
  BY <1>3, <1>4, <1>5, <1>6, UntouchedStep DEF Unselected
<1>7. CASE NoOutput
  BY <1>3, <1>4, <1>5, <1>7, UntouchedStep DEF NoOutput
<1>8. CASE ForeignStreams
  BY <1>2, <1>3, <1>5, <1>8, UntouchedStep DEF ForeignStreams
<1>9. CASE Bind
  <2>1. /\ DOMAIN fwd' = DOMAIN NewForwarder /\ fwd'.pc = "events"
        /\ fwd'.bound = TRUE /\ fwd'.draining = fwd.draining
        /\ fwd'.reverse = fwd.reverse /\ fwd'.jobs = fwd.jobs
    BY <1>1, <1>9 DEF Bind, NewForwarder
  <2>2. fwd.reverse = NoEntry /\ PhoneJobs = {} /\ PhoneJobs' = {}
    BY <1>9, <2>1 DEF Bind, TakenInv, Places, PhoneJobs
  <2>3. UNCHANGED <<out, input>>
    BY <1>9 DEF Bind
  <2>4. Kept
    BY <1>1, <2>1, <2>2, <2>3 DEF Kept, TakenInv, ForwarderShape
  <2>5. Places'
    BY <1>1, <2>1 DEF Places
  <2> QED
    BY <1>2, <1>3, <2>3, <2>4, <2>5, KeptStep
<1>10. CASE StayFailed
  <2> DEFINE o == Refuse(out)
  <2>1. out' = IF fwd.epoch = o.epoch THEN DiscardMedia(o) ELSE o
    BY <1>10 DEF StayFailed
  <2> HIDE DEF o
  <2>2. Follows(out, o) /\ CommandShape(o)
    BY <1>4 DEF Follows, o
  <2>3. Follows(o, out')
    BY <2>1, <2>2, PacketsAreQuiet, QuietFollows, SameOut
  <2>4. Follows(out, out')
    BY <1>1, <2>2, <2>3, FollowsFollows
  <2> QED
    BY <1>3, <1>5, <1>10, <2>4, UntouchedStep DEF StayFailed
<1>11. CASE Carry
  <2>1. Untouched /\ fwd'.pc = "events"
    BY <1>1, <1>11 DEF Carry, Untouched, NewForwarder
  <2> QED
    BY <1>1, <1>2, <1>3, <1>11, <2>1, UntouchedStep DEF Carry
<1> QED
  BY <1>6, <1>7, <1>8, <1>9, <1>10, <1>11 DEF SettleStep

\* A command, or a note (0), is at the phone under an id that is new.
LEMMA PostedTakes ==
  ASSUME TakenInv, fwd.pc = "events", fwd.epoch = out.epoch,
         NEW late, In!CanPostReverse(input, fwd.generation, late), input' = In!PostReverse(input),
         CommandShape(out'), out'.nextId = out.nextId, out'.epoch = out.epoch,
         NEW id \in 0..(out.nextId - 1),
         DOMAIN out'.incoming = DOMAIN out.incoming, Cared(out) \ {id} \subseteq Cared(out'),
         fwd' = [fwd EXCEPT !.reverse = Put(@, input.nextId, id)]
  PROVE  TakenInv'
<1>1. /\ CommandShape(out) /\ InputShape(input) /\ ForwarderShape
      /\ Places /\ OfThisSession /\ CommandHandled /\ PhoneHandled
  BY DEF TakenInv, NothingTakenIsLost
<1>2. /\ Succeeds(input, input') /\ input'.generation = input.generation
      /\ input'.nextId = input.nextId + 1
  BY <1>1, ReverseSucceeds DEF In!PostReverse, InputShape, In!NewEndpoint
<1>3. input.nextId \notin DOMAIN fwd.reverse /\ input.nextId \in Nat \ {0}
  BY <1>1 DEF ForwarderShape, InputShape
<1>4. /\ DOMAIN fwd' = DOMAIN NewForwarder /\ fwd'.pc = "events"
      /\ fwd'.bound = fwd.bound /\ fwd'.draining = fwd.draining
      /\ fwd'.generation = fwd.generation /\ fwd'.epoch = fwd.epoch
      /\ fwd'.jobs = fwd.jobs /\ fwd'.reverse = Put(fwd.reverse, input.nextId, id)
  BY <1>1 DEF ForwarderShape, NewForwarder
<1>5. /\ DOMAIN fwd'.reverse = DOMAIN fwd.reverse \cup {input.nextId}
      /\ fwd'.reverse[input.nextId] = id
      /\ \A r \in DOMAIN fwd.reverse : fwd'.reverse[r] = fwd.reverse[r]
  BY <1>3, <1>4 DEF Put
<1>6. Commands(fwd'.reverse) = (Commands(fwd.reverse) \cup {id}) \ {0}
  BY <1>5 DEF Commands
<1>7. ForwarderShape'
  BY <1>1, <1>2, <1>3, <1>4, <1>5 DEF ForwarderShape
<1>8. PhoneJobs' = PhoneJobs
  BY <1>4 DEF PhoneJobs
<1>9. Places'
  BY <1>1, <1>4 DEF Places
<1>10. fwd.generation = input.generation
  BY DEF In!CanPostReverse, In!Accepts
<1>11. OfThisSession'
  BY <1>1, <1>2, <1>4, <1>8, <1>10 DEF OfThisSession
<1>12. CommandHandled'
  <2> SUFFICES ASSUME NEW x \in DOMAIN out'.incoming, x \notin Cared(out')
               PROVE  x \in Commands(fwd'.reverse)
    BY DEF CommandHandled, Cared
  <2>1. x # 0
    BY DEF CommandShape
  <2>2. CASE x = id
    BY <1>6, <2>1, <2>2
  <2>3. CASE x # id
    BY <1>1, <1>6, <2>1, <2>3 DEF CommandHandled, Cared
  <2> QED
    BY <2>2, <2>3
<1>13. PhoneHandled'
  BY <1>1, <1>2, <1>4 DEF PhoneHandled, Succeeds
<1> QED
  BY <1>2, <1>7, <1>9, <1>11, <1>12, <1>13 DEF TakenInv, NothingTakenIsLost, Succeeds

LEMMA EventStepTakes ==
  ASSUME TakenInv, EventStep
  PROVE  TakenInv'
<1>1. /\ CommandShape(out) /\ InputShape(input) /\ DOMAIN fwd = DOMAIN NewForwarder
      /\ fwd.pc = "events" /\ fwd.bound /\ ~fwd.draining
  BY DEF TakenInv, EventStep, ForwarderShape, Places
<1>2. Succeeds(input, input) /\ Follows(out, out)
  BY <1>1, StreamsSucceed, SameOut
<1>3. ASSUME UNCHANGED fwd
      PROVE  Untouched /\ fwd'.pc = fwd.pc
  BY <1>1, <1>3 DEF Untouched
<1>4. CASE PassCommand
  <2>1. PICK id \in out.events :
          LET o == PopCommand(out, id) IN
          \/ /\ fwd.epoch = out.epoch
             /\ In!CanPostReverse(input, fwd.generation, out.incoming[id].due)
             /\ out' = o /\ input' = In!PostReverse(input)
             /\ fwd' = [fwd EXCEPT !.reverse = Put(@, input.nextId, id)]
          \/ /\ out' = RespondAll(o, o.epoch, {id})
             /\ UNCHANGED <<input, fwd>>
    BY <1>4 DEF PassCommand
  <2> DEFINE o == PopCommand(out, id)
  <2>2. /\ IsImpl(o) /\ o.nextId = out.nextId /\ o.epoch = out.epoch
        /\ o.incoming = out.incoming /\ o.events = out.events \ {id}
    BY <1>1 DEF PopCommand, CommandShape, IsImpl, NewImpl
  <2>3. CASE /\ fwd.epoch = out.epoch
             /\ In!CanPostReverse(input, fwd.generation, out.incoming[id].due)
             /\ out' = o /\ input' = In!PostReverse(input)
             /\ fwd' = [fwd EXCEPT !.reverse = Put(@, input.nextId, id)]
    <3> HIDE DEF o
    <3>1. id \in 0..(out.nextId - 1)
      BY <1>1 DEF CommandShape
    <3>2. CommandShape(o) /\ Cared(out) \ {id} \subseteq Cared(o)
      BY <1>1, <2>2 DEF CommandShape, Cared
    <3> QED
      BY <1>1, <2>2, <2>3, <3>1, <3>2, PostedTakes
  <2>4. CASE /\ out' = RespondAll(o, o.epoch, {id})
             /\ UNCHANGED <<input, fwd>>
    <3> HIDE DEF o
    <3>1. CommandShape(o)
      BY <1>1, <2>2 DEF CommandShape
    <3>2. /\ Follows(o, out') /\ out'.nextId = o.nextId /\ out'.epoch = o.epoch
          /\ DOMAIN out'.incoming = DOMAIN o.incoming
          /\ \A x \in {id} \cap DOMAIN o.incoming : Settled(out', x)
      BY <2>4, <3>1, RespondFollows
    <3>3. id \in DOMAIN out.incoming
      BY <1>1 DEF CommandShape
    <3>4. id \in Cared(out')
      BY <2>2, <3>2, <3>3 DEF Settled, Cared
    <3>5. Cared(out) \ {id} \subseteq Cared(o)
      BY <2>2 DEF Cared
    <3>6. DOMAIN out'.incoming \ Cared(out') \subseteq DOMAIN out.incoming \ Cared(out)
      BY <2>2, <3>2, <3>4, <3>5 DEF Follows
    <3>7. Follows(out, out')
      BY <1>1, <2>2, <3>2, <3>6 DEF Follows, CommandShape
    <3> QED
      BY <1>2, <1>3, <2>4, <3>7, UntouchedStep
  <2> QED
    BY <2>1, <2>3, <2>4
<1>5. CASE PassNote
  <2>1. out' = PopNote(out)
    BY <1>5 DEF PassNote
  <2>2. Follows(out, out')
    BY <1>1, <2>1, PacketsAreQuiet, QuietFollows
  <2>3. /\ out'.nextId = out.nextId /\ out'.epoch = out.epoch
        /\ out'.incoming = out.incoming /\ out'.events = out.events
    BY <1>1, <2>1 DEF PopNote, CommandShape, IsImpl, NewImpl
  <2>4. CASE /\ fwd.epoch = out.epoch /\ In!CanPostReverse(input, fwd.generation, FALSE)
             /\ input' = In!PostReverse(input)
             /\ fwd' = [fwd EXCEPT !.reverse = Put(@, input.nextId, 0)]
    <3>1. CommandShape(out') /\ 0 \in 0..(out.nextId - 1) /\ Cared(out) \ {0} \subseteq Cared(out')
      BY <1>1, <2>2, <2>3 DEF Follows, Cared, CommandShape
    <3> QED
      BY <1>1, <2>3, <2>4, <3>1, PostedTakes
  <2>5. CASE UNCHANGED <<input, fwd>>
    BY <1>2, <1>3, <2>2, <2>5, UntouchedStep
  <2> QED
    BY <1>5, <2>4, <2>5 DEF PassNote
<1>6. CASE EventsDone
  <2>1. Untouched /\ fwd'.pc = "configure"
    BY <1>1, <1>6 DEF EventsDone, Untouched, NewForwarder
  <2> QED
    BY <1>1, <1>2, <1>6, <2>1, UntouchedStep DEF EventsDone
<1> QED
  BY <1>4, <1>5, <1>6 DEF EventStep

LEMMA ConfigureStepTakes ==
  ASSUME TakenInv, ConfigureStep
  PROVE  TakenInv'
<1>1. /\ CommandShape(out) /\ InputShape(input) /\ DOMAIN fwd = DOMAIN NewForwarder
      /\ fwd.bound /\ ~fwd.draining /\ UNCHANGED input
  BY DEF TakenInv, ConfigureStep, ForwarderShape, Places
<1>2. Succeeds(input, input) /\ Follows(out, out)
  BY <1>1, StreamsSucceed, SameOut
<1>3. CASE WaitForAnswer
  <2>1. Untouched /\ fwd'.pc = "idle"
    BY <1>1, <1>3 DEF WaitForAnswer, Settle, Goto, Untouched, NewForwarder
  <2> QED
    BY <1>1, <1>2, <1>3, <2>1, UntouchedStep DEF WaitForAnswer
<1>4. CASE TearChanged
  <2> DEFINE o == DiscardOutput
             i == ExpirePending(o)
             entry(s) == [JobOf("Teardown", s, NoStreamYet) EXCEPT !.epoch = i.epoch]
  <2>1. PICK s, op : /\ StateJob(entry(s))
                     /\ \/ /\ out' = Enqueue(i, op)
                           /\ \E b : fwd' = Goto([fwd EXCEPT !.media = NoPacket, !.mic = NoPacket,
                                !.jobs = Put(@, i.nextId, entry(s)), !.failed = b,
                                !.phase = "Configuring"], "idle")
                        \/ /\ out' = i
                           /\ \E b : fwd' = Goto([fwd EXCEPT !.media = NoPacket, !.mic = NoPacket,
                                !.jobs = @, !.failed = b, !.phase = "Configuring"], "idle")
    <3>1. PICK s \in Changed :
            LET id == fwd.active[s].id
                ok == CanEnqueue(i, TeardownOf(id))
            IN  /\ out' = IF ok THEN Enqueue(i, TeardownOf(id)) ELSE i
                /\ fwd' = Goto([fwd EXCEPT !.media = NoPacket, !.mic = NoPacket,
                                           !.jobs = IF ok THEN Put(@, i.nextId, entry(s)) ELSE @,
                                           !.failed = @ \/ TeardownNotFound(i, id),
                                           !.phase = "Configuring"], "idle")
      BY <1>4 DEF TearChanged
    <3>2. StateJob(entry(s))
      BY DEF JobOf, StateJob, JobField
    <3>3. CASE CanEnqueue(i, TeardownOf(fwd.active[s].id))
      BY <3>1, <3>2, <3>3
    <3>4. CASE ~CanEnqueue(i, TeardownOf(fwd.active[s].id))
      BY <3>1, <3>2, <3>4
    <3> QED
      BY <3>3, <3>4
  <2>2. Follows(out, o) /\ o.nextId = out.nextId
    <3>1. DiscardMedia(out).nextId = out.nextId
      BY <1>1 DEF DiscardMedia, CommandShape, IsImpl, NewImpl
    <3> QED
      BY <1>1, <1>2, <3>1, PacketsAreQuiet, QuietFollows DEF DiscardOutput
  <2> DEFINE e == entry(s)
  <2>3. StateJob(e)
    BY <2>1
  <2> HIDE DEF o, entry
  <2>4. /\ DOMAIN fwd' = DOMAIN NewForwarder /\ fwd'.pc = "idle"
        /\ fwd'.bound = fwd.bound /\ fwd'.draining = fwd.draining /\ fwd'.reverse = fwd.reverse
        /\ fwd'.generation = fwd.generation /\ fwd'.epoch = fwd.epoch
    BY <1>1, <2>1 DEF Goto, NewForwarder
  <2>5. \/ out' = i /\ fwd'.jobs = fwd.jobs
        \/ out' = Enqueue(i, op) /\ fwd'.jobs = Put(fwd.jobs, i.nextId, e)
    BY <1>1, <2>1 DEF Goto, NewForwarder
  <2> HIDE DEF e
  <2> QED
    BY <1>1, <1>2, <2>2, <2>3, <2>4, <2>5, SubmitTakes
<1>5. CASE SetUpMissing
  BY <1>1, <1>2, <1>5, SubmitStateTakes DEF SetUpMissing, SubmitSetup
<1>6. CASE StartRecord
  BY <1>1, <1>2, <1>6, SubmitStateTakes DEF StartRecord
<1>7. CASE Configured
  <2>1. PICK p : fwd' = [fwd EXCEPT !.phase = p, !.pc = "move"]
    BY <1>7 DEF Configured
  <2>2. Untouched /\ fwd'.pc = "move"
    BY <1>1, <2>1 DEF Untouched, NewForwarder
  <2> QED
    BY <1>1, <1>2, <1>7, <2>2, UntouchedStep DEF Configured
<1> QED
  BY <1>3, <1>4, <1>5, <1>6, <1>7 DEF ConfigureStep

\* A request taken from the phone is refused at once, or has a ticket.
LEMMA ForwardPhoneTakes ==
  ASSUME TakenInv, fwd.pc = "move", ForwardPhone
  PROVE  TakenInv'
<1>1. /\ CommandShape(out) /\ InputShape(input) /\ ForwarderShape
      /\ Places /\ OfThisSession /\ CommandHandled /\ PhoneHandled
      /\ fwd.bound /\ ~fwd.draining
  BY DEF TakenInv, NothingTakenIsLost, Places
<1>2. PICK id, code, op :
        LET e == In!TakePhone(input, id)
            i == ExpirePending(out) IN
        /\ id \in In!UntakenPhones(input)
        /\ \/ /\ input' = In!CompletePhones(e, input.generation, [x \in {id} |-> code])
              /\ UNCHANGED fwd /\ out' \in {out, i}
           \/ /\ input.generation = fwd.generation
              /\ out' = Enqueue(i, op) /\ input' = e
              /\ fwd' = [fwd EXCEPT !.jobs = Put(@, i.nextId,
                           [JobOf("Phone", 0, NoStreamYet) EXCEPT !.epoch = i.epoch, !.phone = id])]
  BY Zenon DEF ForwardPhone
<1> DEFINE e == In!TakePhone(input, id)
           i == ExpirePending(out)
           entry == [JobOf("Phone", 0, NoStreamYet) EXCEPT !.epoch = i.epoch, !.phone = id]
<1>3. id \in DOMAIN input.phones
  BY <1>2 DEF In!UntakenPhones
<1>4. /\ DOMAIN e = DOMAIN In!NewEndpoint /\ e.nextId = input.nextId /\ e.generation = input.generation
      /\ e.reverse = input.reverse /\ e.reverseDone = input.reverseDone
      /\ e.phones = [input.phones EXCEPT ![id] = [@ EXCEPT !.taken = TRUE]]
  BY <1>1, <1>3 DEF In!TakePhone, InputShape, In!NewEndpoint
<1>5. /\ DOMAIN e.phones = DOMAIN input.phones
      /\ DOMAIN e.phones[id] = DOMAIN input.phones[id]
      /\ \A x \in DOMAIN input.phones : x # id => e.phones[x] = input.phones[x]
  BY <1>3, <1>4
<1>6. AtPhone(e) = AtPhone(input)
  BY <1>4 DEF AtPhone
<1>7. InputShape(e)
  BY <1>1, <1>4, <1>5 DEF InputShape
<1> HIDE DEF e
<1>8. CASE /\ input' = In!CompletePhones(e, input.generation, [x \in {id} |-> code])
           /\ UNCHANGED fwd /\ out' \in {out, i}
  <2>1. Follows(out, out')
    BY <1>1, <1>8, SameOut, SubmitFollows
  <2>2. Succeeds(e, input')
    BY <1>7, <1>8, PhonesSucceed
  <2>3. id \notin DOMAIN input'.phones
    <3>1. input'.phones = In!Less(e.phones, {id} \cap DOMAIN e.phones)
      BY <1>4, <1>8 DEF In!CompletePhones, In!NewEndpoint
    <3> QED
      BY <3>1, <1>3, <1>5 DEF In!Less, In!Restrict
  <2>4. Succeeds(input, input')
    BY <1>4, <1>5, <1>6, <2>2, <2>3 DEF Succeeds
  <2>5. Untouched /\ fwd'.pc = fwd.pc
    BY <1>1, <1>8 DEF Untouched, ForwarderShape
  <2> QED
    BY <2>1, <2>4, <2>5, UntouchedStep
<1>9. CASE /\ input.generation = fwd.generation
           /\ out' = Enqueue(i, op) /\ input' = e
           /\ fwd' = [fwd EXCEPT !.jobs = Put(@, i.nextId, entry)]
  <2>1. /\ DOMAIN entry = JobField /\ entry.job = "Phone" /\ entry.phone = id
        /\ entry.generation = fwd.generation
    BY DEF JobOf, JobField
  <2> HIDE DEF entry
  <2>2. Follows(out, out') /\ out'.nextId = out.nextId + 1 /\ i.nextId = out.nextId
    BY <1>1, <1>9, SubmitFollows
  <2> HIDE DEF i
  <2>3. /\ DOMAIN fwd' = DOMAIN NewForwarder /\ fwd'.pc = fwd.pc
        /\ fwd'.bound = fwd.bound /\ fwd'.draining = fwd.draining
        /\ fwd'.generation = fwd.generation /\ fwd'.epoch = fwd.epoch
        /\ fwd'.reverse = fwd.reverse /\ fwd'.jobs = Put(fwd.jobs, out.nextId, entry)
    BY <1>1, <1>9, <2>2 DEF ForwarderShape, NewForwarder
  <2>4. out.nextId \in Nat \ {0} /\ out.nextId \notin DOMAIN fwd.jobs
    BY <1>1 DEF CommandShape, ForwarderShape
  <2>5. /\ DOMAIN fwd'.jobs = DOMAIN fwd.jobs \cup {out.nextId}
        /\ fwd'.jobs[out.nextId] = entry
        /\ \A t \in DOMAIN fwd.jobs : fwd'.jobs[t] = fwd.jobs[t]
    BY <2>3, <2>4 DEF Put
  <2>6. PhoneJobs' = PhoneJobs \cup {out.nextId}
    BY <2>1, <2>5 DEF PhoneJobs
  <2>7. input'.generation = input.generation /\ input'.nextId = input.nextId /\ AtPhone(input') = AtPhone(input)
    BY <1>4, <1>6, <1>9
  <2>8. ForwarderShape'
    <3>1. \A t \in DOMAIN fwd'.jobs : t \in 1..(out'.nextId - 1) /\ DOMAIN fwd'.jobs[t] = JobField
      BY <1>1, <2>1, <2>2, <2>4, <2>5 DEF ForwarderShape
    <3>2. \A r \in DOMAIN fwd'.reverse : /\ r \in 1..(input'.nextId - 1)
                                         /\ fwd'.reverse[r] \in 0..(out'.nextId - 1)
      BY <1>1, <2>2, <2>3, <2>4, <2>7 DEF ForwarderShape
    <3> QED
      BY <1>1, <2>3, <3>1, <3>2 DEF ForwarderShape
  <2>9. Places'
    BY <1>1, <2>3 DEF Places
  <2>10. OfThisSession'
    <3>1. fwd'.epoch # out'.epoch => Commands(fwd'.reverse) \cap DOMAIN out'.incoming = {}
      <4> SUFFICES ASSUME fwd.epoch # out'.epoch, NEW x \in Commands(fwd.reverse), x \in DOMAIN out'.incoming
                   PROVE  FALSE
        BY <2>3
      <4>1. x < out.nextId
        BY <1>1, <2>4 DEF ForwarderShape, Commands
      <4>2. x \in DOMAIN out.incoming /\ out'.epoch = out.epoch
        BY <2>2, <4>1 DEF Follows
      <4> QED
        BY <1>1, <4>2 DEF OfThisSession
    <3>2. fwd'.generation = input'.generation
      BY <1>9, <2>3, <2>7
    <3>3. \A t \in PhoneJobs' : fwd'.jobs[t].generation = fwd'.generation
      BY <1>1, <2>1, <2>3, <2>5, <2>6 DEF OfThisSession, PhoneJobs
    <3> QED
      BY <3>1, <3>2, <3>3 DEF OfThisSession
  <2>11. CommandHandled'
    BY <1>1, <2>2, <2>3 DEF CommandHandled, Follows, Cared
  <2>12. PhoneHandled'
    <3> SUFFICES ASSUME NEW x \in DOMAIN input'.phones, input'.phones[x].taken
                 PROVE  \E t \in PhoneJobs' : /\ fwd'.jobs[t].phone = x
                                              /\ fwd'.jobs[t].generation = input'.generation
      BY DEF PhoneHandled, PhoneJobs
    <3>1. CASE x = id
      BY <1>9, <2>1, <2>5, <2>6, <2>7, <3>1
    <3>2. CASE x # id
      <4>1. x \in DOMAIN input.phones /\ input.phones[x].taken
        BY <1>5, <1>9, <3>2
      <4>2. PICK t \in PhoneJobs : fwd.jobs[t].phone = x /\ fwd.jobs[t].generation = input.generation
        BY <1>1, <4>1 DEF PhoneHandled, PhoneJobs
      <4> QED
        BY <2>5, <2>6, <2>7, <4>2 DEF PhoneJobs
    <3> QED
      BY <3>1, <3>2
  <2> QED
    BY <1>7, <1>9, <2>2, <2>8, <2>9, <2>10, <2>11, <2>12 DEF TakenInv, NothingTakenIsLost, Follows
<1> QED
  BY <1>2, <1>8, <1>9 DEF e, i, entry

LEMMA MoveStepTakes ==
  ASSUME TakenInv, MoveStep
  PROVE  TakenInv'
<1>1. /\ CommandShape(out) /\ InputShape(input) /\ DOMAIN fwd = DOMAIN NewForwarder
      /\ fwd.pc = "move"
  BY DEF TakenInv, MoveStep, ForwarderShape
<1>2. /\ Succeeds(input, input) /\ Follows(out, out)
      /\ Succeeds(input, In!TakeMedia(input)) /\ \A p : Succeeds(input, In!PostMicrophone(input, p))
      /\ \A n, p : Follows(out, PushMedia(out, n, p)) /\ Follows(out, PopMicrophone(out, n))
  BY <1>1, StreamsSucceed, SameOut, PacketsAreQuiet, QuietFollows
<1>3. CASE ForwardMedia
  <2>1. Succeeds(input, input')
    BY <1>2, <1>3 DEF ForwardMedia
  <2>2. out' = out \/ \E n, p : out' = PushMedia(out, n, p)
    BY <1>3 DEF ForwardMedia
  <2>3. \/ \E p : fwd' = [fwd EXCEPT !.media = p]
        \/ \E a : fwd' = [fwd EXCEPT !.media = NoPacket, !.active = a]
    BY <1>3 DEF ForwardMedia
  <2>4. Untouched /\ fwd'.pc = fwd.pc
    BY <1>1, <2>3 DEF Untouched, NewForwarder
  <2> QED
    BY <1>2, <2>1, <2>2, <2>4, UntouchedStep
<1>4. CASE ForwardMic
  <2>1. PICK slot, p :
          /\ out' = IF slot = NoPacket THEN out ELSE PopMicrophone(out, slot)
          /\ input' \in {input, In!PostMicrophone(input, InPacket(p))}
          /\ \E m : fwd' = [fwd EXCEPT !.mic = m]
    BY <1>4 DEF ForwardMic
  <2>2. Untouched /\ fwd'.pc = fwd.pc
    BY <1>1, <2>1 DEF Untouched, NewForwarder
  <2>3. Follows(out, out') /\ Succeeds(input, input')
    BY <1>2, <2>1
  <2> QED
    BY <2>2, <2>3, UntouchedStep
<1>5. CASE TickDone
  <2>1. Untouched /\ fwd'.pc = "idle"
    BY <1>1, <1>5 DEF TickDone, Goto, Untouched, NewForwarder
  <2> QED
    BY <1>2, <1>5, <2>1, UntouchedStep DEF TickDone
<1> QED
  BY <1>1, <1>3, <1>4, <1>5, ForwardPhoneTakes DEF MoveStep

-----------------------------------------------------------------------------
\* The phone, the transport backend, the user and time

LEMMA OthersTake ==
  ASSUME TakenInv, UNCHANGED fwd, Follows(out, out'), Succeeds(input, input')
  PROVE  TakenInv'
BY UntouchedStep DEF Untouched, TakenInv, ForwarderShape

LEMMA PhoneTakes ==
  ASSUME TakenInv, PhoneNext
  PROVE  TakenInv'
<1>1. CommandShape(out) /\ InputShape(input)
  BY DEF TakenInv
<1>2. ASSUME NEW e, Succeeds(input, e), Input(e) PROVE TakenInv'
  BY <1>1, <1>2, SameOut, OthersTake DEF Input
<1>3. CASE PhoneBegin \/ PhoneEnd
  BY <1>1, <1>2, <1>3, ResetSucceeds DEF PhoneBegin, PhoneEnd
<1>4. CASE DeclareStream \/ DropStream
  BY <1>1, <1>2, <1>4, StreamsSucceed DEF DeclareStream, DropStream
<1>5. CASE SendMedia
  BY <1>1, <1>2, <1>5, StreamsSucceed DEF SendMedia
<1>6. CASE AskOutput
  BY <1>1, <1>2, <1>6, PhonesSucceed DEF AskOutput
<1>7. CASE TakeCommand \/ AnswerCommand
  BY <1>1, <1>2, <1>7, ReverseSucceeds DEF TakeCommand, AnswerCommand, In!CanCompleteReverse
<1>8. CASE PopPhone \/ HearMic
  BY <1>1, <1>2, <1>8, StreamsSucceed DEF PopPhone, HearMic
<1> QED
  BY <1>3, <1>4, <1>5, <1>6, <1>7, <1>8 DEF PhoneNext

LEMMA BackendTakes ==
  ASSUME TakenInv, BackendNext
  PROVE  TakenInv'
<1>1. CommandShape(out) /\ InputShape(input)
  BY DEF TakenInv
<1>2. ASSUME NEW o, Follows(out, o), Output(o) PROVE TakenInv'
  BY <1>1, <1>2, StreamsSucceed, OthersTake DEF Output
<1> DEFINE i == ExpirePending(out)
<1>3. Follows(out, i) /\ CommandShape(i) /\ \A op : Follows(out, Enqueue(i, op))
  BY <1>1, SubmitFollows DEF Follows
<1> HIDE DEF i
<1>4. ASSUME NEW t
      PROVE  Follows(out, TakeWork(i, t)) /\ \A ok \in BOOLEAN : Follows(out, Complete(i, t, ok))
  <2>1. Follows(i, TakeWork(i, t)) /\ \A ok \in BOOLEAN : Follows(i, Complete(i, t, ok))
    BY <1>3, PacketsAreQuiet, CompleteIsQuiet, QuietFollows
  <2> QED
    BY <1>1, <1>3, <2>1, FollowsFollows
<1>5. CASE StartOutput
  BY <1>2, <1>3, <1>5 DEF StartOutput, i
<1>6. CASE PopStart
  BY <1>1, <1>2, <1>6, PacketsAreQuiet, QuietFollows DEF PopStart
<1>7. CASE Take
  BY <1>2, <1>3, <1>4, <1>7 DEF Take, i
<1>8. CASE Succeed
  <2>1. PICK t : Output(IF t \in DOMAIN i.pending THEN Complete(i, t, TRUE) ELSE i)
    BY <1>8 DEF Succeed, i
  <2> QED
    BY <1>2, <1>3, <1>4, <2>1
<1>9. CASE Fails
  <2>1. PICK t : Output(IF t \in DOMAIN i.pending THEN Complete(i, t, FALSE) ELSE i)
    BY <1>9 DEF Fails, i
  <2> QED
    BY <1>2, <1>3, <1>4, <2>1
<1>10. CASE Lose
  BY <1>1, <1>2, <1>10, FailIsQuiet, QuietFollows DEF Lose, Disconnect
<1>11. CASE SendPacket
  <2>1. ASSUME NEW n PROVE Follows(out, TakeMedia(i, n))
    <3>1. Follows(i, TakeMedia(i, n))
      BY <1>3, PacketsAreQuiet, QuietFollows
    <3> QED
      BY <1>1, <1>3, <3>1, FollowsFollows
  <2> QED
    BY <1>2, <1>3, <1>11, <2>1 DEF SendPacket, i
<1>15. CASE Note
  BY <1>1, <1>2, <1>15, PacketsAreQuiet, QuietFollows DEF Note
<1>12. CASE Command
  BY <1>1, <1>2, <1>12, CommandFollows DEF Command
<1>13. CASE Speak
  BY <1>1, <1>2, <1>13, PacketsAreQuiet, QuietFollows DEF Speak
<1>14. CASE Reply
  BY <1>1, <1>2, <1>14, CommandFollows DEF Reply, Answerable
<1> QED
  BY <1>5, <1>6, <1>7, <1>8, <1>9, <1>10, <1>11, <1>12, <1>13, <1>14, <1>15 DEF BackendNext

LEMMA TimeTakes ==
  ASSUME TakenInv, TimeNext
  PROVE  TakenInv'
<1>1. CommandShape(out) /\ InputShape(input)
  BY DEF TakenInv
<1>2. CASE RequestDue
  <2>1. Follows(out, out') /\ UNCHANGED <<input, fwd>>
    BY <1>1, <1>2, PacketsAreQuiet, QuietFollows DEF RequestDue, Output
  <2> QED
    BY <1>1, <2>1, StreamsSucceed, OthersTake
<1>3. CASE CommandDue
  <2>1. Follows(out, out') /\ UNCHANGED <<input, fwd>>
    BY <1>1, <1>3, CommandFollows DEF CommandDue, Output
  <2> QED
    BY <1>1, <2>1, StreamsSucceed, OthersTake
<1>4. CASE AtPhoneDue
  <2>1. Succeeds(input, input') /\ UNCHANGED <<out, fwd>>
    BY <1>1, <1>4, PhonesSucceed, ReverseSucceeds DEF AtPhoneDue, Input
  <2> QED
    BY <1>1, <2>1, SameOut, OthersTake
<1> QED
  BY <1>2, <1>3, <1>4 DEF TimeNext

LEMMA UserTakes ==
  ASSUME TakenInv, UserNext
  PROVE  TakenInv'
<1>1. /\ CommandShape(out) /\ InputShape(input) /\ DOMAIN fwd = DOMAIN NewForwarder
      /\ Follows(out, out) /\ Succeeds(input, input)
  BY SameOut, StreamsSucceed DEF TakenInv, ForwarderShape
<1>2. CASE Select
  BY <1>1, <1>2, OthersTake DEF Select
<1>3. ASSUME NEW b, fwd' = [fwd EXCEPT !.enabled = b], UNCHANGED <<out, input>> PROVE TakenInv'
  <2>1. Untouched /\ fwd'.pc = fwd.pc
    BY <1>1, <1>3 DEF Untouched, NewForwarder
  <2> QED
    BY <1>1, <1>3, <2>1, UntouchedStep
<1>4. CASE Start
  BY <1>3, <1>4 DEF Start
<1>5. CASE Stop
  <2>1. CASE DrainCalls /\ fwd' = [Drained(fwd) EXCEPT !.enabled = FALSE]
    <3>1. /\ DOMAIN fwd' = DOMAIN NewForwarder /\ fwd'.pc = "idle"
          /\ fwd'.bound = fwd.bound /\ fwd'.draining = TRUE
          /\ fwd'.reverse = NoEntry /\ fwd'.jobs = NoEntry
          /\ fwd'.generation = fwd.generation /\ fwd'.epoch = fwd.epoch
      BY <1>1, <1>5, <2>1 DEF Stop, Drained, NewForwarder
    <3> QED
      BY <2>1, <3>1, DrainTakes
  <2> QED
    BY <1>3, <1>5, <2>1 DEF Stop
<1> QED
  BY <1>2, <1>4, <1>5 DEF UserNext

-----------------------------------------------------------------------------

LEMMA InitTakes == Init => TakenInv
<1> SUFFICES ASSUME Init PROVE TakenInv
  OBVIOUS
<1>1. DOMAIN NoEntry = {} /\ DOMAIN In!Empty = {}
  BY DEF NoEntry, In!Empty
<1>2. out = NewImpl /\ input = In!NewEndpoint /\ fwd = NewForwarder
  BY DEF Init
<1>3. CommandShape(out)
  BY <1>1, <1>2 DEF CommandShape, IsImpl, NewImpl
<1>4. InputShape(input)
  BY <1>1, <1>2 DEF InputShape, In!NewEndpoint
<1>5. PhoneJobs = {} /\ fwd.reverse = NoEntry /\ Commands(fwd.reverse) = {}
  BY <1>1, <1>2 DEF PhoneJobs, NewForwarder, Commands
<1>6. ForwarderShape /\ Places /\ OfThisSession
  BY <1>1, <1>2, <1>5 DEF ForwarderShape, Places, OfThisSession, NewForwarder
<1>7. NothingTakenIsLost
  BY <1>1, <1>2 DEF NothingTakenIsLost, CommandHandled, PhoneHandled, NewImpl, In!NewEndpoint
<1> QED
  BY <1>3, <1>4, <1>6, <1>7 DEF TakenInv

LEMMA NextTakes == TakenInv /\ [Next]_vars => TakenInv'
<1> SUFFICES ASSUME TakenInv, [Next]_vars PROVE TakenInv'
  OBVIOUS
<1>1. CASE TickNext
  BY <1>1, ExpireBothTakes, CollectTakes, LookTakes, DrainStepTakes, ReleaseTakes, SettleStepTakes,
     EventStepTakes, ConfigureStepTakes, MoveStepTakes DEF TickNext
<1>2. CASE UNCHANGED vars
  BY <1>2, SameOut, StreamsSucceed, OthersTake DEF vars, TakenInv
<1> QED
  BY <1>1, <1>2, UserTakes, PhoneTakes, BackendTakes, TimeTakes DEF Next

\* Nothing that was taken is lost (CarPlayForwarder::Impl::tick, stop and what
\* they call): in every state a command of the car that left the event queue has
\* its answer, or is too late for one, or is at the phone under an id the
\* coordinator knows; and a request taken from the phone has a ticket among the
\* pending ones, of the generation the phone is in.  This holds whatever the
\* phone, the transport backend, the user and the clock do between two calls of
\* the tick, for any limits and any number of sessions.
THEOREM NothingIsEverLost == Spec => []NothingTakenIsLost
<1>1. Init => TakenInv
  BY InitTakes
<1>2. TakenInv /\ [Next]_vars => TakenInv'
  BY NextTakes
<1>3. TakenInv => NothingTakenIsLost
  BY DEF TakenInv
<1> QED
  BY <1>1, <1>2, <1>3, PTL DEF Spec

-----------------------------------------------------------------------------
\* The tables of the coordinator and of the output.  The invariant is a predicate
\* of an output record o, a coordinator f and the tickets w of the application,
\* so that it can be followed through the records between the calls of one step.
\* Most calls only settle: they answer requests without success, throw things
\* away or fail the whole session.  What is left are the few that make something:
\* an admitted request, a success of the backend, a packet pushed, answers
\* collected.

\* Kinds of the requests of the coordinator
Kind == {"Setup", "Teardown", "Record", "Send", "Modes"}

Rest == {"Idle", "Failed"}

StreamField == {"config", "id", "waiting"}

RequestShape(o) ==
  /\ IsImpl(o) /\ o.epoch \in Nat /\ o.nextId \in Nat \ {0}
  /\ Held(o) \subseteq 1..(o.nextId - 1)
  /\ DOMAIN o.pending \cap DOMAIN o.completions = {}

\* Only a Start waits while a session comes up, nothing while there is none.
RequestsFit(o) ==
  /\ o.phase \in Rest \cup BootstrapPhase \cup ConnectedPhase
  /\ \A t \in DOMAIN o.pending :
       LET kind == o.pending[t].op.kind IN
       \/ kind = "Start" /\ o.phase \in BootstrapPhase /\ DOMAIN o.pending = {t}
       \/ kind \in Kind /\ o.phase \in ConnectedPhase
  /\ o.phase \notin ConnectedPhase => DOMAIN o.streams = {}

OutFits(o) == RequestShape(o) /\ RequestsFit(o)

\* The job the operation was submitted for
IsFor(op, job, f) ==
  \/ job.job = "Setup" /\ op.kind = "Setup" /\ op.sid = job.stream.id
  \/ /\ job.job = "Teardown" /\ op.kind = "Teardown"
     /\ job.source \in DOMAIN f.active /\ op.sid = f.active[job.source].id
  \/ job.job = "Record" /\ op.kind = "Record"
  \/ job.job = "Phone" /\ op.kind \in {"Send", "Modes"}

\* Every request has one who waits for it: the application or a job.
RequestsOwned(o, f, w) ==
  \A t \in DOMAIN o.pending :
    LET op == o.pending[t].op IN
    \/ t \in w /\ op.kind = "Start"
    \/ t \in DOMAIN f.jobs /\ f.jobs[t].epoch = o.epoch /\ IsFor(op, f.jobs[t], f)

\* One job at a time changes the streams, and none is of an older session than
\* the one the coordinator is bound to.
JobsFit(o, f, w) ==
  /\ w \subseteq 1..(o.nextId - 1)
  /\ \A t \in DOMAIN f.jobs :
       /\ t \in Held(o) /\ t \notin w
       /\ f.jobs[t].job \in Job
       /\ f.jobs[t].epoch \in f.epoch..o.epoch
       /\ f.draining => f.jobs[t].epoch = f.epoch
       /\ f.jobs[t].job = "Setup" => /\ f.jobs[t].source \notin DOMAIN f.active
                                     /\ DOMAIN f.jobs[t].stream = StreamField
  /\ \A t, u \in DOMAIN f.jobs : f.jobs[t].job # "Phone" /\ f.jobs[u].job # "Phone" => t = u

BoundFits(o, f) ==
  /\ f.epoch \in 0..o.epoch
  /\ f.draining => f.bound
  /\ f.bound /\ f.epoch = o.epoch => o.phase \notin BootstrapPhase
  /\ ~ f.bound => DOMAIN f.active = {} /\ DOMAIN f.jobs = {}
  /\ \A s \in DOMAIN f.active : DOMAIN f.active[s] = StreamField

\* What was read goes stale in one direction only: a session that was up may
\* have failed, and a later one may be coming up, in which nothing was asked yet.
Deciding == {"drain", "release", "settle"}
SnapFits(o, f) ==
  f.pc \in Deciding =>
    /\ f.snap.epoch \in 0..o.epoch
    /\ f.snap.phase \in Rest \cup BootstrapPhase \cup ConnectedPhase
    /\ f.bound => /\ f.epoch <= f.snap.epoch
                  /\ f.snap.epoch = f.epoch => f.snap.phase \notin BootstrapPhase
    /\ f.snap.epoch = o.epoch =>
         /\ f.snap.phase \notin BootstrapPhase => o.phase \notin BootstrapPhase
         /\ f.snap.phase \in Rest => o.phase \in Rest
    /\ f.snap.epoch # o.epoch =>
         /\ DOMAIN o.streams = {}
         /\ \A t \in DOMAIN o.pending : o.pending[t].op.kind = "Start"

IdsOf(f) == {f.active[s].id : s \in DOMAIN f.active}

OkJobs(o, f, job) ==
  {t \in DOMAIN f.jobs : /\ t \in DOMAIN o.completions
                         /\ f.jobs[t].job = job /\ o.completions[t].code = "Ok"}

\* The streams of the coordinator are those of the output, but for the answers
\* it has not collected; no two have the same id.
StreamsFit(o, f) ==
  f.epoch = o.epoch /\ o.phase \in ConnectedPhase /\ ~ f.draining =>
    /\ \A s \in DOMAIN f.active :
         \/ f.active[s].id \in DOMAIN o.streams
         \/ \E t \in OkJobs(o, f, "Teardown") : f.jobs[t].source = s
    /\ \A r, s \in DOMAIN f.active : f.active[r].id = f.active[s].id => r = s
    /\ \A t \in DOMAIN f.jobs : f.jobs[t].job = "Setup" => f.jobs[t].stream.id \notin IdsOf(f)
    /\ \A t \in OkJobs(o, f, "Setup") : f.jobs[t].stream.id \in DOMAIN o.streams
    /\ \A t \in OkJobs(o, f, "Teardown") :
         /\ f.jobs[t].source \in DOMAIN f.active
         /\ f.active[f.jobs[t].source].id \notin DOMAIN o.streams

MediaFits(o, f) ==
  \A n \in DOMAIN o.media :
    LET s == o.media[n].sid IN
    /\ f.bound /\ ~ f.draining /\ f.epoch = o.epoch /\ o.phase = "Streaming"
    /\ s \in IdsOf(f) /\ s \in DOMAIN o.streams /\ ~ TeardownPending(o, s)

Tables(o, f, w) ==
  /\ OutFits(o) /\ RequestsOwned(o, f, w) /\ JobsFit(o, f, w) /\ BoundFits(o, f)
  /\ SnapFits(o, f) /\ StreamsFit(o, f) /\ MediaFits(o, f)

TablesInv == Tables(out, fwd, owner)

\* The invariant is about what the runs check.
LEMMA TablesSuffice ==
  ASSUME TablesInv
  PROVE  TablesAgree /\ MediaAcknowledged
<1>1. JobsKnown
  BY DEF TablesInv, Tables, JobsFit, JobsKnown
<1>2. ActiveExists
  <2>1. DoneOk("Teardown") = OkJobs(out, fwd, "Teardown")
    BY DEF DoneOk, DoneJobs, OkJobs
  <2> QED
    BY <2>1 DEF TablesInv, Tables, StreamsFit, ActiveExists, Attached, Connected
<1>3. MediaAcknowledged
  BY DEF TablesInv, Tables, MediaFits, MediaAcknowledged, OutputIds, IdsOf
<1> QED
  BY <1>1, <1>2, <1>3 DEF TablesAgree

-----------------------------------------------------------------------------
\* Calls that settle

\* From o to p requests may be answered, but not with success, and results of
\* the requests ts popped; packets may go; the session stays or fails.
Settles(o, p, ts) ==
  /\ IsImpl(p) /\ p.epoch = o.epoch /\ p.nextId \in Nat /\ o.nextId <= p.nextId
  /\ \A t \in DOMAIN p.pending : t \in DOMAIN o.pending /\ p.pending[t].op = o.pending[t].op
  /\ \A t \in DOMAIN p.completions :
       \/ t \in DOMAIN o.completions /\ p.completions[t] = o.completions[t]
       \/ t \in DOMAIN o.pending /\ p.completions[t].code # "Ok"
  /\ DOMAIN p.pending \cap DOMAIN p.completions = {}
  /\ Held(o) \ Held(p) \subseteq ts
  /\ \A n \in DOMAIN p.media : n \in DOMAIN o.media /\ p.media[n] = o.media[n]
  /\ \/ p.phase = o.phase /\ p.streams = o.streams
     \/ p.phase = "Failed" /\ DOMAIN p.pending = {} /\ DOMAIN p.streams = {} /\ DOMAIN p.media = {}

LEMMA SettlesSettles ==
  ASSUME NEW o, NEW p, NEW q, NEW ts, NEW us, o.nextId \in Nat,
         Settles(o, p, ts), Settles(p, q, us)
  PROVE  Settles(o, q, ts \cup us)
<1>1. \A t \in DOMAIN q.completions :
        \/ t \in DOMAIN o.completions /\ q.completions[t] = o.completions[t]
        \/ t \in DOMAIN o.pending /\ q.completions[t].code # "Ok"
  BY DEF Settles
<1>2. Held(o) \ Held(q) \subseteq ts \cup us
  BY DEF Settles
<1>3. \/ q.phase = o.phase /\ q.streams = o.streams
      \/ q.phase = "Failed" /\ DOMAIN q.pending = {} /\ DOMAIN q.streams = {} /\ DOMAIN q.media = {}
  BY DEF Settles
<1> QED
  BY <1>1, <1>2, <1>3 DEF Settles

LEMMA SettlesFits ==
  ASSUME NEW o, NEW p, NEW ts, OutFits(o), Settles(o, p, ts)
  PROVE  OutFits(p) /\ Held(p) \subseteq Held(o)
<1>1. Held(p) \subseteq Held(o)
  BY DEF Settles, Held
<1>2. RequestShape(p)
  BY <1>1 DEF Settles, OutFits, RequestShape
<1>3. RequestsFit(p)
  <2>1. CASE p.phase = o.phase /\ p.streams = o.streams
    BY <2>1 DEF Settles, OutFits, RequestsFit
  <2>2. CASE p.phase = "Failed" /\ DOMAIN p.pending = {} /\ DOMAIN p.streams = {}
    BY <2>2 DEF RequestsFit, Rest
  <2> QED
    BY <2>1, <2>2 DEF Settles
<1> QED
  BY <1>1, <1>2, <1>3 DEF OutFits

\* What was read stays as right as it was.
LEMMA SettlesSnap ==
  ASSUME NEW o, NEW f, SnapFits(o, f), NEW p, NEW ts, Settles(o, p, ts), NEW g,
         g.bound => f.bound, g.epoch = f.epoch,
         g.pc \in Deciding => f.pc \in Deciding /\ g.snap = f.snap
  PROVE  SnapFits(p, g)
<1> SUFFICES ASSUME g.pc \in Deciding PROVE SnapFits(p, g)
  BY DEF SnapFits
<1>1. /\ p.epoch = o.epoch
      /\ \/ p.phase = o.phase /\ p.streams = o.streams
         \/ p.phase = "Failed" /\ DOMAIN p.streams = {}
      /\ \A t \in DOMAIN p.pending : t \in DOMAIN o.pending /\ p.pending[t].op = o.pending[t].op
  BY DEF Settles
<1> QED
  BY <1>1 DEF SnapFits, Rest, BootstrapPhase

\* The coordinator holds the same tables, and has read nothing new.
SameTables(f, g) ==
  /\ g.bound = f.bound /\ g.draining = f.draining /\ g.epoch = f.epoch /\ g.jobs = f.jobs
  /\ DOMAIN g.active = DOMAIN f.active
  /\ \A s \in DOMAIN f.active : /\ g.active[s].id = f.active[s].id
                                /\ DOMAIN g.active[s] = DOMAIN f.active[s]
  /\ g.pc \in Deciding => f.pc \in Deciding /\ g.snap = f.snap

LEMMA SettlesTables ==
  ASSUME NEW o, NEW f, NEW w, Tables(o, f, w), NEW p, NEW ts, Settles(o, p, ts),
         NEW g, SameTables(f, g), ts \cap DOMAIN f.jobs = {}
  PROVE  Tables(p, g, w)
<1>1. OutFits(p) /\ Held(p) \subseteq Held(o) /\ OutFits(o)
  BY SettlesFits DEF Tables
<1>2. RequestsOwned(p, g, w)
  BY DEF Settles, Tables, RequestsOwned, SameTables, IsFor
<1>3. JobsFit(p, g, w)
  <2>1. o.nextId \in Nat /\ p.nextId \in Nat /\ o.nextId <= p.nextId /\ p.epoch = o.epoch
    BY <1>1 DEF Settles, OutFits, RequestShape
  <2>2. w \subseteq 1..(p.nextId - 1)
    BY <2>1 DEF Tables, JobsFit
  <2>3. \A t \in DOMAIN f.jobs : t \in Held(p)
    BY DEF Settles, Tables, JobsFit
  <2> QED
    BY <2>1, <2>2, <2>3 DEF Tables, JobsFit, SameTables
<1>4. BoundFits(p, g)
  BY DEF Tables, BoundFits, Settles, SameTables, BootstrapPhase
<1>5. SnapFits(p, g)
  BY SettlesSnap DEF Tables, SameTables
<1>6. ASSUME p.phase \in ConnectedPhase
      PROVE  p.phase = o.phase /\ p.streams = o.streams
  BY <1>6 DEF Settles, ConnectedPhase
<1>7. ASSUME NEW job PROVE OkJobs(p, g, job) = OkJobs(o, f, job)
  <2>1. \A t \in OkJobs(p, g, job) : t \in OkJobs(o, f, job)
    BY DEF OkJobs, Settles, SameTables
  <2>2. ASSUME NEW t \in OkJobs(o, f, job) PROVE t \in OkJobs(p, g, job)
    <3>1. t \in DOMAIN f.jobs /\ t \in DOMAIN o.completions /\ o.completions[t].code = "Ok"
      BY DEF OkJobs
    <3>2. t \notin DOMAIN o.pending /\ t \in Held(p)
      BY <1>1, <3>1 DEF OutFits, RequestShape, Settles, Held
    <3>3. t \in DOMAIN p.completions /\ p.completions[t] = o.completions[t]
      BY <3>2 DEF Settles, Held
    <3> QED
      BY <3>1, <3>3 DEF OkJobs, SameTables
  <2> QED
    BY <2>1, <2>2
<1>8. IdsOf(g) = IdsOf(f)
  BY DEF IdsOf, SameTables
<1>9. StreamsFit(p, g)
  <2> SUFFICES ASSUME g.epoch = p.epoch, p.phase \in ConnectedPhase, ~ g.draining
               PROVE  StreamsFit(p, g)
    BY DEF StreamsFit
  <2>1. f.epoch = o.epoch /\ o.phase \in ConnectedPhase /\ ~ f.draining /\ p.streams = o.streams
    BY <1>6 DEF SameTables, Settles
  <2>2. StreamsFit(o, f)
    BY DEF Tables
  <2>3. /\ \A s \in DOMAIN f.active :
             \/ f.active[s].id \in DOMAIN o.streams
             \/ \E t \in OkJobs(o, f, "Teardown") : f.jobs[t].source = s
        /\ \A r, s \in DOMAIN f.active : f.active[r].id = f.active[s].id => r = s
        /\ \A t \in DOMAIN f.jobs : f.jobs[t].job = "Setup" => f.jobs[t].stream.id \notin IdsOf(f)
        /\ \A t \in OkJobs(o, f, "Setup") : f.jobs[t].stream.id \in DOMAIN o.streams
        /\ \A t \in OkJobs(o, f, "Teardown") :
             /\ f.jobs[t].source \in DOMAIN f.active
             /\ f.active[f.jobs[t].source].id \notin DOMAIN o.streams
    BY <2>1, <2>2 DEF StreamsFit
  <2>4. g.jobs = f.jobs /\ DOMAIN g.active = DOMAIN f.active
        /\ \A s \in DOMAIN f.active : g.active[s].id = f.active[s].id
    BY DEF SameTables
  <2>5. OkJobs(p, g, "Setup") = OkJobs(o, f, "Setup") /\ OkJobs(p, g, "Teardown") = OkJobs(o, f, "Teardown")
    BY <1>7
  <2> QED
    BY <1>8, <2>1, <2>3, <2>4, <2>5 DEF StreamsFit
<1>10. MediaFits(p, g)
  <2> SUFFICES ASSUME NEW n \in DOMAIN p.media
               PROVE  LET s == p.media[n].sid IN
                      /\ g.bound /\ ~ g.draining /\ g.epoch = p.epoch /\ p.phase = "Streaming"
                      /\ s \in IdsOf(g) /\ s \in DOMAIN p.streams /\ ~ TeardownPending(p, s)
    BY DEF MediaFits
  <2>1. n \in DOMAIN o.media /\ p.media[n] = o.media[n] /\ p.epoch = o.epoch
        /\ p.phase = o.phase /\ p.streams = o.streams
    BY DEF Settles
  <2>2. ASSUME NEW s, TeardownPending(p, s) PROVE TeardownPending(o, s)
    BY <2>2 DEF TeardownPending, Settles
  <2> QED
    BY <1>8, <2>1, <2>2 DEF Tables, MediaFits, SameTables
<1> QED
  BY <1>1, <1>2, <1>3, <1>4, <1>5, <1>9, <1>10 DEF Tables

-----------------------------------------------------------------------------
\* The calls that settle

LEMMA SelfSettles ==
  ASSUME NEW o, OutFits(o)
  PROVE  Settles(o, o, {})
BY DEF OutFits, RequestShape, Settles

LEMMA AnswerSettles ==
  ASSUME NEW o, OutFits(o), NEW ids, ids \subseteq DOMAIN o.pending, NEW code, code # "Ok"
  PROVE  /\ Settles(o, Answer(o, ids, code), {})
         /\ DOMAIN Answer(o, ids, code).pending = DOMAIN o.pending \ ids
<1> DEFINE p == Answer(o, ids, code)
<1>1. /\ IsImpl(p) /\ p.epoch = o.epoch /\ p.nextId = o.nextId /\ p.phase = o.phase
      /\ p.streams = o.streams /\ p.media = o.media
      /\ p.pending = [t \in DOMAIN o.pending \ ids |-> o.pending[t]]
      /\ p.completions = [t \in DOMAIN o.completions \cup ids |->
                            IF t \in ids THEN [epoch |-> o.epoch, code |-> code]
                                         ELSE o.completions[t]]
  BY DEF Answer, OutFits, RequestShape, IsImpl, NewImpl, Without, Restrict
<1>2. DOMAIN o.pending \cap DOMAIN o.completions = {} /\ o.nextId \in Nat
  BY DEF OutFits, RequestShape
<1> HIDE DEF p
<1> QED
  BY <1>1, <1>2 DEF Settles, Held, p

LEMMA FailSettles ==
  ASSUME NEW o, OutFits(o), NEW code, code # "Ok"
  PROVE  /\ Settles(o, Fail(o, code), {})
         /\ DOMAIN Fail(o, code).pending = {} /\ DOMAIN Fail(o, code).media = {}
<1> DEFINE q == [o EXCEPT !.phase = "Failed"]
           a == Answer(q, DOMAIN q.pending, code)
           p == ClearSession(a)
<1>1. /\ IsImpl(q) /\ q.epoch = o.epoch /\ q.nextId = o.nextId /\ q.phase = "Failed"
      /\ q.pending = o.pending /\ q.completions = o.completions
  BY DEF OutFits, RequestShape, IsImpl, NewImpl
<1> HIDE DEF q
<1>2. /\ IsImpl(a) /\ a.epoch = o.epoch /\ a.nextId = o.nextId /\ a.phase = "Failed"
      /\ DOMAIN a.pending = {}
      /\ a.completions = [t \in DOMAIN o.completions \cup DOMAIN o.pending |->
                            IF t \in DOMAIN o.pending THEN [epoch |-> o.epoch, code |-> code]
                                                      ELSE o.completions[t]]
  BY <1>1 DEF Answer, IsImpl, NewImpl, Without, Restrict
<1> HIDE DEF a
<1>3. /\ IsImpl(p) /\ p.epoch = o.epoch /\ p.nextId = o.nextId /\ p.phase = "Failed"
      /\ p.pending = a.pending /\ p.completions = a.completions
      /\ DOMAIN p.streams = {} /\ DOMAIN p.media = {}
  BY <1>2 DEF ClearSession, IsImpl, NewImpl, NoEntry
<1>4. o.nextId \in Nat
  BY DEF OutFits, RequestShape
<1> HIDE DEF p
<1>5. Settles(o, p, {}) /\ DOMAIN p.pending = {} /\ DOMAIN p.media = {}
  BY <1>2, <1>3, <1>4 DEF Settles, Held
<1>6. p = Fail(o, code)
  BY DEF p, a, q, Fail, FinishAll
<1> QED
  BY <1>5, <1>6

LEMMA ExpireSettles ==
  ASSUME NEW o, OutFits(o)
  PROVE  Settles(o, ExpirePending(o), {})
<1>1. DueRequests(o) \subseteq DOMAIN o.pending
  BY DEF DueRequests
<1>2. ExpirePending(o) \in {Fail(o, "Timeout"), Answer(o, DueRequests(o), "Timeout")}
  BY DEF ExpirePending
<1>3. Settles(o, Fail(o, "Timeout"), {})
  BY FailSettles
<1>4. Settles(o, Answer(o, DueRequests(o), "Timeout"), {})
  BY <1>1, AnswerSettles
<1> QED
  BY <1>2, <1>3, <1>4

LEMMA PopSettles ==
  ASSUME NEW o, OutFits(o), NEW ts
  PROVE  LET p == [o EXCEPT !.completions = Without(@, ts)]
         IN  /\ Settles(o, p, ts) /\ p.pending = o.pending
             /\ p.completions = [t \in DOMAIN o.completions \ ts |-> o.completions[t]]
             /\ p.epoch = o.epoch /\ p.phase = o.phase /\ p.streams = o.streams
             /\ p.media = o.media /\ p.nextId = o.nextId
<1> DEFINE p == [o EXCEPT !.completions = Without(@, ts)]
<1>1. /\ IsImpl(p) /\ p.epoch = o.epoch /\ p.nextId = o.nextId /\ p.phase = o.phase
      /\ p.streams = o.streams /\ p.media = o.media /\ p.pending = o.pending
      /\ p.completions = [t \in DOMAIN o.completions \ ts |-> o.completions[t]]
  BY DEF OutFits, RequestShape, IsImpl, NewImpl, Without, Restrict
<1>2. DOMAIN o.pending \cap DOMAIN o.completions = {} /\ o.nextId \in Nat
  BY DEF OutFits, RequestShape
<1> HIDE DEF p
<1>3. Settles(o, p, ts)
  BY <1>1, <1>2 DEF Settles, Held
<1> QED
  BY <1>1, <1>3 DEF p

\* The tables are the same, but for packets that went.
Alike(o, p) ==
  /\ IsImpl(p) /\ p.epoch = o.epoch /\ p.nextId \in Nat /\ o.nextId <= p.nextId
  /\ p.phase = o.phase /\ p.streams = o.streams /\ p.completions = o.completions
  /\ DOMAIN p.pending = DOMAIN o.pending
  /\ \A t \in DOMAIN o.pending : p.pending[t].op = o.pending[t].op
  /\ \A n \in DOMAIN p.media : n \in DOMAIN o.media /\ p.media[n] = o.media[n]

LEMMA AlikeAlike ==
  ASSUME NEW o, OutFits(o), NEW p, Alike(o, p), NEW q, Alike(p, q)
  PROVE  Alike(o, q)
<1>1. o.nextId \in Nat
  BY DEF OutFits, RequestShape
<1>2. \A t \in DOMAIN o.pending : q.pending[t].op = o.pending[t].op
  BY DEF Alike
<1>3. \A n \in DOMAIN q.media : n \in DOMAIN o.media /\ q.media[n] = o.media[n]
  BY DEF Alike
<1> QED
  BY <1>1, <1>2, <1>3 DEF Alike

LEMMA AlikeSettles ==
  ASSUME NEW o, OutFits(o), NEW p, Alike(o, p)
  PROVE  Settles(o, p, {})
BY DEF Alike, Settles, OutFits, RequestShape, Held

LEMMA PacketsAreAlike ==
  ASSUME NEW o, OutFits(o), NEW x, NEW y
  PROVE  /\ Alike(o, DiscardMedia(o)) /\ DOMAIN DiscardMedia(o).media = {}
         /\ Alike(o, TakeMedia(o, x)) /\ Alike(o, PopMicrophone(o, x))
         /\ Alike(o, ReceiveMicrophone(o, x, y))
<1>1. DOMAIN o = DOMAIN NewImpl /\ o.nextId \in Nat
  BY DEF OutFits, RequestShape, IsImpl
<1>2. Alike(o, DiscardMedia(o)) /\ DOMAIN DiscardMedia(o).media = {}
  BY <1>1 DEF Alike, IsImpl, NewImpl, DiscardMedia, NoEntry
<1>3. Alike(o, TakeMedia(o, x))
  BY <1>1 DEF Alike, IsImpl, NewImpl, TakeMedia, Without, Restrict
<1>4. Alike(o, PopMicrophone(o, x))
  BY <1>1 DEF Alike, IsImpl, NewImpl, PopMicrophone
<1>5. Alike(o, ReceiveMicrophone(o, x, y))
  BY <1>1 DEF Alike, IsImpl, NewImpl, ReceiveMicrophone
<1> QED
  BY <1>2, <1>3, <1>4, <1>5

LEMMA EventsAreAlike ==
  ASSUME NEW o, OutFits(o), NEW x, NEW y
  PROVE  /\ Alike(o, RespondAll(o, x, y)) /\ Alike(o, Refuse(o))
         /\ Alike(o, PopCommand(o, x)) /\ Alike(o, PopNote(o))
         /\ Alike(o, ReceiveControl(o)) /\ Alike(o, ReceiveNote(o))
         /\ Alike(o, TakeReply(o, x)) /\ Alike(o, CommandOverdue(o, x))
<1>1. DOMAIN o = DOMAIN NewImpl /\ o.nextId \in Nat
  BY DEF OutFits, RequestShape, IsImpl
<1>2. ASSUME NEW a, NEW b PROVE Alike(o, RespondAll(o, a, b)) /\ IsImpl(RespondAll(o, a, b))
  BY <1>1 DEF Alike, IsImpl, NewImpl, RespondAll
<1>3. Alike(o, Refuse(o))
  <2> DEFINE r == RespondAll(o, o.epoch, o.events)
  <2>1. Alike(o, r)
    BY <1>2
  <2>2. Refuse(o) = [r EXCEPT !.events = {}, !.notes = 0]
    BY DEF Refuse
  <2> HIDE DEF r
  <2> QED
    BY <2>1, <2>2 DEF Alike, IsImpl, NewImpl
<1>4. Alike(o, PopCommand(o, x)) /\ Alike(o, PopNote(o))
  BY <1>1 DEF Alike, IsImpl, NewImpl, PopCommand, PopNote
<1>5. Alike(o, ReceiveControl(o)) /\ Alike(o, ReceiveNote(o))
  BY <1>1 DEF Alike, IsImpl, NewImpl, ReceiveControl, ReceiveNote
<1>6. Alike(o, TakeReply(o, x)) /\ Alike(o, CommandOverdue(o, x))
  BY <1>1 DEF Alike, IsImpl, NewImpl, TakeReply, CommandOverdue
<1> QED
  BY <1>2, <1>3, <1>4, <1>5, <1>6

\* Operations that are queued: their fields, so that a mark leaves the rest.
LEMMA MarksAreAlike ==
  ASSUME NEW o, OutFits(o), NEW t \in DOMAIN o.pending
  PROVE  Alike(o, TakeWork(o, t)) /\ Alike(o, RequestOverdue(o, t))
<1>1. DOMAIN o = DOMAIN NewImpl /\ o.nextId \in Nat
  BY DEF OutFits, RequestShape, IsImpl
<1> QED
  BY <1>1 DEF Alike, IsImpl, NewImpl, TakeWork, RequestOverdue

\* A drain leaves none of the jobs waiting: those that wait are of the session
\* that cancel is asked about.
LEMMA CancelSettles ==
  ASSUME NEW o, OutFits(o), NEW jobs,
         \A t \in DOMAIN jobs : t \in DOMAIN o.pending => jobs[t].epoch = o.epoch
  PROVE  LET p == CancelJobs(o, jobs)
         IN  Settles(o, p, DOMAIN jobs) /\ DOMAIN p.pending \cap DOMAIN jobs = {}
<1> DEFINE open == {t \in DOMAIN jobs : t \in DOMAIN o.pending /\ jobs[t].epoch = o.epoch}
           c == IF \E t \in open : CancelFails(o.pending[t]) THEN Fail(o, "Cancelled")
                ELSE Answer(o, open, "Cancelled")
           p == [c EXCEPT !.completions = Without(@, DOMAIN jobs)]
<1>1. Settles(o, Fail(o, "Cancelled"), {}) /\ DOMAIN Fail(o, "Cancelled").pending = {}
  BY FailSettles
<1>2. /\ Settles(o, Answer(o, open, "Cancelled"), {})
      /\ DOMAIN Answer(o, open, "Cancelled").pending = DOMAIN o.pending \ open
  BY AnswerSettles
<1>3. Settles(o, c, {}) /\ DOMAIN c.pending \cap DOMAIN jobs = {}
  BY <1>1, <1>2
<1>4. p = CancelJobs(o, jobs)
  BY DEF CancelJobs
<1> HIDE DEF c
<1>5. OutFits(c) /\ o.nextId \in Nat
  BY <1>3, SettlesFits DEF OutFits, RequestShape
<1>6. Settles(c, p, DOMAIN jobs) /\ p.pending = c.pending
  BY <1>5, PopSettles
<1> HIDE DEF p
<1>7. Settles(o, p, {} \cup DOMAIN jobs)
  BY <1>3, <1>5, <1>6, SettlesSettles
<1>8. {} \cup DOMAIN jobs = DOMAIN jobs
  OBVIOUS
<1> QED
  BY <1>3, <1>4, <1>6, <1>7, <1>8

-----------------------------------------------------------------------------
\* A request is admitted

\* Another job may be put among those there are: none of state waits when it is
\* of state itself, and what it asks for was found to be right.
Admissible(i, f, op, job) ==
  /\ op.kind \in Kind /\ CanEnqueue(i, op)
  /\ job.job \in Job /\ job.epoch = i.epoch /\ IsFor(op, job, f)
  /\ f.bound /\ (f.draining => f.epoch = i.epoch)
  /\ job.job # "Phone" => ~ StatePending(f.jobs)
  /\ job.job = "Setup" => /\ ~ f.draining /\ job.source \notin DOMAIN f.active
                          /\ DOMAIN job.stream = StreamField
  /\ job.job = "Teardown" => DOMAIN i.media = {}

LEMMA EnqueueTables ==
  ASSUME NEW i, NEW f, NEW w, Tables(i, f, w),
         NEW op, NEW job, Admissible(i, f, op, job), i.nextId \notin DOMAIN f.jobs,
         NEW g, g.pc \notin Deciding,
         g.bound = f.bound, g.draining = f.draining, g.epoch = f.epoch, g.active = f.active,
         g.jobs = Put(f.jobs, i.nextId, job)
  PROVE  Tables(Enqueue(i, op), g, w)
<1> DEFINE p == Enqueue(i, op)
           t0 == i.nextId
           entry == [op |-> op, taken |-> FALSE, due |-> FALSE]
<1>1. /\ OutFits(i) /\ RequestsOwned(i, f, w) /\ JobsFit(i, f, w) /\ BoundFits(i, f)
      /\ StreamsFit(i, f) /\ MediaFits(i, f)
  BY DEF Tables
<1>2. i.nextId \in Nat \ {0} /\ i.epoch \in Nat /\ t0 \notin Held(i)
  BY <1>1 DEF OutFits, RequestShape
<1>3. /\ IsImpl(p) /\ p.epoch = i.epoch /\ p.nextId = t0 + 1 /\ p.phase = i.phase
      /\ p.streams = i.streams /\ p.media = i.media /\ p.completions = i.completions
      /\ p.pending = Put(i.pending, t0, entry)
  <2>1. OpenRequest(i, op) = i
    BY DEF Admissible, Kind, OpenRequest
  <2> QED
    BY <1>1, <2>1 DEF Enqueue, OutFits, RequestShape, IsImpl, NewImpl
<1> HIDE DEF p
<1>4. /\ DOMAIN p.pending = DOMAIN i.pending \cup {t0} /\ p.pending[t0].op = op
      /\ \A t \in DOMAIN i.pending : p.pending[t] = i.pending[t]
      /\ DOMAIN g.jobs = DOMAIN f.jobs \cup {t0} /\ g.jobs[t0] = job
      /\ \A t \in DOMAIN f.jobs : g.jobs[t] = f.jobs[t]
  BY <1>2, <1>3 DEF Put, Held
<1>5. i.phase \in ConnectedPhase
      /\ (op.kind = "Setup" => op.sid \notin DOMAIN i.streams)
  BY DEF Admissible, CanEnqueue, Validate, Connected, Kind, Lifecycle
<1>6. Held(p) = Held(i) \cup {t0}
  BY <1>3, <1>4 DEF Held
<1>7. OutFits(p)
  <2>1. Held(i) \subseteq 1..(t0 - 1) /\ DOMAIN i.pending \cap DOMAIN i.completions = {}
    BY <1>1 DEF OutFits, RequestShape
  <2>2. \A n \in 1..(t0 - 1) \cup {t0} : n \in 1..(p.nextId - 1)
    BY <1>2, <1>3
  <2>3. Held(p) \subseteq 1..(p.nextId - 1)
    BY <1>6, <2>1, <2>2
  <2>4. DOMAIN p.pending \cap DOMAIN p.completions = {}
    BY <1>2, <1>3, <1>4, <2>1 DEF Held
  <2>5. RequestShape(p)
    <3>1. p.nextId \in Nat \ {0} /\ p.epoch \in Nat
      BY <1>2, <1>3
    <3> QED
      BY <1>3, <2>3, <2>4, <3>1 DEF RequestShape
  <2>6. RequestsFit(p)
    BY <1>1, <1>3, <1>4, <1>5 DEF OutFits, RequestsFit, Admissible, BootstrapPhase, ConnectedPhase
  <2> QED
    BY <2>5, <2>6 DEF OutFits
<1>8. RequestsOwned(p, g, w)
  <2>1. ASSUME NEW x, NEW j, IsFor(x, j, f) PROVE IsFor(x, j, g)
    BY <2>1 DEF IsFor
  <2>2. \A t \in DOMAIN i.pending :
          \/ t \in w /\ i.pending[t].op.kind = "Start"
          \/ t \in DOMAIN f.jobs /\ f.jobs[t].epoch = i.epoch /\ IsFor(i.pending[t].op, f.jobs[t], f)
    BY <1>1 DEF RequestsOwned
  <2>3. job.epoch = i.epoch /\ IsFor(op, job, f)
    BY DEF Admissible
  <2> QED
    BY <1>3, <1>4, <2>1, <2>2, <2>3, ZenonT(30) DEF RequestsOwned
<1>9. JobsFit(p, g, w)
  <2>1. w \subseteq 1..(p.nextId - 1) /\ t0 \notin w
    BY <1>1, <1>2, <1>3 DEF JobsFit
  <2>2. job.epoch \in f.epoch..i.epoch /\ (f.draining => job.epoch = f.epoch)
    BY <1>1, <1>2 DEF BoundFits, Admissible
  <2>3. ASSUME NEW t \in DOMAIN f.jobs, job.job # "Phone" PROVE f.jobs[t].job = "Phone"
    BY <2>3 DEF Admissible, StatePending
  <2> QED
    BY <1>1, <1>3, <1>4, <1>6, <2>1, <2>2, <2>3 DEF JobsFit, Admissible
<1>10. BoundFits(p, g)
  BY <1>1, <1>3, <1>4 DEF BoundFits, Admissible
<1>11. SnapFits(p, g)
  BY DEF SnapFits
<1>12. ASSUME NEW kind PROVE OkJobs(p, g, kind) = OkJobs(i, f, kind)
  BY <1>2, <1>3, <1>4 DEF OkJobs, Held
<1>13. IdsOf(g) = IdsOf(f)
  BY DEF IdsOf
<1>14. StreamsFit(p, g)
  <2> SUFFICES ASSUME f.epoch = i.epoch, ~ f.draining
               PROVE  StreamsFit(p, g)
    BY <1>3 DEF StreamsFit
  <2>1. /\ \A s \in DOMAIN f.active :
             \/ f.active[s].id \in DOMAIN i.streams
             \/ \E t \in OkJobs(i, f, "Teardown") : f.jobs[t].source = s
        /\ \A r, s \in DOMAIN f.active : f.active[r].id = f.active[s].id => r = s
        /\ \A t \in DOMAIN f.jobs : f.jobs[t].job = "Setup" => f.jobs[t].stream.id \notin IdsOf(f)
        /\ \A t \in OkJobs(i, f, "Setup") : f.jobs[t].stream.id \in DOMAIN i.streams
        /\ \A t \in OkJobs(i, f, "Teardown") :
             /\ f.jobs[t].source \in DOMAIN f.active
             /\ f.active[f.jobs[t].source].id \notin DOMAIN i.streams
    BY <1>1, <1>5 DEF StreamsFit
  <2>2. job.job = "Setup" => job.stream.id \notin IdsOf(f)
    <3> SUFFICES ASSUME job.job = "Setup" PROVE job.stream.id \notin IdsOf(f)
      OBVIOUS
    <3>1. op.kind = "Setup" /\ op.sid = job.stream.id /\ ~ StatePending(f.jobs)
      BY DEF Admissible, IsFor
    <3>2. OkJobs(i, f, "Teardown") = {}
      BY <3>1 DEF StatePending, OkJobs
    <3> QED
      BY <1>5, <2>1, <3>1, <3>2 DEF IdsOf
  <2>3. \A kind : \A t \in OkJobs(i, f, kind) : g.jobs[t] = f.jobs[t]
    BY <1>4 DEF OkJobs
  <2>4. /\ OkJobs(p, g, "Setup") = OkJobs(i, f, "Setup")
        /\ OkJobs(p, g, "Teardown") = OkJobs(i, f, "Teardown")
    BY <1>12
  <2> QED
    BY <1>3, <1>4, <1>13, <2>1, <2>2, <2>3, <2>4 DEF StreamsFit
<1>15. MediaFits(p, g)
  <2> SUFFICES ASSUME NEW n \in DOMAIN i.media
               PROVE  LET s == i.media[n].sid IN
                      /\ g.bound /\ ~ g.draining /\ g.epoch = p.epoch /\ p.phase = "Streaming"
                      /\ s \in IdsOf(g) /\ s \in DOMAIN p.streams /\ ~ TeardownPending(p, s)
    BY <1>3 DEF MediaFits
  <2>1. op.kind # "Teardown"
    BY DEF Admissible, IsFor
  <2>2. ASSUME NEW s, TeardownPending(p, s) PROVE TeardownPending(i, s)
    BY <1>4, <2>1, <2>2 DEF TeardownPending, TeardownOf
  <2> QED
    BY <1>1, <1>3, <1>13, <2>2 DEF MediaFits
<1> QED
  BY <1>7, <1>8, <1>9, <1>10, <1>11, <1>14, <1>15 DEF Tables, p

\* The application starts a session: nothing waits then, and there is nothing
\* in the new one that the coordinator could take for its own.
LEMMA StartTables ==
  ASSUME NEW i, NEW f, NEW w, Tables(i, f, w), CanEnqueue(i, Plain("Start"))
  PROVE  Tables(Enqueue(i, Plain("Start")), f, w \cup {i.nextId})
<1> DEFINE c == ClearSession(i)
           p == Enqueue(i, Plain("Start"))
           t0 == i.nextId
           entry == [op |-> Plain("Start"), taken |-> FALSE, due |-> FALSE]
<1>1. /\ OutFits(i) /\ RequestsOwned(i, f, w) /\ JobsFit(i, f, w) /\ BoundFits(i, f)
      /\ SnapFits(i, f)
  BY DEF Tables
<1>2. i.nextId \in Nat \ {0} /\ i.epoch \in Nat /\ t0 \notin Held(i)
  BY <1>1 DEF OutFits, RequestShape
<1>3. Plain("Start").kind = "Start"
  BY DEF Plain
<1>4. DOMAIN i.pending = {}
  <2>1. i.phase \in {"Idle", "Closed", "Failed"}
    BY <1>3 DEF CanEnqueue
  <2> QED
    BY <1>1, <2>1 DEF OutFits, RequestsFit, BootstrapPhase, ConnectedPhase
<1>5. /\ IsImpl(c) /\ c.epoch = i.epoch /\ c.nextId = t0 /\ c.pending = i.pending
      /\ c.completions = i.completions /\ DOMAIN c.streams = {} /\ DOMAIN c.media = {}
  BY <1>1 DEF ClearSession, OutFits, RequestShape, IsImpl, NewImpl, NoEntry
<1>6. OpenRequest(i, Plain("Start")) = [c EXCEPT !.epoch = @ + 1, !.phase = "Starting"]
  BY <1>3 DEF OpenRequest
<1>7. /\ IsImpl(p) /\ p.epoch = i.epoch + 1 /\ p.nextId = t0 + 1 /\ p.phase = "Starting"
      /\ p.pending = Put(i.pending, t0, entry) /\ p.completions = i.completions
      /\ DOMAIN p.streams = {} /\ DOMAIN p.media = {}
  <2> DEFINE j == OpenRequest(i, Plain("Start"))
  <2> HIDE DEF c
  <2>1. /\ IsImpl(j) /\ j.epoch = i.epoch + 1 /\ j.nextId = t0 /\ j.phase = "Starting"
        /\ j.pending = i.pending /\ j.completions = i.completions
        /\ DOMAIN j.streams = {} /\ DOMAIN j.media = {}
    BY <1>5, <1>6, ZenonT(30) DEF IsImpl, NewImpl
  <2>2. p = [j EXCEPT !.nextId = @ + 1, !.pending = Put(@, t0, entry)]
    BY DEF Enqueue
  <2> HIDE DEF j, p
  <2> QED
    BY <2>1, <2>2 DEF IsImpl, NewImpl
<1> HIDE DEF p
<1>8. DOMAIN p.pending = {t0} /\ p.pending[t0].op = Plain("Start") /\ Held(p) = Held(i) \cup {t0}
  BY <1>4, <1>7 DEF Put, Held
<1>9. OutFits(p)
  <2>1. Held(i) \subseteq 1..(t0 - 1)
    BY <1>1 DEF OutFits, RequestShape
  <2>2. \A n \in 1..(t0 - 1) \cup {t0} : n \in 1..(p.nextId - 1)
    BY <1>2, <1>7
  <2>3. Held(p) \subseteq 1..(p.nextId - 1)
    BY <1>8, <2>1, <2>2
  <2>4. DOMAIN p.pending \cap DOMAIN p.completions = {}
    BY <1>2, <1>7, <1>8 DEF Held
  <2>5. RequestShape(p)
    <3>1. p.nextId \in Nat \ {0} /\ p.epoch \in Nat
      BY <1>2, <1>7
    <3> QED
      BY <1>7, <2>3, <2>4, <3>1 DEF RequestShape
  <2>6. RequestsFit(p)
    BY <1>3, <1>7, <1>8 DEF RequestsFit, BootstrapPhase
  <2> QED
    BY <2>5, <2>6 DEF OutFits
<1>10. RequestsOwned(p, f, w \cup {t0})
  BY <1>3, <1>8 DEF RequestsOwned
<1>11. JobsFit(p, f, w \cup {t0})
  <2>1. w \cup {t0} \subseteq 1..(p.nextId - 1)
    <3>1. w \subseteq 1..(t0 - 1)
      BY <1>1 DEF JobsFit
    <3>2. \A n \in 1..(t0 - 1) \cup {t0} : n \in 1..(p.nextId - 1)
      BY <1>2, <1>7
    <3> QED
      BY <3>1, <3>2
  <2>2. \A t \in DOMAIN f.jobs : t \in Held(p) /\ t \notin w \cup {t0}
    BY <1>1, <1>2, <1>8 DEF JobsFit
  <2>3. f.epoch \in Nat
    BY <1>1, <1>2 DEF BoundFits
  <2>4. \A t \in DOMAIN f.jobs : f.jobs[t].epoch \in f.epoch..p.epoch
    BY <1>1, <1>2, <1>7, <2>3 DEF JobsFit
  <2> QED
    BY <1>1, <2>1, <2>2, <2>4 DEF JobsFit
<1>12. BoundFits(p, f)
  BY <1>1, <1>2, <1>7 DEF BoundFits
<1>13. SnapFits(p, f)
  BY <1>1, <1>2, <1>3, <1>7, <1>8 DEF SnapFits
<1>14. StreamsFit(p, f) /\ MediaFits(p, f)
  BY <1>7 DEF StreamsFit, MediaFits, ConnectedPhase
<1> QED
  BY <1>9, <1>10, <1>11, <1>12, <1>13, <1>14 DEF Tables, p
-----------------------------------------------------------------------------
\* The backend answers

LEMMA SameSame ==
  ASSUME NEW f
  PROVE  SameTables(f, f)
BY DEF SameTables

\* Packets stay only with their stream, in a session that goes on.
KeepsMedia(i, p) ==
  /\ p.epoch = i.epoch
  /\ \A n \in DOMAIN p.media :
       /\ n \in DOMAIN i.media /\ p.media[n] = i.media[n]
       /\ p.media[n].sid \in DOMAIN i.streams => p.media[n].sid \in DOMAIN p.streams
       /\ i.phase = "Streaming" /\ p.media[n].sid \in DOMAIN i.streams => p.phase = "Streaming"
  /\ \A t \in DOMAIN p.pending : t \in DOMAIN i.pending /\ p.pending[t].op = i.pending[t].op

LEMMA MediaStays ==
  ASSUME NEW i, NEW f, MediaFits(i, f), NEW p, KeepsMedia(i, p)
  PROVE  MediaFits(p, f)
<1> SUFFICES ASSUME NEW n \in DOMAIN p.media
             PROVE  LET a == p.media[n].sid IN
                    /\ f.bound /\ ~ f.draining /\ f.epoch = p.epoch /\ p.phase = "Streaming"
                    /\ a \in IdsOf(f) /\ a \in DOMAIN p.streams /\ ~ TeardownPending(p, a)
  BY DEF MediaFits
<1>1. n \in DOMAIN i.media /\ p.media[n] = i.media[n]
  BY DEF KeepsMedia
<1>2. LET a == i.media[n].sid IN
      /\ f.bound /\ ~ f.draining /\ f.epoch = i.epoch /\ i.phase = "Streaming"
      /\ a \in IdsOf(f) /\ a \in DOMAIN i.streams /\ ~ TeardownPending(i, a)
  BY <1>1 DEF MediaFits
<1>3. ASSUME NEW a, TeardownPending(p, a) PROVE TeardownPending(i, a)
  BY <1>3 DEF TeardownPending, KeepsMedia
<1> QED
  BY <1>1, <1>2, <1>3 DEF KeepsMedia

\* A request of the coordinator succeeds.  Its job is the only one of state, so
\* a stream appears or goes for that job and no other.
LEMMA AcknowledgedTables ==
  ASSUME NEW i, NEW f, NEW w, Tables(i, f, w), NEW t \in DOMAIN i.pending,
         i.pending[t].op.kind \in Kind
  PROVE  Tables(Complete(i, t, TRUE), f, w)
<1> DEFINE op == i.pending[t].op
           r == ApplyResult(i, op, TRUE)
           p == Complete(i, t, TRUE)
           s == op.sid
           job == f.jobs[t]
<1>1. /\ OutFits(i) /\ RequestsOwned(i, f, w) /\ JobsFit(i, f, w) /\ BoundFits(i, f)
      /\ SnapFits(i, f) /\ StreamsFit(i, f) /\ MediaFits(i, f) /\ IsImpl(i)
  BY DEF Tables, OutFits, RequestShape
<1>2. op.kind # "Start" /\ op.kind # "Stop"
  BY DEF Kind
<1>3. i.phase \in ConnectedPhase
  BY <1>1, <1>2 DEF OutFits, RequestsFit
<1>4. t \in DOMAIN f.jobs /\ job.epoch = i.epoch /\ IsFor(op, job, f)
  BY <1>1, <1>2 DEF RequestsOwned
<1>5. /\ IsImpl(r) /\ r.epoch = i.epoch /\ r.nextId = i.nextId
      /\ r.pending = i.pending /\ r.completions = i.completions /\ r.phase \in ConnectedPhase
      /\ r.phase = i.phase \/ op.kind = "Record" \/ (op.kind = "Teardown" /\ DOMAIN i.streams \subseteq {s})
      /\ op.kind = "Record" => r.phase = "Streaming"
      /\ r.streams = CASE op.kind = "Setup" -> IF s \in DOMAIN i.streams THEN i.streams
                                               ELSE Put(i.streams, s, op.legs)
                       [] op.kind = "Teardown" -> Without(i.streams, {s})
                       [] OTHER -> i.streams
      /\ r.media = IF op.kind = "Teardown" THEN Without(i.media, PacketsOf(i.media, s)) ELSE i.media
  <2>1. CASE op.kind = "Setup"
    BY <1>1, <1>3, <2>1 DEF ApplyResult, IsImpl, NewImpl
  <2>2. CASE op.kind = "Teardown"
    BY <1>1, <1>3, <2>2 DEF ApplyResult, RemoveStream, IsImpl, NewImpl, ConnectedPhase
  <2>3. CASE op.kind = "Record"
    BY <1>1, <1>3, <2>3 DEF ApplyResult, IsImpl, NewImpl, ConnectedPhase
  <2>4. CASE op.kind \in {"Send", "Modes"}
    BY <1>1, <1>3, <2>4 DEF ApplyResult
  <2> QED
    BY <2>1, <2>2, <2>3, <2>4 DEF Kind
<1> HIDE DEF r
<1>6. /\ IsImpl(p) /\ p.epoch = i.epoch /\ p.nextId = i.nextId /\ p.phase = r.phase
      /\ p.streams = r.streams /\ p.media = r.media
      /\ p.pending = [u \in DOMAIN i.pending \ {t} |-> i.pending[u]]
      /\ p.completions = [u \in DOMAIN i.completions \cup {t} |->
                            IF u = t THEN [epoch |-> i.epoch, code |-> "Ok"] ELSE i.completions[u]]
  BY <1>5 DEF Complete, r, Answer, IsImpl, NewImpl, Without, Restrict
<1> HIDE DEF p
<1>7. Held(p) = Held(i)
  BY <1>6 DEF Held
<1>8. t \notin DOMAIN i.completions
  BY <1>1 DEF OutFits, RequestShape
<1>9. OutFits(p)
  <2>1. RequestShape(p)
    BY <1>1, <1>6, <1>7 DEF OutFits, RequestShape
  <2>2. \A u \in DOMAIN p.pending : p.pending[u].op.kind \in Kind
    BY <1>1, <1>3, <1>6 DEF OutFits, RequestsFit, BootstrapPhase, ConnectedPhase
  <2>3. RequestsFit(p)
    BY <1>5, <1>6, <2>2 DEF RequestsFit
  <2> QED
    BY <2>1, <2>3 DEF OutFits
<1>10. RequestsOwned(p, f, w)
  BY <1>1, <1>6 DEF RequestsOwned
<1>11. JobsFit(p, f, w)
  BY <1>1, <1>6, <1>7 DEF JobsFit
<1>12. BoundFits(p, f)
  <2>1. p.phase \notin BootstrapPhase
    BY <1>5, <1>6 DEF BootstrapPhase, ConnectedPhase
  <2> QED
    BY <1>1, <1>6, <2>1 DEF BoundFits
<1>13. SnapFits(p, f)
  <2>1. p.phase \notin BootstrapPhase /\ i.phase \notin Rest
    BY <1>3, <1>5, <1>6 DEF BootstrapPhase, ConnectedPhase, Rest
  <2>2. ~ \A u \in DOMAIN i.pending : i.pending[u].op.kind = "Start"
    BY <1>2
  <2> QED
    BY <1>1, <1>6, <2>1, <2>2 DEF SnapFits
<1>14. ASSUME NEW u \in DOMAIN f.jobs, f.jobs[u].job # "Phone", job.job # "Phone"
       PROVE  u = t
  BY <1>1, <1>4, <1>14 DEF JobsFit
<1>15. ASSUME NEW kind
       PROVE  OkJobs(p, f, kind) = OkJobs(i, f, kind) \cup {u \in {t} : job.job = kind}
  BY <1>4, <1>6 DEF OkJobs
<1>16. \A u \in DOMAIN p.pending : u \in DOMAIN i.pending /\ p.pending[u].op = i.pending[u].op
  BY <1>6
<1>17. CASE op.kind \in {"Setup", "Teardown"}
  <2>1. job.job = op.kind /\ job.job # "Phone"
    BY <1>4, <1>17 DEF IsFor
  <2>2. OkJobs(i, f, "Setup") = {} /\ OkJobs(i, f, "Teardown") = {}
    BY <1>8, <1>14, <2>1 DEF OkJobs
  <2>3. ASSUME f.epoch = i.epoch, ~ f.draining
        PROVE  /\ \A a \in DOMAIN f.active : f.active[a].id \in DOMAIN i.streams
               /\ \A a, b \in DOMAIN f.active : f.active[a].id = f.active[b].id => a = b
               /\ job.job = "Setup" => job.stream.id \notin IdsOf(f)
    BY <1>1, <1>3, <1>4, <2>2, <2>3 DEF StreamsFit
  <2>4. CASE op.kind = "Setup"
    <3>1. s = job.stream.id /\ DOMAIN p.streams = DOMAIN i.streams \cup {s} /\ p.media = i.media
          /\ p.phase = i.phase
      BY <1>4, <1>5, <1>6, <2>1, <2>4 DEF IsFor, Put
    <3>2. OkJobs(p, f, "Setup") = {t} /\ OkJobs(p, f, "Teardown") = {}
      BY <1>15, <2>1, <2>2, <2>4
    <3>3. StreamsFit(p, f)
      <4> SUFFICES ASSUME f.epoch = i.epoch, ~ f.draining
                   PROVE  StreamsFit(p, f)
        BY <1>6 DEF StreamsFit
      <4>1. \A u \in DOMAIN f.jobs : f.jobs[u].job = "Setup" => f.jobs[u].stream.id \notin IdsOf(f)
        BY <1>14, <2>1, <2>3, <2>4
      <4> QED
        BY <2>3, <3>1, <3>2, <4>1 DEF StreamsFit
    <3>4. KeepsMedia(i, p)
      BY <1>6, <1>16, <3>1 DEF KeepsMedia
    <3>5. MediaFits(p, f)
      BY <1>1, <3>4, MediaStays
    <3> QED
      BY <1>9, <1>10, <1>11, <1>12, <1>13, <3>3, <3>5 DEF Tables, p
  <2>5. CASE op.kind = "Teardown"
    <3>1. /\ DOMAIN p.streams = DOMAIN i.streams \ {s}
          /\ p.phase = i.phase \/ DOMAIN i.streams \subseteq {s}
          /\ job.source \in DOMAIN f.active /\ s = f.active[job.source].id
          /\ \A n \in DOMAIN p.media : /\ n \in DOMAIN i.media /\ i.media[n].sid # s
                                       /\ p.media[n] = i.media[n]
      <4>1. p.media = [n \in DOMAIN i.media \ PacketsOf(i.media, s) |-> i.media[n]]
        BY <1>5, <1>6, <2>5 DEF Without, Restrict
      <4> QED
        BY <1>4, <1>5, <1>6, <2>1, <2>5, <4>1 DEF IsFor, Without, Restrict, PacketsOf
    <3>2. OkJobs(p, f, "Teardown") = {t} /\ OkJobs(p, f, "Setup") = {}
      BY <1>15, <2>1, <2>2, <2>5
    <3>3. StreamsFit(p, f)
      <4> SUFFICES ASSUME f.epoch = i.epoch, ~ f.draining
                   PROVE  StreamsFit(p, f)
        BY <1>6 DEF StreamsFit
      <4>1. \A u \in DOMAIN f.jobs : f.jobs[u].job # "Setup"
        BY <1>14, <2>1, <2>5
      <4>2. \A a \in DOMAIN f.active : f.active[a].id \in DOMAIN p.streams \/ job.source = a
        BY <2>3, <3>1
      <4> QED
        BY <2>3, <3>1, <3>2, <4>1, <4>2 DEF StreamsFit
    <3>4. KeepsMedia(i, p)
      BY <1>6, <1>16, <3>1, ZenonT(30) DEF KeepsMedia
    <3>5. MediaFits(p, f)
      BY <1>1, <3>4, MediaStays
    <3> QED
      BY <1>9, <1>10, <1>11, <1>12, <1>13, <3>3, <3>5 DEF Tables, p
  <2> QED
    BY <1>17, <2>4, <2>5
<1>18. CASE op.kind \notin {"Setup", "Teardown"}
  <2>1. /\ p.streams = i.streams /\ p.media = i.media
        /\ i.phase = "Streaming" => p.phase = "Streaming"
    BY <1>5, <1>6, <1>18
  <2>2. OkJobs(p, f, "Setup") = OkJobs(i, f, "Setup")
        /\ OkJobs(p, f, "Teardown") = OkJobs(i, f, "Teardown")
    <3>1. job.job # "Setup" /\ job.job # "Teardown"
      BY <1>4, <1>18 DEF IsFor
    <3> QED
      BY <1>15, <3>1
  <2>3. StreamsFit(p, f)
    BY <1>1, <1>3, <1>6, <2>1, <2>2 DEF StreamsFit
  <2>4. KeepsMedia(i, p)
    BY <1>6, <1>16, <2>1 DEF KeepsMedia
  <2>5. MediaFits(p, f)
    BY <1>1, <2>4, MediaStays
  <2> QED
    BY <1>9, <1>10, <1>11, <1>12, <1>13, <2>3, <2>5 DEF Tables, p
<1> QED
  BY <1>17, <1>18

LEMMA CompleteTables ==
  ASSUME NEW i, NEW f, NEW w, Tables(i, f, w), NEW t \in DOMAIN i.pending, NEW ok \in BOOLEAN
  PROVE  Tables(Complete(i, t, ok), f, w)
<1> DEFINE op == i.pending[t].op
           p == Complete(i, t, ok)
<1>1. OutFits(i) /\ IsImpl(i)
  BY DEF Tables, OutFits, RequestShape
<1>2. \/ op.kind = "Start" /\ i.phase \in BootstrapPhase /\ DOMAIN i.pending = {t}
      \/ op.kind \in Kind
  BY <1>1 DEF OutFits, RequestsFit
<1>3. CASE op.kind \in Kind /\ ok
  <2>1. ok = TRUE
    BY <1>3
  <2> QED
    BY <1>3, <2>1, AcknowledgedTables
<1>4. CASE op.kind \in Kind /\ ~ ok
  <2>1. p = Answer(i, {t}, "Failed")
    <3>1. op.kind # "Start" /\ op.kind # "Stop"
      BY <1>4 DEF Kind
    <3>2. ApplyResult(i, op, ok) = i
      BY <1>4, <3>1 DEF ApplyResult
    <3> QED
      BY <1>4, <3>2 DEF Complete
  <2>2. Settles(i, Answer(i, {t}, "Failed"), {})
    <3>1. {t} \subseteq DOMAIN i.pending
      OBVIOUS
    <3> QED
      BY <1>1, <3>1, AnswerSettles
  <2>3. {} \cap DOMAIN f.jobs = {}
    OBVIOUS
  <2> QED
    BY <2>1, <2>2, <2>3, SameSame, SettlesTables
<1>5. CASE op.kind = "Start" /\ i.phase \in BootstrapPhase /\ DOMAIN i.pending = {t}
  <2> DEFINE r == ApplyResult(i, op, ok)
  <2>1. DOMAIN i.streams = {} /\ DOMAIN i.media = {}
    <3>1. DOMAIN i.streams = {}
      BY <1>1, <1>5 DEF OutFits, RequestsFit, BootstrapPhase, ConnectedPhase
    <3> QED
      BY <3>1 DEF Tables, MediaFits
  <2>2. /\ IsImpl(r) /\ r.epoch = i.epoch /\ r.nextId = i.nextId
        /\ r.pending = i.pending /\ r.completions = i.completions
        /\ DOMAIN r.streams = {} /\ DOMAIN r.media = {} /\ r.phase \in {"Ready", "Failed"}
    <3>1. CASE ok
      <4>1. r = [i EXCEPT !.peer = TRUE, !.phase = "Ready"]
        BY <1>5, <3>1 DEF ApplyResult
      <4> QED
        BY <1>1, <2>1, <4>1 DEF IsImpl, NewImpl
    <3>2. CASE ~ ok
      <4>1. r = ClearSession([i EXCEPT !.phase = "Failed"])
        BY <1>5, <3>2 DEF ApplyResult
      <4> QED
        BY <1>1, <4>1 DEF ClearSession, IsImpl, NewImpl, NoEntry
    <3> QED
      BY <3>1, <3>2
  <2> HIDE DEF r
  <2>3. PICK code : p = Answer(r, {t}, code)
    BY DEF Complete, r
  <2>4. /\ IsImpl(p) /\ p.epoch = i.epoch /\ p.nextId = i.nextId /\ p.phase = r.phase
        /\ p.streams = r.streams /\ p.media = r.media /\ DOMAIN p.pending = {}
        /\ DOMAIN p.completions = DOMAIN i.completions \cup {t}
    BY <1>5, <2>2, <2>3 DEF Answer, IsImpl, NewImpl, Without, Restrict
  <2> HIDE DEF p
  <2>5. Held(p) = Held(i)
    BY <1>5, <2>4 DEF Held
  <2>6. OutFits(p)
    BY <1>1, <2>2, <2>4, <2>5 DEF OutFits, RequestShape, RequestsFit, Rest, ConnectedPhase
  <2>7. RequestsOwned(p, f, w) /\ MediaFits(p, f)
    BY <2>2, <2>4 DEF RequestsOwned, MediaFits
  <2>8. JobsFit(p, f, w)
    BY <2>4, <2>5 DEF Tables, JobsFit
  <2>9. BoundFits(p, f)
    BY <2>2, <2>4 DEF Tables, BoundFits, BootstrapPhase
  <2>10. SnapFits(p, f)
    <3>1. p.phase \notin BootstrapPhase /\ i.phase \notin Rest
      BY <1>5, <2>2, <2>4 DEF BootstrapPhase, Rest
    <3> QED
      BY <2>2, <2>4, <3>1 DEF Tables, SnapFits
  <2>11. StreamsFit(p, f)
    <3> SUFFICES ASSUME f.epoch = i.epoch PROVE StreamsFit(p, f)
      BY <2>4 DEF StreamsFit
    <3>1. DOMAIN f.active = {} /\ DOMAIN f.jobs = {}
      BY <1>5 DEF Tables, BoundFits
    <3> QED
      BY <3>1 DEF StreamsFit, OkJobs, IdsOf
  <2> QED
    BY <2>6, <2>7, <2>8, <2>9, <2>10, <2>11 DEF Tables, p
<1> QED
  BY <1>2, <1>3, <1>4, <1>5

-----------------------------------------------------------------------------
\* Steps of the coordinator

\* A step that settles, and leaves the coordinator the tables it has
LEMMA QuietStep ==
  ASSUME TablesInv, NEW ts, Settles(out, out', ts), ts \cap DOMAIN fwd.jobs = {},
         SameTables(fwd, fwd'), owner' = owner
  PROVE  TablesInv'
BY SettlesTables DEF TablesInv

LEMMA AlikeStep ==
  ASSUME TablesInv, Alike(out, out'), SameTables(fwd, fwd'), owner' = owner
  PROVE  TablesInv'
<1>1. Settles(out, out', {})
  BY AlikeSettles DEF TablesInv, Tables
<1>2. {} \cap DOMAIN fwd.jobs = {}
  OBVIOUS
<1> QED
  BY <1>1, <1>2, QuietStep

LEMMA SelfAlike ==
  ASSUME NEW o, OutFits(o)
  PROVE  Alike(o, o)
BY DEF OutFits, RequestShape, Alike

\* submit: i is what the output is when the request is looked at.
LEMMA SubmitStep ==
  ASSUME TablesInv, NEW i, Settles(out, i, {}), NEW op, NEW job,
         \/ out' = i /\ fwd'.jobs = fwd.jobs
         \/ /\ out' = Enqueue(i, op) /\ fwd'.jobs = Put(fwd.jobs, i.nextId, job)
            /\ Admissible(i, fwd, op, job),
         fwd'.pc \notin Deciding, fwd'.bound = fwd.bound, fwd'.draining = fwd.draining,
         fwd'.epoch = fwd.epoch, fwd'.active = fwd.active, owner' = owner
  PROVE  TablesInv'
<1>0. {} \cap DOMAIN fwd.jobs = {}
  OBVIOUS
<1>1. CASE out' = i /\ fwd'.jobs = fwd.jobs
  <2>1. SameTables(fwd, fwd')
    BY <1>1 DEF SameTables
  <2> QED
    BY <1>0, <1>1, <2>1, QuietStep
<1>2. CASE /\ out' = Enqueue(i, op) /\ fwd'.jobs = Put(fwd.jobs, i.nextId, job)
           /\ Admissible(i, fwd, op, job)
  <2>1. Tables(i, fwd, owner)
    BY <1>0, SameSame, SettlesTables DEF TablesInv
  <2>2. i.nextId \notin DOMAIN fwd.jobs
    BY <2>1 DEF Tables, JobsFit, OutFits, RequestShape
  <2>3. Tables(Enqueue(i, op), fwd', owner)
    BY <1>2, <2>1, <2>2, EnqueueTables
  <2> QED
    BY <1>2, <2>3 DEF TablesInv
<1> QED
  BY <1>1, <1>2

LEMMA ExpireBothKeeps ==
  ASSUME TakenInv, TablesInv, ExpireBoth
  PROVE  TablesInv'
<1>1. Settles(out, out', {}) /\ {} \cap DOMAIN fwd.jobs = {}
  BY ExpireSettles DEF TablesInv, Tables, ExpireBoth
<1>2. SameTables(fwd, fwd') /\ owner' = owner
  BY DEF ExpireBoth, SameTables, TakenInv, ForwarderShape, NewForwarder, Deciding
<1> QED
  BY <1>1, <1>2, QuietStep

\* What is read is right when it is read.
LEMMA LookKeeps ==
  ASSUME TakenInv, TablesInv, Look
  PROVE  TablesInv'
<1>1. PICK s, pc : /\ s.epoch = out.epoch /\ s.phase = out.phase
                   /\ fwd' = [fwd EXCEPT !.snap = s, !.pc = pc]
  BY DEF Look
<1>2. /\ fwd'.snap = s /\ fwd'.bound = fwd.bound /\ fwd'.draining = fwd.draining
      /\ fwd'.epoch = fwd.epoch /\ fwd'.jobs = fwd.jobs /\ fwd'.active = fwd.active
  BY <1>1 DEF TakenInv, ForwarderShape, NewForwarder
<1>3. out' = out /\ owner' = owner
  BY DEF Look
<1>4. Tables(out, fwd, owner)
  BY DEF TablesInv
<1>5. SnapFits(out, fwd')
  BY <1>1, <1>2, <1>4 DEF Tables, SnapFits, OutFits, RequestShape, RequestsFit, BoundFits
<1>6. RequestsOwned(out, fwd', owner) /\ JobsFit(out, fwd', owner) /\ BoundFits(out, fwd')
  BY <1>2, <1>4 DEF Tables, RequestsOwned, JobsFit, BoundFits, IsFor
<1>7. StreamsFit(out, fwd') /\ MediaFits(out, fwd')
  BY <1>2, <1>4 DEF Tables, StreamsFit, MediaFits, OkJobs, IdsOf
<1> QED
  BY <1>3, <1>4, <1>5, <1>6, <1>7 DEF TablesInv, Tables

\* A drain cancels its requests and throws its packets away, so nothing is left
\* that is its own but the streams.
LEMMA DrainedTables ==
  ASSUME TablesInv, DrainCalls, fwd.bound, owner' = owner,
         fwd'.bound = fwd.bound, fwd'.draining = TRUE, fwd'.jobs = NoEntry,
         fwd'.epoch = fwd.epoch, fwd'.active = fwd.active,
         fwd'.pc \in Deciding => fwd.pc \in Deciding /\ fwd'.snap = fwd.snap
  PROVE  TablesInv'
<1> DEFINE d == DiscardOutput
           q == CancelJobs(d, fwd.jobs)
<1>1. /\ OutFits(out) /\ RequestsOwned(out, fwd, owner) /\ JobsFit(out, fwd, owner)
      /\ BoundFits(out, fwd) /\ SnapFits(out, fwd) /\ MediaFits(out, fwd)
  BY DEF TablesInv, Tables
<1>2. out.nextId \in Nat
  BY <1>1 DEF OutFits, RequestShape
<1>3. Settles(out, d, {}) /\ DOMAIN d.media = {}
  <2>1. CASE fwd.epoch = out.epoch
    <3>1. d = DiscardMedia(out)
      BY <2>1 DEF DiscardOutput
    <3>2. Alike(out, DiscardMedia(out)) /\ DOMAIN DiscardMedia(out).media = {}
      BY <1>1, PacketsAreAlike
    <3> QED
      BY <1>1, <3>1, <3>2, AlikeSettles
  <2>2. CASE fwd.epoch # out.epoch
    <3>1. d = out
      BY <2>2 DEF DiscardOutput
    <3>2. DOMAIN out.media = {}
      BY <1>1, <2>2 DEF MediaFits
    <3> QED
      BY <1>1, <3>1, <3>2, SelfSettles
  <2> QED
    BY <2>1, <2>2
<1> HIDE DEF d
<1>4. OutFits(d)
  BY <1>1, <1>3, SettlesFits
<1>5. \A t \in DOMAIN fwd.jobs : t \in DOMAIN d.pending => fwd.jobs[t].epoch = d.epoch
  BY <1>1, <1>3 DEF RequestsOwned, JobsFit, Settles
<1>6. Settles(d, q, DOMAIN fwd.jobs) /\ DOMAIN q.pending \cap DOMAIN fwd.jobs = {}
  BY <1>4, <1>5, CancelSettles
<1>7. out' = RespondAll(q, fwd.epoch, Commands(fwd.reverse))
  BY DEF DrainCalls, d
<1> HIDE DEF q
<1>8. OutFits(q) /\ d.nextId \in Nat
  BY <1>4, <1>6, SettlesFits DEF OutFits, RequestShape
<1>9. Alike(q, out')
  BY <1>7, <1>8, EventsAreAlike
<1>10. Settles(d, out', DOMAIN fwd.jobs \cup {})
  BY <1>6, <1>8, <1>9, AlikeSettles, SettlesSettles
<1>11. Settles(out, out', {} \cup (DOMAIN fwd.jobs \cup {}))
  BY <1>2, <1>3, <1>10, SettlesSettles
<1>12. DOMAIN out'.pending \cap DOMAIN fwd.jobs = {} /\ DOMAIN out'.media = {}
  BY <1>3, <1>6, <1>9, <1>10 DEF Alike, Settles
<1>13. DOMAIN fwd'.jobs = {}
  BY DEF NoEntry
<1>14. OutFits(out')
  BY <1>1, <1>11, SettlesFits
<1>15. RequestsOwned(out', fwd', owner)
  BY <1>1, <1>11, <1>12 DEF RequestsOwned, Settles
<1>16. JobsFit(out', fwd', owner)
  <2>1. out'.nextId \in Nat /\ out.nextId <= out'.nextId
    BY <1>11 DEF Settles
  <2>2. owner \subseteq 1..(out'.nextId - 1)
    BY <1>1, <1>2, <2>1 DEF JobsFit
  <2> QED
    BY <1>13, <2>2 DEF JobsFit
<1>17. BoundFits(out', fwd')
  BY <1>1, <1>11, <1>13 DEF BoundFits, Settles, BootstrapPhase
<1>18. SnapFits(out', fwd')
  BY <1>1, <1>11, SettlesSnap
<1>19. StreamsFit(out', fwd') /\ MediaFits(out', fwd')
  BY <1>12 DEF StreamsFit, MediaFits
<1> QED
  BY <1>14, <1>15, <1>16, <1>17, <1>18, <1>19 DEF TablesInv, Tables

LEMMA DrainKeeps ==
  ASSUME TakenInv, TablesInv, Drain
  PROVE  TablesInv'
<1>1. /\ fwd'.bound = fwd.bound /\ fwd'.draining = TRUE /\ fwd'.jobs = NoEntry
      /\ fwd'.epoch = fwd.epoch /\ fwd'.active = fwd.active /\ fwd'.snap = fwd.snap
  BY DEF Drain, Drained, TakenInv, ForwarderShape, NewForwarder
<1>2. fwd.bound /\ fwd.pc \in Deciding /\ DrainCalls /\ owner' = owner
  BY DEF Drain, TakenInv, Places, Deciding
<1> QED
  BY <1>1, <1>2, DrainedTables

\* A session that is gone has no request of the coordinator left.
LEMMA GoneOwnsNothing ==
  ASSUME TablesInv, fwd.draining, fwd.pc \in Deciding, SessionGone \/ fwd.epoch # out.epoch
  PROVE  \A t \in DOMAIN out.pending : t \in owner /\ out.pending[t].op.kind = "Start"
<1>1. /\ OutFits(out) /\ RequestsOwned(out, fwd, owner) /\ JobsFit(out, fwd, owner)
      /\ BoundFits(out, fwd) /\ SnapFits(out, fwd)
  BY DEF TablesInv, Tables
<1> SUFFICES ASSUME NEW t \in DOMAIN out.pending,
                    t \in DOMAIN fwd.jobs, fwd.jobs[t].epoch = out.epoch,
                    IsFor(out.pending[t].op, fwd.jobs[t], fwd)
             PROVE  FALSE
  BY <1>1 DEF RequestsOwned
<1>2. fwd.epoch = out.epoch /\ SessionGone
  BY <1>1 DEF JobsFit
<1>3. out.epoch \in Nat /\ fwd.bound
  BY <1>1 DEF OutFits, RequestShape, BoundFits
<1>4. fwd.snap.epoch = fwd.epoch /\ fwd.snap.phase \notin BootstrapPhase
  BY <1>1, <1>2, <1>3 DEF SnapFits
<1>5. fwd.snap.phase \in Rest
  BY <1>1, <1>2, <1>4 DEF SessionGone, Connected, SnapFits
<1>6. out.phase \in Rest
  BY <1>1, <1>2, <1>4, <1>5 DEF SnapFits
<1> QED
  BY <1>1, <1>6 DEF OutFits, RequestsFit, Rest, BootstrapPhase, ConnectedPhase

\* The coordinator gives up what it has of a session in which nothing of it waits.
LEMMA LetGoStep ==
  ASSUME TablesInv, NEW ts, Settles(out, out', ts), owner' = owner,
         \A t \in DOMAIN out'.pending : t \in owner /\ out'.pending[t].op.kind = "Start",
         DOMAIN fwd'.active = {},
         \/ DOMAIN fwd'.jobs = {}
         \/ fwd'.jobs = fwd.jobs /\ ts = {} /\ fwd'.bound = fwd.bound /\ fwd'.draining = fwd.draining,
         DOMAIN out'.media = {},
         fwd'.epoch = fwd.epoch, fwd'.bound => fwd.bound, fwd'.draining => fwd'.bound,
         fwd'.pc \in Deciding => fwd.pc \in Deciding /\ fwd'.snap = fwd.snap
  PROVE  fwd.draining => TablesInv'
<1> SUFFICES ASSUME fwd.draining PROVE TablesInv'
  OBVIOUS
<1>1. /\ OutFits(out) /\ JobsFit(out, fwd, owner) /\ BoundFits(out, fwd) /\ SnapFits(out, fwd)
  BY DEF TablesInv, Tables
<1>2. OutFits(out')
  BY <1>1, SettlesFits
<1>3. RequestsOwned(out', fwd', owner')
  BY DEF RequestsOwned
<1>4. JobsFit(out', fwd', owner')
  <2>1. out.nextId \in Nat /\ out'.nextId \in Nat /\ out.nextId <= out'.nextId /\ out'.epoch = out.epoch
    BY <1>1 DEF Settles, OutFits, RequestShape
  <2>2. owner \subseteq 1..(out'.nextId - 1)
    BY <1>1, <2>1 DEF JobsFit
  <2>3. CASE DOMAIN fwd'.jobs = {}
    BY <2>2, <2>3 DEF JobsFit
  <2>4. CASE fwd'.jobs = fwd.jobs /\ ts = {} /\ fwd'.draining = fwd.draining
    <3>1. \A t \in DOMAIN fwd.jobs : t \in Held(out')
      BY <1>1, <2>4 DEF Settles, JobsFit
    <3> QED
      BY <1>1, <2>1, <2>2, <2>4, <3>1 DEF JobsFit
  <2> QED
    BY <2>3, <2>4
<1>5. BoundFits(out', fwd')
  BY <1>1 DEF BoundFits, Settles, BootstrapPhase
<1>6. SnapFits(out', fwd')
  BY <1>1, SettlesSnap
<1>7. MediaFits(out', fwd')
  BY DEF MediaFits
<1>8. StreamsFit(out', fwd')
  <2>1. CASE DOMAIN fwd'.jobs = {}
    BY <2>1 DEF StreamsFit, OkJobs
  <2>2. CASE fwd'.draining
    BY <2>2 DEF StreamsFit
  <2> QED
    BY <2>1, <2>2
<1> QED
  BY <1>2, <1>3, <1>4, <1>5, <1>6, <1>7, <1>8 DEF TablesInv, Tables

\* Streams are taken down one by one in the session they belong to, and let go
\* of when that is gone.
LEMMA ReleaseKeeps ==
  ASSUME TakenInv, TablesInv, Release
  PROVE  TablesInv'
<1> DEFINE f == Abandoned
           o == Refuse(out)
<1>1. /\ DOMAIN fwd = DOMAIN NewForwarder /\ fwd.draining /\ fwd.pc = "release"
      /\ PhoneJobs = {} /\ owner' = owner /\ fwd.draining \in BOOLEAN /\ fwd.bound \in BOOLEAN
  BY DEF TakenInv, ForwarderShape, Places, Release
<1>2. /\ OutFits(out) /\ RequestsOwned(out, fwd, owner) /\ JobsFit(out, fwd, owner)
      /\ BoundFits(out, fwd) /\ SnapFits(out, fwd) /\ MediaFits(out, fwd)
  BY DEF TablesInv, Tables
<1>3. Alike(out, o) /\ Settles(out, o, {}) /\ OutFits(o)
  BY <1>2, EventsAreAlike, AlikeSettles, SettlesFits
<1>4. DOMAIN out.media = {} /\ DOMAIN o.media = {} /\ fwd.pc \in Deciding /\ fwd.bound
  <2>1. DOMAIN out.media = {}
    BY <1>1, <1>2 DEF MediaFits
  <2>2. DOMAIN o.media = {}
    BY <1>3, <2>1 DEF Alike
  <2> QED
    BY <1>1, <1>2, <2>1, <2>2 DEF BoundFits, Deciding
<1>5. /\ o.epoch = out.epoch /\ DOMAIN o.pending = DOMAIN out.pending
      /\ \A t \in DOMAIN out.pending : o.pending[t].op = out.pending[t].op
  BY <1>3 DEF Alike
<1>6. CASE SessionGone
  <2>1. f = [fwd EXCEPT !.active = NoEntry, !.jobs = NoEntry]
    BY <1>6 DEF Abandoned
  <2>2. /\ DOMAIN f = DOMAIN NewForwarder /\ f.active = NoEntry /\ f.jobs = NoEntry
        /\ f.epoch = fwd.epoch /\ f.snap = fwd.snap
    BY <1>1, <2>1 DEF NewForwarder
  <2>3. DOMAIN NoEntry = {} /\ ~ StatePending(f.jobs)
    BY <2>2 DEF NoEntry, StatePending
  <2>4. out' = o /\ fwd' = [f EXCEPT !.bound = FALSE, !.draining = FALSE, !.failed = FALSE,
                                     !.phase = "Inactive", !.pc = "settle"]
    BY <2>2, <2>3 DEF Release
  <2>5. /\ fwd'.active = NoEntry /\ fwd'.jobs = NoEntry /\ fwd'.epoch = fwd.epoch
        /\ fwd'.snap = fwd.snap /\ fwd'.bound = FALSE /\ fwd'.draining = FALSE
    BY <2>2, <2>4 DEF NewForwarder
  <2>6. \A t \in DOMAIN out'.pending : t \in owner /\ out'.pending[t].op.kind = "Start"
    BY <1>1, <1>4, <1>5, <1>6, <2>4, GoneOwnsNothing
  <2> QED
    BY <1>1, <1>3, <1>4, <2>3, <2>4, <2>5, <2>6, LetGoStep
<1>7. CASE ~ SessionGone
  <2>1. f = fwd
    BY <1>7 DEF Abandoned
  <2>2. CASE /\ DOMAIN fwd.active = {} /\ ~ StatePending(fwd.jobs) /\ out' = o
             /\ fwd' = [fwd EXCEPT !.bound = FALSE, !.draining = FALSE, !.failed = FALSE,
                                   !.phase = "Inactive", !.pc = "settle"]
    <3>1. DOMAIN fwd.jobs = {}
      BY <1>1, <2>2 DEF StatePending, PhoneJobs
    <3>2. \A t \in DOMAIN out'.pending : t \in owner /\ out'.pending[t].op.kind = "Start"
      BY <1>2, <1>5, <2>2, <3>1 DEF RequestsOwned
    <3>3. /\ fwd'.active = fwd.active /\ fwd'.jobs = fwd.jobs /\ fwd'.epoch = fwd.epoch
          /\ fwd'.snap = fwd.snap /\ fwd'.bound = FALSE /\ fwd'.draining = FALSE
      BY <1>1, <2>2 DEF NewForwarder
    <3> QED
      BY <1>1, <1>3, <1>4, <2>2, <3>1, <3>2, <3>3, LetGoStep
  <2>3. CASE out' = o /\ fwd' = Goto(fwd, "idle")
    <3>1. SameTables(fwd, fwd')
      BY <1>1, <2>3 DEF Goto, NewForwarder, SameTables, Deciding
    <3> QED
      BY <1>1, <1>3, <2>3, <3>1, AlikeStep
  <2>4. CASE /\ out' = IF fwd.epoch = o.epoch THEN Disconnect(o) ELSE o
             /\ fwd' = Goto([fwd EXCEPT !.active = NoEntry], "idle")
    <3>1. /\ fwd'.active = NoEntry /\ fwd'.jobs = fwd.jobs /\ fwd'.epoch = fwd.epoch
          /\ fwd'.bound = fwd.bound /\ fwd'.draining = fwd.draining /\ fwd'.pc = "idle"
      BY <1>1, <2>4 DEF Goto, NewForwarder
    <3>2. DOMAIN fwd'.active = {} /\ fwd'.pc \notin Deciding
      BY <3>1 DEF NoEntry, Deciding
    <3>3. /\ Settles(out, out', {}) /\ DOMAIN out'.media = {}
          /\ \A t \in DOMAIN out'.pending : t \in owner /\ out'.pending[t].op.kind = "Start"
      <4>1. CASE fwd.epoch = o.epoch
        <5>1. /\ Settles(o, out', {}) /\ DOMAIN out'.pending = {} /\ DOMAIN out'.media = {}
          BY <1>3, <2>4, <4>1, FailSettles DEF Disconnect
        <5>2. Settles(out, out', {} \cup {})
          BY <1>2, <1>3, <5>1, SettlesSettles DEF OutFits, RequestShape
        <5> QED
          BY <5>1, <5>2
      <4>2. CASE fwd.epoch # o.epoch
        <5>1. \A t \in DOMAIN out.pending : t \in owner /\ out.pending[t].op.kind = "Start"
          BY <1>1, <1>4, <1>5, <4>2, GoneOwnsNothing
        <5> QED
          BY <1>3, <1>4, <1>5, <2>4, <4>2, <5>1
      <4> QED
        BY <4>1, <4>2
    <3> QED
      BY <1>1, <1>4, <3>1, <3>2, <3>3, LetGoStep
  <2>5. CASE ~ StatePending(fwd.jobs) /\ \E s \in DOMAIN fwd.active : SubmitTeardown(o, s, fwd.phase)
    <3>1. PICK s \in DOMAIN fwd.active : SubmitTeardown(o, s, fwd.phase)
      BY <2>5
    <3> DEFINE i == ExpirePending(o)
               op == TeardownOf(fwd.active[s].id)
               job == [JobOf("Teardown", s, NoStreamYet) EXCEPT !.epoch = i.epoch]
    <3>2. \/ /\ out' = Enqueue(i, op) /\ CanEnqueue(i, op)
             /\ fwd' = Goto([fwd EXCEPT !.jobs = Put(@, i.nextId, job), !.phase = fwd.phase], "idle")
          \/ /\ out' = i
             /\ \E b : fwd' = Goto([fwd EXCEPT !.failed = b, !.phase = fwd.phase], "idle")
      BY <3>1 DEF SubmitTeardown, SubmitState
    <3>3. Settles(o, i, {})
      BY <1>3, ExpireSettles
    <3>4. job.job = "Teardown" /\ job.source = s /\ job.epoch = i.epoch
          /\ op.kind = "Teardown" /\ op.sid = fwd.active[s].id
      BY DEF JobOf, TeardownOf
    <3> HIDE DEF i, job, op
    <3>5. Settles(out, i, {})
      <4>1. Settles(out, i, {} \cup {})
        BY <1>2, <1>3, <3>3, SettlesSettles DEF OutFits, RequestShape
      <4> QED
        BY <4>1
    <3>6. ASSUME CanEnqueue(i, op) PROVE Admissible(i, fwd, op, job)
      <4>1. op.sid \in DOMAIN i.streams
        BY <3>4, <3>6 DEF CanEnqueue, Validate, Lifecycle
      <4>2. DOMAIN out.streams # {} /\ i.epoch = out.epoch
        BY <3>5, <4>1 DEF Settles
      <4>3. fwd.epoch = i.epoch
        BY <1>2, <1>4, <1>7, <4>2 DEF SnapFits, SessionGone
      <4>4. DOMAIN i.media = {}
        BY <1>4, <3>5 DEF Settles
      <4> QED
        BY <1>4, <2>5, <3>4, <3>6, <4>3, <4>4 DEF Admissible, IsFor, Kind, Job
    <3>7. \/ out' = i /\ fwd'.jobs = fwd.jobs
          \/ /\ out' = Enqueue(i, op) /\ fwd'.jobs = Put(fwd.jobs, i.nextId, job)
             /\ Admissible(i, fwd, op, job)
      BY <1>1, <3>2, <3>6 DEF Goto, NewForwarder
    <3>8. /\ fwd'.pc \notin Deciding /\ fwd'.bound = fwd.bound /\ fwd'.draining = fwd.draining
          /\ fwd'.epoch = fwd.epoch /\ fwd'.active = fwd.active
      <4>1. CASE fwd' = Goto([fwd EXCEPT !.jobs = Put(@, i.nextId, job), !.phase = fwd.phase], "idle")
        BY <1>1, <4>1 DEF Goto, NewForwarder, Deciding
      <4>2. CASE \E b : fwd' = Goto([fwd EXCEPT !.failed = b, !.phase = fwd.phase], "idle")
        <5>1. PICK b : fwd' = Goto([fwd EXCEPT !.failed = b, !.phase = fwd.phase], "idle")
          BY <4>2
        <5> QED
          BY <1>1, <5>1 DEF Goto, NewForwarder, Deciding
      <4> QED
        BY <3>2, <4>1, <4>2
    <3> QED
      BY <1>1, <3>5, <3>7, <3>8, SubmitStep
  <2> QED
    BY <2>1, <2>2, <2>3, <2>4, <2>5 DEF Release
<1> QED
  BY <1>6, <1>7

\* It binds to a session in which nothing of it is.
LEMMA BindKeeps ==
  ASSUME TakenInv, TablesInv, Bind, fwd.pc = "settle", owner' = owner
  PROVE  TablesInv'
<1>1. /\ OutFits(out) /\ RequestsOwned(out, fwd, owner) /\ JobsFit(out, fwd, owner)
      /\ BoundFits(out, fwd) /\ SnapFits(out, fwd) /\ MediaFits(out, fwd)
  BY DEF TablesInv, Tables
<1>2. /\ fwd'.bound = TRUE /\ fwd'.draining = fwd.draining /\ fwd'.epoch = fwd.snap.epoch
      /\ fwd'.active = fwd.active /\ fwd'.jobs = fwd.jobs /\ fwd'.pc = "events" /\ out' = out
  BY DEF Bind, TakenInv, ForwarderShape, NewForwarder
<1>3. /\ ~ fwd.bound /\ ~ fwd.draining /\ fwd.snap.phase \in ConnectedPhase /\ fwd.pc \in Deciding
      /\ DOMAIN fwd.active = {} /\ DOMAIN fwd.jobs = {}
  BY <1>1 DEF Bind, Usable, Connected, BoundFits, Deciding
<1>4. DOMAIN out.media = {}
  BY <1>1, <1>3 DEF MediaFits
<1>5. RequestsOwned(out, fwd', owner) /\ JobsFit(out, fwd', owner)
  BY <1>1, <1>2, <1>3 DEF RequestsOwned, JobsFit
<1>6. BoundFits(out, fwd')
  <2>1. fwd.snap.phase \notin BootstrapPhase
    BY <1>3 DEF BootstrapPhase, ConnectedPhase
  <2> QED
    BY <1>1, <1>2, <1>3, <2>1 DEF SnapFits, BoundFits
<1>7. SnapFits(out, fwd')
  BY <1>2 DEF SnapFits, Deciding
<1>8. StreamsFit(out, fwd') /\ MediaFits(out, fwd')
  BY <1>2, <1>3, <1>4 DEF StreamsFit, MediaFits, OkJobs
<1> QED
  BY <1>1, <1>2, <1>5, <1>6, <1>7, <1>8 DEF TablesInv, Tables

LEMMA SettleStepKeeps ==
  ASSUME TakenInv, TablesInv, SettleStep
  PROVE  TablesInv'
<1>1. DOMAIN fwd = DOMAIN NewForwarder /\ OutFits(out) /\ owner' = owner
  BY DEF TakenInv, ForwarderShape, TablesInv, Tables, SettleStep
<1>2. Alike(out, out) /\ Alike(out, Refuse(out)) /\ OutFits(Refuse(out))
  BY <1>1, SelfAlike, EventsAreAlike, AlikeSettles, SettlesFits
<1>3. ASSUME NEW phase, Settle(phase) PROVE SameTables(fwd, fwd')
  BY <1>1, <1>3 DEF Settle, Goto, NewForwarder, SameTables, Deciding
<1>4. CASE Unselected \/ NoOutput \/ ForeignStreams
  <2>1. SameTables(fwd, fwd')
    BY <1>3, <1>4 DEF Unselected, NoOutput, ForeignStreams
  <2>2. Alike(out, out')
    BY <1>2, <1>4 DEF Unselected, NoOutput, ForeignStreams
  <2> QED
    BY <1>1, <2>1, <2>2, AlikeStep
<1>5. CASE StayFailed
  <2>1. SameTables(fwd, fwd')
    BY <1>3, <1>5 DEF StayFailed
  <2>2. Alike(Refuse(out), DiscardMedia(Refuse(out)))
    BY <1>2, PacketsAreAlike
  <2>3. Alike(out, DiscardMedia(Refuse(out)))
    BY <1>1, <1>2, <2>2, AlikeAlike
  <2>4. Alike(out, out')
    BY <1>2, <1>5, <2>3 DEF StayFailed
  <2> QED
    BY <1>1, <2>1, <2>4, AlikeStep
<1>6. CASE Carry
  <2>1. SameTables(fwd, fwd') /\ out' = out
    BY <1>1, <1>6 DEF Carry, NewForwarder, SameTables, Deciding
  <2> QED
    BY <1>1, <1>2, <2>1, AlikeStep
<1>7. CASE Bind
  BY <1>1, <1>7, BindKeeps DEF SettleStep
<1> QED
  BY <1>4, <1>5, <1>6, <1>7 DEF SettleStep

LEMMA EventStepKeeps ==
  ASSUME TakenInv, TablesInv, EventStep
  PROVE  TablesInv'
<1>1. DOMAIN fwd = DOMAIN NewForwarder /\ OutFits(out) /\ owner' = owner /\ fwd.pc = "events"
  BY DEF TakenInv, ForwarderShape, TablesInv, Tables, EventStep
<1>2. Alike(out, out')
  <2>1. ASSUME NEW id PROVE Alike(out, PopCommand(out, id)) /\ OutFits(PopCommand(out, id))
    BY <1>1, EventsAreAlike, AlikeSettles, SettlesFits
  <2>2. ASSUME NEW id PROVE LET o == PopCommand(out, id) IN Alike(out, RespondAll(o, o.epoch, {id}))
    <3> DEFINE o == PopCommand(out, id)
    <3>1. Alike(out, o) /\ OutFits(o)
      BY <2>1
    <3> HIDE DEF o
    <3>2. Alike(o, RespondAll(o, o.epoch, {id}))
      BY <3>1, EventsAreAlike
    <3>3. Alike(out, RespondAll(o, o.epoch, {id}))
      BY <1>1, <3>1, <3>2, AlikeAlike
    <3> QED
      BY <3>3 DEF o
  <2>3. CASE PassCommand
    BY <2>1, <2>2, <2>3 DEF PassCommand
  <2>4. CASE PassNote
    BY <1>1, <2>4, EventsAreAlike DEF PassNote
  <2>5. CASE EventsDone
    BY <1>1, <2>5, SelfAlike DEF EventsDone
  <2> QED
    BY <2>3, <2>4, <2>5 DEF EventStep
<1>3. SameTables(fwd, fwd')
  <2>1. \/ fwd' = fwd
        \/ \E r : fwd' = [fwd EXCEPT !.reverse = r]
        \/ fwd' = [fwd EXCEPT !.pc = "configure"]
    BY <1>1 DEF EventStep, PassCommand, PassNote, EventsDone, NewForwarder
  <2> QED
    BY <1>1, <2>1 DEF SameTables, NewForwarder, Deciding
<1> QED
  BY <1>1, <1>2, <1>3, AlikeStep

\* Streams are set up and taken down by the table of the coordinator, one
\* request at a time.
LEMMA ConfigureStepKeeps ==
  ASSUME TakenInv, TablesInv, ConfigureStep
  PROVE  TablesInv'
<1>1. /\ DOMAIN fwd = DOMAIN NewForwarder /\ OutFits(out) /\ owner' = owner
      /\ fwd.bound /\ ~ fwd.draining /\ fwd.bound \in BOOLEAN /\ fwd.draining \in BOOLEAN
  BY DEF TakenInv, ForwarderShape, Places, TablesInv, Tables, ConfigureStep
<1>2. Alike(out, out) /\ out.nextId \in Nat /\ Settles(out, out, {})
  BY <1>1, SelfAlike, SelfSettles DEF OutFits, RequestShape
<1>3. CASE WaitForAnswer \/ Configured
  <2>1. out' = out /\ SameTables(fwd, fwd')
    <3>1. CASE WaitForAnswer
      BY <1>1, <3>1 DEF WaitForAnswer, Settle, Goto, NewForwarder, SameTables, Deciding
    <3>2. CASE Configured
      BY <1>1, <3>2 DEF Configured, NewForwarder, SameTables, Deciding
    <3> QED
      BY <1>3, <3>1, <3>2
  <2> QED
    BY <1>1, <1>2, <2>1, AlikeStep
<1>4. ASSUME NEW o, Settles(out, o, {}), NEW op, NEW job, NEW refused, NEW phase,
             SubmitState(o, op, job, refused, phase), DOMAIN job = JobField,
             op.kind \in Kind, IsFor(op, job, fwd), ~ StatePending(fwd.jobs), job.job \in Job,
             job.job = "Setup" => /\ job.source \notin DOMAIN fwd.active
                                  /\ DOMAIN job.stream = StreamField,
             job.job = "Teardown" => DOMAIN o.media = {}
      PROVE  TablesInv'
  <2> DEFINE i == ExpirePending(o)
             entry == [job EXCEPT !.epoch = i.epoch]
  <2>1. OutFits(o)
    BY <1>1, <1>4, SettlesFits
  <2>2. Settles(o, i, {})
    BY <2>1, ExpireSettles
  <2>3. \/ /\ out' = Enqueue(i, op) /\ CanEnqueue(i, op)
           /\ fwd' = Goto([fwd EXCEPT !.jobs = Put(@, i.nextId, entry), !.phase = phase], "idle")
        \/ out' = i /\ \E b : fwd' = Goto([fwd EXCEPT !.failed = b, !.phase = phase], "idle")
    BY <1>4 DEF SubmitState
  <2>4. /\ entry.job = job.job /\ entry.epoch = i.epoch /\ entry.source = job.source
        /\ entry.stream = job.stream
    BY <1>4 DEF JobField
  <2> HIDE DEF i, entry
  <2>5. Settles(out, i, {} \cup {})
    BY <1>2, <1>4, <2>2, SettlesSettles
  <2>6. Settles(out, i, {})
    BY <2>5
  <2>7. ASSUME CanEnqueue(i, op) PROVE Admissible(i, fwd, op, entry)
    <3>1. IsFor(op, entry, fwd)
      BY <1>4, <2>4 DEF IsFor
    <3>2. job.job = "Teardown" => DOMAIN i.media = {}
      BY <1>4, <2>2 DEF Settles
    <3> QED
      BY <1>1, <1>4, <2>4, <2>7, <3>1, <3>2 DEF Admissible
  <2>8. /\ fwd'.pc \notin Deciding /\ fwd'.bound = fwd.bound /\ fwd'.draining = fwd.draining
        /\ fwd'.epoch = fwd.epoch /\ fwd'.active = fwd.active
        /\ \/ out' = i /\ fwd'.jobs = fwd.jobs
           \/ /\ out' = Enqueue(i, op) /\ fwd'.jobs = Put(fwd.jobs, i.nextId, entry)
              /\ Admissible(i, fwd, op, entry)
    <3>1. CASE /\ out' = Enqueue(i, op) /\ CanEnqueue(i, op)
               /\ fwd' = Goto([fwd EXCEPT !.jobs = Put(@, i.nextId, entry), !.phase = phase], "idle")
      BY <1>1, <2>7, <3>1 DEF Goto, NewForwarder, Deciding
    <3>2. CASE out' = i /\ \E b : fwd' = Goto([fwd EXCEPT !.failed = b, !.phase = phase], "idle")
      <4>1. PICK b : fwd' = Goto([fwd EXCEPT !.failed = b, !.phase = phase], "idle")
        BY <3>2
      <4> QED
        BY <1>1, <3>2, <4>1 DEF Goto, NewForwarder, Deciding
    <3> QED
      BY <2>3, <3>1, <3>2
  <2> QED
    BY <1>1, <2>6, <2>8, SubmitStep
<1>5. CASE SetUpMissing
  <2>1. PICK s \in Missing : SubmitSetup(s, fwd.snap.streams[s])
    BY <1>5 DEF SetUpMissing
  <2> DEFINE legs == fwd.snap.streams[s].legs
             stream == [config |-> fwd.snap.streams[s], id |-> Fresh, waiting |-> TRUE]
             job == JobOf("Setup", s, stream)
             op == SetupOf(Fresh, legs)
  <2>2. /\ job.job = "Setup" /\ job.source = s /\ job.stream = stream /\ stream.id = Fresh
        /\ DOMAIN stream = StreamField /\ DOMAIN job = JobField
        /\ op.kind = "Setup" /\ op.sid = Fresh
    BY DEF JobOf, SetupOf, StreamField, JobField
  <2>3. SubmitState(out, op, job, SetupRefused(ExpirePending(out), fwd.snap.streams[s]), "Configuring")
    BY <2>1 DEF SubmitSetup
  <2> HIDE DEF job, op, stream
  <2>4. ~ StatePending(fwd.jobs) /\ s \notin DOMAIN fwd.active
    BY <1>5 DEF SetUpMissing, Missing
  <2> QED
    BY <1>2, <1>4, <2>2, <2>3, <2>4 DEF IsFor, Kind, Job
<1>6. CASE StartRecord
  <2> DEFINE job == JobOf("Record", 0, NoStreamYet)
             op == Plain("Record")
  <2>1. job.job = "Record" /\ op.kind = "Record" /\ DOMAIN job = JobField
    BY DEF JobOf, Plain, JobField
  <2>2. SubmitState(out, op, job, FALSE, "Configuring") /\ ~ StatePending(fwd.jobs)
    BY <1>6 DEF StartRecord
  <2> HIDE DEF job, op
  <2> QED
    BY <1>2, <1>4, <2>1, <2>2 DEF IsFor, Kind, Job
<1>7. CASE TearChanged
  <2> DEFINE o == DiscardOutput
             i == ExpirePending(o)
  <2>1. PICK s \in Changed :
          LET op == TeardownOf(fwd.active[s].id)
              ok == CanEnqueue(i, op)
              entry == [JobOf("Teardown", s, NoStreamYet) EXCEPT !.epoch = i.epoch]
          IN  /\ out' = IF ok THEN Enqueue(i, op) ELSE i
              /\ fwd' = Goto([fwd EXCEPT !.media = NoPacket, !.mic = NoPacket,
                                         !.jobs = IF ok THEN Put(@, i.nextId, entry) ELSE @,
                                         !.failed = @ \/ TeardownNotFound(i, fwd.active[s].id),
                                         !.phase = "Configuring"], "idle")
    BY <1>7 DEF TearChanged
  <2> DEFINE op == TeardownOf(fwd.active[s].id)
             entry == [JobOf("Teardown", s, NoStreamYet) EXCEPT !.epoch = i.epoch]
  <2>2. /\ entry.job = "Teardown" /\ entry.source = s /\ entry.epoch = i.epoch
        /\ op.kind = "Teardown" /\ op.sid = fwd.active[s].id
    BY DEF JobOf, TeardownOf
  <2>3. Settles(out, o, {}) /\ DOMAIN o.media = {}
    <3>1. CASE fwd.epoch = out.epoch
      <4>1. Alike(out, DiscardMedia(out)) /\ DOMAIN DiscardMedia(out).media = {}
        BY <1>1, PacketsAreAlike
      <4> QED
        BY <1>1, <3>1, <4>1, AlikeSettles DEF DiscardOutput
    <3>2. CASE fwd.epoch # out.epoch
      <4>1. DOMAIN out.media = {}
        BY <3>2 DEF TablesInv, Tables, MediaFits
      <4> QED
        BY <1>2, <3>2, <4>1 DEF DiscardOutput
    <3> QED
      BY <3>1, <3>2
  <2> HIDE DEF o
  <2>4. OutFits(o)
    BY <1>1, <2>3, SettlesFits
  <2>5. Settles(o, i, {})
    BY <2>4, ExpireSettles
  <2> HIDE DEF i, op, entry
  <2>6. Settles(out, i, {} \cup {}) /\ DOMAIN i.media = {}
    BY <1>2, <2>3, <2>5, SettlesSettles DEF Settles
  <2>7. Settles(out, i, {})
    BY <2>6
  <2>8. PICK b : fwd' = Goto([fwd EXCEPT !.media = NoPacket, !.mic = NoPacket,
                                         !.jobs = IF CanEnqueue(i, op) THEN Put(@, i.nextId, entry) ELSE @,
                                         !.failed = b, !.phase = "Configuring"], "idle")
    BY <2>1 DEF op, entry
  <2>9. /\ fwd'.jobs = IF CanEnqueue(i, op) THEN Put(fwd.jobs, i.nextId, entry) ELSE fwd.jobs
        /\ fwd'.pc \notin Deciding /\ fwd'.bound = fwd.bound /\ fwd'.draining = fwd.draining
        /\ fwd'.epoch = fwd.epoch /\ fwd'.active = fwd.active
    BY <1>1, <2>8 DEF Goto, NewForwarder, Deciding
  <2>10. ASSUME CanEnqueue(i, op) PROVE Admissible(i, fwd, op, entry)
    <3>1. ~ StatePending(fwd.jobs) /\ s \in DOMAIN fwd.active
      BY <1>7 DEF TearChanged, Changed
    <3> QED
      BY <1>1, <2>2, <2>6, <2>10, <3>1 DEF Admissible, IsFor, Kind, Job
  <2>11. out' = IF CanEnqueue(i, op) THEN Enqueue(i, op) ELSE i
    BY <2>1 DEF op
  <2>12. \/ out' = i /\ fwd'.jobs = fwd.jobs
         \/ /\ out' = Enqueue(i, op) /\ fwd'.jobs = Put(fwd.jobs, i.nextId, entry)
            /\ Admissible(i, fwd, op, entry)
    BY <2>9, <2>10, <2>11
  <2> QED
    BY <1>1, <2>7, <2>9, <2>12, SubmitStep
<1> QED
  BY <1>3, <1>5, <1>6, <1>7 DEF ConfigureStep

-----------------------------------------------------------------------------
\* Answers are collected

\* What the answers make of the table of streams.
LEMMA EstablishedIs ==
  /\ DOMAIN Established =
       (DOMAIN fwd.active \cup SourceOf(DoneOk("Setup"))) \ SourceOf(DoneOk("Teardown"))
  /\ \A s \in DOMAIN Established :
       \/ s \notin SourceOf(DoneOk("Setup")) /\ Established[s] = fwd.active[s]
       \/ \E t \in DoneOk("Setup") : fwd.jobs[t].source = s /\ Established[s] = fwd.jobs[t].stream
<1> DEFINE up == DoneOk("Setup")
           JobFor(s) == CHOOSE t \in up : fwd.jobs[t].source = s
<1>1. Established = [s \in (DOMAIN fwd.active \cup SourceOf(up)) \ SourceOf(DoneOk("Teardown")) |->
                       IF s \in SourceOf(up) THEN fwd.jobs[JobFor(s)].stream ELSE fwd.active[s]]
  BY DEF Established
<1>2. ASSUME NEW s \in SourceOf(up) PROVE JobFor(s) \in up /\ fwd.jobs[JobFor(s)].source = s
  <2>1. \E t \in up : fwd.jobs[t].source = s
    BY DEF SourceOf
  <2> QED
    BY <2>1
<1> HIDE DEF up, JobFor
<1>3. DOMAIN Established = (DOMAIN fwd.active \cup SourceOf(up)) \ SourceOf(DoneOk("Teardown"))
  BY <1>1
<1>4. ASSUME NEW s \in DOMAIN Established
      PROVE  \/ s \notin SourceOf(up) /\ Established[s] = fwd.active[s]
             \/ \E t \in up : fwd.jobs[t].source = s /\ Established[s] = fwd.jobs[t].stream
  <2>1. CASE s \in SourceOf(up)
    <3>1. Established[s] = fwd.jobs[JobFor(s)].stream
      BY <1>1, <1>3, <2>1
    <3> QED
      BY <1>2, <2>1, <3>1
  <2>2. CASE s \notin SourceOf(up)
    BY <1>1, <1>3, <2>2
  <2> QED
    BY <2>1, <2>2
<1> QED
  BY <1>3, <1>4 DEF up

\* The coordinator takes the answers there are: a stream that was set up gets its
\* place in the table, one that was taken down loses it, and the jobs that are
\* left are those the output still works on.
LEMMA CollectKeeps ==
  ASSUME TakenInv, TablesInv, Collect
  PROVE  TablesInv'
<1> DEFINE o == [out EXCEPT !.completions = Without(@, DoneJobs)]
           up == DoneOk("Setup")
           down == DoneOk("Teardown")
           left == DOMAIN fwd.jobs \ DoneJobs
<1>1. /\ OutFits(out) /\ RequestsOwned(out, fwd, owner) /\ JobsFit(out, fwd, owner)
      /\ BoundFits(out, fwd) /\ StreamsFit(out, fwd) /\ MediaFits(out, fwd)
  BY DEF TablesInv, Tables
<1>2. /\ \E ids : out' = RespondAll(o, fwd.epoch, ids)
      /\ fwd'.active = Established /\ fwd'.jobs = Without(fwd.jobs, DoneJobs)
      /\ fwd'.pc = "look" /\ fwd'.bound = fwd.bound /\ fwd'.draining = fwd.draining
      /\ fwd'.epoch = fwd.epoch /\ owner' = owner
  BY DEF Collect, CollectNow, TakenInv, ForwarderShape, NewForwarder
<1>3. /\ Settles(out, o, DoneJobs) /\ o.pending = out.pending
      /\ o.completions = [t \in DOMAIN out.completions \ DoneJobs |-> out.completions[t]]
      /\ o.epoch = out.epoch /\ o.phase = out.phase /\ o.streams = out.streams
      /\ o.media = out.media /\ o.nextId = out.nextId
  BY <1>1, PopSettles
<1> HIDE DEF o
<1>4. OutFits(o) /\ Held(o) \subseteq Held(out)
  BY <1>1, <1>3, SettlesFits
<1>5. Alike(o, out')
  BY <1>2, <1>4, EventsAreAlike
<1>6. OutFits(out')
  BY <1>4, <1>5, AlikeSettles, SettlesFits
<1>7. /\ out'.epoch = out.epoch /\ out'.phase = out.phase /\ out'.streams = out.streams
      /\ DOMAIN out'.pending = DOMAIN out.pending
      /\ \A t \in DOMAIN out.pending : out'.pending[t].op = out.pending[t].op
      /\ DOMAIN out'.completions = DOMAIN out.completions \ DoneJobs
      /\ \A n \in DOMAIN out'.media : n \in DOMAIN out.media /\ out'.media[n] = out.media[n]
      /\ out.nextId \in Nat /\ out'.nextId \in Nat /\ out.nextId <= out'.nextId
  BY <1>1, <1>3, <1>5 DEF Alike, OutFits, RequestShape
<1>8. /\ DOMAIN fwd'.jobs = left
      /\ \A t \in left : fwd'.jobs[t] = fwd.jobs[t]
  BY <1>2 DEF Without, Restrict
<1>9. \A t \in left : t \in DOMAIN out.pending /\ t \notin DOMAIN out.completions
  BY <1>1 DEF JobsFit, Held, DoneJobs
<1>10. up = OkJobs(out, fwd, "Setup") /\ down = OkJobs(out, fwd, "Teardown")
  BY DEF DoneOk, DoneJobs, OkJobs
<1>11. /\ DOMAIN fwd'.active = (DOMAIN fwd.active \cup SourceOf(up)) \ SourceOf(down)
       /\ \A s \in DOMAIN fwd'.active :
            \/ s \notin SourceOf(up) /\ fwd'.active[s] = fwd.active[s]
            \/ \E t \in up : fwd.jobs[t].source = s /\ fwd'.active[s] = fwd.jobs[t].stream
  BY <1>2, EstablishedIs
<1>12. /\ \A t \in up : t \in DOMAIN fwd.jobs /\ t \in DoneJobs /\ fwd.jobs[t].job = "Setup"
       /\ \A t \in down : t \in DOMAIN fwd.jobs /\ t \in DoneJobs /\ fwd.jobs[t].job = "Teardown"
  BY DEF DoneOk, DoneJobs
<1> HIDE DEF up, down, left
<1>13. ASSUME NEW t \in left, fwd.jobs[t].job # "Phone"
       PROVE  /\ DOMAIN fwd'.active = DOMAIN fwd.active
              /\ \A s \in DOMAIN fwd.active : fwd'.active[s] = fwd.active[s]
  <2>1. up = {} /\ down = {}
    BY <1>1, <1>12, <1>13 DEF JobsFit, left
  <2>2. SourceOf(up) = {} /\ SourceOf(down) = {}
    BY <2>1 DEF SourceOf
  <2> QED
    BY <1>11, <2>1, <2>2
<1>14. \A kind : OkJobs(out', fwd', kind) = {}
  BY <1>7, <1>8, <1>9 DEF OkJobs
<1>15. \A t \in up : fwd.jobs[t].source \notin DOMAIN fwd.active
                     /\ DOMAIN fwd.jobs[t].stream = StreamField
  BY <1>1, <1>12 DEF JobsFit
<1>16. RequestsOwned(out', fwd', owner)
  <2> SUFFICES ASSUME NEW t \in DOMAIN out.pending
               PROVE  LET op == out.pending[t].op IN
                      \/ t \in owner /\ op.kind = "Start"
                      \/ t \in left /\ fwd.jobs[t].epoch = out.epoch /\ IsFor(op, fwd.jobs[t], fwd')
    BY <1>7, <1>8 DEF RequestsOwned
  <2> DEFINE op == out.pending[t].op
  <2>1. CASE t \in owner /\ op.kind = "Start"
    BY <2>1
  <2>2. CASE t \in DOMAIN fwd.jobs /\ fwd.jobs[t].epoch = out.epoch /\ IsFor(op, fwd.jobs[t], fwd)
    <3>1. t \in left
      BY <1>1, <2>2 DEF OutFits, RequestShape, DoneJobs, left
    <3>2. IsFor(op, fwd.jobs[t], fwd')
      BY <1>13, <2>2, <3>1 DEF IsFor
    <3> QED
      BY <2>2, <3>1, <3>2
  <2> QED
    BY <1>1, <2>1, <2>2 DEF RequestsOwned
<1>17. JobsFit(out', fwd', owner)
  <2>1. owner \subseteq 1..(out'.nextId - 1)
    BY <1>1, <1>7 DEF JobsFit
  <2>2. \A t \in left : t \in DOMAIN fwd.jobs
    BY DEF left
  <2>3. \A t \in left : t \in Held(out')
    BY <1>7, <1>9 DEF Held
  <2>4. ASSUME NEW t \in left, fwd.jobs[t].job = "Setup"
        PROVE  fwd.jobs[t].source \notin DOMAIN fwd'.active
    BY <1>1, <1>13, <2>2, <2>4 DEF JobsFit
  <2> QED
    BY <1>1, <1>2, <1>7, <1>8, <2>1, <2>2, <2>3, <2>4 DEF JobsFit
<1>18. BoundFits(out', fwd')
  <2>1. ASSUME ~ fwd.bound PROVE DOMAIN fwd'.active = {} /\ DOMAIN fwd'.jobs = {}
    <3>1. DOMAIN fwd.active = {} /\ DOMAIN fwd.jobs = {}
      BY <1>1, <2>1 DEF BoundFits
    <3>2. up = {}
      BY <1>12, <3>1
    <3>3. SourceOf(up) = {}
      BY <3>2 DEF SourceOf
    <3> QED
      BY <1>8, <1>11, <3>1, <3>3 DEF left
  <2>2. \A s \in DOMAIN fwd'.active : DOMAIN fwd'.active[s] = StreamField
    BY <1>1, <1>11, <1>15 DEF BoundFits
  <2> QED
    BY <1>1, <1>2, <1>7, <2>1, <2>2 DEF BoundFits
<1>19. SnapFits(out', fwd')
  BY <1>2 DEF SnapFits, Deciding
<1>20. ASSUME fwd.epoch = out.epoch, out.phase \in ConnectedPhase, ~ fwd.draining
       PROVE  /\ \A s \in DOMAIN fwd.active :
                   \/ fwd.active[s].id \in DOMAIN out.streams
                   \/ s \in SourceOf(down)
              /\ \A r, s \in DOMAIN fwd.active : fwd.active[r].id = fwd.active[s].id => r = s
              /\ \A t \in DOMAIN fwd.jobs :
                   fwd.jobs[t].job = "Setup" => fwd.jobs[t].stream.id \notin IdsOf(fwd)
              /\ \A t \in up : fwd.jobs[t].stream.id \in DOMAIN out.streams
              /\ \A s \in SourceOf(down) :
                   s \in DOMAIN fwd.active /\ fwd.active[s].id \notin DOMAIN out.streams
  BY <1>1, <1>10, <1>20 DEF StreamsFit, SourceOf
<1>21. StreamsFit(out', fwd')
  <2> SUFFICES ASSUME fwd.epoch = out.epoch, out.phase \in ConnectedPhase, ~ fwd.draining
               PROVE  /\ \A s \in DOMAIN fwd'.active : fwd'.active[s].id \in DOMAIN out.streams
                      /\ \A r, s \in DOMAIN fwd'.active :
                           fwd'.active[r].id = fwd'.active[s].id => r = s
                      /\ \A t \in left :
                           fwd.jobs[t].job = "Setup" => fwd.jobs[t].stream.id \notin IdsOf(fwd')
    BY <1>2, <1>7, <1>8, <1>14 DEF StreamsFit
  <2>1. ASSUME NEW s \in DOMAIN fwd'.active PROVE fwd'.active[s].id \in DOMAIN out.streams
    BY <1>11, <1>20
  <2>2. ASSUME NEW s \in DOMAIN fwd'.active
        PROVE  \/ s \in DOMAIN fwd.active /\ fwd'.active[s] = fwd.active[s]
               \/ \E t \in up : fwd.jobs[t].source = s /\ fwd'.active[s].id = fwd.jobs[t].stream.id
    BY <1>11
  <2>3. \A t \in up : fwd.jobs[t].stream.id \notin IdsOf(fwd)
    BY <1>12, <1>20
  <2>4. \A t, u \in up : t = u
    BY <1>1, <1>12 DEF JobsFit
  <2>5. ASSUME NEW r \in DOMAIN fwd'.active, NEW s \in DOMAIN fwd'.active,
               fwd'.active[r].id = fwd'.active[s].id
        PROVE  r = s
    <3>1. CASE /\ r \in DOMAIN fwd.active /\ fwd'.active[r] = fwd.active[r]
               /\ s \in DOMAIN fwd.active /\ fwd'.active[s] = fwd.active[s]
      BY <1>20, <2>5, <3>1
    <3>2. CASE /\ \E t \in up : fwd.jobs[t].source = r /\ fwd'.active[r].id = fwd.jobs[t].stream.id
               /\ \E t \in up : fwd.jobs[t].source = s /\ fwd'.active[s].id = fwd.jobs[t].stream.id
      BY <2>4, <3>2
    <3>3. ASSUME NEW a \in DOMAIN fwd.active, NEW t \in up
          PROVE  fwd.active[a].id # fwd.jobs[t].stream.id
      BY <2>3 DEF IdsOf
    <3> QED
      BY <2>2, <2>5, <3>1, <3>2, <3>3
  <2>6. ASSUME NEW t \in left, fwd.jobs[t].job = "Setup"
        PROVE  fwd.jobs[t].stream.id \notin IdsOf(fwd')
    <3>1. IdsOf(fwd') = IdsOf(fwd)
      BY <1>13, <2>6 DEF IdsOf
    <3> QED
      BY <1>20, <2>6, <3>1 DEF left
  <2> QED
    BY <2>1, <2>5, <2>6
<1>22. MediaFits(out', fwd')
  <2> SUFFICES ASSUME NEW n \in DOMAIN out'.media
               PROVE  LET s == out'.media[n].sid IN
                      /\ fwd.bound /\ ~ fwd.draining /\ fwd.epoch = out.epoch /\ out.phase = "Streaming"
                      /\ s \in IdsOf(fwd') /\ s \in DOMAIN out.streams /\ ~ TeardownPending(out', s)
    BY <1>2, <1>7 DEF MediaFits
  <2> DEFINE s == out.media[n].sid
  <2>1. n \in DOMAIN out.media /\ out'.media[n] = out.media[n]
    BY <1>7
  <2>2. /\ fwd.bound /\ ~ fwd.draining /\ fwd.epoch = out.epoch /\ out.phase = "Streaming"
        /\ s \in IdsOf(fwd) /\ s \in DOMAIN out.streams /\ ~ TeardownPending(out, s)
    BY <1>1, <2>1 DEF MediaFits
  <2>3. ~ TeardownPending(out', s)
    BY <1>7, <2>2 DEF TeardownPending
  <2>4. PICK a \in DOMAIN fwd.active : fwd.active[a].id = s
    BY <2>2 DEF IdsOf
  <2>5. a \notin SourceOf(down)
    BY <1>20, <2>2, <2>4 DEF ConnectedPhase
  <2>6. a \notin SourceOf(up)
    BY <1>15, <2>4 DEF SourceOf
  <2>7. a \in DOMAIN fwd'.active
    BY <1>11, <2>4, <2>5
  <2>8. fwd'.active[a] = fwd.active[a]
    BY <1>11, <1>15, <2>4, <2>7
  <2>9. s \in IdsOf(fwd')
    BY <2>4, <2>7, <2>8 DEF IdsOf
  <2> QED
    BY <2>1, <2>2, <2>3, <2>9
<1> QED
  BY <1>2, <1>6, <1>16, <1>17, <1>18, <1>19, <1>21, <1>22 DEF TablesInv, Tables

-----------------------------------------------------------------------------
\* What is moved

\* A packet is pushed to a stream that the coordinator holds and the output has.
LEMMA PushTables ==
  ASSUME NEW o, NEW f, NEW w, Tables(o, f, w), f.bound, ~ f.draining,
         NEW p, p.epoch = f.epoch, p.sid \in IdsOf(f), PacketValid(o, p, "out"), NEW slot
  PROVE  Tables(PushMedia(o, slot, p), f, w)
<1> DEFINE q == PushMedia(o, slot, p)
<1>1. /\ OutFits(o) /\ RequestsOwned(o, f, w) /\ JobsFit(o, f, w) /\ BoundFits(o, f)
      /\ SnapFits(o, f) /\ StreamsFit(o, f) /\ MediaFits(o, f) /\ IsImpl(o)
  BY DEF Tables, OutFits, RequestShape
<1>2. /\ IsImpl(q) /\ q.epoch = o.epoch /\ q.nextId = o.nextId /\ q.phase = o.phase
      /\ q.streams = o.streams /\ q.pending = o.pending /\ q.completions = o.completions
      /\ q.media = Put(o.media, slot, p)
  BY <1>1 DEF PushMedia, IsImpl, NewImpl
<1> HIDE DEF q
<1>3. \A n \in DOMAIN q.media : q.media[n] = p \/ (n \in DOMAIN o.media /\ q.media[n] = o.media[n])
  BY <1>2 DEF Put
<1>4. OutFits(q)
  BY <1>1, <1>2 DEF OutFits, RequestShape, RequestsFit, Held
<1>5. RequestsOwned(q, f, w) /\ JobsFit(q, f, w) /\ BoundFits(q, f)
  BY <1>1, <1>2 DEF RequestsOwned, JobsFit, BoundFits, Held
<1>6. SnapFits(q, f) /\ StreamsFit(q, f)
  BY <1>1, <1>2 DEF SnapFits, StreamsFit, OkJobs
<1>7. MediaFits(q, f)
  <2>1. o.epoch = f.epoch /\ o.phase = "Streaming" /\ p.sid \in DOMAIN o.streams
        /\ ~ TeardownPending(o, p.sid)
    BY DEF PacketValid
  <2>2. \A s : TeardownPending(q, s) => TeardownPending(o, s)
    BY <1>2 DEF TeardownPending
  <2> QED
    BY <1>1, <1>2, <1>3, <2>1, <2>2 DEF MediaFits
<1> QED
  BY <1>4, <1>5, <1>6, <1>7 DEF Tables, q

LEMMA ForwardMediaKeeps ==
  ASSUME TakenInv, TablesInv, ForwardMedia, fwd.pc = "move", owner' = owner
  PROVE  TablesInv'
<1>1. /\ DOMAIN fwd = DOMAIN NewForwarder /\ OutFits(out) /\ Alike(out, out)
      /\ fwd.bound /\ ~ fwd.draining /\ fwd.pc \notin Deciding
  BY SelfAlike DEF TakenInv, ForwarderShape, Places, TablesInv, Tables, Deciding
<1> DEFINE p == Next1
           pkt == OutPacket(p)
<1>2. CASE \E held : fwd' = [fwd EXCEPT !.media = held] /\ out' = out
  <2>1. PICK held : fwd' = [fwd EXCEPT !.media = held] /\ out' = out
    BY <1>2
  <2>2. SameTables(fwd, fwd')
    BY <1>1, <2>1 DEF SameTables, NewForwarder
  <2> QED
    BY <1>1, <2>1, <2>2, AlikeStep
<1>3. CASE /\ ~ Unwanted(p) /\ CanPushMedia(out, pkt)
           /\ out' = PushMedia(out, CHOOSE n \in Slot : n \notin DOMAIN out.media, pkt)
           /\ fwd' = [fwd EXCEPT !.media = NoPacket,
                                 !.active[p.sid].waiting = @ /\ ~ fwd.active[p.sid].config.video]
  <2>1. p.sid \in DOMAIN fwd.active
    BY <1>3 DEF Unwanted
  <2>2. pkt.epoch = fwd.epoch /\ pkt.sid \in IdsOf(fwd)
    BY <2>1 DEF OutPacket, IdsOf
  <2>3. PacketValid(out, pkt, "out")
    BY <1>3 DEF CanPushMedia
  <2>4. PICK slot : out' = PushMedia(out, slot, pkt)
    BY <1>3
  <2>5. PICK b : fwd' = [fwd EXCEPT !.media = NoPacket, !.active[p.sid].waiting = b]
    BY <1>3
  <2> HIDE DEF p, pkt
  <2>6. Tables(out', fwd, owner)
    BY <1>1, <2>2, <2>3, <2>4, PushTables DEF TablesInv
  <2>7. DOMAIN fwd.active[p.sid] = StreamField
    BY <2>1 DEF TablesInv, Tables, BoundFits
  <2>8. SameTables(fwd, fwd')
    BY <1>1, <2>1, <2>5, <2>7 DEF SameTables, NewForwarder, StreamField
  <2>9. Settles(out', out', {}) /\ {} \cap DOMAIN fwd.jobs = {}
    BY <2>6, SelfSettles DEF Tables
  <2>10. Tables(out', fwd', owner)
    BY <2>6, <2>8, <2>9, SettlesTables
  <2> QED
    BY <2>10 DEF TablesInv
<1> QED
  BY <1>2, <1>3 DEF ForwardMedia

\* A request of the phone becomes a job, unless it is refused.
LEMMA ForwardPhoneKeeps ==
  ASSUME TakenInv, TablesInv, ForwardPhone, fwd.pc = "move", owner' = owner
  PROVE  TablesInv'
<1>1. /\ DOMAIN fwd = DOMAIN NewForwarder /\ OutFits(out) /\ Alike(out, out)
      /\ fwd.bound /\ ~ fwd.draining /\ fwd.pc \notin Deciding /\ InputShape(input)
  BY SelfAlike DEF TakenInv, ForwarderShape, Places, TablesInv, Tables, Deciding
<1> DEFINE i == ExpirePending(out)
<1>2. Settles(out, i, {}) /\ {} \cap DOMAIN fwd.jobs = {}
  BY <1>1, ExpireSettles
<1>3. PICK id \in In!UntakenPhones(input) :
        \/ fwd' = fwd /\ out' \in {out, i}
        \/ /\ CanEnqueue(i, Plain(input.phones[id].kind))
           /\ out' = Enqueue(i, Plain(input.phones[id].kind))
           /\ fwd' = [fwd EXCEPT !.jobs = Put(@, i.nextId,
                        [JobOf("Phone", 0, NoStreamYet) EXCEPT !.epoch = i.epoch, !.phone = id])]
  BY DEF ForwardPhone
<1> HIDE DEF i
<1>4. CASE fwd' = fwd /\ out' \in {out, i}
  <2>1. SameTables(fwd, fwd')
    BY <1>4, SameSame
  <2>2. CASE out' = out
    BY <1>1, <2>1, <2>2, AlikeStep
  <2>3. CASE out' = i
    BY <1>2, <2>1, <2>3, QuietStep
  <2> QED
    BY <1>4, <2>2, <2>3
<1>5. CASE /\ CanEnqueue(i, Plain(input.phones[id].kind))
           /\ out' = Enqueue(i, Plain(input.phones[id].kind))
           /\ fwd' = [fwd EXCEPT !.jobs = Put(@, i.nextId,
                        [JobOf("Phone", 0, NoStreamYet) EXCEPT !.epoch = i.epoch, !.phone = id])]
  <2> DEFINE op == Plain(input.phones[id].kind)
             job == [JobOf("Phone", 0, NoStreamYet) EXCEPT !.epoch = i.epoch, !.phone = id]
  <2>1. op.kind \in {"Send", "Modes"}
    BY <1>1 DEF InputShape, In!UntakenPhones, Plain
  <2>2. job.job = "Phone" /\ job.epoch = i.epoch
    BY DEF JobOf
  <2> HIDE DEF op, job
  <2>3. Admissible(i, fwd, op, job)
    BY <1>1, <1>5, <2>1, <2>2 DEF Admissible, IsFor, Kind, Job, op
  <2>4. /\ fwd'.jobs = Put(fwd.jobs, i.nextId, job) /\ fwd'.pc = fwd.pc
        /\ fwd'.bound = fwd.bound /\ fwd'.draining = fwd.draining
        /\ fwd'.epoch = fwd.epoch /\ fwd'.active = fwd.active
    BY <1>1, <1>5 DEF NewForwarder, job
  <2>5. out' = Enqueue(i, op)
    BY <1>5 DEF op
  <2> QED
    BY <1>1, <1>2, <2>3, <2>4, <2>5, SubmitStep
<1> QED
  BY <1>3, <1>4, <1>5

LEMMA MoveStepKeeps ==
  ASSUME TakenInv, TablesInv, MoveStep
  PROVE  TablesInv'
<1>1. /\ DOMAIN fwd = DOMAIN NewForwarder /\ OutFits(out) /\ owner' = owner /\ fwd.pc = "move"
  BY DEF TakenInv, ForwarderShape, TablesInv, Tables, MoveStep
<1>2. CASE ForwardPhone
  BY <1>1, <1>2, ForwardPhoneKeeps
<1>3. CASE ForwardMedia
  BY <1>1, <1>3, ForwardMediaKeeps
<1>4. CASE ForwardMic
  <2>1. \E held : fwd' = [fwd EXCEPT !.mic = held]
    BY <1>4 DEF ForwardMic
  <2>2. SameTables(fwd, fwd')
    BY <1>1, <2>1 DEF SameTables, NewForwarder, Deciding
  <2>3. out' = out \/ \E slot : out' = PopMicrophone(out, slot)
    BY <1>4 DEF ForwardMic
  <2>4. Alike(out, out')
    BY <1>1, <2>3, SelfAlike, PacketsAreAlike
  <2> QED
    BY <1>1, <2>2, <2>4, AlikeStep
<1>5. CASE TickDone
  <2>1. out' = out /\ SameTables(fwd, fwd')
    BY <1>1, <1>5 DEF TickDone, Goto, SameTables, NewForwarder, Deciding
  <2> QED
    BY <1>1, <2>1, SelfAlike, AlikeStep
<1> QED
  BY <1>2, <1>3, <1>4, <1>5 DEF MoveStep

-----------------------------------------------------------------------------
\* Steps of the others

LEMMA UserKeeps ==
  ASSUME TakenInv, TablesInv, UserNext
  PROVE  TablesInv'
<1>1. DOMAIN fwd = DOMAIN NewForwarder /\ OutFits(out) /\ owner' = owner
  BY DEF TakenInv, ForwarderShape, TablesInv, Tables, UserNext, Select, Start, Stop
<1>2. ASSUME out' = out, fwd' = fwd \/ \E b : fwd' = [fwd EXCEPT !.enabled = b] PROVE TablesInv'
  <2>1. SameTables(fwd, fwd')
    BY <1>1, <1>2 DEF SameTables, NewForwarder
  <2> QED
    BY <1>1, <1>2, <2>1, SelfAlike, AlikeStep
<1>3. CASE Select
  BY <1>2, <1>3 DEF Select
<1>4. CASE Start
  BY <1>2, <1>4 DEF Start
<1>5. CASE Stop
  <2>1. CASE /\ fwd.bound \/ DOMAIN fwd.active # {}
             /\ DrainCalls /\ fwd' = [Drained(fwd) EXCEPT !.enabled = FALSE]
    <3>1. fwd.bound /\ fwd.pc = "idle"
      BY <1>5, <2>1 DEF Stop, TablesInv, Tables, BoundFits
    <3>2. /\ fwd'.bound = fwd.bound /\ fwd'.draining = TRUE /\ fwd'.jobs = NoEntry
          /\ fwd'.epoch = fwd.epoch /\ fwd'.active = fwd.active /\ fwd'.pc \notin Deciding
      BY <1>1, <2>1, <3>1 DEF Drained, NewForwarder, Deciding
    <3> QED
      BY <1>1, <2>1, <3>1, <3>2, DrainedTables
  <2>2. CASE fwd' = [fwd EXCEPT !.enabled = FALSE] /\ UNCHANGED <<out, input>>
    BY <1>2, <2>2
  <2> QED
    BY <1>5, <2>1, <2>2 DEF Stop
<1> QED
  BY <1>3, <1>4, <1>5 DEF UserNext

\* The phone reaches none of the tables.
LEMMA PhoneKeeps ==
  ASSUME TablesInv, PhoneNext \/ AtPhoneDue
  PROVE  TablesInv'
<1>1. out' = out /\ fwd' = fwd /\ owner' = owner
  BY DEF PhoneNext, PhoneBegin, PhoneEnd, DeclareStream, DropStream, SendMedia, AskOutput,
         TakeCommand, AnswerCommand, PopPhone, HearMic, AtPhoneDue, Input
<1> QED
  BY <1>1 DEF TablesInv

LEMMA BackendKeeps ==
  ASSUME TakenInv, TablesInv, BackendNext
  PROVE  TablesInv'
<1> DEFINE i == ExpirePending(out)
<1>1. OutFits(out) /\ {} \cap DOMAIN fwd.jobs = {} /\ out.nextId \in Nat /\ SameTables(fwd, fwd)
  BY SameSame DEF TablesInv, Tables, OutFits, RequestShape
<1>2. Settles(out, i, {})
  BY <1>1, ExpireSettles
<1>3. Tables(i, fwd, owner) /\ OutFits(i)
  BY <1>1, <1>2, SettlesTables, SettlesFits DEF TablesInv
<1> HIDE DEF i
<1>4. ASSUME NEW o, Output(o), Alike(out, o), owner' = owner PROVE TablesInv'
  BY <1>1, <1>4, AlikeStep DEF Output
<1>5. ASSUME NEW o, Output(o), Tables(o, fwd, owner), owner' = owner PROVE TablesInv'
  BY <1>5 DEF Output, TablesInv
<1>6. ASSUME NEW o, Alike(i, o) PROVE Tables(o, fwd, owner)
  <2>1. Settles(i, o, {})
    BY <1>3, <1>6, AlikeSettles
  <2> QED
    BY <1>1, <1>3, <2>1, SettlesTables
<1>7. CASE StartOutput
  <2>1. /\ CanEnqueue(i, Plain("Start")) /\ out' = Enqueue(i, Plain("Start"))
        /\ fwd' = fwd /\ owner' = owner \cup {i.nextId}
    BY <1>7 DEF StartOutput, Output, i
  <2>2. Tables(Enqueue(i, Plain("Start")), fwd, owner \cup {i.nextId})
    BY <1>3, <2>1, StartTables
  <2> QED
    BY <2>1, <2>2 DEF TablesInv
<1>8. CASE PopStart
  <2>1. PICK t \in owner : Output(PopCompletion(out, t))
    BY <1>8 DEF PopStart
  <2>2. Settles(out, PopCompletion(out, t), {t})
    BY <1>1, PopSettles DEF PopCompletion
  <2>3. {t} \cap DOMAIN fwd.jobs = {}
    BY DEF TablesInv, Tables, JobsFit
  <2>4. out' = PopCompletion(out, t) /\ fwd' = fwd /\ owner' = owner
    BY <1>8, <2>1 DEF PopStart, Output
  <2> QED
    BY <1>1, <2>2, <2>3, <2>4, QuietStep
<1>9. CASE Take
  <2>1. PICK o : Output(o) /\ (o = i \/ \E t \in Untaken(i) : o = TakeWork(i, t))
    BY <1>9 DEF Take, i
  <2>2. Tables(o, fwd, owner)
    BY <1>3, <1>6, <2>1, MarksAreAlike DEF Untaken
  <2> QED
    BY <1>5, <1>9, <2>1, <2>2 DEF Take
<1>10. ASSUME NEW ok \in BOOLEAN, NEW t,
              Output(IF t \in DOMAIN i.pending THEN Complete(i, t, ok) ELSE i), owner' = owner
       PROVE  TablesInv'
  <2>1. CASE t \in DOMAIN i.pending
    BY <1>3, <1>5, <1>10, <2>1, CompleteTables
  <2>2. CASE t \notin DOMAIN i.pending
    BY <1>3, <1>5, <1>10, <2>2
  <2> QED
    BY <2>1, <2>2
<1>11. CASE Succeed
  BY <1>10, <1>11 DEF Succeed, i
<1>12. CASE Fails
  BY <1>10, <1>12 DEF Fails, i
<1>13. CASE Lose
  <2>1. out' = Fail(out, "Disconnected") /\ fwd' = fwd /\ owner' = owner
    BY <1>13 DEF Lose, Disconnect, Output
  <2>2. Settles(out, out', {})
    BY <1>1, <2>1, FailSettles
  <2> QED
    BY <1>1, <2>1, <2>2, QuietStep
<1>14. CASE SendPacket
  <2>1. PICK o : Output(o) /\ (o = i \/ \E n : o = TakeMedia(i, n))
    BY <1>14 DEF SendPacket, i
  <2>2. Tables(o, fwd, owner)
    BY <1>3, <1>6, <2>1, PacketsAreAlike
  <2> QED
    BY <1>5, <1>14, <2>1, <2>2 DEF SendPacket
<1>15. CASE Command \/ Note \/ Reply
  <2>1. PICK o : Output(o) /\ (\/ o = ReceiveControl(out) \/ o = ReceiveNote(out)
                               \/ \E id : o = TakeReply(out, id))
    BY <1>15 DEF Command, Note, Reply
  <2>2. Alike(out, o)
    BY <1>1, <2>1, EventsAreAlike
  <2> QED
    BY <1>4, <1>15, <2>1, <2>2 DEF Command, Note, Reply
<1>16. CASE Speak
  <2>1. PICK n, p : Output(ReceiveMicrophone(out, n, p))
    BY <1>16 DEF Speak
  <2>2. Alike(out, ReceiveMicrophone(out, n, p))
    BY <1>1, PacketsAreAlike
  <2> QED
    BY <1>4, <1>16, <2>1, <2>2 DEF Speak
<1> QED
  BY <1>7, <1>8, <1>9, <1>11, <1>12, <1>13, <1>14, <1>15, <1>16 DEF BackendNext

LEMMA TimeKeeps ==
  ASSUME TakenInv, TablesInv, TimeNext
  PROVE  TablesInv'
<1>1. OutFits(out) /\ SameTables(fwd, fwd)
  BY SameSame DEF TablesInv, Tables
<1>2. CASE RequestDue
  <2>1. PICK t \in DOMAIN out.pending : Output(RequestOverdue(out, t))
    BY <1>2 DEF RequestDue
  <2>2. Alike(out, out') /\ fwd' = fwd /\ owner' = owner
    BY <1>1, <1>2, <2>1, MarksAreAlike DEF RequestDue, Output
  <2> QED
    BY <1>1, <2>2, AlikeStep
<1>3. CASE CommandDue
  <2>1. PICK id : Output(CommandOverdue(out, id))
    BY <1>3 DEF CommandDue
  <2>2. Alike(out, out') /\ fwd' = fwd /\ owner' = owner
    BY <1>1, <1>3, <2>1, EventsAreAlike DEF CommandDue, Output
  <2> QED
    BY <1>1, <2>2, AlikeStep
<1>4. CASE AtPhoneDue
  BY <1>4, PhoneKeeps
<1> QED
  BY <1>2, <1>3, <1>4 DEF TimeNext

-----------------------------------------------------------------------------

LEMMA InitTables == Init => TablesInv
<1> SUFFICES ASSUME Init PROVE TablesInv
  OBVIOUS
<1>1. DOMAIN NoEntry = {}
  BY DEF NoEntry
<1>2. out = NewImpl /\ fwd = NewForwarder /\ owner = {}
  BY DEF Init
<1>3. /\ IsImpl(out) /\ out.epoch = 0 /\ out.nextId = 1 /\ out.phase = "Idle"
      /\ DOMAIN out.pending = {} /\ DOMAIN out.completions = {}
      /\ DOMAIN out.streams = {} /\ DOMAIN out.media = {}
  BY <1>1, <1>2 DEF IsImpl, NewImpl
<1>4. /\ fwd.pc = "idle" /\ fwd.bound = FALSE /\ fwd.draining = FALSE /\ fwd.epoch = 0
      /\ DOMAIN fwd.active = {} /\ DOMAIN fwd.jobs = {}
  BY <1>1, <1>2 DEF NewForwarder
<1>5. OutFits(out)
  BY <1>3 DEF OutFits, RequestShape, RequestsFit, Held, Rest
<1>6. RequestsOwned(out, fwd, owner) /\ JobsFit(out, fwd, owner) /\ BoundFits(out, fwd)
  BY <1>2, <1>3, <1>4 DEF RequestsOwned, JobsFit, BoundFits
<1>7. SnapFits(out, fwd) /\ StreamsFit(out, fwd) /\ MediaFits(out, fwd)
  BY <1>3, <1>4 DEF SnapFits, StreamsFit, MediaFits, OkJobs, Deciding
<1> QED
  BY <1>5, <1>6, <1>7 DEF TablesInv, Tables

LEMMA NextTables == TakenInv /\ TablesInv /\ [Next]_vars => TablesInv'
<1> SUFFICES ASSUME TakenInv, TablesInv, [Next]_vars PROVE TablesInv'
  OBVIOUS
<1>1. CASE TickNext
  BY <1>1, ExpireBothKeeps, CollectKeeps, LookKeeps, DrainKeeps, ReleaseKeeps, SettleStepKeeps,
     EventStepKeeps, ConfigureStepKeeps, MoveStepKeeps DEF TickNext
<1>2. CASE UNCHANGED vars
  BY <1>2 DEF vars, TablesInv
<1> QED
  BY <1>1, <1>2, UserKeeps, PhoneKeeps, BackendKeeps, TimeKeeps DEF Next

\* In every state the whole invariant holds: it is the reason of what follows.
THEOREM TablesAlwaysFit == Spec => [](TakenInv /\ TablesInv)
<1>1. Init => TakenInv /\ TablesInv
  BY InitTakes, InitTables
<1>2. (TakenInv /\ TablesInv) /\ [Next]_vars => (TakenInv /\ TablesInv)'
  BY NextTakes, NextTables
<1> QED
  BY <1>1, <1>2, PTL DEF Spec

\* The coordinator and the output agree (CarPlayForwarder::Impl::collect, drain,
\* configure and phone_requests against WiredCarPlayOutput::submit, complete and
\* expire_pending): a ticket it waits for is known to the output and is not one
\* of the application's, at most one of its tickets changes the streams, and a
\* stream it takes for established is one the output has, unless the answer to
\* its teardown waits to be collected.  A snapshot that is stale when it is used,
\* a session lost or begun anew between two calls, a request that expires or is
\* cancelled while it is worked on: none of these makes them disagree.
THEOREM TablesAlwaysAgree == Spec => []TablesAgree
<1>1. TablesInv => TablesAgree
  BY TablesSuffice
<1> QED
  BY <1>1, TablesAlwaysFit, PTL

\* Media is only ever queued in the output (push_media from media()) for a stream
\* whose SETUP was acknowledged, which the coordinator holds and has not asked to
\* be taken down, in a session that records; and when it has let go of a session
\* nothing of it is left to play, for any limits of the queues.
THEOREM MediaAlwaysAcknowledged == Spec => []MediaAcknowledged
<1>1. TablesInv => MediaAcknowledged
  BY TablesSuffice
<1> QED
  BY <1>1, TablesAlwaysFit, PTL
=============================================================================
