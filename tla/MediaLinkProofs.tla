--------------------------- MODULE MediaLinkProofs --------------------------
(***************************************************************************)
(* Proofs about MediaLink, for any screens, any contents, any capacities   *)
(* of the queues and any number of sessions, streams and connections.      *)
(*                                                                         *)
(* The two ends never see the same state, so what holds between them is    *)
(* said of a book both could have been written from: the streams there     *)
(* ever were, each with its session, its screen and the configurations it  *)
(* was given.  World says that everything in the engine, on the wire and   *)
(* in the store agrees with the book.  Follows says that the records on    *)
(* the wire, read one after another, lead the client from what it shows    *)
(* now to what the engine believes it shows; Hears, that a screen which    *)
(* waits has asked.  Each call of either end is an operator from a record  *)
(* to a record, so that what it keeps is a lemma about records; a service  *)
(* is a few folds of such calls.                                           *)
(***************************************************************************)
EXTENDS MediaLink, FoldFacts

-----------------------------------------------------------------------------
\* Types

AnyContent == Content \cup {NoContent}
Entries(D, V) == UNION {[S -> V] : S \in SUBSET D}

Event ==
  [kind : {"begin"}, session : Nat] \cup [kind : {"end"}, session : Nat]
  \cup [kind : {"start"}, session : Nat, stream : Nat, role : Role]
  \cup [kind : {"config"}, session : Nat, stream : Nat, config : Nat, content : AnyContent]
  \cup [kind : {"stop"}, session : Nat, stream : Nat]
Frame ==
  [kind : {"frame"}, session : Nat, stream : Nat, sequence : Nat, config : Nat,
   content : AnyContent, key : BOOLEAN]
Record == {Hello} \cup Event \cup Frame
Request == [session : Nat, stream : Nat]
Tap == [session : Nat, role : Role, config : Nat, content : AnyContent, sequence : Nat]
Shown == [stream : Nat, config : Nat, content : AnyContent]

Roles == SUBSET Role
Events == Seq(Event)
Frames == Seq(Frame)
Records == Seq(Record)
Requests == Seq(Request)
Taps == Entries(Nat, Tap)
Screens == Entries(Role, Shown)
State == [session : Nat, video : Screens]

Engine ==
  [ session : Nat, nextSession : Nat, nextStream : Nat, taps : Taps,
    control : Events, video : Frames, fatal : BOOLEAN,
    throttled : Roles, asked : Roles, lost : Roles,
    serving : BOOLEAN, down : Records, up : Requests,
    early : Requests, ghost : BOOLEAN, state : State ]

Slot ==
  [ started : BOOLEAN, id : Nat, have : BOOLEAN, config : Nat, content : AnyContent,
    waiting : BOOLEAN, counted : BOOLEAN, last : Nat, requested : BOOLEAN, ring : Frames ]
Slots == [Role -> Slot]
Store == [session : Nat, hello : BOOLEAN, selected : BOOLEAN, video : Slots]

LEMMA EntriesAre ==
  ASSUME NEW D, NEW V, NEW f
  PROVE  f \in Entries(D, V) <=>
           /\ DOMAIN f \subseteq D /\ f = [x \in DOMAIN f |-> f[x]]
           /\ \A x \in DOMAIN f : f[x] \in V
  BY DEF Entries

LEMMA PutEntry ==
  ASSUME NEW D, NEW V, NEW f \in Entries(D, V), NEW x \in D, NEW v \in V
  PROVE  /\ Put(f, x, v) \in Entries(D, V) /\ DOMAIN Put(f, x, v) = DOMAIN f \cup {x}
         /\ Put(f, x, v)[x] = v /\ \A y \in DOMAIN f : y # x => Put(f, x, v)[y] = f[y]
  BY EntriesAre DEF Put

LEMMA RestrictEntries ==
  ASSUME NEW D, NEW V, NEW f \in Entries(D, V), NEW S, S \subseteq DOMAIN f
  PROVE  /\ Restrict(f, S) \in Entries(D, V) /\ DOMAIN Restrict(f, S) = S
         /\ \A x \in S : Restrict(f, S)[x] = f[x]
  BY EntriesAre DEF Restrict

LEMMA NoEntries == ASSUME NEW D, NEW V PROVE NoEntry \in Entries(D, V) /\ DOMAIN NoEntry = {}
<1>1. DOMAIN NoEntry = {} /\ NoEntry = [x \in {} |-> NoEntry[x]]
  BY DEF NoEntry
<1> QED
  BY <1>1, EntriesAre

LEMMA NoneOf ==
  /\ <<>> \in Events /\ <<>> \in Frames /\ <<>> \in Records /\ <<>> \in Requests
  /\ NoEntry \in Taps /\ NoEntry \in Screens /\ {} \in Roles
  BY NoEntries DEF Events, Frames, Records, Requests, Taps, Screens, Roles

-----------------------------------------------------------------------------
\* What the calls of the engine do to its record

LEMMA CloseIs ==
  ASSUME NEW e \in Engine
  PROVE  Close(e) \in Engine /\ Close(e) = [e EXCEPT !.serving = FALSE, !.up = <<>>]
<1> DEFINE no == <<>>
<1>1. no \in Requests
  BY NoneOf
<1>2. Close(e) = [e EXCEPT !.serving = FALSE, !.up = no]
  BY DEF Close
<1> HIDE DEF no
<1>3. [e EXCEPT !.serving = FALSE, !.up = no] \in Engine
  BY <1>1, Zenon DEF Engine
<1> QED
  BY <1>2, <1>3 DEF no

LEMMA SendIs ==
  ASSUME NEW e \in Engine, NEW rec \in Record
  PROVE  /\ Send(e, rec) \in Engine
         /\ \/ ~ e.serving /\ Send(e, rec) = e
            \/ e.serving /\ Send(e, rec) = [e EXCEPT !.down = Append(e.down, rec)]
            \/ e.serving /\ Send(e, rec) = [e EXCEPT !.serving = FALSE, !.up = <<>>]
<1> DEFINE more == Append(e.down, rec)
<1>1. more \in Records
  BY DEF Engine, Records
<1>2. CASE ~ e.serving
  BY <1>2 DEF Send
<1>3. CASE e.serving /\ Len(e.down) < OutCap
  <2>1. Send(e, rec) = [e EXCEPT !.down = more]
    BY <1>3 DEF Send
  <2> HIDE DEF more
  <2>2. [e EXCEPT !.down = more] \in Engine
    BY <1>1 DEF Engine
  <2> QED
    BY <1>3, <2>1, <2>2 DEF more
<1>4. CASE e.serving /\ ~ (Len(e.down) < OutCap)
  <2>1. Send(e, rec) = Close(e)
    BY <1>4 DEF Send
  <2> QED
    BY <1>4, <2>1, CloseIs
<1> QED
  BY <1>2, <1>3, <1>4

LEMMA PostIs ==
  ASSUME NEW e \in Engine, NEW event \in Event
  PROVE  /\ Post(e, event) \in Engine
         /\ \/ Post(e, event) = [e EXCEPT !.control = Append(e.control, event)]
            \/ Post(e, event) = [e EXCEPT !.fatal = TRUE]
<1> DEFINE more == Append(e.control, event)
<1>1. more \in Events
  BY DEF Engine, Events
<1>2. CASE Len(e.control) < ControlCap
  <2>1. Post(e, event) = [e EXCEPT !.control = more]
    BY <1>2 DEF Post
  <2> HIDE DEF more
  <2>2. [e EXCEPT !.control = more] \in Engine
    BY <1>1 DEF Engine
  <2> QED
    BY <2>1, <2>2 DEF more
<1>3. CASE ~ (Len(e.control) < ControlCap)
  BY <1>3 DEF Post, Engine
<1> QED
  BY <1>2, <1>3

\* e1 is e but for what the phone was asked.
Alike(e, e1) ==
  /\ e1.session = e.session /\ e1.nextSession = e.nextSession /\ e1.nextStream = e.nextStream
  /\ e1.taps = e.taps /\ e1.control = e.control /\ e1.video = e.video /\ e1.fatal = e.fatal
  /\ e1.serving = e.serving /\ e1.down = e.down /\ e1.up = e.up /\ e1.early = e.early
  /\ e1.ghost = e.ghost /\ e1.state = e.state

Asking(e, t, a, l) == [e EXCEPT !.throttled = t, !.asked = a, !.lost = l]

LEMMA AskingAlike ==
  ASSUME NEW e \in Engine, NEW t \in Roles, NEW a \in Roles, NEW l \in Roles
  PROVE  /\ Asking(e, t, a, l) \in Engine /\ Alike(e, Asking(e, t, a, l))
         /\ Asking(e, t, a, l).asked = a /\ Asking(e, t, a, l).lost = l
<1>1. Asking(e, t, a, l) \in Engine
  BY Zenon DEF Engine, Asking
<1>2. Alike(e, Asking(e, t, a, l)) /\ Asking(e, t, a, l).asked = a /\ Asking(e, t, a, l).lost = l
  BY SMT DEF Engine, Alike, Asking
<1> QED
  BY <1>1, <1>2

LEMMA RequestIs ==
  ASSUME NEW e \in Engine, NEW r \in Role
  PROVE  LET e1 == RequestKeyframe(e, r)
         IN  /\ e1 \in Engine /\ Alike(e, e1)
             /\ e.asked \subseteq e1.asked /\ e.lost \subseteq e1.asked \cup e1.lost
             /\ e.session # 0 => r \in e1.asked \cup e1.lost
<1> DEFINE e1 == RequestKeyframe(e, r)
<1>0. /\ e.throttled \in Roles /\ e.asked \in Roles /\ e.lost \in Roles
      /\ \A x \in Roles : x \cup {r} \in Roles /\ x \ {r} \in Roles
  BY DEF Engine, Roles
<1>1. CASE r \in e.throttled
  <2> DEFINE t == e.throttled
             a == e.asked
             l == e.lost \cup {r}
  <2>1. t \in Roles /\ a \in Roles /\ l \in Roles
    BY <1>0
  <2>2. e1 = Asking(e, t, a, l)
    BY <1>1, Zenon DEF RequestKeyframe, Engine, Asking
  <2> HIDE DEF e1, t, a, l
  <2>3. e1 \in Engine /\ Alike(e, e1) /\ e1.asked = a /\ e1.lost = l
    <3>1. /\ Asking(e, t, a, l) \in Engine /\ Alike(e, Asking(e, t, a, l))
          /\ Asking(e, t, a, l).asked = a /\ Asking(e, t, a, l).lost = l
      BY <2>1, AskingAlike
    <3> QED
      BY <2>2, <3>1
  <2> QED
    BY <2>3 DEF e1, a, l
<1>2. CASE r \notin e.throttled /\ e.session # 0
  <2> DEFINE t == e.throttled \cup {r}
             a == e.asked \cup {r}
             l == e.lost \ {r}
  <2>1. t \in Roles /\ a \in Roles /\ l \in Roles
    BY <1>0
  <2>2. e1 = Asking(e, t, a, l)
    BY <1>2, Zenon DEF RequestKeyframe, Engine, Asking
  <2> HIDE DEF e1, t, a, l
  <2>3. e1 \in Engine /\ Alike(e, e1) /\ e1.asked = a /\ e1.lost = l
    <3>1. /\ Asking(e, t, a, l) \in Engine /\ Alike(e, Asking(e, t, a, l))
          /\ Asking(e, t, a, l).asked = a /\ Asking(e, t, a, l).lost = l
      BY <2>1, AskingAlike
    <3> QED
      BY <2>2, <3>1
  <2> QED
    BY <2>3 DEF e1, a, l
<1>3. CASE r \notin e.throttled /\ e.session = 0
  <2>1. e1 = e
    BY <1>3 DEF RequestKeyframe
  <2> QED
    BY <1>3, <2>1 DEF Alike
<1> QED
  BY <1>1, <1>2, <1>3

-----------------------------------------------------------------------------
\* The folds: what is true of each step is true of the whole.

Starts(R, X, e, q) == e \in R /\ q \in Seq(X)

Controlling(e, q, c) ==
  c = [s \in SUBSET DOMAIN q |-> IF s = {} THEN e ELSE NextControl(c[s \ {Largest(s)}], q[Largest(s)])]

ControlWithin(R, X) == \A x \in R, i \in X : NextControl(x, i) \in R

ControlRun(R, e, q, g) ==
  /\ g \in [0..Len(q) -> R] /\ g[0] = e /\ g[Len(q)] = FoldLeft(NextControl, e, q)
  /\ \A n \in 1..Len(q) : g[n] = NextControl(g[n - 1], q[n])

LEMMA ControlFolds ==
  ASSUME NEW R, NEW X, NEW e, NEW q, Starts(R, X, e, q), ControlWithin(R, X) PROVE \E g : ControlRun(R, e, q, g)
<1> USE DEF Starts
<1> DEFINE F == [p \in X \X R |-> NextControl(p[2], p[1])]
           c == CHOOSE h : Controlling(e, q, h)
<1>1. F \in [X \X R -> R]
  BY DEF ControlWithin
<1>2. \A i \in X, x \in R : F[<<i, x>>] = NextControl(x, i)
  OBVIOUS
<1> HIDE DEF F
<1>3. DOMAIN q = 1..Len(q) /\ Len(q) \in Nat /\ \A k \in DOMAIN q : q[k] \in X
  OBVIOUS
<1>4. \E h : Controlling(e, q, h)
  <2>1. PICK h \in [SUBSET DOMAIN q -> R] : Folding(F, e, q, h)
    BY <1>1, FoldingExists
  <2>2. ASSUME NEW s \in SUBSET DOMAIN q, s # {}
        PROVE  h[s] = NextControl(h[s \ {Largest(s)}], q[Largest(s)])
    <3>1. Largest(s) \in DOMAIN q
      BY <1>3, <2>2, LargestIn
    <3>2. h[s \ {Largest(s)}] \in R
      BY <2>1
    <3>3. h[s] = F[<<q[Largest(s)], h[s \ {Largest(s)}]>>]
      BY <2>1, <2>2 DEF Folding
    <3> QED
      BY <1>2, <1>3, <3>1, <3>2, <3>3
  <2>3. h[{}] = e
    BY <2>1 DEF Folding
  <2>4. h = [s \in SUBSET DOMAIN q |-> h[s]]
    BY <2>1
  <2>5. Controlling(e, q, h)
    BY <2>2, <2>3, <2>4 DEF Controlling
  <2> QED
    BY <2>5
<1>5. Controlling(e, q, c)
  BY <1>4
<1>6. FoldLeft(NextControl, e, q) = c[DOMAIN q]
  BY DEF FoldLeft, MapThenFoldSet, Controlling, Largest, Max
<1> HIDE DEF c
<1>7. c[{}] = e
  BY <1>5 DEF Controlling
<1>8. ASSUME NEW s \in SUBSET DOMAIN q, s # {}, c[s \ {Largest(s)}] \in R
      PROVE  c[s] = F[<<q[Largest(s)], c[s \ {Largest(s)}]>>]
  <2>1. Largest(s) \in DOMAIN q
    BY <1>3, <1>8, LargestIn
  <2>2. c[s] = NextControl(c[s \ {Largest(s)}], q[Largest(s)])
    BY <1>5, <1>8 DEF Controlling
  <2> QED
    BY <1>2, <1>3, <1>8, <2>1, <2>2
<1>9. Computed(F, R, e, q, c)
  BY <1>7, <1>8 DEF Computed
<1>10. PICK g : Traced(F, R, e, q, g) /\ g[Len(q)] = c[DOMAIN q]
  <2>1. Foldable(X, F, R, e, q)
    BY <1>1 DEF Foldable
  <2> QED
    BY <1>9, <2>1, FoldingSteps
<1>11. g \in [0..Len(q) -> R] /\ g[0] = e
  BY <1>10 DEF Traced
<1>12. ASSUME NEW n \in 1..Len(q) PROVE g[n] = NextControl(g[n - 1], q[n])
  <2>1. n - 1 \in 0..Len(q) /\ q[n] \in X
    BY <1>3
  <2>2. g[n - 1] \in R
    BY <1>11, <2>1
  <2>3. g[n] = F[<<q[n], g[n - 1]>>]
    BY <1>10 DEF Traced
  <2> QED
    BY <1>2, <2>1, <2>2, <2>3
<1> QED
  BY <1>6, <1>10, <1>11, <1>12 DEF ControlRun

Filming(e, q, c) ==
  c = [s \in SUBSET DOMAIN q |-> IF s = {} THEN e ELSE NextVideo(c[s \ {Largest(s)}], q[Largest(s)])]

VideoWithin(R, X) == \A x \in R, i \in X : NextVideo(x, i) \in R

VideoRun(R, e, q, g) ==
  /\ g \in [0..Len(q) -> R] /\ g[0] = e /\ g[Len(q)] = FoldLeft(NextVideo, e, q)
  /\ \A n \in 1..Len(q) : g[n] = NextVideo(g[n - 1], q[n])

LEMMA VideoFolds ==
  ASSUME NEW R, NEW X, NEW e, NEW q, Starts(R, X, e, q), VideoWithin(R, X) PROVE \E g : VideoRun(R, e, q, g)
<1> USE DEF Starts
<1> DEFINE F == [p \in X \X R |-> NextVideo(p[2], p[1])]
           c == CHOOSE h : Filming(e, q, h)
<1>1. F \in [X \X R -> R]
  BY DEF VideoWithin
<1>2. \A i \in X, x \in R : F[<<i, x>>] = NextVideo(x, i)
  OBVIOUS
<1> HIDE DEF F
<1>3. DOMAIN q = 1..Len(q) /\ Len(q) \in Nat /\ \A k \in DOMAIN q : q[k] \in X
  OBVIOUS
<1>4. \E h : Filming(e, q, h)
  <2>1. PICK h \in [SUBSET DOMAIN q -> R] : Folding(F, e, q, h)
    BY <1>1, FoldingExists
  <2>2. ASSUME NEW s \in SUBSET DOMAIN q, s # {}
        PROVE  h[s] = NextVideo(h[s \ {Largest(s)}], q[Largest(s)])
    <3>1. Largest(s) \in DOMAIN q
      BY <1>3, <2>2, LargestIn
    <3>2. h[s \ {Largest(s)}] \in R
      BY <2>1
    <3>3. h[s] = F[<<q[Largest(s)], h[s \ {Largest(s)}]>>]
      BY <2>1, <2>2 DEF Folding
    <3> QED
      BY <1>2, <1>3, <3>1, <3>2, <3>3
  <2>3. h[{}] = e
    BY <2>1 DEF Folding
  <2>4. h = [s \in SUBSET DOMAIN q |-> h[s]]
    BY <2>1
  <2>5. Filming(e, q, h)
    BY <2>2, <2>3, <2>4 DEF Filming
  <2> QED
    BY <2>5
<1>5. Filming(e, q, c)
  BY <1>4
<1>6. FoldLeft(NextVideo, e, q) = c[DOMAIN q]
  BY DEF FoldLeft, MapThenFoldSet, Filming, Largest, Max
<1> HIDE DEF c
<1>7. c[{}] = e
  BY <1>5 DEF Filming
<1>8. ASSUME NEW s \in SUBSET DOMAIN q, s # {}, c[s \ {Largest(s)}] \in R
      PROVE  c[s] = F[<<q[Largest(s)], c[s \ {Largest(s)}]>>]
  <2>1. Largest(s) \in DOMAIN q
    BY <1>3, <1>8, LargestIn
  <2>2. c[s] = NextVideo(c[s \ {Largest(s)}], q[Largest(s)])
    BY <1>5, <1>8 DEF Filming
  <2> QED
    BY <1>2, <1>3, <1>8, <2>1, <2>2
<1>9. Computed(F, R, e, q, c)
  BY <1>7, <1>8 DEF Computed
<1>10. PICK g : Traced(F, R, e, q, g) /\ g[Len(q)] = c[DOMAIN q]
  <2>1. Foldable(X, F, R, e, q)
    BY <1>1 DEF Foldable
  <2> QED
    BY <1>9, <2>1, FoldingSteps
<1>11. g \in [0..Len(q) -> R] /\ g[0] = e
  BY <1>10 DEF Traced
<1>12. ASSUME NEW n \in 1..Len(q) PROVE g[n] = NextVideo(g[n - 1], q[n])
  <2>1. n - 1 \in 0..Len(q) /\ q[n] \in X
    BY <1>3
  <2>2. g[n - 1] \in R
    BY <1>11, <2>1
  <2>3. g[n] = F[<<q[n], g[n - 1]>>]
    BY <1>10 DEF Traced
  <2> QED
    BY <1>2, <2>1, <2>2, <2>3
<1> QED
  BY <1>6, <1>10, <1>11, <1>12 DEF VideoRun

Announcing(e, q, c) ==
  c = [s \in SUBSET DOMAIN q |-> IF s = {} THEN e ELSE Announce(c[s \ {Largest(s)}], q[Largest(s)])]

AnnounceWithin(R, X) == \A x \in R, r \in X : Announce(x, r) \in R

AnnounceRun(R, e, q, g) ==
  /\ g \in [0..Len(q) -> R] /\ g[0] = e /\ g[Len(q)] = FoldLeft(Announce, e, q)
  /\ \A n \in 1..Len(q) : g[n] = Announce(g[n - 1], q[n])

LEMMA AnnounceFolds ==
  ASSUME NEW R, NEW X, NEW e, NEW q, Starts(R, X, e, q), AnnounceWithin(R, X) PROVE \E g : AnnounceRun(R, e, q, g)
<1> USE DEF Starts
<1> DEFINE F == [p \in X \X R |-> Announce(p[2], p[1])]
           c == CHOOSE h : Announcing(e, q, h)
<1>1. F \in [X \X R -> R]
  BY DEF AnnounceWithin
<1>2. \A r \in X, x \in R : F[<<r, x>>] = Announce(x, r)
  OBVIOUS
<1> HIDE DEF F
<1>3. DOMAIN q = 1..Len(q) /\ Len(q) \in Nat /\ \A k \in DOMAIN q : q[k] \in X
  OBVIOUS
<1>4. \E h : Announcing(e, q, h)
  <2>1. PICK h \in [SUBSET DOMAIN q -> R] : Folding(F, e, q, h)
    BY <1>1, FoldingExists
  <2>2. ASSUME NEW s \in SUBSET DOMAIN q, s # {}
        PROVE  h[s] = Announce(h[s \ {Largest(s)}], q[Largest(s)])
    <3>1. Largest(s) \in DOMAIN q
      BY <1>3, <2>2, LargestIn
    <3>2. h[s \ {Largest(s)}] \in R
      BY <2>1
    <3>3. h[s] = F[<<q[Largest(s)], h[s \ {Largest(s)}]>>]
      BY <2>1, <2>2 DEF Folding
    <3> QED
      BY <1>2, <1>3, <3>1, <3>2, <3>3
  <2>3. h[{}] = e
    BY <2>1 DEF Folding
  <2>4. h = [s \in SUBSET DOMAIN q |-> h[s]]
    BY <2>1
  <2>5. Announcing(e, q, h)
    BY <2>2, <2>3, <2>4 DEF Announcing
  <2> QED
    BY <2>5
<1>5. Announcing(e, q, c)
  BY <1>4
<1>6. FoldLeft(Announce, e, q) = c[DOMAIN q]
  BY DEF FoldLeft, MapThenFoldSet, Announcing, Largest, Max
<1> HIDE DEF c
<1>7. c[{}] = e
  BY <1>5 DEF Announcing
<1>8. ASSUME NEW s \in SUBSET DOMAIN q, s # {}, c[s \ {Largest(s)}] \in R
      PROVE  c[s] = F[<<q[Largest(s)], c[s \ {Largest(s)}]>>]
  <2>1. Largest(s) \in DOMAIN q
    BY <1>3, <1>8, LargestIn
  <2>2. c[s] = Announce(c[s \ {Largest(s)}], q[Largest(s)])
    BY <1>5, <1>8 DEF Announcing
  <2> QED
    BY <1>2, <1>3, <1>8, <2>1, <2>2
<1>9. Computed(F, R, e, q, c)
  BY <1>7, <1>8 DEF Computed
<1>10. PICK g : Traced(F, R, e, q, g) /\ g[Len(q)] = c[DOMAIN q]
  <2>1. Foldable(X, F, R, e, q)
    BY <1>1 DEF Foldable
  <2> QED
    BY <1>9, <2>1, FoldingSteps
<1>11. g \in [0..Len(q) -> R] /\ g[0] = e
  BY <1>10 DEF Traced
<1>12. ASSUME NEW n \in 1..Len(q) PROVE g[n] = Announce(g[n - 1], q[n])
  <2>1. n - 1 \in 0..Len(q) /\ q[n] \in X
    BY <1>3
  <2>2. g[n - 1] \in R
    BY <1>11, <2>1
  <2>3. g[n] = F[<<q[n], g[n - 1]>>]
    BY <1>10 DEF Traced
  <2> QED
    BY <1>2, <2>1, <2>2, <2>3
<1> QED
  BY <1>6, <1>10, <1>11, <1>12 DEF AnnounceRun

Requesting(e, q, c) ==
  c = [s \in SUBSET DOMAIN q |-> IF s = {} THEN e ELSE RequestKeyframe(c[s \ {Largest(s)}], q[Largest(s)])]

RequestWithin(R, X) == \A x \in R, r \in X : RequestKeyframe(x, r) \in R

RequestRun(R, e, q, g) ==
  /\ g \in [0..Len(q) -> R] /\ g[0] = e /\ g[Len(q)] = FoldLeft(RequestKeyframe, e, q)
  /\ \A n \in 1..Len(q) : g[n] = RequestKeyframe(g[n - 1], q[n])

LEMMA RequestFolds ==
  ASSUME NEW R, NEW X, NEW e, NEW q, Starts(R, X, e, q), RequestWithin(R, X) PROVE \E g : RequestRun(R, e, q, g)
<1> USE DEF Starts
<1> DEFINE F == [p \in X \X R |-> RequestKeyframe(p[2], p[1])]
           c == CHOOSE h : Requesting(e, q, h)
<1>1. F \in [X \X R -> R]
  BY DEF RequestWithin
<1>2. \A r \in X, x \in R : F[<<r, x>>] = RequestKeyframe(x, r)
  OBVIOUS
<1> HIDE DEF F
<1>3. DOMAIN q = 1..Len(q) /\ Len(q) \in Nat /\ \A k \in DOMAIN q : q[k] \in X
  OBVIOUS
<1>4. \E h : Requesting(e, q, h)
  <2>1. PICK h \in [SUBSET DOMAIN q -> R] : Folding(F, e, q, h)
    BY <1>1, FoldingExists
  <2>2. ASSUME NEW s \in SUBSET DOMAIN q, s # {}
        PROVE  h[s] = RequestKeyframe(h[s \ {Largest(s)}], q[Largest(s)])
    <3>1. Largest(s) \in DOMAIN q
      BY <1>3, <2>2, LargestIn
    <3>2. h[s \ {Largest(s)}] \in R
      BY <2>1
    <3>3. h[s] = F[<<q[Largest(s)], h[s \ {Largest(s)}]>>]
      BY <2>1, <2>2 DEF Folding
    <3> QED
      BY <1>2, <1>3, <3>1, <3>2, <3>3
  <2>3. h[{}] = e
    BY <2>1 DEF Folding
  <2>4. h = [s \in SUBSET DOMAIN q |-> h[s]]
    BY <2>1
  <2>5. Requesting(e, q, h)
    BY <2>2, <2>3, <2>4 DEF Requesting
  <2> QED
    BY <2>5
<1>5. Requesting(e, q, c)
  BY <1>4
<1>6. FoldLeft(RequestKeyframe, e, q) = c[DOMAIN q]
  BY DEF FoldLeft, MapThenFoldSet, Requesting, Largest, Max
<1> HIDE DEF c
<1>7. c[{}] = e
  BY <1>5 DEF Requesting
<1>8. ASSUME NEW s \in SUBSET DOMAIN q, s # {}, c[s \ {Largest(s)}] \in R
      PROVE  c[s] = F[<<q[Largest(s)], c[s \ {Largest(s)}]>>]
  <2>1. Largest(s) \in DOMAIN q
    BY <1>3, <1>8, LargestIn
  <2>2. c[s] = RequestKeyframe(c[s \ {Largest(s)}], q[Largest(s)])
    BY <1>5, <1>8 DEF Requesting
  <2> QED
    BY <1>2, <1>3, <1>8, <2>1, <2>2
<1>9. Computed(F, R, e, q, c)
  BY <1>7, <1>8 DEF Computed
<1>10. PICK g : Traced(F, R, e, q, g) /\ g[Len(q)] = c[DOMAIN q]
  <2>1. Foldable(X, F, R, e, q)
    BY <1>1 DEF Foldable
  <2> QED
    BY <1>9, <2>1, FoldingSteps
<1>11. g \in [0..Len(q) -> R] /\ g[0] = e
  BY <1>10 DEF Traced
<1>12. ASSUME NEW n \in 1..Len(q) PROVE g[n] = RequestKeyframe(g[n - 1], q[n])
  <2>1. n - 1 \in 0..Len(q) /\ q[n] \in X
    BY <1>3
  <2>2. g[n - 1] \in R
    BY <1>11, <2>1
  <2>3. g[n] = F[<<q[n], g[n - 1]>>]
    BY <1>10 DEF Traced
  <2> QED
    BY <1>2, <2>1, <2>2, <2>3
<1> QED
  BY <1>6, <1>10, <1>11, <1>12 DEF RequestRun

LEMMA UpToIs == ASSUME NEW n \in Nat PROVE UpTo(n) \in Seq(1..n) /\ Len(UpTo(n)) = n
  BY DEF UpTo

\* What is in a set that every step keeps to
LEMMA ControlStays ==
  ASSUME NEW R, NEW e \in R, NEW n \in Nat, \A x \in R, i \in 1..n : NextControl(x, i) \in R
  PROVE  FoldLeft(NextControl, e, UpTo(n)) \in R
<1> DEFINE q == UpTo(n)
<1>1. q \in Seq(1..n) /\ Len(q) \in 0..Len(q)
  BY UpToIs
<1> HIDE DEF q
<1> DEFINE X == 1..n
<1>0. Starts(R, X, e, q) /\ ControlWithin(R, X)
  BY <1>1 DEF ControlWithin, Starts
<1> HIDE DEF X
<1>2. PICK g : ControlRun(R, e, q, g)
  BY <1>0, ControlFolds
<1>3. FoldLeft(NextControl, e, q) \in R
  BY <1>1, <1>2 DEF ControlRun
<1> QED
  BY <1>3 DEF q

LEMMA VideoStays ==
  ASSUME NEW R, NEW e \in R, NEW n \in Nat, \A x \in R, i \in 1..n : NextVideo(x, i) \in R
  PROVE  FoldLeft(NextVideo, e, UpTo(n)) \in R
<1> DEFINE q == UpTo(n)
<1>1. q \in Seq(1..n) /\ Len(q) \in 0..Len(q)
  BY UpToIs
<1> HIDE DEF q
<1> DEFINE X == 1..n
<1>0. Starts(R, X, e, q) /\ VideoWithin(R, X)
  BY <1>1 DEF VideoWithin, Starts
<1> HIDE DEF X
<1>2. PICK g : VideoRun(R, e, q, g)
  BY <1>0, VideoFolds
<1>3. FoldLeft(NextVideo, e, q) \in R
  BY <1>1, <1>2 DEF VideoRun
<1> QED
  BY <1>3 DEF q

LEMMA SetToSeqIs ==
  ASSUME NEW S, IsFiniteSet(S)
  PROVE  SetToSeq(S) \in Seq(S) /\ \A x \in S : \E i \in DOMAIN SetToSeq(S) : SetToSeq(S)[i] = x
<1> DEFINE n == Cardinality(S)
           q == SetToSeq(S)
<1>1. n \in Nat /\ ExistsBijection(1..n, S)
  BY FS_CardinalityType
<1>2. \E f \in [1..n -> S] : IsInjective(f)
  BY <1>1 DEF ExistsBijection, Bijection, Injection, IsInjective
<1>3. q \in [1..n -> S] /\ IsInjective(q)
  BY <1>2 DEF SetToSeq
<1> HIDE DEF q
<1>4. q \in Surjection(1..n, S)
  <2>1. q \in Injection(1..n, S)
    BY <1>3 DEF Injection
  <2>2. IsFiniteSet(1..n) /\ Cardinality(1..n) = n
    BY <1>1, FS_Interval
  <2> QED
    BY <2>1, <2>2, FS_Injection
<1>5. \A x \in S : \E i \in 1..n : q[i] = x
  BY <1>4 DEF Surjection
<1>6. q \in Seq(S) /\ DOMAIN q = 1..n
  BY <1>1, <1>3
<1> QED
  BY <1>5, <1>6 DEF q

-----------------------------------------------------------------------------
\* The book: of every stream there was, its session, its screen and the
\* configurations it was given, in their order.  It is not in the model: the
\* invariant says that there is one everything in the system agrees with.

Contents == Seq(Content)
Chapter == [session : Nat, role : Role, contents : Contents]
Book == Seq(Chapter)

Chosen(b, st, config, content) ==
  config \in DOMAIN b[st].contents /\ content = b[st].contents[config]

Extends(b, b1) ==
  \A st \in DOMAIN b :
    /\ st \in DOMAIN b1 /\ b1[st].session = b[st].session /\ b1[st].role = b[st].role
    /\ \A k \in DOMAIN b[st].contents :
         k \in DOMAIN b1[st].contents /\ b1[st].contents[k] = b[st].contents[k]

Opens(event) == event.kind \in {"begin", "start"}

\* The server will not be in session x any more.
Missed(e, x) ==
  /\ e.state.session # x
  /\ \A i \in DOMAIN e.control : e.control[i].kind = "begin" => e.control[i].session # x

\* x is the session of stream st, or stands for one that is over.
Told(b, e, x, st) == st \in DOMAIN b /\ (x = b[st].session \/ Missed(e, b[st].session))

\* Nothing that is still to be announced is of a session before x.
Lower(e, x) ==
  /\ x \in Nat /\ x < e.nextSession
  /\ \A i \in DOMAIN e.control : Opens(e.control[i]) => x <= e.control[i].session

EventOK(b, e, event) ==
  /\ event.kind = "begin" => event.session \in 1..(e.nextSession - 1)
  /\ event.kind = "start" =>
       event.stream \in DOMAIN b /\ event.session = b[event.stream].session /\ event.role = b[event.stream].role
  /\ event.kind = "config" =>
       /\ event.stream \in DOMAIN b /\ event.session = b[event.stream].session
       /\ Chosen(b, event.stream, event.config, event.content)

FrameOK(b, f) ==
  /\ f.stream \in DOMAIN b /\ f.session = b[f.stream].session
  /\ f.config # 0 => Chosen(b, f.stream, f.config, f.content)

RecOK(b, e, rec) ==
  /\ rec.kind = "begin" => Lower(e, rec.session) /\ rec.session # 0
  /\ rec.kind = "start" =>
       Told(b, e, rec.session, rec.stream) /\ rec.role = b[rec.stream].role /\ rec.session < e.nextSession
  /\ rec.kind = "config" =>
       Told(b, e, rec.session, rec.stream) /\ Chosen(b, rec.stream, rec.config, rec.content)
  /\ rec.kind = "frame" => FrameOK(b, rec) /\ rec.config # 0

BookOK(b, e) ==
  /\ DOMAIN b = 1..e.nextStream - 1
  /\ \A i \in DOMAIN b : b[i].session \in 1..e.nextSession - 1
  /\ \A i, j \in DOMAIN b : i < j => b[i].session <= b[j].session
  /\ e.session \in {0, e.nextSession - 1} /\ e.nextSession # 0 /\ e.nextStream # 0

TapsOK(b, e) ==
  /\ \A st \in DOMAIN e.taps :
       LET t == e.taps[st] IN
       /\ st \in DOMAIN b /\ t.session = b[st].session /\ t.role = b[st].role
       /\ t.config = Len(b[st].contents)
       /\ t.config # 0 => t.content = b[st].contents[t.config]
  /\ \A i, j \in DOMAIN e.taps : i # j /\ e.taps[i].role = e.taps[j].role => e.taps[i].session # e.taps[j].session

ControlOK(b, e) ==
  /\ \A i \in DOMAIN e.control :
       /\ EventOK(b, e, e.control[i])
       /\ Opens(e.control[i]) => e.control[i].session >= e.state.session
       /\ e.control[i].kind = "begin" => e.control[i].session > e.state.session
  /\ \A i, j \in DOMAIN e.control :
       i < j /\ Opens(e.control[i]) /\ Opens(e.control[j]) =>
         /\ e.control[i].session <= e.control[j].session
         /\ e.control[j].kind = "begin" => e.control[i].session < e.control[j].session

ShownOK(b, e, r, v) ==
  /\ Told(b, e, e.state.session, v.stream) /\ b[v.stream].role = r
  /\ b[v.stream].session >= e.state.session
  /\ v.config # 0 => Chosen(b, v.stream, v.config, v.content)

StateOK(b, e) ==
  /\ Lower(e, e.state.session)
  /\ \A r \in DOMAIN e.state.video : ShownOK(b, e, r, e.state.video[r])

FramesOK(b, q) == \A i \in DOMAIN q : FrameOK(b, q[i])
RecordsOK(b, e, q) == \A i \in DOMAIN q : RecOK(b, e, q[i])
RequestsOK(b, e, q) == \A i \in DOMAIN q : Told(b, e, q[i].session, q[i].stream)

EngineOK(b, e) ==
  /\ b \in Book /\ e \in Engine
  /\ BookOK(b, e) /\ TapsOK(b, e) /\ ControlOK(b, e) /\ StateOK(b, e)
  /\ FramesOK(b, e.video) /\ RecordsOK(b, e, e.down) /\ RequestsOK(b, e, e.up) /\ RequestsOK(b, e, e.early)

RingOK(v, selected) ==
  /\ v.ring # <<>> => v.counted /\ ~ v.waiting /\ selected /\ v.have /\ v.ring[Len(v.ring)].sequence = v.last
  /\ \A i \in DOMAIN v.ring :
       /\ v.ring[i].stream = v.id /\ v.ring[i].content = v.content
       /\ i > 1 => v.ring[i].sequence = v.ring[i - 1].sequence + 1

SlotOK(b, e, session, r, v) ==
  /\ v.started => Told(b, e, session, v.id) /\ b[v.id].role = r
  /\ v.have => v.started /\ Chosen(b, v.id, v.config, v.content)
  /\ v.requested => v.started

StoreOK(b, e, s) ==
  /\ s \in Store /\ Lower(e, s.session)
  /\ \A r \in Role : SlotOK(b, e, s.session, r, s.video[r]) /\ RingOK(s.video[r], s.selected)

-----------------------------------------------------------------------------
\* What is agreed stays so as the engine goes on.

Onward(e, e1) ==
  /\ e.nextSession <= e1.nextSession
  /\ \A i \in DOMAIN e1.control : Opens(e1.control[i]) =>
       \/ \E j \in DOMAIN e.control : e.control[j] = e1.control[i]
       \/ /\ e1.control[i].session >= e.nextSession - 1
          /\ e1.control[i].kind = "begin" => e1.control[i].session >= e.nextSession
  /\ \/ e1.state.session \in {0, e.state.session}
     \/ \E j \in DOMAIN e.control : e.control[j].kind = "begin" /\ e.control[j].session = e1.state.session

LEMMA EngineIs ==
  ASSUME NEW e \in Engine
  PROVE  /\ e.session \in Nat /\ e.nextSession \in Nat /\ e.nextStream \in Nat /\ e.state.session \in Nat
         /\ e.control \in Seq(Event) /\ \A i \in DOMAIN e.control : e.control[i] \in Event /\ e.control[i].session \in Nat
         /\ e.down \in Seq(Record) /\ e.video \in Seq(Frame) /\ e.up \in Seq(Request) /\ e.early \in Seq(Request)
         /\ e.state \in State /\ e.taps \in Taps /\ e.state.video \in Screens
<1>1. /\ e.session \in Nat /\ e.nextSession \in Nat /\ e.nextStream \in Nat /\ e.state \in State
      /\ e.control \in Events /\ e.taps \in Taps
      /\ e.down \in Records /\ e.video \in Frames /\ e.up \in Requests /\ e.early \in Requests
  BY DEF Engine
<1>2. e.state.session \in Nat /\ e.state.video \in Screens
  BY <1>1 DEF State
<1>3. /\ e.control \in Seq(Event) /\ e.down \in Seq(Record) /\ e.video \in Seq(Frame)
      /\ e.up \in Seq(Request) /\ e.early \in Seq(Request)
  BY <1>1 DEF Events, Records, Frames, Requests
<1>4. \A event \in Event : event.session \in Nat
  BY DEF Event
<1>5. \A i \in DOMAIN e.control : e.control[i] \in Event
  BY <1>3
<1> QED
  BY <1>1, <1>2, <1>3, <1>4, <1>5

LEMMA OnwardSelf == ASSUME NEW e \in Engine PROVE Onward(e, e)
  BY EngineIs DEF Onward

LEMMA LowerOnward ==
  ASSUME NEW e \in Engine, NEW e1 \in Engine, Onward(e, e1), NEW x, Lower(e, x) PROVE Lower(e1, x)
<1>1. /\ e.nextSession \in Nat /\ e1.nextSession \in Nat
      /\ \A i \in DOMAIN e1.control : e1.control[i].session \in Nat
  BY EngineIs
<1>2. ASSUME NEW i \in DOMAIN e1.control, Opens(e1.control[i]) PROVE x <= e1.control[i].session
  <2>1. CASE \E j \in DOMAIN e.control : e.control[j] = e1.control[i]
    BY <1>2, <2>1 DEF Lower
  <2>2. CASE e1.control[i].session >= e.nextSession - 1
    BY <1>1, <2>2 DEF Lower
  <2> QED
    BY <1>2, <2>1, <2>2 DEF Onward
<1> QED
  BY <1>1, <1>2 DEF Lower, Onward

LEMMA MissedOnward ==
  ASSUME NEW e \in Engine, NEW e1 \in Engine, Onward(e, e1), NEW x \in 1..e.nextSession - 1, Missed(e, x)
  PROVE  Missed(e1, x)
<1>1. /\ e.nextSession \in Nat /\ e1.nextSession \in Nat
      /\ \A i \in DOMAIN e1.control : e1.control[i].session \in Nat
  BY EngineIs
<1>2. e1.state.session # x
  BY <1>1 DEF Onward, Missed
<1>3. ASSUME NEW i \in DOMAIN e1.control, e1.control[i].kind = "begin" PROVE e1.control[i].session # x
  <2>1. CASE \E j \in DOMAIN e.control : e.control[j] = e1.control[i]
    BY <1>3, <2>1 DEF Missed
  <2>2. CASE e1.control[i].session >= e.nextSession
    BY <1>1, <2>2
  <2> QED
    BY <1>3, <2>1, <2>2 DEF Onward, Opens
<1> QED
  BY <1>2, <1>3 DEF Missed

LEMMA ToldOnward ==
  ASSUME NEW b, NEW b1, NEW e \in Engine, NEW e1 \in Engine, Extends(b, b1), Onward(e, e1),
         BookOK(b, e), NEW x, NEW st, Told(b, e, x, st)
  PROVE  Told(b1, e1, x, st) /\ b1[st].role = b[st].role
<1>1. st \in DOMAIN b /\ b[st].session \in 1..e.nextSession - 1
  BY DEF Told, BookOK
<1>2. st \in DOMAIN b1 /\ b1[st].session = b[st].session /\ b1[st].role = b[st].role
  BY <1>1 DEF Extends
<1>3. CASE Missed(e, b[st].session)
  <2>1. Missed(e1, b[st].session)
    BY <1>1, <1>3, MissedOnward
  <2> QED
    BY <1>2, <2>1 DEF Told
<1> QED
  BY <1>2, <1>3 DEF Told

LEMMA ChosenOnward ==
  ASSUME NEW b, NEW b1, Extends(b, b1), NEW st \in DOMAIN b, NEW k, NEW c, Chosen(b, st, k, c)
  PROVE  Chosen(b1, st, k, c)
  BY DEF Chosen, Extends

LEMMA FrameOnward ==
  ASSUME NEW b, NEW b1, Extends(b, b1), NEW f, FrameOK(b, f) PROVE FrameOK(b1, f)
  BY ChosenOnward DEF FrameOK, Extends

LEMMA RecOnward ==
  ASSUME NEW b, NEW b1, NEW e \in Engine, NEW e1 \in Engine, Extends(b, b1), Onward(e, e1),
         BookOK(b, e), NEW rec \in Record, RecOK(b, e, rec)
  PROVE  RecOK(b1, e1, rec)
<1>1. CASE rec.kind = "begin"
  BY <1>1, LowerOnward DEF RecOK
<1>2. CASE rec.kind = "start"
  <2>1. Told(b1, e1, rec.session, rec.stream) /\ b1[rec.stream].role = b[rec.stream].role
    BY <1>2, ToldOnward DEF RecOK
  <2>2. rec.session \in Nat
    BY <1>2 DEF Record, Event, Frame, Hello
  <2>3. rec.session < e1.nextSession
    BY <1>2, <2>2, EngineIs DEF RecOK, Onward
  <2> QED
    BY <1>2, <2>1, <2>3 DEF RecOK
<1>3. CASE rec.kind = "config"
  <2>1. Told(b1, e1, rec.session, rec.stream)
    BY <1>3, ToldOnward DEF RecOK
  <2>2. Chosen(b1, rec.stream, rec.config, rec.content)
    BY <1>3, ChosenOnward DEF RecOK, Told
  <2> QED
    BY <1>3, <2>1, <2>2 DEF RecOK
<1>4. CASE rec.kind = "frame"
  BY <1>4, FrameOnward DEF RecOK
<1> QED
  BY <1>1, <1>2, <1>3, <1>4 DEF RecOK

LEMMA QueuesOnward ==
  ASSUME NEW b, NEW b1, NEW e \in Engine, NEW e1 \in Engine, Extends(b, b1), Onward(e, e1), BookOK(b, e)
  PROVE  /\ \A q : FramesOK(b, q) => FramesOK(b1, q)
         /\ \A q \in Seq(Record) : RecordsOK(b, e, q) => RecordsOK(b1, e1, q)
         /\ \A q : RequestsOK(b, e, q) => RequestsOK(b1, e1, q)
<1>1. \A q : FramesOK(b, q) => FramesOK(b1, q)
  BY FrameOnward DEF FramesOK
<1>2. ASSUME NEW q \in Seq(Record), RecordsOK(b, e, q) PROVE RecordsOK(b1, e1, q)
  <2>1. \A i \in DOMAIN q : q[i] \in Record /\ RecOK(b, e, q[i])
    BY <1>2 DEF RecordsOK
  <2> QED
    BY <2>1, RecOnward DEF RecordsOK
<1>3. \A q : RequestsOK(b, e, q) => RequestsOK(b1, e1, q)
  BY ToldOnward DEF RequestsOK
<1> QED
  BY <1>1, <1>2, <1>3

LEMMA EventOnward ==
  ASSUME NEW b, NEW b1, NEW e \in Engine, NEW e1 \in Engine, Extends(b, b1), Onward(e, e1),
         NEW event \in Event, EventOK(b, e, event)
  PROVE  EventOK(b1, e1, event)
<1>1. event.session \in Nat /\ e.nextSession \in Nat /\ e1.nextSession \in Nat
  BY EngineIs DEF Event
<1>2. CASE event.kind = "begin"
  BY <1>1, <1>2 DEF EventOK, Onward
<1>3. CASE event.kind = "start"
  BY <1>3 DEF EventOK, Extends
<1>4. CASE event.kind = "config"
  <2>1. Chosen(b1, event.stream, event.config, event.content)
    BY <1>4, ChosenOnward DEF EventOK
  <2> QED
    BY <1>4, <2>1 DEF EventOK, Extends
<1> QED
  BY <1>2, <1>3, <1>4 DEF EventOK

LEMMA StoreOnward ==
  ASSUME NEW b, NEW b1, NEW e \in Engine, NEW e1 \in Engine, Extends(b, b1), Onward(e, e1),
         BookOK(b, e), NEW s, StoreOK(b, e, s)
  PROVE  StoreOK(b1, e1, s)
<1>1. Lower(e1, s.session)
  BY LowerOnward DEF StoreOK
<1>2. ASSUME NEW r \in Role PROVE SlotOK(b1, e1, s.session, r, s.video[r])
  <2> DEFINE v == s.video[r]
  <2>1. SlotOK(b, e, s.session, r, v)
    BY DEF StoreOK
  <2>2. v.started => Told(b1, e1, s.session, v.id) /\ b1[v.id].role = r
    BY <2>1, ToldOnward DEF SlotOK
  <2>3. v.have => v.started /\ Chosen(b1, v.id, v.config, v.content)
    BY <2>1, ChosenOnward DEF SlotOK, Told
  <2> QED
    BY <2>1, <2>2, <2>3 DEF SlotOK
<1> QED
  BY <1>1, <1>2 DEF StoreOK

-----------------------------------------------------------------------------
\* Steps that leave the tap, its queue and the snapshot alone

Still(e, e1) ==
  /\ e1.session = e.session /\ e1.nextSession = e.nextSession /\ e1.nextStream = e.nextStream
  /\ e1.taps = e.taps /\ e1.control = e.control /\ e1.state = e.state

LEMMA StillOnward ==
  ASSUME NEW e \in Engine, NEW e1 \in Engine, Still(e, e1) PROVE Onward(e, e1)
  BY EngineIs DEF Onward, Still

LEMMA ExtendsSelf == \A b : Extends(b, b)
  BY DEF Extends

LEMMA StillKeeps ==
  ASSUME NEW b, NEW e, NEW e1 \in Engine, EngineOK(b, e), Still(e, e1),
         FramesOK(b, e1.video), RecordsOK(b, e, e1.down), RequestsOK(b, e, e1.up), RequestsOK(b, e, e1.early)
  PROVE  EngineOK(b, e1) /\ Onward(e, e1)
<1>0. e \in Engine /\ b \in Book
  BY DEF EngineOK
<1>1. Onward(e, e1) /\ Extends(b, b)
  BY <1>0, StillOnward, ExtendsSelf
<1>2. BookOK(b, e1) /\ TapsOK(b, e1)
  BY DEF EngineOK, BookOK, TapsOK, Still
<1>3. ControlOK(b, e1)
  BY DEF EngineOK, ControlOK, EventOK, Still
<1>4. StateOK(b, e1)
  BY SMTT(30) DEF EngineOK, StateOK, ShownOK, Lower, Told, Missed, Still
<1>5. RecordsOK(b, e1, e1.down) /\ RequestsOK(b, e1, e1.up) /\ RequestsOK(b, e1, e1.early)
  <2>1. BookOK(b, e) /\ e1.down \in Seq(Record)
    BY EngineIs DEF EngineOK
  <2> QED
    BY <1>0, <1>1, <2>1, QueuesOnward
<1> QED
  BY <1>0, <1>1, <1>2, <1>3, <1>4, <1>5 DEF EngineOK

-----------------------------------------------------------------------------
\* The connection and the requests to the phone

\* Only the connection differs.
Apart(e, e1) ==
  /\ Still(e, e1) /\ e1.video = e.video /\ e1.fatal = e.fatal
  /\ e1.throttled = e.throttled /\ e1.asked = e.asked /\ e1.lost = e.lost
  /\ e1.early = e.early /\ e1.ghost = e.ghost

\* What e tells the client grew by rec, or it was cut off.
Sent(e, e1, rec) ==
  /\ Apart(e, e1)
  /\ \/ ~ e.serving /\ ~ e1.serving /\ e1.down = e.down /\ e1.up = e.up
     \/ e.serving /\ e1.serving /\ e1.down = Append(e.down, rec) /\ e1.up = e.up
     \/ e.serving /\ ~ e1.serving /\ e1.down = e.down /\ e1.up = <<>>

LEMMA CloseApart ==
  ASSUME NEW e \in Engine
  PROVE  /\ Close(e) \in Engine /\ Apart(e, Close(e)) /\ ~ Close(e).serving
         /\ Close(e).down = e.down /\ Close(e).up = <<>>
<1> DEFINE e1 == Close(e)
<1>1. e1 \in Engine /\ e1 = [e EXCEPT !.serving = FALSE, !.up = <<>>]
  BY CloseIs
<1> HIDE DEF e1
<1>2. Apart(e, e1) /\ ~ e1.serving /\ e1.down = e.down /\ e1.up = <<>>
  BY <1>1 DEF Engine, Apart, Still
<1> QED
  BY <1>1, <1>2 DEF e1

LEMMA SendSends ==
  ASSUME NEW e \in Engine, NEW rec \in Record
  PROVE  Send(e, rec) \in Engine /\ Sent(e, Send(e, rec), rec)
<1> DEFINE e1 == Send(e, rec)
<1>1. e1 \in Engine
  BY SendIs
<1>2. \/ ~ e.serving /\ e1 = e
      \/ e.serving /\ e1 = [e EXCEPT !.down = Append(e.down, rec)]
      \/ e.serving /\ e1 = [e EXCEPT !.serving = FALSE, !.up = <<>>]
  BY SendIs
<1> HIDE DEF e1
<1>3. ASSUME ~ e.serving /\ e1 = e PROVE Sent(e, e1, rec)
  BY <1>3 DEF Sent, Apart, Still
<1>4. ASSUME e.serving /\ e1 = [e EXCEPT !.down = Append(e.down, rec)] PROVE Sent(e, e1, rec)
  BY <1>4 DEF Engine, Sent, Apart, Still
<1>5. ASSUME e.serving /\ e1 = [e EXCEPT !.serving = FALSE, !.up = <<>>] PROVE Sent(e, e1, rec)
  BY <1>5 DEF Engine, Sent, Apart, Still
<1>6. Sent(e, e1, rec)
  BY <1>2, <1>3, <1>4, <1>5
<1> QED
  BY <1>1, <1>6 DEF e1

LEMMA NothingOK == ASSUME NEW b, NEW e PROVE RecordsOK(b, e, <<>>) /\ RequestsOK(b, e, <<>>) /\ FramesOK(b, <<>>)
  BY DEF RecordsOK, RequestsOK, FramesOK

LEMMA SendKeeps ==
  ASSUME NEW b, NEW e, EngineOK(b, e), NEW rec \in Record, RecOK(b, e, rec)
  PROVE  EngineOK(b, Send(e, rec)) /\ Onward(e, Send(e, rec)) /\ Sent(e, Send(e, rec), rec)
<1> DEFINE e1 == Send(e, rec)
<1>1. e \in Engine
  BY DEF EngineOK
<1>2. e1 \in Engine /\ Sent(e, e1, rec)
  BY <1>1, SendSends
<1> HIDE DEF e1
<1>3. RecordsOK(b, e, Append(e.down, rec))
  BY <1>1, EngineIs DEF EngineOK, RecordsOK
<1>4. RecordsOK(b, e, e1.down) /\ RequestsOK(b, e, e1.up) /\ RequestsOK(b, e, e1.early) /\ FramesOK(b, e1.video)
  BY <1>2, <1>3, NothingOK DEF Sent, Apart, EngineOK
<1>5. Still(e, e1)
  BY <1>2 DEF Sent, Apart
<1>6. EngineOK(b, e1) /\ Onward(e, e1)
  BY <1>2, <1>4, <1>5, StillKeeps
<1> QED
  BY <1>2, <1>6 DEF e1

LEMMA CloseKeeps ==
  ASSUME NEW b, NEW e, EngineOK(b, e)
  PROVE  EngineOK(b, Close(e)) /\ Onward(e, Close(e)) /\ Apart(e, Close(e)) /\ ~ Close(e).serving
<1> DEFINE e1 == Close(e)
<1>1. e \in Engine
  BY DEF EngineOK
<1>2. e1 \in Engine /\ Apart(e, e1) /\ ~ e1.serving /\ e1.down = e.down /\ e1.up = <<>>
  BY <1>1, CloseApart
<1> HIDE DEF e1
<1>3. RecordsOK(b, e, e1.down) /\ RequestsOK(b, e, e1.up) /\ RequestsOK(b, e, e1.early) /\ FramesOK(b, e1.video)
  BY <1>2, NothingOK DEF Apart, EngineOK
<1>4. EngineOK(b, e1) /\ Onward(e, e1)
  BY <1>2, <1>3, StillKeeps DEF Apart
<1> QED
  BY <1>2, <1>4 DEF e1

LEMMA AlikeKeeps ==
  ASSUME NEW b, NEW e, EngineOK(b, e), NEW e1 \in Engine, Alike(e, e1)
  PROVE  EngineOK(b, e1) /\ Onward(e, e1)
<1>1. RecordsOK(b, e, e1.down) /\ RequestsOK(b, e, e1.up) /\ RequestsOK(b, e, e1.early) /\ FramesOK(b, e1.video)
  BY DEF EngineOK, Alike
<1> QED
  BY <1>1, StillKeeps DEF Alike, Still

\* e1 is e when the phone was asked, or should have been.
Requested(e, e1, r) ==
  /\ Alike(e, e1)
  /\ e.asked \subseteq e1.asked /\ e.lost \subseteq e1.asked \cup e1.lost
  /\ e.session # 0 => r \in e1.asked \cup e1.lost

LEMMA RequestKeeps ==
  ASSUME NEW b, NEW e, EngineOK(b, e), NEW r \in Role
  PROVE  /\ EngineOK(b, RequestKeyframe(e, r)) /\ Onward(e, RequestKeyframe(e, r))
         /\ Requested(e, RequestKeyframe(e, r), r)
<1> DEFINE e1 == RequestKeyframe(e, r)
<1>1. e \in Engine
  BY DEF EngineOK
<1>2. /\ e1 \in Engine /\ Alike(e, e1)
      /\ e.asked \subseteq e1.asked /\ e.lost \subseteq e1.asked \cup e1.lost
      /\ e.session # 0 => r \in e1.asked \cup e1.lost
  BY <1>1, RequestIs
<1> HIDE DEF e1
<1>3. EngineOK(b, e1) /\ Onward(e, e1) /\ Requested(e, e1, r)
  BY <1>2, AlikeKeeps DEF Requested
<1> QED
  BY <1>3 DEF e1

\* Half a second later
LEMMA LaterKeeps ==
  ASSUME NEW b, NEW e, EngineOK(b, e), NEW e1 \in Later(e)
  PROVE  EngineOK(b, e1) /\ Onward(e, e1) /\ Alike(e, e1) /\ e1.asked = e.asked /\ e1.lost = e.lost
<1>1. e \in Engine
  BY DEF EngineOK
<1>2. PICK shut \in SUBSET e.throttled : e1 = [e EXCEPT !.throttled = shut]
  BY DEF Later
<1>3. shut \in Roles /\ e.asked \in Roles /\ e.lost \in Roles
  BY <1>1 DEF Engine, Roles
<1>4. e1 = Asking(e, shut, e.asked, e.lost)
  BY <1>1, <1>2, Zenon DEF Engine, Asking
<1>5. e1 \in Engine /\ Alike(e, e1) /\ e1.asked = e.asked /\ e1.lost = e.lost
  <2> DEFINE a == e.asked
             l == e.lost
  <2>1. a \in Roles /\ l \in Roles /\ e1 = Asking(e, shut, a, l)
    BY <1>3, <1>4
  <2> HIDE DEF a, l
  <2>2. /\ Asking(e, shut, a, l) \in Engine /\ Alike(e, Asking(e, shut, a, l))
        /\ Asking(e, shut, a, l).asked = a /\ Asking(e, shut, a, l).lost = l
    <3>1. shut \in Roles /\ a \in Roles /\ l \in Roles
      BY <1>3, <2>1
    <3> QED
      BY <1>1, <3>1, AskingAlike
  <2>3. e1 \in Engine /\ Alike(e, e1) /\ e1.asked = a /\ e1.lost = l
    BY <2>1, <2>2
  <2> QED
    BY <2>3 DEF a, l
<1> QED
  BY <1>5, AlikeKeeps

-----------------------------------------------------------------------------
\* The snapshot and the events that change it

LEMMA ShownIs ==
  ASSUME NEW video \in Screens
  PROVE  /\ DOMAIN video \subseteq Role /\ IsFiniteSet(DOMAIN video)
         /\ \A r \in DOMAIN video : /\ video[r] \in Shown /\ video[r].stream \in Nat
                                    /\ video[r].config \in Nat /\ video[r].content \in AnyContent
<1>1. DOMAIN video \subseteq Role /\ \A r \in DOMAIN video : video[r] \in Shown
  BY EntriesAre DEF Screens
<1>2. IsFiniteSet(DOMAIN video)
  BY <1>1, LinkAssumption, FS_Subset
<1>3. \A v \in Shown : v.stream \in Nat /\ v.config \in Nat /\ v.content \in AnyContent
  BY DEF Shown
<1> QED
  BY <1>1, <1>2, <1>3

LEMMA EventIs ==
  ASSUME NEW event \in Event
  PROVE  /\ event.kind \in {"begin", "end", "start", "config", "stop"} /\ event.session \in Nat
         /\ event.kind = "start" => event.stream \in Nat /\ event.role \in Role
         /\ event.kind = "config" => event.stream \in Nat /\ event.config \in Nat /\ event.content \in AnyContent
         /\ event.kind = "stop" => event.stream \in Nat
  BY DEF Event

\* n is the snapshot with the event in it.
NotedAs(state, event, n) ==
  /\ event.kind = "begin" => n.session = event.session /\ DOMAIN n.video = {}
  /\ event.kind = "end" => n.session = 0 /\ DOMAIN n.video = {}
  /\ event.kind \in {"start", "config", "stop"} => n.session = state.session
  /\ event.kind = "start" =>
       /\ DOMAIN n.video = DOMAIN state.video \cup {event.role}
       /\ n.video[event.role] = [stream |-> event.stream, config |-> 0, content |-> NoContent]
       /\ \A r \in DOMAIN state.video : r # event.role => n.video[r] = state.video[r]
  /\ event.kind = "config" =>
       /\ DOMAIN n.video = DOMAIN state.video
       /\ \A r \in DOMAIN state.video :
            n.video[r] = IF state.video[r].stream # event.stream THEN state.video[r]
                         ELSE [stream |-> event.stream, config |-> event.config, content |-> event.content]
  /\ event.kind = "stop" =>
       /\ DOMAIN n.video \subseteq DOMAIN state.video
       /\ \A r \in DOMAIN n.video : n.video[r] = state.video[r] /\ state.video[r].stream # event.stream

LEMMA NotedIs ==
  ASSUME NEW state \in State, NEW event \in Event
  PROVE  Noted(state, event) \in State /\ NotedAs(state, event, Noted(state, event))
<1> DEFINE n == Noted(state, event)
           video == state.video
<1>0. state.session \in Nat /\ video \in Screens
  BY DEF State
<1>1. ASSUME event.kind = "begin" PROVE n \in State /\ NotedAs(state, event, n)
  <2>1. n = [session |-> event.session, video |-> NoEntry]
    BY <1>1 DEF Noted
  <2> HIDE DEF n
  <2>2. n.session = event.session /\ n.video = NoEntry
    BY <2>1
  <2>3. n \in State /\ DOMAIN n.video = {}
    BY <2>1, <2>2, EventIs, NoEntries DEF State, Screens
  <2> QED
    BY <1>1, <2>2, <2>3 DEF NotedAs
<1>2. ASSUME event.kind = "end" PROVE n \in State /\ NotedAs(state, event, n)
  <2>1. n = [session |-> 0, video |-> NoEntry]
    BY <1>2 DEF Noted
  <2> HIDE DEF n
  <2>2. n.session = 0 /\ n.video = NoEntry
    BY <2>1
  <2>3. n \in State /\ DOMAIN n.video = {}
    BY <2>1, <2>2, EventIs, NoEntries DEF State, Screens
  <2> QED
    BY <1>2, <2>2, <2>3 DEF NotedAs
<1> DEFINE With(video1) == [state EXCEPT !.video = video1]
<1>3. ASSUME NEW video1 \in Screens
      PROVE  With(video1) \in State /\ With(video1).session = state.session /\ With(video1).video = video1
  BY <1>0, <1>3 DEF State
<1>4. ASSUME event.kind = "start" PROVE n \in State /\ NotedAs(state, event, n)
  <2> DEFINE v == [stream |-> event.stream, config |-> 0, content |-> NoContent]
             video1 == Put(video, event.role, v)
  <2>1. n = With(video1)
    BY <1>4 DEF Noted
  <2>2. event.role \in Role /\ v \in Shown /\ video \in Entries(Role, Shown)
    BY <1>0, <1>4, EventIs DEF Shown, AnyContent, Screens
  <2> HIDE DEF v, video
  <2>3. /\ video1 \in Screens /\ DOMAIN video1 = DOMAIN video \cup {event.role} /\ video1[event.role] = v
        /\ \A r \in DOMAIN video : r # event.role => video1[r] = video[r]
    BY <2>2, PutEntry DEF Screens
  <2> HIDE DEF n, With, video1
  <2>4. n \in State /\ n.session = state.session /\ n.video = video1
    BY <1>3, <2>1, <2>3
  <2>5. /\ n \in State /\ n.session = state.session /\ DOMAIN n.video = DOMAIN video \cup {event.role}
        /\ n.video[event.role] = v /\ \A r \in DOMAIN video : r # event.role => n.video[r] = video[r]
    BY <2>3, <2>4
  <2> QED
    BY <1>4, <2>5 DEF NotedAs, v, video
<1>5. ASSUME event.kind = "config" PROVE n \in State /\ NotedAs(state, event, n)
  <2> DEFINE v == [stream |-> event.stream, config |-> event.config, content |-> event.content]
             video1 == [r \in DOMAIN video |-> IF video[r].stream # event.stream THEN video[r] ELSE v]
  <2>1. n = With(video1)
    BY <1>5 DEF Noted
  <2>2. v \in Shown
    BY <1>5, EventIs DEF Shown
  <2> HIDE DEF v
  <2>3. video1 \in Screens
    <3>1. DOMAIN video \subseteq Role /\ \A r \in DOMAIN video : video[r] \in Shown
      BY <1>0, ShownIs
    <3> HIDE DEF video
    <3>2. \A r \in DOMAIN video : video1[r] \in Shown
      BY <2>2, <3>1
    <3>3. video1 \in [DOMAIN video -> Shown]
      BY <3>2
    <3> HIDE DEF video1
    <3> QED
      BY <3>1, <3>3, EntriesAre DEF Screens
  <2>4. DOMAIN video1 = DOMAIN video
        /\ \A r \in DOMAIN video : video1[r] = IF video[r].stream # event.stream THEN video[r] ELSE v
    OBVIOUS
  <2> HIDE DEF n, With, video1, video
  <2>5. n \in State /\ n.session = state.session /\ n.video = video1
    BY <1>3, <2>1, <2>3
  <2>6. /\ n \in State /\ n.session = state.session /\ DOMAIN n.video = DOMAIN video
        /\ \A r \in DOMAIN video : n.video[r] = IF video[r].stream # event.stream THEN video[r] ELSE v
    BY <2>4, <2>5
  <2> QED
    BY <1>5, <2>6 DEF NotedAs, v, video
<1>6. ASSUME event.kind = "stop" PROVE n \in State /\ NotedAs(state, event, n)
  <2> DEFINE S == {r \in DOMAIN video : video[r].stream # event.stream}
             video1 == Restrict(video, S)
  <2>1. n = With(video1)
    BY <1>6 DEF Noted
  <2>2. video1 \in Screens /\ DOMAIN video1 = S /\ \A r \in S : video1[r] = video[r]
    <3>1. S \subseteq DOMAIN video
      OBVIOUS
    <3> HIDE DEF S
    <3> QED
      BY <1>0, <3>1, RestrictEntries DEF Screens
  <2>3. S \subseteq DOMAIN video /\ \A r \in S : video[r].stream # event.stream
    OBVIOUS
  <2> HIDE DEF n, With, video1, video, S
  <2>4. n \in State /\ n.session = state.session /\ n.video = video1
    BY <1>3, <2>1, <2>2
  <2>5. /\ n \in State /\ n.session = state.session /\ DOMAIN n.video \subseteq DOMAIN video
        /\ \A r \in DOMAIN n.video : n.video[r] = video[r] /\ video[r].stream # event.stream
    BY <2>2, <2>3, <2>4
  <2> QED
    BY <1>6, <2>5 DEF NotedAs, video
<1> QED
  BY <1>1, <1>2, <1>4, <1>5, <1>6, EventIs

-----------------------------------------------------------------------------
\* One event of the queue

\* e1 is e with the first event taken, and the snapshot after it.
Turned(e, e1, state) ==
  /\ e1.control = Tail(e.control) /\ e1.state = state
  /\ e1.session = e.session /\ e1.nextSession = e.nextSession /\ e1.nextStream = e.nextStream
  /\ e1.taps = e.taps /\ e1.video = e.video /\ e1.fatal = e.fatal
  /\ e1.throttled = e.throttled /\ e1.asked = e.asked /\ e1.lost = e.lost
  /\ e1.serving = e.serving /\ e1.down = e.down /\ e1.up = e.up
  /\ e1.early = e.early /\ e1.ghost = e.ghost

Turn(e, state) == [e EXCEPT !.control = Tail(e.control), !.state = state]

LEMMA TurnTurns ==
  ASSUME NEW e \in Engine, e.control # <<>>, NEW state \in State
  PROVE  Turn(e, state) \in Engine /\ Turned(e, Turn(e, state), state)
<1> DEFINE rest == Tail(e.control)
<1>1. rest \in Events
  BY DEF Engine, Events
<1> HIDE DEF rest
<1>2. [e EXCEPT !.control = rest, !.state = state] \in Engine
  BY <1>1, Zenon DEF Engine
<1>3. Turn(e, state) \in Engine
  BY <1>2, Zenon DEF Turn, rest
<1>4. Turned(e, Turn(e, state), state)
  BY DEF Engine, Turn, Turned
<1> QED
  BY <1>3, <1>4

LEMMA HeadOf ==
  ASSUME NEW e \in Engine, e.control # <<>>
  PROVE  /\ Head(e.control) \in Event /\ Head(e.control) = e.control[1] /\ 1 \in DOMAIN e.control
         /\ DOMAIN Tail(e.control) = 1..Len(e.control) - 1 /\ Len(e.control) \in Nat
         /\ \A i \in DOMAIN Tail(e.control) : /\ i + 1 \in DOMAIN e.control /\ 1 < i + 1
                                             /\ Tail(e.control)[i] = e.control[i + 1]
  BY EngineIs

LEMMA TurnOnward ==
  ASSUME NEW e \in Engine, e.control # <<>>, NEW state \in State,
         NEW e1 \in Engine, Turned(e, e1, state),
         state = e.state \/ state = Noted(e.state, Head(e.control))
  PROVE  Onward(e, e1)
<1> DEFINE event == Head(e.control)
<1>1. event \in Event /\ event = e.control[1] /\ 1 \in DOMAIN e.control
  BY HeadOf
<1>2. e.state \in State
  BY EngineIs
<1>3. state.session \in {0, e.state.session} \/ (event.kind = "begin" /\ event.session = state.session)
  <2>1. state = e.state \/ NotedAs(e.state, event, state)
    BY <1>1, <1>2, NotedIs
  <2> QED
    BY <1>1, <2>1, EventIs DEF NotedAs
<1>4. \A i \in DOMAIN e1.control : \E j \in DOMAIN e.control : e.control[j] = e1.control[i]
  BY HeadOf DEF Turned
<1>5. e.nextSession <= e1.nextSession
  BY EngineIs DEF Turned
<1> HIDE DEF event
<1> QED
  BY <1>1, <1>3, <1>4, <1>5 DEF Onward, Turned

LEMMA TurnControl ==
  ASSUME NEW b, NEW e, EngineOK(b, e), e.control # <<>>, NEW state \in State,
         NEW e1 \in Engine, Turned(e, e1, state),
         state = e.state \/ state = Noted(e.state, Head(e.control))
  PROVE  ControlOK(b, e1)
<1> DEFINE event == Head(e.control)
<1>0. e \in Engine /\ ControlOK(b, e) /\ e.state \in State
  BY EngineIs DEF EngineOK
<1>1. event \in Event /\ event = e.control[1] /\ 1 \in DOMAIN e.control
  BY <1>0, HeadOf
<1>2. /\ DOMAIN e1.control = 1..Len(e.control) - 1 /\ Len(e.control) \in Nat
      /\ \A i \in DOMAIN e1.control : i + 1 \in DOMAIN e.control /\ 1 < i + 1 /\ e1.control[i] = e.control[i + 1]
  BY <1>0, HeadOf DEF Turned
<1>3. \A i \in DOMAIN e.control : e.control[i] \in Event /\ e.control[i].session \in Nat
  BY <1>0, EngineIs
<1> HIDE DEF event
<1>4. \/ state.session = e.state.session
      \/ state.session = 0
      \/ event.kind = "begin" /\ state.session = event.session
  <2>1. state = e.state \/ NotedAs(e.state, event, state)
    BY <1>0, <1>1, NotedIs DEF event
  <2> QED
    BY <1>1, <2>1, EventIs DEF NotedAs
<1>5. ASSUME NEW i \in DOMAIN e1.control
      PROVE  /\ EventOK(b, e1, e1.control[i])
             /\ Opens(e1.control[i]) => e1.control[i].session >= state.session
             /\ e1.control[i].kind = "begin" => e1.control[i].session > state.session
  <2> DEFINE x == e.control[i + 1]
  <2>1. /\ e1.control[i] = x /\ x \in Event /\ x.session \in Nat /\ EventOK(b, e, x)
        /\ Opens(x) => x.session >= e.state.session
        /\ x.kind = "begin" => x.session > e.state.session
    BY <1>0, <1>2, <1>3 DEF ControlOK
  <2>2. Opens(event) /\ Opens(x) => event.session <= x.session /\ (x.kind = "begin" => event.session < x.session)
    BY <1>0, <1>1, <1>2 DEF ControlOK
  <2> HIDE DEF x
  <2>3. EventOK(b, e1, x)
    BY <2>1 DEF EventOK, Turned
  <2>4. x.kind = "begin" => x.session # 0
    BY <1>0, <2>1, EngineIs DEF EventOK
  <2>5. event.session \in Nat
    BY <1>1, EventIs
  <2>6. CASE state.session = e.state.session
    BY <2>1, <2>3, <2>6
  <2>7. CASE state.session = 0
    BY <2>1, <2>3, <2>4, <2>7
  <2>8. CASE event.kind = "begin" /\ state.session = event.session
    BY <2>1, <2>2, <2>3, <2>5, <2>8 DEF Opens
  <2> QED
    BY <1>4, <2>6, <2>7, <2>8
<1>6. ASSUME NEW i \in DOMAIN e1.control, NEW j \in DOMAIN e1.control,
             i < j, Opens(e1.control[i]), Opens(e1.control[j])
      PROVE  /\ e1.control[i].session <= e1.control[j].session
             /\ e1.control[j].kind = "begin" => e1.control[i].session < e1.control[j].session
  <2>1. i + 1 \in DOMAIN e.control /\ j + 1 \in DOMAIN e.control /\ i + 1 < j + 1
    BY <1>2, <1>6
  <2> QED
    BY <1>0, <1>2, <1>6, <2>1 DEF ControlOK
<1> QED
  BY <1>5, <1>6 DEF ControlOK, Turned

LEMMA TurnState ==
  ASSUME NEW b, NEW e, EngineOK(b, e), e.control # <<>>, NEW state \in State,
         NEW e1 \in Engine, Turned(e, e1, state),
         state = e.state \/ state = Noted(e.state, Head(e.control))
  PROVE  StateOK(b, e1)
<1> DEFINE event == Head(e.control)
<1>0. e \in Engine /\ ControlOK(b, e) /\ e.state \in State /\ BookOK(b, e) /\ StateOK(b, e)
  BY EngineIs DEF EngineOK
<1>1. event \in Event /\ event = e.control[1] /\ 1 \in DOMAIN e.control
  BY <1>0, HeadOf
<1>2. \A i \in DOMAIN e1.control : i + 1 \in DOMAIN e.control /\ 1 < i + 1 /\ e1.control[i] = e.control[i + 1]
  BY <1>0, HeadOf DEF Turned
<1>3. /\ \A i \in DOMAIN e.control : e.control[i] \in Event /\ e.control[i].session \in Nat
      /\ e.nextSession \in Nat /\ e.nextSession # 0 /\ e.state.session \in Nat /\ event.session \in Nat
  BY <1>0, <1>1, EngineIs, EventIs DEF BookOK
<1>4. Onward(e, e1) /\ Extends(b, b)
  BY <1>0, TurnOnward, ExtendsSelf
<1>5. /\ EventOK(b, e, event)
      /\ \A i \in DOMAIN e1.control : Opens(event) /\ Opens(e1.control[i]) =>
           /\ event.session <= e1.control[i].session
           /\ e1.control[i].kind = "begin" => event.session < e1.control[i].session
  BY <1>0, <1>1, <1>2 DEF ControlOK
<1>6. e1.state = state /\ e1.nextSession = e.nextSession
  BY DEF Turned
<1> HIDE DEF event
\* What was shown before is still told, when the session is the same.
<1>7. ASSUME NEW r, NEW v, ShownOK(b, e, r, v), state.session = e.state.session PROVE ShownOK(b, e1, r, v)
  <2>1. Told(b, e1, e.state.session, v.stream) /\ b[v.stream].role = r
    BY <1>0, <1>4, <1>7, ToldOnward DEF ShownOK
  <2> QED
    BY <1>6, <1>7, <2>1 DEF ShownOK
<1>8. Lower(e1, e.state.session)
  BY <1>0, <1>4, LowerOnward DEF StateOK
<1>9. CASE state = e.state
  <2>1. \A r \in DOMAIN state.video : ShownOK(b, e1, r, state.video[r])
    BY <1>0, <1>7, <1>9 DEF StateOK
  <2> QED
    BY <1>6, <1>8, <1>9, <2>1 DEF StateOK
<1>10. CASE state = Noted(e.state, event)
  <2>0. NotedAs(e.state, event, state)
    BY <1>0, <1>1, <1>10, NotedIs
  <2>1. CASE event.kind = "begin"
    <3>1. state.session = event.session /\ DOMAIN state.video = {}
      BY <2>0, <2>1 DEF NotedAs
    <3>2. Lower(e1, event.session)
      BY <1>3, <1>5, <1>6, <2>1 DEF Lower, EventOK, Opens
    <3> QED
      BY <1>6, <3>1, <3>2 DEF StateOK
  <2>2. CASE event.kind = "end"
    <3>1. state.session = 0 /\ DOMAIN state.video = {}
      BY <2>0, <2>2 DEF NotedAs
    <3>2. Lower(e1, 0)
      BY <1>2, <1>3, <1>6 DEF Lower
    <3> QED
      BY <1>6, <3>1, <3>2 DEF StateOK
  <2>3. CASE event.kind = "start"
    <3> DEFINE v == [stream |-> event.stream, config |-> 0, content |-> NoContent]
    <3>1. /\ state.session = e.state.session /\ DOMAIN state.video = DOMAIN e.state.video \cup {event.role}
          /\ state.video[event.role] = v
          /\ \A r \in DOMAIN e.state.video : r # event.role => state.video[r] = e.state.video[r]
      BY <2>0, <2>3 DEF NotedAs
    <3>2. /\ event.stream \in DOMAIN b /\ event.session = b[event.stream].session
          /\ event.role = b[event.stream].role /\ event.session >= e.state.session
      BY <1>0, <1>1, <1>5, <2>3 DEF EventOK, ControlOK, Opens
    <3>3. CASE event.session = state.session
      <4>1. ShownOK(b, e1, event.role, v)
        BY <1>3, <1>6, <3>1, <3>2, <3>3 DEF ShownOK, Told
      <4> QED
        BY <1>0, <1>6, <1>7, <1>8, <3>1, <4>1 DEF StateOK
    <3>4. CASE event.session # state.session
      <4>1. Missed(e1, event.session)
        <5>1. ASSUME NEW i \in DOMAIN e1.control, e1.control[i].kind = "begin"
              PROVE  e1.control[i].session # event.session
          BY <1>2, <1>3, <1>5, <2>3, <5>1 DEF Opens
        <5> QED
          BY <1>6, <3>4, <5>1 DEF Missed
      <4>2. ShownOK(b, e1, event.role, v)
        BY <1>3, <1>6, <3>1, <3>2, <4>1 DEF ShownOK, Told
      <4> QED
        BY <1>0, <1>6, <1>7, <1>8, <3>1, <4>2 DEF StateOK
    <3> QED
      BY <3>3, <3>4
  <2>4. CASE event.kind = "config"
    <3>1. /\ state.session = e.state.session /\ DOMAIN state.video = DOMAIN e.state.video
          /\ \A r \in DOMAIN e.state.video :
               state.video[r] = IF e.state.video[r].stream # event.stream THEN e.state.video[r]
                                ELSE [stream |-> event.stream, config |-> event.config, content |-> event.content]
      BY <2>0, <2>4 DEF NotedAs
    <3>2. Chosen(b, event.stream, event.config, event.content)
      BY <1>5, <2>4 DEF EventOK
    <3>3. ASSUME NEW r \in DOMAIN state.video PROVE ShownOK(b, e1, r, state.video[r])
      <4>1. ShownOK(b, e1, r, e.state.video[r])
        BY <1>0, <1>7, <3>1 DEF StateOK
      <4>2. CASE e.state.video[r].stream # event.stream
        BY <3>1, <4>1, <4>2
      <4>3. CASE e.state.video[r].stream = event.stream
        <5> DEFINE v == state.video[r]
        <5>1. v.stream = event.stream /\ v.config = event.config /\ v.content = event.content
          BY <3>1, <4>3
        <5> HIDE DEF v
        <5>2. ShownOK(b, e1, r, v)
          BY <3>2, <4>1, <4>3, <5>1 DEF ShownOK
        <5> QED
          BY <5>2 DEF v
      <4> QED
        BY <4>2, <4>3
    <3> QED
      BY <1>6, <1>8, <3>1, <3>3 DEF StateOK
  <2>5. CASE event.kind = "stop"
    <3>1. /\ state.session = e.state.session /\ DOMAIN state.video \subseteq DOMAIN e.state.video
          /\ \A r \in DOMAIN state.video : state.video[r] = e.state.video[r]
      BY <2>0, <2>5 DEF NotedAs
    <3>2. \A r \in DOMAIN state.video : ShownOK(b, e1, r, state.video[r])
      BY <1>0, <1>7, <3>1 DEF StateOK
    <3> QED
      BY <1>6, <1>8, <3>1, <3>2 DEF StateOK
  <2> QED
    BY <1>1, <2>1, <2>2, <2>3, <2>4, <2>5, EventIs
<1> QED
  BY <1>9, <1>10 DEF event

LEMMA TurnKeeps ==
  ASSUME NEW b, NEW e, EngineOK(b, e), e.control # <<>>, NEW state \in State,
         NEW e1 \in Engine, Turned(e, e1, state),
         state = e.state \/ state = Noted(e.state, Head(e.control))
  PROVE  EngineOK(b, e1) /\ Onward(e, e1)
<1>0. e \in Engine /\ b \in Book /\ BookOK(b, e)
  BY DEF EngineOK
<1>1. Onward(e, e1) /\ Extends(b, b)
  BY <1>0, TurnOnward, ExtendsSelf
<1>2. ControlOK(b, e1) /\ StateOK(b, e1)
  BY TurnControl, TurnState
<1>3. BookOK(b, e1) /\ TapsOK(b, e1) /\ FramesOK(b, e1.video)
  BY DEF EngineOK, BookOK, TapsOK, Turned
<1>4. RecordsOK(b, e1, e1.down) /\ RequestsOK(b, e1, e1.up) /\ RequestsOK(b, e1, e1.early)
  <2>1. RecordsOK(b, e, e1.down) /\ RequestsOK(b, e, e1.up) /\ RequestsOK(b, e, e1.early)
    BY DEF EngineOK, Turned
  <2>2. e1.down \in Seq(Record)
    BY EngineIs
  <2> QED
    BY <1>0, <1>1, <2>1, <2>2, QueuesOnward
<1> QED
  BY <1>0, <1>1, <1>2, <1>3, <1>4 DEF EngineOK

\* An event that was noted may be told to the client.
LEMMA NotedRecOK ==
  ASSUME NEW b, NEW e, EngineOK(b, e), e.control # <<>>,
         NEW e1 \in Engine, Turned(e, e1, Noted(e.state, Head(e.control))), EngineOK(b, e1)
  PROVE  Head(e.control) \in Record /\ RecOK(b, e1, Head(e.control))
<1> DEFINE event == Head(e.control)
<1>0. e \in Engine /\ e.state \in State /\ ControlOK(b, e) /\ BookOK(b, e) /\ StateOK(b, e1)
  BY EngineIs DEF EngineOK
<1>1. event \in Event /\ event = e.control[1] /\ 1 \in DOMAIN e.control
  BY <1>0, HeadOf
<1>2. EventOK(b, e, event) /\ e1.nextSession = e.nextSession
  BY <1>0, <1>1 DEF ControlOK, Turned
<1>3. event.kind = "begin" => e1.state.session = event.session
  <2>1. NotedAs(e.state, event, e1.state)
    BY <1>0, <1>1, NotedIs DEF Turned
  <2> QED
    BY <2>1 DEF NotedAs
<1> HIDE DEF event
<1>4. event \in Record
  BY <1>1 DEF Record
<1>5. ASSUME event.kind = "begin" PROVE RecOK(b, e1, event)
  BY <1>0, <1>2, <1>3, <1>5, EngineIs DEF RecOK, StateOK, EventOK
<1>6. ASSUME event.kind = "start" PROVE RecOK(b, e1, event)
  <2>1. event.session < e.nextSession
    BY <1>0, <1>2, <1>6, EngineIs DEF EventOK, BookOK
  <2> QED
    BY <1>2, <1>6, <2>1 DEF RecOK, EventOK, Told
<1>7. ASSUME event.kind = "config" PROVE RecOK(b, e1, event)
  BY <1>2, <1>7 DEF RecOK, EventOK, Told
<1>8. event.kind # "frame"
  BY <1>1, EventIs
<1>9. RecOK(b, e1, event)
  BY <1>5, <1>6, <1>7, <1>8 DEF RecOK
<1> QED
  BY <1>4, <1>9 DEF event

\* What NextControl comes to
LEMMA NextControlIs ==
  ASSUME NEW e \in Engine, NEW i
  PROVE  NextControl(e, i) =
           IF e.control = <<>> THEN e
           ELSE IF Heeded(e.state, Head(e.control))
                THEN Send(Turn(e, Noted(e.state, Head(e.control))), Head(e.control))
                ELSE Turn(e, e.state)
<1> DEFINE ev == Head(e.control)
           e0 == [e EXCEPT !.control = Tail(e.control)]
<1>1. CASE e.control = <<>>
  BY <1>1 DEF NextControl
<1>2. CASE e.control # <<>>
  <2>1. NextControl(e, i) = ControlEvent(e0, ev)
    BY <1>2 DEF NextControl
  <2>2. e0.state = e.state
    BY DEF Engine
  <2>3. [e0 EXCEPT !.state = Noted(e0.state, ev)] = Turn(e, Noted(e.state, ev))
    BY <2>2 DEF Engine, Turn
  <2>4. e0 = Turn(e, e.state)
    BY DEF Engine, Turn
  <2> HIDE DEF e0, ev
  <2>5. NextControl(e, i) = IF Heeded(e.state, ev) THEN Send(Turn(e, Noted(e.state, ev)), ev) ELSE Turn(e, e.state)
    BY <2>1, <2>2, <2>3, <2>4 DEF ControlEvent
  <2> QED
    BY <1>2, <2>5 DEF ev
<1> QED
  BY <1>1, <1>2

LEMMA ControlKeeps ==
  ASSUME NEW b, NEW e, EngineOK(b, e), NEW i
  PROVE  EngineOK(b, NextControl(e, i)) /\ Onward(e, NextControl(e, i))
<1> DEFINE ev == Head(e.control)
<1>0. e \in Engine /\ e.state \in State
  BY EngineIs DEF EngineOK
<1>1. CASE e.control = <<>>
  BY <1>0, <1>1, NextControlIs, OnwardSelf
<1>2. CASE e.control # <<>> /\ Heeded(e.state, ev)
  <2> DEFINE n == Noted(e.state, ev)
             e1 == Turn(e, n)
             e2 == Send(e1, ev)
  <2>1. NextControl(e, i) = e2
    BY <1>0, <1>2, NextControlIs
  <2>2. n \in State
    BY <1>0, <1>2, HeadOf, NotedIs
  <2>3. e1 \in Engine /\ Turned(e, e1, n)
    <3> HIDE DEF n
    <3> QED
      BY <1>0, <1>2, <2>2, TurnTurns
  <2> HIDE DEF e1
  <2>4. EngineOK(b, e1) /\ Onward(e, e1)
    BY <1>2, <2>2, <2>3, TurnKeeps
  <2>5. ev \in Record /\ RecOK(b, e1, ev)
    BY <1>2, <2>3, <2>4, NotedRecOK
  <2> HIDE DEF ev
  <2>6. EngineOK(b, e2) /\ Onward(e1, e2) /\ Still(e1, e2)
    BY <2>4, <2>5, SendKeeps DEF Sent, Apart
  <2>7. Onward(e, e2)
    BY <2>4, <2>6 DEF Onward, Still
  <2> QED
    BY <2>1, <2>6, <2>7
<1>3. CASE e.control # <<>> /\ ~ Heeded(e.state, ev)
  <2> DEFINE n == e.state
             e1 == Turn(e, n)
  <2>1. NextControl(e, i) = e1
    BY <1>0, <1>3, NextControlIs
  <2>2. e1 \in Engine /\ Turned(e, e1, n)
    BY <1>0, <1>3, TurnTurns
  <2> HIDE DEF e1
  <2>3. EngineOK(b, e1) /\ Onward(e, e1)
    BY <1>0, <1>3, <2>2, TurnKeeps
  <2> QED
    BY <2>1, <2>3
<1> QED
  BY <1>1, <1>2, <1>3

-----------------------------------------------------------------------------
\* One frame of the queue, and one request of the client

\* e1 is e with the first frame taken.
Filmed(e, e1, lost) ==
  /\ Still(e, e1) /\ e1.video = Tail(e.video) /\ e1.lost = lost
  /\ e1.fatal = e.fatal /\ e1.throttled = e.throttled /\ e1.asked = e.asked
  /\ e1.serving = e.serving /\ e1.down = e.down /\ e1.up = e.up
  /\ e1.early = e.early /\ e1.ghost = e.ghost

Film(e, lost) == [e EXCEPT !.video = Tail(e.video), !.lost = lost]

Wanted(e, f) ==
  /\ f.session = e.state.session /\ f.config # 0
  /\ \E r \in DOMAIN e.state.video : e.state.video[r].stream = f.stream /\ e.state.video[r].config = f.config

ShownBy(e, st) == {r \in DOMAIN e.state.video : e.state.video[r].stream = st}

LEMMA FilmFilms ==
  ASSUME NEW e \in Engine, e.video # <<>>, NEW lost \in Roles
  PROVE  Film(e, lost) \in Engine /\ Filmed(e, Film(e, lost), lost)
<1> DEFINE rest == Tail(e.video)
<1>1. rest \in Frames
  BY DEF Engine, Frames
<1> HIDE DEF rest
<1>2. [e EXCEPT !.video = rest, !.lost = lost] \in Engine
  BY <1>1, Zenon DEF Engine
<1>3. Film(e, lost) \in Engine
  BY <1>2, Zenon DEF Film, rest
<1>4. Filmed(e, Film(e, lost), lost)
  BY DEF Engine, Film, Filmed, Still
<1> QED
  BY <1>3, <1>4

LEMMA NextVideoIs ==
  ASSUME NEW e \in Engine, NEW i
  PROVE  NextVideo(e, i) =
           IF e.video = <<>> THEN e
           ELSE IF Wanted(e, Head(e.video)) THEN Send(Film(e, e.lost), Head(e.video))
           ELSE Film(e, IF Head(e.video).key THEN e.lost \cup ShownBy(e, Head(e.video).stream) ELSE e.lost)
<1> DEFINE f == Head(e.video)
           e0 == [e EXCEPT !.video = Tail(e.video)]
           roles == ShownBy(e, f.stream)
<1>1. CASE e.video = <<>>
  BY <1>1 DEF NextVideo
<1>2. CASE e.video # <<>>
  <2>1. NextVideo(e, i) = VideoEvent(e0, f)
    BY <1>2 DEF NextVideo
  <2>2. e0.state = e.state /\ e0.lost = e.lost
    BY DEF Engine
  <2>3. e0 = Film(e, e.lost)
    BY DEF Engine, Film
  <2>4. \A lost : [e0 EXCEPT !.lost = lost] = Film(e, lost)
    BY DEF Engine, Film
  <2> HIDE DEF e0, f
  <2>5. VideoEvent(e0, f) =
          IF Wanted(e, f) THEN Send(e0, f)
          ELSE [e0 EXCEPT !.lost = IF f.key THEN e0.lost \cup roles ELSE e0.lost]
    BY <2>2 DEF VideoEvent, Wanted, ShownBy
  <2> QED
    BY <1>2, <2>1, <2>2, <2>3, <2>4, <2>5 DEF f
<1> QED
  BY <1>1, <1>2

LEMMA FrameHead ==
  ASSUME NEW b, NEW e, EngineOK(b, e), e.video # <<>>
  PROVE  /\ Head(e.video) \in Frame /\ Head(e.video) \in Record /\ Head(e.video).kind = "frame"
         /\ FrameOK(b, Head(e.video)) /\ FramesOK(b, Tail(e.video))
         /\ Head(e.video) = e.video[1] /\ 1 \in DOMAIN e.video
         /\ \A i \in DOMAIN e.video : i # 1 => i - 1 \in DOMAIN Tail(e.video) /\ Tail(e.video)[i - 1] = e.video[i]
<1>1. e.video \in Seq(Frame) /\ FramesOK(b, e.video)
  BY EngineIs DEF EngineOK
<1>2. Head(e.video) \in Frame /\ Head(e.video) = e.video[1] /\ 1 \in DOMAIN e.video
  BY <1>1
<1>3. \A i \in DOMAIN Tail(e.video) : i + 1 \in DOMAIN e.video /\ Tail(e.video)[i] = e.video[i + 1]
  BY <1>1
<1>4. \A i \in DOMAIN e.video : i # 1 => i - 1 \in DOMAIN Tail(e.video) /\ Tail(e.video)[i - 1] = e.video[i]
  BY <1>1
<1>5. FrameOK(b, Head(e.video)) /\ FramesOK(b, Tail(e.video))
  BY <1>1, <1>2, <1>3 DEF FramesOK
<1> QED
  BY <1>2, <1>4, <1>5 DEF Record, Frame

LEMMA FilmKeeps ==
  ASSUME NEW b, NEW e, EngineOK(b, e), e.video # <<>>, NEW lost, NEW e1 \in Engine, Filmed(e, e1, lost)
  PROVE  EngineOK(b, e1) /\ Onward(e, e1)
<1>1. RecordsOK(b, e, e1.down) /\ RequestsOK(b, e, e1.up) /\ RequestsOK(b, e, e1.early) /\ FramesOK(b, e1.video)
  BY FrameHead DEF EngineOK, Filmed
<1> QED
  BY <1>1, StillKeeps DEF Filmed

LEMMA ShownByRoles == ASSUME NEW e \in Engine, NEW st PROVE ShownBy(e, st) \subseteq Role
  BY EngineIs, ShownIs DEF ShownBy

LEMMA VideoKeeps ==
  ASSUME NEW b, NEW e, EngineOK(b, e), NEW i
  PROVE  EngineOK(b, NextVideo(e, i)) /\ Onward(e, NextVideo(e, i)) /\ Still(e, NextVideo(e, i))
<1> DEFINE f == Head(e.video)
<1>0. e \in Engine /\ e.lost \in Roles
  BY DEF EngineOK, Engine
<1>1. CASE e.video = <<>>
  BY <1>0, <1>1, NextVideoIs, OnwardSelf DEF Still
<1>2. CASE e.video # <<>> /\ Wanted(e, f)
  <2> DEFINE e1 == Film(e, e.lost)
             e2 == Send(e1, f)
  <2>1. NextVideo(e, i) = e2
    BY <1>0, <1>2, NextVideoIs
  <2>2. e1 \in Engine /\ Filmed(e, e1, e.lost)
    BY <1>0, <1>2, FilmFilms
  <2> HIDE DEF e1
  <2>3. EngineOK(b, e1) /\ Still(e, e1)
    BY <1>2, <2>2, FilmKeeps DEF Filmed
  <2>4. f \in Record /\ RecOK(b, e1, f)
    BY <1>2, FrameHead DEF RecOK, Wanted
  <2> HIDE DEF f
  <2>5. EngineOK(b, e2) /\ Sent(e1, e2, f)
    BY <2>3, <2>4, SendKeeps
  <2>6. Still(e, e2) /\ e2 \in Engine
    BY <2>3, <2>5 DEF Sent, Apart, Still, EngineOK
  <2> HIDE DEF e2
  <2> QED
    BY <1>0, <2>1, <2>5, <2>6, StillOnward
<1>3. CASE e.video # <<>> /\ ~ Wanted(e, f)
  <2> DEFINE lost == IF f.key THEN e.lost \cup ShownBy(e, f.stream) ELSE e.lost
             e1 == Film(e, lost)
  <2>1. NextVideo(e, i) = e1
    BY <1>0, <1>3, NextVideoIs
  <2>2. lost \in Roles
    BY <1>0, ShownByRoles DEF Roles
  <2> HIDE DEF lost
  <2>3. e1 \in Engine /\ Filmed(e, e1, lost)
    BY <1>0, <1>3, <2>2, FilmFilms
  <2> HIDE DEF e1
  <2>4. EngineOK(b, e1) /\ Onward(e, e1) /\ Still(e, e1)
    BY <1>3, <2>3, FilmKeeps DEF Filmed
  <2> QED
    BY <2>1, <2>4
<1> QED
  BY <1>1, <1>2, <1>3

\* e1 is e when the first request was taken.
Took(e, e1) ==
  /\ Still(e, e1) /\ e1.up = Tail(e.up) /\ e1.video = e.video /\ e1.lost = e.lost
  /\ e1.fatal = e.fatal /\ e1.throttled = e.throttled /\ e1.asked = e.asked
  /\ e1.serving = e.serving /\ e1.down = e.down
  /\ e1.early = e.early /\ e1.ghost = e.ghost

Take(e) == [e EXCEPT !.up = Tail(e.up)]

LEMMA TakeTakes ==
  ASSUME NEW b, NEW e, EngineOK(b, e), e.up # <<>>
  PROVE  EngineOK(b, Take(e)) /\ Took(e, Take(e))
<1> DEFINE rest == Tail(e.up)
           e1 == Take(e)
<1>0. e \in Engine /\ e.up \in Seq(Request) /\ RequestsOK(b, e, e.up)
  BY EngineIs DEF EngineOK
<1>1. rest \in Requests
  BY <1>0 DEF Requests
<1>2. \A i \in DOMAIN rest : i + 1 \in DOMAIN e.up /\ rest[i] = e.up[i + 1]
  BY <1>0
<1>3. RequestsOK(b, e, rest)
  BY <1>0, <1>2 DEF RequestsOK
<1>4. Took(e, e1)
  BY <1>0 DEF Engine, Take, Took, Still
<1> HIDE DEF rest
<1>5. [e EXCEPT !.up = rest] \in Engine
  BY <1>0, <1>1 DEF Engine
<1>6. e1 \in Engine /\ e1.up = rest
  BY <1>4, <1>5 DEF Take, rest, Took
<1> HIDE DEF e1
<1>7. EngineOK(b, e1)
  BY <1>3, <1>4, <1>6, StillKeeps DEF EngineOK, Took
<1> QED
  BY <1>4, <1>7 DEF e1

Understood(e) == Head(e.up).session = e.state.session /\ ShownBy(e, Head(e.up).stream) # {}

LEMMA ReadRequestIs ==
  ASSUME NEW e \in Engine
  PROVE  ReadRequest(e) =
           IF Understood(e)
           THEN RequestKeyframe(Take(e), CHOOSE r \in ShownBy(e, Head(e.up).stream) : TRUE)
           ELSE Take(e)
<1>1. Take(e).state = e.state
  BY DEF Engine, Take
<1> QED
  BY <1>1 DEF ReadRequest, Understood, ShownBy, Take

LEMMA ReadRequestKeeps ==
  ASSUME NEW b, NEW e, EngineOK(b, e), e.up # <<>>
  PROVE  EngineOK(b, ReadRequest(e)) /\ Onward(e, ReadRequest(e)) /\ Still(e, ReadRequest(e))
<1> DEFINE e1 == Take(e)
           e2 == ReadRequest(e)
           x == CHOOSE r \in ShownBy(e, Head(e.up).stream) : TRUE
<1>0. e \in Engine
  BY DEF EngineOK
<1>1. EngineOK(b, e1) /\ Took(e, e1)
  BY TakeTakes
<1>2. Understood(e) => x \in Role
  BY <1>0, ShownByRoles DEF Understood
<1>3. e2 = IF Understood(e) THEN RequestKeyframe(e1, x) ELSE e1
  BY <1>0, ReadRequestIs
<1> HIDE DEF x, e1, e2
<1>4. EngineOK(b, e2) /\ Still(e1, e2)
  <2>1. CASE Understood(e)
    <3> DEFINE e3 == RequestKeyframe(e1, x)
    <3>1. EngineOK(b, e3) /\ Requested(e1, e3, x)
      BY <1>1, <1>2, <2>1, RequestKeeps
    <3> HIDE DEF e3
    <3>2. Still(e1, e3)
      BY <3>1 DEF Requested, Alike, Still
    <3> QED
      BY <1>3, <2>1, <3>1, <3>2 DEF e3
  <2>2. CASE ~ Understood(e)
    BY <1>1, <1>3, <2>2 DEF Still
  <2> QED
    BY <2>1, <2>2
<1>5. Still(e, e2) /\ e2 \in Engine
  BY <1>1, <1>4 DEF Took, Still, EngineOK
<1> QED
  BY <1>0, <1>4, <1>5, StillOnward DEF e2

-----------------------------------------------------------------------------
\* The slots of the store

LEMMA SlotIs ==
  ASSUME NEW v \in Slot
  PROVE  /\ v.started \in BOOLEAN /\ v.id \in Nat /\ v.have \in BOOLEAN /\ v.config \in Nat
         /\ v.content \in AnyContent /\ v.waiting \in BOOLEAN /\ v.counted \in BOOLEAN
         /\ v.last \in Nat /\ v.requested \in BOOLEAN /\ v.ring \in Seq(Frame)
  BY DEF Slot, Frames

LEMMA FrameIs ==
  ASSUME NEW f \in Frame
  PROVE  /\ f.kind = "frame" /\ f.session \in Nat /\ f.stream \in Nat /\ f.sequence \in Nat
         /\ f.config \in Nat /\ f.content \in AnyContent /\ f.key \in BOOLEAN
  BY DEF Frame

Gap(v, f) == v.counted /\ f.sequence # v.last + 1
Stale(v, f) == v.counted /\ f.sequence <= v.last

\* p is v but for its ring and what it waits for.
Pushed(v, p) ==
  /\ p.started = v.started /\ p.id = v.id /\ p.have = v.have /\ p.config = v.config /\ p.content = v.content

LEMMA PushIs ==
  ASSUME NEW v \in Slot, NEW f \in Frame, NEW selected \in BOOLEAN
  PROVE  /\ PushFrame(v, f, selected) \in Slot /\ Pushed(v, PushFrame(v, f, selected))
         /\ LET p == PushFrame(v, f, selected) IN
            \/ /\ Gap(v, f) /\ Stale(v, f)
               /\ p.waiting /\ p.requested /\ p.ring = <<>>
            \/ /\ ~ Stale(v, f) /\ (~ selected \/ ((v.waiting \/ Gap(v, f)) /\ ~ f.key))
               /\ p.waiting = (v.waiting \/ Gap(v, f)) /\ p.requested = (v.requested \/ Gap(v, f))
               /\ p.counted /\ p.last = f.sequence /\ p.ring = (IF Gap(v, f) THEN <<>> ELSE v.ring)
            \/ /\ ~ Stale(v, f) /\ selected /\ f.key
               /\ ~ p.waiting /\ p.counted /\ p.last = f.sequence /\ p.ring = <<f>>
            \/ /\ ~ Stale(v, f) /\ selected /\ ~ v.waiting /\ ~ Gap(v, f) /\ ~ f.key
               /\ ~ p.waiting /\ p.counted /\ p.last = f.sequence /\ p.requested = v.requested
               /\ p.ring = Append(IF Len(v.ring) = RingSize THEN Tail(v.ring) ELSE v.ring, f)
<1> DEFINE gap == Gap(v, f)
           stale == Stale(v, f)
           seen == IF gap THEN [v EXCEPT !.waiting = TRUE, !.ring = <<>>, !.requested = TRUE] ELSE v
           counted == [seen EXCEPT !.counted = TRUE, !.last = f.sequence]
           shown == [counted EXCEPT !.waiting = FALSE, !.requested = FALSE, !.ring = <<f>>]
           more == Append(IF Len(v.ring) = RingSize THEN Tail(v.ring) ELSE v.ring, f)
           p == PushFrame(v, f, selected)
<1>0. /\ v.last \in Nat /\ v.ring \in Seq(Frame) /\ f.sequence \in Nat /\ RingSize \in Nat \ {0}
      /\ gap \in BOOLEAN /\ stale \in BOOLEAN
  BY SlotIs, FrameIs, LinkAssumption DEF Gap, Stale
<1>1. more \in Seq(Frame)
  <2>1. CASE Len(v.ring) = RingSize
    <3>1. Tail(v.ring) \in Seq(Frame)
      BY <1>0, <2>1
    <3> QED
      BY <2>1, <3>1
  <2>2. CASE Len(v.ring) # RingSize
    BY <1>0, <2>2
  <2> QED
    BY <2>1, <2>2
<1>2. p = IF stale THEN seen
          ELSE IF ~ selected \/ (seen.waiting /\ ~ f.key) THEN counted
          ELSE IF f.key THEN shown
          ELSE [counted EXCEPT !.ring = Append(IF Len(counted.ring) = RingSize THEN Tail(counted.ring)
                                                ELSE counted.ring, f)]
  BY DEF PushFrame, Gap, Stale
<1> HIDE DEF more
<1>3. seen \in Slot /\ Pushed(v, seen)
      /\ seen.waiting = (v.waiting \/ gap) /\ seen.requested = (v.requested \/ gap)
      /\ seen.ring = (IF gap THEN <<>> ELSE v.ring) /\ seen.counted = v.counted /\ seen.last = v.last
  <2>1. CASE gap
    <3> DEFINE no == <<>>
    <3>1. no \in Frames
      BY NoneOf
    <3>2. seen = [v EXCEPT !.waiting = TRUE, !.ring = no, !.requested = TRUE]
      BY <2>1
    <3> HIDE DEF no, seen
    <3>3. seen \in Slot
      BY <3>1, <3>2, Zenon DEF Slot
    <3>4. Pushed(v, seen) /\ seen.waiting /\ seen.requested /\ seen.ring = no /\ seen.counted = v.counted /\ seen.last = v.last
      BY <3>2 DEF Slot, Pushed
    <3> QED
      BY <2>1, <3>3, <3>4 DEF no
  <2>2. CASE ~ gap
    <3>1. seen = v
      BY <2>2
    <3> HIDE DEF seen
    <3> QED
      BY <2>2, <3>1, SlotIs DEF Pushed
  <2> QED
    BY <1>0, <2>1, <2>2
<1> HIDE DEF seen
<1>4. counted \in Slot /\ Pushed(v, counted)
      /\ counted.waiting = seen.waiting /\ counted.requested = seen.requested
      /\ counted.ring = seen.ring /\ counted.counted /\ counted.last = f.sequence
  <2>1. counted \in Slot
    BY <1>0, <1>3, Zenon DEF Slot
  <2> QED
    BY <1>3, <2>1 DEF Slot, Pushed
<1> HIDE DEF counted
<1>5. shown \in Slot /\ Pushed(v, shown) /\ ~ shown.waiting /\ shown.ring = <<f>>
      /\ shown.counted /\ shown.last = f.sequence
  <2> DEFINE one == <<f>>
  <2>1. one \in Frames
    BY DEF Frames
  <2>2. shown = [counted EXCEPT !.waiting = FALSE, !.requested = FALSE, !.ring = one]
    OBVIOUS
  <2> HIDE DEF one, shown
  <2>3. shown \in Slot
    BY <1>4, <2>1, <2>2, Zenon DEF Slot
  <2>4. Pushed(v, shown) /\ ~ shown.waiting /\ shown.ring = one /\ shown.counted /\ shown.last = f.sequence
    BY <1>4, <2>2 DEF Slot, Pushed
  <2> QED
    BY <2>3, <2>4 DEF one
<1> HIDE DEF shown
<1>6. CASE stale
  <2>1. gap
    BY <1>0, <1>6 DEF Gap, Stale
  <2>2. p = seen
    BY <1>2, <1>6
  <2> HIDE DEF p
  <2> QED
    BY <1>3, <1>6, <2>1, <2>2 DEF p
<1>7. CASE ~ stale /\ (~ selected \/ (seen.waiting /\ ~ f.key))
  <2>1. p = counted
    BY <1>2, <1>7
  <2> HIDE DEF p
  <2> QED
    BY <1>3, <1>4, <1>7, <2>1 DEF p
<1>8. CASE ~ stale /\ selected /\ f.key
  <2>1. p = shown
    BY <1>2, <1>8
  <2> HIDE DEF p
  <2> QED
    BY <1>5, <1>8, <2>1 DEF p
<1>9. CASE ~ stale /\ selected /\ ~ seen.waiting /\ ~ f.key
  <2>0. ~ gap /\ ~ v.waiting /\ counted.ring = v.ring
    BY <1>3, <1>4, <1>9, SlotIs
  <2>1. p = [counted EXCEPT !.ring = more]
    BY <1>2, <1>9, <2>0 DEF more
  <2>2. more \in Frames
    BY <1>1 DEF Frames
  <2> HIDE DEF p
  <2>3. p \in Slot
    BY <1>4, <2>1, <2>2 DEF Slot
  <2>4. Pushed(v, p) /\ p.waiting = counted.waiting /\ p.requested = counted.requested
        /\ p.counted /\ p.last = f.sequence /\ p.ring = more
    BY <1>4, <2>1 DEF Slot, Pushed
  <2> QED
    BY <1>3, <1>4, <1>9, <2>0, <2>3, <2>4, SlotIs DEF p, more
<1> QED
  BY <1>3, <1>6, <1>7, <1>8, <1>9, FrameIs

\* A frame of the configuration that is shown keeps the ring one that decodes.
LEMMA PushKeeps ==
  ASSUME NEW v \in Slot, NEW f \in Frame, NEW selected \in BOOLEAN, RingOK(v, selected), v.have,
         f.stream = v.id, f.content = v.content
  PROVE  RingOK(PushFrame(v, f, selected), selected)
<1> DEFINE p == PushFrame(v, f, selected)
<1>0. /\ v.ring \in Seq(Frame) /\ v.last \in Nat /\ f.sequence \in Nat /\ RingSize \in Nat \ {0}
      /\ \A i \in DOMAIN v.ring : v.ring[i].sequence \in Nat
  <2>1. \A i \in DOMAIN v.ring : v.ring[i] \in Frame
    BY SlotIs
  <2> QED
    BY <2>1, SlotIs, FrameIs, LinkAssumption
<1>1. p \in Slot /\ Pushed(v, p)
  BY PushIs
<1>2. \/ /\ Gap(v, f) /\ Stale(v, f)
         /\ p.waiting /\ p.requested /\ p.ring = <<>>
      \/ /\ ~ Stale(v, f) /\ (~ selected \/ ((v.waiting \/ Gap(v, f)) /\ ~ f.key))
         /\ p.waiting = (v.waiting \/ Gap(v, f)) /\ p.requested = (v.requested \/ Gap(v, f))
         /\ p.counted /\ p.last = f.sequence /\ p.ring = (IF Gap(v, f) THEN <<>> ELSE v.ring)
      \/ /\ ~ Stale(v, f) /\ selected /\ f.key
         /\ ~ p.waiting /\ p.counted /\ p.last = f.sequence /\ p.ring = <<f>>
      \/ /\ ~ Stale(v, f) /\ selected /\ ~ v.waiting /\ ~ Gap(v, f) /\ ~ f.key
         /\ ~ p.waiting /\ p.counted /\ p.last = f.sequence /\ p.requested = v.requested
         /\ p.ring = Append(IF Len(v.ring) = RingSize THEN Tail(v.ring) ELSE v.ring, f)
  BY PushIs
<1> HIDE DEF p
<1>3. ASSUME p.ring = <<>> PROVE RingOK(p, selected)
  BY <1>3 DEF RingOK
<1>4. ASSUME p.ring = <<f>>, selected, ~ p.waiting, p.counted, p.last = f.sequence PROVE RingOK(p, selected)
  BY <1>1, <1>4 DEF RingOK, Pushed
<1>5. ASSUME ~ selected \/ v.waiting \/ Gap(v, f), p.ring = (IF Gap(v, f) THEN <<>> ELSE v.ring)
      PROVE  RingOK(p, selected)
  <2>1. p.ring = <<>>
    BY <1>5 DEF RingOK
  <2> QED
    BY <1>3, <2>1
<1>6. ASSUME selected, ~ v.waiting, ~ Gap(v, f), ~ p.waiting, p.counted, p.last = f.sequence,
             p.ring = Append(IF Len(v.ring) = RingSize THEN Tail(v.ring) ELSE v.ring, f)
      PROVE  RingOK(p, selected)
  <2> DEFINE old == IF Len(v.ring) = RingSize THEN Tail(v.ring) ELSE v.ring
  <2>1. /\ old \in Seq(Frame)
        /\ \A i \in DOMAIN old : /\ old[i].stream = v.id /\ old[i].content = v.content
                                 /\ i > 1 => old[i].sequence = old[i - 1].sequence + 1
        /\ old # <<>> => old[Len(old)].sequence = v.last /\ v.counted
    <3>1. CASE Len(v.ring) = RingSize
      <4>1. /\ v.ring # <<>> /\ old = Tail(v.ring) /\ old \in Seq(Frame) /\ Len(old) = Len(v.ring) - 1
            /\ \A i \in DOMAIN old : i + 1 \in DOMAIN v.ring /\ i + 1 > 1 /\ old[i] = v.ring[i + 1]
        BY <1>0, <3>1
      <4> HIDE DEF old
      <4>2. ASSUME NEW i \in DOMAIN old
            PROVE  /\ old[i].stream = v.id /\ old[i].content = v.content
                   /\ i > 1 => old[i].sequence = old[i - 1].sequence + 1
        <5>1. old[i].stream = v.id /\ old[i].content = v.content
          BY <4>1 DEF RingOK
        <5>2. i > 1 => i - 1 \in DOMAIN old /\ (i - 1) + 1 = i
          BY <4>1
        <5>3. i > 1 => old[i] = v.ring[i + 1] /\ old[i - 1] = v.ring[i]
          BY <4>1, <5>2
        <5>4. v.ring[i + 1].sequence = v.ring[(i + 1) - 1].sequence + 1 /\ (i + 1) - 1 = i
          BY <4>1 DEF RingOK
        <5> QED
          BY <5>1, <5>3, <5>4
      <4>3. old # <<>> => old[Len(old)] = v.ring[Len(v.ring)]
        BY <1>0, <4>1
      <4> QED
        BY <4>1, <4>2, <4>3 DEF RingOK
    <3>2. CASE Len(v.ring) # RingSize
      BY <1>0, <3>2 DEF RingOK
    <3> QED
      BY <3>1, <3>2
  <2> HIDE DEF old
  <2>2. p.ring = Append(old, f)
    BY <1>6 DEF old
  <2>3. /\ Len(p.ring) = Len(old) + 1 /\ DOMAIN p.ring = 1..Len(old) + 1 /\ p.ring[Len(old) + 1] = f
        /\ DOMAIN old = 1..Len(old) /\ Len(old) \in Nat
        /\ \A i \in DOMAIN old : p.ring[i] = old[i]
    BY <2>1, <2>2
  <2>4. ASSUME NEW i \in DOMAIN p.ring
        PROVE  /\ p.ring[i].stream = v.id /\ p.ring[i].content = v.content
               /\ i > 1 => p.ring[i].sequence = p.ring[i - 1].sequence + 1
    <3>1. CASE i \in DOMAIN old
      <4>1. i > 1 => i - 1 \in DOMAIN old
        BY <2>3, <3>1
      <4> QED
        BY <2>1, <2>3, <3>1, <4>1
    <3>2. CASE i = Len(old) + 1
      <4>1. p.ring[i] = f
        BY <2>3, <3>2
      <4>2. i > 1 => old # <<>> /\ i - 1 = Len(old) /\ Len(old) \in DOMAIN old
        BY <2>3, <3>2
      <4>3. i > 1 => p.ring[i - 1].sequence = v.last /\ v.counted
        BY <2>1, <2>3, <4>2
      <4>4. i > 1 => f.sequence = v.last + 1
        BY <1>6, <4>3 DEF Gap
      <4> QED
        BY <4>1, <4>3, <4>4
    <3> QED
      BY <2>3, <3>1, <3>2
  <2>5. p.ring[Len(p.ring)].sequence = p.last
    BY <1>6, <2>3
  <2> QED
    BY <1>1, <1>6, <2>4, <2>5 DEF RingOK, Pushed
<1>7. RingOK(p, selected)
  BY <1>2, <1>3, <1>4, <1>5, <1>6
<1> QED
  BY <1>7 DEF p

-----------------------------------------------------------------------------
\* The records, one slot at a time

NewOK == NewSlot \in Slot /\ ~ NewSlot.started /\ ~ NewSlot.have /\ ~ NewSlot.requested /\ NewSlot.ring = <<>>

LEMMA NewSlotIs == NewOK
<1>1. <<>> \in Frames
  BY NoneOf
<1> QED
  BY <1>1, Zenon DEF NewOK, NewSlot, Slot, AnyContent

LEMMA NewSlotOK ==
  ASSUME NEW b, NEW e, NEW x, NEW r, NEW selected
  PROVE  SlotOK(b, e, x, r, NewSlot) /\ RingOK(NewSlot, selected)
  BY DEF SlotOK, RingOK, NewSlot

\* ConfigureSlot: what it does to what a page reads
LEMMA ConfigureIs ==
  ASSUME NEW v \in Slot, NEW rec \in Record, rec.kind = "config"
  PROVE  LET p == ConfigureSlot(v, rec) IN
         /\ p \in Slot /\ p.started = v.started /\ p.id = v.id
         /\ p.have /\ p.config = rec.config
         /\ \/ v.have /\ rec.config = v.config /\ p = v
            \/ /\ v.have /\ rec.content = v.content /\ p.content = v.content /\ p.waiting = v.waiting
               /\ p.requested = v.requested /\ p.ring = v.ring /\ p.counted = v.counted /\ p.last = v.last
            \/ p.content = rec.content /\ p.waiting /\ p.requested /\ p.ring = <<>>
<1> DEFINE p == ConfigureSlot(v, rec)
           G(q) == /\ q \in Slot /\ q.started = v.started /\ q.id = v.id
                   /\ q.have /\ q.config = rec.config
                   /\ \/ v.have /\ rec.config = v.config /\ q = v
                      \/ /\ v.have /\ rec.content = v.content /\ q.content = v.content /\ q.waiting = v.waiting
                         /\ q.requested = v.requested /\ q.ring = v.ring /\ q.counted = v.counted /\ q.last = v.last
                      \/ q.content = rec.content /\ q.waiting /\ q.requested /\ q.ring = <<>>
<1>0. rec.config \in Nat /\ rec.content \in AnyContent
  BY DEF Record, Event, Frame, Hello
<1>1. CASE v.have /\ rec.config = v.config
  <2>1. p = v
    BY <1>1 DEF ConfigureSlot
  <2> HIDE DEF p
  <2>2. G(p)
    BY <1>1, <2>1
  <2> QED
    BY <2>2 DEF p
<1>2. CASE v.have /\ ~ rec.config = v.config /\ rec.content = v.content
  <2>1. p = [v EXCEPT !.config = rec.config]
    BY <1>2 DEF ConfigureSlot
  <2> HIDE DEF p
  <2>2. p \in Slot
    BY <1>0, <2>1 DEF Slot
  <2>3. G(p)
    BY <1>2, <2>1, <2>2 DEF Slot
  <2> QED
    BY <2>3 DEF p
<1>3. CASE ~ (v.have /\ rec.config = v.config) /\ ~ (v.have /\ rec.content = v.content)
  <2> DEFINE no == <<>>
  <2>1. p = [v EXCEPT !.have = TRUE, !.config = rec.config, !.content = rec.content, !.waiting = TRUE,
                      !.counted = FALSE, !.ring = no, !.requested = TRUE]
    BY <1>3 DEF ConfigureSlot
  <2>2. no \in Frames
    BY NoneOf
  <2> HIDE DEF p, no
  <2>3. p \in Slot
    BY <1>0, <2>1, <2>2, Zenon DEF Slot
  <2>4. /\ p.started = v.started /\ p.id = v.id /\ p.have /\ p.config = rec.config
        /\ p.content = rec.content /\ p.waiting /\ p.requested /\ p.ring = no
    BY <2>1 DEF Slot
  <2>5. G(p)
    BY <2>3, <2>4 DEF no
  <2> QED
    BY <2>5 DEF p
<1> QED
  BY <1>1, <1>2, <1>3

-----------------------------------------------------------------------------
\* What the client makes of a record

LEMMA StoreIs ==
  ASSUME NEW s \in Store
  PROVE  /\ s.session \in Nat /\ s.hello \in BOOLEAN /\ s.selected \in BOOLEAN /\ s.video \in [Role -> Slot]
         /\ \A r \in Role : s.video[r] \in Slot
<1>1. s.session \in Nat /\ s.hello \in BOOLEAN /\ s.selected \in BOOLEAN /\ s.video \in Slots
  BY DEF Store
<1>2. s.video \in [Role -> Slot]
  BY <1>1 DEF Slots
<1> QED
  BY <1>1, <1>2

Fresh(st) == [NewSlot EXCEPT !.started = TRUE, !.id = st]

LEMMA FreshIs ==
  ASSUME NEW st \in Nat
  PROVE  /\ Fresh(st) \in Slot /\ Fresh(st).started /\ Fresh(st).id = st /\ ~ Fresh(st).have
         /\ Fresh(st).config = 0 /\ Fresh(st).ring = <<>> /\ ~ Fresh(st).requested
<1>1. NewSlot \in Slot /\ NewSlot.ring = <<>>
  BY NewSlotIs DEF NewOK
<1>2. Fresh(st) \in Slot
  BY <1>1, Zenon DEF Fresh, Slot
<1> QED
  BY <1>2 DEF Fresh, NewSlot

\* The slots when the record is for the session of the store
SlotAfter(s, rec, r) ==
  LET v == s.video[r] IN
  IF rec.kind = "start" THEN IF r = rec.role THEN Fresh(rec.stream) ELSE v
  ELSE IF ~ (v.started /\ v.id = rec.stream) THEN v
  ELSE IF rec.kind = "config" THEN ConfigureSlot(v, rec)
  ELSE IF rec.kind = "stop" THEN NewSlot
  ELSE IF v.have /\ rec.config = v.config THEN PushFrame(v, rec, s.selected)
  ELSE v

Ours(s, rec) == s.session # 0 /\ rec.session = s.session
Clears(s, rec) == (rec.kind = "begin" /\ rec.session # s.session) \/ (rec.kind = "end" /\ rec.session = s.session)

\* s1 is s with the record in it.
Ingested(s, rec, s1) ==
  /\ s1.selected = s.selected
  /\ s1.hello = (s.hello \/ rec.kind = "hello")
  /\ rec.kind = "hello" \/ ~ s.hello => s1.session = s.session /\ s1.video = s.video
  /\ s.hello /\ rec.kind # "hello" =>
       /\ s1.session = IF rec.kind = "begin" THEN rec.session
                       ELSE IF rec.kind = "end" /\ rec.session = s.session THEN 0 ELSE s.session
       /\ Clears(s, rec) => \A r \in Role : s1.video[r] = NewSlot
       /\ ~ Clears(s, rec) /\ (rec.kind \in {"begin", "end"} \/ ~ Ours(s, rec)) => s1.video = s.video
       /\ rec.kind \notin {"begin", "end"} /\ Ours(s, rec) => \A r \in Role : s1.video[r] = SlotAfter(s, rec, r)

LEMMA RecordIs ==
  ASSUME NEW rec \in Record
  PROVE  /\ rec.kind \in {"hello", "begin", "end", "start", "config", "stop", "frame"}
         /\ rec.kind # "hello" => rec.session \in Nat
         /\ rec.kind \in {"start", "config", "stop", "frame"} => rec.stream \in Nat
         /\ rec.kind = "start" => rec.role \in Role
         /\ rec.kind = "frame" => rec \in Frame
  BY DEF Record, Event, Frame, Hello

\* A stream has no slot but that of its screen.
LEMMA SlotOfRole ==
  ASSUME NEW b, NEW e, NEW s, StoreOK(b, e, s), NEW rec \in Record, RecOK(b, e, rec), rec.kind = "start"
  PROVE  SlotOf(s, rec.stream) \subseteq {rec.role}
  BY DEF StoreOK, SlotOK, RecOK, SlotOf

LEMMA SlotAfterSlot ==
  ASSUME NEW s \in Store, NEW rec \in Record, NEW r \in Role, rec.kind \in {"start", "config", "stop", "frame"}
  PROVE  SlotAfter(s, rec, r) \in Slot
<1> DEFINE v == s.video[r]
<1>1. v \in Slot /\ s.selected \in BOOLEAN
  BY StoreIs
<1>2. rec.stream \in Nat
  BY RecordIs
<1>3. rec.kind = "config" => ConfigureSlot(v, rec) \in Slot
  BY <1>1, ConfigureIs
<1>4. rec.kind = "frame" => PushFrame(v, rec, s.selected) \in Slot
  BY <1>1, RecordIs, PushIs
<1>5. NewSlot \in Slot /\ Fresh(rec.stream) \in Slot
  BY <1>2, NewSlotIs, FreshIs DEF NewOK
<1> QED
  BY <1>1, <1>3, <1>4, <1>5 DEF SlotAfter

WithVideo(s, video) == [s EXCEPT !.video = video]

LEMMA IngestIs ==
  ASSUME NEW b, NEW e, NEW s, StoreOK(b, e, s), NEW rec \in Record, RecOK(b, e, rec)
  PROVE  Ingest(s, rec) \in Store /\ Ingested(s, rec, Ingest(s, rec))
<1> DEFINE s1 == Ingest(s, rec)
           G(q) == q \in Store /\ Ingested(s, rec, q)
<1>0. s \in Store /\ s.session \in Nat /\ s.hello \in BOOLEAN /\ s.video \in [Role -> Slot]
  BY StoreIs DEF StoreOK
<1>1. CASE rec.kind = "hello"
  <2>1. s1 = [s EXCEPT !.hello = TRUE]
    BY <1>1 DEF Ingest
  <2> HIDE DEF s1
  <2>2. s1 \in Store
    BY <1>0, <2>1 DEF Store
  <2>3. G(s1)
    BY <1>0, <1>1, <2>1, <2>2 DEF Store, Ingested
  <2> QED
    BY <2>3 DEF s1
<1> DEFINE none == [r \in Role |-> NewSlot]
<1>3. none \in Slots /\ \A r \in Role : none[r] = NewSlot
  BY NewSlotIs DEF NewOK, Slots
<1>4. CASE rec.kind # "hello" /\ ~ s.hello
  <2>1. s1 = s
    BY <1>4 DEF Ingest
  <2> HIDE DEF s1
  <2>2. G(s1)
    BY <1>0, <1>4, <2>1 DEF Ingested, Clears, Ours
  <2> QED
    BY <2>2 DEF s1
<1>5. CASE s.hello /\ rec.kind = "begin"
  <2>1. CASE rec.session = s.session
    <3>1. s1 = s
      BY <1>5, <2>1 DEF Ingest
    <3> HIDE DEF s1
    <3>2. G(s1)
      BY <1>0, <1>5, <2>1, <3>1 DEF Ingested, Clears, Ours
    <3> QED
      BY <3>2 DEF s1
  <2>2. CASE rec.session # s.session
    <3>1. s1 = [[s EXCEPT !.session = 0, !.video = none] EXCEPT !.session = rec.session]
      BY <1>5, <2>2 DEF Ingest, ClearMedia
    <3>2. rec.session \in Nat
      BY <1>5, RecordIs
    <3> HIDE DEF s1, none
    <3>3. s1 = [s EXCEPT !.session = rec.session, !.video = none]
      BY <1>0, <3>1 DEF Store
    <3>4. s1 \in Store
      BY <1>0, <1>3, <3>2, <3>3, Zenon DEF Store
    <3>5. s1.selected = s.selected /\ s1.hello = s.hello /\ s1.session = rec.session /\ s1.video = none
      BY <1>0, <3>3 DEF Store
    <3>6. G(s1)
      BY <1>3, <1>5, <2>2, <3>4, <3>5 DEF Ingested, Clears
    <3> QED
      BY <3>6 DEF s1
  <2> QED
    BY <2>1, <2>2
<1>6. CASE s.hello /\ rec.kind = "end"
  <2>1. CASE rec.session # s.session
    <3>1. s1 = s
      BY <1>6, <2>1 DEF Ingest
    <3> HIDE DEF s1
    <3>2. G(s1)
      BY <1>0, <1>6, <2>1, <3>1 DEF Ingested, Clears, Ours
    <3> QED
      BY <3>2 DEF s1
  <2>2. CASE rec.session = s.session
    <3>1. s1 = [s EXCEPT !.session = 0, !.video = none]
      BY <1>6, <2>2 DEF Ingest, ClearMedia
    <3> HIDE DEF s1, none
    <3>2. s1 \in Store
      BY <1>0, <1>3, <3>1, Zenon DEF Store
    <3>3. s1.selected = s.selected /\ s1.hello = s.hello /\ s1.session = 0 /\ s1.video = none
      BY <1>0, <3>1 DEF Store
    <3>4. G(s1)
      BY <1>3, <1>6, <2>2, <3>2, <3>3 DEF Ingested, Clears
    <3> QED
      BY <3>4 DEF s1
  <2> QED
    BY <2>1, <2>2
<1>7. CASE s.hello /\ rec.kind \notin {"hello", "begin", "end"}
  <2>1. CASE ~ Ours(s, rec)
    <3>1. s1 = s
      BY <1>7, <2>1 DEF Ingest, Ours
    <3> HIDE DEF s1
    <3>2. G(s1)
      BY <1>0, <1>7, <2>1, <3>1 DEF Ingested, Clears, Ours
    <3> QED
      BY <3>2 DEF s1
  <2>2. CASE Ours(s, rec)
    <3> DEFINE after == [r \in Role |-> SlotAfter(s, rec, r)]
    <3>1. s1 = WithVideo(s, after)
      <4>1. CASE rec.kind = "start"
        <5>1. SlotOf(s, rec.stream) \subseteq {rec.role} /\ rec.role \in Role
          BY <4>1, SlotOfRole, RecordIs
        <5>2. (IF SlotOf(s, rec.stream) # {} THEN CHOOSE x \in SlotOf(s, rec.stream) : TRUE ELSE rec.role) = rec.role
          BY <5>1
        <5>3. s1 = StartSlot(s, rec)
          BY <1>7, <2>2, <4>1 DEF Ingest, Ours
        <5>4. s1 = [s EXCEPT !.video[rec.role] = Fresh(rec.stream)]
          BY <5>2, <5>3 DEF StartSlot, Fresh
        <5> DEFINE one == [s.video EXCEPT ![rec.role] = Fresh(rec.stream)]
        <5>5. s1 = [s EXCEPT !.video = one]
          BY <1>0, <5>4 DEF Store
        <5>6. one = after
          BY <1>0, <4>1, <5>1 DEF SlotAfter
        <5> QED
          BY <5>5, <5>6 DEF WithVideo
      <4>2. CASE rec.kind # "start"
        <5>1. \A r \in Role :
                (IF r \notin SlotOf(s, rec.stream) THEN s.video[r]
                 ELSE IF rec.kind = "config" THEN ConfigureSlot(s.video[r], rec)
                 ELSE IF rec.kind = "stop" THEN NewSlot
                 ELSE IF s.video[r].have /\ rec.config = s.video[r].config THEN PushFrame(s.video[r], rec, s.selected)
                 ELSE s.video[r]) = SlotAfter(s, rec, r)
          BY <4>2 DEF SlotAfter, SlotOf
        <5>2. s1 = [s EXCEPT !.video = [r \in Role |->
                     IF r \notin SlotOf(s, rec.stream) THEN s.video[r]
                     ELSE IF rec.kind = "config" THEN ConfigureSlot(s.video[r], rec)
                     ELSE IF rec.kind = "stop" THEN NewSlot
                     ELSE IF s.video[r].have /\ rec.config = s.video[r].config THEN PushFrame(s.video[r], rec, s.selected)
                     ELSE s.video[r]]]
          BY <1>7, <2>2, <4>2 DEF Ingest, Ours
        <5> QED
          BY <5>1, <5>2 DEF WithVideo
      <4> QED
        BY <4>1, <4>2
    <3>2. after \in Slots /\ \A r \in Role : after[r] = SlotAfter(s, rec, r)
      <4>1. \A r \in Role : SlotAfter(s, rec, r) \in Slot
        BY <1>0, <1>7, RecordIs, SlotAfterSlot
      <4> QED
        BY <4>1 DEF Slots
    <3> HIDE DEF s1, after
    <3>3. s1 \in Store /\ s1.session = s.session /\ s1.hello = s.hello /\ s1.selected = s.selected /\ s1.video = after
      BY <1>0, <3>1, <3>2 DEF Store, WithVideo
    <3>4. G(s1)
      BY <1>7, <2>2, <3>2, <3>3, RecordIs DEF Ingested, Clears
    <3> QED
      BY <3>4 DEF s1
  <2> QED
    BY <2>1, <2>2
<1> QED
  BY <1>0, <1>1, <1>4, <1>5, <1>6, <1>7, RecordIs

LEMMA SlotAfterOK ==
  ASSUME NEW b, NEW e, EngineOK(b, e), NEW s, StoreOK(b, e, s), NEW rec \in Record, RecOK(b, e, rec),
         rec.kind \in {"start", "config", "stop", "frame"}, rec.session = s.session, NEW r \in Role
  PROVE  SlotOK(b, e, s.session, r, SlotAfter(s, rec, r)) /\ RingOK(SlotAfter(s, rec, r), s.selected)
<1> DEFINE v == s.video[r]
           p == SlotAfter(s, rec, r)
           G(q) == SlotOK(b, e, s.session, r, q) /\ RingOK(q, s.selected)
<1>0. /\ s \in Store /\ v \in Slot /\ s.selected \in BOOLEAN
      /\ SlotOK(b, e, s.session, r, v) /\ RingOK(v, s.selected) /\ rec.stream \in Nat
  BY StoreIs, RecordIs DEF StoreOK
<1>1. CASE p = v
  BY <1>0, <1>1
<1>2. CASE rec.kind = "start" /\ r = rec.role
  <2> DEFINE q == Fresh(rec.stream)
  <2>1. q.started /\ q.id = rec.stream /\ ~ q.have /\ ~ q.requested /\ q.ring = <<>>
    BY <1>0, FreshIs
  <2>2. p = q
    BY <1>2 DEF SlotAfter
  <2> HIDE DEF q, p
  <2>3. G(q)
    BY <1>2, <2>1 DEF SlotOK, RingOK, RecOK
  <2> QED
    BY <2>2, <2>3 DEF p
<1>3. CASE rec.kind = "config" /\ v.started /\ v.id = rec.stream
  <2> DEFINE q == ConfigureSlot(v, rec)
  <2>1. /\ q.started = v.started /\ q.id = v.id /\ q.have /\ q.config = rec.config
        /\ \/ v.have /\ rec.config = v.config /\ q = v
           \/ /\ v.have /\ rec.content = v.content /\ q.content = v.content /\ q.waiting = v.waiting
              /\ q.requested = v.requested /\ q.ring = v.ring /\ q.counted = v.counted /\ q.last = v.last
           \/ q.content = rec.content /\ q.waiting /\ q.requested /\ q.ring = <<>>
    BY <1>0, <1>3, ConfigureIs
  <2>2. p = q
    BY <1>3 DEF SlotAfter
  <2> HIDE DEF q, p
  <2>3. CASE q = v
    BY <1>0, <2>2, <2>3 DEF p
  <2>4. CASE /\ v.have /\ rec.content = v.content /\ q.content = v.content /\ q.waiting = v.waiting
             /\ q.requested = v.requested /\ q.ring = v.ring /\ q.counted = v.counted /\ q.last = v.last
    <3>1. SlotOK(b, e, s.session, r, q)
      BY <1>0, <1>3, <2>1, <2>4 DEF SlotOK, RecOK
    <3>2. RingOK(q, s.selected)
      BY <1>0, <2>1, <2>4 DEF RingOK
    <3> QED
      BY <2>2, <3>1, <3>2 DEF p
  <2>5. CASE q.content = rec.content /\ q.waiting /\ q.requested /\ q.ring = <<>>
    <3>1. SlotOK(b, e, s.session, r, q)
      BY <1>0, <1>3, <2>1, <2>5 DEF SlotOK, RecOK
    <3>2. RingOK(q, s.selected)
      BY <2>5 DEF RingOK
    <3> QED
      BY <2>2, <3>1, <3>2 DEF p
  <2> QED
    BY <2>1, <2>3, <2>4, <2>5
<1>4. CASE rec.kind = "stop" /\ v.started /\ v.id = rec.stream
  <2>1. p = NewSlot
    BY <1>4 DEF SlotAfter
  <2> HIDE DEF p
  <2> QED
    BY <2>1, NewSlotOK DEF p
<1>5. CASE rec.kind = "frame" /\ v.started /\ v.id = rec.stream /\ v.have /\ rec.config = v.config
  <2> DEFINE q == PushFrame(v, rec, s.selected)
  <2>1. p = q
    BY <1>5 DEF SlotAfter
  <2>2. rec \in Frame
    BY <1>5, RecordIs
  <2>3. rec.stream = v.id /\ rec.content = v.content
    BY <1>0, <1>5 DEF RecOK, FrameOK, SlotOK, Chosen
  <2>4. RingOK(q, s.selected)
    BY <1>0, <1>5, <2>2, <2>3, PushKeeps
  <2>5. Pushed(v, q)
    BY <1>0, <2>2, PushIs
  <2> HIDE DEF q, p
  <2>6. SlotOK(b, e, s.session, r, q)
    BY <1>0, <1>5, <2>5 DEF SlotOK, Pushed
  <2> QED
    BY <2>1, <2>4, <2>6 DEF p
<1>6. \/ p = v
      \/ rec.kind = "start" /\ r = rec.role
      \/ rec.kind = "config" /\ v.started /\ v.id = rec.stream
      \/ rec.kind = "stop" /\ v.started /\ v.id = rec.stream
      \/ rec.kind = "frame" /\ v.started /\ v.id = rec.stream /\ v.have /\ rec.config = v.config
  BY DEF SlotAfter
<1> QED
  BY <1>1, <1>2, <1>3, <1>4, <1>5, <1>6

LEMMA IngestKeeps ==
  ASSUME NEW b, NEW e, EngineOK(b, e), NEW s, StoreOK(b, e, s), NEW rec \in Record, RecOK(b, e, rec)
  PROVE  StoreOK(b, e, Ingest(s, rec))
<1> DEFINE s1 == Ingest(s, rec)
<1>1. s1 \in Store /\ Ingested(s, rec, s1)
  BY IngestIs
<1> HIDE DEF s1
<1>2. Lower(e, s1.session)
  <2>1. Lower(e, 0)
    <3>1. e \in Engine /\ e.nextSession # 0
      BY DEF EngineOK, BookOK
    <3> QED
      BY <3>1, EngineIs DEF Lower
  <2>2. Lower(e, s.session)
    BY DEF StoreOK
  <2> QED
    BY <1>1, <2>1, <2>2 DEF Ingested, RecOK
<1>3. ASSUME NEW r \in Role PROVE SlotOK(b, e, s1.session, r, s1.video[r]) /\ RingOK(s1.video[r], s1.selected)
  <2>0. SlotOK(b, e, s.session, r, s.video[r]) /\ RingOK(s.video[r], s.selected) /\ s1.selected = s.selected
    BY <1>1 DEF StoreOK, Ingested
  <2>1. CASE s1.video = s.video /\ s1.session = s.session
    BY <2>0, <2>1
  <2>2. CASE \A x \in Role : s1.video[x] = NewSlot
    BY <2>0, <2>2, NewSlotOK
  <2>3. CASE /\ rec.kind \in {"start", "config", "stop", "frame"} /\ rec.session = s.session
             /\ s1.session = s.session /\ \A x \in Role : s1.video[x] = SlotAfter(s, rec, x)
    BY <2>0, <2>3, SlotAfterOK
  <2> QED
    BY <1>1, <2>1, <2>2, <2>3, RecordIs DEF Ingested, Clears, Ours
<1>4. StoreOK(b, e, s1)
  BY <1>1, <1>2, <1>3 DEF StoreOK
<1> QED
  BY <1>4 DEF s1

-----------------------------------------------------------------------------
\* What the client shows, and will show when it has read what was sent

Seen(v) == [started |-> v.started, id |-> v.id, have |-> v.have, config |-> v.config]
Unseen == [started |-> FALSE, id |-> 0, have |-> FALSE, config |-> 0]
View(s) == [session |-> s.session, hello |-> s.hello, video |-> [r \in Role |-> Seen(s.video[r])]]

SeenAfter(w, rec, r) ==
  LET v == w.video[r] IN
  IF Clears(w, rec) THEN Unseen
  ELSE IF rec.kind \in {"begin", "end"} \/ ~ Ours(w, rec) THEN v
  ELSE IF rec.kind = "start"
       THEN IF r = rec.role THEN [started |-> TRUE, id |-> rec.stream, have |-> FALSE, config |-> 0] ELSE v
  ELSE IF ~ (v.started /\ v.id = rec.stream) THEN v
  ELSE IF rec.kind = "config" THEN [started |-> v.started, id |-> v.id, have |-> TRUE, config |-> rec.config]
  ELSE IF rec.kind = "stop" THEN Unseen
  ELSE v

StepView(w, rec) ==
  IF rec.kind = "hello" THEN [session |-> w.session, hello |-> TRUE, video |-> w.video]
  ELSE IF ~ w.hello THEN w
  ELSE [session |-> IF rec.kind = "begin" THEN rec.session
                    ELSE IF rec.kind = "end" /\ rec.session = w.session THEN 0 ELSE w.session,
        hello |-> TRUE,
        video |-> [r \in Role |-> SeenAfter(w, rec, r)]]

\* The record may come when the client shows w.
Fit(b, w, rec) ==
  /\ rec.kind # "hello" => w.hello
  /\ rec.kind = "start" => rec.session >= w.session
  /\ rec.kind = "frame" =>
       LET v == w.video[b[rec.stream].role] IN
       w.session = rec.session /\ v.started /\ v.id = rec.stream /\ v.have /\ v.config = rec.config

\* g are the views from w on as the records of q are read.
Trail(b, q, w, g) ==
  /\ g[0] = w
  /\ \A k \in 1..Len(q) : Fit(b, g[k - 1], q[k]) /\ g[k] = StepView(g[k - 1], q[k])
Leads(b, q, w, z) == \E g : Trail(b, q, w, g) /\ g[Len(q)] = z

\* z is what the engine believes the client shows.
Match(b, z, e) ==
  /\ z.hello /\ Lower(e, z.session)
  /\ e.state.session # 0 =>
       /\ z.session = e.state.session
       /\ \A r \in DOMAIN e.state.video :
            LET v == e.state.video[r] IN
            b[v.stream].session = e.state.session =>
              /\ z.video[r].started /\ z.video[r].id = v.stream
              /\ z.video[r].have <=> v.config # 0
              /\ v.config # 0 => z.video[r].config = v.config

Follows(b, e, s) == e.serving => \E z : Leads(b, e.down, View(s), z) /\ Match(b, z, e)

LEMMA ViewIngest ==
  ASSUME NEW b, NEW e, NEW s, StoreOK(b, e, s), NEW rec \in Record, RecOK(b, e, rec)
  PROVE  View(Ingest(s, rec)) = StepView(View(s), rec)
<1> DEFINE s1 == Ingest(s, rec)
           w == View(s)
<1>0. s1 \in Store /\ Ingested(s, rec, s1) /\ s \in Store /\ s.hello \in BOOLEAN
  BY IngestIs, StoreIs DEF StoreOK
<1> HIDE DEF s1
<1>1. w.session = s.session /\ w.hello = s.hello /\ \A r \in Role : w.video[r] = Seen(s.video[r])
  BY DEF View
<1>2. CASE rec.kind = "hello"
  <2>1. s1.session = s.session /\ s1.video = s.video /\ s1.hello = TRUE
    BY <1>0, <1>2 DEF Ingested
  <2>2. View(s1) = StepView(w, rec)
    BY <1>2, <2>1 DEF View, StepView
  <2> QED
    BY <2>2 DEF s1
<1>3. CASE rec.kind # "hello" /\ ~ s.hello
  <2>1. s1.session = s.session /\ s1.video = s.video /\ s1.hello = s.hello
    BY <1>0, <1>3 DEF Ingested
  <2>2. View(s1) = StepView(w, rec)
    BY <1>1, <1>3, <2>1 DEF View, StepView
  <2> QED
    BY <2>2 DEF s1
<1>4. CASE rec.kind # "hello" /\ s.hello
  <2>1. /\ s1.session = IF rec.kind = "begin" THEN rec.session
                        ELSE IF rec.kind = "end" /\ rec.session = s.session THEN 0 ELSE s.session
        /\ Clears(s, rec) => \A r \in Role : s1.video[r] = NewSlot
        /\ ~ Clears(s, rec) /\ (rec.kind \in {"begin", "end"} \/ ~ Ours(s, rec)) => s1.video = s.video
        /\ rec.kind \notin {"begin", "end"} /\ Ours(s, rec) => \A r \in Role : s1.video[r] = SlotAfter(s, rec, r)
        /\ s1.hello = TRUE
    BY <1>0, <1>4 DEF Ingested
  <2>2. ASSUME NEW r \in Role PROVE Seen(s1.video[r]) = SeenAfter(w, rec, r)
    <3>0. /\ Clears(w, rec) <=> Clears(s, rec)
          /\ Ours(w, rec) <=> Ours(s, rec)
      BY <1>1 DEF Clears, Ours
    <3>1. CASE Clears(s, rec)
      <4>1. s1.video[r] = NewSlot /\ SeenAfter(w, rec, r) = Unseen
        BY <2>1, <3>0, <3>1 DEF SeenAfter
      <4>2. Seen(NewSlot) = Unseen
        BY DEF Seen, Unseen, NewSlot
      <4> QED
        BY <4>1, <4>2
    <3>2. CASE ~ Clears(s, rec) /\ (rec.kind \in {"begin", "end"} \/ ~ Ours(s, rec))
      BY <1>1, <2>1, <3>0, <3>2 DEF SeenAfter
    <3>3. CASE ~ Clears(s, rec) /\ rec.kind \notin {"begin", "end"} /\ Ours(s, rec)
      <4> DEFINE v == s.video[r]
                 p == SlotAfter(s, rec, r)
      <4>0. v \in Slot /\ s.selected \in BOOLEAN
        BY <1>0, StoreIs
      <4>1. s1.video[r] = p /\ w.video[r] = Seen(v) /\ Seen(v).started = v.started /\ Seen(v).id = v.id
        BY <1>1, <2>1, <3>3 DEF Seen
      <4>2. CASE rec.kind = "start"
        <5>1. rec.stream \in Nat
          BY <4>2, RecordIs
        <5>2. r = rec.role => Seen(p) = [started |-> TRUE, id |-> rec.stream, have |-> FALSE, config |-> 0]
          BY <4>2, <5>1, FreshIs DEF SlotAfter, Seen, Fresh, NewSlot
        <5>3. r # rec.role => p = v
          BY <4>2 DEF SlotAfter
        <5> QED
          BY <3>0, <3>3, <4>1, <4>2, <5>2, <5>3 DEF SeenAfter
      <4>3. CASE rec.kind # "start" /\ ~ (v.started /\ v.id = rec.stream)
        <5>1. p = v
          BY <4>3 DEF SlotAfter
        <5> QED
          BY <3>0, <3>3, <4>1, <4>3, <5>1 DEF SeenAfter
      <4>4. CASE v.started /\ v.id = rec.stream /\ rec.kind = "config"
        <5>1. p = ConfigureSlot(v, rec)
          BY <4>4 DEF SlotAfter
        <5>2. p.started = v.started /\ p.id = v.id /\ p.have = TRUE /\ p.config = rec.config
          <6>1. p \in Slot /\ p.started = v.started /\ p.id = v.id /\ p.have /\ p.config = rec.config
            <7> HIDE DEF v, p
            <7> QED
              BY <4>0, <4>4, <5>1, ConfigureIs
          <6> QED
            BY <6>1, SlotIs
        <5> QED
          BY <3>0, <3>3, <4>1, <4>4, <5>2 DEF SeenAfter, Seen
      <4>5. CASE v.started /\ v.id = rec.stream /\ rec.kind = "stop"
        <5>1. p = NewSlot
          BY <4>5 DEF SlotAfter
        <5> QED
          BY <3>0, <3>3, <4>1, <4>5, <5>1 DEF SeenAfter, Seen, Unseen, NewSlot
      <4>6. CASE v.started /\ v.id = rec.stream /\ rec.kind = "frame"
        <5>1. Seen(p) = Seen(v)
          <6>1. CASE v.have /\ rec.config = v.config
            <7>1. p = PushFrame(v, rec, s.selected)
              BY <4>6, <6>1 DEF SlotAfter
            <7>2. Pushed(v, p)
              BY <4>0, <4>6, <7>1, PushIs, RecordIs
            <7> QED
              BY <7>2 DEF Pushed, Seen
          <6>2. CASE ~ (v.have /\ rec.config = v.config)
            BY <4>6, <6>2 DEF SlotAfter
          <6> QED
            BY <6>1, <6>2
        <5> QED
          BY <3>0, <3>3, <4>1, <4>6, <5>1 DEF SeenAfter
      <4> QED
        BY <1>4, <3>3, <4>2, <4>3, <4>4, <4>5, <4>6, RecordIs
    <3> QED
      BY <3>1, <3>2, <3>3
  <2>3. View(s1) = StepView(w, rec)
    <3>1. View(s1) = [session |-> s1.session, hello |-> TRUE, video |-> [r \in Role |-> SeenAfter(w, rec, r)]]
      BY <2>1, <2>2 DEF View
    <3> QED
      BY <1>1, <1>4, <2>1, <3>1 DEF StepView
  <2> QED
    BY <2>3 DEF s1
<1> QED
  BY <1>2, <1>3, <1>4

-----------------------------------------------------------------------------
\* Trails

LEMMA LeadsNowhere == \A b, w : Leads(b, <<>>, w, w)
<1> TAKE b, w
<1> DEFINE g == [k \in {0} |-> w]
<1>1. Trail(b, <<>>, w, g) /\ g[0] = w
  BY DEF Trail
<1> QED
  BY <1>1 DEF Leads

LEMMA LeadsFrom == ASSUME NEW b, NEW w, NEW z, Leads(b, <<>>, w, z) PROVE z = w
  BY DEF Leads, Trail

LEMMA LeadsOn ==
  ASSUME NEW b, NEW q \in Seq(Record), NEW w, NEW z, Leads(b, q, w, z), NEW rec \in Record, Fit(b, z, rec)
  PROVE  Leads(b, Append(q, rec), w, StepView(z, rec))
<1>1. PICK g : Trail(b, q, w, g) /\ g[Len(q)] = z
  BY DEF Leads
<1> DEFINE n == Len(q)
           q1 == Append(q, rec)
           g1 == [k \in 0..n + 1 |-> IF k <= n THEN g[k] ELSE StepView(z, rec)]
<1>2. n \in Nat /\ Len(q1) = n + 1 /\ q1[n + 1] = rec /\ \A k \in 1..n : q1[k] = q[k]
  OBVIOUS
<1> HIDE DEF n, q1
<1>3. g1[0] = w /\ g1[n + 1] = StepView(z, rec) /\ g1[n] = z /\ \A k \in 1..n : g1[k] = g[k] /\ g1[k - 1] = g[k - 1]
  BY <1>1, <1>2 DEF Trail, n
<1> HIDE DEF g1
<1>4. ASSUME NEW k \in 1..n + 1 PROVE Fit(b, g1[k - 1], q1[k]) /\ g1[k] = StepView(g1[k - 1], q1[k])
  <2>1. CASE k \in 1..n
    BY <1>1, <1>2, <1>3, <2>1 DEF Trail, n
  <2>2. CASE k = n + 1
    <3>1. k - 1 = n
      BY <1>2, <2>2
    <3> QED
      BY <1>2, <1>3, <2>2, <3>1
  <2> QED
    BY <1>2, <2>1, <2>2
<1>5. Trail(b, q1, w, g1)
  BY <1>2, <1>3, <1>4 DEF Trail
<1>6. Leads(b, q1, w, StepView(z, rec))
  BY <1>2, <1>3, <1>5 DEF Leads
<1> QED
  BY <1>6 DEF q1

LEMMA LeadsPast ==
  ASSUME NEW b, NEW q \in Seq(Record), q # <<>>, NEW w, NEW z, Leads(b, q, w, z)
  PROVE  Fit(b, w, Head(q)) /\ Leads(b, Tail(q), StepView(w, Head(q)), z)
<1>1. PICK g : Trail(b, q, w, g) /\ g[Len(q)] = z
  BY DEF Leads
<1> DEFINE n == Len(q)
           q1 == Tail(q)
           g1 == [k \in 0..n - 1 |-> g[k + 1]]
<1>2. n \in Nat \ {0} /\ Len(q1) = n - 1 /\ q[1] = Head(q) /\ \A k \in 1..n - 1 : q1[k] = q[k + 1]
  OBVIOUS
<1> HIDE DEF n, q1
<1>3. g[0] = w /\ g[n] = z /\ \A k \in 1..n : Fit(b, g[k - 1], q[k]) /\ g[k] = StepView(g[k - 1], q[k])
  BY <1>1 DEF Trail, n
<1>4. Fit(b, w, Head(q)) /\ g[1] = StepView(w, Head(q))
  <2>1. 1 \in 1..n /\ 1 - 1 = 0
    BY <1>2
  <2> QED
    BY <1>2, <1>3, <2>1
<1>5. g1[0] = StepView(w, Head(q)) /\ g1[n - 1] = z /\ \A k \in 1..n - 1 : g1[k] = g[k + 1] /\ g1[k - 1] = g[k]
  <2>1. 0 \in 0..n - 1 /\ n - 1 \in 0..n - 1 /\ (n - 1) + 1 = n /\ 0 + 1 = 1
    BY <1>2
  <2>2. \A k \in 1..n - 1 : k \in 0..n - 1 /\ k - 1 \in 0..n - 1 /\ (k - 1) + 1 = k
    BY <1>2
  <2> QED
    BY <1>3, <1>4, <2>1, <2>2
<1> HIDE DEF g1
<1>6. ASSUME NEW k \in 1..n - 1 PROVE Fit(b, g1[k - 1], q1[k]) /\ g1[k] = StepView(g1[k - 1], q1[k])
  <2>1. k + 1 \in 1..n /\ (k + 1) - 1 = k
    BY <1>2
  <2>2. Fit(b, g[(k + 1) - 1], q[k + 1]) /\ g[k + 1] = StepView(g[(k + 1) - 1], q[k + 1])
    BY <1>3, <2>1
  <2> QED
    BY <1>2, <1>5, <2>1, <2>2
<1>7. Leads(b, q1, StepView(w, Head(q)), z)
  BY <1>2, <1>5, <1>6 DEF Trail, Leads
<1> QED
  BY <1>4, <1>7 DEF q1

LEMMA LeadsOnward ==
  ASSUME NEW b, NEW b1, NEW e, Extends(b, b1), NEW q, RecordsOK(b, e, q), NEW w, NEW z, Leads(b, q, w, z),
         q \in Seq(Record)
  PROVE  Leads(b1, q, w, z)
<1>1. PICK g : Trail(b, q, w, g) /\ g[Len(q)] = z
  BY DEF Leads
<1>2. ASSUME NEW k \in 1..Len(q) PROVE Fit(b1, g[k - 1], q[k]) /\ g[k] = StepView(g[k - 1], q[k])
  <2>1. Fit(b, g[k - 1], q[k]) /\ g[k] = StepView(g[k - 1], q[k])
    BY <1>1 DEF Trail
  <2>2. q[k].kind = "frame" => b1[q[k].stream].role = b[q[k].stream].role
    BY DEF RecordsOK, RecOK, FrameOK, Extends
  <2> QED
    BY <2>1, <2>2 DEF Fit
<1>3. Trail(b1, q, w, g)
  BY <1>1, <1>2 DEF Trail
<1> QED
  BY <1>1, <1>3 DEF Leads

-----------------------------------------------------------------------------
\* What the client will show stays what the engine believes.

World(b, e, s) == EngineOK(b, e) /\ StoreOK(b, e, s)

LEMMA WorldOnward ==
  ASSUME NEW b, NEW b1, NEW e, NEW e1, NEW s, World(b, e, s), EngineOK(b1, e1), Extends(b, b1), Onward(e, e1)
  PROVE  World(b1, e1, s)
<1>1. e \in Engine /\ e1 \in Engine /\ BookOK(b, e) /\ StoreOK(b, e, s)
  BY DEF World, EngineOK
<1> QED
  BY <1>1, StoreOnward DEF World

LEMMA ShownRole ==
  ASSUME NEW b, NEW e, EngineOK(b, e), NEW r \in DOMAIN e.state.video
  PROVE  /\ r \in Role /\ ShownOK(b, e, r, e.state.video[r])
         /\ e.state.video[r].stream \in DOMAIN b /\ b[e.state.video[r].stream].role = r
         /\ e.state.video[r].stream \in Nat /\ e.state.video[r].config \in Nat
  BY EngineIs, ShownIs DEF EngineOK, StateOK, ShownOK, Told

LEMMA MatchOnward ==
  ASSUME NEW b, NEW b1, NEW e, NEW e1, EngineOK(b, e), EngineOK(b1, e1), Extends(b, b1), Onward(e, e1),
         e1.state = e.state, NEW z, Match(b, z, e)
  PROVE  Match(b1, z, e1)
<1>1. Lower(e1, z.session) /\ z.hello
  BY LowerOnward DEF EngineOK, Match
<1>2. \A r \in DOMAIN e.state.video : b1[e.state.video[r].stream].session = b[e.state.video[r].stream].session
  BY ShownRole DEF Extends
<1> QED
  BY <1>1, <1>2 DEF Match

LEMMA FollowsOnward ==
  ASSUME NEW b, NEW b1, NEW e, NEW e1, NEW s, EngineOK(b, e), Follows(b, e, s),
         EngineOK(b1, e1), Extends(b, b1), Onward(e, e1), e1.state = e.state,
         e1.serving => e.serving /\ e1.down = e.down
  PROVE  Follows(b1, e1, s)
<1> SUFFICES ASSUME e1.serving PROVE \E z : Leads(b1, e1.down, View(s), z) /\ Match(b1, z, e1)
  BY DEF Follows
<1>1. PICK z : Leads(b, e.down, View(s), z) /\ Match(b, z, e)
  BY DEF Follows
<1>2. RecordsOK(b, e, e.down) /\ e.down \in Seq(Record)
  BY EngineIs DEF EngineOK
<1>3. Leads(b1, e1.down, View(s), z)
  BY <1>1, <1>2, LeadsOnward
<1> QED
  BY <1>1, <1>3, MatchOnward

\* A record is told that fits.
LEMMA FollowsTold ==
  ASSUME NEW b, NEW e, NEW e1, NEW e2, NEW s, EngineOK(b, e), EngineOK(b, e2), NEW rec \in Record, Sent(e1, e2, rec),
         e1.serving => e.serving /\ e1.down = e.down,
         NEW z, e.serving => Leads(b, e.down, View(s), z), Fit(b, z, rec), Match(b, StepView(z, rec), e2)
  PROVE  Follows(b, e2, s)
<1> SUFFICES ASSUME e2.serving PROVE Leads(b, e2.down, View(s), StepView(z, rec))
  BY DEF Follows
<1>1. e.serving /\ e2.down = Append(e.down, rec) /\ e.down \in Seq(Record)
  BY EngineIs DEF Sent, EngineOK
<1> QED
  BY <1>1, LeadsOn

LEMMA StepFrame ==
  ASSUME NEW z, NEW f \in Frame
  PROVE  /\ f.kind # "hello" /\ f.kind # "start"
         /\ z.hello => /\ StepView(z, f).session = z.session /\ StepView(z, f).hello
                       /\ \A r \in Role : StepView(z, f).video[r] = z.video[r]
  BY FrameIs DEF StepView, SeenAfter, Clears

\* A frame the server wants is one the client takes.
LEMMA MatchFrame ==
  ASSUME NEW b, NEW e, EngineOK(b, e), NEW z, Match(b, z, e), NEW f \in Frame, FrameOK(b, f), Wanted(e, f)
  PROVE  Fit(b, z, f) /\ Match(b, StepView(z, f), e)
<1>1. PICK r \in DOMAIN e.state.video : e.state.video[r].stream = f.stream /\ e.state.video[r].config = f.config
  BY DEF Wanted
<1>2. r \in Role /\ b[f.stream].role = r /\ f.session = b[f.stream].session /\ f.stream \in DOMAIN b
  BY <1>1, ShownRole DEF FrameOK
<1>3. e.state.session = f.session /\ f.session # 0 /\ f.config # 0
  <2>1. e \in Engine /\ BookOK(b, e)
    BY DEF EngineOK
  <2>2. b[f.stream].session # 0
    BY <1>2, <2>1, EngineIs DEF BookOK
  <2> QED
    BY <1>2, <2>2 DEF Wanted
<1>4. /\ z.hello /\ z.session = f.session
      /\ z.video[r].started /\ z.video[r].id = f.stream /\ z.video[r].have /\ z.video[r].config = f.config
  BY <1>1, <1>2, <1>3 DEF Match
<1>5. Fit(b, z, f)
  BY <1>2, <1>4, StepFrame DEF Fit
<1>6. \A x \in DOMAIN e.state.video : x \in Role
  BY ShownRole
<1>7. Match(b, StepView(z, f), e)
  BY <1>4, <1>6, StepFrame DEF Match
<1> QED
  BY <1>5, <1>7

LEMMA MatchTurn ==
  ASSUME NEW b, NEW e, EngineOK(b, e), e.control # <<>>, Heeded(e.state, Head(e.control)),
         NEW e1, Turned(e, e1, Noted(e.state, Head(e.control))), EngineOK(b, e1), Onward(e, e1),
         NEW z, Match(b, z, e)
  PROVE  Fit(b, z, Head(e.control)) /\ Match(b, StepView(z, Head(e.control)), e1)
<1> DEFINE event == Head(e.control)
           y == StepView(z, event)
<1>0. e \in Engine /\ e1 \in Engine /\ e.state \in State /\ BookOK(b, e) /\ ControlOK(b, e)
  BY EngineIs DEF EngineOK
<1>1. event \in Event /\ event = e.control[1] /\ 1 \in DOMAIN e.control /\ EventOK(b, e, event)
  BY <1>0, HeadOf DEF ControlOK
<1>2. RecOK(b, e1, event)
  BY <1>0, NotedRecOK
<1>3. NotedAs(e.state, event, e1.state)
  BY <1>0, <1>1, NotedIs DEF Turned
<1>4. z.hello /\ Lower(e, z.session) /\ z.session \in Nat /\ Lower(e1, z.session)
  BY <1>0, LowerOnward DEF Match, Lower
<1>5. Lower(e1, 0)
  <2>1. e1.nextSession # 0
    BY DEF EngineOK, BookOK
  <2> QED
    BY <1>0, <2>1, EngineIs DEF Lower
<1>6. Fit(b, z, event)
  BY <1>1, <1>4, EventIs DEF Fit, Lower, Opens
<1>7. \A r \in DOMAIN e1.state.video : r \in Role /\ b[e1.state.video[r].stream].role = r
  BY ShownRole
<1>8. \A r \in DOMAIN e.state.video : r \in Role /\ b[e.state.video[r].stream].role = r
  BY ShownRole
<1>9. event.session \in Nat /\ event.kind \in {"begin", "end", "start", "config", "stop"} /\ event.kind # "hello"
  BY <1>1, EventIs
<1>14. Heeded(e.state, event)
  OBVIOUS
<1> HIDE DEF event
<1>10. /\ y.hello
       /\ y.session = (IF event.kind = "begin" THEN event.session
                       ELSE IF event.kind = "end" /\ event.session = z.session THEN 0 ELSE z.session)
       /\ \A r \in Role : y.video[r] = SeenAfter(z, event, r)
  BY <1>4, <1>9 DEF StepView
<1> HIDE DEF y
<1>11. Lower(e1, y.session)
  BY <1>2, <1>4, <1>5, <1>10 DEF RecOK
<1> DEFINE S(x, r) ==
             LET v == e1.state.video[r] IN
             b[v.stream].session = e1.state.session =>
               /\ x.video[r].started /\ x.video[r].id = v.stream
               /\ x.video[r].have <=> v.config # 0
               /\ v.config # 0 => x.video[r].config = v.config
<1>12. ASSUME e1.state.session # 0
       PROVE  y.session = e1.state.session /\ \A r \in DOMAIN e1.state.video : S(y, r)
  <2>1. CASE event.kind = "begin"
    BY <1>3, <1>10, <2>1 DEF NotedAs
  <2>2. CASE event.kind = "end"
    BY <1>3, <1>12, <2>2 DEF NotedAs
  <2>3. CASE event.kind \in {"start", "config", "stop"}
    <3>1. e1.state.session = e.state.session /\ z.session = e.state.session /\ y.session = z.session
      BY <1>3, <1>10, <1>12, <2>3 DEF NotedAs, Match
    <3>2. \A r \in DOMAIN e.state.video :
            LET v == e.state.video[r] IN
            b[v.stream].session = e.state.session =>
              /\ z.video[r].started /\ z.video[r].id = v.stream
              /\ z.video[r].have <=> v.config # 0
              /\ v.config # 0 => z.video[r].config = v.config
      BY <1>12, <3>1 DEF Match
    <3>3. ~ Clears(z, event) /\ (Ours(z, event) <=> event.session = e.state.session)
      BY <1>12, <2>3, <3>1 DEF Clears, Ours
    <3>4. ASSUME NEW r \in DOMAIN e1.state.video PROVE S(y, r)
      <4>0. r \in Role /\ y.video[r] = SeenAfter(z, event, r)
        BY <1>7, <1>10
      <4>1. CASE event.kind = "start"
        <5>1. event.session = b[event.stream].session
          BY <1>1, <4>1 DEF EventOK
        <5>2. CASE r = event.role
          <6>1. e1.state.video[r] = [stream |-> event.stream, config |-> 0, content |-> NoContent]
            BY <1>3, <4>1, <5>2 DEF NotedAs
          <6>2. event.session = e.state.session => y.video[r] = [started |-> TRUE, id |-> event.stream, have |-> FALSE, config |-> 0]
            BY <3>3, <4>0, <4>1, <5>2 DEF SeenAfter
          <6> QED
            BY <3>1, <5>1, <6>1, <6>2
        <5>3. CASE r # event.role
          <6>1. r \in DOMAIN e.state.video /\ e1.state.video[r] = e.state.video[r]
            BY <1>3, <4>1, <5>3 DEF NotedAs
          <6>2. y.video[r] = z.video[r]
            BY <3>3, <4>0, <4>1, <5>3 DEF SeenAfter
          <6> QED
            BY <3>1, <3>2, <6>1, <6>2
        <5> QED
          BY <5>2, <5>3
      <4>2. CASE event.kind = "config"
        <5>0. event.stream \in DOMAIN b /\ event.session = b[event.stream].session /\ event.config # 0
          <6>1. Chosen(b, event.stream, event.config, event.content) /\ event.stream \in DOMAIN b
                /\ event.session = b[event.stream].session
            BY <1>1, <4>2 DEF EventOK
          <6>2. b[event.stream].contents \in Seq(Content)
            <7>1. b[event.stream] \in Chapter
              BY <6>1 DEF EngineOK, Book
            <7> QED
              BY <7>1 DEF Chapter, Contents
          <6> QED
            BY <6>1, <6>2 DEF Chosen
        <5>1. r \in DOMAIN e.state.video
              /\ e1.state.video[r] = IF e.state.video[r].stream # event.stream THEN e.state.video[r]
                                ELSE [stream |-> event.stream, config |-> event.config, content |-> event.content]
          BY <1>3, <4>2 DEF NotedAs
        <5>2. CASE e.state.video[r].stream # event.stream
          <6>1. e1.state.video[r] = e.state.video[r]
            BY <5>1, <5>2
          <6>2. b[e.state.video[r].stream].session = e.state.session => y.video[r] = z.video[r]
            BY <3>2, <3>3, <4>0, <4>2, <5>1, <5>2 DEF SeenAfter
          <6> QED
            BY <3>1, <3>2, <5>1, <6>1, <6>2
        <5>3. CASE e.state.video[r].stream = event.stream
          <6> DEFINE v == e1.state.video[r]
          <6>1. v.stream = event.stream /\ v.config = event.config
            BY <5>1, <5>3
          <6>2. event.session = e.state.session =>
                  /\ z.video[r].started /\ z.video[r].id = event.stream
                  /\ y.video[r] = [started |-> z.video[r].started, id |-> z.video[r].id, have |-> TRUE, config |-> event.config]
            BY <3>2, <3>3, <4>0, <4>2, <5>0, <5>1, <5>3 DEF SeenAfter
          <6> HIDE DEF v
          <6>3. b[v.stream].session = e1.state.session =>
                   /\ y.video[r].started /\ y.video[r].id = v.stream
                   /\ y.video[r].have <=> v.config # 0
                   /\ v.config # 0 => y.video[r].config = v.config
            BY <3>1, <5>0, <6>1, <6>2
          <6> QED
            BY <6>3 DEF v
        <5> QED
          BY <5>2, <5>3
      <4>3. CASE event.kind = "stop"
        <5>1. r \in DOMAIN e.state.video /\ e1.state.video[r] = e.state.video[r] /\ e.state.video[r].stream # event.stream
          BY <1>3, <4>3 DEF NotedAs
        <5>2. b[e.state.video[r].stream].session = e.state.session => y.video[r] = z.video[r]
          BY <3>2, <3>3, <4>0, <4>3, <5>1 DEF SeenAfter
        <5> QED
          BY <3>1, <3>2, <5>1, <5>2
      <4> QED
        BY <2>3, <4>1, <4>2, <4>3
    <3> QED
      BY <3>1, <3>4
  <2> QED
    BY <1>9, <2>1, <2>2, <2>3
<1>13. Match(b, y, e1)
  BY <1>10, <1>11, <1>12 DEF Match
<1> QED
  BY <1>6, <1>13 DEF event, y

-----------------------------------------------------------------------------
\* What a screen that waits has asked for

Heard(e, s, r) ==
  Current(e, s, r) /\ s.selected /\ s.video[r].have /\ s.video[r].waiting
    => AskedFor(e, s, r) \/ r \in e.lost

Hears(e, s) == e.serving /\ ~ e.fatal => \A r \in Role : Heard(e, s, r)

Stage(b, e, s) == World(b, e, s) /\ Follows(b, e, s) /\ Hears(e, s)

Holds(q, rec) == \E i \in DOMAIN q : q[i] = rec

LEMMA ComingIs ==
  ASSUME NEW e, NEW s, NEW r
  PROVE  Coming(e, s, r) <=>
           \E rec : /\ Shows(rec, s.session, s.video[r], r)
                    /\ Holds(e.down, rec) \/ Holds(e.video, rec) \/ Holds(e.control, rec)
<1>1. \A q, rec : rec \in ToSet(q) <=> Holds(q, rec)
  BY DEF ToSet, Holds
<1> QED
  BY <1>1 DEF Coming

LEMMA HoldsAppend ==
  ASSUME NEW X, NEW q \in Seq(X), NEW x \in X
  PROVE  Holds(Append(q, x), x) /\ \A rec : Holds(q, rec) => Holds(Append(q, x), rec)
<1>1. Len(q) + 1 \in DOMAIN Append(q, x) /\ Append(q, x)[Len(q) + 1] = x
  OBVIOUS
<1>2. \A i \in DOMAIN q : i \in DOMAIN Append(q, x) /\ Append(q, x)[i] = q[i]
  OBVIOUS
<1> QED
  BY <1>1, <1>2 DEF Holds

LEMMA HoldsTail ==
  ASSUME NEW X, NEW q \in Seq(X), q # <<>>, NEW rec, Holds(q, rec)
  PROVE  rec = Head(q) \/ Holds(Tail(q), rec)
<1>1. PICK i \in DOMAIN q : q[i] = rec
  BY DEF Holds
<1>2. i \in 1..Len(q) /\ (i = 1 => rec = Head(q))
  BY <1>1
<1>3. i # 1 => i - 1 \in DOMAIN Tail(q) /\ Tail(q)[i - 1] = rec
  BY <1>1, <1>2
<1> QED
  BY <1>2, <1>3 DEF Holds

\* Nothing that was to come or was asked for got lost, but for what is shown.
Keeps(e, e1, s, r) ==
  /\ e.asked \cup e.lost \subseteq e1.asked \cup e1.lost /\ e1.up = e.up
  /\ \A rec : /\ Shows(rec, s.session, s.video[r], r)
              /\ Holds(e.down, rec) \/ Holds(e.video, rec) \/ Holds(e.control, rec)
              => \/ Holds(e1.down, rec) \/ Holds(e1.video, rec) \/ Holds(e1.control, rec)
                 \/ r \in e1.lost

LEMMA HeardOn ==
  ASSUME NEW e, NEW e1, NEW s, NEW r, Heard(e, s, r), Current(e, s, r), Keeps(e, e1, s, r)
  PROVE  Heard(e1, s, r)
<1> SUFFICES ASSUME s.selected, s.video[r].have, s.video[r].waiting
             PROVE  AskedFor(e1, s, r) \/ r \in e1.lost
  BY DEF Heard
<1>1. AskedFor(e, s, r) \/ r \in e.lost
  BY DEF Heard
<1>2. r \in e.lost \/ r \in e.asked => r \in e1.asked \/ r \in e1.lost
  BY DEF Keeps
<1>3. Coming(e, s, r) => Coming(e1, s, r) \/ r \in e1.lost
  BY ComingIs DEF Keeps
<1> QED
  BY <1>1, <1>2, <1>3 DEF AskedFor, Keeps

\* Steps of the engine that touch none of it
Quiet(e, e1) ==
  /\ Still(e, e1) /\ e1.video = e.video /\ e1.fatal = e.fatal
  /\ e.asked \cup e.lost \subseteq e1.asked \cup e1.lost
  /\ e1.serving => e.serving /\ e1.down = e.down /\ e1.up = e.up

LEMMA QuietStage ==
  ASSUME NEW b, NEW e, NEW e1, NEW s, Stage(b, e, s), EngineOK(b, e1), Onward(e, e1), Quiet(e, e1)
  PROVE  Stage(b, e1, s)
<1>1. Extends(b, b) /\ EngineOK(b, e) /\ Follows(b, e, s)
  BY ExtendsSelf DEF Stage, World
<1>2. World(b, e1, s)
  BY <1>1, WorldOnward DEF Stage
<1>3. Follows(b, e1, s)
  BY <1>1, FollowsOnward DEF Quiet, Still
<1>4. ASSUME e1.serving, ~ e1.fatal, NEW r \in Role PROVE Heard(e1, s, r)
  <2>1. Heard(e, s, r)
    BY <1>4 DEF Stage, Hears, Quiet
  <2>2. CASE Current(e, s, r)
    <3>1. Keeps(e, e1, s, r)
      BY <1>4 DEF Quiet, Still, Keeps
    <3> QED
      BY <2>1, <2>2, <3>1, HeardOn
  <2>3. CASE ~ Current(e, s, r)
    BY <2>3 DEF Heard, Current, Screen, Quiet, Still
  <2> QED
    BY <2>2, <2>3
<1>5. Hears(e1, s)
  BY <1>4 DEF Hears
<1> QED
  BY <1>2, <1>3, <1>5 DEF Stage

-----------------------------------------------------------------------------
\* An event of the queue

LEMMA TurnHeard ==
  ASSUME NEW b, NEW e, NEW e1, NEW e2, NEW s, EngineOK(b, e), e.control # <<>>, EngineOK(b, e1),
         Heeded(e.state, Head(e.control)), Turned(e, e1, Noted(e.state, Head(e.control))),
         EngineOK(b, e2), Sent(e1, e2, Head(e.control)), Hears(e, s)
  PROVE  Hears(e2, s)
<1> DEFINE event == Head(e.control)
<1>1. /\ e \in Engine /\ e.state \in State /\ e.control \in Seq(Event) /\ e.down \in Seq(Record)
  BY EngineIs DEF EngineOK
<1>2. event \in Event /\ event \in Record
  BY <1>1, HeadOf DEF Record
<1>3. NotedAs(e.state, event, e1.state)
  BY <1>1, <1>2, NotedIs DEF Turned
<1>4. event.kind \in {"begin", "end", "start", "config", "stop"}
  BY <1>2, EventIs
<1>14. Tail(e.control) \in Seq(Event) /\ \A rec : Holds(e.control, rec) => rec = event \/ Holds(Tail(e.control), rec)
  BY <1>1, HoldsTail
<1>15. Sent(e1, e2, event) /\ e1.control = Tail(e.control)
  BY DEF Turned
<1> HIDE DEF event
<1> SUFFICES ASSUME e2.serving, ~ e2.fatal, NEW r \in Role PROVE Heard(e2, s, r)
  BY DEF Hears
<1>5. /\ e.serving /\ ~ e.fatal /\ e2.down = Append(e.down, event) /\ e2.up = e.up
      /\ e2.state = e1.state /\ e2.session = e.session /\ e2.taps = e.taps /\ e2.asked = e.asked /\ e2.lost = e.lost
      /\ e2.video = e.video /\ e2.control = Tail(e.control)
  BY <1>15 DEF Sent, Apart, Still, Turned
<1>6. Heard(e, s, r)
  BY <1>5 DEF Hears
<1>7. Holds(e2.down, event) /\ \A rec : Holds(e.down, rec) => Holds(e2.down, rec)
  BY <1>1, <1>2, <1>5, HoldsAppend
<1> SUFFICES ASSUME Current(e2, s, r) PROVE Heard(e2, s, r)
  BY DEF Heard
<1>8. CASE Current(e, s, r)
  <2>1. Keeps(e, e2, s, r)
    BY <1>5, <1>7, <1>14 DEF Keeps
  <2> QED
    BY <1>6, <1>8, <2>1, HeardOn
<1>9. CASE ~ Current(e, s, r)
  <2>1. ~ (e1.state.session = e.state.session /\ r \in DOMAIN e.state.video /\ e1.state.video[r].stream = e.state.video[r].stream)
    BY <1>5, <1>9 DEF Current, Screen
  <2>2. r \in DOMAIN e1.state.video /\ e1.state.session # 0
    BY <1>5 DEF Current
  <2>3. event.kind = "start" /\ r = event.role
    BY <1>3, <1>4, <2>1, <2>2 DEF NotedAs
  <2>4. Shows(event, s.session, s.video[r], r)
    BY <2>3 DEF Shows
  <2>5. Coming(e2, s, r)
    BY <1>7, <2>4, ComingIs
  <2> QED
    BY <2>5 DEF Heard, AskedFor
<1> QED
  BY <1>8, <1>9

LEMMA PassHeard ==
  ASSUME NEW b, NEW e, NEW e1, NEW s, EngineOK(b, e), e.control # <<>>, EngineOK(b, e1),
         ~ Heeded(e.state, Head(e.control)), Turned(e, e1, e.state), Hears(e, s)
  PROVE  Hears(e1, s)
<1> DEFINE event == Head(e.control)
<1>1. /\ e \in Engine /\ e.control \in Seq(Event)
  BY EngineIs DEF EngineOK
<1>2. \A rec : Holds(e.control, rec) => rec = event \/ Holds(Tail(e.control), rec)
  BY <1>1, HoldsTail
<1>3. /\ event.kind \in {"end", "config"}
      /\ event.kind = "config" => ~ \E r \in DOMAIN e.state.video : e.state.video[r].stream = event.stream
  BY DEF Heeded
<1> HIDE DEF event
<1> SUFFICES ASSUME e1.serving, ~ e1.fatal, NEW r \in Role, Current(e1, s, r) PROVE Heard(e1, s, r)
  BY DEF Hears, Heard
<1>4. Heard(e, s, r) /\ Current(e, s, r)
  BY DEF Hears, Turned, Current, Screen
<1>5. ~ Shows(event, s.session, s.video[r], r)
  BY <1>3, <1>4 DEF Shows, Current
<1>6. Keeps(e, e1, s, r)
  BY <1>2, <1>5 DEF Keeps, Turned
<1> QED
  BY <1>4, <1>6, HeardOn

LEMMA StageControl ==
  ASSUME NEW b, NEW e, NEW s, Stage(b, e, s), NEW i PROVE Stage(b, NextControl(e, i), s)
<1> DEFINE event == Head(e.control)
<1>0. e \in Engine /\ e.state \in State /\ EngineOK(b, e) /\ Follows(b, e, s) /\ Hears(e, s)
  BY EngineIs DEF Stage, World, EngineOK
<1>1. World(b, NextControl(e, i), s)
  BY <1>0, ControlKeeps, ExtendsSelf, WorldOnward DEF Stage
<1>2. CASE e.control = <<>>
  BY <1>0, <1>2, NextControlIs
<1>3. CASE e.control # <<>> /\ Heeded(e.state, event)
  <2> DEFINE n == Noted(e.state, event)
             e1 == Turn(e, n)
             e2 == Send(e1, event)
  <2>1. NextControl(e, i) = e2
    BY <1>0, <1>3, NextControlIs
  <2>2. n \in State
    BY <1>0, <1>3, HeadOf, NotedIs
  <2>3. e1 \in Engine /\ Turned(e, e1, n)
    <3> HIDE DEF n
    <3> QED
      BY <1>0, <1>3, <2>2, TurnTurns
  <2> HIDE DEF e1
  <2>4. EngineOK(b, e1) /\ Onward(e, e1)
    BY <1>0, <1>3, <2>2, <2>3, TurnKeeps
  <2>5. event \in Record /\ RecOK(b, e1, event)
    BY <1>0, <1>3, <2>3, <2>4, NotedRecOK
  <2>6. EngineOK(b, e2) /\ Sent(e1, e2, event)
    <3> HIDE DEF event
    <3> QED
      BY <2>4, <2>5, SendKeeps
  <2> HIDE DEF e2
  <2>7. Hears(e2, s)
    BY <1>0, <1>3, <2>3, <2>4, <2>6, TurnHeard
  <2>8. ASSUME e.serving PROVE Follows(b, e2, s)
    <3>1. PICK z : Leads(b, e.down, View(s), z) /\ Match(b, z, e)
      BY <1>0, <2>8 DEF Follows
    <3>2. Fit(b, z, event) /\ Match(b, StepView(z, event), e1)
      BY <1>0, <1>3, <2>3, <2>4, <3>1, MatchTurn
    <3>3. Match(b, StepView(z, event), e2)
      <4>1. Onward(e1, e2) /\ e2.state = e1.state /\ Extends(b, b)
        BY <2>4, <2>6, StillOnward, ExtendsSelf DEF Sent, Apart, Still, EngineOK
      <4> QED
        BY <2>4, <2>6, <3>2, <4>1, MatchOnward
    <3>4. e1.serving => e.serving /\ e1.down = e.down
      BY <2>3 DEF Turned
    <3> QED
      BY <1>0, <2>4, <2>5, <2>6, <3>1, <3>2, <3>3, <3>4, FollowsTold
  <2>9. ~ e.serving => Follows(b, e2, s)
    BY <2>3, <2>6 DEF Follows, Turned, Sent
  <2> QED
    BY <1>1, <2>1, <2>7, <2>8, <2>9 DEF Stage
<1>4. CASE e.control # <<>> /\ ~ Heeded(e.state, event)
  <2> DEFINE n == e.state
             e1 == Turn(e, n)
  <2>1. NextControl(e, i) = e1
    BY <1>0, <1>4, NextControlIs
  <2>2. e1 \in Engine /\ Turned(e, e1, n)
    BY <1>0, <1>4, TurnTurns
  <2> HIDE DEF e1
  <2>3. EngineOK(b, e1) /\ Onward(e, e1)
    BY <1>0, <1>4, <2>2, TurnKeeps
  <2>4. Follows(b, e1, s)
    BY <1>0, <2>2, <2>3, ExtendsSelf, FollowsOnward DEF Turned
  <2>5. Hears(e1, s)
    BY <1>0, <1>4, <2>2, <2>3, PassHeard
  <2> QED
    BY <1>1, <2>1, <2>4, <2>5 DEF Stage
<1> QED
  BY <1>2, <1>3, <1>4 DEF Stage

-----------------------------------------------------------------------------
\* A frame of the queue

LEMMA FilmHeard ==
  ASSUME NEW b, NEW e, NEW e1, NEW e2, NEW s, EngineOK(b, e), e.video # <<>>, EngineOK(b, e2),
         NEW lost, e.lost \subseteq lost, Filmed(e, e1, lost),
         \/ Sent(e1, e2, Head(e.video))
         \/ e2 = e1 /\ (Head(e.video).key => ShownBy(e, Head(e.video).stream) \subseteq lost),
         Hears(e, s)
  PROVE  Hears(e2, s)
<1> DEFINE f == Head(e.video)
<1>1. e \in Engine /\ e.video \in Seq(Frame) /\ e.down \in Seq(Record)
  BY EngineIs DEF EngineOK
<1>2. \A rec : Holds(e.video, rec) => rec = f \/ Holds(Tail(e.video), rec)
  BY <1>1, HoldsTail
<1>3. f \in Record /\ f.kind = "frame"
  BY FrameHead
<1>4. \/ Sent(e1, e2, f)
      \/ e2 = e1 /\ (f.key => ShownBy(e, f.stream) \subseteq lost)
  OBVIOUS
<1> HIDE DEF f
<1> SUFFICES ASSUME e2.serving, ~ e2.fatal, NEW r \in Role, Current(e2, s, r) PROVE Heard(e2, s, r)
  BY DEF Hears, Heard
<1>5. /\ e.serving /\ ~ e.fatal /\ e2.up = e.up /\ e2.asked = e.asked /\ e2.lost = lost
      /\ e2.video = Tail(e.video) /\ e2.control = e.control
      /\ e2.taps = e.taps /\ e2.state = e.state /\ e2.session = e.session
      /\ e2.down = e.down \/ e2.down = Append(e.down, f)
  BY <1>4 DEF Sent, Apart, Still, Filmed
<1>6. Heard(e, s, r) /\ Current(e, s, r)
  BY <1>5 DEF Hears, Current, Screen
<1>7. \A rec : Holds(e.down, rec) => Holds(e2.down, rec)
  <2>1. \A rec : Holds(e.down, rec) => Holds(Append(e.down, f), rec)
    BY <1>1, <1>3, HoldsAppend
  <2> QED
    BY <1>5, <2>1
<1>8. Shows(f, s.session, s.video[r], r) => Holds(e2.down, f) \/ r \in lost
  <2>1. CASE Sent(e1, e2, f)
    <3>1. e2.down = Append(e.down, f)
      BY <2>1 DEF Sent, Filmed
    <3> QED
      BY <1>1, <1>3, <3>1, HoldsAppend
  <2>2. CASE e2 = e1 /\ (f.key => ShownBy(e, f.stream) \subseteq lost)
    BY <1>3, <1>6, <2>2 DEF Shows, Current, ShownBy
  <2> QED
    BY <1>4, <2>1, <2>2
<1>9. Keeps(e, e2, s, r)
  BY <1>2, <1>5, <1>7, <1>8 DEF Keeps
<1> QED
  BY <1>6, <1>9, HeardOn

LEMMA StageVideo ==
  ASSUME NEW b, NEW e, NEW s, Stage(b, e, s), NEW i PROVE Stage(b, NextVideo(e, i), s)
<1> DEFINE f == Head(e.video)
<1>0. e \in Engine /\ e.lost \in Roles /\ EngineOK(b, e) /\ Follows(b, e, s) /\ Hears(e, s)
  BY DEF Stage, World, EngineOK, Engine
<1>1. World(b, NextVideo(e, i), s)
  BY <1>0, VideoKeeps, ExtendsSelf, WorldOnward DEF Stage
<1>2. CASE e.video = <<>>
  BY <1>0, <1>2, NextVideoIs
<1>3. CASE e.video # <<>> /\ Wanted(e, f)
  <2> DEFINE e1 == Film(e, e.lost)
             e2 == Send(e1, f)
  <2>1. NextVideo(e, i) = e2
    BY <1>0, <1>3, NextVideoIs
  <2>2. e1 \in Engine /\ Filmed(e, e1, e.lost)
    BY <1>0, <1>3, FilmFilms
  <2> HIDE DEF e1
  <2>3. EngineOK(b, e1) /\ Onward(e, e1)
    BY <1>0, <1>3, <2>2, FilmKeeps
  <2>4. f \in Record /\ f \in Frame /\ RecOK(b, e1, f) /\ FrameOK(b, f)
    BY <1>0, <1>3, FrameHead DEF RecOK, Wanted
  <2>5. EngineOK(b, e2) /\ Onward(e1, e2) /\ Sent(e1, e2, f)
    <3> HIDE DEF f
    <3> QED
      BY <2>3, <2>4, SendKeeps
  <2> HIDE DEF e2
  <2>6. Hears(e2, s)
    BY <1>0, <1>3, <2>2, <2>5, FilmHeard
  <2>7. ASSUME e.serving PROVE Follows(b, e2, s)
    <3>1. PICK z : Leads(b, e.down, View(s), z) /\ Match(b, z, e)
      BY <1>0, <2>7 DEF Follows
    <3>2. Fit(b, z, f) /\ Match(b, StepView(z, f), e)
      BY <1>0, <1>3, <2>4, <3>1, MatchFrame
    <3>3. Match(b, StepView(z, f), e2)
      <4>1. Still(e, e2)
        BY <2>2, <2>5 DEF Sent, Apart, Still, Filmed
      <4>2. Onward(e, e2) /\ e2.state = e.state /\ Extends(b, b)
        BY <1>0, <2>5, <4>1, StillOnward, ExtendsSelf DEF Still, EngineOK
      <4> QED
        BY <1>0, <2>5, <3>2, <4>2, MatchOnward
    <3>4. e1.serving => e.serving /\ e1.down = e.down
      BY <2>2 DEF Filmed
    <3> QED
      BY <1>0, <2>3, <2>4, <2>5, <3>1, <3>2, <3>3, <3>4, FollowsTold
  <2>8. ~ e.serving => Follows(b, e2, s)
    BY <2>2, <2>5 DEF Follows, Filmed, Sent
  <2> QED
    BY <1>1, <2>1, <2>6, <2>7, <2>8 DEF Stage
<1>4. CASE e.video # <<>> /\ ~ Wanted(e, f)
  <2> DEFINE lost == IF f.key THEN e.lost \cup ShownBy(e, f.stream) ELSE e.lost
             e1 == Film(e, lost)
  <2>1. NextVideo(e, i) = e1
    BY <1>0, <1>4, NextVideoIs
  <2>2. lost \in Roles /\ e.lost \subseteq lost /\ (f.key => ShownBy(e, f.stream) \subseteq lost)
    BY <1>0, ShownByRoles DEF Roles
  <2> HIDE DEF lost
  <2>3. e1 \in Engine /\ Filmed(e, e1, lost)
    BY <1>0, <1>4, <2>2, FilmFilms
  <2> HIDE DEF e1
  <2>4. EngineOK(b, e1) /\ Onward(e, e1)
    BY <1>0, <1>4, <2>3, FilmKeeps
  <2>5. Follows(b, e1, s)
    BY <1>0, <2>3, <2>4, ExtendsSelf, FollowsOnward DEF Filmed, Still
  <2>6. Hears(e1, s)
    BY <1>0, <1>4, <2>2, <2>3, <2>4, FilmHeard
  <2> QED
    BY <1>1, <2>1, <2>5, <2>6 DEF Stage
<1> QED
  BY <1>2, <1>3, <1>4 DEF Stage

-----------------------------------------------------------------------------
\* The rest of service_once but for a new client

LEMMA WorldSame ==
  ASSUME NEW b, NEW e, NEW e1, NEW s, World(b, e, s), EngineOK(b, e1), Onward(e, e1)
  PROVE  World(b, e1, s)
<1>1. EngineOK(b, e) /\ Extends(b, b)
  BY ExtendsSelf DEF World
<1> QED
  BY <1>1, WorldOnward

LEMMA StageRequest ==
  ASSUME NEW b, NEW e, NEW s, Stage(b, e, s), NEW r \in Role
  PROVE  Stage(b, RequestKeyframe(e, r), s)
<1> DEFINE e1 == RequestKeyframe(e, r)
<1>1. EngineOK(b, e1) /\ Onward(e, e1) /\ Requested(e, e1, r)
  BY RequestKeeps DEF Stage, World
<1> HIDE DEF e1
<1>2. Quiet(e, e1)
  BY <1>1 DEF Requested, Alike, Quiet, Still
<1>3. Stage(b, e1, s)
  BY <1>1, <1>2, QuietStage
<1> QED
  BY <1>3 DEF e1

LEMMA StageLater ==
  ASSUME NEW b, NEW e, NEW s, NEW e1 \in Later(e)
  PROVE  /\ World(b, e, s) => World(b, e1, s)
         /\ Stage(b, e, s) => Stage(b, e1, s)
<1> SUFFICES ASSUME EngineOK(b, e)
             PROVE  (World(b, e, s) => World(b, e1, s)) /\ (Stage(b, e, s) => Stage(b, e1, s))
  BY DEF Stage, World
<1>1. EngineOK(b, e1) /\ Onward(e, e1) /\ Alike(e, e1) /\ e1.asked = e.asked /\ e1.lost = e.lost
  BY LaterKeeps
<1>2. Quiet(e, e1)
  BY <1>1 DEF Alike, Quiet, Still
<1> QED
  BY <1>1, <1>2, QuietStage, WorldSame

LEMMA StageClose ==
  ASSUME NEW b, NEW e, NEW s, World(b, e, s) PROVE Stage(b, Close(e), s)
<1> DEFINE e1 == Close(e)
<1>1. EngineOK(b, e1) /\ Onward(e, e1) /\ Apart(e, e1) /\ ~ e1.serving
  BY CloseKeeps DEF World
<1> HIDE DEF e1
<1>2. World(b, e1, s)
  BY <1>1, WorldSame
<1>3. Stage(b, e1, s)
  BY <1>1, <1>2 DEF Stage, Follows, Hears
<1> QED
  BY <1>3 DEF e1

\* A stream that is shown and that the phone sends is one of the session.
LEMMA CurrentStream ==
  ASSUME NEW b, NEW e, NEW s, EngineOK(b, e), NEW r, Current(e, s, r)
  PROVE  /\ s.video[r].id \in DOMAIN b /\ b[s.video[r].id].session = e.session /\ b[s.video[r].id].role = r
         /\ e.session = e.state.session /\ e.session = s.session /\ e.session = e.nextSession - 1
         /\ ~ Missed(e, b[s.video[r].id].session)
<1> DEFINE st == s.video[r].id
<1>1. r \in DOMAIN e.state.video /\ e.state.video[r].stream = st /\ e.session = e.state.session /\ e.session = s.session /\ e.session # 0
  BY DEF Current
<1>2. ShownOK(b, e, r, e.state.video[r]) /\ st \in DOMAIN b
  BY <1>1, ShownRole
<1> HIDE DEF st
<1>3. b[st].session >= e.state.session /\ b[st].role = r
  BY <1>1, <1>2 DEF ShownOK
<1>4. e.session = e.nextSession - 1 /\ b[st].session \in 1..e.nextSession - 1 /\ e.session \in Nat /\ e.nextSession \in Nat
  BY <1>1, <1>2, EngineIs DEF EngineOK, BookOK
<1>5. b[st].session = e.session
  BY <1>1, <1>3, <1>4
<1> QED
  BY <1>1, <1>2, <1>3, <1>4, <1>5 DEF Missed, st

LEMMA StageRead ==
  ASSUME NEW b, NEW e, NEW s, Stage(b, e, s), e.up # <<>> PROVE Stage(b, ReadRequest(e), s)
<1> DEFINE q == Head(e.up)
           e1 == Take(e)
           e2 == ReadRequest(e)
           x == CHOOSE r \in ShownBy(e, q.stream) : TRUE
<1>0. EngineOK(b, e) /\ e \in Engine /\ e.up \in Seq(Request) /\ RequestsOK(b, e, e.up)
  BY EngineIs DEF Stage, World, EngineOK
<1>1. EngineOK(b, e1) /\ Took(e, e1)
  BY <1>0, TakeTakes
<1>2. Understood(e) => x \in ShownBy(e, q.stream) /\ x \in Role
  BY <1>0, ShownByRoles DEF Understood
<1>3. e2 = IF Understood(e) THEN RequestKeyframe(e1, x) ELSE e1
  BY <1>0, ReadRequestIs
<1>4. EngineOK(b, e2) /\ Onward(e, e2) /\ Still(e, e2)
  BY <1>0, ReadRequestKeeps
<1>5. q = e.up[1] /\ 1 \in DOMAIN e.up /\ \A i \in DOMAIN e.up : i = 1 \/ (i - 1 \in DOMAIN Tail(e.up) /\ Tail(e.up)[i - 1] = e.up[i])
  BY <1>0
<1>6. Told(b, e, q.session, q.stream)
  BY <1>0, <1>5 DEF RequestsOK
<1>7. Understood(e) <=> q.session = e.state.session /\ ShownBy(e, q.stream) # {}
  BY DEF Understood
<1> HIDE DEF x, e1, e2, q
<1>8. Understood(e) => Requested(e1, e2, x)
  BY <1>1, <1>2, <1>3, RequestKeeps
<1>9. /\ e2.up = Tail(e.up) /\ e2.video = e.video /\ e2.fatal = e.fatal /\ e2.serving = e.serving /\ e2.down = e.down
      /\ e.asked \subseteq e2.asked /\ e.lost \subseteq e2.asked \cup e2.lost
      /\ Understood(e) /\ e.session # 0 => x \in e2.asked \cup e2.lost
  <2>1. CASE Understood(e)
    BY <1>1, <1>8, <2>1 DEF Requested, Alike, Took, Still
  <2>2. CASE ~ Understood(e)
    BY <1>1, <1>3, <2>2 DEF Took
  <2> QED
    BY <2>1, <2>2
<1>10. World(b, e2, s)
  BY <1>4, WorldSame DEF Stage
<1>11. Follows(b, e2, s)
  BY <1>0, <1>4, <1>9, ExtendsSelf, FollowsOnward DEF Stage, Still
<1>12. ASSUME e2.serving, ~ e2.fatal, NEW r \in Role, Current(e2, s, r) PROVE Heard(e2, s, r)
  <2>1. Heard(e, s, r) /\ Current(e, s, r)
    BY <1>4, <1>9, <1>12 DEF Stage, Hears, Current, Screen, Still
  <2>2. ASSUME q.stream = s.video[r].id PROVE r \in e2.asked \cup e2.lost
    <3>1. /\ b[q.stream].role = r /\ q.session = e.state.session /\ e.session # 0
      <4>1. /\ b[q.stream].role = r /\ b[q.stream].session = e.session /\ e.session = e.state.session
            /\ ~ Missed(e, b[q.stream].session)
        BY <1>0, <2>1, <2>2, CurrentStream
      <4>2. e.session # 0
        BY <2>1 DEF Current
      <4> QED
        BY <1>6, <4>1, <4>2 DEF Told
    <3>2. r \in ShownBy(e, q.stream)
      BY <2>1, <2>2 DEF Current, ShownBy
    <3>3. x = r
      BY <1>0, <1>2, <1>7, <3>1, <3>2, ShownRole DEF ShownBy
    <3> QED
      BY <1>7, <1>9, <3>1, <3>2, <3>3
  <2> SUFFICES ASSUME s.selected, s.video[r].have, s.video[r].waiting
               PROVE  AskedFor(e2, s, r) \/ r \in e2.lost
    BY DEF Heard
  <2>3. AskedFor(e, s, r) \/ r \in e.lost
    BY <2>1 DEF Heard
  <2>4. Coming(e, s, r) => Coming(e2, s, r)
    BY <1>4, <1>9, ComingIs DEF Still
  <2>5. ASSUME NEW i \in DOMAIN e.up, e.up[i].stream = s.video[r].id
        PROVE  r \in e2.asked \cup e2.lost \/ \E j \in DOMAIN e2.up : e2.up[j].stream = s.video[r].id
    BY <1>5, <1>9, <2>2, <2>5, SMTT(30)
  <2>6. r \in e.asked \/ r \in e.lost => r \in e2.asked \cup e2.lost
    BY <1>9
  <2> QED
    BY <2>3, <2>4, <2>5, <2>6 DEF AskedFor
<1>13. Hears(e2, s)
  BY <1>12 DEF Hears, Heard
<1>14. Stage(b, e2, s)
  BY <1>10, <1>11, <1>13 DEF Stage
<1> QED
  BY <1>14 DEF e2

LEMMA DrainKeeps ==
  ASSUME NEW b, NEW e, NEW s
  PROVE  /\ World(b, e, s) => World(b, Drain(e), s)
         /\ Stage(b, e, s) => Stage(b, Drain(e), s)
<1> DEFINE c == FoldLeft(NextControl, e, UpTo(ControlPerService))
           d == FoldLeft(NextVideo, c, UpTo(VideoPerService))
           W == {x \in Engine : World(b, x, s)}
           S == {x \in Engine : Stage(b, x, s)}
<1>0. ControlPerService \in Nat /\ VideoPerService \in Nat
  BY LinkAssumption
<1>1. Drain(e) = d
  BY DEF Drain
<1>2. /\ \A x \in W, i \in 1..ControlPerService : NextControl(x, i) \in W
      /\ \A x \in W, i \in 1..VideoPerService : NextVideo(x, i) \in W
  <2>1. ASSUME NEW x \in W, NEW i PROVE NextControl(x, i) \in W /\ NextVideo(x, i) \in W
    <3>1. EngineOK(b, x) /\ World(b, x, s)
      BY DEF World
    <3> DEFINE y == NextControl(x, i)
               u == NextVideo(x, i)
    <3>2. EngineOK(b, y) /\ Onward(x, y) /\ EngineOK(b, u) /\ Onward(x, u)
      BY <3>1, ControlKeeps, VideoKeeps
    <3> HIDE DEF y, u
    <3>3. World(b, y, s) /\ World(b, u, s) /\ y \in Engine /\ u \in Engine
      BY <3>1, <3>2, WorldSame DEF EngineOK
    <3> QED
      BY <3>3 DEF y, u
  <2> QED
    BY <2>1
<1>3. /\ \A x \in S, i \in 1..ControlPerService : NextControl(x, i) \in S
      /\ \A x \in S, i \in 1..VideoPerService : NextVideo(x, i) \in S
  <2>1. ASSUME NEW x \in S, NEW i PROVE NextControl(x, i) \in S /\ NextVideo(x, i) \in S
    <3> DEFINE y == NextControl(x, i)
               u == NextVideo(x, i)
    <3>1. Stage(b, y, s) /\ Stage(b, u, s)
      BY StageControl, StageVideo
    <3> HIDE DEF y, u
    <3>2. y \in Engine /\ u \in Engine
      BY <3>1 DEF Stage, World, EngineOK
    <3> QED
      BY <3>1, <3>2 DEF y, u
  <2> QED
    BY <2>1
<1>4. World(b, e, s) => e \in W
  BY DEF World, EngineOK
<1>5. Stage(b, e, s) => e \in S
  BY DEF Stage, World, EngineOK
<1> HIDE DEF W, S
<1>6. e \in W => c \in W
  BY <1>0, <1>2, ControlStays
<1>7. e \in S => c \in S
  BY <1>0, <1>3, ControlStays
<1> HIDE DEF c
<1>8. c \in W => d \in W
  BY <1>0, <1>2, VideoStays
<1>9. c \in S => d \in S
  BY <1>0, <1>3, VideoStays
<1> HIDE DEF d
<1> QED
  BY <1>1, <1>4, <1>5, <1>6, <1>7, <1>8, <1>9 DEF W, S

-----------------------------------------------------------------------------
\* What a new client is told

Displays(b, z, e, r) ==
  LET v == e.state.video[r] IN
  b[v.stream].session = e.state.session =>
    /\ z.video[r].started /\ z.video[r].id = v.stream
    /\ z.video[r].have <=> v.config # 0
    /\ v.config # 0 => z.video[r].config = v.config

\* The client has been told the session, and the streams of the screens S.
Tells(b, e, s, S) ==
  e.serving => \E z : /\ Leads(b, e.down, View(s), z)
                      /\ z.hello /\ z.session = e.state.session
                      /\ \A r \in S : Displays(b, z, e, r)

LEMMA BeginIs == ASSUME NEW x \in Nat PROVE Begin(x) \in Record /\ Begin(x).kind = "begin" /\ Begin(x).session = x
  BY DEF Begin, Record, Event

LEMMA StartIs ==
  ASSUME NEW x \in Nat, NEW st \in Nat, NEW r \in Role
  PROVE  /\ Start(x, st, r) \in Event /\ Start(x, st, r) \in Record /\ Start(x, st, r).kind = "start"
         /\ Start(x, st, r).session = x /\ Start(x, st, r).stream = st /\ Start(x, st, r).role = r
  BY DEF Start, Record, Event

LEMMA ConfigureEvent ==
  ASSUME NEW x \in Nat, NEW st \in Nat, NEW k \in Nat, NEW c \in AnyContent
  PROVE  /\ Configure(x, st, k, c) \in Event /\ Configure(x, st, k, c) \in Record /\ Configure(x, st, k, c).kind = "config"
         /\ Configure(x, st, k, c).session = x /\ Configure(x, st, k, c).stream = st
         /\ Configure(x, st, k, c).config = k /\ Configure(x, st, k, c).content = c
  BY DEF Configure, Record, Event

LEMMA SendWorld ==
  ASSUME NEW b, NEW e, NEW s, World(b, e, s), NEW rec \in Record, RecOK(b, e, rec)
  PROVE  World(b, Send(e, rec), s) /\ Sent(e, Send(e, rec), rec) /\ Still(e, Send(e, rec))
<1> DEFINE e1 == Send(e, rec)
<1>1. EngineOK(b, e1) /\ Onward(e, e1) /\ Sent(e, e1, rec)
  BY SendKeeps DEF World
<1> HIDE DEF e1
<1>2. World(b, e1, s) /\ Sent(e, e1, rec) /\ Still(e, e1)
  BY <1>1, WorldSame DEF Sent, Apart
<1> QED
  BY <1>2 DEF e1

\* The client reads a record more.
LEMMA SentLeads ==
  ASSUME NEW b, NEW e, EngineOK(b, e), NEW e1, NEW rec \in Record, Sent(e, e1, rec), e1.serving, NEW w, NEW z,
         Leads(b, e.down, w, z), Fit(b, z, rec)
  PROVE  Leads(b, e1.down, w, StepView(z, rec))
<1>1. e1.down = Append(e.down, rec) /\ e.down \in Seq(Record)
  BY EngineIs DEF Sent, EngineOK
<1> QED
  BY <1>1, LeadsOn

\* A stream is told.
LEMMA StartTells ==
  ASSUME NEW b, NEW e, NEW e1, NEW s, EngineOK(b, e), e.state.session # 0, NEW r \in DOMAIN e.state.video,
         NEW S, S \subseteq DOMAIN e.state.video, Tells(b, e, s, S),
         NEW rec \in Record, rec.kind = "start", rec.session = e.state.session, rec.role = r,
         rec.stream = e.state.video[r].stream, Sent(e, e1, rec)
  PROVE  e1.serving => \E z : /\ Leads(b, e1.down, View(s), z)
                              /\ z.hello /\ z.session = e.state.session
                              /\ z.video[r] = [started |-> TRUE, id |-> rec.stream, have |-> FALSE, config |-> 0]
                              /\ \A x \in S \ {r} : Displays(b, z, e, x)
<1> SUFFICES ASSUME e1.serving
             PROVE  \E z : /\ Leads(b, e1.down, View(s), z)
                           /\ z.hello /\ z.session = e.state.session
                           /\ z.video[r] = [started |-> TRUE, id |-> rec.stream, have |-> FALSE, config |-> 0]
                           /\ \A x \in S \ {r} : Displays(b, z, e, x)
  OBVIOUS
<1>1. e.serving
  BY DEF Sent
<1>2. PICK z : /\ Leads(b, e.down, View(s), z) /\ z.hello /\ z.session = e.state.session
               /\ \A x \in S : Displays(b, z, e, x)
  BY <1>1 DEF Tells
<1> DEFINE y == StepView(z, rec)
<1>3. e.state.session \in Nat
  BY EngineIs DEF EngineOK
<1>4. Fit(b, z, rec)
  BY <1>2, <1>3 DEF Fit
<1>5. \A x \in DOMAIN e.state.video : x \in Role
  BY ShownRole
<1>6. /\ y.hello /\ y.session = e.state.session
      /\ y.video[r] = [started |-> TRUE, id |-> rec.stream, have |-> FALSE, config |-> 0]
      /\ \A x \in Role : x # r => y.video[x] = z.video[x]
  BY <1>2, <1>5 DEF StepView, SeenAfter, Clears, Ours
<1>7. Leads(b, e1.down, View(s), y)
  BY <1>2, <1>4, SentLeads
<1> HIDE DEF y
<1>8. \A x \in S \ {r} : Displays(b, y, e, x)
  BY <1>2, <1>5, <1>6 DEF Displays
<1> QED
  BY <1>6, <1>7, <1>8

LEMMA AnnounceKeeps ==
  ASSUME NEW b, NEW e, NEW s, World(b, e, s), e.state.session # 0, NEW r \in DOMAIN e.state.video
  PROVE  /\ World(b, Announce(e, r), s) /\ Still(e, Announce(e, r))
         /\ \A S \in SUBSET DOMAIN e.state.video : Tells(b, e, s, S) => Tells(b, Announce(e, r), s, S \cup {r})
<1> DEFINE v == e.state.video[r]
           x == e.state.session
           rec == Start(x, v.stream, r)
           e1 == Send(e, rec)
           more == Configure(x, v.stream, v.config, v.content)
           e2 == IF v.config = 0 THEN e1 ELSE Send(e1, more)
<1>0. EngineOK(b, e) /\ StateOK(b, e)
  BY DEF World, EngineOK
<1>1. /\ x \in Nat /\ v.stream \in Nat /\ v.config \in Nat /\ v.content \in AnyContent /\ r \in Role
      /\ Told(b, e, x, v.stream) /\ b[v.stream].role = r /\ x < e.nextSession
      /\ v.config # 0 => Chosen(b, v.stream, v.config, v.content)
  BY <1>0, EngineIs, ShownIs DEF EngineOK, StateOK, ShownOK, Lower
<1>2. Announce(e, r) = e2
  BY DEF Announce
<1>3. /\ rec \in Record /\ rec.kind = "start" /\ rec.session = x /\ rec.stream = v.stream /\ rec.role = r
  BY <1>1, StartIs
<1>4. /\ more \in Record /\ more.kind = "config" /\ more.session = x /\ more.stream = v.stream
      /\ more.config = v.config /\ more.content = v.content
  BY <1>1, ConfigureEvent, SMTT(30)
<1> HIDE DEF rec, more
<1>5. RecOK(b, e, rec)
  BY <1>1, <1>3 DEF RecOK
<1>6. World(b, e1, s) /\ Sent(e, e1, rec) /\ Still(e, e1)
  BY <1>3, <1>5, SendWorld
<1> HIDE DEF e1
<1>7. v.config # 0 => RecOK(b, e1, more)
  BY <1>1, <1>4, <1>6 DEF RecOK, Told, Missed, Still
<1>8. World(b, e2, s) /\ Still(e, e2) /\ (v.config # 0 => Sent(e1, e2, more)) /\ (v.config = 0 => e2 = e1)
  <2>1. CASE v.config = 0
    BY <1>6, <2>1
  <2>2. CASE v.config # 0
    <3> DEFINE e3 == Send(e1, more)
    <3>1. World(b, e3, s) /\ Sent(e1, e3, more) /\ Still(e1, e3)
      BY <1>4, <1>6, <1>7, <2>2, SendWorld
    <3>2. e2 = e3
      BY <2>2
    <3> HIDE DEF e3, e2
    <3>3. Still(e, e2)
      BY <1>6, <3>1, <3>2 DEF Still
    <3> QED
      BY <2>2, <3>1, <3>2, <3>3
  <2> QED
    BY <2>1, <2>2
<1> HIDE DEF e2
<1>9. ASSUME NEW S \in SUBSET DOMAIN e.state.video, Tells(b, e, s, S), e2.serving
      PROVE  \E z : /\ Leads(b, e2.down, View(s), z)
                    /\ z.hello /\ z.session = e.state.session
                    /\ \A y \in S \cup {r} : Displays(b, z, e, y)
  <2>1. e1.serving
    BY <1>8, <1>9 DEF Sent
  <2>2. PICK z : /\ Leads(b, e1.down, View(s), z)
                 /\ z.hello /\ z.session = e.state.session
                 /\ z.video[r] = [started |-> TRUE, id |-> v.stream, have |-> FALSE, config |-> 0]
                 /\ \A y \in S \ {r} : Displays(b, z, e, y)
    BY <1>0, <1>3, <1>6, <1>9, <2>1, StartTells
  <2>3. CASE v.config = 0
    <3>1. Displays(b, z, e, r)
      BY <2>2, <2>3 DEF Displays
    <3> QED
      BY <1>8, <2>2, <2>3, <3>1
  <2>4. CASE v.config # 0
    <3> DEFINE y == StepView(z, more)
    <3>1. Sent(e1, e2, more) /\ Fit(b, z, more)
      BY <1>4, <1>8, <2>2, <2>4 DEF Fit
    <3>2. Leads(b, e2.down, View(s), y)
      BY <1>4, <1>6, <1>9, <2>2, <3>1, SentLeads DEF World
    <3>3. /\ y.hello /\ y.session = e.state.session
          /\ \A k \in Role : y.video[k] = SeenAfter(z, more, k)
      BY <1>4, <2>2 DEF StepView
    <3> HIDE DEF y
    <3>4. ~ Clears(z, more) /\ Ours(z, more)
      BY <1>4, <2>2 DEF Clears, Ours
    <3>5. y.video[r] = [started |-> TRUE, id |-> v.stream, have |-> TRUE, config |-> v.config]
      <4>1. z.video[r].started = TRUE /\ z.video[r].id = v.stream
        BY <2>2
      <4> HIDE DEF v
      <4>2. y.video[r] = [started |-> z.video[r].started, id |-> z.video[r].id, have |-> TRUE, config |-> more.config]
        BY <1>1, <1>4, <3>3, <3>4, <4>1 DEF SeenAfter
      <4> QED
        BY <1>4, <4>1, <4>2
    <3>6. Displays(b, y, e, r)
      BY <2>4, <3>5 DEF Displays
    <3>7. ASSUME NEW k \in S, k # r PROVE Displays(b, y, e, k)
      <4>1. k \in Role /\ e.state.video[k].stream # v.stream
        BY <1>0, <1>1, <3>7, ShownRole
      <4>2. Displays(b, z, e, k)
        BY <2>2, <3>7
      <4>3. CASE b[e.state.video[k].stream].session = e.state.session
        <5>1. z.video[k].id = e.state.video[k].stream
          BY <4>2, <4>3 DEF Displays
        <5>2. y.video[k] = z.video[k]
          BY <1>4, <3>3, <3>4, <4>1, <5>1 DEF SeenAfter
        <5> QED
          BY <4>2, <5>2 DEF Displays
      <4>4. CASE b[e.state.video[k].stream].session # e.state.session
        BY <4>4 DEF Displays
      <4> QED
        BY <4>3, <4>4
    <3> QED
      BY <3>2, <3>3, <3>6, <3>7
  <2> QED
    BY <2>3, <2>4
<1>10. ASSUME NEW S \in SUBSET DOMAIN e.state.video, Tells(b, e, s, S) PROVE Tells(b, e2, s, S \cup {r})
  <2>1. e2.state = e.state
    BY <1>8 DEF Still
  <2>2. \A z, k : Displays(b, z, e, k) => Displays(b, z, e2, k)
    BY <2>1 DEF Displays
  <2> SUFFICES ASSUME e2.serving
               PROVE  \E z : /\ Leads(b, e2.down, View(s), z) /\ z.hello /\ z.session = e2.state.session
                             /\ \A k \in S \cup {r} : Displays(b, z, e2, k)
    BY DEF Tells
  <2>3. PICK z : /\ Leads(b, e2.down, View(s), z)
                 /\ z.hello /\ z.session = e.state.session
                 /\ \A k \in S \cup {r} : Displays(b, z, e, k)
    BY <1>9, <1>10
  <2> QED
    BY <2>1, <2>2, <2>3
<1> QED
  BY <1>2, <1>8, <1>10

\* The client has read a hello.
Greeted(b, e, s) ==
  e.serving => \E z : Leads(b, e.down, View(s), z) /\ z.hello /\ Lower(e, z.session)

LEMMA SnapshotKeeps ==
  ASSUME NEW b, NEW e, NEW s, World(b, e, s), Greeted(b, e, s)
  PROVE  World(b, Snapshot(e), s) /\ Still(e, Snapshot(e)) /\ Follows(b, Snapshot(e), s)
<1> DEFINE x == e.state.session
           D == DOMAIN e.state.video
           rec == Begin(x)
           e1 == Send(e, rec)
           q == SetToSeq(D)
           e2 == FoldLeft(Announce, e1, q)
<1>0. EngineOK(b, e) /\ e \in Engine /\ x \in Nat /\ Lower(e, x) /\ IsFiniteSet(D) /\ D \subseteq Role
  BY EngineIs, ShownIs DEF World, EngineOK, StateOK
<1>1. CASE x = 0
  <2>1. Snapshot(e) = e
    BY <1>1 DEF Snapshot
  <2>2. Follows(b, e, s)
    BY <1>1 DEF Follows, Greeted, Match
  <2> QED
    BY <2>1, <2>2 DEF Still
<1>2. CASE x # 0
  <2>1. Snapshot(e) = e2
    BY <1>2 DEF Snapshot
  <2>2. rec \in Record /\ rec.kind = "begin" /\ rec.session = x
    BY <1>0, BeginIs
  <2>3. q \in Seq(D) /\ \A r \in D : \E i \in DOMAIN q : q[i] = r
    BY <1>0, SetToSeqIs
  <2> HIDE DEF rec
  <2>4. RecOK(b, e, rec)
    BY <1>0, <1>2, <2>2 DEF RecOK
  <2>5. World(b, e1, s) /\ Sent(e, e1, rec) /\ Still(e, e1)
    BY <2>2, <2>4, SendWorld
  <2> HIDE DEF e1
  <2>6. Tells(b, e1, s, {})
    <3> SUFFICES ASSUME e1.serving PROVE \E z : Leads(b, e1.down, View(s), z) /\ z.hello /\ z.session = e1.state.session
      BY DEF Tells
    <3>1. PICK z : Leads(b, e.down, View(s), z) /\ z.hello
      BY <2>5 DEF Greeted, Sent
    <3>2. Fit(b, z, rec)
      BY <2>2, <3>1 DEF Fit
    <3>3. Leads(b, e1.down, View(s), StepView(z, rec))
      BY <1>0, <2>2, <2>5, <3>1, <3>2, SentLeads
    <3>4. StepView(z, rec).hello /\ StepView(z, rec).session = x /\ e1.state = e.state
      BY <2>2, <2>5, <3>1 DEF StepView, Still
    <3> QED
      BY <3>3, <3>4
  <2> DEFINE R == {y \in Engine : World(b, y, s) /\ Still(e, y)}
  <2>7. Starts(R, D, e1, q)
    BY <2>3, <2>5 DEF Starts, World, EngineOK
  <2>8. ASSUME NEW y \in R, NEW r \in D
        PROVE  /\ Announce(y, r) \in R
               /\ \A S \in SUBSET D : Tells(b, y, s, S) => Tells(b, Announce(y, r), s, S \cup {r})
    <3>1. World(b, y, s) /\ Still(e, y) /\ y.state = e.state
      BY DEF Still
    <3> DEFINE u == Announce(y, r)
    <3>2. /\ World(b, u, s) /\ Still(y, u)
          /\ \A S \in SUBSET D : Tells(b, y, s, S) => Tells(b, u, s, S \cup {r})
      BY <1>2, <3>1, AnnounceKeeps
    <3> HIDE DEF u
    <3>3. Still(e, u) /\ u \in Engine
      BY <3>1, <3>2 DEF Still, World, EngineOK
    <3>4. u \in R
      BY <3>2, <3>3
    <3> QED
      BY <3>2, <3>4 DEF u
  <2>9. AnnounceWithin(R, D)
    BY <2>8 DEF AnnounceWithin
  <2> HIDE DEF R
  <2> DEFINE n == Len(q)
  <2>10. PICK g : AnnounceRun(R, e1, q, g)
    BY <2>7, <2>9, AnnounceFolds
  <2>11. /\ g \in [0..n -> R] /\ g[0] = e1 /\ g[n] = e2
         /\ \A k \in 1..n : g[k] = Announce(g[k - 1], q[k])
    BY <2>10 DEF AnnounceRun
  <2>12. n \in Nat /\ DOMAIN q = 1..n /\ \A k \in 1..n : q[k] \in D
    BY <2>3
  <2> HIDE DEF n, q, e2, D
  <2> DEFINE U(k) == {q[i] : i \in 1..k}
             P == {k \in Nat : k <= n => Tells(b, g[k], s, U(k))}
  <2>13. 0 \in P
    <3>1. U(0) = {}
      OBVIOUS
    <3> QED
      BY <2>6, <2>11, <3>1
  <2>14. ASSUME NEW k \in Nat, k \in P PROVE k + 1 \in P
    <3> SUFFICES ASSUME k + 1 <= n PROVE Tells(b, g[k + 1], s, U(k + 1))
      OBVIOUS
    <3>1. k \in 0..n /\ k + 1 \in 1..n /\ k + 1 - 1 = k
      BY <2>12
    <3>2. g[k] \in R /\ g[k + 1] = Announce(g[k], q[k + 1]) /\ q[k + 1] \in D
      BY <2>11, <2>12, <3>1
    <3>3. Tells(b, g[k], s, U(k))
      <4>1. k <= n
        BY <2>12, <3>1
      <4> QED
        BY <2>14, <4>1
    <3>4. U(k + 1) = U(k) \cup {q[k + 1]} /\ U(k) \in SUBSET D
      BY <2>12, <3>1
    <3> HIDE DEF U
    <3>5. Tells(b, Announce(g[k], q[k + 1]), s, U(k) \cup {q[k + 1]})
      BY <2>8, <3>2, <3>3, <3>4
    <3> QED
      BY <3>2, <3>4, <3>5
  <2>15. Nat \subseteq P
    <3> HIDE DEF P
    <3> QED
      BY <2>13, <2>14, NumberInduction
  <2>16. Tells(b, e2, s, U(n))
    <3>1. n \in P /\ n <= n
      <4>1. n \in Nat /\ n <= n
        BY <2>12
      <4> HIDE DEF P
      <4> QED
        BY <2>15, <4>1
    <3>2. Tells(b, g[n], s, U(n))
      BY <3>1
    <3> QED
      BY <2>11, <3>2
  <2>17. D \subseteq U(n)
    BY <2>3, <2>12
  <2> HIDE DEF U
  <2>18. e2 \in R
    BY <2>11, <2>12
  <2>19. World(b, e2, s) /\ Still(e, e2) /\ e2.state = e.state
    BY <2>18 DEF R, Still
  <2>20. Follows(b, e2, s)
    <3> SUFFICES ASSUME e2.serving PROVE \E z : Leads(b, e2.down, View(s), z) /\ Match(b, z, e2)
      BY DEF Follows
    <3>1. PICK z : /\ Leads(b, e2.down, View(s), z)
                   /\ z.hello /\ z.session = e2.state.session
                   /\ \A r \in U(n) : Displays(b, z, e2, r)
      BY <2>16 DEF Tells
    <3>2. Lower(e2, e2.state.session)
      BY <2>19 DEF World, EngineOK, StateOK
    <3>3. \A r \in DOMAIN e2.state.video : Displays(b, z, e2, r)
      BY <2>17, <2>19, <3>1 DEF D
    <3>4. Match(b, z, e2)
      BY <3>1, <3>2, <3>3 DEF Match, Displays
    <3> QED
      BY <3>1, <3>4
  <2> QED
    BY <2>1, <2>19, <2>20 DEF e2, q, D
<1> QED
  BY <1>1, <1>2

-----------------------------------------------------------------------------
\* A new client: the phone is asked for a key frame of every screen.

Opened(e) ==
  [e EXCEPT !.serving = TRUE, !.down = <<>>, !.up = IF e.ghost THEN <<>> ELSE e.early]

LEMMA OpenedKeeps ==
  ASSUME NEW b, NEW e, NEW s, World(b, e, s)
  PROVE  World(b, Opened(e), s) /\ Still(e, Opened(e)) /\ Opened(e).down = <<>>
<1> DEFINE up == IF e.ghost THEN <<>> ELSE e.early
           none == <<>>
           e1 == Opened(e)
<1>0. EngineOK(b, e) /\ e \in Engine
  BY DEF World, EngineOK
<1>1. up \in Requests /\ none \in Records /\ RequestsOK(b, e, up) /\ RecordsOK(b, e, none)
  BY <1>0, NoneOf, NothingOK DEF Engine, EngineOK
<1> HIDE DEF up, none
<1>2. e1 = [e EXCEPT !.serving = TRUE, !.down = none, !.up = up]
  BY DEF Opened, up, none
<1>3. e1 \in Engine
  BY <1>0, <1>1, <1>2, Zenon DEF Engine
<1>4. Still(e, e1) /\ e1.down = none /\ e1.up = up /\ e1.early = e.early /\ e1.video = e.video
  BY <1>0, <1>2, SMT DEF Engine, Still
<1> HIDE DEF e1
<1>5. EngineOK(b, e1) /\ Onward(e, e1)
  BY <1>0, <1>1, <1>3, <1>4, StillKeeps DEF EngineOK
<1>6. World(b, e1, s)
  BY <1>5, WorldSame
<1> QED
  BY <1>4, <1>6 DEF e1, none

LEMMA AskEverything ==
  ASSUME NEW b, NEW e, NEW s, World(b, e, s), Follows(b, e, s)
  PROVE  Stage(b, FoldLeft(RequestKeyframe, e, SetToSeq(Role)), s)
<1> DEFINE q == SetToSeq(Role)
           n == Len(q)
           e1 == FoldLeft(RequestKeyframe, e, q)
           R == {y \in Engine : World(b, y, s) /\ Follows(b, y, s) /\ y.session = e.session}
<1>0. q \in Seq(Role) /\ \A r \in Role : \E i \in DOMAIN q : q[i] = r
  BY LinkAssumption, SetToSeqIs
<1>1. n \in Nat /\ DOMAIN q = 1..n /\ \A k \in 1..n : q[k] \in Role
  BY <1>0
<1>2. ASSUME NEW y \in R, NEW r \in Role
      PROVE  RequestKeyframe(y, r) \in R /\ Requested(y, RequestKeyframe(y, r), r)
  <2> DEFINE u == RequestKeyframe(y, r)
  <2>1. EngineOK(b, y) /\ Follows(b, y, s) /\ World(b, y, s)
    BY DEF World
  <2>2. EngineOK(b, u) /\ Onward(y, u) /\ Requested(y, u, r)
    BY <2>1, RequestKeeps
  <2> HIDE DEF u
  <2>3. World(b, u, s) /\ u \in Engine
    BY <2>1, <2>2, WorldSame DEF EngineOK
  <2>4. Follows(b, u, s)
    BY <2>1, <2>2, ExtendsSelf, FollowsOnward DEF Requested, Alike
  <2>5. u.session = e.session
    BY <2>2 DEF Requested, Alike
  <2>6. u \in R
    BY <2>3, <2>4, <2>5
  <2> QED
    BY <2>2, <2>6 DEF u
<1>3. e \in R
  BY DEF World, EngineOK
<1>4. RequestWithin(R, Role)
  BY <1>2 DEF RequestWithin
<1> HIDE DEF R
<1>5. Starts(R, Role, e, q)
  BY <1>0, <1>3 DEF Starts
<1>6. PICK g : RequestRun(R, e, q, g)
  BY <1>4, <1>5, RequestFolds
<1>7. /\ g \in [0..n -> R] /\ g[0] = e /\ g[n] = e1
      /\ \A k \in 1..n : g[k] = RequestKeyframe(g[k - 1], q[k])
  BY <1>6 DEF RequestRun
<1> HIDE DEF n, q, e1
<1> DEFINE P == {k \in Nat : k <= n /\ e.session # 0 => \A i \in 1..k : q[i] \in g[k].asked \cup g[k].lost}
<1>8. 0 \in P
  OBVIOUS
<1>9. ASSUME NEW k \in Nat, k \in P PROVE k + 1 \in P
  <2> SUFFICES ASSUME k + 1 <= n, e.session # 0, NEW i \in 1..k + 1 PROVE q[i] \in g[k + 1].asked \cup g[k + 1].lost
    OBVIOUS
  <2>1. k \in 0..n /\ k + 1 \in 1..n /\ k + 1 - 1 = k
    BY <1>1
  <2>2. g[k] \in R /\ g[k + 1] = RequestKeyframe(g[k], q[k + 1]) /\ q[k + 1] \in Role
    BY <1>1, <1>7, <2>1
  <2>3. Requested(g[k], g[k + 1], q[k + 1]) /\ g[k].session = e.session
    BY <1>2, <2>2 DEF R
  <2>4. CASE i = k + 1
    BY <2>3, <2>4 DEF Requested
  <2>5. CASE i # k + 1
    <3>1. q[i] \in g[k].asked \cup g[k].lost
      <4>1. k <= n /\ i \in 1..k
        BY <1>1, <2>1, <2>5
      <4> QED
        BY <1>9, <4>1
    <3> QED
      BY <2>3, <3>1 DEF Requested
  <2> QED
    BY <2>4, <2>5
<1>10. Nat \subseteq P
  <2> HIDE DEF P
  <2> QED
    BY <1>8, <1>9, NumberInduction
<1>11. e1 \in R /\ (e.session # 0 => \A i \in 1..n : q[i] \in e1.asked \cup e1.lost)
  BY <1>1, <1>7, <1>10
<1>12. World(b, e1, s) /\ Follows(b, e1, s) /\ e1.session = e.session
  BY <1>11 DEF R
<1>13. Hears(e1, s)
  <2>1. e1.session # 0 => \A r \in Role : r \in e1.asked \cup e1.lost
    BY <1>0, <1>1, <1>11, <1>12
  <2> QED
    BY <2>1 DEF Hears, Heard, AskedFor, Current
<1>14. Stage(b, e1, s)
  BY <1>12, <1>13 DEF Stage
<1> QED
  BY <1>14 DEF e1, q

LEMMA AcceptKeeps ==
  ASSUME NEW b, NEW e, NEW s, World(b, e, s) PROVE Stage(b, Accept(e), s)
<1> DEFINE e1 == Opened(e)
           e2 == Send(e1, Hello)
           e3 == Snapshot(e2)
<1>1. Accept(e) = FoldLeft(RequestKeyframe, e3, SetToSeq(Role))
  BY DEF Accept, Opened
<1>2. World(b, e1, s) /\ e1.down = <<>>
  BY OpenedKeeps
<1> HIDE DEF e1
<1>3. Hello \in Record /\ Hello.kind = "hello"
  BY DEF Record, Hello
<1>4. RecOK(b, e1, Hello)
  BY <1>3 DEF RecOK
<1>5. World(b, e2, s) /\ Sent(e1, e2, Hello)
  BY <1>2, <1>3, <1>4, SendWorld
<1> HIDE DEF e2
<1>6. Greeted(b, e2, s)
  <2> SUFFICES ASSUME e2.serving PROVE \E z : Leads(b, e2.down, View(s), z) /\ z.hello /\ Lower(e2, z.session)
    BY DEF Greeted
  <2> DEFINE w == View(s)
             z == StepView(w, Hello)
  <2>1. Leads(b, e1.down, w, w) /\ Fit(b, w, Hello)
    BY <1>2, <1>3, LeadsNowhere DEF Fit
  <2>2. z.hello /\ z.session = w.session /\ w.session = s.session
    BY <1>3 DEF StepView, View
  <2>3. Lower(e2, s.session)
    BY <1>5 DEF World, StoreOK
  <2> HIDE DEF w
  <2>4. Leads(b, e2.down, w, z)
    BY <1>2, <1>3, <1>5, <2>1, SentLeads DEF World
  <2> QED
    BY <2>2, <2>3, <2>4 DEF w
<1>7. World(b, e3, s) /\ Follows(b, e3, s)
  BY <1>5, <1>6, SnapshotKeeps
<1> QED
  BY <1>1, <1>7, AskEverything

-----------------------------------------------------------------------------
\* service_once

Cleared(e) == [Close(e) EXCEPT !.fatal = FALSE]
Emptied(e) == [Close(e) EXCEPT !.down = <<>>]
Tidied(e) == [e EXCEPT !.early = <<>>, !.ghost = FALSE]

LEMMA ClearedKeeps ==
  ASSUME NEW b, NEW e, NEW s, World(b, e, s) PROVE Stage(b, Cleared(e), s)
<1> DEFINE c == Close(e)
           e1 == Cleared(e)
<1>1. EngineOK(b, c) /\ Onward(e, c) /\ ~ c.serving /\ c \in Engine
  BY CloseKeeps DEF World, EngineOK
<1>2. e1 = [c EXCEPT !.fatal = FALSE]
  BY DEF Cleared
<1> HIDE DEF c, e1
<1>3. e1 \in Engine
  BY <1>1, <1>2, Zenon DEF Engine
<1>4. /\ Still(c, e1) /\ e1.down = c.down /\ e1.up = c.up /\ e1.early = c.early /\ e1.video = c.video
      /\ e1.serving = c.serving
  BY <1>1, <1>2, SMT DEF Engine, Still
<1>5. EngineOK(b, e1) /\ Onward(c, e1)
  BY <1>1, <1>3, <1>4, StillKeeps DEF EngineOK
<1>6. World(b, c, s)
  BY <1>1, WorldSame
<1>7. World(b, e1, s)
  BY <1>5, <1>6, WorldSame
<1>8. Stage(b, e1, s)
  BY <1>1, <1>4, <1>7 DEF Stage, Follows, Hears
<1> QED
  BY <1>8 DEF e1

LEMMA EmptiedKeeps ==
  ASSUME NEW b, NEW e, NEW s, World(b, e, s) PROVE World(b, Emptied(e), s)
<1> DEFINE c == Close(e)
           none == <<>>
           e1 == Emptied(e)
<1>1. EngineOK(b, c) /\ Onward(e, c) /\ c \in Engine
  BY CloseKeeps DEF World, EngineOK
<1>2. e1 = [c EXCEPT !.down = none] /\ none \in Records /\ RecordsOK(b, c, none)
  BY NoneOf, NothingOK DEF Emptied
<1> HIDE DEF c, e1, none
<1>3. e1 \in Engine
  BY <1>1, <1>2, Zenon DEF Engine
<1>4. Still(c, e1) /\ e1.down = none /\ e1.up = c.up /\ e1.early = c.early /\ e1.video = c.video
  BY <1>1, <1>2, SMT DEF Engine, Still
<1>5. EngineOK(b, e1) /\ Onward(c, e1)
  BY <1>1, <1>2, <1>3, <1>4, StillKeeps DEF EngineOK
<1>6. World(b, c, s)
  BY <1>1, WorldSame
<1>7. World(b, e1, s)
  BY <1>5, <1>6, WorldSame
<1> QED
  BY <1>7 DEF e1

LEMMA TidiedKeeps ==
  ASSUME NEW b, NEW e, NEW s, World(b, e, s)
  PROVE  World(b, Tidied(e), s) /\ (Stage(b, e, s) => Stage(b, Tidied(e), s))
<1> DEFINE none == <<>>
           e1 == Tidied(e)
<1>1. EngineOK(b, e) /\ e \in Engine
  BY DEF World, EngineOK
<1>2. e1 = [e EXCEPT !.early = none, !.ghost = FALSE] /\ none \in Requests /\ RequestsOK(b, e, none)
  BY NoneOf, NothingOK DEF Tidied
<1> HIDE DEF e1, none
<1>3. e1 \in Engine
  BY <1>1, <1>2, Zenon DEF Engine
<1>4. /\ Still(e, e1) /\ e1.down = e.down /\ e1.up = e.up /\ e1.early = none /\ e1.video = e.video
      /\ e1.fatal = e.fatal /\ e1.asked = e.asked /\ e1.lost = e.lost /\ e1.serving = e.serving
  BY <1>1, <1>2, SMT DEF Engine, Still
<1>5. EngineOK(b, e1) /\ Onward(e, e1)
  <2>1. FramesOK(b, e1.video) /\ RecordsOK(b, e, e1.down) /\ RequestsOK(b, e, e1.up) /\ RequestsOK(b, e, e1.early)
    BY <1>1, <1>2, <1>4 DEF EngineOK
  <2> QED
    BY <1>1, <1>3, <1>4, <2>1, StillKeeps
<1>6. Quiet(e, e1)
  BY <1>4 DEF Quiet
<1>7. World(b, e1, s) /\ (Stage(b, e, s) => Stage(b, e1, s))
  BY <1>5, <1>6, WorldSame, QuietStage
<1> QED
  BY <1>7 DEF e1

LEMMA ServedKeeps ==
  ASSUME NEW b, NEW e, NEW s, World(b, e, s), NEW accepted \in BOOLEAN, NEW here \in BOOLEAN, NEW hangup \in BOOLEAN
  PROVE  /\ World(b, Served(e, accepted, here, hangup), s)
         /\ here /\ (accepted \/ Stage(b, e, s)) => Stage(b, Served(e, accepted, here, hangup), s)
<1> DEFINE cut == IF e.fatal THEN Cleared(e) ELSE e
           met == IF accepted THEN Accept(cut) ELSE cut
           read == IF ~ met.serving THEN met
                   ELSE IF hangup \/ (~ here /\ met.up = <<>>) THEN Close(met)
                   ELSE IF met.up # <<>> THEN ReadRequest(met)
                   ELSE met
           drained == Drain(read)
           last == IF drained.serving /\ ~ here /\ drained.down # <<>> THEN Emptied(drained) ELSE drained
           Told2 == accepted \/ Stage(b, e, s)
<1>1. Served(e, accepted, here, hangup) = last
  BY DEF Served, Cleared, Emptied
<1>2. World(b, cut, s) /\ (Stage(b, e, s) => Stage(b, cut, s))
  BY ClearedKeeps DEF Stage
<1> HIDE DEF cut
<1>3. World(b, met, s) /\ (Told2 => Stage(b, met, s))
  BY <1>2, AcceptKeeps DEF Stage
<1> HIDE DEF met
<1>4. World(b, read, s) /\ (Told2 => Stage(b, read, s))
  <2>1. CASE met.serving /\ (hangup \/ (~ here /\ met.up = <<>>))
    <3> DEFINE y == Close(met)
    <3>1. Stage(b, y, s) /\ read = y
      BY <1>3, <2>1, StageClose
    <3> QED
      BY <3>1 DEF Stage
  <2>2. CASE met.serving /\ ~ (hangup \/ (~ here /\ met.up = <<>>)) /\ met.up # <<>>
    <3> DEFINE y == ReadRequest(met)
    <3>1. read = y
      BY <2>2
    <3>2. EngineOK(b, y) /\ Onward(met, y)
      BY <1>3, <2>2, ReadRequestKeeps DEF World
    <3>3. Stage(b, met, s) => Stage(b, y, s)
      BY <2>2, StageRead
    <3> HIDE DEF y, read, Told2
    <3>4. World(b, y, s)
      BY <1>3, <3>2, WorldSame
    <3> QED
      BY <1>3, <3>1, <3>3, <3>4
  <2>3. CASE ~ met.serving \/ (~ (hangup \/ (~ here /\ met.up = <<>>)) /\ met.up = <<>>)
    <3>1. read = met
      BY <2>3
    <3> QED
      BY <1>3, <3>1
  <2> QED
    BY <2>1, <2>2, <2>3
<1> HIDE DEF read, Told2
<1>5. World(b, drained, s) /\ (Told2 => Stage(b, drained, s))
  BY <1>4, DrainKeeps
<1> HIDE DEF drained
<1>6. World(b, last, s) /\ (here /\ Told2 => Stage(b, last, s))
  BY <1>5, EmptiedKeeps
<1> QED
  BY <1>1, <1>6 DEF Told2

-----------------------------------------------------------------------------
\* The calls of the tap

Posted(e, e1, event) ==
  /\ e1.session = e.session /\ e1.nextSession = e.nextSession /\ e1.nextStream = e.nextStream
  /\ e1.taps = e.taps /\ e1.video = e.video /\ e1.state = e.state
  /\ e1.throttled = e.throttled /\ e1.asked = e.asked /\ e1.lost = e.lost
  /\ e1.serving = e.serving /\ e1.down = e.down /\ e1.up = e.up /\ e1.early = e.early /\ e1.ghost = e.ghost
  /\ \/ e1.control = Append(e.control, event) /\ e1.fatal = e.fatal
     \/ e1.control = e.control /\ e1.fatal

LEMMA PostPosts ==
  ASSUME NEW e \in Engine, NEW event \in Event
  PROVE  Post(e, event) \in Engine /\ Posted(e, Post(e, event), event)
<1> DEFINE e1 == Post(e, event)
<1>1. e1 \in Engine
  BY PostIs
<1>2. \/ e1 = [e EXCEPT !.control = Append(e.control, event)]
      \/ e1 = [e EXCEPT !.fatal = TRUE]
  BY PostIs
<1> HIDE DEF e1
<1>3. ASSUME e1 = [e EXCEPT !.control = Append(e.control, event)] PROVE Posted(e, e1, event)
  BY <1>3 DEF Engine, Posted
<1>4. ASSUME e1 = [e EXCEPT !.fatal = TRUE] PROVE Posted(e, e1, event)
  BY <1>4 DEF Engine, Posted
<1>5. Posted(e, e1, event)
  BY <1>2, <1>3, <1>4
<1> QED
  BY <1>1, <1>5 DEF e1

\* What a call of the tap leaves alone
Tapped(e, e1) ==
  /\ e.nextSession <= e1.nextSession /\ e1.state = e.state
  /\ e1.serving = e.serving /\ e1.down = e.down /\ e1.up = e.up /\ e1.early = e.early

\* The event may follow those of e.
Due(e, event) ==
  Opens(event) => event.session >= e.nextSession - 1 /\ (event.kind = "begin" => event.session >= e.nextSession)

LEMMA OpensBefore ==
  ASSUME NEW b, NEW e, EngineOK(b, e), NEW i \in DOMAIN e.control, Opens(e.control[i])
  PROVE  e.control[i].session <= e.nextSession - 1
<1>1. EventOK(b, e, e.control[i]) /\ BookOK(b, e) /\ e.nextSession \in Nat /\ e.control[i].session \in Nat
  BY EngineIs DEF EngineOK, ControlOK
<1>2. CASE e.control[i].kind = "begin"
  BY <1>1, <1>2 DEF EventOK
<1>3. CASE e.control[i].kind = "start"
  <2>1. b[e.control[i].stream].session \in 1..e.nextSession - 1
    BY <1>1, <1>3 DEF EventOK, BookOK
  <2> QED
    BY <1>1, <1>3, <2>1 DEF EventOK
<1> QED
  BY <1>2, <1>3 DEF Opens

LEMMA GrownOnward ==
  ASSUME NEW b, NEW e, EngineOK(b, e), NEW e1 \in Engine, Tapped(e, e1), NEW event \in Event, Due(e, event),
         e1.control = e.control \/ e1.control = Append(e.control, event)
  PROVE  Onward(e, e1)
<1>1. e \in Engine /\ e.control \in Seq(Event)
  BY EngineIs DEF EngineOK
<1>2. CASE e1.control = e.control
  BY <1>2 DEF Onward, Tapped
<1>3. CASE e1.control = Append(e.control, event)
  <2>1. \A i \in DOMAIN e1.control : e1.control[i] = event \/ (i \in DOMAIN e.control /\ e.control[i] = e1.control[i])
    BY <1>1, <1>3
  <2> QED
    BY <2>1 DEF Onward, Tapped, Due
<1> QED
  BY <1>2, <1>3

LEMMA GrownControl ==
  ASSUME NEW b, NEW e, EngineOK(b, e), NEW e1 \in Engine, Tapped(e, e1), NEW event \in Event, Due(e, event),
         e1.control = e.control \/ e1.control = Append(e.control, event),
         NEW b1, Extends(b, b1), EventOK(b1, e1, event)
  PROVE  ControlOK(b1, e1)
<1>0. e \in Engine /\ e.control \in Seq(Event) /\ ControlOK(b, e) /\ e.nextSession \in Nat /\ event.session \in Nat
      /\ e.state.session \in Nat /\ e.state.session < e.nextSession /\ e1.state = e.state
  BY EngineIs, EventIs DEF EngineOK, StateOK, Lower, Tapped
<1>1. Onward(e, e1)
  BY GrownOnward
<1>2. \A i \in DOMAIN e.control : e.control[i] \in Event /\ e.control[i].session \in Nat /\ EventOK(b1, e1, e.control[i])
  BY <1>0, <1>1, EngineIs, EventOnward DEF ControlOK
<1>3. CASE e1.control = e.control
  BY <1>0, <1>2, <1>3 DEF ControlOK
<1>4. CASE e1.control = Append(e.control, event)
  <2> DEFINE n == Len(e.control)
  <2>1. /\ DOMAIN e1.control = 1..n + 1 /\ n \in Nat /\ DOMAIN e.control = 1..n
        /\ e1.control[n + 1] = event /\ \A i \in 1..n : e1.control[i] = e.control[i]
    BY <1>0, <1>4
  <2> HIDE DEF n
  <2>2. ASSUME NEW i \in 1..n + 1
        PROVE  /\ EventOK(b1, e1, e1.control[i])
               /\ Opens(e1.control[i]) => e1.control[i].session >= e1.state.session
               /\ e1.control[i].kind = "begin" => e1.control[i].session > e1.state.session
    <3>1. CASE i = n + 1
      <4>1. Opens(event) => event.session >= e.state.session /\ (event.kind = "begin" => event.session > e.state.session)
        BY <1>0 DEF Due
      <4> QED
        BY <1>0, <2>1, <3>1, <4>1 DEF Opens
    <3>2. CASE i \in 1..n
      BY <1>0, <1>2, <2>1, <3>2 DEF ControlOK
    <3> QED
      BY <2>1, <3>1, <3>2
  <2>3. ASSUME NEW i \in 1..n + 1, NEW j \in 1..n + 1, i < j, Opens(e1.control[i]), Opens(e1.control[j])
        PROVE  /\ e1.control[i].session <= e1.control[j].session
               /\ e1.control[j].kind = "begin" => e1.control[i].session < e1.control[j].session
    <3>1. i \in 1..n
      BY <2>1, <2>3
    <3>2. CASE j = n + 1
      <4>1. e.control[i].session <= e.nextSession - 1 /\ e.control[i].session \in Nat
        BY <1>2, <2>1, <2>3, <3>1, OpensBefore
      <4>2. event.session >= e.nextSession - 1 /\ (event.kind = "begin" => event.session >= e.nextSession)
        BY <2>1, <2>3, <3>2 DEF Due
      <4>3. e1.control[i] = e.control[i] /\ e1.control[j] = event
        BY <2>1, <3>1, <3>2
      <4>4. e.control[i].session <= event.session /\ (event.kind = "begin" => e.control[i].session < event.session)
        BY <1>0, <4>1, <4>2
      <4> QED
        BY <4>3, <4>4
    <3>3. CASE j \in 1..n
      BY <1>0, <2>1, <2>3, <3>1, <3>3 DEF ControlOK
    <3> QED
      BY <2>1, <3>2, <3>3
  <2> QED
    BY <2>1, <2>2, <2>3 DEF ControlOK
<1> QED
  BY <1>3, <1>4

LEMMA TapWorld ==
  ASSUME NEW b, NEW e, EngineOK(b, e), NEW e1 \in Engine, Tapped(e, e1), NEW event \in Event, Due(e, event),
         e1.control = e.control \/ e1.control = Append(e.control, event),
         NEW b1 \in Book, Extends(b, b1), EventOK(b1, e1, event),
         BookOK(b1, e1), TapsOK(b1, e1), FramesOK(b1, e1.video)
  PROVE  EngineOK(b1, e1) /\ Onward(e, e1)
<1>0. e \in Engine /\ BookOK(b, e)
  BY DEF EngineOK
<1>1. Onward(e, e1) /\ ControlOK(b1, e1)
  BY GrownOnward, GrownControl
<1>2. StateOK(b1, e1)
  <2>1. Lower(e1, e1.state.session)
    BY <1>0, <1>1, LowerOnward DEF EngineOK, StateOK, Tapped
  <2>2. ASSUME NEW r \in DOMAIN e.state.video PROVE ShownOK(b1, e1, r, e.state.video[r])
    <3> DEFINE v == e.state.video[r]
    <3>1. ShownOK(b, e, r, v) /\ v.stream \in DOMAIN b
      BY ShownRole
    <3> HIDE DEF v
    <3>2. Told(b1, e1, e.state.session, v.stream) /\ b1[v.stream].role = r
      BY <1>0, <1>1, <3>1, ToldOnward DEF ShownOK
    <3>3. v.config # 0 => Chosen(b1, v.stream, v.config, v.content)
      BY <3>1, ChosenOnward DEF ShownOK
    <3>4. b1[v.stream].session = b[v.stream].session
      BY <3>1 DEF Extends
    <3>5. ShownOK(b1, e1, r, v)
      BY <3>1, <3>2, <3>3, <3>4 DEF ShownOK, Tapped
    <3> QED
      BY <3>5 DEF v
  <2> QED
    BY <2>1, <2>2 DEF StateOK, Tapped
<1>3. RecordsOK(b1, e1, e1.down) /\ RequestsOK(b1, e1, e1.up) /\ RequestsOK(b1, e1, e1.early)
  <2>1. e1.down \in Seq(Record) /\ e1.down = e.down /\ e1.up = e.up /\ e1.early = e.early
    BY EngineIs DEF Tapped
  <2> QED
    BY <1>0, <1>1, <2>1, QueuesOnward DEF EngineOK
<1> QED
  BY <1>1, <1>2, <1>3 DEF EngineOK

\* With it, the client follows as before.
LEMMA TapStage ==
  ASSUME NEW b, NEW e, NEW e1, NEW s, World(b, e, s), Tapped(e, e1), NEW b1, EngineOK(b1, e1), Onward(e, e1), Extends(b, b1)
  PROVE  World(b1, e1, s) /\ (Follows(b, e, s) => Follows(b1, e1, s))
<1>1. EngineOK(b, e) /\ e1.state = e.state /\ e1.serving = e.serving /\ e1.down = e.down
  BY DEF World, Tapped
<1>2. World(b1, e1, s)
  BY <1>1, WorldOnward
<1>3. Follows(b, e, s) => Follows(b1, e1, s)
  BY <1>1, FollowsOnward
<1> QED
  BY <1>2, <1>3

-----------------------------------------------------------------------------
\* begin_session, end_session_for_epoch

LEMMA BeginKeeps ==
  ASSUME NEW b, NEW e, NEW s, World(b, e, s)
  PROVE  /\ World(b, BeginSession(e), s)
         /\ Stage(b, e, s) => Stage(b, BeginSession(e), s)
<1> DEFINE x == e.nextSession
           y == x + 1
           none == {}
           event == Begin(x)
           e0 == [e EXCEPT !.session = x, !.nextSession = y, !.asked = none]
           e1 == Post(e0, event)
<1>0. EngineOK(b, e) /\ e \in Engine /\ x \in Nat /\ b \in Book
  BY EngineIs DEF World, EngineOK
<1>1. BeginSession(e) = e1
  BY DEF BeginSession
<1>2. event \in Event /\ event.kind = "begin" /\ event.session = x
  BY <1>0 DEF Begin, Event
<1>3. y \in Nat /\ y = x + 1 /\ none \in Roles
  BY <1>0, NoneOf
<1> HIDE DEF x, y, none, event
<1>4. e0 \in Engine
  BY <1>0, <1>3, Zenon DEF Engine
<1>5. /\ e0.session = x /\ e0.nextSession = y /\ e0.nextStream = e.nextStream /\ e0.taps = e.taps
      /\ e0.control = e.control /\ e0.video = e.video /\ e0.state = e.state
      /\ e0.serving = e.serving /\ e0.down = e.down /\ e0.up = e.up /\ e0.early = e.early
  BY <1>0, SMT DEF Engine
<1> HIDE DEF e0
<1>6. e1 \in Engine /\ Posted(e0, e1, event)
  BY <1>2, <1>4, PostPosts
<1> HIDE DEF e1
<1>7. Tapped(e, e1)
  BY <1>0, <1>3, <1>5, <1>6 DEF Tapped, Posted, x
<1>8. Due(e, event) /\ EventOK(b, e1, event)
  <2>1. x # 0
    BY <1>0 DEF EngineOK, BookOK, x
  <2> QED
    BY <1>0, <1>2, <1>3, <1>5, <1>6, <2>1 DEF Due, EventOK, Posted, x
<1>9. BookOK(b, e1)
  <2>1. e1.nextStream = e.nextStream /\ e1.session = x /\ e1.nextSession = x + 1
    BY <1>3, <1>5, <1>6 DEF Posted
  <2>2. BookOK(b, e) /\ x # 0 /\ e.nextSession = x
    BY <1>0 DEF EngineOK, BookOK, x
  <2>3. \A i \in DOMAIN b : b[i].session \in 1..x - 1
    BY <2>2 DEF BookOK
  <2>4. \A i \in DOMAIN b : b[i].session \in 1..x + 1 - 1
    BY <1>0, <2>3
  <2> QED
    BY <1>0, <2>1, <2>2, <2>4 DEF BookOK
<1>10. TapsOK(b, e1) /\ FramesOK(b, e1.video)
  BY <1>0, <1>5, <1>6 DEF EngineOK, TapsOK, Posted
<1>11. e1.control = e.control \/ e1.control = Append(e.control, event)
  BY <1>5, <1>6 DEF Posted
<1>12. EngineOK(b, e1) /\ Onward(e, e1)
  BY <1>0, <1>2, <1>6, <1>7, <1>8, <1>9, <1>10, <1>11, ExtendsSelf, TapWorld
<1>13. World(b, e1, s) /\ (Follows(b, e, s) => Follows(b, e1, s))
  BY <1>7, <1>12, ExtendsSelf, TapStage
<1>14. Hears(e1, s)
  <2>1. e1.session = x /\ s.session < x /\ s.session \in Nat
    BY <1>5, <1>6 DEF World, StoreOK, Lower, Posted, x
  <2> QED
    BY <1>0, <2>1 DEF Hears, Heard, Current
<1> QED
  BY <1>1, <1>13, <1>14 DEF Stage

LEMMA EndKeeps ==
  ASSUME NEW b, NEW e, NEW s, World(b, e, s), NEW x \in Nat
  PROVE  /\ World(b, EndSession(e, x), s)
         /\ Stage(b, e, s) => Stage(b, EndSession(e, x), s)
<1> DEFINE none == {}
           event == End(x)
           e0 == [e EXCEPT !.session = 0, !.asked = none]
           e1 == Post(e0, event)
<1>a. CASE x # e.session
  BY <1>a DEF EndSession
<1>b. CASE x = e.session
  <2>0. EngineOK(b, e) /\ e \in Engine /\ b \in Book /\ e.nextSession \in Nat
    BY EngineIs DEF World, EngineOK
  <2>1. EndSession(e, x) = e1
    BY <1>b DEF EndSession
  <2>2. event \in Event /\ event.kind = "end" /\ event.session = x
    BY DEF End, Event
  <2>3. none \in Roles
    BY NoneOf
  <2> HIDE DEF none, event
  <2>4. e0 \in Engine
    BY <2>0, <2>3, Zenon DEF Engine
  <2>5. /\ e0.session = 0 /\ e0.nextSession = e.nextSession /\ e0.nextStream = e.nextStream /\ e0.taps = e.taps
        /\ e0.control = e.control /\ e0.video = e.video /\ e0.state = e.state
        /\ e0.serving = e.serving /\ e0.down = e.down /\ e0.up = e.up /\ e0.early = e.early
    BY <2>0, SMT DEF Engine
  <2> HIDE DEF e0
  <2>6. e1 \in Engine /\ Posted(e0, e1, event)
    BY <2>2, <2>4, PostPosts
  <2> HIDE DEF e1
  <2>7. Tapped(e, e1)
    BY <2>0, <2>5, <2>6 DEF Tapped, Posted
  <2>8. Due(e, event) /\ EventOK(b, e1, event)
    BY <2>2 DEF Due, EventOK, Opens
  <2>9. BookOK(b, e1) /\ TapsOK(b, e1) /\ FramesOK(b, e1.video)
    BY <2>0, <2>5, <2>6, SMTT(30) DEF EngineOK, BookOK, TapsOK, Posted
  <2>11. e1.control = e.control \/ e1.control = Append(e.control, event)
    BY <2>5, <2>6 DEF Posted
  <2>12. EngineOK(b, e1) /\ Onward(e, e1)
    BY <2>0, <2>2, <2>6, <2>7, <2>8, <2>9, <2>11, ExtendsSelf, TapWorld
  <2>13. World(b, e1, s) /\ (Follows(b, e, s) => Follows(b, e1, s))
    BY <2>7, <2>12, ExtendsSelf, TapStage
  <2>14. Hears(e1, s)
    BY <2>5, <2>6 DEF Hears, Heard, Current, Posted
  <2> QED
    BY <2>1, <2>13, <2>14 DEF Stage
<1> QED
  BY <1>a, <1>b

Streams(e, r) == {st \in DOMAIN e.taps : e.taps[st].role = r}

LEMMA ScreenIs ==
  ASSUME NEW b, NEW e, EngineOK(b, e), NEW r
  PROVE  /\ Screen(e, r) \in {0} \cup Streams(e, r)
         /\ \A st \in Streams(e, r) : Screen(e, r) >= st
<1> DEFINE T == Streams(e, r)
           S == {0} \cup T
           m == e.nextStream - 1
<1>1. m \in Nat /\ T \in SUBSET (1..m)
  <2>1. DOMAIN e.taps \subseteq 1..m /\ e.nextStream \in Nat /\ e.nextStream # 0
    BY EngineIs DEF EngineOK, TapsOK, BookOK
  <2> QED
    BY <2>1 DEF Streams
<1>2. Screen(e, r) = CHOOSE x \in S : \A y \in S : x >= y
  BY DEF Screen, Max, Streams
<1>3. \A y \in T : y \in Nat
  BY <1>1
<1> HIDE DEF T, m
<1>4. \E x \in S : \A y \in S : x >= y
  <2>1. CASE T = {}
    BY <2>1
  <2>2. CASE T # {}
    <3>1. Largest(T) \in T /\ \A y \in T : Largest(T) >= y
      BY <1>1, <2>2, LargestIn
    <3>2. Largest(T) >= 0
      BY <1>3, <3>1
    <3> QED
      BY <3>1, <3>2
  <2> QED
    BY <2>1, <2>2
<1>5. Screen(e, r) \in S /\ \A y \in S : Screen(e, r) >= y
  BY <1>2, <1>4
<1> QED
  BY <1>5 DEF T

LEMMA ScreenOf ==
  ASSUME NEW e, NEW e1, NEW r, Streams(e1, r) = Streams(e, r) PROVE Screen(e1, r) = Screen(e, r)
  BY DEF Screen, Streams

LEMMA TapIs ==
  ASSUME NEW b, NEW e, EngineOK(b, e), NEW st \in DOMAIN e.taps
  PROVE  /\ e.taps[st] \in Tap /\ st \in Nat /\ st \in DOMAIN b /\ st \in 1..e.nextStream - 1
         /\ e.taps[st].session \in Nat /\ e.taps[st].role \in Role /\ e.taps[st].config \in Nat
         /\ e.taps[st].content \in AnyContent /\ e.taps[st].sequence \in Nat
         /\ e.taps[st].session = b[st].session /\ e.taps[st].role = b[st].role
         /\ e.taps[st].config = Len(b[st].contents)
         /\ e.taps[st].config # 0 => e.taps[st].content = b[st].contents[e.taps[st].config]
         /\ b[st].session \in 1..e.nextSession - 1 /\ b[st].contents \in Seq(Content) /\ b[st] \in Chapter
<1>1. e \in Engine /\ e.taps \in Entries(Nat, Tap) /\ b \in Seq(Chapter) /\ BookOK(b, e) /\ TapsOK(b, e)
  BY EngineIs DEF EngineOK, Taps, Book
<1>2. e.taps[st] \in Tap /\ st \in Nat
  BY <1>1, EntriesAre
<1>3. st \in DOMAIN b /\ st \in 1..e.nextStream - 1 /\ b[st] \in Chapter /\ b[st].session \in 1..e.nextSession - 1
  <2>1. st \in DOMAIN b /\ st \in 1..e.nextStream - 1 /\ b[st].session \in 1..e.nextSession - 1
    BY <1>1 DEF TapsOK, BookOK
  <2>2. b[st] \in Chapter
    BY <1>1, <2>1
  <2> QED
    BY <2>1, <2>2
<1>4. b[st].contents \in Seq(Content)
  BY <1>3 DEF Chapter, Contents
<1>5. /\ e.taps[st].session = b[st].session /\ e.taps[st].role = b[st].role
      /\ e.taps[st].config = Len(b[st].contents)
      /\ e.taps[st].config # 0 => e.taps[st].content = b[st].contents[e.taps[st].config]
  BY <1>1 DEF TapsOK
<1> QED
  BY <1>2, <1>3, <1>4, <1>5 DEF Tap

\* The phone is asked, past the throttle.
Also(e, r) == [e EXCEPT !.asked = @ \cup {r}]

LEMMA AlsoIs ==
  ASSUME NEW e \in Engine, NEW r \in Role
  PROVE  Also(e, r) \in Engine /\ Alike(e, Also(e, r)) /\ Also(e, r).asked = e.asked \cup {r} /\ Also(e, r).lost = e.lost
<1> DEFINE t == e.throttled
           a == e.asked \cup {r}
           l == e.lost
<1>1. t \in Roles /\ a \in Roles /\ l \in Roles
  BY DEF Engine, Roles
<1>2. Also(e, r) = Asking(e, t, a, l)
  BY Zenon DEF Also, Engine, Asking
<1> HIDE DEF t, a, l
<1>3. /\ Asking(e, t, a, l) \in Engine /\ Alike(e, Asking(e, t, a, l))
      /\ Asking(e, t, a, l).asked = a /\ Asking(e, t, a, l).lost = l
  BY <1>1, AskingAlike
<1>4. Also(e, r) \in Engine /\ Alike(e, Also(e, r)) /\ Also(e, r).asked = a /\ Also(e, r).lost = l
  BY <1>2, <1>3
<1> QED
  BY <1>4 DEF a, l

\* Calls that add to what will come, on streams that the screens keep
Grown(e, e1) ==
  /\ e1.session = e.session /\ e1.state = e.state /\ e1.serving = e.serving /\ e1.down = e.down /\ e1.up = e.up
  /\ e.fatal => e1.fatal
  /\ \A rec : Holds(e.video, rec) => Holds(e1.video, rec)
  /\ \A rec : Holds(e.control, rec) => Holds(e1.control, rec)

LEMMA GrownHeard ==
  ASSUME NEW e, NEW e1, NEW s, NEW r, Grown(e, e1), Heard(e, s, r), Screen(e1, r) = Screen(e, r),
         r \in e.asked \cup e.lost => \/ r \in e1.asked \cup e1.lost
                                      \/ Current(e1, s, r) => Coming(e1, s, r)
  PROVE  Heard(e1, s, r)
<1> SUFFICES ASSUME Current(e1, s, r), s.selected, s.video[r].have, s.video[r].waiting
             PROVE  AskedFor(e1, s, r) \/ r \in e1.lost
  BY DEF Heard
<1>1. Current(e, s, r)
  BY DEF Current, Grown
<1>2. AskedFor(e, s, r) \/ r \in e.lost
  BY <1>1 DEF Heard
<1>3. Coming(e, s, r) => Coming(e1, s, r)
  BY ComingIs DEF Grown
<1> QED
  BY <1>2, <1>3 DEF AskedFor, Grown

-----------------------------------------------------------------------------
\* video_stream

Written(b, e, r) == Append(b, [session |-> e.session, role |-> r, contents |-> <<>>])

LEMMA StreamStarted ==
  ASSUME NEW b, NEW e, NEW s, World(b, e, s), NEW r \in Role, e.session # 0,
         \A st \in DOMAIN e.taps : e.taps[st].role = r => e.taps[st].session # e.session
  PROVE  LET e1 == Also(VideoStream(e, r), r)
             b1 == Written(b, e, r)
         IN  World(b1, e1, s) /\ (Stage(b, e, s) => Stage(b1, e1, s))
<1> DEFINE n == e.nextStream
           y == n + 1
           tap == [session |-> e.session, role |-> r, config |-> 0, content |-> NoContent, sequence |-> 0]
           taps == Put(e.taps, n, tap)
           event == Start(e.session, n, r)
           e0 == [e EXCEPT !.nextStream = y, !.taps = taps]
           p == Post(e0, event)
           e1 == Also(p, r)
           b1 == Written(b, e, r)
<1>0. /\ EngineOK(b, e) /\ e \in Engine /\ n \in Nat /\ b \in Book /\ e.session \in Nat /\ e.nextSession \in Nat
      /\ BookOK(b, e) /\ TapsOK(b, e) /\ e.taps \in Entries(Nat, Tap) /\ e.control \in Seq(Event)
  BY EngineIs DEF World, EngineOK, Taps
<1>1. VideoStream(e, r) = p
  BY DEF VideoStream
<1>2. event \in Event /\ event.kind = "start" /\ event.session = e.session /\ event.stream = n /\ event.role = r
  BY <1>0, StartIs
<1>3. y \in Nat /\ y = n + 1 /\ n # 0
  BY <1>0 DEF BookOK
<1>4. /\ taps \in Taps /\ DOMAIN taps = DOMAIN e.taps \cup {n} /\ taps[n] = tap
      /\ \A st \in DOMAIN e.taps : st # n => taps[st] = e.taps[st]
  <2>1. tap \in Tap
    BY <1>0 DEF Tap, AnyContent
  <2> HIDE DEF tap, n
  <2>2. /\ Put(e.taps, n, tap) \in Entries(Nat, Tap) /\ DOMAIN Put(e.taps, n, tap) = DOMAIN e.taps \cup {n}
        /\ Put(e.taps, n, tap)[n] = tap /\ \A st \in DOMAIN e.taps : st # n => Put(e.taps, n, tap)[st] = e.taps[st]
    <3>1. Put(e.taps, n, tap) \in Entries(Nat, Tap)
      BY <1>0, <2>1, PutEntry
    <3> HIDE DEF taps
    <3>2. /\ DOMAIN Put(e.taps, n, tap) = DOMAIN e.taps \cup {n}
          /\ Put(e.taps, n, tap)[n] = tap /\ \A st \in DOMAIN e.taps : st # n => Put(e.taps, n, tap)[st] = e.taps[st]
      BY DEF Put
    <3> QED
      BY <3>1, <3>2
  <2> QED
    BY <2>2 DEF Taps
<1> HIDE DEF taps, event, y
<1>5. e0 \in Engine
  BY <1>0, <1>3, <1>4, Zenon DEF Engine
<1>6. /\ e0.session = e.session /\ e0.nextSession = e.nextSession /\ e0.nextStream = y /\ e0.taps = taps
      /\ e0.control = e.control /\ e0.video = e.video /\ e0.state = e.state /\ e0.fatal = e.fatal
      /\ e0.serving = e.serving /\ e0.down = e.down /\ e0.up = e.up /\ e0.early = e.early
      /\ e0.asked = e.asked /\ e0.lost = e.lost
  BY <1>0, SMT DEF Engine
<1> HIDE DEF e0
<1>7. p \in Engine /\ Posted(e0, p, event)
  BY <1>2, <1>5, PostPosts
<1> HIDE DEF p
<1>8. e1 \in Engine /\ Alike(p, e1) /\ e1.asked = p.asked \cup {r} /\ e1.lost = p.lost
  BY <1>7, AlsoIs
<1> HIDE DEF e1
<1>9. /\ e1.session = e.session /\ e1.nextSession = e.nextSession /\ e1.nextStream = y /\ e1.taps = taps
      /\ e1.video = e.video /\ e1.state = e.state
      /\ e1.serving = e.serving /\ e1.down = e.down /\ e1.up = e.up /\ e1.early = e.early
      /\ e1.asked = e.asked \cup {r} /\ e1.lost = e.lost
      /\ \/ e1.control = Append(e.control, event) /\ e1.fatal = e.fatal
         \/ e1.control = e.control /\ e1.fatal
  BY <1>6, <1>7, <1>8 DEF Posted, Alike
<1>10. Tapped(e, e1)
  BY <1>0, <1>9 DEF Tapped
<1>11. e.session = e.nextSession - 1
  BY <1>0 DEF BookOK
<1> DEFINE chapter == [session |-> e.session, role |-> r, contents |-> <<>>]
<1>12. chapter \in Chapter
  BY <1>0 DEF Chapter, Contents
<1>13. /\ b1 \in Book /\ DOMAIN b1 = 1..n /\ DOMAIN b = 1..n - 1 /\ b1[n] = chapter
       /\ \A st \in 1..n - 1 : b1[st] = b[st]
  <2>1. DOMAIN b = 1..n - 1 /\ b \in Seq(Chapter)
    BY <1>0 DEF BookOK, Book
  <2>2. Len(b) = n - 1 /\ b1 = Append(b, chapter)
    BY <1>0, <1>3, <2>1 DEF Written
  <2> HIDE DEF chapter, b1
  <2> QED
    BY <1>0, <1>3, <1>12, <2>1, <2>2 DEF Book
<1> HIDE DEF b1
<1>14. n \in DOMAIN b1 /\ b1[n].session = e.session /\ b1[n].role = r /\ Len(b1[n].contents) = 0
  BY <1>0, <1>3, <1>13
<1> HIDE DEF chapter
<1>15. Extends(b, b1)
  <2>1. \A st \in DOMAIN b : st \in DOMAIN b1 /\ b1[st] = b[st]
    BY <1>0, <1>3, <1>13
  <2> QED
    BY <2>1 DEF Extends
<1>16. Due(e, event) /\ EventOK(b1, e1, event)
  BY <1>0, <1>2, <1>11, <1>14 DEF Due, EventOK
<1>17. BookOK(b1, e1)
  <2>1. \A i \in 1..n : i \in 1..n - 1 \/ i = n
    BY <1>0
  <2>2. \A i \in DOMAIN b1 : b1[i].session \in 1..e.nextSession - 1
    <3>1. \A i \in 1..n - 1 : b[i].session \in 1..e.nextSession - 1
      BY <1>0, <1>13 DEF BookOK
    <3>2. b1[n].session \in 1..e.nextSession - 1
      BY <1>0, <1>11, <1>14
    <3> QED
      BY <1>13, <2>1, <3>1, <3>2
  <2>3. ASSUME NEW i \in DOMAIN b1, NEW j \in DOMAIN b1, i < j PROVE b1[i].session <= b1[j].session
    <3>1. i \in 1..n - 1
      BY <1>0, <1>13, <2>3
    <3>2. CASE j = n
      <4>1. b1[i].session \in 1..e.nextSession - 1
        BY <2>2
      <4> QED
        BY <1>0, <1>11, <1>14, <3>2, <4>1
    <3>3. CASE j \in 1..n - 1
      BY <1>0, <1>13, <2>3, <3>1, <3>3 DEF BookOK
    <3> QED
      BY <1>13, <2>1, <3>2, <3>3
  <2>4. e1.nextStream - 1 = n /\ e1.nextStream # 0
    BY <1>0, <1>3, <1>9
  <2> QED
    BY <1>0, <1>9, <1>13, <2>2, <2>3, <2>4 DEF BookOK
<1>18. \A st \in DOMAIN e.taps : st \in 1..n - 1 /\ st # n /\ e1.taps[st] = e.taps[st] /\ b1[st] = b[st]
  BY <1>0, <1>4, <1>9, <1>13, TapIs
<1>19. TapsOK(b1, e1)
  <2>1. ASSUME NEW st \in DOMAIN e1.taps
        PROVE  LET t == e1.taps[st] IN
               /\ st \in DOMAIN b1 /\ t.session = b1[st].session /\ t.role = b1[st].role
               /\ t.config = Len(b1[st].contents)
               /\ t.config # 0 => t.content = b1[st].contents[t.config]
    <3>1. CASE st = n
      <4>1. e1.taps[st].session = e.session /\ e1.taps[st].role = r /\ e1.taps[st].config = 0
        BY <1>4, <1>9, <3>1
      <4> QED
        BY <1>14, <3>1, <4>1
    <3>2. CASE st # n
      <4>1. st \in DOMAIN e.taps
        BY <1>4, <1>9, <3>2
      <4>2. e1.taps[st] = e.taps[st] /\ b1[st] = b[st] /\ st \in DOMAIN b1
        BY <1>0, <1>13, <1>18, <4>1
      <4> QED
        BY <1>0, <4>1, <4>2 DEF TapsOK
    <3> QED
      BY <3>1, <3>2
  <2>2. ASSUME NEW i \in DOMAIN e1.taps, NEW j \in DOMAIN e1.taps, i # j, e1.taps[i].role = e1.taps[j].role
        PROVE  e1.taps[i].session # e1.taps[j].session
    <3>1. \A st \in DOMAIN e1.taps : st = n \/ (st \in DOMAIN e.taps /\ e1.taps[st] = e.taps[st])
      BY <1>4, <1>9, <1>18
    <3>2. e1.taps[n].session = e.session /\ e1.taps[n].role = r
      BY <1>4, <1>9
    <3>3. CASE i = n
      BY <2>2, <3>1, <3>2, <3>3
    <3>4. CASE j = n
      BY <2>2, <3>1, <3>2, <3>4
    <3>5. CASE i # n /\ j # n
      BY <1>0, <2>2, <3>1, <3>5 DEF TapsOK
    <3> QED
      BY <3>3, <3>4, <3>5
  <2> QED
    BY <2>1, <2>2 DEF TapsOK
<1>20. FramesOK(b1, e1.video)
  BY <1>0, <1>9, <1>15, FrameOnward DEF EngineOK, FramesOK
<1>21. EngineOK(b1, e1) /\ Onward(e, e1)
  BY <1>0, <1>2, <1>8, <1>9, <1>10, <1>13, <1>15, <1>16, <1>17, <1>19, <1>20, TapWorld
<1>22. World(b1, e1, s) /\ (Follows(b, e, s) => Follows(b1, e1, s))
  BY <1>10, <1>15, <1>21, TapStage
<1>23. ASSUME Hears(e, s) PROVE Hears(e1, s)
  <2> SUFFICES ASSUME e1.serving, ~ e1.fatal, NEW x \in Role PROVE Heard(e1, s, x)
    BY DEF Hears
  <2>1. e1.control = Append(e.control, event) /\ e1.fatal = e.fatal
    BY <1>9
  <2>2. Grown(e, e1)
    <3>1. \A rec : Holds(e.control, rec) => Holds(e1.control, rec)
      BY <1>0, <1>2, <2>1, HoldsAppend
    <3> QED
      BY <1>9, <2>1, <3>1 DEF Grown
  <2>3. CASE x = r
    BY <1>9, <2>3 DEF Heard, AskedFor
  <2>4. CASE x # r
    <3>1. Streams(e1, x) = Streams(e, x)
      <4>1. e1.taps[n].role = r /\ DOMAIN e1.taps = DOMAIN e.taps \cup {n}
        BY <1>4, <1>9
      <4> QED
        BY <1>18, <2>4, <4>1 DEF Streams
    <3>2. Heard(e, s, x)
      BY <1>9, <1>23, <2>1 DEF Hears
    <3> QED
      BY <1>9, <2>2, <3>1, <3>2, ScreenOf, GrownHeard
  <2> QED
    BY <2>3, <2>4
<1>24. World(b1, e1, s) /\ (Stage(b, e, s) => Stage(b1, e1, s))
  BY <1>22, <1>23 DEF Stage
<1> QED
  BY <1>1, <1>24 DEF e1, b1

-----------------------------------------------------------------------------
\* config

Retapped(e, st, t) == [e.taps EXCEPT ![st] = t]

LEMMA RetappedIs ==
  ASSUME NEW e, e.taps \in Taps, NEW st \in DOMAIN e.taps, NEW t \in Tap
  PROVE  /\ Retapped(e, st, t) \in Taps /\ DOMAIN Retapped(e, st, t) = DOMAIN e.taps
         /\ Retapped(e, st, t)[st] = t
         /\ \A x \in DOMAIN e.taps : x # st => Retapped(e, st, t)[x] = e.taps[x]
<1> DEFINE f == e.taps
           g == Retapped(e, st, t)
<1>1. DOMAIN f \subseteq Nat /\ \A x \in DOMAIN f : f[x] \in Tap
  BY EntriesAre DEF Taps
<1>2. DOMAIN g = DOMAIN f /\ g[st] = t /\ (\A x \in DOMAIN f : x # st => g[x] = f[x]) /\ g = [x \in DOMAIN g |-> g[x]]
  BY DEF Retapped
<1> HIDE DEF f, g
<1>3. g \in Entries(Nat, Tap)
  <2>1. \A x \in DOMAIN g : g[x] \in Tap
    BY <1>1, <1>2
  <2> QED
    BY <1>1, <1>2, <2>1, EntriesAre
<1> QED
  BY <1>2, <1>3 DEF Taps, f, g

Rewritten(b, st, c) ==
  [x \in DOMAIN b |->
     IF x = st THEN [session |-> b[st].session, role |-> b[st].role, contents |-> Append(b[st].contents, c)]
     ELSE b[x]]

LEMMA RewrittenIs ==
  ASSUME NEW b \in Book, NEW st \in DOMAIN b, NEW c \in Content
  PROVE  /\ Rewritten(b, st, c) \in Book /\ Extends(b, Rewritten(b, st, c)) /\ DOMAIN Rewritten(b, st, c) = DOMAIN b
         /\ \A x \in DOMAIN b : /\ Rewritten(b, st, c)[x].session = b[x].session
                                /\ Rewritten(b, st, c)[x].role = b[x].role
                                /\ x # st => Rewritten(b, st, c)[x] = b[x]
         /\ Rewritten(b, st, c)[st].contents = Append(b[st].contents, c)
<1> DEFINE w == [session |-> b[st].session, role |-> b[st].role, contents |-> Append(b[st].contents, c)]
           b1 == Rewritten(b, st, c)
<1>1. b \in Seq(Chapter) /\ b[st] \in Chapter /\ b[st].contents \in Seq(Content)
  <2>1. b \in Seq(Chapter)
    BY DEF Book
  <2>2. b[st] \in Chapter
    BY <2>1
  <2> QED
    BY <2>1, <2>2 DEF Chapter, Contents
<1>2. w \in Chapter
  BY <1>1 DEF Chapter, Contents
<1>3. w.session = b[st].session /\ w.role = b[st].role /\ w.contents = Append(b[st].contents, c)
  OBVIOUS
<1>4. b1 = [x \in DOMAIN b |-> IF x = st THEN w ELSE b[x]]
  BY DEF Rewritten
<1> HIDE DEF w, b1
<1>5. DOMAIN b1 = DOMAIN b /\ b1[st] = w /\ \A x \in DOMAIN b : x # st => b1[x] = b[x]
  BY <1>4
<1>6. b1 \in Book
  <2>1. DOMAIN b = 1..Len(b) /\ Len(b) \in Nat /\ \A x \in 1..Len(b) : b[x] \in Chapter
    BY <1>1
  <2>2. b1 \in [1..Len(b) -> Chapter]
    BY <1>2, <1>4, <2>1
  <2> QED
    BY <2>1, <2>2 DEF Book
<1>7. \A x \in DOMAIN b : b1[x].session = b[x].session /\ b1[x].role = b[x].role
  BY <1>3, <1>5
<1>8. \A k \in DOMAIN b[st].contents : k \in DOMAIN b1[st].contents /\ b1[st].contents[k] = b[st].contents[k]
  BY <1>1, <1>3, <1>5
<1>9. Extends(b, b1)
  BY <1>5, <1>7, <1>8 DEF Extends
<1> QED
  BY <1>3, <1>5, <1>6, <1>7, <1>9 DEF b1

LEMMA StreamConfiguredKeeps ==
  ASSUME NEW b, NEW e, NEW s, World(b, e, s), NEW st \in DOMAIN e.taps, NEW c \in Content
  PROVE  LET e1 == Also(TapConfig(e, st, c), e.taps[st].role)
             b1 == Rewritten(b, st, c)
         IN  World(b1, e1, s) /\ (Stage(b, e, s) => Stage(b1, e1, s))
<1> DEFINE t == e.taps[st]
           r == t.role
           k == t.config + 1
           tap == [t EXCEPT !.config = k, !.content = c]
           taps == Retapped(e, st, tap)
           event == Configure(t.session, st, k, c)
           e0 == [e EXCEPT !.taps = taps]
           p == Post(e0, event)
           e1 == Also(p, r)
           b1 == Rewritten(b, st, c)
<1>0. /\ EngineOK(b, e) /\ e \in Engine /\ b \in Book /\ e.taps \in Taps /\ e.control \in Seq(Event)
      /\ BookOK(b, e) /\ TapsOK(b, e)
  BY EngineIs DEF World, EngineOK
<1>1. /\ t \in Tap /\ st \in Nat /\ st \in DOMAIN b /\ t.session \in Nat /\ r \in Role /\ t.config \in Nat
      /\ t.session = b[st].session /\ r = b[st].role /\ t.config = Len(b[st].contents) /\ b[st].contents \in Seq(Content)
  BY <1>0, TapIs
<1>2. c \in AnyContent /\ c # NoContent
  BY LinkAssumption DEF AnyContent
<1>3. TapConfig(e, st, c) = p
  <2>1. [e EXCEPT !.taps[st].config = @ + 1, !.taps[st].content = c] = e0
    BY <1>0 DEF Engine, Retapped
  <2> QED
    BY <1>2, <2>1 DEF TapConfig
<1>4. /\ tap \in Tap /\ tap.session = t.session /\ tap.role = r /\ tap.config = k /\ tap.content = c /\ k \in Nat /\ k = t.config + 1
  <2>1. k \in Nat /\ k = t.config + 1
    BY <1>1
  <2> HIDE DEF t, k
  <2>2. tap \in Tap
    BY <1>1, <1>2, <2>1 DEF Tap
  <2>3. tap.session = t.session /\ tap.role = t.role /\ tap.config = k /\ tap.content = c
    BY <1>1 DEF Tap
  <2> QED
    BY <2>1, <2>2, <2>3
<1>5. /\ event \in Event /\ event.kind = "config" /\ event.session = t.session /\ event.stream = st
      /\ event.config = k /\ event.content = c
  BY <1>1, <1>2, <1>4, ConfigureEvent
<1> HIDE DEF tap, t
<1>6. /\ taps \in Taps /\ DOMAIN taps = DOMAIN e.taps /\ taps[st] = tap
      /\ \A x \in DOMAIN e.taps : x # st => taps[x] = e.taps[x]
  BY <1>0, <1>4, RetappedIs
<1> HIDE DEF taps, event, k
<1>7. e0 \in Engine
  BY <1>0, <1>6, Zenon DEF Engine
<1>8. /\ e0.session = e.session /\ e0.nextSession = e.nextSession /\ e0.nextStream = e.nextStream /\ e0.taps = taps
      /\ e0.control = e.control /\ e0.video = e.video /\ e0.state = e.state /\ e0.fatal = e.fatal
      /\ e0.serving = e.serving /\ e0.down = e.down /\ e0.up = e.up /\ e0.early = e.early
      /\ e0.asked = e.asked /\ e0.lost = e.lost
  BY <1>0, SMT DEF Engine
<1> HIDE DEF e0
<1>9. p \in Engine /\ Posted(e0, p, event)
  BY <1>5, <1>7, PostPosts
<1> HIDE DEF p
<1>10. e1 \in Engine /\ Alike(p, e1) /\ e1.asked = p.asked \cup {r} /\ e1.lost = p.lost
  BY <1>1, <1>9, AlsoIs
<1> HIDE DEF e1
<1>11. /\ e1.session = e.session /\ e1.nextSession = e.nextSession /\ e1.nextStream = e.nextStream /\ e1.taps = taps
       /\ e1.video = e.video /\ e1.state = e.state
       /\ e1.serving = e.serving /\ e1.down = e.down /\ e1.up = e.up /\ e1.early = e.early
       /\ e1.asked = e.asked \cup {r} /\ e1.lost = e.lost
       /\ \/ e1.control = Append(e.control, event) /\ e1.fatal = e.fatal
          \/ e1.control = e.control /\ e1.fatal
  BY <1>8, <1>9, <1>10 DEF Posted, Alike
<1>12. Tapped(e, e1)
  BY <1>0, <1>11, EngineIs DEF Tapped
<1>13. /\ b1 \in Book /\ Extends(b, b1) /\ DOMAIN b1 = DOMAIN b
       /\ \A x \in DOMAIN b : b1[x].session = b[x].session /\ b1[x].role = b[x].role /\ (x # st => b1[x] = b[x])
       /\ b1[st].contents = Append(b[st].contents, c)
  BY <1>0, <1>1, RewrittenIs
<1> HIDE DEF b1
<1>14. Len(b1[st].contents) = k /\ b1[st].contents[k] = c /\ k \in DOMAIN b1[st].contents
  BY <1>1, <1>4, <1>13
<1>15. Due(e, event) /\ EventOK(b1, e1, event)
  BY <1>1, <1>5, <1>13, <1>14 DEF Due, EventOK, Opens, Chosen
<1>16. BookOK(b1, e1)
  BY <1>0, <1>11, <1>13 DEF BookOK
<1>17. TapsOK(b1, e1)
  <2>1. ASSUME NEW x \in DOMAIN e1.taps
        PROVE  LET u == e1.taps[x] IN
               /\ x \in DOMAIN b1 /\ u.session = b1[x].session /\ u.role = b1[x].role
               /\ u.config = Len(b1[x].contents)
               /\ u.config # 0 => u.content = b1[x].contents[u.config]
    <3>1. CASE x = st
      BY <1>1, <1>4, <1>6, <1>11, <1>13, <1>14, <3>1
    <3>2. CASE x # st
      <4>1. x \in DOMAIN e.taps /\ e1.taps[x] = e.taps[x]
        BY <1>6, <1>11, <3>2
      <4>2. x \in DOMAIN b /\ b1[x] = b[x]
        BY <1>0, <1>13, <3>2, <4>1, TapIs
      <4> QED
        BY <1>0, <1>13, <4>1, <4>2 DEF TapsOK
    <3> QED
      BY <3>1, <3>2
  <2>2. \A x \in DOMAIN e1.taps : x \in DOMAIN e.taps /\ e1.taps[x].role = e.taps[x].role /\ e1.taps[x].session = e.taps[x].session
    BY <1>1, <1>4, <1>6, <1>11 DEF t
  <2> QED
    BY <1>0, <2>1, <2>2 DEF TapsOK
<1>18. FramesOK(b1, e1.video)
  BY <1>0, <1>11, <1>13, FrameOnward DEF EngineOK, FramesOK
<1>19. EngineOK(b1, e1) /\ Onward(e, e1)
  BY <1>0, <1>5, <1>10, <1>11, <1>12, <1>13, <1>15, <1>16, <1>17, <1>18, TapWorld
<1>20. World(b1, e1, s) /\ (Follows(b, e, s) => Follows(b1, e1, s))
  BY <1>12, <1>13, <1>19, TapStage
<1>21. ASSUME Hears(e, s) PROVE Hears(e1, s)
  <2> SUFFICES ASSUME e1.serving, ~ e1.fatal, NEW x \in Role PROVE Heard(e1, s, x)
    BY DEF Hears
  <2>1. e1.control = Append(e.control, event) /\ e1.fatal = e.fatal
    BY <1>11
  <2>2. Grown(e, e1)
    <3>1. \A rec : Holds(e.control, rec) => Holds(e1.control, rec)
      BY <1>0, <1>5, <2>1, HoldsAppend
    <3> QED
      BY <1>11, <2>1, <3>1 DEF Grown
  <2>3. Streams(e1, x) = Streams(e, x)
    BY <1>4, <1>6, <1>11 DEF Streams, t
  <2>4. Heard(e, s, x)
    BY <1>11, <1>21, <2>1 DEF Hears
  <2> QED
    BY <1>11, <2>2, <2>3, <2>4, ScreenOf, GrownHeard
<1>22. World(b1, e1, s) /\ (Stage(b, e, s) => Stage(b1, e1, s))
  BY <1>20, <1>21 DEF Stage
<1> QED
  BY <1>3, <1>22 DEF e1, b1, t

-----------------------------------------------------------------------------
\* frame

FrameOfTap(e, st, key) ==
  LET t == e.taps[st] IN
  [kind |-> "frame", session |-> t.session, stream |-> st, sequence |-> t.sequence + 1,
   config |-> t.config, content |-> t.content, key |-> key]

\* e1 is e with the frame counted.
Counted(e, e1, st, key) ==
  /\ e1.session = e.session /\ e1.nextSession = e.nextSession /\ e1.nextStream = e.nextStream
  /\ e1.control = e.control /\ e1.video = e.video /\ e1.fatal = e.fatal /\ e1.throttled = e.throttled
  /\ e1.asked = (IF key /\ st = Screen(e, e.taps[st].role) THEN e.asked \ {e.taps[st].role} ELSE e.asked)
  /\ e1.lost = e.lost /\ e1.serving = e.serving /\ e1.down = e.down /\ e1.up = e.up
  /\ e1.early = e.early /\ e1.ghost = e.ghost /\ e1.state = e.state
  /\ DOMAIN e1.taps = DOMAIN e.taps
  /\ \A x \in DOMAIN e.taps :
       /\ e1.taps[x].session = e.taps[x].session /\ e1.taps[x].role = e.taps[x].role
       /\ e1.taps[x].config = e.taps[x].config /\ e1.taps[x].content = e.taps[x].content

Count(e, st, key) ==
  [e EXCEPT !.taps[st].sequence = @ + 1,
            !.asked = IF key /\ st = Screen(e, e.taps[st].role) THEN @ \ {e.taps[st].role} ELSE @]

LEMMA CountCounts ==
  ASSUME NEW b, NEW e, EngineOK(b, e), NEW st \in DOMAIN e.taps, NEW key
  PROVE  Count(e, st, key) \in Engine /\ Counted(e, Count(e, st, key), st, key)
<1> DEFINE t == e.taps[st]
           n == t.sequence + 1
           tap == [t EXCEPT !.sequence = n]
           taps == Retapped(e, st, tap)
           asked == IF key /\ st = Screen(e, t.role) THEN e.asked \ {t.role} ELSE e.asked
           e1 == Count(e, st, key)
<1>0. e \in Engine /\ e.taps \in Taps
  BY EngineIs DEF EngineOK
<1>1. t \in Tap /\ t.sequence \in Nat
  BY TapIs
<1>2. e1 = [e EXCEPT !.taps = [e.taps EXCEPT ![st] = [t EXCEPT !.sequence = @ + 1]], !.asked = asked]
  BY <1>0 DEF Engine, Count
<1>3. n \in Nat
  BY <1>1
<1>4. asked \in Roles
  BY <1>0 DEF Engine, Roles
<1>5. e1 = [e EXCEPT !.taps = taps, !.asked = asked]
  BY <1>2 DEF Retapped
<1> HIDE DEF t, n
<1>6. /\ tap \in Tap /\ tap.session = t.session /\ tap.role = t.role /\ tap.config = t.config /\ tap.content = t.content
  BY <1>1, <1>3 DEF Tap
<1> HIDE DEF tap
<1>7. /\ taps \in Taps /\ DOMAIN taps = DOMAIN e.taps /\ taps[st] = tap
      /\ \A x \in DOMAIN e.taps : x # st => taps[x] = e.taps[x]
  BY <1>0, <1>6, RetappedIs
<1>10. asked = IF key /\ st = Screen(e, e.taps[st].role) THEN e.asked \ {e.taps[st].role} ELSE e.asked
  BY DEF t
<1> HIDE DEF taps, asked, e1
<1>8. e1 \in Engine
  BY <1>0, <1>4, <1>5, <1>7, Zenon DEF Engine
<1>9. /\ e1.session = e.session /\ e1.nextSession = e.nextSession /\ e1.nextStream = e.nextStream
      /\ e1.control = e.control /\ e1.video = e.video /\ e1.fatal = e.fatal /\ e1.throttled = e.throttled
      /\ e1.asked = asked
      /\ e1.lost = e.lost /\ e1.serving = e.serving /\ e1.down = e.down /\ e1.up = e.up
      /\ e1.early = e.early /\ e1.ghost = e.ghost /\ e1.state = e.state
      /\ e1.taps = taps
  BY <1>0, <1>5, SMT DEF Engine
<1>11. \A x \in DOMAIN e.taps :
         /\ e1.taps[x].session = e.taps[x].session /\ e1.taps[x].role = e.taps[x].role
         /\ e1.taps[x].config = e.taps[x].config /\ e1.taps[x].content = e.taps[x].content
  BY <1>6, <1>7, <1>9 DEF t
<1>12. Counted(e, e1, st, key)
  BY <1>7, <1>9, <1>10, <1>11 DEF Counted
<1> QED
  BY <1>8, <1>12 DEF e1

LEMMA CountedKeeps ==
  ASSUME NEW b, NEW e, NEW s, World(b, e, s), NEW st \in DOMAIN e.taps, NEW key,
         NEW e1 \in Engine, Counted(e, e1, st, key)
  PROVE  EngineOK(b, e1) /\ World(b, e1, s) /\ (Follows(b, e, s) => Follows(b, e1, s))
<1>0. EngineOK(b, e) /\ e \in Engine /\ b \in Book
  BY DEF World, EngineOK
<1>1. Tapped(e, e1)
  BY <1>0, EngineIs DEF Tapped, Counted
<1> DEFINE event == End(0)
<1>2. event \in Event /\ event.kind = "end"
  BY DEF End, Event
<1>3. Due(e, event) /\ EventOK(b, e1, event)
  BY <1>2 DEF Due, EventOK, Opens
<1> HIDE DEF event
<1>4. BookOK(b, e1) /\ TapsOK(b, e1) /\ FramesOK(b, e1.video)
  BY <1>0 DEF EngineOK, BookOK, TapsOK, Counted
<1>5. EngineOK(b, e1) /\ Onward(e, e1)
  BY <1>0, <1>1, <1>2, <1>3, <1>4, ExtendsSelf, TapWorld DEF Counted
<1> QED
  BY <1>1, <1>5, ExtendsSelf, TapStage

Filmed1(e, f) == [e EXCEPT !.video = Append(@, f)]

LEMMA FilmedKeeps ==
  ASSUME NEW b, NEW e, NEW s, World(b, e, s), NEW f \in Frame, FrameOK(b, f)
  PROVE  /\ World(b, Filmed1(e, f), s) /\ (Follows(b, e, s) => Follows(b, Filmed1(e, f), s))
         /\ Still(e, Filmed1(e, f)) /\ Filmed1(e, f).video = Append(e.video, f)
         /\ Filmed1(e, f).asked = e.asked /\ Filmed1(e, f).lost = e.lost /\ Filmed1(e, f).up = e.up
         /\ Filmed1(e, f).down = e.down /\ Filmed1(e, f).fatal = e.fatal /\ Filmed1(e, f).serving = e.serving
<1> DEFINE video == Append(e.video, f)
           e1 == Filmed1(e, f)
<1>0. EngineOK(b, e) /\ e \in Engine /\ e.video \in Seq(Frame) /\ FramesOK(b, e.video)
  BY EngineIs DEF World, EngineOK
<1>1. video \in Frames /\ FramesOK(b, video)
  BY <1>0 DEF Frames, FramesOK
<1>2. e1 = [e EXCEPT !.video = video]
  BY DEF Filmed1
<1> HIDE DEF video, e1
<1>3. e1 \in Engine
  BY <1>0, <1>1, <1>2, Zenon DEF Engine
<1>4. /\ Still(e, e1) /\ e1.video = video /\ e1.asked = e.asked /\ e1.lost = e.lost /\ e1.up = e.up
      /\ e1.down = e.down /\ e1.fatal = e.fatal /\ e1.serving = e.serving /\ e1.early = e.early
  BY <1>0, <1>2, SMT DEF Engine, Still
<1>5. EngineOK(b, e1) /\ Onward(e, e1)
  <2>1. FramesOK(b, e1.video) /\ RecordsOK(b, e, e1.down) /\ RequestsOK(b, e, e1.up) /\ RequestsOK(b, e, e1.early)
    BY <1>0, <1>1, <1>4 DEF EngineOK
  <2> QED
    BY <1>0, <1>3, <1>4, <2>1, StillKeeps
<1>6. World(b, e1, s)
  BY <1>5, WorldSame
<1>7. Follows(b, e, s) => Follows(b, e1, s)
  BY <1>0, <1>4, <1>5, ExtendsSelf, FollowsOnward DEF Still
<1> QED
  BY <1>4, <1>6, <1>7 DEF e1, video

LEMMA StreamSendsKeeps ==
  ASSUME NEW b, NEW e, NEW s, World(b, e, s), NEW st \in DOMAIN e.taps, NEW key \in BOOLEAN, NEW fits
  PROVE  /\ World(b, TapFrame(e, st, key, fits), s)
         /\ Stage(b, e, s) => Stage(b, TapFrame(e, st, key, fits), s)
<1> DEFINE t == e.taps[st]
           r == t.role
           f == FrameOfTap(e, st, key)
           c == Count(e, st, key)
           e2 == TapFrame(e, st, key, fits)
<1>0. EngineOK(b, e) /\ e \in Engine
  BY DEF World, EngineOK
<1>1. c \in Engine /\ Counted(e, c, st, key)
  BY <1>0, CountCounts
<1>2. e2 = IF ~ e.serving THEN c
           ELSE IF ~ fits \/ Len(e.video) >= VideoCap THEN RequestKeyframe(c, r)
           ELSE Filmed1(c, f)
  BY DEF TapFrame, Count, FrameOfTap, Filmed1
<1> HIDE DEF c, e2
<1>3. EngineOK(b, c) /\ World(b, c, s) /\ (Follows(b, e, s) => Follows(b, c, s)) /\ r \in Role
  BY <1>0, <1>1, CountedKeeps, TapIs
<1>4. \A x : Streams(c, x) = Streams(e, x)
  BY <1>1 DEF Counted, Streams
<1>5. \A x : Screen(c, x) = Screen(e, x)
  BY <1>4, ScreenOf
<1>6. \A x \in e.asked \cup e.lost : x \in c.asked \cup c.lost \/ (x = r /\ key /\ st = Screen(e, r))
  BY <1>1 DEF Counted
<1>7. ASSUME ~ e.serving PROVE World(b, e2, s) /\ (Stage(b, e, s) => Stage(b, e2, s))
  BY <1>1, <1>2, <1>3, <1>7 DEF Counted, Stage, Hears
<1>8. ASSUME e.serving, ~ fits \/ Len(e.video) >= VideoCap
      PROVE  World(b, e2, s) /\ (Stage(b, e, s) => Stage(b, e2, s))
  <2> DEFINE q == RequestKeyframe(c, r)
  <2>1. EngineOK(b, q) /\ Onward(c, q) /\ Requested(c, q, r)
    BY <1>3, RequestKeeps
  <2>2. e2 = q
    BY <1>2, <1>8
  <2> HIDE DEF q, r
  <2>3. World(b, e2, s)
    BY <1>3, <2>1, <2>2, WorldSame
  <2>4. Follows(b, e, s) => Follows(b, e2, s)
    BY <1>3, <2>1, <2>2, ExtendsSelf, FollowsOnward DEF Requested, Alike
  <2>5. ASSUME Hears(e, s) PROVE Hears(e2, s)
    <3> SUFFICES ASSUME e2.serving, ~ e2.fatal, NEW x \in Role PROVE Heard(e2, s, x)
      BY DEF Hears
    <3>1. Grown(e, e2) /\ e2.fatal = e.fatal
      BY <1>1, <2>1, <2>2 DEF Grown, Requested, Alike, Counted
    <3>2. Screen(e2, x) = Screen(e, x)
      <4>1. Streams(e2, x) = Streams(c, x)
        BY <2>1, <2>2 DEF Streams, Requested, Alike
      <4> QED
        BY <1>5, <4>1, ScreenOf
    <3>3. Heard(e, s, x)
      BY <1>8, <2>5, <3>1 DEF Hears
    <3>4. ASSUME x \in e.asked \cup e.lost, Current(e2, s, x) PROVE x \in e2.asked \cup e2.lost
      <4>1. e2.session # 0 /\ c.session = e2.session
        BY <2>1, <2>2, <3>4 DEF Current, Requested, Alike
      <4>2. r \in e2.asked \cup e2.lost /\ c.asked \subseteq e2.asked /\ c.lost \subseteq e2.asked \cup e2.lost
        BY <2>1, <2>2, <4>1 DEF Requested
      <4> QED
        BY <1>6, <3>4, <4>2
    <3>5. x \in e.asked \cup e.lost => x \in e2.asked \cup e2.lost \/ (Current(e2, s, x) => Coming(e2, s, x))
      BY <3>4
    <3> QED
      BY <3>1, <3>2, <3>3, <3>5, GrownHeard
  <2> QED
    BY <2>3, <2>4, <2>5 DEF Stage
<1>9. ASSUME e.serving, ~ (~ fits \/ Len(e.video) >= VideoCap)
      PROVE  World(b, e2, s) /\ (Stage(b, e, s) => Stage(b, e2, s))
  <2> DEFINE q == Filmed1(c, f)
  <2>1. f \in Frame /\ f.kind = "frame" /\ f.stream = st /\ f.key = key /\ FrameOK(b, f)
    <3>1. /\ t.session \in Nat /\ t.config \in Nat /\ t.content \in AnyContent /\ t.sequence \in Nat /\ st \in Nat
          /\ st \in DOMAIN b /\ t.session = b[st].session /\ t.config = Len(b[st].contents)
          /\ t.config # 0 => t.content = b[st].contents[t.config]
          /\ b[st].contents \in Seq(Content)
      BY <1>0, TapIs
    <3>2. f = [kind |-> "frame", session |-> t.session, stream |-> st, sequence |-> t.sequence + 1,
               config |-> t.config, content |-> t.content, key |-> key]
      BY DEF FrameOfTap
    <3> HIDE DEF t, f
    <3>3. /\ f \in Frame /\ f.kind = "frame" /\ f.stream = st /\ f.key = key /\ f.session = t.session
          /\ f.config = t.config /\ f.content = t.content
      BY <3>1, <3>2 DEF Frame
    <3>4. t.config # 0 => t.config \in DOMAIN b[st].contents
      BY <3>1
    <3> QED
      BY <3>1, <3>3, <3>4 DEF FrameOK, Chosen
  <2> HIDE DEF f
  <2>2. /\ World(b, q, s) /\ (Follows(b, c, s) => Follows(b, q, s))
        /\ Still(c, q) /\ q.video = Append(c.video, f)
        /\ q.asked = c.asked /\ q.lost = c.lost /\ q.up = c.up
        /\ q.down = c.down /\ q.fatal = c.fatal /\ q.serving = c.serving
    BY <1>3, <2>1, FilmedKeeps
  <2>3. e2 = q
    BY <1>2, <1>9
  <2> HIDE DEF q
  <2>4. ASSUME Hears(e, s) PROVE Hears(e2, s)
    <3> SUFFICES ASSUME e2.serving, ~ e2.fatal, NEW x \in Role PROVE Heard(e2, s, x)
      BY DEF Hears
    <3>1. e.video \in Seq(Frame) /\ c.video = e.video
      BY <1>0, <1>1, EngineIs DEF Counted
    <3>2. Holds(e2.video, f) /\ \A rec : Holds(e.video, rec) => Holds(e2.video, rec)
      <4>1. e2.video = Append(e.video, f)
        BY <2>2, <2>3, <3>1
      <4>2. Holds(Append(e.video, f), f) /\ \A rec : Holds(e.video, rec) => Holds(Append(e.video, f), rec)
        BY <2>1, <3>1, HoldsAppend
      <4> QED
        BY <4>1, <4>2
    <3>3. Grown(e, e2) /\ e2.fatal = e.fatal
      BY <1>1, <2>2, <2>3, <3>2 DEF Grown, Still, Counted
    <3>4. Screen(e2, x) = Screen(e, x)
      <4>1. Streams(e2, x) = Streams(c, x)
        BY <2>2, <2>3 DEF Streams, Still
      <4> QED
        BY <1>5, <4>1, ScreenOf
    <3>5. Heard(e, s, x)
      BY <1>9, <2>4, <3>3 DEF Hears
    <3>6. ASSUME x \in e.asked \cup e.lost, Current(e2, s, x) PROVE x \in e2.asked \cup e2.lost \/ Coming(e2, s, x)
      <4>1. CASE x \in c.asked \cup c.lost
        BY <2>2, <2>3, <4>1
      <4>2. CASE x = r /\ key /\ st = Screen(e, r)
        <5>1. s.video[x].id = st
          BY <3>4, <3>6, <4>2 DEF Current
        <5>2. Shows(f, s.session, s.video[x], x)
          BY <2>1, <4>2, <5>1 DEF Shows
        <5> QED
          BY <3>2, <5>2, ComingIs
      <4> QED
        BY <1>6, <3>6, <4>1, <4>2
    <3> QED
      BY <3>3, <3>4, <3>5, <3>6, GrownHeard
  <2> QED
    BY <1>3, <2>2, <2>3, <2>4 DEF Stage
<1> QED
  BY <1>7, <1>8, <1>9 DEF e2

-----------------------------------------------------------------------------
\* drop of the tap

Without(e, st) == [e EXCEPT !.taps = Restrict(@, DOMAIN @ \ {st})]

LEMMA WithoutIs ==
  ASSUME NEW e \in Engine, NEW st \in DOMAIN e.taps
  PROVE  LET e1 == Without(e, st) IN
         /\ e1 \in Engine /\ DOMAIN e1.taps = DOMAIN e.taps \ {st} /\ \A x \in DOMAIN e1.taps : e1.taps[x] = e.taps[x]
         /\ e1.session = e.session /\ e1.nextSession = e.nextSession /\ e1.nextStream = e.nextStream
         /\ e1.control = e.control /\ e1.video = e.video /\ e1.state = e.state /\ e1.fatal = e.fatal
         /\ e1.serving = e.serving /\ e1.down = e.down /\ e1.up = e.up /\ e1.early = e.early
         /\ e1.asked = e.asked /\ e1.lost = e.lost
<1> DEFINE S == DOMAIN e.taps \ {st}
           taps == Restrict(e.taps, S)
           e1 == Without(e, st)
<1>1. e.taps \in Taps
  BY EngineIs
<1>2. taps \in Taps /\ DOMAIN taps = S /\ \A x \in S : taps[x] = e.taps[x]
  BY <1>1, RestrictEntries DEF Taps
<1>3. e1 = [e EXCEPT !.taps = taps]
  BY DEF Without
<1> HIDE DEF taps, e1
<1>4. e1 \in Engine
  BY <1>2, <1>3, Zenon DEF Engine
<1>5. /\ e1.session = e.session /\ e1.nextSession = e.nextSession /\ e1.nextStream = e.nextStream
      /\ e1.control = e.control /\ e1.video = e.video /\ e1.state = e.state /\ e1.fatal = e.fatal
      /\ e1.serving = e.serving /\ e1.down = e.down /\ e1.up = e.up /\ e1.early = e.early
      /\ e1.asked = e.asked /\ e1.lost = e.lost /\ e1.taps = taps
  BY <1>3, SMT DEF Engine
<1>6. DOMAIN e1.taps = S /\ \A x \in DOMAIN e1.taps : e1.taps[x] = e.taps[x]
  BY <1>2, <1>5
<1> QED
  BY <1>4, <1>5, <1>6 DEF e1

\* The stream shown is still the one the screen is sent with.
LEMMA ScreenStays ==
  ASSUME NEW b, NEW e, NEW e1, NEW s, EngineOK(b, e), EngineOK(b, e1), NEW st \in DOMAIN e.taps,
         DOMAIN e1.taps = DOMAIN e.taps \ {st}, \A x \in DOMAIN e1.taps : e1.taps[x] = e.taps[x],
         e1.session = e.session, e1.nextSession = e.nextSession, NEW r, Current(e1, s, r)
  PROVE  Screen(e, r) = Screen(e1, r)
<1> DEFINE c == Screen(e1, r)
           d == Screen(e, r)
<1>1. c = s.video[r].id
  BY DEF Current
<1>2. c \in DOMAIN b /\ b[c].session = e1.nextSession - 1
  BY <1>1, CurrentStream
<1>3. DOMAIN b = 1..e.nextStream - 1 /\ e.nextStream \in Nat /\ e.nextSession \in Nat /\ b \in Seq(Chapter)
      /\ BookOK(b, e) /\ TapsOK(b, e)
  BY EngineIs DEF EngineOK, BookOK, Book
<1>4. c \in Nat /\ c # 0
  BY <1>2, <1>3
<1>5. c \in Streams(e1, r)
  BY <1>4, ScreenIs
<1>6. c \in DOMAIN e.taps /\ c # st /\ e.taps[c].role = r /\ c \in Streams(e, r)
  BY <1>5 DEF Streams
<1>7. d >= c /\ d \in {0} \cup Streams(e, r)
  BY <1>6, ScreenIs
<1> HIDE DEF c, d
<1>8. d \in Nat /\ d # 0
  <2>1. \A x \in Streams(e, r) : x \in Nat
    BY TapIs DEF Streams
  <2>2. d \in Nat
    BY <1>7, <2>1
  <2> QED
    BY <1>4, <1>7, <2>2
<1>9. d \in DOMAIN e.taps /\ e.taps[d].role = r
  BY <1>7, <1>8 DEF Streams
<1>10. CASE d # st
  <2>1. d \in Streams(e1, r)
    BY <1>9, <1>10 DEF Streams
  <2>2. c >= d
    BY <2>1, ScreenIs DEF c
  <2>3. c = d
    BY <1>4, <1>7, <1>8, <2>2
  <2> QED
    BY <2>3 DEF c, d
<1>11. CASE d = st
  <2>1. c < d
    BY <1>4, <1>6, <1>7, <1>8, <1>11
  <2>2. d \in DOMAIN b /\ b[d].session \in 1..e.nextSession - 1 /\ b[d].session = e.taps[d].session
    BY <1>9, TapIs
  <2>3. b[c].session <= b[d].session
    BY <1>2, <1>3, <2>1, <2>2 DEF BookOK
  <2>4. b[d].session = b[c].session
    BY <1>2, <1>3, <2>2, <2>3
  <2>5. b[c].session = e.taps[c].session
    BY <1>6, TapIs
  <2>6. e.taps[c].session # e.taps[d].session
    BY <1>3, <1>6, <1>9, <1>11 DEF TapsOK
  <2> QED
    BY <2>2, <2>4, <2>5, <2>6
<1> QED
  BY <1>10, <1>11

LEMMA StreamEndsKeeps ==
  ASSUME NEW b, NEW e, NEW s, World(b, e, s), NEW st \in DOMAIN e.taps
  PROVE  /\ World(b, DropTap(e, st), s)
         /\ Stage(b, e, s) => Stage(b, DropTap(e, st), s)
<1> DEFINE event == Stop(e.taps[st].session, st)
           e0 == Without(e, st)
           e1 == Post(e0, event)
<1>0. EngineOK(b, e) /\ e \in Engine /\ b \in Book /\ e.control \in Seq(Event) /\ e.nextSession \in Nat
  BY EngineIs DEF World, EngineOK
<1>1. DropTap(e, st) = e1
  BY DEF DropTap, Without
<1>2. event \in Event /\ event.kind = "stop"
  <2>1. e.taps[st].session \in Nat /\ st \in Nat
    BY <1>0, TapIs
  <2> QED
    BY <2>1 DEF Stop, Event
<1> HIDE DEF event
<1>3. /\ e0 \in Engine /\ DOMAIN e0.taps = DOMAIN e.taps \ {st} /\ \A x \in DOMAIN e0.taps : e0.taps[x] = e.taps[x]
      /\ e0.session = e.session /\ e0.nextSession = e.nextSession /\ e0.nextStream = e.nextStream
      /\ e0.control = e.control /\ e0.video = e.video /\ e0.state = e.state /\ e0.fatal = e.fatal
      /\ e0.serving = e.serving /\ e0.down = e.down /\ e0.up = e.up /\ e0.early = e.early
      /\ e0.asked = e.asked /\ e0.lost = e.lost
  BY <1>0, WithoutIs
<1> HIDE DEF e0
<1>4. e1 \in Engine /\ Posted(e0, e1, event)
  BY <1>2, <1>3, PostPosts
<1> HIDE DEF e1
<1>5. /\ e1.session = e.session /\ e1.nextSession = e.nextSession /\ e1.nextStream = e.nextStream
      /\ DOMAIN e1.taps = DOMAIN e.taps \ {st} /\ \A x \in DOMAIN e1.taps : e1.taps[x] = e.taps[x]
      /\ e1.video = e.video /\ e1.state = e.state
      /\ e1.serving = e.serving /\ e1.down = e.down /\ e1.up = e.up /\ e1.early = e.early
      /\ e1.asked = e.asked /\ e1.lost = e.lost
      /\ \/ e1.control = Append(e.control, event) /\ e1.fatal = e.fatal
         \/ e1.control = e.control /\ e1.fatal
  BY <1>3, <1>4 DEF Posted
<1>6. Tapped(e, e1)
  BY <1>0, <1>5 DEF Tapped
<1>7. Due(e, event) /\ EventOK(b, e1, event)
  BY <1>2 DEF Due, EventOK, Opens
<1>8. BookOK(b, e1) /\ TapsOK(b, e1) /\ FramesOK(b, e1.video)
  BY <1>0, <1>5 DEF EngineOK, BookOK, TapsOK
<1>9. EngineOK(b, e1) /\ Onward(e, e1)
  BY <1>0, <1>2, <1>4, <1>5, <1>6, <1>7, <1>8, ExtendsSelf, TapWorld
<1>10. World(b, e1, s) /\ (Follows(b, e, s) => Follows(b, e1, s))
  BY <1>6, <1>9, ExtendsSelf, TapStage
<1>11. ASSUME Hears(e, s) PROVE Hears(e1, s)
  <2> SUFFICES ASSUME e1.serving, ~ e1.fatal, NEW x \in Role, Current(e1, s, x) PROVE Heard(e1, s, x)
    BY DEF Hears, Heard
  <2>1. e1.control = Append(e.control, event) /\ e1.fatal = e.fatal
    BY <1>5
  <2>2. Grown(e, e1)
    <3>1. \A rec : Holds(e.control, rec) => Holds(e1.control, rec)
      <4>1. \A rec : Holds(e.control, rec) => Holds(Append(e.control, event), rec)
        BY <1>0, <1>2, HoldsAppend
      <4> QED
        BY <2>1, <4>1
    <3> QED
      BY <1>5, <2>1, <3>1 DEF Grown
  <2>3. Screen(e, x) = Screen(e1, x)
    BY <1>0, <1>5, <1>9, ScreenStays
  <2>4. Heard(e, s, x)
    BY <1>5, <1>11, <2>1 DEF Hears
  <2> QED
    BY <1>5, <2>2, <2>3, <2>4, GrownHeard
<1>12. World(b, e1, s) /\ (Stage(b, e, s) => Stage(b, e1, s))
  BY <1>10, <1>11 DEF Stage
<1> QED
  BY <1>1, <1>12

-----------------------------------------------------------------------------
\* The client reads a record.

Taken(e) == [e EXCEPT !.down = Tail(@)]

LEMMA TakenIs ==
  ASSUME NEW e \in Engine, e.down # <<>>
  PROVE  /\ Taken(e) \in Engine /\ Still(e, Taken(e)) /\ Taken(e).down = Tail(e.down)
         /\ Taken(e).video = e.video /\ Taken(e).up = e.up /\ Taken(e).early = e.early
         /\ Taken(e).asked = e.asked /\ Taken(e).lost = e.lost
         /\ Taken(e).serving = e.serving /\ Taken(e).fatal = e.fatal
<1> DEFINE rest == Tail(e.down)
           e1 == Taken(e)
<1>1. rest \in Records
  BY EngineIs DEF Records
<1>2. e1 = [e EXCEPT !.down = rest]
  BY DEF Taken
<1> HIDE DEF rest, e1
<1>3. e1 \in Engine
  BY <1>1, <1>2, Zenon DEF Engine
<1>4. /\ Still(e, e1) /\ e1.down = rest /\ e1.video = e.video /\ e1.up = e.up /\ e1.early = e.early
      /\ e1.asked = e.asked /\ e1.lost = e.lost /\ e1.serving = e.serving /\ e1.fatal = e.fatal
  BY <1>2, SMT DEF Engine, Still
<1> QED
  BY <1>3, <1>4 DEF e1, rest

\* What matters of a screen is as it was.
Same(s, s1, r) ==
  /\ s1.session = s.session /\ s1.selected = s.selected
  /\ LET v == s.video[r] p == s1.video[r] IN
     /\ p.id = v.id /\ p.have = v.have /\ p.content = v.content
     /\ p.waiting = v.waiting /\ p.requested = v.requested

LEMMA SameHeard ==
  ASSUME NEW b, NEW e, EngineOK(b, e), e.down # <<>>, NEW e1, e1 = Taken(e), NEW s, NEW s1, NEW r,
         Same(s, s1, r), Heard(e, s, r), ~ Shows(Head(e.down), s.session, s.video[r], r)
  PROVE  Heard(e1, s1, r)
<1>0. e \in Engine /\ e.down \in Seq(Record)
  BY EngineIs DEF EngineOK
<1>1. /\ Still(e, e1) /\ e1.down = Tail(e.down) /\ e1.video = e.video /\ e1.up = e.up
      /\ e1.asked = e.asked /\ e1.lost = e.lost
  BY <1>0, TakenIs
<1>2. \A rec : Holds(e.down, rec) => rec = Head(e.down) \/ Holds(e1.down, rec)
  BY <1>0, <1>1, HoldsTail
<1> SUFFICES ASSUME Current(e1, s1, r), s1.selected, s1.video[r].have, s1.video[r].waiting
             PROVE  AskedFor(e1, s1, r) \/ r \in e1.lost
  BY DEF Heard
<1>3. Current(e, s, r) /\ s.selected /\ s.video[r].have /\ s.video[r].waiting
  BY <1>1, ZenonT(30) DEF Current, Screen, Same, Still
<1>4. AskedFor(e, s, r) \/ r \in e.lost
  BY <1>3 DEF Heard
<1>5. \A rec : Shows(rec, s1.session, s1.video[r], r) <=> Shows(rec, s.session, s.video[r], r)
  BY DEF Same, Shows
<1>6. Coming(e, s, r) => Coming(e1, s1, r)
  BY <1>1, <1>2, <1>5, ComingIs DEF Still
<1> QED
  BY <1>1, <1>4, <1>6 DEF AskedFor, Same

LEMMA OthersNotShown ==
  ASSUME NEW b, NEW e, NEW s, NEW rec, NEW r, EngineOK(b, e), Current(e, s, r), s \in Store,
         rec \in Record, RecOK(b, e, rec), Fit(b, View(s), rec),
         rec.kind \in {"start", "config", "stop", "frame"}, rec.session # s.session
  PROVE  ~ Shows(rec, s.session, s.video[r], r)
<1> DEFINE st == s.video[r].id
<1>0. /\ b[st].session = e.session /\ e.session = s.session /\ e.session = e.nextSession - 1
      /\ ~ Missed(e, b[st].session)
  BY CurrentStream
<1>1. e.nextSession \in Nat /\ rec.session \in Nat /\ View(s).session = s.session
  BY EngineIs, RecordIs DEF View, EngineOK
<1>2. CASE rec.kind = "start"
  <2>1. rec.session >= s.session /\ rec.session < e.nextSession
    BY <1>1, <1>2 DEF Fit, RecOK
  <2> QED
    BY <1>0, <1>1, <2>1
<1>3. CASE rec.kind = "config"
  <2>1. rec.stream = st => rec.session = b[st].session \/ Missed(e, b[st].session)
    BY <1>3 DEF RecOK, Told
  <2> QED
    BY <1>0, <1>3, <2>1 DEF Shows
<1>4. CASE rec.kind = "stop"
  BY <1>4 DEF Shows
<1>5. CASE rec.kind = "frame"
  BY <1>1, <1>5 DEF Fit
<1> QED
  BY <1>2, <1>3, <1>4, <1>5

\* A record for a stream of the session leaves the screen as it was, shows
\* nothing of it then, or asks for a key frame, or there is no picture.
LEMMA OwnRecord ==
  ASSUME NEW b, NEW e, NEW s, NEW rec, NEW r \in Role, NEW s1, StoreOK(b, e, s),
         rec \in Record, RecOK(b, e, rec), Fit(b, View(s), rec),
         rec.kind \in {"start", "config", "stop", "frame"},
         s1.session = s.session, s1.selected = s.selected, s.selected, s1.video[r] = SlotAfter(s, rec, r),
         s1.video[r].have, s1.video[r].waiting
  PROVE  s1.video[r].requested \/ (Same(s, s1, r) /\ ~ Shows(rec, s.session, s.video[r], r))
<1> DEFINE v == s.video[r]
           p == SlotAfter(s, rec, r)
           w == View(s)
<1>0. /\ s \in Store /\ v \in Slot /\ s.selected \in BOOLEAN /\ rec.stream \in Nat
      /\ SlotOK(b, e, s.session, r, v)
  BY StoreIs, RecordIs DEF StoreOK
<1>1. v.have => v.started /\ b[v.id].role = r /\ Chosen(b, v.id, v.config, v.content)
  BY <1>0 DEF SlotOK
<1>2. w.video[r] = Seen(v)
  BY DEF View
<1>3. p.have /\ p.waiting /\ p = s1.video[r]
  OBVIOUS
<1>4. p = v => Same(s, s1, r)
  BY <1>3 DEF Same
<1>5. CASE rec.kind = "start"
  <2>1. CASE r = rec.role
    <3>1. p = Fresh(rec.stream)
      BY <1>5, <2>1 DEF SlotAfter
    <3> QED
      BY <1>0, <1>3, <3>1, FreshIs
  <2>2. CASE r # rec.role
    <3>1. p = v
      BY <1>5, <2>2 DEF SlotAfter
    <3> HIDE DEF p
    <3>2. v.have
      BY <1>3, <3>1
    <3>3. rec.role = b[rec.stream].role
      BY <1>5 DEF RecOK
    <3> QED
      BY <1>1, <1>4, <1>5, <2>2, <3>1, <3>2, <3>3 DEF Shows
  <2> QED
    BY <2>1, <2>2
<1>6. CASE rec.kind # "start" /\ ~ (v.started /\ v.id = rec.stream)
  <2>1. p = v
    BY <1>6 DEF SlotAfter
  <2> HIDE DEF p
  <2>2. v.id # rec.stream
    BY <1>1, <1>3, <1>6, <2>1
  <2>3. ~ Shows(rec, s.session, v, r)
    BY <1>6, <2>2 DEF Shows
  <2> QED
    BY <1>4, <2>1, <2>3
<1>7. CASE rec.kind = "config" /\ v.started /\ v.id = rec.stream
  <2> DEFINE q == ConfigureSlot(v, rec)
  <2>6. q.started = v.started /\ q.id = v.id /\ q.have /\ q.config = rec.config
        /\ \/ v.have /\ rec.config = v.config /\ q = v
           \/ /\ v.have /\ rec.content = v.content /\ q.content = v.content /\ q.waiting = v.waiting
              /\ q.requested = v.requested /\ q.ring = v.ring /\ q.counted = v.counted /\ q.last = v.last
           \/ q.content = rec.content /\ q.waiting /\ q.requested /\ q.ring = <<>>
    BY <1>0, <1>7, ConfigureIs
  <2>1. p = q
    BY <1>7 DEF SlotAfter
  <2> HIDE DEF p, q
  <2>2. p.started = v.started /\ p.id = v.id /\ p.have /\ p.config = rec.config
        /\ \/ v.have /\ rec.config = v.config /\ p = v
           \/ /\ v.have /\ rec.content = v.content /\ p.content = v.content /\ p.waiting = v.waiting
              /\ p.requested = v.requested /\ p.ring = v.ring /\ p.counted = v.counted /\ p.last = v.last
           \/ p.content = rec.content /\ p.waiting /\ p.requested /\ p.ring = <<>>
    BY <2>1, <2>6
  <2>3. CASE v.have /\ rec.config = v.config /\ p = v
    <3>1. rec.content = v.content
      BY <1>1, <1>7, <2>3 DEF RecOK, Chosen
    <3>2. ~ Shows(rec, s.session, v, r)
      BY <1>7, <3>1 DEF Shows
    <3> QED
      BY <1>4, <2>3, <3>2
  <2>4. CASE /\ v.have /\ rec.content = v.content /\ p.content = v.content /\ p.waiting = v.waiting
             /\ p.requested = v.requested
    <3>1. ~ Shows(rec, s.session, v, r)
      BY <1>7, <2>4 DEF Shows
    <3>2. p.have = v.have
      BY <1>0, <1>3, <2>4, <2>2, SlotIs, SlotAfterSlot DEF p
    <3>3. Same(s, s1, r)
      BY <1>3, <2>2, <2>4, <3>2 DEF Same
    <3> QED
      BY <3>1, <3>3
  <2>5. CASE p.requested
    BY <1>3, <2>5
  <2> QED
    BY <2>2, <2>3, <2>4, <2>5
<1>8. CASE rec.kind = "stop" /\ v.started /\ v.id = rec.stream
  <2>1. p = NewSlot
    BY <1>8 DEF SlotAfter
  <2> QED
    BY <1>3, <2>1 DEF NewSlot
<1>9. CASE rec.kind = "frame" /\ v.started /\ v.id = rec.stream
  <2>0. rec \in Frame
    BY <1>9, RecordIs
  <2>1. v.have /\ v.config = rec.config
    <3>1. b[v.id].role = r
      BY <1>0, <1>9 DEF SlotOK
    <3>2. Seen(v).have /\ Seen(v).config = rec.config
      BY <1>2, <1>9, <3>1 DEF Fit
    <3> QED
      BY <3>2 DEF Seen
  <2> DEFINE q == PushFrame(v, rec, s.selected)
  <2>5. q \in Slot /\ Pushed(v, q)
    BY <1>0, <2>0, PushIs
  <2>6. \/ q.requested
        \/ /\ ~ s.selected \/ ((v.waiting \/ Gap(v, rec)) /\ ~ rec.key)
           /\ q.waiting = (v.waiting \/ Gap(v, rec)) /\ q.requested = (v.requested \/ Gap(v, rec))
        \/ ~ q.waiting
    BY <1>0, <2>0, PushIs
  <2>2. p = q
    BY <1>9, <2>1 DEF SlotAfter
  <2> HIDE DEF p, q
  <2>3. /\ Pushed(v, p)
        /\ \/ p.requested
           \/ /\ ~ s.selected \/ ((v.waiting \/ Gap(v, rec)) /\ ~ rec.key)
              /\ p.waiting = (v.waiting \/ Gap(v, rec)) /\ p.requested = (v.requested \/ Gap(v, rec))
           \/ ~ p.waiting
    BY <2>2, <2>5, <2>6
  <2>4. CASE /\ ~ rec.key
             /\ p.waiting = (v.waiting \/ Gap(v, rec)) /\ p.requested = (v.requested \/ Gap(v, rec))
    <3>1. CASE Gap(v, rec)
      BY <1>3, <2>4, <3>1
    <3>2. CASE ~ Gap(v, rec)
      <4>1. p.waiting = v.waiting /\ p.requested = v.requested
        BY <1>0, <2>4, <3>2, SlotIs
      <4>2. ~ Shows(rec, s.session, v, r)
        BY <1>9, <2>4 DEF Shows
      <4>3. Same(s, s1, r)
        BY <1>3, <2>3, <4>1 DEF Same, Pushed
      <4> QED
        BY <4>2, <4>3
    <3> QED
      BY <3>1, <3>2
  <2> QED
    BY <1>3, <2>3, <2>4
<1> QED
  BY <1>5, <1>6, <1>7, <1>8, <1>9

LEMMA ReadHeard ==
  ASSUME NEW b, NEW e, NEW s, World(b, e, s), e.down # <<>>, NEW e1, e1 = Taken(e), NEW s1, NEW rec,
         rec = Head(e.down), rec \in Record, RecOK(b, e, rec), Fit(b, View(s), rec),
         s1 \in Store, Ingested(s, rec, s1), NEW r \in Role, Heard(e, s, r)
  PROVE  Heard(e1, s1, r)
<1> DEFINE p == s1.video[r]
           v == s.video[r]
<1>0. /\ EngineOK(b, e) /\ StoreOK(b, e, s) /\ e \in Engine /\ s \in Store
      /\ s1.selected = s.selected /\ (rec.kind # "hello" => s.hello)
  <2>1. View(s).hello = s.hello
    BY DEF View
  <2> QED
    BY <2>1 DEF World, EngineOK, StoreOK, Ingested, Fit
<1> SUFFICES ASSUME Current(e1, s1, r), s1.selected, p.have, p.waiting, ~ p.requested
             PROVE  Heard(e1, s1, r)
  BY DEF Heard, AskedFor
<1>1. Same(s, s1, r) /\ ~ Shows(rec, s.session, v, r) => Heard(e1, s1, r)
  BY <1>0, SameHeard
<1>2. s1.session = s.session /\ s1.video = s.video => Same(s, s1, r)
  BY <1>0 DEF Same
<1>3. s1.session = s.session /\ s1.video = s.video => Current(e, s, r)
  <2>1. Still(e, e1)
    BY <1>0, TakenIs
  <2> QED
    BY <2>1 DEF Current, Screen, Still
<1>4. CASE rec.kind = "hello"
  BY <1>1, <1>2, <1>4 DEF Ingested, Shows
<1>5. CASE rec.kind # "hello" /\ Clears(s, rec)
  BY <1>0, <1>5 DEF Ingested, NewSlot
<1>6. CASE rec.kind \in {"begin", "end"} /\ ~ Clears(s, rec)
  <2>1. s1.session = s.session /\ s1.video = s.video
    BY <1>0, <1>6 DEF Ingested, Clears
  <2>2. ~ Shows(rec, s.session, v, r)
    BY <1>6 DEF Shows, Clears
  <2> QED
    BY <1>1, <1>2, <2>1, <2>2
<1>7. CASE rec.kind \in {"start", "config", "stop", "frame"} /\ ~ Ours(s, rec)
  <2>1. s1.session = s.session /\ s1.video = s.video
    BY <1>0, <1>7 DEF Ingested, Clears
  <2>2. Current(e, s, r)
    BY <1>3, <2>1
  <2>3. rec.session # s.session
    BY <1>7, <2>2 DEF Ours, Current
  <2>4. ~ Shows(rec, s.session, v, r)
    BY <1>0, <1>7, <2>2, <2>3, OthersNotShown
  <2> QED
    BY <1>1, <1>2, <2>1, <2>4
<1>8. CASE rec.kind \in {"start", "config", "stop", "frame"} /\ Ours(s, rec)
  <2>1. s1.session = s.session /\ s1.video[r] = SlotAfter(s, rec, r)
    BY <1>0, <1>8 DEF Ingested
  <2>2. Same(s, s1, r) /\ ~ Shows(rec, s.session, v, r)
    BY <1>0, <1>8, <2>1, OwnRecord
  <2> QED
    BY <1>1, <2>2
<1> QED
  BY <1>4, <1>5, <1>6, <1>7, <1>8, RecordIs

LEMMA ReadKeeps ==
  ASSUME NEW b, NEW e, NEW s, Stage(b, e, s), e.down # <<>>
  PROVE  World(b, Taken(e), Ingest(s, Head(e.down)))
         /\ Stage(b, Taken(e), Ingest(s, Head(e.down)))
<1> DEFINE rec == Head(e.down)
           e1 == Taken(e)
           s1 == Ingest(s, rec)
<1>0. /\ EngineOK(b, e) /\ StoreOK(b, e, s) /\ e \in Engine /\ e.down \in Seq(Record) /\ RecordsOK(b, e, e.down)
      /\ World(b, e, s) /\ Hears(e, s) /\ Follows(b, e, s)
  BY EngineIs DEF Stage, World, EngineOK
<1>1. /\ rec \in Record /\ RecOK(b, e, rec) /\ RecordsOK(b, e, Tail(e.down))
  <2>1. rec = e.down[1] /\ 1 \in DOMAIN e.down
        /\ \A i \in DOMAIN Tail(e.down) : i + 1 \in DOMAIN e.down /\ Tail(e.down)[i] = e.down[i + 1]
    BY <1>0
  <2>2. rec \in Record
    BY <1>0, <2>1
  <2> HIDE DEF rec
  <2> QED
    BY <1>0, <2>1, <2>2 DEF RecordsOK
<1>2. /\ e1 \in Engine /\ Still(e, e1) /\ e1.down = Tail(e.down)
      /\ e1.video = e.video /\ e1.up = e.up /\ e1.early = e.early
      /\ e1.asked = e.asked /\ e1.lost = e.lost
      /\ e1.serving = e.serving /\ e1.fatal = e.fatal
  BY <1>0, TakenIs
<1>3. s1 \in Store /\ Ingested(s, rec, s1) /\ StoreOK(b, e, s1) /\ View(s1) = StepView(View(s), rec)
  BY <1>0, <1>1, IngestIs, IngestKeeps, ViewIngest
<1>9. e1 = Taken(e) /\ rec = Head(e.down)
  OBVIOUS
<1> HIDE DEF e1, s1, rec
<1>4. EngineOK(b, e1) /\ Onward(e, e1)
  <2>1. FramesOK(b, e1.video) /\ RecordsOK(b, e, e1.down) /\ RequestsOK(b, e, e1.up) /\ RequestsOK(b, e, e1.early)
    BY <1>0, <1>1, <1>2 DEF EngineOK
  <2> QED
    BY <1>0, <1>2, <2>1, StillKeeps
<1>5. World(b, e1, s1)
  <2>1. World(b, e, s1)
    BY <1>0, <1>3 DEF World
  <2> QED
    BY <1>4, <2>1, WorldSame
<1>6. ASSUME e.serving
      PROVE  Fit(b, View(s), rec) /\ Follows(b, e1, s1)
  <2>1. PICK z : Leads(b, e.down, View(s), z) /\ Match(b, z, e)
    BY <1>0, <1>6 DEF Follows
  <2>2. Fit(b, View(s), rec) /\ Leads(b, e1.down, View(s1), z)
    BY <1>0, <1>2, <1>3, <1>9, <2>1, LeadsPast
  <2>3. e1.state = e.state
    BY <1>2 DEF Still
  <2>4. Match(b, z, e1)
    BY <1>0, <1>4, <2>1, <2>3, ExtendsSelf, MatchOnward
  <2> QED
    BY <2>2, <2>4 DEF Follows
<1>7. Follows(b, e1, s1)
  BY <1>2, <1>6 DEF Follows
<1>8. ASSUME e1.serving, ~ e1.fatal, NEW r \in Role PROVE Heard(e1, s1, r)
  <2>1. Heard(e, s, r) /\ Fit(b, View(s), rec)
    BY <1>0, <1>2, <1>6, <1>8 DEF Hears
  <2> QED
    BY <1>0, <1>1, <1>3, <1>9, <2>1, ReadHeard
<1>10. Hears(e1, s1)
  BY <1>8 DEF Hears
<1>11. World(b, e1, s1) /\ Stage(b, e1, s1)
  BY <1>5, <1>7, <1>10 DEF Stage
<1> QED
  BY <1>11 DEF e1, s1, rec

-----------------------------------------------------------------------------
\* The other steps of the client, of the user and of a page

\* The same streams and configurations are shown.
Redressed(s, s1) ==
  /\ s1 \in Store /\ s1.session = s.session
  /\ \A r \in Role :
       LET v == s.video[r] p == s1.video[r] IN
       /\ p.started = v.started /\ p.id = v.id /\ p.have = v.have /\ p.config = v.config /\ p.content = v.content
       /\ p.requested => v.started
       /\ RingOK(p, s1.selected)

LEMMA RedressedKeeps ==
  ASSUME NEW b, NEW e, NEW s, World(b, e, s), NEW s1, Redressed(s, s1)
  PROVE  World(b, e, s1) /\ (s1.hello = s.hello /\ Follows(b, e, s) => Follows(b, e, s1))
<1>1. StoreOK(b, e, s)
  BY DEF World
<1>2. ASSUME NEW r \in Role PROVE SlotOK(b, e, s1.session, r, s1.video[r]) /\ RingOK(s1.video[r], s1.selected)
  <2>1. SlotOK(b, e, s.session, r, s.video[r])
    BY <1>1 DEF StoreOK
  <2> QED
    BY <2>1 DEF Redressed, SlotOK
<1>3. StoreOK(b, e, s1)
  BY <1>1, <1>2 DEF StoreOK, Redressed
<1>4. World(b, e, s1)
  BY <1>3 DEF World
<1>5. s1.hello = s.hello => View(s1) = View(s)
  <2>1. \A r \in Role : Seen(s1.video[r]) = Seen(s.video[r])
    BY DEF Redressed, Seen
  <2> QED
    BY <2>1 DEF View, Redressed
<1> QED
  BY <1>4, <1>5 DEF Follows

Selected(v, on) ==
  [v EXCEPT !.ring = <<>>, !.counted = FALSE, !.waiting = @ \/ (on /\ v.have), !.requested = @ \/ (on /\ v.have)]

LEMMA SelectedIs ==
  ASSUME NEW v \in Slot, NEW on \in BOOLEAN
  PROVE  LET p == Selected(v, on) IN
         /\ p \in Slot /\ p.started = v.started /\ p.id = v.id /\ p.have = v.have /\ p.config = v.config
         /\ p.content = v.content /\ p.ring = <<>>
         /\ (p.requested <=> v.requested \/ (on /\ v.have))
<1> DEFINE p == Selected(v, on)
           none == <<>>
           w == v.waiting \/ (on /\ v.have)
           q == v.requested \/ (on /\ v.have)
<1>1. none \in Frames /\ w \in BOOLEAN /\ q \in BOOLEAN
  BY NoneOf
<1>2. p = [v EXCEPT !.ring = none, !.counted = FALSE, !.waiting = w, !.requested = q]
  BY DEF Selected, Slot
<1> HIDE DEF p, none, w, q
<1>3. p \in Slot
  BY <1>1, <1>2, Zenon DEF Slot
<1>4. /\ p.started = v.started /\ p.id = v.id /\ p.have = v.have /\ p.config = v.config
      /\ p.content = v.content /\ p.ring = none /\ p.requested = q
  BY <1>2, SMT DEF Slot
<1> QED
  BY <1>3, <1>4 DEF p, none, q

LEMMA SelectKeeps ==
  ASSUME NEW b, NEW e, NEW s, World(b, e, s), NEW on \in BOOLEAN
  PROVE  /\ World(b, e, SetSelected(s, on))
         /\ Stage(b, e, s) => Stage(b, e, SetSelected(s, on))
<1> DEFINE s1 == SetSelected(s, on)
           video == [r \in Role |-> Selected(s.video[r], on)]
<1>0. s \in Store /\ \A r \in Role : s.video[r] \in Slot /\ SlotOK(b, e, s.session, r, s.video[r])
  BY StoreIs DEF World, StoreOK
<1>1. s1 = [s EXCEPT !.selected = on, !.video = video]
  BY DEF SetSelected, Selected
<1>2. video \in Slots /\ \A r \in Role : video[r] = Selected(s.video[r], on)
  <2>1. \A r \in Role : Selected(s.video[r], on) \in Slot
    BY <1>0, SelectedIs
  <2> QED
    BY <2>1 DEF Slots
<1> HIDE DEF video, s1
<1>3. s1 \in Store
  BY <1>0, <1>1, <1>2, Zenon DEF Store
<1>4. s1.session = s.session /\ s1.hello = s.hello /\ s1.selected = on /\ s1.video = video
  BY <1>0, <1>1, SMT DEF Store
<1>5. ASSUME NEW r \in Role
      PROVE  LET v == s.video[r] p == s1.video[r] IN
             /\ p.started = v.started /\ p.id = v.id /\ p.have = v.have /\ p.config = v.config /\ p.content = v.content
             /\ (p.requested <=> v.requested \/ (on /\ v.have))
             /\ p.ring = <<>>
  BY <1>0, <1>2, <1>4, SelectedIs
<1>6. Redressed(s, s1)
  <2>1. ASSUME NEW r \in Role PROVE (s1.video[r].requested => s.video[r].started) /\ RingOK(s1.video[r], s1.selected)
    BY <1>0, <1>5 DEF SlotOK, RingOK
  <2> QED
    BY <1>3, <1>4, <1>5, <2>1 DEF Redressed
<1>7. World(b, e, s1) /\ (Follows(b, e, s) => Follows(b, e, s1))
  BY <1>4, <1>6, RedressedKeeps
<1>8. Hears(e, s1)
  BY <1>4, <1>5 DEF Hears, Heard, AskedFor
<1>9. World(b, e, s1) /\ (Stage(b, e, s) => Stage(b, e, s1))
  BY <1>7, <1>8 DEF Stage
<1> QED
  BY <1>9 DEF s1

\* Of slot r, whether it has asked
Asks(s, r, x) == [s EXCEPT !.video[r].requested = x]

AsksAs(s, s1, r, x) ==
  /\ s1 \in Store /\ s1.session = s.session /\ s1.hello = s.hello /\ s1.selected = s.selected
  /\ \A y \in Role :
       LET v == s.video[y] p == s1.video[y] IN
       /\ p.started = v.started /\ p.id = v.id /\ p.have = v.have /\ p.config = v.config /\ p.content = v.content
       /\ p.waiting = v.waiting /\ p.counted = v.counted /\ p.last = v.last /\ p.ring = v.ring
       /\ p.requested = IF y = r THEN x ELSE v.requested

LEMMA AsksIs ==
  ASSUME NEW s \in Store, NEW r \in Role, NEW x \in BOOLEAN
  PROVE  AsksAs(s, Asks(s, r, x), r, x)
<1> DEFINE s1 == Asks(s, r, x)
           slot == [s.video[r] EXCEPT !.requested = x]
           video == [s.video EXCEPT ![r] = slot]
<1>0. s.video \in [Role -> Slot] /\ s.video[r] \in Slot
  BY StoreIs
<1>1. s1 = [s EXCEPT !.video = video]
  BY <1>0 DEF Asks, Store
<1>2. slot \in Slot
  BY <1>0, Zenon DEF Slot
<1>3. /\ slot.started = s.video[r].started /\ slot.id = s.video[r].id /\ slot.have = s.video[r].have
      /\ slot.config = s.video[r].config /\ slot.content = s.video[r].content /\ slot.waiting = s.video[r].waiting
      /\ slot.counted = s.video[r].counted /\ slot.last = s.video[r].last /\ slot.ring = s.video[r].ring
      /\ slot.requested = x
  BY <1>0 DEF Slot
<1> HIDE DEF slot
<1>4. video \in Slots /\ video[r] = slot /\ \A y \in Role : y # r => video[y] = s.video[y]
  BY <1>0, <1>2 DEF Slots
<1> HIDE DEF video, s1
<1>5. s1 \in Store
  BY <1>1, <1>4, Zenon DEF Store
<1>6. s1.session = s.session /\ s1.hello = s.hello /\ s1.selected = s.selected /\ s1.video = video
  BY <1>1, SMT DEF Store
<1>7. \A y \in Role :
        LET v == s.video[y] p == s1.video[y] IN
        /\ p.started = v.started /\ p.id = v.id /\ p.have = v.have /\ p.config = v.config /\ p.content = v.content
        /\ p.waiting = v.waiting /\ p.counted = v.counted /\ p.last = v.last /\ p.ring = v.ring
        /\ p.requested = IF y = r THEN x ELSE v.requested
  BY <1>3, <1>4, <1>6
<1> QED
  BY <1>5, <1>6, <1>7 DEF s1, AsksAs

LEMMA AsksKeeps ==
  ASSUME NEW b, NEW e, NEW s, World(b, e, s), NEW r \in Role, NEW x \in BOOLEAN, x => s.video[r].started
  PROVE  LET s1 == Asks(s, r, x) IN
         World(b, e, s1) /\ (Follows(b, e, s) => Follows(b, e, s1))
<1> DEFINE s1 == Asks(s, r, x)
<1>0. s \in Store /\ \A y \in Role : SlotOK(b, e, s.session, y, s.video[y]) /\ RingOK(s.video[y], s.selected)
  BY DEF World, StoreOK
<1>1. AsksAs(s, s1, r, x)
  BY <1>0, AsksIs
<1> HIDE DEF s1
<1>2. ASSUME NEW y \in Role PROVE (s1.video[y].requested => s.video[y].started) /\ RingOK(s1.video[y], s1.selected)
  BY <1>0, <1>1, SMTT(30) DEF SlotOK, RingOK, AsksAs
<1>3. Redressed(s, s1)
  BY <1>1, <1>2 DEF Redressed, AsksAs
<1>4. World(b, e, s1) /\ (Follows(b, e, s) => Follows(b, e, s1))
  BY <1>1, <1>3, RedressedKeeps DEF AsksAs
<1> QED
  BY <1>4 DEF s1

LEMMA PageAsksKeeps ==
  ASSUME NEW b, NEW e, NEW s, World(b, e, s), NEW r \in Role, s.video[r].started
  PROVE  /\ World(b, e, Asks(s, r, TRUE))
         /\ Stage(b, e, s) => Stage(b, e, Asks(s, r, TRUE))
<1> DEFINE s1 == Asks(s, r, TRUE)
<1>1. World(b, e, s1) /\ (Follows(b, e, s) => Follows(b, e, s1))
  BY AsksKeeps
<1>2. /\ s1.session = s.session /\ s1.selected = s.selected
      /\ \A y \in Role :
           LET v == s.video[y] p == s1.video[y] IN
           /\ p.id = v.id /\ p.have = v.have /\ p.content = v.content
           /\ p.waiting = v.waiting /\ p.requested = IF y = r THEN TRUE ELSE v.requested
  <2>1. AsksAs(s, s1, r, TRUE)
    BY AsksIs DEF World, StoreOK
  <2> HIDE DEF s1
  <2> QED
    BY <2>1 DEF AsksAs
<1> HIDE DEF s1
<1>3. ASSUME NEW y \in Role, Heard(e, s, y) PROVE Heard(e, s1, y)
  <2> SUFFICES ASSUME y # r, Current(e, s1, y), s1.selected, s1.video[y].have, s1.video[y].waiting
               PROVE  AskedFor(e, s1, y) \/ y \in e.lost
    BY <1>2 DEF Heard, AskedFor
  <2>1. Current(e, s, y) /\ s.selected /\ s.video[y].have /\ s.video[y].waiting
    BY <1>2 DEF Current
  <2>2. AskedFor(e, s, y) \/ y \in e.lost
    BY <1>3, <2>1 DEF Heard
  <2>3. \A rec : Shows(rec, s1.session, s1.video[y], y) <=> Shows(rec, s.session, s.video[y], y)
    BY <1>2 DEF Shows
  <2>4. Coming(e, s, y) => Coming(e, s1, y)
    BY <2>3 DEF Coming
  <2> QED
    BY <1>2, <2>2, <2>4 DEF AskedFor
<1>4. Hears(e, s) => Hears(e, s1)
  BY <1>3 DEF Hears
<1>5. World(b, e, s1) /\ (Stage(b, e, s) => Stage(b, e, s1))
  BY <1>1, <1>4 DEF Stage
<1> QED
  BY <1>5 DEF s1

-----------------------------------------------------------------------------
\* A request is sent.

For(s, r) == [session |-> s.session, stream |-> s.video[r].id]
Ups(e, q) == [e EXCEPT !.up = Append(@, q)]
Earlier(e, q) == [e EXCEPT !.early = Append(@, q)]
Parted(e, ghost) == [e EXCEPT !.down = <<>>, !.early = <<>>, !.ghost = ghost]

MoreOf(up, more, q) ==
  /\ \E i \in DOMAIN more : more[i] = q
  /\ \A i \in DOMAIN up : i \in DOMAIN more /\ more[i] = up[i]

LEMMA RequestAppends ==
  ASSUME NEW b, NEW e, NEW q \in Request, NEW up \in Seq(Request), RequestsOK(b, e, up), Told(b, e, q.session, q.stream)
  PROVE  Append(up, q) \in Requests /\ RequestsOK(b, e, Append(up, q)) /\ MoreOf(up, Append(up, q), q)
<1> DEFINE more == Append(up, q)
<1>1. /\ more \in Requests /\ DOMAIN more = 1..Len(up) + 1 /\ DOMAIN up = 1..Len(up) /\ Len(up) \in Nat
      /\ more[Len(up) + 1] = q /\ \A i \in DOMAIN up : more[i] = up[i]
  BY DEF Requests
<1> HIDE DEF more
<1>2. \A i \in DOMAIN more : i \in DOMAIN up \/ i = Len(up) + 1
  BY <1>1
<1>3. RequestsOK(b, e, more)
  BY <1>1, <1>2 DEF RequestsOK
<1>4. MoreOf(up, more, q)
  BY <1>1 DEF MoreOf
<1> QED
  BY <1>1, <1>3, <1>4 DEF more

LEMMA ForIs ==
  ASSUME NEW b, NEW e, NEW s, World(b, e, s), NEW r \in Role, s.video[r].requested
  PROVE  For(s, r) \in Request /\ Told(b, e, For(s, r).session, For(s, r).stream) /\ For(s, r).stream = s.video[r].id
<1>1. SlotOK(b, e, s.session, r, s.video[r]) /\ s.video[r] \in Slot /\ s.session \in Nat
  BY StoreIs DEF World, StoreOK
<1>2. s.video[r].id \in Nat
  BY <1>1, SlotIs
<1> QED
  BY <1>1, <1>2 DEF For, Request, SlotOK

LEMMA EarlierKeeps ==
  ASSUME NEW b, NEW e, NEW s, World(b, e, s), NEW q \in Request, Told(b, e, q.session, q.stream)
  PROVE  World(b, Earlier(e, q), s)
<1> DEFINE early == Append(e.early, q)
           e1 == Earlier(e, q)
<1>0. EngineOK(b, e) /\ e \in Engine /\ e.early \in Seq(Request) /\ RequestsOK(b, e, e.early)
  BY EngineIs DEF World, EngineOK
<1>1. early \in Requests /\ RequestsOK(b, e, early)
  BY <1>0, RequestAppends
<1>2. e1 = [e EXCEPT !.early = early]
  BY DEF Earlier
<1> HIDE DEF early, e1
<1>3. e1 \in Engine
  BY <1>0, <1>1, <1>2, Zenon DEF Engine
<1>4. Still(e, e1) /\ e1.down = e.down /\ e1.up = e.up /\ e1.early = early /\ e1.video = e.video
  BY <1>0, <1>2, SMT DEF Engine, Still
<1>5. FramesOK(b, e1.video) /\ RecordsOK(b, e, e1.down) /\ RequestsOK(b, e, e1.up) /\ RequestsOK(b, e, e1.early)
  BY <1>0, <1>1, <1>4 DEF EngineOK
<1>6. EngineOK(b, e1) /\ Onward(e, e1)
  BY <1>0, <1>3, <1>4, <1>5, StillKeeps
<1>7. World(b, e1, s)
  BY <1>6, WorldSame
<1> QED
  BY <1>7 DEF e1

LEMMA PartedKeeps ==
  ASSUME NEW b, NEW e, NEW s, World(b, e, s), NEW ghost \in BOOLEAN
  PROVE  World(b, Parted(e, ghost), s)
<1> DEFINE none == <<>>
           e1 == Parted(e, ghost)
<1>0. EngineOK(b, e) /\ e \in Engine
  BY DEF World, EngineOK
<1>1. none \in Requests /\ none \in Records /\ RequestsOK(b, e, none) /\ RecordsOK(b, e, none)
  BY NoneOf, NothingOK
<1>2. e1 = [e EXCEPT !.down = none, !.early = none, !.ghost = ghost]
  BY DEF Parted
<1> HIDE DEF none, e1
<1>3. e1 \in Engine
  BY <1>0, <1>1, <1>2, Zenon DEF Engine
<1>4. Still(e, e1) /\ e1.down = none /\ e1.up = e.up /\ e1.early = none /\ e1.video = e.video
  BY <1>0, <1>2, SMT DEF Engine, Still
<1>5. FramesOK(b, e1.video) /\ RecordsOK(b, e, e1.down) /\ RequestsOK(b, e, e1.up) /\ RequestsOK(b, e, e1.early)
  BY <1>0, <1>1, <1>4 DEF EngineOK
<1>6. EngineOK(b, e1) /\ Onward(e, e1)
  BY <1>0, <1>3, <1>4, <1>5, StillKeeps
<1>7. World(b, e1, s)
  BY <1>6, WorldSame
<1> QED
  BY <1>7 DEF e1

Silent(s) == [s EXCEPT !.hello = FALSE]

LEMMA SilentKeeps ==
  ASSUME NEW b, NEW e, NEW s, World(b, e, s) PROVE World(b, e, Silent(s))
<1> DEFINE s1 == Silent(s)
<1>0. s \in Store /\ \A y \in Role : SlotOK(b, e, s.session, y, s.video[y]) /\ RingOK(s.video[y], s.selected)
  BY DEF World, StoreOK
<1>1. s1 \in Store /\ s1.session = s.session /\ s1.selected = s.selected /\ s1.video = s.video
  BY <1>0 DEF Silent, Store
<1> HIDE DEF s1
<1>2. Redressed(s, s1)
  BY <1>0, <1>1 DEF Redressed, SlotOK
<1>3. World(b, e, s1)
  BY <1>2, RedressedKeeps
<1> QED
  BY <1>3 DEF s1

LEMMA FlushKeeps ==
  ASSUME NEW b, NEW e, NEW s, Stage(b, e, s), NEW r \in Role, s.video[r].requested
  PROVE  Stage(b, Ups(e, For(s, r)), Asks(s, r, FALSE))
<1> DEFINE q == For(s, r)
           up == Append(e.up, q)
           e1 == Ups(e, q)
           s1 == Asks(s, r, FALSE)
<1>0. EngineOK(b, e) /\ e \in Engine /\ e.up \in Seq(Request) /\ RequestsOK(b, e, e.up) /\ World(b, e, s)
  BY EngineIs DEF Stage, World, EngineOK
<1>1. q \in Request /\ Told(b, e, q.session, q.stream) /\ q.stream = s.video[r].id
  BY <1>0, ForIs
<1> HIDE DEF q
<1>2. up \in Requests /\ RequestsOK(b, e, up) /\ MoreOf(e.up, up, q)
  BY <1>0, <1>1, RequestAppends
<1>3. e1 = [e EXCEPT !.up = up]
  BY DEF Ups
<1> HIDE DEF up, e1
<1>4. e1 \in Engine
  BY <1>0, <1>2, <1>3, Zenon DEF Engine
<1>5. /\ Still(e, e1) /\ e1.down = e.down /\ e1.up = up /\ e1.early = e.early /\ e1.video = e.video
      /\ e1.fatal = e.fatal /\ e1.asked = e.asked /\ e1.lost = e.lost /\ e1.serving = e.serving
  BY <1>0, <1>3, SMT DEF Engine, Still
<1>6. EngineOK(b, e1) /\ Onward(e, e1)
  <2>1. FramesOK(b, e1.video) /\ RecordsOK(b, e, e1.down) /\ RequestsOK(b, e, e1.up) /\ RequestsOK(b, e, e1.early)
    BY <1>0, <1>2, <1>5 DEF EngineOK
  <2> QED
    BY <1>0, <1>4, <1>5, <2>1, StillKeeps
<1>7. World(b, e1, s)
  BY <1>0, <1>6, WorldSame
<1>8. Follows(b, e1, s)
  BY <1>0, <1>5, <1>6, ExtendsSelf, FollowsOnward DEF Stage, Still
<1>9. World(b, e1, s1) /\ Follows(b, e1, s1)
  BY <1>7, <1>8, AsksKeeps
<1>10. /\ s1.session = s.session /\ s1.selected = s.selected
       /\ \A y \in Role :
            LET v == s.video[y] p == s1.video[y] IN
            /\ p.id = v.id /\ p.have = v.have /\ p.content = v.content
            /\ p.waiting = v.waiting /\ (y # r => p.requested = v.requested)
  <2>1. AsksAs(s, s1, r, FALSE)
    BY <1>0, AsksIs DEF World, StoreOK
  <2> HIDE DEF s1
  <2> QED
    BY <2>1 DEF AsksAs
<1> HIDE DEF s1
<1>11. ASSUME NEW y \in Role, Heard(e, s, y) PROVE Heard(e1, s1, y)
  <2> SUFFICES ASSUME Current(e1, s1, y), s1.selected, s1.video[y].have, s1.video[y].waiting
               PROVE  AskedFor(e1, s1, y) \/ y \in e1.lost
    BY DEF Heard
  <2>1. CASE y = r
    <3>1. \E i \in DOMAIN e1.up : e1.up[i].stream = s1.video[y].id
      BY <1>1, <1>2, <1>5, <1>10, <2>1 DEF MoreOf
    <3> QED
      BY <3>1 DEF AskedFor
  <2>2. CASE y # r
    <3>1. Current(e, s, y) /\ s.selected /\ s.video[y].have /\ s.video[y].waiting
      BY <1>5, <1>10 DEF Current, Screen, Still
    <3>2. AskedFor(e, s, y) \/ y \in e.lost
      BY <1>11, <3>1 DEF Heard
    <3>3. \A rec : Shows(rec, s1.session, s1.video[y], y) <=> Shows(rec, s.session, s.video[y], y)
      BY <1>10 DEF Shows
    <3>4. Coming(e, s, y) => Coming(e1, s1, y)
      BY <1>5, <3>3 DEF Coming, Still
    <3> QED
      BY <1>2, <1>5, <1>10, <2>2, <3>2, <3>4 DEF AskedFor, MoreOf
  <2> QED
    BY <2>1, <2>2
<1>12. Hears(e1, s1)
  BY <1>5, <1>11 DEF Stage, Hears
<1>13. Stage(b, e1, s1)
  BY <1>9, <1>12 DEF Stage
<1> QED
  BY <1>13 DEF e1, s1, q

-----------------------------------------------------------------------------
\* The invariant: there is a book everything agrees with, and a client that is
\* at the other end follows what the engine announces and has asked for what
\* it waits for.

Agreed(b, e, c, s) == World(b, e, s) /\ (c = "on" => Stage(b, e, s))
LinkInv == \E b : Agreed(b, engine, client, store)

LEMMA AtFirst == Init => LinkInv
<1> SUFFICES ASSUME Init PROVE LinkInv
  OBVIOUS
<1> DEFINE b == <<>>
           none == <<>>
           no == NoEntry
           nobody == {}
           state == [session |-> 0, video |-> no]
           e == [ session |-> 0, nextSession |-> 1, nextStream |-> 1, taps |-> no,
                  control |-> none, video |-> none, fatal |-> FALSE,
                  throttled |-> nobody, asked |-> nobody, lost |-> nobody,
                  serving |-> FALSE, down |-> none, up |-> none,
                  early |-> none, ghost |-> FALSE, state |-> state ]
<1>1. engine = e
  BY DEF Init, NewEngine
<1>2. /\ none \in Events /\ none \in Frames /\ none \in Records /\ none \in Requests
      /\ no \in Taps /\ no \in Screens /\ nobody \in Roles /\ DOMAIN no = {} /\ DOMAIN none = {}
  BY NoneOf DEF NoEntry
<1>3. RecordsOK(b, e, none) /\ RequestsOK(b, e, none) /\ FramesOK(b, none)
  BY <1>2 DEF RecordsOK, RequestsOK, FramesOK
<1>4. b \in Book /\ DOMAIN b = {}
  BY DEF Book
<1> HIDE DEF b, none, no, nobody
<1>5. state \in State /\ state.session = 0 /\ state.video = no
  BY <1>2 DEF State
<1> HIDE DEF state
<1>6. e \in Engine
  BY <1>2, <1>5, Zenon DEF Engine
<1>7. /\ e.session = 0 /\ e.nextSession = 1 /\ e.nextStream = 1 /\ e.taps = no /\ e.control = none
      /\ e.video = none /\ e.down = none /\ e.up = none /\ e.early = none /\ e.state = state
  OBVIOUS
<1>10. RecordsOK(b, e, none) /\ RequestsOK(b, e, none) /\ FramesOK(b, none)
  BY <1>2 DEF RecordsOK, RequestsOK, FramesOK
<1> HIDE DEF e
<1>8. BookOK(b, e) /\ TapsOK(b, e) /\ ControlOK(b, e) /\ Lower(e, 0)
  BY <1>2, <1>4, <1>7 DEF BookOK, TapsOK, ControlOK, Lower
<1>9. StateOK(b, e)
  BY <1>2, <1>5, <1>7, <1>8 DEF StateOK
<1>11. EngineOK(b, e)
  BY <1>4, <1>6, <1>7, <1>8, <1>9, <1>10 DEF EngineOK
<1>12. StoreOK(b, e, store)
  <2> DEFINE video == [r \in Role |-> NewSlot]
             s == [session |-> 0, hello |-> FALSE, selected |-> TRUE, video |-> video]
  <2>1. store = s
    BY DEF Init, NewStore
  <2>2. video \in Slots /\ \A r \in Role : video[r] = NewSlot
    BY NewSlotIs DEF NewOK, Slots
  <2> HIDE DEF video
  <2>3. s \in Store
    BY <2>2, Zenon DEF Store
  <2>4. s.session = 0 /\ s.video = video
    OBVIOUS
  <2> HIDE DEF s
  <2>5. StoreOK(b, e, s)
    BY <1>8, <2>2, <2>3, <2>4, NewSlotOK DEF StoreOK
  <2> QED
    BY <2>1, <2>5
<1>13. client # "on"
  BY DEF Init
<1> QED
  BY <1>1, <1>11, <1>12, <1>13 DEF LinkInv, Agreed, World

LEMMA ServiceKeeps ==
  ASSUME NEW b, Agreed(b, engine, client, store), Service
  PROVE  Agreed(b, engine', client', store')
<1> DEFINE free == engine.fatal \/ ~ engine.serving
           accepted == client = "wait" /\ free /\ ~ engine.ghost
           here == client = "on" \/ accepted
           met == free /\ (engine.ghost \/ accepted)
<1>1. PICK hangup \in BOOLEAN, e \in Later(engine) :
        engine' = [Served(e, met, here, hangup) EXCEPT !.early = <<>>, !.ghost = FALSE]
  BY DEF Service
<1>2. store' = store /\ client' = (IF accepted THEN "on" ELSE IF client = "wait" THEN "refused" ELSE client)
  BY DEF Service
<1>3. World(b, e, store) /\ (client = "on" => Stage(b, e, store))
  BY StageLater DEF Agreed
<1>4. met \in BOOLEAN /\ here \in BOOLEAN
  <2>1. engine \in Engine
    BY DEF Agreed, World, EngineOK
  <2>2. engine.fatal \in BOOLEAN /\ engine.serving \in BOOLEAN /\ engine.ghost \in BOOLEAN
    BY <2>1 DEF Engine
  <2> QED
    BY <2>2
<1>5. client' = "on" => here /\ (met \/ Stage(b, e, store))
  BY <1>2, <1>3
<1> HIDE DEF met, here
<1> DEFINE d == Served(e, met, here, hangup)
<1>6. World(b, d, store) /\ (here /\ (met \/ Stage(b, e, store)) => Stage(b, d, store))
  BY <1>3, <1>4, ServedKeeps
<1> HIDE DEF d
<1>7. World(b, Tidied(d), store) /\ (Stage(b, d, store) => Stage(b, Tidied(d), store))
  BY <1>6, TidiedKeeps
<1>8. engine' = Tidied(d)
  BY <1>1 DEF d, Tidied
<1> QED
  BY <1>2, <1>5, <1>6, <1>7, <1>8 DEF Agreed

LEMMA FailKeeps ==
  ASSUME NEW b, NEW s, World(b, engine, s), Fail(s)
  PROVE  Agreed(b, engine', client', store')
<1> DEFINE ghost == engine.ghost \/ client = "wait"
<1>1. ghost \in BOOLEAN
  BY DEF World, EngineOK, Engine
<1>2. engine' = Parted(engine, ghost)
  <2>1. engine \in Engine
    BY DEF World, EngineOK
  <2> QED
    BY <2>1 DEF Fail, Parted, Engine
<1>3. store' = Silent(s) /\ client' = "off"
  BY DEF Fail, Silent
<1> HIDE DEF ghost
<1>4. World(b, Parted(engine, ghost), s)
  BY <1>1, PartedKeeps
<1>5. World(b, Parted(engine, ghost), Silent(s))
  BY <1>4, SilentKeeps
<1> QED
  BY <1>2, <1>3, <1>5 DEF Agreed

LEMMA ClientKeeps ==
  ASSUME NEW b, Agreed(b, engine, client, store), ClientNext
  PROVE  Agreed(b, engine', client', store')
<1>0. World(b, engine, store) /\ engine \in Engine /\ store \in Store
  BY DEF Agreed, World, EngineOK, StoreOK
<1>1. CASE Connect
  BY <1>1 DEF Connect, Agreed
<1>2. CASE Read
  <2>1. Stage(b, engine, store) /\ engine.down # <<>>
    BY <1>2 DEF Read, Agreed
  <2>2. engine' = Taken(engine) /\ store' = Ingest(store, Head(engine.down))
    BY <1>2 DEF Read, Taken
  <2>3. World(b, engine', store') /\ Stage(b, engine', store')
    BY <2>1, <2>2, ReadKeeps
  <2> QED
    BY <2>3 DEF Agreed
<1>3. CASE SeeEnd
  BY <1>0, <1>3, FailKeeps DEF SeeEnd
<1>4. CASE GiveUp
  BY <1>0, <1>4, FailKeeps DEF GiveUp
<1>5. CASE FlushRequest
  <2>1. PICK r \in Role :
          LET taken == [store EXCEPT !.video[r].requested = FALSE]
              request == [session |-> store.session, stream |-> store.video[r].id]
              open == client = "wait" \/ (client = "on" /\ engine.serving)
          IN
          /\ store.video[r].requested
          /\ ~ open => Fail(taken)
          /\ open =>
               /\ store' = taken /\ UNCHANGED client
               /\ engine' = IF client = "wait" THEN [engine EXCEPT !.early = Append(@, request)]
                            ELSE [engine EXCEPT !.up = Append(@, request)]
    BY <1>5 DEF FlushRequest
  <2> DEFINE s == Asks(store, r, FALSE)
  <2>2. World(b, engine, s) /\ s = [store EXCEPT !.video[r].requested = FALSE]
    BY <1>0, AsksKeeps DEF Asks
  <2> HIDE DEF s
  <2>3. CASE ~ (client = "wait" \/ (client = "on" /\ engine.serving))
    BY <2>1, <2>2, <2>3, FailKeeps
  <2>4. CASE client = "wait"
    <3>1. engine' = Earlier(engine, For(store, r)) /\ store' = s /\ client' = client
      BY <2>1, <2>2, <2>4 DEF Earlier, For
    <3>2. For(store, r) \in Request /\ Told(b, engine, For(store, r).session, For(store, r).stream)
      BY <1>0, <2>1, ForIs
    <3>3. World(b, Earlier(engine, For(store, r)), s)
      BY <2>2, <3>2, EarlierKeeps
    <3> QED
      BY <2>4, <3>1, <3>3 DEF Agreed
  <2>5. CASE client = "on" /\ engine.serving
    <3>1. engine' = Ups(engine, For(store, r)) /\ store' = s /\ client' = client
      BY <2>1, <2>2, <2>5 DEF Ups, For
    <3>2. Stage(b, Ups(engine, For(store, r)), s)
      BY <2>1, <2>5, FlushKeeps DEF Agreed, s
    <3> QED
      BY <3>1, <3>2 DEF Agreed, Stage
  <2> QED
    BY <2>3, <2>4, <2>5
<1> QED
  BY <1>1, <1>2, <1>3, <1>4, <1>5 DEF ClientNext

LEMMA PhoneKeeps ==
  ASSUME NEW b, Agreed(b, engine, client, store), PhoneNext
  PROVE  \E b1 : Agreed(b1, engine', client', store')
<1>0. World(b, engine, store) /\ EngineOK(b, engine) /\ engine \in Engine
      /\ (client = "on" => Stage(b, engine, store))
  BY DEF Agreed, World, EngineOK
<1>1. ASSUME NEW e, NEW b1, Phone(e), World(b1, e, store), Stage(b, engine, store) => Stage(b1, e, store)
      PROVE  \E b2 : Agreed(b2, engine', client', store')
  BY <1>0, <1>1 DEF Phone, Agreed
<1>2. CASE PhoneBegins
  <2>1. Phone(BeginSession(engine))
    BY <1>2 DEF PhoneBegins
  <2>2. /\ World(b, BeginSession(engine), store)
        /\ Stage(b, engine, store) => Stage(b, BeginSession(engine), store)
    BY <1>0, BeginKeeps
  <2> QED
    BY <1>1, <2>1, <2>2
<1>3. CASE PhoneEnds
  <2>1. PICK x \in 1..engine.nextSession - 1 : Phone(EndSession(engine, x))
    BY <1>3 DEF PhoneEnds
  <2>2. x \in Nat
    BY <1>0, EngineIs
  <2>3. /\ World(b, EndSession(engine, x), store)
        /\ Stage(b, engine, store) => Stage(b, EndSession(engine, x), store)
    BY <1>0, <2>2, EndKeeps
  <2> QED
    BY <1>1, <2>1, <2>3
<1>4. CASE StreamStarts
  <2>1. PICK r \in Role :
          /\ \A st \in DOMAIN engine.taps :
               engine.taps[st].role = r => engine.taps[st].session # engine.session
          /\ Phone(Also(VideoStream(engine, r), r))
    BY <1>4 DEF StreamStarts, Also
  <2>2. engine.session # 0
    BY <1>4 DEF StreamStarts
  <2>3. /\ World(Written(b, engine, r), Also(VideoStream(engine, r), r), store)
        /\ Stage(b, engine, store) => Stage(Written(b, engine, r), Also(VideoStream(engine, r), r), store)
    BY <1>0, <2>1, <2>2, StreamStarted
  <2> QED
    BY <1>1, <2>1, <2>3
<1>5. CASE StreamConfigured
  <2>1. PICK st \in DOMAIN engine.taps, c \in Content \cup {NoContent} :
          Phone(IF c = NoContent THEN TapConfig(engine, st, c)
                ELSE Also(TapConfig(engine, st, c), engine.taps[st].role))
    BY <1>5 DEF StreamConfigured, Also
  <2>2. CASE c = NoContent
    <3> DEFINE r == engine.taps[st].role
               e == RequestKeyframe(engine, r)
    <3>1. Phone(e)
      BY <2>1, <2>2 DEF TapConfig
    <3>2. r \in Role
      BY <1>0, TapIs
    <3> HIDE DEF r
    <3>3. EngineOK(b, e) /\ Onward(engine, e)
      BY <1>0, <3>2, RequestKeeps
    <3>4. World(b, e, store)
      BY <1>0, <3>3, WorldSame
    <3>5. Stage(b, engine, store) => Stage(b, e, store)
      BY <3>2, StageRequest
    <3> QED
      BY <1>1, <3>1, <3>4, <3>5
  <2>3. CASE c \in Content
    <3> DEFINE e == Also(TapConfig(engine, st, c), engine.taps[st].role)
               b1 == Rewritten(b, st, c)
    <3>1. Phone(e)
      BY <2>1, <2>3, LinkAssumption
    <3>2. World(b1, e, store) /\ (Stage(b, engine, store) => Stage(b1, e, store))
      BY <1>0, <2>3, StreamConfiguredKeeps
    <3> QED
      BY <1>1, <3>1, <3>2
  <2> QED
    BY <2>2, <2>3
<1>6. CASE StreamSends
  <2>1. PICK st \in DOMAIN engine.taps, key \in BOOLEAN, fits \in BOOLEAN, e \in Later(engine) :
          Phone(TapFrame(e, st, key, fits))
    BY <1>6 DEF StreamSends
  <2>2. World(b, e, store) /\ (Stage(b, engine, store) => Stage(b, e, store))
    BY <1>0, StageLater
  <2>3. st \in DOMAIN e.taps
    BY <1>0, LaterKeeps DEF Alike
  <2> DEFINE e1 == TapFrame(e, st, key, fits)
  <2>4. World(b, e1, store) /\ (Stage(b, e, store) => Stage(b, e1, store))
    BY <2>2, <2>3, StreamSendsKeeps
  <2> QED
    BY <1>1, <2>1, <2>2, <2>4
<1>7. CASE StreamEnds
  <2>1. PICK st \in DOMAIN engine.taps : Phone(DropTap(engine, st))
    BY <1>7 DEF StreamEnds
  <2>2. /\ World(b, DropTap(engine, st), store)
        /\ Stage(b, engine, store) => Stage(b, DropTap(engine, st), store)
    BY <1>0, StreamEndsKeeps
  <2> QED
    BY <1>1, <2>1, <2>2
<1> QED
  BY <1>2, <1>3, <1>4, <1>5, <1>6, <1>7 DEF PhoneNext

LEMMA LinkKeeps == LinkInv /\ [Next]_vars => LinkInv'
<1> SUFFICES ASSUME LinkInv, [Next]_vars PROVE LinkInv'
  OBVIOUS
<1>0. PICK b : Agreed(b, engine, client, store)
  BY DEF LinkInv
<1>8. (\E b1 : Agreed(b1, engine', client', store')) => LinkInv'
  BY DEF LinkInv
<1>1. CASE Service
  BY <1>0, <1>1, <1>8, ServiceKeeps
<1>2. CASE Cut
  <2>1. engine' = Close(engine) /\ client' = client /\ store' = store
    BY <1>2 DEF Cut
  <2>2. Stage(b, Close(engine), store)
    BY <1>0, StageClose DEF Agreed
  <2>3. Agreed(b, engine', client', store')
    BY <2>1, <2>2 DEF Agreed, Stage
  <2> QED
    BY <1>8, <2>3
<1>3. CASE ClientNext
  BY <1>0, <1>3, <1>8, ClientKeeps
<1>4. CASE PhoneNext
  BY <1>0, <1>4, <1>8, PhoneKeeps
<1>5. CASE Select
  <2> DEFINE on == ~ store.selected
  <2>1. store' = SetSelected(store, on) /\ engine' = engine /\ client' = client
    BY <1>5 DEF Select
  <2>2. on \in BOOLEAN
    OBVIOUS
  <2> HIDE DEF on
  <2>3. /\ World(b, engine, SetSelected(store, on))
        /\ Stage(b, engine, store) => Stage(b, engine, SetSelected(store, on))
    BY <1>0, <2>2, SelectKeeps DEF Agreed
  <2>4. Agreed(b, engine', client', store')
    BY <1>0, <2>1, <2>3 DEF Agreed
  <2> QED
    BY <1>8, <2>4
<1>6. CASE PageAsks
  <2>1. PICK r \in Role : store.video[r].started /\ store' = Asks(store, r, TRUE)
    BY <1>6 DEF PageAsks, Asks
  <2>2. engine' = engine /\ client' = client
    BY <1>6 DEF PageAsks
  <2>3. /\ World(b, engine, Asks(store, r, TRUE))
        /\ Stage(b, engine, store) => Stage(b, engine, Asks(store, r, TRUE))
    BY <1>0, <2>1, PageAsksKeeps DEF Agreed
  <2>4. Agreed(b, engine', client', store')
    BY <1>0, <2>1, <2>2, <2>3 DEF Agreed
  <2> QED
    BY <1>8, <2>4
<1>7. CASE UNCHANGED vars
  BY <1>0, <1>7, <1>8 DEF vars
<1> QED
  BY <1>1, <1>2, <1>3, <1>4, <1>5, <1>6, <1>7 DEF Next

\* Whatever the phone does, the user and both threads, wherever the connection
\* fails, there is a book of streams everything in the engine, on the wire and
\* in the store agrees with: a client that is given the streams which are there
\* (MediaServer::snapshot, input-only.patch 1369-1380) and then the events of
\* the queue (control_event, 1246-1288) is led to what the engine believes.
THEOREM LinkAlways == Spec => []LinkInv
  BY AtFirst, LinkKeeps, PTL DEF Spec

-----------------------------------------------------------------------------

LEMMA RingOfInv == LinkInv => RingDecodes
<1> SUFFICES ASSUME LinkInv, NEW r \in Role
             PROVE  LET v == store.video[r] IN
                    /\ v.waiting => v.ring = <<>>
                    /\ \A i \in DOMAIN v.ring :
                         /\ v.ring[i].stream = v.id /\ v.ring[i].content = v.content
                         /\ i > 1 => v.ring[i].sequence = v.ring[i - 1].sequence + 1
  BY DEF RingDecodes
<1>1. RingOK(store.video[r], store.selected)
  BY DEF LinkInv, Agreed, World, StoreOK
<1> QED
  BY <1>1 DEF RingOK

\* What a page reads are frames of one stream and one configuration without a
\* gap, and none while a key frame is waited for: the store takes a frame only
\* after the one before it, and what ends the row clears the ring
\* (RealMediaStore::push_video_frame_locked, real_media_store.cpp 38-53, and
\* ingest, 273-325).
THEOREM RingAlwaysDecodes == Spec => []RingDecodes
  BY LinkAlways, RingOfInv, PTL

LEMMA FollowsOfInv == LinkInv => StoreFollows
<1> SUFFICES ASSUME LinkInv, client = "on", engine.serving, store.hello, engine.down = <<>>,
                    engine.session # 0, engine.state.session = engine.session
             PROVE  /\ store.session = engine.session
                    /\ \A r \in DOMAIN engine.state.video :
                         LET v == engine.state.video[r] IN
                         /\ store.video[r].started /\ store.video[r].id = v.stream
                         /\ store.video[r].have <=> v.config # 0
                         /\ v.config # 0 => store.video[r].config = v.config /\ store.video[r].content = v.content
  BY DEF StoreFollows
<1>0. PICK b : World(b, engine, store) /\ Follows(b, engine, store)
  BY DEF LinkInv, Agreed, Stage
<1>1. EngineOK(b, engine) /\ StoreOK(b, engine, store)
  BY <1>0 DEF World
<1> DEFINE w == View(store)
<1>2. Match(b, w, engine)
  <2>1. PICK z : Leads(b, <<>>, w, z) /\ Match(b, z, engine)
    BY <1>0 DEF Follows
  <2>2. z = w
    BY <2>1, LeadsFrom
  <2> QED
    BY <2>1, <2>2
<1>3. w.session = store.session /\ \A r \in Role : w.video[r] = Seen(store.video[r])
  BY DEF View
<1> HIDE DEF w
<1>4. store.session = engine.session
  BY <1>2, <1>3 DEF Match
<1>5. ASSUME NEW r \in DOMAIN engine.state.video
      PROVE  LET v == engine.state.video[r] IN
             /\ store.video[r].started /\ store.video[r].id = v.stream
             /\ store.video[r].have <=> v.config # 0
             /\ v.config # 0 => store.video[r].config = v.config /\ store.video[r].content = v.content
  <2> DEFINE v == engine.state.video[r]
             p == store.video[r]
  <2>1. r \in Role /\ ShownOK(b, engine, r, v) /\ v.stream \in DOMAIN b
    BY <1>1, <1>5, ShownRole
  <2>2. b[v.stream].session = engine.state.session
    <3>1. engine.session = engine.nextSession - 1 /\ b[v.stream].session \in 1..engine.nextSession - 1
          /\ engine.session \in Nat /\ engine.nextSession \in Nat
      BY <1>1, <2>1, EngineIs DEF EngineOK, BookOK
    <3>2. b[v.stream].session >= engine.state.session
      BY <2>1 DEF ShownOK
    <3> QED
      BY <3>1, <3>2
  <2>3. /\ w.video[r].started /\ w.video[r].id = v.stream
        /\ w.video[r].have <=> v.config # 0
        /\ v.config # 0 => w.video[r].config = v.config
    BY <1>2, <1>5, <2>2 DEF Match
  <2> DEFINE q == w.video[r]
  <2>a. q = Seen(p)
    BY <1>3, <2>1
  <2>b. /\ q.started /\ q.id = v.stream
        /\ q.have <=> v.config # 0
        /\ v.config # 0 => q.config = v.config
    BY <2>3
  <2> HIDE DEF v, p, q
  <2>c. q.started = p.started /\ q.id = p.id /\ q.have = p.have /\ q.config = p.config
    BY <2>a DEF Seen
  <2>4. /\ p.started /\ p.id = v.stream
        /\ p.have <=> v.config # 0
        /\ v.config # 0 => p.config = v.config
    BY <2>b, <2>c
  <2>5. v.config # 0 => p.content = v.content
    <3>1. p.have => Chosen(b, p.id, p.config, p.content)
      BY <1>1, <2>1 DEF StoreOK, SlotOK, p
    <3>2. v.config # 0 => Chosen(b, v.stream, v.config, v.content)
      BY <2>1 DEF ShownOK
    <3> QED
      BY <2>4, <3>1, <3>2 DEF Chosen
  <2>6. /\ p.started /\ p.id = v.stream
        /\ p.have <=> v.config # 0
        /\ v.config # 0 => p.config = v.config /\ p.content = v.content
    BY <2>4, <2>5
  <2> QED
    BY <2>6 DEF v, p
<1> QED
  BY <1>4, <1>5

\* When all that was sent is read the store shows the streams the engine has
\* announced, with their configurations and contents, after any number of
\* connections (MediaServer::accept, cp-native.patch 653-679; ingest,
\* real_media_store.cpp 273-325).
THEOREM StoreAlwaysFollows == Spec => []StoreFollows
  BY LinkAlways, FollowsOfInv, PTL

LEMMA HearsOfInv == LinkInv => OnlyEngineLoses
<1> SUFFICES ASSUME LinkInv, NEW r \in Role, Linked, Current(engine, store, r),
                    store.selected, store.video[r].have, store.video[r].waiting
             PROVE  AskedFor(engine, store, r) \/ r \in engine.lost
  BY DEF OnlyEngineLoses
<1>1. Hears(engine, store)
  BY DEF LinkInv, Agreed, Stage, Linked
<1>2. Heard(engine, store, r)
  BY <1>1 DEF Hears, Linked
<1> QED
  BY <1>2 DEF Heard

\* A picture that waits for a key frame has asked for one, in the store, on the
\* wire, in the engine or by what is still to come, unless the engine itself let
\* the frame fall (flush_request, catplay_media_client.cpp 503-572; read_request
\* and request_keyframe, input-only.patch 1329-1368).
THEOREM OnlyEngineEverLoses == Spec => []OnlyEngineLoses
  BY LinkAlways, HearsOfInv, PTL
=============================================================================
