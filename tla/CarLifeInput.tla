---------------------------- MODULE CarLifeInput ----------------------------
(***************************************************************************)
(* The CarLife adapter (carlife_input.cpp) between a session and the Core: *)
(* its thread, run(), which meets a phone, runs a session and starts over; *)
(* the owner's start() and stop(); the Core's HTTP workers, which bring    *)
(* the car's controls, several at a time; and the session's callbacks, one *)
(* per step.  A session here is what the adapter sees of CarLifeSession.   *)
(*                                                                         *)
(* stop() reads a pointer to the session that run() sets and clears, and   *)
(* a new session takes a stop it got before it began for none.             *)
(***************************************************************************)
EXTENDS CarLifeControls, CarLifeMedia

CONSTANTS
  Worker,              \* the threads that bring the car's events: HttpWorkers::workers_
  Plan,                \* surroundings: how a phone is met, what it says, what the car does
  MaxCalls,            \* bound: callbacks with something to tell
  MaxEvents            \* bound: events of the car

\* What a phone may say, by the callback that tells it.
Callable(call) ==
  \/ call.on = "Video" /\ call.config \in Config \cup {None}
  \/ call.on = "AudioInit" /\ call.stream \in Stream
  \/ call.on = "AudioPcm" /\ call.stream \in Stream /\ call.whole \in BOOLEAN
  \/ call.on = "AudioEnd" /\ call.stream \in Stream
  \/ call.on = "File"
       /\ call.svc \in {"START", "DATA", "FINISH", "STOP", "UPDATE_START", "UPDATE_END"}
  \/ call.on = "NextTurn" /\ {call.code, call.ahead, call.remaining, call.seconds} \subseteq Nat
  \/ call.on = "Guide" /\ {call.ahead, call.remaining} \subseteq Nat
  \/ call.on \in {"Activation", "Encryption", "Telephony", "VideoControl"}

\* What the car may do: the Core's ControlEvent, by its type, and the two commands.
Drivable(e) ==
  /\ e.type \in { "Touch", "Key", "MultiTouch", "Knob", "Gesture", "Proximity", "Voice",
                  "Telephony", "VehicleCtrl", "Foreground", "ModuleControl" }
  /\ e.type = "Telephony" => e.dtmf \in Seq(STRING)

ASSUME PlanAssumption ==
  \A plan \in Plan : /\ \A call \in plan.says : Callable(call)
                     /\ \A e \in plan.events : Drivable(e)

VARIABLES
  ring,                \* controls_, control_begin_, control_count_
  run,                 \* where run() is
  owner,               \* where the owner's start() or stop() is
  session,             \* the Session that run() has on its stack
  live,                \* active_session_ points to it
  car,                 \* of each worker, the event it has on its way: [at, n, what]
  env                  \* the plan, what is used up of it, what was taken, and (history)
                       \* which events are through: route_control has returned

adapter == <<a, store, core>>
vars == <<adapter, ring, run, owner, session, live, car, env>>

NoSession == [running |-> FALSE, closed |-> FALSE, established |-> FALSE]
Nothing == [at |-> "none", n |-> 0, what |-> Drop]
Free == [w \in Worker |-> Nothing]
NoItem == [n |-> 0, part |-> 0, of |-> 0, after |-> {}]

Init ==
  /\ a = [ running |-> FALSE, connected |-> FALSE, sid |-> 0, epoch |-> 0, size |-> FALSE,
           config |-> None, vopen |-> FALSE, vseq |-> 0, aopen |-> {}, aseq |-> [i \in Stream |-> 0],
           ducked |-> FALSE, audio |-> [nav |-> FALSE, gain |-> "full", role |-> "Media", others |-> {}, format |-> 0],
           link |-> NoLink, nav |-> NoNav,
           file |-> [active |-> FALSE, bytes |-> 0, total |-> 0, ota |-> "none"] ]
  /\ store = EmptyStore
  /\ core = [ sink |-> FALSE, on |-> FALSE, ducking |-> FALSE, audio |-> a.audio, link |-> NoLink,
              nav |-> NoNav, call |-> None, fps |-> 0,
              told |-> [link |-> [activation |-> 0, encryption |-> 0], file |-> a.file,
                        nav |-> [code |-> 0, ahead |-> 0, remaining |-> 0, seconds |-> 0]] ]
  /\ ring = EmptyRing
  /\ run = "off" /\ owner = "off" /\ session = NoSession /\ live = FALSE /\ car = Free
  /\ \E plan \in Plan : env = [plan |-> plan, calls |-> 0, events |-> 0, taken |-> NoItem, through |-> {}]

-----------------------------------------------------------------------------
(* The owner.                                                              *)

Start ==
  /\ owner = "off"
  /\ a' = [a EXCEPT !.running = TRUE]
  /\ core' = [core EXCEPT !.sink = TRUE, !.on = FALSE]
  /\ run' = "head" /\ owner' = "started"
  /\ UNCHANGED <<store, ring, session, live, car, env>>

Stop ==
  /\ owner = "started" /\ env.plan.stop
  /\ a' = [a EXCEPT !.running = FALSE]
  /\ owner' = "load"
  /\ UNCHANGED <<store, core, ring, run, session, live, car, env>>

LoadSession ==
  /\ owner = "load"
  /\ owner' = IF live THEN "tell" ELSE "join"
  /\ UNCHANGED <<adapter, ring, run, session, live, car, env>>

\* requestStop.  While channels are being connected, closing the transport
\* may come before there is a channel to close, or after.  A session that is
\* gone by now has nothing left that anyone reads.
TellSession ==
  /\ owner = "tell"
  /\ owner' = "join"
  /\ \E closed \in IF run = "connect" THEN BOOLEAN ELSE {TRUE} :
       session' = [session EXCEPT !.running = FALSE, !.closed = @ \/ closed]
  /\ UNCHANGED <<adapter, ring, run, live, car, env>>

\* Once the thread is joined.
Cleanup ==
  /\ owner = "join" /\ run = "done"
  /\ LET w == LeaveSession(World)
     IN  Becomes([w EXCEPT !.a.connected = FALSE, !.core.on = FALSE, !.core.sink = FALSE])
  /\ ring' = Clear(ring)
  /\ owner' = "stopped"
  /\ UNCHANGED <<run, session, live, car, env>>

-----------------------------------------------------------------------------
(* run().                                                                  *)

At(pc) == run = pc
GoTo(pc) == run' = pc

Again ==
  /\ At("head")
  /\ GoTo(IF ~a.running THEN "exit" ELSE IF env.plan.bt THEN "discover" ELSE "make")
  /\ UNCHANGED <<adapter, ring, owner, session, live, car, env>>

\* run_bluetooth_bootstrap: its three servers are started and their failures
\* passed over; then it waits for a phone's broadcast, three seconds at a time.
PhoneFound ==
  /\ At("discover") /\ a.running
  /\ GoTo("make")
  /\ UNCHANGED <<adapter, ring, owner, session, live, car, env>>

GiveUp ==
  /\ At("discover") /\ ~a.running
  /\ GoTo("failed")
  /\ UNCHANGED <<adapter, ring, owner, session, live, car, env>>

BootstrapFailed ==
  /\ At("failed")
  /\ GoTo(IF a.running THEN "head" ELSE "exit")
  /\ UNCHANGED <<adapter, ring, owner, session, live, car, env>>

MakeSession ==
  /\ At("make")
  /\ live' = TRUE /\ session' = NoSession
  /\ GoTo("connect")
  /\ UNCHANGED <<adapter, ring, owner, car, env>>

Connected ==
  /\ At("connect")
  /\ Becomes(OnVideoConfig(World))
  /\ GoTo("begin")
  /\ UNCHANGED <<ring, owner, session, live, car, env>>

NotConnected ==
  /\ At("connect")
  /\ GoTo("ended")
  /\ UNCHANGED <<adapter, ring, owner, session, live, car, env>>

OnState(w, on) == [w EXCEPT !.a.connected = on, !.core.on = on]

\* onState(Failed) or onState(Closed), the last callback of a session.
SessionOver ==
  /\ Becomes(OnState(World, FALSE))
  /\ GoTo("ended")
  /\ session' = [session EXCEPT !.running = FALSE]
  /\ UNCHANGED <<ring, owner, live, car, env>>

\* start() of the session sets its running_, whatever it was.
BeginLoop ==
  /\ At("begin")
  /\ IF session.closed THEN SessionOver
     ELSE /\ session' = [session EXCEPT !.running = TRUE]
          /\ GoTo("loop")
          /\ UNCHANGED <<adapter, ring, owner, live, car, env>>

\* The session is told to stop, loses the phone, or ends for a reason of its own.
LeaveLoop ==
  /\ At("loop")
  /\ ~session.running \/ session.closed
  /\ SessionOver

PhoneLeaves == At("loop") /\ env.plan.leaves /\ SessionOver

Unpublish ==
  /\ At("ended")
  /\ live' = FALSE
  /\ GoTo("clean")
  /\ UNCHANGED <<adapter, ring, owner, session, car, env>>

LeaveMedia ==
  /\ At("clean")
  /\ Becomes(LeaveSession(World))
  /\ GoTo("detach")
  /\ UNCHANGED <<ring, owner, session, live, car, env>>

\* Bug: one session, and that is it.
AfterOne == "exit"

\* The next session follows a second later, unless stop() was called.
After == IF a.running THEN "head" ELSE "exit"

Detach ==
  /\ At("detach")
  /\ Becomes(OnState(World, FALSE))
  /\ GoTo(After)
  /\ UNCHANGED <<ring, owner, session, live, car, env>>

Exit ==
  /\ At("exit")
  /\ a' = [a EXCEPT !.running = FALSE]
  /\ GoTo("done")
  /\ UNCHANGED <<store, core, ring, owner, session, live, car, env>>

-----------------------------------------------------------------------------
(* What the phone says.                                                    *)

Called(w, call) ==
  CASE call.on = "Video" -> OnVideoAnnexB(w, call.config)
    [] call.on = "AudioInit" -> OnAudioInit(w, call.stream, call.rate)
    [] call.on = "AudioPcm" -> OnAudioPcm(w, call.stream, call.whole)
    [] call.on = "AudioEnd" -> OnAudioEnd(w, call.stream)
    [] call.on = "Activation" -> OnActivationRequest(w, call.yes)
    [] call.on = "Encryption" -> OnEncryption(w, call.state)
    [] call.on = "File" -> OnFileTransfer(w, call.svc)
    [] call.on = "NextTurn" -> OnNaviNextTurn(w, call.code, call.ahead, call.remaining, call.seconds)
    [] call.on = "Guide" -> OnNaviAssistantGuide(w, call.ahead, call.remaining)
    [] call.on = "Telephony" -> OnTelephony(w, call.state, call.number, call.name)
    [] call.on = "VideoControl" -> OnVideoControl(w, call.rate)

InLoop == At("loop") /\ session.running

Callback ==
  /\ InLoop /\ env.calls < MaxCalls
  /\ \E call \in env.plan.says : Becomes(Called(World, call))
  /\ env' = [env EXCEPT !.calls = @ + 1]
  /\ UNCHANGED <<ring, run, owner, session, live, car>>

\* onState(Established).
Established ==
  /\ InLoop /\ ~session.established
  /\ Becomes(OnState(EnsureSession(World), TRUE))
  /\ session' = [session EXCEPT !.established = TRUE]
  /\ UNCHANGED <<ring, run, owner, live, car, env>>

\* pollTouchOutput asks before the handshake as well.
TakeControl ==
  /\ InLoop /\ ring.count > 0
  /\ env' = [env EXCEPT !.taken = [n |-> Queued(ring)[1].n, part |-> Queued(ring)[1].part,
                                   of |-> Queued(ring)[1].of, after |-> Queued(ring)[1].after]]
  /\ ring' = TakeFrom(ring)
  /\ UNCHANGED <<adapter, run, owner, session, live, car>>

-----------------------------------------------------------------------------
(* What the car does, by as many workers as there are.  The sink is called *)
(* after the Core's lock is left, so that events that are under way at the *)
(* same time enter the ring in any order, and stop() may come between; a   *)
(* command of the car looks at connected_ before it takes the lock.        *)

\* History: each control is marked with its event and with the events that
\* were through before it was accepted.
Numbered(result, n, before) ==
  [result EXCEPT !.items = [k \in DOMAIN @ |->
     [n |-> n, part |-> k, of |-> Len(@), after |-> before,
      type |-> @[k].type, phase |-> @[k].phase, data |-> @[k].data]]]

\* requestForeground and requestModuleControl.
Command(e) == IF e.valid THEN [into |-> "batch", items |-> <<[type |-> e.type, phase |-> "Up", data |-> "none"]>>]
              ELSE Drop

IsCommand(e) == e.type \in {"Foreground", "ModuleControl"}

RouteControl(w) ==
  /\ car[w] = Nothing /\ env.events < MaxEvents
  /\ \E e \in env.plan.events :
       /\ IF IsCommand(e) THEN a.connected ELSE core.sink
       /\ car' = [car EXCEPT ![w] =
                    [at |-> "sink", n |-> env.events + 1,
                     what |-> Numbered(IF IsCommand(e) THEN Command(e) ELSE OnControl(e),
                                       env.events + 1, env.through)]]
  /\ env' = [env EXCEPT !.events = @ + 1]
  /\ UNCHANGED <<adapter, ring, run, owner, session, live>>

OnControlEnters(w) ==
  /\ car[w].at = "sink"
  /\ ring' = Enter(ring, car[w].what)
  /\ env' = [env EXCEPT !.through = @ \cup {car[w].n}]
  /\ car' = [car EXCEPT ![w] = Nothing]
  /\ UNCHANGED <<adapter, run, owner, session, live>>

-----------------------------------------------------------------------------
Owner == Start \/ LoadSession \/ TellSession \/ Cleanup
Thread ==
  \/ Again \/ GiveUp \/ BootstrapFailed \/ MakeSession \/ Connected \/ NotConnected
  \/ BeginLoop \/ LeaveLoop \/ Unpublish \/ LeaveMedia \/ Detach \/ Exit
Surroundings ==
  \/ Stop \/ PhoneFound \/ PhoneLeaves \/ Callback \/ Established \/ TakeControl
  \/ \E w \in Worker : RouteControl(w) \/ OnControlEnters(w)

\* Everything is over once stop() has returned and no event is on its way.
Over == owner = "stopped" /\ car = Free /\ UNCHANGED vars

Next == Owner \/ Thread \/ Surroundings \/ Over
Spec == Init /\ [][Next]_vars

\* The scheduler runs both threads, and connectPhone gives up after its
\* timeouts; a phone may keep the adapter waiting, or stay, for good.
FairSpec == Spec /\ WF_vars(Owner) /\ WF_vars(Thread)

-----------------------------------------------------------------------------
(* Properties.                                                             *)

TypeOK ==
  /\ a.sid \in 0..2 /\ a.vseq \in 0..MaxCalls /\ a.aopen \subseteq Stream
  /\ a.config \in Config \cup {None}
  /\ ring.begin \in 0..(Capacity - 1) /\ ring.count \in 0..Capacity
  /\ run \in { "off", "head", "discover", "failed", "make", "connect", "begin", "loop", "ended",
               "clean", "detach", "exit", "done" }
  /\ owner \in {"off", "started", "load", "tell", "join", "stopped"}
  /\ live \in BOOLEAN /\ \A w \in Worker : car[w].at \in {"none", "sink"}

MediaAgrees ==
  /\ ~store.refused
  /\ a.sid = store.sid
  /\ a.vopen = store.video.started
  /\ a.vopen => a.config = store.video.config
  /\ \A i \in Stream : i \in a.aopen <=> store.audio[i] # None

ConnectedMeansSession ==
  /\ core.on = a.connected
  /\ core.on => a.sid # 0 /\ run \in {"loop", "ended", "clean", "detach"}
  /\ run \in {"off", "head", "discover", "make", "exit", "done"} => store.sid = 0 /\ ~core.on
  /\ owner = "stopped" => ~core.sink /\ run = "done"

\* Whatever sessions come and go, and wherever stop() meets them, the adapter
\* and the store agree on the session and on the streams that are open, so
\* that no frame and no audio is refused because of what came before.  A source
\* that is shown as connected has a session, on both sides; once the thread is
\* between sessions, or stop() is back, there is none, and no sink.
SidesAgree == MediaAgrees /\ ConnectedMeansSession

\* One control d places behind another, in the ring or among those taken: its
\* event was not through when the other's was accepted, and, if they are of the same
\* event, it is the d-th part after.
Behind(x, y, d) == y.n \notin x.after /\ (y.n = x.n => y.part = x.part + d)

\* The workers hand over their events one across the other, but the session
\* never takes a control before one of an event that had been answered when its
\* own was accepted.  And a batch, a number or the steps of a knob, stays whole
\* in the ring: nothing comes between its keys, none is left out, and what is
\* left of one that is being taken is its rest.
ControlsInOrder ==
  LET q == Queued(ring)
  IN  /\ \A k \in DOMAIN q : Behind(env.taken, q[k], k) /\ \A i \in 1..(k - 1) : Behind(q[i], q[k], k - i)
      /\ \A k \in 2..Len(q) : IF q[k - 1].part < q[k - 1].of THEN q[k].n = q[k - 1].n ELSE q[k].part = 1
      /\ q # <<>> => /\ q[Len(q)].part = q[Len(q)].of
                     /\ q[1].n # env.taken.n => q[1].part = 1

\* What the Core shows of the link and of the route is, field by field, what
\* a phone said last, although every message hands over the whole block.
BlocksMerged ==
  /\ core.link.activation = core.told.link.activation
  /\ core.link.encryption = core.told.link.encryption
  /\ \A f \in DOMAIN core.told.file : core.told.file # [active |-> FALSE, bytes |-> 0, total |-> 0, ota |-> "none"]
        => core.link[f] = core.told.file[f]
  /\ \A f \in DOMAIN core.told.nav : core.nav[f] = core.told.nav[f]

\* Until it is told to stop, the adapter comes back to where it waits for a
\* phone or has one: it never gives up after a session or a failure.
Reconnects == []<>(owner # "started" \/ run \in {"discover", "connect", "loop"})

\* carlife_input.cpp:172: stop() stops the thread and joins it, whatever state
\* it is in.
StopReturns == owner = "load" ~> owner = "stopped"

\* carlife_input.cpp:713: a number is sent as a whole; what is left in the
\* ring of one whose first keys are taken is only ever taken, until the session is over.
BatchWhole ==
  [][ env.taken.part < env.taken.of /\ run = "loop" /\ run' = "loop"
        => \/ env'.taken # env.taken
           \/ ring'.count > 0 /\ Queued(ring')[1].n = env.taken.n ]_vars
=============================================================================
