------------------------------ MODULE MainMenu ------------------------------
(***************************************************************************)
(* SessionCore with the parts of the service that drive it: the desktop    *)
(* renderer (Core/MainMenu/src/desktop.cpp), the HTTP workers that change  *)
(* the selection (Core/Web/src/main.cpp) and the two phone inputs, each    *)
(* with a RealMediaStore that supplies media only while it is selected.    *)
(*                                                                         *)
(* publish_now holds state_mutex_ but makes three separately locked calls  *)
(* of SessionCore, and a worker that handles /api/select makes six, so     *)
(* inputs come and go between them.  Whether the desktop's picture equals  *)
(* the last one (the FNV signature) is an arbitrary choice at every        *)
(* comparison.  Start-up follows main(); shutdown is left out.             *)
(***************************************************************************)
EXTENDS SessionCore

CONSTANTS
  CatPlay, CarLife,    \* the phone inputs "catplay-real" and "carlife-hu"
  Worker               \* threads of HttpWorkers

ASSUME InputAssumption == Externals = {CatPlay, CarLife}

VARIABLES
  boot,                \* what main() does next
  rendering,           \* publish_now: between which of its calls
  published,           \* published_in_epoch_
  job,                 \* what each worker does next
  seen,                \* the active source each worker read last
  supplied             \* inputs whose store has selected_ set

menuVars == <<boot, rendering, published, job, seen, supplied>>

vars == <<coreVars, menuVars>>

Init ==
  /\ CoreInit
  /\ boot = "synthetic"
  /\ rendering = "idle" /\ published = FALSE
  /\ job = [w \in Worker |-> "idle"] /\ seen = [w \in Worker |-> None]
  /\ supplied = Externals

----------------------------------------------------------------------------
\* main(): the test input, the desktop source, DesktopRenderer::start

BootStep(from, to) ==
  /\ boot = from /\ boot' = to
  /\ UNCHANGED <<rendering, published, job, seen, supplied>>

Boot ==
  \/ BootStep("synthetic", "desktop") /\ \E s \in Synthetics : UpsertSource(s, TRUE)
  \/ BootStep("desktop", "start") /\ SetDesktopSource(Desktop)
  \/ BootStep("start", "sink") /\ UpsertSource(Desktop, TRUE)
  \/ BootStep("sink", "up") /\ RegisterSink(Desktop)

----------------------------------------------------------------------------
\* DesktopRenderer::publish_now

\* Bug: the worker that waits for the renderer is not released.
WorkersKept == job' = job

\* A worker inside publish_now is back when the call ends.
WorkersDone ==
  job' = [w \in Worker |-> IF job[w] = "showing" THEN "idle" ELSE job[w]]

RenderSnapshot ==
  /\ rendering = "idle"
  /\ IF active = Desktop
     THEN rendering' = "rendered" /\ UNCHANGED published
     ELSE published' = FALSE /\ UNCHANGED rendering
  /\ UNCHANGED <<coreVars, boot, seen, supplied>>

\* The 1 Hz thread
Tick == boot = "up" /\ RenderSnapshot /\ UNCHANGED job

\* Bug: the comparison forgets that a switch took the picture away.
StillShownByContent(same) == published /\ same

\* The last picture still stands: same content, and SessionCore has a frame.
StillShown(same) == published /\ video # NoFrame /\ same

RenderCompare ==
  /\ rendering = "rendered"
  /\ \E same \in BOOLEAN :
       IF StillShown(same) THEN rendering' = "idle" /\ WorkersDone
                           ELSE rendering' = "submitting" /\ UNCHANGED job
  /\ UNCHANGED <<coreVars, boot, published, seen, supplied>>

RenderSubmit ==
  /\ rendering = "submitting"
  /\ rendering' = "idle"
  /\ WorkersDone
  /\ \/ SubmitVideo(Desktop) /\ published' = TRUE
     \/ active # Desktop /\ UNCHANGED <<coreVars, published>>
  /\ UNCHANGED <<boot, seen, supplied>>

----------------------------------------------------------------------------
\* Inputs

\* A phone session begins or ends, and each reports it to SessionCore.
PhoneChanges(s) ==
  /\ \E online \in BOOLEAN : UpsertSource(s, online)
  /\ UNCHANGED menuVars

SyntheticFrame(s) ==
  /\ SubmitVideo(s) \/ SubmitAudio(s)
  /\ UNCHANGED menuVars

----------------------------------------------------------------------------
\* HTTP workers

Work(w, from, to) ==
  /\ job[w] = from
  /\ job' = [job EXCEPT ![w] = to]

\* POST /api/select
Select(w) ==
  /\ boot = "up"
  /\ Work(w, "idle", "sync")
  /\ \/ SetSelection("Automatic", None)
     \/ \E s \in connected : SetSelection("Manual", s)
  /\ UNCHANGED <<boot, rendering, published, seen, supplied>>

\* POST /api/synthetic
ToggleSynthetic(w) ==
  /\ boot = "up"
  /\ Work(w, "idle", "sync")
  /\ \E s \in Synthetics : UpsertSource(s, s \notin connected)
  /\ UNCHANGED <<boot, rendering, published, seen, supplied>>

\* sync_media_selection: the snapshot, then one set_selected per store
ReadActive(w) ==
  /\ Work(w, "sync", "catplay")
  /\ seen' = [seen EXCEPT ![w] = active]
  /\ UNCHANGED <<coreVars, boot, rendering, published, supplied>>

Supply(w, s) ==
  supplied' = IF seen[w] = s THEN supplied \cup {s} ELSE supplied \ {s}

SetSelected(w) ==
  /\ \/ Work(w, "catplay", "carlife") /\ Supply(w, CatPlay)
     \/ Work(w, "carlife", "show") /\ Supply(w, CarLife)
  /\ UNCHANGED <<coreVars, boot, rendering, published, seen>>

\* desktop.publish_now, when no one else is inside
Show(w) ==
  /\ Work(w, "show", IF active = Desktop THEN "showing" ELSE "idle")
  /\ RenderSnapshot

WorkerNext(w) ==
  \/ Select(w) \/ ToggleSynthetic(w)
  \/ ReadActive(w) \/ SetSelected(w) \/ Show(w)

----------------------------------------------------------------------------

Next ==
  \/ Boot
  \/ Tick \/ RenderCompare \/ RenderSubmit
  \/ \E s \in Externals : PhoneChanges(s)
  \/ \E s \in Synthetics : SyntheticFrame(s)
  \/ \E w \in Worker : WorkerNext(w)

\* The renderer's thread wakes every second, a call that has started comes
\* back, and a worker finishes the request it is serving.
Fairness ==
  /\ WF_vars(Boot)
  /\ WF_vars(Tick) /\ WF_vars(RenderCompare) /\ WF_vars(RenderSubmit)
  /\ \A w \in Worker : WF_vars(ReadActive(w)) /\ WF_vars(SetSelected(w)) /\ SF_vars(Show(w))

Spec == Init /\ [][Next]_vars /\ Fairness

----------------------------------------------------------------------------
\* Properties

\* A desktop that becomes active gets its picture on screen though it does not
\* differ from the last one (desktop.cpp 434-437: comparing content alone left
\* the screen blank after a switch).
DesktopShows ==
  active = Desktop ~> video.src = Desktop \/ active # Desktop

\* A worker is never held up for good by the renderer.
RequestsServed ==
  \A w \in Worker : job[w] # "idle" ~> job[w] = "idle"

\* Core/Convert/MAPPING.md 170: when the active input changes, the old input's
\* media side is deselected and the new one's selected.
MediaFollowsActive ==
  \A s \in Externals : active = s ~> (s \in supplied \/ active # s)
=============================================================================
