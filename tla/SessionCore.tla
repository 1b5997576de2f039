----------------------------- MODULE SessionCore ----------------------------
(***************************************************************************)
(* SessionCore (Core/MainMenu/src/session_core.cpp): the registry of input *)
(* sources, the choice of the active one, the cached frame and audio block *)
(* of that source, and the routing of control events back to it.  Callers  *)
(* are arbitrary: input adapters, the desktop and the HTTP workers.        *)
(*                                                                         *)
(* Every method is one action, since it holds mutex_ throughout, except    *)
(* route_control, which copies the sink under the lock and calls it after. *)
(* Frames are the source and the connection they were submitted in; the    *)
(* event log, the drop counters and the size checks of payloads and ids    *)
(* are left out.  The state blocks that are replaced whole (media info,    *)
(* display, telephony, ...) have no behaviour here.                        *)
(***************************************************************************)
EXTENDS Naturals, FiniteSets

CONSTANTS
  Externals,           \* phone inputs
  Synthetics,          \* test inputs
  Desktop,             \* the id of the Core desktop
  None,                \* the empty id
  MaxSources,          \* kMaxSources: registered sources, and control sinks
  MaxLinks             \* bound: times each source connects

Source == Externals \cup Synthetics \cup {Desktop}

ASSUME SourceAssumption ==
  /\ IsFiniteSet(Source) /\ None \notin Source
  /\ Externals \cap Synthetics = {} /\ Desktop \notin Externals \cup Synthetics

ASSUME CapacityAssumption == MaxSources \in Nat /\ MaxLinks \in Nat

VARIABLES
  place,               \* registered source -> its index in sources_
  connected,           \* registered sources that are online
  mode,                \* mode_
  selected,            \* selected_, in manual mode
  desktop,             \* desktop_
  active,              \* active_
  video,               \* latest_video_, or NoFrame
  audio,               \* latest_audio_, or NoFrame
  sinks,               \* sources with a control sink
  calls,               \* sinks copied by route_control and not called yet
  link                 \* history: how often each source has connected

coreVars == <<place, connected, mode, selected, desktop, active, video, audio,
              sinks, calls, link>>

selectionVars == <<mode, selected, desktop>>

NoFrame == [src |-> None, link |-> 0]

Frame == [src : Source, link : 1..MaxLinks]

CoreInit ==
  /\ place = [s \in {} |-> 0] /\ connected = {}
  /\ mode = "Automatic" /\ selected = None /\ desktop = None
  /\ active = None /\ video = NoFrame /\ audio = NoFrame
  /\ sinks = {} /\ calls = {}
  /\ link = [s \in Source |-> 0]

----------------------------------------------------------------------------
\* The choice of the active source

Priority(s) == IF s \in Externals THEN 3 ELSE IF s \in Synthetics THEN 2 ELSE 1

\* Sources that nothing online outranks.
Best(online) == {s \in online : \A t \in online : Priority(t) <= Priority(s)}

\* The one registered first.
First(S, order) == CHOOSE s \in S : \A t \in S : order[s] <= order[t]

ByPriority(order, online, desk) ==
  IF online = {} THEN None
  ELSE IF desk \in Best(online) THEN desk
  ELSE First(Best(online), order)

\* Two phones online in automatic mode: the user has to choose.
MustChoose(online, m, desk) ==
  /\ m = "Automatic"
  /\ Cardinality(online \cap Externals) >= 2
  /\ desk \in online

\* Bug: a manual choice is kept when its source is gone.
ChoiceManualAlways(order, online, m, sel, desk) ==
  IF m = "Manual" THEN sel
  ELSE IF MustChoose(online, m, desk) THEN desk
  ELSE ByPriority(order, online, desk)

Choice(order, online, m, sel, desk) ==
  IF m = "Manual" /\ sel \in online THEN sel
  ELSE IF MustChoose(online, m, desk) THEN desk
  ELSE ByPriority(order, online, desk)

\* Bug: only the picture is cleared.
ResolveKeepsAudio ==
  /\ active' = Choice(place', connected', mode', selected', desktop')
  /\ video' = IF active' = active THEN video ELSE NoFrame
  /\ UNCHANGED audio

\* resolve_active_locked, on the values the caller has just assigned
ResolveActive ==
  /\ active' = Choice(place', connected', mode', selected', desktop')
  /\ IF active' = active THEN UNCHANGED <<video, audio>>
                         ELSE video' = NoFrame /\ audio' = NoFrame

----------------------------------------------------------------------------
\* Sources and selection

SetDesktopSource(s) ==
  /\ desktop' = s
  /\ UNCHANGED <<place, connected, mode, selected, sinks, calls, link>>
  /\ ResolveActive

CanRegister(s) == s \in DOMAIN place \/ Cardinality(DOMAIN place) < MaxSources

UpsertSource(s, online) ==
  /\ CanRegister(s)
  /\ online /\ s \notin connected => link[s] < MaxLinks
  /\ place' = IF s \in DOMAIN place THEN place
              ELSE [t \in DOMAIN place \cup {s} |->
                      IF t = s THEN Cardinality(DOMAIN place) + 1 ELSE place[t]]
  /\ connected' = IF online THEN connected \cup {s} ELSE connected \ {s}
  /\ link' = IF online /\ s \notin connected THEN [link EXCEPT ![s] = @ + 1] ELSE link
  /\ UNCHANGED <<selectionVars, sinks, calls>>
  /\ ResolveActive

\* set_selection refuses a manual choice that is not online.
SetSelection(m, s) ==
  /\ m = "Manual" => s \in connected
  /\ mode' = m
  /\ selected' = s
  /\ UNCHANGED <<place, connected, desktop, sinks, calls, link>>
  /\ ResolveActive

----------------------------------------------------------------------------
\* Media and control

SubmitVideo(s) ==
  /\ s = active
  /\ video' = [src |-> s, link |-> link[s]]
  /\ UNCHANGED <<place, connected, selectionVars, active, audio, sinks, calls, link>>

SubmitAudio(s) ==
  /\ s = active
  /\ audio' = [src |-> s, link |-> link[s]]
  /\ UNCHANGED <<place, connected, selectionVars, active, video, sinks, calls, link>>

RegisterSink(s) ==
  /\ s \in sinks \/ Cardinality(sinks) < MaxSources
  /\ sinks' = sinks \cup {s}
  /\ UNCHANGED <<place, connected, selectionVars, active, video, audio, calls, link>>

UnregisterSink(s) ==
  /\ sinks' = sinks \ {s}
  /\ UNCHANGED <<place, connected, selectionVars, active, video, audio, calls, link>>

\* route_control: first half, under the lock
RouteControl ==
  /\ active \in sinks
  /\ calls' = calls \cup {active}
  /\ UNCHANGED <<place, connected, selectionVars, active, video, audio, sinks, link>>

\* route_control: second half, the copied sink is called
CallSink(s) ==
  /\ s \in calls
  /\ calls' = calls \ {s}
  /\ UNCHANGED <<place, connected, selectionVars, active, video, audio, sinks, link>>

----------------------------------------------------------------------------

RegistryNext ==
  \/ \E s \in {Desktop, None} : SetDesktopSource(s)
  \/ \E s \in Source, online \in BOOLEAN : UpsertSource(s, online)
  \/ \E s \in Source : SetSelection("Manual", s)
  \/ SetSelection("Automatic", None)

MediaNext == \E s \in Source : SubmitVideo(s) \/ SubmitAudio(s)

ControlNext ==
  \/ \E s \in Source : RegisterSink(s) \/ UnregisterSink(s) \/ CallSink(s)
  \/ RouteControl

CoreNext == RegistryNext \/ MediaNext \/ ControlNext

CoreSpec == CoreInit /\ [][CoreNext]_coreVars

----------------------------------------------------------------------------
\* Properties

\* Every field has its type; indices of sources_ are those of a table of at
\* most MaxSources entries.
CoreTypeOK ==
  /\ DOMAIN place \subseteq Source /\ place \in [DOMAIN place -> 1..MaxSources]
  /\ connected \subseteq DOMAIN place
  /\ mode \in {"Automatic", "Manual"}
  /\ {selected, desktop, active} \subseteq Source \cup {None}
  /\ {video, audio} \subseteq Frame \cup {NoFrame}
  /\ sinks \subseteq Source /\ calls \subseteq Source
  /\ link \in [Source -> 0..MaxLinks]

\* After every call, whatever changed, the active source is the one
\* PROJECT_ARCHITECTURE section 2 names: a manual choice that is online wins;
\* two phones in automatic mode show the desktop; otherwise something online
\* of the highest priority, and nothing only if nothing is online.
ActiveIsRight ==
  /\ active = None <=> connected = {}
  /\ active # None => active \in connected
  /\ mode = "Manual" /\ selected \in connected => active = selected
  /\ MustChoose(connected, mode, desktop) => active = desktop
  /\ ~ (mode = "Manual" /\ selected \in connected) /\ ~ MustChoose(connected, mode, desktop)
       => \A s \in connected : Priority(s) <= Priority(active)

\* The cached frame and audio block belong to the active source, and to its
\* present connection: a frame never survives a switch or a reconnection
\* (PROJECT_ARCHITECTURE section 2, rule 5).
NoStaleFrame ==
  \A f \in {video, audio} \ {NoFrame} :
     f.src = active /\ f.link = link[active] /\ active \in connected
=============================================================================
