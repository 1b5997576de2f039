-------------------------- MODULE SessionCoreProofs -------------------------
(***************************************************************************)
(* Proofs about SessionCore, for every set of sources.  Every change of    *)
(* the registry ends in ResolveActive, so the argument is made once, about *)
(* Choice: what it returns is online whenever something is, and nothing    *)
(* online should have been chosen instead.  The service, MainMenu, only     *)
(* makes such calls.                                                       *)
(***************************************************************************)
EXTENDS MainMenu, FiniteSetTheorems, WellFoundedInduction, TLAPS

\* What Choice must return for these sources and this selection
Right(a, online, m, sel, desk) ==
  /\ a = None <=> online = {}
  /\ a # None => a \in online
  /\ m = "Manual" /\ sel \in online => a = sel
  /\ MustChoose(online, m, desk) => a = desk
  /\ ~ (m = "Manual" /\ sel \in online) /\ ~ MustChoose(online, m, desk)
       => \A s \in online : Priority(s) <= Priority(a)

\* A source that is online has connected at least once.
Linked == \A s \in connected : link[s] >= 1

Inv == CoreTypeOK /\ ActiveIsRight /\ NoStaleFrame /\ Linked

----------------------------------------------------------------------------
\* The choice

LEMMA LeastExists ==
  ASSUME NEW T, T \subseteq Nat, T # {}
  PROVE  \E x \in T : \A y \in T : x <= y
<1>1. PICK x \in T : \A y \in T : ~ (<<y, x>> \in OpToRel(<, Nat))
  BY NatLessThanWellFounded, WFMin
<1>2. ASSUME NEW y \in T PROVE x <= y
  <2>1. x \in Nat /\ y \in Nat
    OBVIOUS
  <2>2. ~ (y < x)
    BY <1>1, <2>1, Zenon DEF OpToRel
  <2> HIDE <1>1
  <2> QED
    BY <2>1, <2>2
<1> QED
  BY <1>2

\* The source registered first exists.
LEMMA FirstIn ==
  ASSUME NEW S, S # {}, NEW order, \A s \in S : order[s] \in Nat
  PROVE  First(S, order) \in S
<1> DEFINE T == {order[s] : s \in S}
<1>1. PICK x \in T : \A y \in T : x <= y
  BY LeastExists
<1>2. PICK s \in S : order[s] = x
  OBVIOUS
<1>3. \A t \in S : order[s] <= order[t]
  BY <1>1, <1>2
<1> QED
  BY <1>3 DEF First

LEMMA PriorityRange == \A s : Priority(s) \in 1..3
  BY DEF Priority

LEMMA BestExists ==
  ASSUME NEW online, online # {}
  PROVE  Best(online) # {}
<1> DEFINE T == {3 - Priority(s) : s \in online}
<1>1. T \subseteq Nat /\ T # {}
  BY PriorityRange
<1>2. PICK x \in T : \A y \in T : x <= y
  BY <1>1, LeastExists
<1>3. PICK s \in online : 3 - Priority(s) = x
  OBVIOUS
<1>4. ASSUME NEW t \in online PROVE Priority(t) <= Priority(s)
  <2>1. 3 - Priority(s) <= 3 - Priority(t)
    BY <1>2, <1>3
  <2> QED
    BY <2>1, PriorityRange
<1> QED
  BY <1>4 DEF Best

LEMMA ByPriorityRight ==
  ASSUME NEW online, online # {}, NEW desk,
         NEW order, \A s \in online : order[s] \in Nat
  PROVE  ByPriority(order, online, desk) \in Best(online)
<1>1. Best(online) # {} /\ Best(online) \subseteq online
  BY BestExists DEF Best
<1>2. First(Best(online), order) \in Best(online)
  BY <1>1, FirstIn
<1> QED
  BY <1>2 DEF ByPriority

\* MustChoose does not depend on priorities, and a manual choice excludes it.
LEMMA ChoiceRight ==
  ASSUME NEW online, None \notin online, NEW m, NEW sel, NEW desk,
         NEW order, \A s \in online : order[s] \in Nat
  PROVE  Right(Choice(order, online, m, sel, desk), online, m, sel, desk)
<1> DEFINE a == Choice(order, online, m, sel, desk)
<1>1. ASSUME m = "Manual", sel \in online
      PROVE  Right(a, online, m, sel, desk)
  <2>1. a = sel /\ ~ MustChoose(online, m, desk)
    BY <1>1 DEF Choice, MustChoose
  <2> QED
    BY <1>1, <2>1 DEF Right
<1>2. ASSUME ~ (m = "Manual" /\ sel \in online), MustChoose(online, m, desk)
      PROVE  Right(a, online, m, sel, desk)
  <2>1. a = desk /\ desk \in online
    BY <1>2 DEF Choice, MustChoose
  <2> QED
    BY <1>2, <2>1 DEF Right
<1>3. ASSUME ~ (m = "Manual" /\ sel \in online), ~ MustChoose(online, m, desk)
      PROVE  Right(a, online, m, sel, desk)
  <2>1. a = ByPriority(order, online, desk)
    BY <1>3 DEF Choice
  <2>2. CASE online = {}
    <3>1. a = None
      BY <2>1, <2>2 DEF ByPriority
    <3> QED
      BY <1>3, <2>2, <3>1 DEF Right
  <2>3. CASE online # {}
    <3>1. a \in Best(online)
      BY <2>1, <2>3, ByPriorityRight
    <3>2. a \in online /\ \A s \in online : Priority(s) <= Priority(a)
      BY <3>1 DEF Best
    <3>3. a # None
      BY <3>2
    <3> QED
      BY <1>3, <2>3, <3>2, <3>3 DEF Right
  <2> QED
    BY <2>2, <2>3
<1> QED
  BY <1>1, <1>2, <1>3

LEMMA RightIsActive ==
  ActiveIsRight <=> Right(active, connected, mode, selected, desktop)
  BY DEF ActiveIsRight, Right

----------------------------------------------------------------------------
\* Steps that choose again: the registry's part of CoreTypeOK is enough

Registry ==
  /\ DOMAIN place \subseteq Source /\ place \in [DOMAIN place -> 1..MaxSources]
  /\ connected \subseteq DOMAIN place
  /\ mode \in {"Automatic", "Manual"}
  /\ {selected, desktop} \subseteq Source \cup {None}
  /\ sinks \subseteq Source /\ calls \subseteq Source
  /\ link \in [Source -> 0..MaxLinks] /\ Linked

\* The source that stays active has not reconnected.
LEMMA ResolveInv ==
  ASSUME Inv, Registry', ResolveActive,
         \A s \in connected : s \in connected' => link'[s] = link[s]
  PROVE  Inv'
<1> USE SourceAssumption
<1>1. None \notin connected' /\ \A s \in connected' : place'[s] \in Nat
  <2>1. MaxSources \in Nat
    BY CapacityAssumption
  <2> QED
    BY <2>1 DEF Registry
<1>2. Right(active', connected', mode', selected', desktop')
  BY <1>1, ChoiceRight DEF ResolveActive
<1>3. ActiveIsRight'
  BY <1>2 DEF ActiveIsRight, Right
<1>4. active' \in Source \cup {None}
  BY <1>2 DEF Right, Registry
<1>5. CASE active' = active
  <2>1. UNCHANGED <<video, audio>>
    BY <1>5 DEF ResolveActive
  <2>2. {video', audio'} \subseteq Frame \cup {NoFrame}
    BY <2>1 DEF Inv, CoreTypeOK
  <2>3. NoStaleFrame'
    <3> SUFFICES ASSUME NEW f \in {video, audio}, f # NoFrame
                 PROVE  f.src = active' /\ f.link = link'[active'] /\ active' \in connected'
      BY <2>1 DEF NoStaleFrame, NoFrame
    <3>1. f.src = active /\ f.link = link[active] /\ active \in connected
      BY DEF Inv, NoStaleFrame
    <3>2. active # None
      BY <3>1 DEF Inv, CoreTypeOK
    <3>3. active' \in connected'
      BY <1>2, <1>5, <3>2 DEF Right
    <3> QED
      BY <1>5, <3>1, <3>3
  <2> QED
    BY <1>3, <1>4, <2>2, <2>3 DEF Inv, CoreTypeOK, Registry, Frame, NoFrame, Linked
<1>6. CASE active' # active
  <2>1. video' = NoFrame /\ audio' = NoFrame
    BY <1>6 DEF ResolveActive
  <2>2. NoStaleFrame'
    BY <2>1 DEF NoStaleFrame, NoFrame
  <2> QED
    BY <1>3, <1>4, <2>1, <2>2 DEF Inv, CoreTypeOK, Registry, Frame, NoFrame, Linked
<1> QED
  BY <1>5, <1>6

LEMMA DesktopStep ==
  ASSUME Inv, NEW s \in {Desktop, None}, SetDesktopSource(s)
  PROVE  Inv'
<1>1. Registry'
  BY SourceAssumption DEF Inv, CoreTypeOK, Registry, SetDesktopSource, Source, Linked
<1> QED
  BY <1>1, ResolveInv DEF SetDesktopSource

LEMMA SelectionStep ==
  ASSUME Inv, NEW m \in {"Automatic", "Manual"}, NEW s \in Source \cup {None},
         SetSelection(m, s)
  PROVE  Inv'
<1>1. Registry'
  BY DEF Inv, CoreTypeOK, Registry, SetSelection, Linked
<1> QED
  BY <1>1, ResolveInv DEF SetSelection

\* A new source gets the next free index, which the limit leaves below it.
LEMMA UpsertStep ==
  ASSUME Inv, NEW s \in Source, NEW online \in BOOLEAN, UpsertSource(s, online)
  PROVE  Inv'
<1> DEFINE D == DOMAIN place
<1>1. IsFiniteSet(D) /\ Cardinality(D) \in Nat
  BY SourceAssumption, FS_Subset, FS_CardinalityType DEF Inv, CoreTypeOK
<1>2. MaxSources \in Nat /\ MaxLinks \in Nat
  BY CapacityAssumption
<1>3. DOMAIN place' = D \cup {s} /\ place' \in [D \cup {s} -> 1..MaxSources]
  <2>1. CASE s \in D
    BY <2>1 DEF UpsertSource, Inv, CoreTypeOK
  <2>2. CASE s \notin D
    <3>1. Cardinality(D) + 1 \in 1..MaxSources
      BY <1>1, <1>2, <2>2 DEF UpsertSource, CanRegister
    <3>2. place' = [t \in D \cup {s} |-> IF t = s THEN Cardinality(D) + 1 ELSE place[t]]
      BY <2>2 DEF UpsertSource
    <3>3. \A t \in D : place[t] \in 1..MaxSources
      BY DEF Inv, CoreTypeOK
    <3> QED
      BY <3>1, <3>2, <3>3
  <2> QED
    BY <2>1, <2>2
<1>4. connected' \subseteq DOMAIN place'
  BY <1>3 DEF UpsertSource, Inv, CoreTypeOK
<1>5. link' \in [Source -> 0..MaxLinks] /\ Linked'
  BY <1>2 DEF UpsertSource, Inv, CoreTypeOK, Linked
<1>6. Registry'
  BY <1>3, <1>4, <1>5 DEF Registry, UpsertSource, selectionVars, Inv, CoreTypeOK
<1>7. \A t \in connected : link'[t] = link[t]
  BY DEF UpsertSource, Inv, CoreTypeOK
<1>8. ResolveActive
  BY DEF UpsertSource
<1> QED
  BY <1>6, <1>7, <1>8, ResolveInv

----------------------------------------------------------------------------
\* Steps that leave the choice alone

Chosen == <<place, connected, selectionVars, active, link>>

\* A frame is accepted from the active source only, so from one that is online.
LEMMA MediaStep ==
  ASSUME Inv, NEW s \in Source, SubmitVideo(s) \/ SubmitAudio(s)
  PROVE  Inv'
<1> DEFINE g == [src |-> s, link |-> link[s]]
<1> USE SourceAssumption
<1>1. s = active /\ active \in connected /\ UNCHANGED Chosen
  BY DEF Inv, ActiveIsRight, SubmitVideo, SubmitAudio, Chosen, CoreTypeOK
<1>2. PICK x \in {video', audio'} : x = g /\ {video', audio'} \subseteq {video, audio, g}
  BY DEF SubmitVideo, SubmitAudio
<1>3. ActiveIsRight'
  BY <1>1 DEF Inv, ActiveIsRight, Chosen, selectionVars
<1>4. NoStaleFrame'
  BY <1>1, <1>2 DEF Inv, NoStaleFrame, NoFrame, Chosen
<1>5. g \in Frame
  <2>1. link[s] \in 1..MaxLinks
    BY <1>1, CapacityAssumption DEF Inv, CoreTypeOK, Linked
  <2> QED
    BY <2>1 DEF Frame
<1> QED
  BY <1>1, <1>2, <1>3, <1>4, <1>5 DEF Inv, CoreTypeOK, Linked, Chosen, selectionVars, SubmitVideo, SubmitAudio

LEMMA ControlStep ==
  ASSUME Inv, ControlNext
  PROVE  Inv'
<1>1. UNCHANGED <<Chosen, video, audio>>
  BY DEF ControlNext, RegisterSink, UnregisterSink, CallSink, RouteControl, Chosen
<1>2. sinks' \subseteq Source /\ calls' \subseteq Source
  BY DEF ControlNext, RegisterSink, UnregisterSink, CallSink, RouteControl, Inv, CoreTypeOK
<1>3. ActiveIsRight' /\ NoStaleFrame'
  BY <1>1 DEF Inv, ActiveIsRight, NoStaleFrame, Chosen, selectionVars
<1> QED
  BY <1>1, <1>2, <1>3 DEF Inv, CoreTypeOK, Linked, Chosen, selectionVars

----------------------------------------------------------------------------

LEMMA CoreInitInv == CoreInit => Inv
<1> SUFFICES ASSUME CoreInit PROVE Inv
  OBVIOUS
<1>1. CoreTypeOK
  BY CapacityAssumption DEF CoreInit, CoreTypeOK
<1>2. ActiveIsRight
  BY SourceAssumption, FS_EmptySet DEF CoreInit, ActiveIsRight, MustChoose
<1>3. NoStaleFrame
  BY DEF CoreInit, NoStaleFrame
<1>4. Linked
  BY DEF CoreInit, Linked
<1> QED
  BY <1>1, <1>2, <1>3, <1>4 DEF Inv

LEMMA CoreNextInv == Inv /\ [CoreNext]_coreVars => Inv'
<1> SUFFICES ASSUME Inv, [CoreNext]_coreVars PROVE Inv'
  OBVIOUS
<1>1. ASSUME NEW s \in {Desktop, None}, SetDesktopSource(s) PROVE Inv'
  BY <1>1, DesktopStep
<1>2. ASSUME NEW s \in Source, NEW online \in BOOLEAN, UpsertSource(s, online) PROVE Inv'
  BY <1>2, UpsertStep
<1>3. ASSUME NEW s \in Source, SetSelection("Manual", s) PROVE Inv'
  BY <1>3, SelectionStep
<1>4. ASSUME SetSelection("Automatic", None) PROVE Inv'
  BY <1>4, SelectionStep
<1>5. ASSUME MediaNext PROVE Inv'
  BY <1>5, MediaStep DEF MediaNext
<1>6. ASSUME ControlNext PROVE Inv'
  BY <1>6, ControlStep
<1>7. ASSUME UNCHANGED coreVars PROVE Inv'
  BY <1>7 DEF Inv, CoreTypeOK, ActiveIsRight, NoStaleFrame, Linked, coreVars
<1> QED
  BY <1>1, <1>2, <1>3, <1>4, <1>5, <1>6, <1>7 DEF CoreNext, RegistryNext

LEMMA CoreSpecInv == CoreSpec => []Inv
  BY CoreInitInv, CoreNextInv, PTL DEF CoreSpec

----------------------------------------------------------------------------
\* Theorems

\* The tables of SessionCore keep their types and their limit.
THEOREM CoreTypeCorrect == CoreSpec => []CoreTypeOK
<1>1. Inv => CoreTypeOK
  BY DEF Inv
<1> QED
  BY <1>1, CoreSpecInv, PTL

\* The active source is always the one the rules of selection name.
THEOREM ActiveAlwaysRight == CoreSpec => []ActiveIsRight
<1>1. Inv => ActiveIsRight
  BY DEF Inv
<1> QED
  BY <1>1, CoreSpecInv, PTL

\* No frame outlives the connection and the selection it was submitted under.
THEOREM FramesNeverStale == CoreSpec => []NoStaleFrame
<1>1. Inv => NoStaleFrame
  BY DEF Inv
<1> QED
  BY <1>1, CoreSpecInv, PTL

-----------------------------------------------------------------------------
\* MainMenu.  The service is one of the callers SessionCore is specified for:
\* every step of MainMenu is one call of SessionCore or none.  What is proved of
\* SessionCore therefore holds of the service.

LEMMA BootSteps == ASSUME Boot PROVE [CoreNext]_coreVars
<1>1. CASE \E s \in Synthetics : UpsertSource(s, TRUE)
  BY <1>1 DEF CoreNext, RegistryNext, Source
<1>2. CASE SetDesktopSource(Desktop)
  BY <1>2 DEF CoreNext, RegistryNext
<1>3. CASE UpsertSource(Desktop, TRUE)
  BY <1>3 DEF CoreNext, RegistryNext, Source
<1>4. CASE RegisterSink(Desktop)
  BY <1>4 DEF CoreNext, ControlNext, Source
<1> QED
  BY <1>1, <1>2, <1>3, <1>4 DEF Boot

LEMMA RenderSteps ==
  ASSUME Tick \/ RenderCompare \/ RenderSubmit
  PROVE  [CoreNext]_coreVars
<1>1. CASE Tick
  BY <1>1 DEF Tick, RenderSnapshot
<1>2. CASE RenderCompare
  BY <1>2 DEF RenderCompare
<1>3. CASE RenderSubmit
  <2>1. SubmitVideo(Desktop) \/ UNCHANGED coreVars
    BY <1>3 DEF RenderSubmit
  <2> QED
    BY <2>1 DEF CoreNext, MediaNext, Source
<1> QED
  BY <1>1, <1>2, <1>3

LEMMA WorkerSteps ==
  ASSUME CoreTypeOK, NEW w \in Worker, WorkerNext(w)
  PROVE  [CoreNext]_coreVars
<1>1. CASE Select(w)
  <2>1. CASE SetSelection("Automatic", None)
    BY <2>1 DEF CoreNext, RegistryNext
  <2>2. CASE \E s \in connected : SetSelection("Manual", s)
    BY <2>2 DEF CoreNext, RegistryNext, CoreTypeOK
  <2> QED
    BY <1>1, <2>1, <2>2 DEF Select
<1>2. CASE ToggleSynthetic(w)
  <2>1. PICK s \in Synthetics : UpsertSource(s, s \notin connected)
    BY <1>2 DEF ToggleSynthetic
  <2>2. (s \notin connected) \in BOOLEAN /\ s \in Source
    BY DEF Source
  <2> QED
    BY <2>1, <2>2 DEF CoreNext, RegistryNext
<1>3. CASE ReadActive(w) \/ SetSelected(w) \/ Show(w)
  BY <1>3 DEF ReadActive, SetSelected, Show, RenderSnapshot
<1> QED
  BY <1>1, <1>2, <1>3 DEF WorkerNext

LEMMA StepIsCall ==
  ASSUME CoreTypeOK, [Next]_vars
  PROVE  [CoreNext]_coreVars
<1>1. ASSUME NEW s \in Externals, PhoneChanges(s) PROVE [CoreNext]_coreVars
  BY <1>1 DEF PhoneChanges, CoreNext, RegistryNext, Source
<1>2. ASSUME NEW s \in Synthetics, SyntheticFrame(s) PROVE [CoreNext]_coreVars
  BY <1>2 DEF SyntheticFrame, CoreNext, MediaNext, Source
<1>3. CASE UNCHANGED vars
  BY <1>3 DEF vars
<1> QED
  BY <1>1, <1>2, <1>3, BootSteps, RenderSteps, WorkerSteps DEF Next

LEMMA MenuInv == Spec => []Inv
<1>1. Init => Inv
  BY CoreInitInv DEF Init
<1>2. Inv /\ [Next]_vars => Inv'
  BY StepIsCall, CoreNextInv DEF Inv
<1> QED
  BY <1>1, <1>2, PTL DEF Spec

\* The renderer, the workers of the web server and the inputs together only
\* ever do what a caller of SessionCore may do (desktop.cpp 424-464, main.cpp
\* 174-178).
THEOREM MenuImplementsCore == Spec => CoreSpec
<1>1. Init => CoreInit
  BY DEF Init
<1>2. Inv /\ [Next]_vars => [CoreNext]_coreVars
  BY StepIsCall DEF Inv
<1> QED
  BY <1>1, <1>2, MenuInv, PTL DEF Spec, CoreSpec

\* Whatever the three parties do between each other's calls, no frame
\* outlives the connection and the selection it belongs to.
THEOREM MenuFramesNeverStale == Spec => []NoStaleFrame
  BY MenuImplementsCore, FramesNeverStale, PTL
=============================================================================
