-------------------------- MODULE CoverPublication --------------------------
(***************************************************************************)
(* How the cover of the current track reaches the web page.  Two inputs    *)
(* publish into SessionCore: CatPlayMediaClient checks that it is the      *)
(* active source and then calls set_artwork and set_media_info,            *)
(* CarLifeInputAdapter calls them without a check.  The page is told the   *)
(* revision by the media info and fetches the bytes through                *)
(* stable_artwork, which copies them from SessionCore's buffer after the   *)
(* lock is released and then looks at the revision again.                  *)
(*                                                                         *)
(* The buffer is two halves, so that a copy can meet a write in progress.  *)
(* Nobody clears a cover: both callers of set_artwork have bytes to store. *)
(* Lyrics go the same way through set_lyrics and stable_lyrics.            *)
(***************************************************************************)
EXTENDS Naturals

CONSTANTS
  CatPlay, CarLife,    \* the two inputs
  Cover,               \* covers of tracks
  NoCover,             \* an empty half of the buffer; a track without one
  None,                \* nothing active, nobody
  Phones,              \* bound: sets of inputs that have a phone together
  MaxRevision,         \* bound: revisions an input numbers
  Attempts             \* how often stable_artwork tries

Input == {CatPlay, CarLife}

ASSUME PublicationAssumption ==
  /\ CatPlay # CarLife /\ None \notin Input /\ NoCover \notin Cover
  /\ Attempts \in Nat \ {0} /\ MaxRevision \in Nat
  /\ Phones \subseteq SUBSET Input

VARIABLES
  running,             \* inputs that have a phone
  active,              \* SessionCore::active_
  writer,              \* per input: what it publishes and how far it is
  owner,               \* the input that holds mutex_ inside set_artwork
  revision,            \* artwork_rev_
  half,                \* artwork_, in two halves
  media,               \* media_: whose, and which cover it announces
  reader,              \* stable_artwork
  reply                \* what the page got last

vars == <<running, active, writer, owner, revision, half, media, reader, reply>>

core == <<owner, revision, half>>

Idle == [at |-> "idle", rev |-> 0, cover |-> NoCover]

Init ==
  /\ running \in Phones
  /\ active = None
  /\ writer = [i \in Input |-> Idle]
  /\ owner = None /\ revision = 0 /\ half = <<NoCover, NoCover>>
  /\ media = [from |-> None, rev |-> 0, cover |-> NoCover]
  /\ reader = [at |-> "idle", rev |-> 0, copy |-> <<NoCover, NoCover>>, tries |-> 0]
  /\ reply = [rev |-> 0, copy |-> <<NoCover, NoCover>>]

Locked == owner # None

\* The user or a disconnect changes the active source.
Switch ==
  /\ active' \in (running \cup {None}) \ {active}
  /\ ~ Locked
  /\ UNCHANGED <<running, writer, core, media, reader, reply>>

----------------------------------------------------------------------------
\* The inputs

\* A track with its cover.  CatPlay takes the phone's revisions and asks
\* publishable(); CarLife counts its own and publishes at once, and skips
\* set_artwork when there is no cover.
FirstCall(i, c) ==
  IF i = CatPlay THEN "gate" ELSE IF c = NoCover THEN "announce" ELSE "store"

\* Bug: the revision wraps.
NewTrackWraps(i) ==
  /\ writer[i].at = "idle"
  /\ \E c \in Cover :
       writer' = [writer EXCEPT ![i] = [at |-> FirstCall(i, c), cover |-> c, rev |-> (@.rev % 2) + 1]]
  /\ UNCHANGED <<running, active, core, media, reader, reply>>

NewTrack(i) ==
  /\ writer[i].at = "idle"
  /\ writer[i].rev < MaxRevision
  /\ \E c \in IF i = CatPlay THEN Cover ELSE Cover \cup {NoCover} :
       writer' = [writer EXCEPT ![i] =
                    [at |-> FirstCall(i, c), cover |-> c,
                     rev |-> IF FirstCall(i, c) = "announce" THEN @.rev ELSE @.rev + 1]]
  /\ UNCHANGED <<running, active, core, media, reader, reply>>

\* The phone starts a new session and numbers from one again.
NewSession ==
  /\ CatPlay \in running /\ writer[CatPlay].at = "idle"
  /\ writer' = [writer EXCEPT ![CatPlay] = Idle]
  /\ UNCHANGED <<running, active, core, media, reader, reply>>

MoveTo(i, at) == writer' = [writer EXCEPT ![i].at = at]

\* publishable(), a call of snapshot()
Gate(i) ==
  /\ writer[i].at = "gate" /\ ~ Locked
  /\ MoveTo(i, IF active = i THEN "store" ELSE "idle")
  /\ UNCHANGED <<running, active, core, media, reader, reply>>

\* set_artwork: the same revision is taken to be the same cover.  CarLife then
\* announces no cover.
Refuses(i) == writer[i].rev = revision

\* set_artwork also describes the cover in media_, whoever's it is.
Describe(i) ==
  media' = [media EXCEPT !.rev = writer[i].rev, !.cover = writer[i].cover]

StoreBegin(i) ==
  /\ writer[i].at = "store" /\ ~ Locked
  /\ \/ /\ Refuses(i)
        /\ writer' = [writer EXCEPT ![i].at = "announce",
                                    ![i].cover = IF i = CatPlay THEN @ ELSE NoCover]
        /\ UNCHANGED <<core, media>>
     \/ /\ ~ Refuses(i)
        /\ owner' = i /\ half' = [half EXCEPT ![1] = writer[i].cover]
        /\ MoveTo(i, "copy")
        /\ UNCHANGED <<revision, media>>
  /\ UNCHANGED <<running, active, reader, reply>>

\* Bug: the revision stays behind.
StoreEndKeepsRevision(i) ==
  /\ writer[i].at = "copy"
  /\ half' = [half EXCEPT ![2] = writer[i].cover]
  /\ owner' = None
  /\ Describe(i)
  /\ MoveTo(i, "announce")
  /\ UNCHANGED <<running, active, revision, reader, reply>>

StoreEnd(i) ==
  /\ writer[i].at = "copy"
  /\ half' = [half EXCEPT ![2] = writer[i].cover]
  /\ revision' = writer[i].rev /\ owner' = None
  /\ Describe(i)
  /\ MoveTo(i, "announce")
  /\ UNCHANGED <<running, active, reader, reply>>

\* set_media_info
Announce(i) ==
  /\ writer[i].at = "announce" /\ ~ Locked
  /\ media' = [from |-> i, rev |-> writer[i].rev, cover |-> writer[i].cover]
  /\ MoveTo(i, "idle")
  /\ UNCHANGED <<running, active, core, reader, reply>>

----------------------------------------------------------------------------
\* stable_artwork

Reader(at) == reader' = [reader EXCEPT !.at = at]

\* artwork(): revision and pointer, under the lock
Open ==
  /\ reader.at \in {"idle", "again"} /\ ~ Locked
  /\ revision # 0
  /\ reader' = [at |-> "first", rev |-> revision, copy |-> <<NoCover, NoCover>>,
                tries |-> IF reader.at = "idle" THEN 1 ELSE reader.tries + 1]
  /\ UNCHANGED <<running, active, writer, core, media, reply>>

\* out.assign, without the lock
Copy ==
  /\ \/ /\ reader.at = "first"
        /\ reader' = [reader EXCEPT !.at = "second", !.copy[1] = half[1]]
     \/ /\ reader.at = "second"
        /\ reader' = [reader EXCEPT !.at = "check", !.copy[2] = half[2]]
  /\ UNCHANGED <<running, active, writer, core, media, reply>>

\* Bug: the revision is not looked at again.
AcceptsAnything == TRUE

\* The revision is the one that was read.
Accepts == revision = reader.rev

Check ==
  /\ reader.at = "check" /\ ~ Locked
  /\ IF Accepts
     THEN /\ reply' = [rev |-> reader.rev, copy |-> reader.copy]
          /\ Reader("idle")
     ELSE /\ UNCHANGED reply
          /\ Reader(IF reader.tries < Attempts THEN "again" ELSE "idle")
  /\ UNCHANGED <<running, active, writer, core, media>>

----------------------------------------------------------------------------

InputNext(i) ==
  \/ NewTrack(i) \/ Gate(i) \/ StoreBegin(i) \/ StoreEnd(i) \/ Announce(i)

Next ==
  \/ Switch \/ NewSession
  \/ \E i \in running : InputNext(i)
  \/ Open \/ Copy \/ Check

Spec == Init /\ [][Next]_vars

\* A call that was started runs to its end; mutex_ is held for a copy only, so
\* whoever waits for it gets it.
Fairness ==
  /\ \A i \in Input : WF_vars(StoreEnd(i))
  /\ WF_vars(Copy) /\ SF_vars(Check) /\ SF_vars(reader.at = "again" /\ Open)

FairSpec == Spec /\ Fairness

----------------------------------------------------------------------------
\* Properties

\* The page never gets half of one cover and half of another (main.cpp 474-475:
\* copy once, adopt it only if the revision has not changed).
CoverWhole == reply.copy[1] = reply.copy[2]

Alone == running = {CarLife}

\* With one input, whose revisions only grow, the page gets no such half.  And
\* what the media info announces is what the buffer holds, between any two
\* calls of the input that publishes both (carlife_input.cpp 957-982).
SoleCoverWhole ==
  Alone =>
    /\ CoverWhole
    /\ media.cover # NoCover /\ ~ Locked =>
         revision = media.rev /\ half = <<media.cover, media.cover>>

\* Covers come in the order of the tracks: what the page gets is not older
\* than what an earlier fetch got (main.cpp 476-486).
CoversAdvance == [][Alone => reply'.rev >= reply.rev]_vars

\* An input that is not selected never overwrites what another one published
\* (catplay_media_client.cpp 153-155).
UnselectedStaysSilent ==
  [][media'.from = CatPlay /\ media' # media => active = CatPlay]_vars
=============================================================================
