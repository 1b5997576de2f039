---------------------------- MODULE SessionTable ----------------------------
(***************************************************************************)
(* The table of phone sessions in SessionCore's link state: which sessions *)
(* are listed, which of them carry the active flag, and the one named as   *)
(* active.  Three parties write it: the web page through /api/sessions,    *)
(* the CatPlay client when the engine sends a MultiSession record, and the *)
(* CarLife adapter, whose own link state never lists a session.  Each call *)
(* of SessionCore is atomic; a MultiSession record is several calls.       *)
(*                                                                         *)
(* Slots are left out: the order of the table shows nowhere.               *)
(***************************************************************************)
EXTENDS Sequences, FiniteSets, Naturals

CONSTANTS
  Id,                  \* names of sessions
  None,                \* no session
  Record,              \* MultiSession records: [ids, active]
  MaxSessions          \* kMaxSessionList

VARIABLES
  link,                \* SessionCore::link_
  mirror,              \* CatPlayMediaClient::link_
  current,             \* CatPlay is the active source
  job,                 \* the MultiSession record being handled
  left                 \* for the properties: active names a record left over

vars == <<link, mirror, current, job, left>>

Empty == [listed |-> {}, flagged |-> {}, active |-> None]
NoJob == [todo |-> <<>>, active |-> None, at |-> "idle"]

Init == link = Empty /\ mirror = Empty /\ current \in BOOLEAN /\ job = NoJob /\ left = {}

----------------------------------------------------------------------------
\* SessionCore

\* Bug: relisting a session never clears the active marker.
RelistedKeepsActive(t, id, flag) ==
  [t EXCEPT !.flagged = IF flag THEN {id} ELSE @ \ {id}, !.active = IF flag THEN id ELSE @]

Relisted(t, id, flag) ==
  IF flag THEN [t EXCEPT !.flagged = {id}, !.active = id]
  ELSE [t EXCEPT !.flagged = @ \ {id}, !.active = IF @ = id THEN None ELSE @]

\* A name that is new only adds its own flag.
Appended(t, id, flag) ==
  [listed  |-> t.listed \cup {id},
   flagged |-> IF flag THEN t.flagged \cup {id} ELSE t.flagged,
   active  |-> IF flag THEN id ELSE t.active]

UpsertSession(t, id, flag) ==
  IF id \in t.listed THEN Relisted(t, id, flag)
  ELSE IF Cardinality(t.listed) < MaxSessions THEN Appended(t, id, flag)
  ELSE t

\* None: every phone is gone.  The session that is active already is left
\* alone, and with it whatever other flag there is.
SetActiveSession(t, id) ==
  IF id = None
  THEN IF t.active = None THEN t ELSE [t EXCEPT !.flagged = {}, !.active = None]
  ELSE IF id \notin t.listed \/ (id = t.active /\ id \in t.flagged) THEN t
  ELSE [t EXCEPT !.flagged = {id}, !.active = id]

----------------------------------------------------------------------------
\* The writers

WebUpsert ==
  /\ \E id \in Id, flag \in BOOLEAN : link' = UpsertSession(link, id, flag)
  /\ UNCHANGED <<mirror, current, job, left>>

WebSwitch ==
  /\ \E id \in Id : link' = SetActiveSession(link, id)
  /\ UNCHANGED <<mirror, current, job, left>>

\* CarLife publishes its own link state: activation, encryption, a transfer.
CarLifePublishes ==
  /\ link' = Empty
  /\ UNCHANGED <<mirror, current, job, left>>

\* CatPlay publishes its own for an activation or an encryption record.
CatPlayPublishes ==
  /\ job.at = "idle"
  /\ current
  /\ link' = mirror
  /\ UNCHANGED <<mirror, current, job, left>>

Switch ==
  /\ current' = ~ current
  /\ UNCHANGED <<link, mirror, job, left>>

\* A new session, or a closed transport: the mirrors start empty.
ResetMirrors ==
  /\ job.at = "idle"
  /\ mirror' = Empty
  /\ UNCHANGED <<link, current, job, left>>

Kept(ids) == SubSeq(ids, 1, IF Len(ids) < MaxSessions THEN Len(ids) ELSE MaxSessions)

\* The table of the mirror is rewritten, the active name only when the record
\* has one.
Mirrored(r) ==
  LET kept == {Kept(r.ids)[k] : k \in 1..Len(Kept(r.ids))} IN
  [listed  |-> kept,
   flagged |-> kept \cap {r.active},
   active  |-> IF r.active \in kept THEN r.active ELSE mirror.active]

\* For the properties: the name the mirror goes on calling active after a
\* record that names none it lists.
LeftBy(r) == left \cup ({Mirrored(r).active} \ (Mirrored(r).flagged \cup {None}))

\* Whether to publish is asked once.
MultiSession ==
  /\ job.at = "idle"
  /\ \E r \in Record :
       /\ mirror' = Mirrored(r)
       /\ job' = IF current
                 THEN [todo |-> r.ids, active |-> r.active, at |-> "upsert"]
                 ELSE NoJob
       /\ left' = LeftBy(r)
  /\ UNCHANGED <<link, current>>

UpsertNext ==
  /\ job.at = "upsert"
  /\ IF job.todo = <<>>
     THEN job' = [job EXCEPT !.at = "activate"] /\ UNCHANGED link
     ELSE /\ link' = UpsertSession(link, Head(job.todo), Head(job.todo) = job.active)
          /\ job' = [job EXCEPT !.todo = Tail(@)]
  /\ UNCHANGED <<mirror, current, left>>

Activate ==
  /\ job.at = "activate"
  /\ link' = IF job.active \in mirror.flagged THEN SetActiveSession(link, job.active) ELSE link
  /\ job' = [job EXCEPT !.at = "publish"]
  /\ UNCHANGED <<mirror, current, left>>

PublishTable ==
  /\ job.at = "publish"
  /\ link' = mirror /\ job' = NoJob
  /\ UNCHANGED <<mirror, current, left>>

Next ==
  \/ WebUpsert \/ WebSwitch \/ Switch
  \/ CarLifePublishes \/ CatPlayPublishes
  \/ ResetMirrors \/ MultiSession \/ UpsertNext \/ Activate \/ PublishTable

Spec == Init /\ [][Next]_vars

----------------------------------------------------------------------------
\* Properties

\* At most one session is active at any time (session_core.cpp 181).
OneActiveSession == Cardinality(link.flagged) <= 1

\* The active session carries the flag (session_core.cpp 220: no session is
\* active without existing), or a record that named none it lists has left its
\* name over from the one before (catplay_media_client.cpp 459-470).
FrontListed == link.active # None => link.active \in link.flagged \cup left

\* Only listed sessions carry a flag.
FlaggedListed == link.flagged \subseteq link.listed

\* The table never grows over its slots, whoever writes it.
TableBounded == Cardinality(link.listed) <= MaxSessions

\* All three, whatever calls of the page, the CarLife adapter and a record
\* that is half way through come between each other (session_core.cpp
\* 179-221); the table may still carry two flags.
TableSound == FrontListed /\ FlaggedListed /\ TableBounded
=============================================================================
