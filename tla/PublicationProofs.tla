------------------------- MODULE PublicationProofs -------------------------
(***************************************************************************)
(* Proofs about Publication, for any number of covers, sessions and        *)
(* revisions: the covers of one input alone, and the table of sessions     *)
(* whoever writes it.                                                      *)
(***************************************************************************)
EXTENDS Publication, FiniteSets, FiniteSetTheorems, TLAPS

-----------------------------------------------------------------------------
\* The covers of CarLife alone

Half == Cover \cup {NoCover}
Pair == Half \X Half

CoverTypes ==
  /\ writer \in [Input -> [at : {"idle", "gate", "store", "copy", "announce"}, rev : Nat, cover : Half]]
  /\ revision \in Nat /\ half \in Pair
  /\ media.rev \in Nat
  /\ reader \in [at : {"idle", "first", "second", "check", "again"}, rev : Nat, copy : Pair, tries : Nat]
  /\ reply \in [rev : Nat, copy : Pair]

\* The buffer is one step behind the input that is about to write it, and it is
\* whole but while it is written.
WriterInStep ==
  LET w == writer[CarLife] IN
  /\ writer[CatPlay].at = "idle" /\ w.at # "gate"
  /\ owner = IF w.at = "copy" THEN CarLife ELSE None
  /\ w.rev = IF w.at \in {"store", "copy"} THEN revision + 1 ELSE revision
  /\ w.at \in {"store", "copy"} => w.cover # NoCover
  /\ w.at = "copy" => half[1] = w.cover
  /\ w.at # "copy" => half[1] = half[2]
  /\ w.at = "announce" /\ w.cover # NoCover => half[1] = w.cover

\* What is announced is stored.
Announced ==
  owner = None /\ media.cover # NoCover => media.rev = revision /\ media.cover = half[1]

\* A copy whose revision is still that of the buffer is a copy of the buffer.
ReaderInStep ==
  /\ owner = None /\ reader.rev = revision =>
       /\ reader.at \in {"second", "check"} => reader.copy[1] = half[1]
       /\ reader.at = "check" => reader.copy[2] = half[2]
  /\ reply.copy[1] = reply.copy[2]
  /\ reader.at # "idle" => reply.rev <= reader.rev
  /\ reply.rev <= revision /\ reader.rev <= revision

CoverInv == CoverTypes /\ (Alone => WriterInStep /\ Announced /\ ReaderInStep)

LEMMA TwoInputs == CarLife \in Input /\ CatPlay \in Input /\ CatPlay # CarLife /\ None # CarLife /\ None # CatPlay /\ NoCover \notin Cover
  BY PublicationAssumption DEF Input

LEMMA CoverInit == Init => CoverInv
<1> SUFFICES ASSUME Init PROVE CoverInv
  OBVIOUS
<1> USE TwoInputs
<1>1. CoverTypes
  BY DEF Init, CoverTypes, Idle, Half, Pair
<1>2. WriterInStep /\ Announced /\ ReaderInStep
  BY <1>1 DEF Init, Idle, WriterInStep, Announced, ReaderInStep
<1> QED
  BY <1>1, <1>2 DEF CoverInv

LEMMA CallsKeepCovers ==
  ASSUME CoverInv, NEW i \in running, InputNext(i), running \subseteq Input
  PROVE  CoverInv'
<1> USE TwoInputs
<1>0. i \in Input /\ (Alone => i = CarLife) /\ (Alone' <=> Alone)
  BY DEF Alone, InputNext, NewTrack, Gate, StoreBegin, StoreEnd, Announce
<1>1. writer[i] \in [at : {"idle", "gate", "store", "copy", "announce"}, rev : Nat, cover : Half]
  BY <1>0 DEF CoverInv, CoverTypes
<1>2. CASE NewTrack(i)
  <2>1. PICK c \in Half :
          writer' = [writer EXCEPT ![i] =
            [at |-> FirstCall(i, c), cover |-> c,
             rev |-> IF FirstCall(i, c) = "announce" THEN @.rev ELSE @.rev + 1]]
    BY <1>2 DEF NewTrack, Half
  <2>2. FirstCall(i, c) \in {"gate", "store", "announce"}
    BY DEF FirstCall
  <2>3. CoverTypes'
    BY <1>0, <1>1, <1>2, <2>1, <2>2 DEF NewTrack, CoverInv, CoverTypes, core
  <2>4. ASSUME Alone PROVE WriterInStep' /\ Announced' /\ ReaderInStep'
    <3>1. writer' = [writer EXCEPT ![CarLife] =
            [at |-> IF c = NoCover THEN "announce" ELSE "store", cover |-> c,
             rev |-> IF c = NoCover THEN writer[CarLife].rev ELSE writer[CarLife].rev + 1]]
      BY <1>0, <2>1, <2>4 DEF FirstCall
    <3>2. WriterInStep'
      BY <1>0, <1>1, <1>2, <2>4, <3>1 DEF NewTrack, CoverInv, CoverTypes, core, WriterInStep
    <3>3. Announced' /\ ReaderInStep'
      BY <1>2, <2>4 DEF NewTrack, CoverInv, core, Announced, ReaderInStep
    <3> QED
      BY <3>2, <3>3
  <2> QED
    BY <1>0, <2>3, <2>4 DEF CoverInv
<1>3. CASE Gate(i)
  <2>1. CoverTypes'
    BY <1>0, <1>1, <1>3 DEF Gate, MoveTo, CoverInv, CoverTypes, core
  <2>2. ~Alone
    BY <1>0, <1>3 DEF Gate, CoverInv, WriterInStep
  <2> QED
    BY <1>0, <2>1, <2>2 DEF CoverInv
<1>4. CASE StoreBegin(i)
  <2>1. CoverTypes'
    BY <1>0, <1>1, <1>4 DEF StoreBegin, MoveTo, CoverInv, CoverTypes, core, Half, Pair
  <2>2. ASSUME Alone PROVE WriterInStep' /\ Announced' /\ ReaderInStep'
    <3>1. ~Refuses(CarLife) /\ i = CarLife
      BY <1>0, <1>4, <2>2 DEF StoreBegin, Refuses, CoverInv, CoverTypes, WriterInStep
    <3>2. /\ writer[CarLife].at = "store"
          /\ writer' = [writer EXCEPT ![CarLife].at = "copy"] /\ owner' = CarLife
          /\ half' = [half EXCEPT ![1] = writer[CarLife].cover]
          /\ UNCHANGED <<running, active, reader, reply, revision, media>>
      BY <1>4, <3>1 DEF StoreBegin, MoveTo
    <3>3. half'[1] = writer[CarLife].cover
      BY <3>2 DEF CoverInv, CoverTypes, Pair
    <3>4. WriterInStep'
      BY <1>0, <1>1, <2>2, <3>2, <3>3 DEF CoverInv, CoverTypes, WriterInStep
    <3>5. Announced' /\ ReaderInStep'
      BY <2>2, <3>2 DEF CoverInv, Announced, ReaderInStep
    <3> QED
      BY <3>4, <3>5
  <2> QED
    BY <1>0, <2>1, <2>2 DEF CoverInv
<1>5. CASE StoreEnd(i)
  <2>1. media'.rev = writer[i].rev /\ media'.cover = writer[i].cover
    <3> QED BY <1>5 DEF StoreEnd, Describe
  <2>2. CoverTypes'
    BY <1>0, <1>1, <1>5, <2>1 DEF StoreEnd, MoveTo, CoverInv, CoverTypes, Half, Pair
  <2>3. ASSUME Alone PROVE WriterInStep' /\ Announced' /\ ReaderInStep'
    <3>1. i = CarLife /\ writer[CarLife].at = "copy" /\ half[1] = writer[CarLife].cover
      BY <1>0, <1>5, <2>3 DEF StoreEnd, CoverInv, WriterInStep
    <3>2. /\ writer' = [writer EXCEPT ![CarLife].at = "announce"] /\ owner' = None
          /\ half' = [half EXCEPT ![2] = writer[CarLife].cover]
          /\ revision' = writer[CarLife].rev /\ revision' = revision + 1
          /\ UNCHANGED <<running, active, reader, reply>>
      BY <1>5, <2>3, <3>1 DEF StoreEnd, MoveTo, CoverInv, WriterInStep
    <3>3. half'[1] = writer[CarLife].cover /\ half'[2] = writer[CarLife].cover
      BY <3>1, <3>2 DEF CoverInv, CoverTypes, Pair
    <3>4. WriterInStep'
      BY <1>0, <1>1, <2>3, <3>1, <3>2, <3>3 DEF CoverInv, CoverTypes, WriterInStep
    <3>5. Announced'
      BY <2>1, <3>1, <3>2, <3>3 DEF Announced
    <3>6. ReaderInStep'
      BY <2>3, <3>2 DEF CoverInv, CoverTypes, ReaderInStep
    <3> QED
      BY <3>4, <3>5, <3>6
  <2> QED
    BY <1>0, <2>2, <2>3 DEF CoverInv
<1>6. CASE Announce(i)
  <2>1. CoverTypes'
    BY <1>0, <1>1, <1>6 DEF Announce, MoveTo, CoverInv, CoverTypes, core
  <2>2. ASSUME Alone PROVE WriterInStep' /\ Announced' /\ ReaderInStep'
    <3>1. i = CarLife /\ writer[CarLife].at = "announce"
      BY <1>0, <1>6, <2>2 DEF Announce
    <3>2. WriterInStep'
      BY <1>0, <1>1, <1>6, <2>2, <3>1 DEF Announce, MoveTo, CoverInv, CoverTypes, core, WriterInStep
    <3>3. Announced'
      BY <1>0, <1>6, <2>2, <3>1 DEF Announce, CoverInv, core, WriterInStep, Announced
    <3>4. ReaderInStep'
      BY <1>6, <2>2 DEF Announce, CoverInv, core, ReaderInStep
    <3> QED
      BY <3>2, <3>3, <3>4
  <2> QED
    BY <1>0, <2>1, <2>2 DEF CoverInv
<1> QED
  BY <1>2, <1>3, <1>4, <1>5, <1>6 DEF InputNext

\* Whoever reads the covers or changes the selection writes none.
LEMMA OthersKeepCovers ==
  ASSUME CoverInv, Switch \/ NewSession \/ Open \/ Copy \/ Check
  PROVE  CoverInv'
<1> USE TwoInputs
<1>0. Alone' <=> Alone
  BY DEF Alone, Switch, NewSession, Open, Copy, Check
<1>1. CASE Switch
  BY <1>1 DEF Switch, Alone, CoverInv, CoverTypes, core, WriterInStep, Announced, ReaderInStep
<1>2. CASE NewSession
  <2>1. CoverTypes'
    BY <1>2 DEF NewSession, Idle, CoverInv, CoverTypes, core, Half
  <2>2. ~Alone
    BY <1>2 DEF NewSession, Alone
  <2> QED
    BY <1>0, <2>1, <2>2 DEF CoverInv
<1>3. CASE Open
  <2>1. CoverTypes'
    BY <1>3 DEF Open, CoverInv, CoverTypes, core, Half, Pair
  <2>2. reader'.at = "first" /\ reader'.rev = revision /\ UNCHANGED <<running, active, writer, core, media, reply>>
    BY <1>3 DEF Open
  <2> QED
    BY <1>0, <2>1, <2>2 DEF CoverInv, CoverTypes, core, WriterInStep, Announced, ReaderInStep
<1>4. CASE Copy
  <2>0. reader.copy \in Pair /\ half[1] \in Half /\ half[2] \in Half
    BY DEF CoverInv, CoverTypes, Pair
  <2> DEFINE First == [reader.copy EXCEPT ![1] = half[1]]
             Second == [reader.copy EXCEPT ![2] = half[2]]
  <2>1. First \in Pair /\ First[1] = half[1]
    BY <2>0 DEF Pair
  <2>2. Second \in Pair /\ Second[1] = reader.copy[1] /\ Second[2] = half[2]
    BY <2>0 DEF Pair
  <2>3. UNCHANGED <<running, active, writer, owner, revision, half, media, reply>>
    BY <1>4 DEF Copy, core
  <2>4. ASSUME reader.at = "first"
        PROVE  reader' = [reader EXCEPT !.at = "second", !.copy = First]
    BY <1>4, <2>4 DEF Copy
  <2>5. ASSUME reader.at = "second"
        PROVE  reader' = [reader EXCEPT !.at = "check", !.copy = Second]
    BY <1>4, <2>5 DEF Copy
  <2> HIDE DEF First, Second
  <2>6. reader.at \in {"first", "second"}
    BY <1>4 DEF Copy
  <2>7. CoverTypes'
    BY <2>1, <2>2, <2>3, <2>4, <2>5, <2>6 DEF CoverInv, CoverTypes
  <2>8. ASSUME Alone PROVE ReaderInStep'
    BY <2>1, <2>2, <2>3, <2>4, <2>5, <2>6, <2>8 DEF CoverInv, CoverTypes, ReaderInStep
  <2>9. ASSUME Alone PROVE WriterInStep' /\ Announced'
    BY <2>3, <2>9 DEF CoverInv, WriterInStep, Announced
  <2> QED
    BY <1>0, <2>7, <2>8, <2>9 DEF CoverInv
<1>5. CASE Check
  <2>1. CoverTypes'
    BY <1>5 DEF Check, Reader, CoverInv, CoverTypes, core
  <2>2. UNCHANGED <<running, active, writer, owner, revision, half, media>> /\ owner = None
    BY <1>5 DEF Check, core, Locked
  <2>3. ASSUME Alone PROVE ReaderInStep'
    <3>1. CASE Accepts
      BY <1>5, <2>2, <2>3, <3>1 DEF Check, Reader, Accepts, CoverInv, CoverTypes, WriterInStep, ReaderInStep
    <3>2. CASE ~Accepts
      BY <1>5, <2>2, <2>3, <3>2 DEF Check, Reader, CoverInv, CoverTypes, ReaderInStep
    <3> QED
      BY <3>1, <3>2
  <2>4. ASSUME Alone PROVE WriterInStep' /\ Announced'
    BY <2>2, <2>4 DEF CoverInv, WriterInStep, Announced
  <2> QED
    BY <1>0, <2>1, <2>3, <2>4 DEF CoverInv
<1> QED
  BY <1>1, <1>2, <1>3, <1>4, <1>5

LEMMA CoverNextInv == CoverInv /\ running \subseteq Input /\ [Next]_vars => (CoverInv /\ running \subseteq Input)'
<1> SUFFICES ASSUME CoverInv, running \subseteq Input, [Next]_vars
             PROVE  (CoverInv /\ running \subseteq Input)'
  OBVIOUS
<1>1. CASE UNCHANGED vars
  BY <1>1 DEF vars, core, Alone, CoverInv, CoverTypes, WriterInStep, Announced, ReaderInStep
<1>2. ASSUME NEW i \in running, InputNext(i) PROVE CoverInv' /\ running' = running
  BY <1>2, CallsKeepCovers DEF InputNext, NewTrack, Gate, StoreBegin, StoreEnd, Announce
<1>3. ASSUME Switch \/ NewSession \/ Open \/ Copy \/ Check PROVE CoverInv' /\ running' = running
  BY <1>3, OthersKeepCovers DEF Switch, NewSession, Open, Copy, Check
<1> QED
  BY <1>1, <1>2, <1>3 DEF Next

LEMMA CoverInvHolds == AllSpec => [](CoverInv /\ running \subseteq Input)
<1>1. AllInit => CoverInv /\ running \subseteq Input
  BY CoverInit, PublicationAssumption DEF AllInit, Init
<1>2. [AllNext]_allVars => [Next]_vars
  BY DEF AllNext, CoverNext, TableNext, allVars, vars, core
<1> QED
  BY <1>1, <1>2, CoverNextInv, PTL DEF AllSpec

-----------------------------------------------------------------------------
\* Theorems about the covers

\* With CarLife alone, which numbers its covers upwards, the page never gets
\* half of one cover and half of another, and what the media info announces is
\* in the buffer, for any number of tracks and attempts.
THEOREM SoleCoverAlwaysWhole == AllSpec => []SoleCoverWhole
<1>1. CoverInv => SoleCoverWhole
  <2> SUFFICES ASSUME CoverInv, Alone PROVE SoleCoverWhole
    BY DEF SoleCoverWhole
  <2>1. CoverWhole
    BY DEF CoverInv, ReaderInStep, CoverWhole
  <2>2. ASSUME media.cover # NoCover, ~Locked
        PROVE  revision = media.rev /\ half = <<media.cover, media.cover>>
    <3>1. half[1] = media.cover /\ half[2] = media.cover /\ revision = media.rev
      BY <2>2, TwoInputs DEF CoverInv, Announced, WriterInStep, Locked
    <3>2. half = <<half[1], half[2]>>
      BY DEF CoverInv, CoverTypes, Pair
    <3> QED
      BY <3>1, <3>2
  <2> QED
    BY <2>1, <2>2 DEF SoleCoverWhole
<1> QED
  BY <1>1, CoverInvHolds, PTL

\* And the page never gets an older cover after a newer one.
THEOREM CoversAlwaysAdvance == AllSpec => CoversAdvance
<1>1. CoverInv /\ [Next]_vars => [Alone => reply'.rev >= reply.rev]_vars
  <2> SUFFICES ASSUME CoverInv, Next, Alone PROVE reply'.rev >= reply.rev
    OBVIOUS
  <2>1. CASE Check
    BY <2>1 DEF Check, CoverInv, CoverTypes, ReaderInStep
  <2>2. CASE ~Check
    <3>1. reply' = reply
      BY <2>2 DEF Next, Switch, NewSession, InputNext, NewTrack, Gate, StoreBegin, StoreEnd, Announce, Open, Copy
    <3> QED
      BY <3>1 DEF CoverInv, CoverTypes
  <2> QED
    BY <2>1, <2>2
<1>2. [AllNext]_allVars => [Next]_vars
  BY DEF AllNext, CoverNext, TableNext, allVars, vars, core
<1> QED
  BY <1>1, <1>2, CoverInvHolds, PTL DEF AllSpec, CoversAdvance

-----------------------------------------------------------------------------
\* The table of sessions

\* The names in `over' may be active without a flag.
Sound(t, over) ==
  /\ t = [listed |-> t.listed, flagged |-> t.flagged, active |-> t.active]
  /\ IsFiniteSet(t.listed) /\ Cardinality(t.listed) <= MaxSessions
  /\ t.flagged \subseteq t.listed
  /\ t.active # None => t.active \in t.flagged \cup over

TableInv == Sound(link, left) /\ Sound(mirror, left)

LEMMA SameCardinality == \A S : Table!Cardinality(S) = Cardinality(S)
  BY Zenon DEF Table!Cardinality, Cardinality

LEMMA EmptySound == \A over : Sound(Table!Empty, over)
  BY FS_EmptySet, SessionTableAssumption DEF Table!Empty, Sound

\* More names may be left over.
LEMMA SoundGrows ==
  ASSUME NEW t, NEW over, NEW more, Sound(t, over), over \subseteq more
  PROVE  Sound(t, more)
  BY DEF Sound

LEMMA UpsertSound ==
  ASSUME NEW t, NEW over, Sound(t, over), NEW id, NEW flag \in BOOLEAN
  PROVE  Sound(Table!UpsertSession(t, id, flag), over)
<1>1. CASE id \in t.listed
  BY <1>1 DEF Table!UpsertSession, Table!Relisted, Sound
<1>2. CASE id \notin t.listed /\ Cardinality(t.listed) < MaxSessions
  <2>1. /\ IsFiniteSet(t.listed \cup {id})
        /\ Cardinality(t.listed \cup {id}) = Cardinality(t.listed) + 1
    BY <1>2, FS_AddElement DEF Sound
  <2>2. Cardinality(t.listed \cup {id}) <= MaxSessions
    BY <1>2, <2>1, FS_CardinalityType, SessionTableAssumption DEF Sound
  <2> QED
    BY <1>2, <2>1, <2>2, SameCardinality DEF Table!UpsertSession, Table!Appended, Sound
<1>3. CASE id \notin t.listed /\ ~(Cardinality(t.listed) < MaxSessions)
  BY <1>3, SameCardinality DEF Table!UpsertSession
<1> QED
  BY <1>1, <1>2, <1>3

LEMMA SetActiveSound ==
  ASSUME NEW t, NEW over, Sound(t, over), NEW id
  PROVE  Sound(Table!SetActiveSession(t, id), over)
  BY DEF Table!SetActiveSession, Sound

LEMMA MirrorSound ==
  ASSUME NEW r \in Record
  PROVE  Sound(Table!Mirrored(r), Table!LeftBy(r))
<1> DEFINE kept == Table!Kept(r.ids)
           names == {kept[k] : k \in 1..Len(kept)}
<1>1. r.ids \in Seq(Id) /\ MaxSessions \in Nat
  BY SessionTableAssumption
<1>2. Len(kept) \in Nat /\ Len(kept) <= MaxSessions
  BY <1>1 DEF Table!Kept
<1>3. IsFiniteSet(names) /\ Cardinality(names) <= Len(kept)
  <2> DEFINE f == [k \in 1..Len(kept) |-> kept[k]]
  <2>1. f \in Surjection(1..Len(kept), names)
    BY DEF Surjection
  <2>2. \A n \in Nat : IsFiniteSet(1..n) /\ Cardinality(1..n) = n
    <3> SUFFICES ASSUME NEW n \in Nat PROVE IsFiniteSet(1..n) /\ Cardinality(1..n) = n
      OBVIOUS
    <3>1. IsFiniteSet(1..n) /\ Cardinality(1..n) = IF 1 > n THEN 0 ELSE n - 1 + 1
      BY FS_Interval
    <3> QED
      BY <3>1
  <2>3. IsFiniteSet(1..Len(kept)) /\ Cardinality(1..Len(kept)) = Len(kept)
    BY <1>2, <2>2
  <2> HIDE DEF f, names
  <2> QED
    BY <2>1, <2>3, FS_Surjection
<1>4. Table!Mirrored(r) = [listed  |-> names,
                           flagged |-> names \cap {r.active},
                           active  |-> IF r.active \in names THEN r.active ELSE mirror.active]
  BY DEF Table!Mirrored
<1> HIDE DEF names, kept
<1>5. Cardinality(names) <= MaxSessions
  BY <1>1, <1>2, <1>3, FS_CardinalityType
<1> QED
  BY <1>3, <1>4, <1>5 DEF Sound, Table!LeftBy

LEMMA TableNextInv ==
  ASSUME TableInv, Table!Next
  PROVE  TableInv'
<1>1. CASE Table!WebUpsert
  BY <1>1, UpsertSound DEF Table!WebUpsert, TableInv
<1>2. CASE Table!WebSwitch
  BY <1>2, SetActiveSound DEF Table!WebSwitch, TableInv
<1>3. CASE Table!Switch
  BY <1>3 DEF Table!Switch, TableInv
<1>4. CASE Table!CarLifePublishes
  BY <1>4, EmptySound DEF Table!CarLifePublishes, TableInv
<1>5. CASE Table!CatPlayPublishes \/ Table!PublishTable
  BY <1>5 DEF Table!CatPlayPublishes, Table!PublishTable, TableInv
<1>6. CASE Table!ResetMirrors
  BY <1>6, EmptySound DEF Table!ResetMirrors, TableInv
<1>7. CASE Table!MultiSession
  <2>1. PICK r \in Record : mirror' = Table!Mirrored(r) /\ left' = Table!LeftBy(r)
    BY <1>7 DEF Table!MultiSession
  <2>2. Sound(mirror', left')
    BY <2>1, MirrorSound
  <2>3. Sound(link, left')
    BY <2>1, SoundGrows DEF TableInv, Table!LeftBy
  <2> QED
    BY <1>7, <2>2, <2>3 DEF Table!MultiSession, TableInv
<1>8. CASE Table!UpsertNext
  <2>1. Sound(link', left)
    <3>1. CASE job.todo = <<>>
      BY <1>8, <3>1 DEF Table!UpsertNext, TableInv
    <3>2. CASE job.todo # <<>>
      <4>1. link' = Table!UpsertSession(link, Head(job.todo), Head(job.todo) = job.active)
        BY <1>8, <3>2 DEF Table!UpsertNext
      <4>2. (Head(job.todo) = job.active) \in BOOLEAN
        OBVIOUS
      <4> QED
        BY <4>1, <4>2, UpsertSound DEF TableInv
    <3> QED
      BY <3>1, <3>2
  <2> QED
    BY <1>8, <2>1 DEF Table!UpsertNext, TableInv
<1>9. CASE Table!Activate
  BY <1>9, SetActiveSound DEF Table!Activate, TableInv
<1> QED
  BY <1>1, <1>2, <1>3, <1>4, <1>5, <1>6, <1>7, <1>8, <1>9 DEF Table!Next

\* Whoever writes the table between the calls of whom and whatever records the
\* engine sends, only listed sessions carry a flag, the table keeps to its places,
\* and the active session is a flagged one, unless its name was left over by a
\* record that listed no active session.
THEOREM TableAlwaysSound == AllSpec => []TableSound
<1>1. AllInit => TableInv
  BY EmptySound DEF AllInit, Table!Init, TableInv
<1>2. TableInv /\ [AllNext]_allVars => TableInv'
  <2> SUFFICES ASSUME TableInv, [AllNext]_allVars PROVE TableInv'
    OBVIOUS
  <2>1. CASE Table!Next
    BY <2>1, TableNextInv
  <2>2. CASE UNCHANGED <<link, mirror, left>>
    BY <2>2 DEF TableInv
  <2> QED
    BY <2>1, <2>2 DEF AllNext, CoverNext, TableNext, allVars
<1>3. TableInv => TableSound
  BY SameCardinality DEF TableInv, Sound, TableSound, Table!TableSound, Table!FrontListed, Table!FlaggedListed, Table!TableBounded
<1> QED
  BY <1>1, <1>2, <1>3, PTL DEF AllSpec
=============================================================================
