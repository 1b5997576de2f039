---------------------------- MODULE Publication -----------------------------
(***************************************************************************)
(* What the inputs publish into SessionCore: covers (CoverPublication) and *)
(* the table of sessions (SessionTable).  The two share nothing but the    *)
(* active source, which CatPlay's gate reads for both, and each is a whole *)
(* record of its own; a behaviour has records of one kind (`traffic').     *)
(***************************************************************************)
EXTENDS CoverPublication, Sequences

CONSTANTS
  Id,                  \* names of sessions
  Record,              \* MultiSession records: [ids, active]
  MaxSessions          \* kMaxSessionList

ASSUME SessionTableAssumption ==
  /\ None \notin Id /\ MaxSessions \in Nat \ {0}
  /\ \A r \in Record : r.ids \in Seq(Id) /\ r.active \in Id \cup {None}

VARIABLES
  link, mirror, current, job, left,   \* of SessionTable
  traffic                       \* bound: the kind of records the phones send

Table == INSTANCE SessionTable

allVars == <<vars, link, mirror, current, job, left, traffic>>

AllInit ==
  /\ Init /\ Table!Init
  /\ traffic \in {"covers", "sessions"}

CoverNext ==
  traffic = "covers" /\ Next /\ UNCHANGED <<link, mirror, current, job, left, traffic>>

TableNext ==
  traffic = "sessions" /\ Table!Next /\ UNCHANGED <<vars, traffic>>

AllNext == CoverNext \/ TableNext

AllSpec == AllInit /\ [][AllNext]_allVars

----------------------------------------------------------------------------
\* Fairness of the calls CoverPublication lists; the table needs none.

TableIdle == UNCHANGED <<link, mirror, current, job, left, traffic>>

AllFairness ==
  /\ \A i \in Input : WF_allVars(StoreEnd(i) /\ TableIdle)
  /\ WF_allVars(Copy /\ TableIdle) /\ SF_allVars(Check /\ TableIdle)
  /\ SF_allVars(reader.at = "again" /\ Open /\ TableIdle)

AllFairSpec == AllSpec /\ AllFairness

----------------------------------------------------------------------------
\* Properties of the table, beside those of CoverPublication

\* The active session is flagged or its name left over by a record that named
\* none, only listed ones are flagged and the table keeps to its slots, whoever
\* writes it in between (session_core.cpp 179-221).
TableSound == Table!TableSound

\* At most one session is active at any time (session_core.cpp 181).
OneActiveSession == Table!OneActiveSession
=============================================================================
