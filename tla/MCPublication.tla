---------------------------- MODULE MCPublication ---------------------------
\* Instances of Publication for TLC.  A record lists up to three sessions, one
\* more than the table has places for, and names any as active, or none.
EXTENDS Publication, FiniteSets

Apart == {{CatPlay}, {CarLife}}
Together == {Input}

Lists == {s \in UNION {[1..n -> Id] : n \in 0..3} : Cardinality({s[k] : k \in DOMAIN s}) = Len(s)}
AnyRecord == [ids : Lists, active : Id \cup {None}]
=============================================================================
