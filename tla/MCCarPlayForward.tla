-------------------------- MODULE MCCarPlayForward --------------------------
\* Instances of CarPlayForward for TLC.  Each run lets the environment do some
\* of its acts; the coordinator and the backend are always complete.
EXTENDS CarPlayForward

Streams == 1..3
Slots == 1..2
Screen(fits) == [video |-> TRUE, legs |-> {"out"}, fits |-> fits]
Voice == [video |-> FALSE, legs |-> {"out", "mic"}, fits |-> TRUE]

TwoScreens == {Screen(TRUE), Screen(FALSE)}
Mixed == {Screen(TRUE), Voice}
OneScreen == {Screen(TRUE)}
OneVoice == {Voice}

NoCaps == {{}}
AllCaps == {{"commands", "mic"}}
AnyCaps == {{}, {"commands", "mic"}}
=============================================================================
