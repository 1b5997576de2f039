--------------------------- MODULE MCSessionCore ----------------------------
\* Two phones, a test input and the desktop, in a table one too small for them.
EXTENDS SessionCore, TLC

Symmetry == Permutations(Externals)
=============================================================================
