----------------------------- MODULE MCMainMenu -----------------------------
\* An instance of MainMenu for TLC.
EXTENDS MainMenu, TLC
=============================================================================
