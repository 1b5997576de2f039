---------------------------- MODULE MCMediaLink ----------------------------
\* An instance of MediaLink for TLC.
EXTENDS MediaLink
=============================================================================
