---------------------------- MODULE MCObjectWriting ----------------------------
\* An instance of ObjectWriting for TLC.
EXTENDS ObjectWriting
=============================================================================
