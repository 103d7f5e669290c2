------------------------------- MODULE MCEvent -------------------------------
EXTENDS Event, TLC
==============================================================================
