---------------------------- MODULE MCFinalization ----------------------------
EXTENDS Finalization

CONSTANTS a, b, c, user, p1, p2, fin
===============================================================================
