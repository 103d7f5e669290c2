----------------------------- MODULE MCGlobalRef -----------------------------
EXTENDS GlobalRef, TLC

CONSTANTS o1, r1, r2

OneReference == r1 :> o1

TwoReferences == r1 :> o1 @@ r2 :> o1
==============================================================================
