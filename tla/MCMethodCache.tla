---------------------------- MODULE MCMethodCache ----------------------------
EXTENDS MethodCache

CONSTANTS O, A, B, C, D, X, Y, P, R, Z, look, set, bind, m, v1, v2

Class(T, bs) == [type |-> T, bases |-> bs]

\* D inherits from A and C.  A goes below B, D leaves A, or C goes below A, which D does not
\* allow; D cannot have O before A, nor A its subclass D for a base.
Siblings == <<Class(O, <<>>), Class(A, <<O>>), Class(B, <<O>>), Class(C, <<O>>),
              Class(D, <<A, C>>)>>
SiblingRebinds == {Class(A, <<B>>), Class(D, <<C>>), Class(C, <<A>>), Class(D, <<O, A>>),
                   Class(A, <<D>>)}
SiblingDict == [T \in Types |-> [n \in Names |-> IF T = C THEN v1 ELSE None]]

\* R inherits from X twice, through P and itself, and Z wants Y before X.
Diamond == <<Class(O, <<>>), Class(X, <<O>>), Class(Y, <<O>>), Class(P, <<X>>),
             Class(R, <<P, X>>), Class(Z, <<Y, X>>)>>
DiamondRebinds == {Class(X, <<Y>>)}
NoAttributes == [T \in Types |-> [n \in Names |-> None]]

Limits == [t \in Threads |-> IF t = look THEN 2 ELSE 1]
Once == [t \in Threads |-> 1]
==============================================================================
