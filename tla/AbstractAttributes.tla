-------------------------- MODULE AbstractAttributes --------------------------
(***************************************************************************)
(* What the attributes of an object promise: a map from attribute types to *)
(* values, written one entry at a time.  A read is answered with a value   *)
(* the entry had at some instant between the beginning and the end of the  *)
(* read, and ends.                                                         *)
(***************************************************************************)

CONSTANTS Threads, Types, Values, Null

VARIABLES content,  \* the map; Null where there is no attribute
          phase,    \* what each thread does
          asked,    \* the type a reading thread asks for, Null outside a read
          seen,     \* the values that entry had since the read began
          answer    \* what the read is answered

absVars == <<content, phase, asked, seen, answer>>

AInit ==
    /\ content = [k \in Types |-> Null]
    /\ phase = [t \in Threads |-> "idle"]
    /\ asked = [t \in Threads |-> Null]
    /\ seen = [t \in Threads |-> {}]
    /\ answer = [t \in Threads |-> Null]

\* setAttr and delAttr at the instant they take effect.
Write(k, v) ==
    /\ content' = [content EXCEPT ![k] = v]
    /\ seen' = [t \in Threads |-> IF phase[t] = "reading" /\ asked[t] = k
                                  THEN seen[t] \cup {v} ELSE seen[t]]
    /\ UNCHANGED <<phase, asked, answer>>

Begin(t, k) ==
    /\ phase[t] = "idle"
    /\ phase' = [phase EXCEPT ![t] = "reading"]
    /\ asked' = [asked EXCEPT ![t] = k]
    /\ seen' = [seen EXCEPT ![t] = {content[k]}]
    /\ UNCHANGED <<content, answer>>

Answer(t) ==
    /\ phase[t] = "reading"
    /\ phase' = [phase EXCEPT ![t] = "answered"]
    /\ \E v \in seen[t] : answer' = [answer EXCEPT ![t] = v]
    /\ asked' = [asked EXCEPT ![t] = Null]
    /\ seen' = [seen EXCEPT ![t] = {}]
    /\ UNCHANGED content

End(t) ==
    /\ phase[t] = "answered"
    /\ phase' = [phase EXCEPT ![t] = "idle"]
    /\ answer' = [answer EXCEPT ![t] = Null]
    /\ UNCHANGED <<content, asked, seen>>

ANext == \/ \E k \in Types, v \in Values \cup {Null} : Write(k, v)
         \/ \E t \in Threads : \/ \E k \in Types : Begin(t, k)
                               \/ Answer(t)
                               \/ End(t)

ASpec == AInit /\ [][ANext]_absVars

\* A read that has begun is answered.
AFairness == \A t \in Threads : WF_absVars(Answer(t))
==============================================================================
