-------------------------- MODULE AbstractSemaphore --------------------------
(***************************************************************************)
(* What a bounded counting semaphore promises its callers: every operation *)
(* takes effect in one indivisible step between its call and its return.   *)
(* An acquire is granted only by taking an available permit, a             *)
(* non-blocking one is refused only at an instant when there is none, and  *)
(* a release is rejected only at an instant when nothing is outstanding.   *)
(***************************************************************************)
EXTENDS Naturals

CONSTANTS Threads, InitialValue

VARIABLES avail,  \* permits that can be acquired
          mode    \* what each thread is asking of the semaphore

absVars == <<avail, mode>>

Become(t, m) == mode' = [mode EXCEPT ![t] = m]

AInit ==
    /\ avail = InitialValue
    /\ mode = [t \in Threads |-> "idle"]

Call(t) ==
    /\ mode[t] = "idle"
    /\ \E m \in {"acquiring", "trying", "releasing"} : Become(t, m)
    /\ UNCHANGED avail

Grant(t) ==
    /\ mode[t] \in {"acquiring", "trying"}
    /\ avail > 0
    /\ avail' = avail - 1
    /\ Become(t, "idle")

Refuse(t) ==
    /\ mode[t] = "trying"
    /\ avail = 0
    /\ Become(t, "idle")
    /\ UNCHANGED avail

Post(t) ==
    /\ mode[t] = "releasing"
    /\ avail' = avail + 1
    /\ Become(t, "idle")

Reject(t) ==
    /\ mode[t] = "releasing"
    /\ avail >= InitialValue
    /\ Become(t, "idle")
    /\ UNCHANGED avail

\* An acquirer that is interrupted gives up without a permit.
Abandon(t) ==
    /\ mode[t] = "acquiring"
    /\ Become(t, "idle")
    /\ UNCHANGED avail

ANext == \E t \in Threads : \/ Call(t) \/ Grant(t) \/ Refuse(t)
                            \/ Post(t) \/ Reject(t) \/ Abandon(t)

ASpec == AInit /\ [][ANext]_absVars

\* A semaphore with a permit to give does not leave every acquirer waiting.
AFairness == WF_absVars(\E t \in Threads : Grant(t))
==============================================================================
