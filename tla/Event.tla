-------------------------------- MODULE Event --------------------------------
(***************************************************************************)
(* threading.Event and threading.Timer: the classes _Event and _Timer of   *)
(* Lib/threading.py over a Condition(Lock()).                              *)
(*                                                                         *)
(* All threads share one event.  A user calls set, clear and wait (with or *)
(* without a timeout) as it likes.  A timer thread runs _Timer.run on it:  *)
(* wait(interval), call the function unless the event is set, set the      *)
(* event.  For it, the set() of a user is _Timer.cancel().                 *)
(***************************************************************************)
EXTENDS Condition

CONSTANT Timers    \* the threads that are timers; the others are users

ASSUME EventAssumption == Timers \subseteq Threads

VARIABLES flag,     \* _Event__flag
          pc,       \* where each thread is
          timed,    \* does the wait() a thread runs have a timeout
          result,   \* what the wait() a thread runs is about to return
          missed,   \* history: waiters notified by a set() that a clear() overtook
          early,    \* history: timers cancelled, for good, before they looked
          ran       \* history: timers that called their function

eventVars == <<flag, pc, timed, result, missed, early, ran>>
vars == <<condVars, eventVars>>

Users == Threads \ Timers

Labels == {"idle", "s_enter", "s_body", "s_exit", "c_enter", "c_body", "c_exit",
           "w_enter", "w_test", "w_wait", "w_return", "w_exit", "w_raise",
           "t_new", "t_test", "t_function", "t_done"}

\* The labels between cond.acquire() and cond.release(), await() left aside.
Critical == {"s_body", "s_exit", "c_body", "c_exit",
             "w_test", "w_return", "w_exit", "w_raise"}

\* A timer here has still to evaluate "if not self.finished.isSet()".
Untested == {"t_new", "w_enter", "w_test", "w_wait", "w_return", "w_exit", "t_test"}

Goto(t, l) == pc' = [pc EXCEPT ![t] = l]

TypeOK ==
    /\ CondTypeOK
    /\ flag \in BOOLEAN
    /\ pc \in [Threads -> Labels]
    /\ timed \in [Threads -> BOOLEAN]
    /\ result \in [Threads -> BOOLEAN]
    /\ missed \subseteq Threads /\ early \subseteq Timers /\ ran \subseteq Timers

Init ==
    /\ CondInit
    /\ flag = FALSE
    /\ pc = [t \in Threads |-> IF t \in Timers THEN "t_new" ELSE "idle"]
    /\ timed = [t \in Threads |-> FALSE]
    /\ result = [t \in Threads |-> FALSE]
    /\ missed = {} /\ early = {} /\ ran = {}
------------------------------------------------------------------------------
\* set(), clear()

Call(t) ==
    /\ pc[t] = "idle"
    /\ Goto(t, "s_enter") \/ Goto(t, "c_enter")
    /\ UNCHANGED <<condVars, flag, timed, result, missed, early, ran>>

Enter(t) ==
    /\ Lock(t)
    /\ \/ pc[t] = "s_enter" /\ Goto(t, "s_body")
       \/ pc[t] = "c_enter" /\ Goto(t, "c_body")
       \/ pc[t] = "w_enter" /\ Goto(t, "w_test")
    /\ UNCHANGED <<flag, timed, result, missed, early, ran>>

\* Mutant of SetFlag: notify() for notifyAll().
SetFlagForOne(t) ==
    /\ pc[t] = "s_body"
    /\ flag' = TRUE
    /\ Signal
    /\ early' = early \cup {m \in Timers : pc[m] \in Untested}
    /\ Goto(t, "s_exit")
    /\ UNCHANGED <<timed, result, missed, ran>>

SetFlag(t) ==
    /\ pc[t] = "s_body"
    /\ flag' = TRUE
    /\ SignalAll
    /\ early' = early \cup {m \in Timers : pc[m] \in Untested}
    /\ Goto(t, "s_exit")
    /\ UNCHANGED <<timed, result, missed, ran>>

ClearFlag(t) ==
    /\ pc[t] = "c_body"
    /\ flag' = FALSE
    /\ missed' = missed \cup {w \in Threads : woken[w] = "signal"}
    /\ early' = {}
    /\ Goto(t, "c_exit")
    /\ UNCHANGED <<condVars, timed, result, ran>>

\* The finally clause of every method; what was local to the call ends.  A timer
\* goes on with run(), unless an InterruptedException takes it out of run() as well.
Exit(t) ==
    /\ Unlock
    /\ \/ pc[t] \in {"s_exit", "c_exit", "w_exit", "w_raise"} /\ t \in Users /\ Goto(t, "idle")
       \/ pc[t] = "w_exit" /\ t \in Timers /\ Goto(t, "t_test")
       \/ pc[t] \in {"s_exit", "w_raise"} /\ t \in Timers /\ Goto(t, "t_done")
    /\ timed' = [timed EXCEPT ![t] = FALSE]
    /\ result' = [result EXCEPT ![t] = FALSE]
    /\ missed' = missed \ {t}
    /\ UNCHANGED <<flag, early, ran>>
------------------------------------------------------------------------------
\* wait(timeout)

CallWait(t) ==
    /\ pc[t] = "idle"
    /\ \E b \in BOOLEAN : timed' = [timed EXCEPT ![t] = b]
    /\ Goto(t, "w_enter")
    /\ UNCHANGED <<condVars, flag, result, missed, early, ran>>

TestFlag(t) ==
    /\ pc[t] = "w_test"
    /\ \/ flag /\ Goto(t, "w_return") /\ UNCHANGED condVars
       \/ ~flag /\ Goto(t, "w_wait") /\ Await(t)
    /\ UNCHANGED <<flag, timed, result, missed, early, ran>>

\* Mutant of Timeout: wait() has a finite default timeout.
TimeoutAlways(t) == Expire(t, "timeout") /\ UNCHANGED eventVars

Timeout(t) ==
    /\ timed[t]
    /\ Expire(t, "timeout")
    /\ UNCHANGED eventVars

Interrupt(t) ==
    /\ Expire(t, "interrupt")
    /\ UNCHANGED eventVars

ReturnFromWait(t) ==
    /\ pc[t] = "w_wait"
    /\ Reacquire(t)
    /\ Goto(t, IF woken[t] = "interrupt" THEN "w_raise" ELSE "w_return")
    /\ UNCHANGED <<flag, timed, result, missed, early, ran>>

\* wait() sleeps at most once and returns whatever the flag is then.
ReturnFlag(t) ==
    /\ pc[t] = "w_return"
    /\ result' = [result EXCEPT ![t] = flag]
    /\ Goto(t, "w_exit")
    /\ UNCHANGED <<condVars, flag, timed, missed, early, ran>>
------------------------------------------------------------------------------
\* _Timer.run

\* Mutant of Start: the interval is not passed to wait().
StartUntimed(t) ==
    /\ pc[t] = "t_new"
    /\ Goto(t, "w_enter")
    /\ UNCHANGED <<condVars, flag, timed, result, missed, early, ran>>

Start(t) ==
    /\ pc[t] = "t_new"
    /\ timed' = [timed EXCEPT ![t] = TRUE]
    /\ Goto(t, "w_enter")
    /\ UNCHANGED <<condVars, flag, result, missed, early, ran>>

\* Mutant of TestFinished: the function is called without the test.
FunctionAnyway(t) ==
    /\ pc[t] = "t_test"
    /\ Goto(t, "t_function") /\ ran' = ran \cup {t}
    /\ UNCHANGED <<condVars, flag, timed, result, missed, early>>

\* isSet() reads the flag without the lock.
TestFinished(t) ==
    /\ pc[t] = "t_test"
    /\ \/ flag /\ Goto(t, "s_enter") /\ UNCHANGED ran
       \/ ~flag /\ Goto(t, "t_function") /\ ran' = ran \cup {t}
    /\ UNCHANGED <<condVars, flag, timed, result, missed, early>>

\* The function returns, or raises and takes run() with it before the last set().
FunctionEnds(t) ==
    /\ pc[t] = "t_function"
    /\ Goto(t, "s_enter") \/ Goto(t, "t_done")
    /\ UNCHANGED <<condVars, flag, timed, result, missed, early, ran>>
------------------------------------------------------------------------------
Locked(t) == SetFlag(t) \/ ClearFlag(t) \/ TestFlag(t) \/ ReturnFlag(t) \/ Exit(t)

TimerStep(t) == TestFinished(t) \/ FunctionEnds(t)

Next == \E t \in Threads : \/ Call(t) \/ CallWait(t) \/ Start(t)
                           \/ Enter(t) \/ ReturnFromWait(t)
                           \/ Locked(t) \/ TimerStep(t)
                           \/ Timeout(t) \/ Interrupt(t)

Spec == Init /\ [][Next]_vars

\* Threads inside a method or a timer keep running, the lock is not kept from a
\* thread for ever by others that find it free first, and time passes.
Fairness ==
    \A t \in Threads :
        /\ WF_vars(Locked(t)) /\ WF_vars(TimerStep(t)) /\ WF_vars(Timeout(t))
        /\ SF_vars(Enter(t) \/ ReturnFromWait(t))

FairSpec == Spec /\ Fairness
------------------------------------------------------------------------------
\* Only the thread that holds the lock is between cond.acquire() and cond.release().
MutualExclusion == \A t \in Threads : pc[t] \in Critical => owner = t

\* Exactly the threads inside cond.wait() are in the queue or on their way out.
WaitersInQueue ==
    \A t \in Threads :
        /\ t \in waiting => pc[t] = "w_wait" /\ woken[t] = "no"
        /\ woken[t] # "no" => pc[t] = "w_wait"

\* Timers run nothing but run(), and only they do.
RolesKept ==
    \A t \in Threads :
        /\ t \in Timers => pc[t] \notin {"idle", "c_enter", "c_body", "c_exit"}
        /\ pc[t] \in {"t_new", "t_test", "t_function", "t_done"} => t \in Timers

\* The inductive invariant behind the safety properties.
LockInv == TypeOK /\ RolesKept /\ WaitersInQueue /\ MutualExclusion

\* Nobody sleeps on an event that is set: the test of the flag and the wait, like
\* the write of the flag and notifyAll, are one step for everybody else.
NoSleeperWhileSet == flag => waiting = {}

\* wait() without a timeout returns False only to a thread that a set() has woken
\* and that a clear() overtook on its way to the lock; never because it was woken
\* for nothing.
FalseMeansCleared ==
    \A t \in Users : pc[t] = "w_exit" /\ ~timed[t] /\ ~result[t] => t \in missed

\* _Timer.cancel: "Stop the timer if it hasn't finished yet".  A cancel that takes
\* effect before the timer looks at the event, and that no clear() takes back, keeps
\* the function from running.
CancelStopsTimer == early \cap ran = {}

\* A thread asleep when the event is set returns, even if the event is cleared.
WaitersReturn ==
    \A t \in Threads : (flag /\ pc[t] = "w_wait") ~> pc[t] \notin {"w_wait", "w_return", "w_exit"}

\* A timer that is started ends, whatever users do to its event, and sets the event
\* last unless the function raised or the thread was interrupted, the two ways in
\* which run() is left early.
TimerFinishes ==
    \A t \in Timers :
        /\ pc[t] = "w_enter" ~> pc[t] = "t_done"
        /\ pc[t] = "s_enter" ~> pc[t] = "s_exit" /\ flag
==============================================================================
