------------------------------ MODULE Semaphore ------------------------------
(***************************************************************************)
(* threading.BoundedSemaphore: the classes _Semaphore and                  *)
(* _BoundedSemaphore of Lib/threading.py over a Condition(Lock()).         *)
(*                                                                         *)
(* Threads call acquire (blocking or not) and release as often as they     *)
(* like.  A semaphore has no owner: a permit may be released by a thread   *)
(* other than the one that took it.  Callers may also make the mistake a   *)
(* bounded semaphore is there to report, and release what nobody has       *)
(* taken; what holds only as long as they do not is said of balanced.      *)
(***************************************************************************)
EXTENDS Condition, Naturals, FiniteSets

CONSTANTS InitialValue,   \* the value given to the constructor
          Interruptible   \* may Thread.interrupt() reach a waiting thread

ASSUME SemaphoreAssumption ==
    /\ Threads # {} /\ IsFiniteSet(Threads)
    /\ InitialValue \in Nat
    /\ Interruptible \in BOOLEAN

VARIABLES value,     \* _Semaphore__value
          pc,        \* where each thread is in acquire or release
          blocking,  \* the argument of the acquire each thread runs
          out,       \* history: permits taken for which no release was called
          balanced   \* history: was each release called for a permit taken before

semVars == <<value, pc, blocking, out, balanced>>
vars == <<condVars, semVars>>

Labels == {"idle", "a_enter", "a_test", "a_wait", "a_exit",
           "r_check", "r_enter", "r_post", "r_exit"}

\* The labels between cond.acquire() and cond.release(), await() left aside.
Critical == {"a_test", "a_exit", "r_post", "r_exit"}

Goto(t, l) == pc' = [pc EXCEPT ![t] = l]

TypeOK ==
    /\ CondTypeOK
    /\ value \in Nat
    /\ pc \in [Threads -> Labels]
    /\ blocking \in [Threads -> BOOLEAN]
    /\ out \in Nat /\ balanced \in BOOLEAN

Init ==
    /\ CondInit
    /\ value = InitialValue
    /\ pc = [t \in Threads |-> "idle"]
    /\ blocking = [t \in Threads |-> TRUE]
    /\ out = 0 /\ balanced = TRUE
------------------------------------------------------------------------------
\* acquire(blocking)

CallAcquire(t) ==
    /\ pc[t] = "idle"
    /\ \E b \in BOOLEAN : blocking' = [blocking EXCEPT ![t] = b]
    /\ Goto(t, "a_enter")
    /\ UNCHANGED <<condVars, value, out, balanced>>

EnterAcquire(t) ==
    /\ pc[t] = "a_enter"
    /\ Lock(t)
    /\ Goto(t, "a_test")
    /\ UNCHANGED <<value, blocking, out, balanced>>

\* The loop condition is false: take a permit and leave the loop by its else.
TakePermit(t) ==
    /\ pc[t] = "a_test"
    /\ value # 0
    /\ value' = value - 1
    /\ out' = out + 1
    /\ Goto(t, "a_exit")
    /\ UNCHANGED <<condVars, blocking, balanced>>

\* Mutant of GiveUp: a non-blocking acquire does not look at value.
GiveUpEagerly(t) ==
    /\ pc[t] = "a_test" /\ ~blocking[t]
    /\ Goto(t, "a_exit")
    /\ UNCHANGED <<condVars, value, blocking, out, balanced>>

\* No permit and not blocking: break, so rc stays False.
GiveUp(t) ==
    /\ pc[t] = "a_test"
    /\ value = 0
    /\ ~blocking[t]
    /\ Goto(t, "a_exit")
    /\ UNCHANGED <<condVars, value, blocking, out, balanced>>

\* No permit: cond.wait(), without a timeout.
WaitForPermit(t) ==
    /\ pc[t] = "a_test"
    /\ value = 0
    /\ blocking[t]
    /\ Await(t)
    /\ Goto(t, "a_wait")
    /\ UNCHANGED <<value, blocking, out, balanced>>

\* wait() returns into the loop.  If the thread was interrupted, wait() throws
\* InterruptedException instead; acquire has no finally, so the exception
\* leaves it with the lock still held.
ReturnFromWait(t) ==
    /\ pc[t] = "a_wait"
    /\ Reacquire(t)
    /\ Goto(t, IF woken[t] = "interrupt" THEN "idle" ELSE "a_test")
    /\ UNCHANGED <<value, blocking, out, balanced>>

Interrupt(t) ==
    /\ Interruptible
    /\ Expire(t, "interrupt")
    /\ UNCHANGED semVars
------------------------------------------------------------------------------
\* _BoundedSemaphore.release

CallRelease(t) ==
    /\ pc[t] = "idle"
    /\ out' = IF out > 0 THEN out - 1 ELSE 0
    /\ balanced' = (balanced /\ out > 0)
    /\ Goto(t, "r_check")
    /\ UNCHANGED <<condVars, value, blocking>>

\* Mutant of RejectRelease: the bound is off by one.
RejectEarly(t) ==
    /\ pc[t] = "r_check"
    /\ value + 1 >= InitialValue
    /\ Goto(t, "idle")
    /\ UNCHANGED <<condVars, value, blocking, out, balanced>>

\* The bound is checked before the lock is taken: ValueError at once, ...
RejectRelease(t) ==
    /\ pc[t] = "r_check"
    /\ value >= InitialValue
    /\ Goto(t, "idle")
    /\ UNCHANGED <<condVars, value, blocking, out, balanced>>

\* Mutant of PassCheck: the check is missing, as in _Semaphore itself.
PassUnchecked(t) ==
    /\ pc[t] = "r_check"
    /\ Goto(t, "r_enter")
    /\ UNCHANGED <<condVars, value, blocking, out, balanced>>

\* ... or on to _Semaphore.release, which does not look at the bound again.
PassCheck(t) ==
    /\ pc[t] = "r_check"
    /\ value < InitialValue
    /\ Goto(t, "r_enter")
    /\ UNCHANGED <<condVars, value, blocking, out, balanced>>

EnterRelease(t) ==
    /\ pc[t] = "r_enter"
    /\ Lock(t)
    /\ Goto(t, "r_post")
    /\ UNCHANGED <<value, blocking, out, balanced>>

\* Mutants of PostPermit: notify() only when there was no permit before; never.
PostIfZero(t) ==
    /\ pc[t] = "r_post"
    /\ value' = value + 1
    /\ IF value = 0 THEN Signal ELSE UNCHANGED condVars
    /\ Goto(t, "r_exit")
    /\ UNCHANGED <<blocking, out, balanced>>

PostSilently(t) ==
    /\ pc[t] = "r_post"
    /\ value' = value + 1
    /\ Goto(t, "r_exit")
    /\ UNCHANGED <<condVars, blocking, out, balanced>>

PostPermit(t) ==
    /\ pc[t] = "r_post"
    /\ value' = value + 1
    /\ Signal
    /\ Goto(t, "r_exit")
    /\ UNCHANGED <<blocking, out, balanced>>

\* cond.release() at the end of either method.
Exit(t) ==
    /\ pc[t] \in {"a_exit", "r_exit"}
    /\ Unlock
    /\ Goto(t, "idle")
    /\ UNCHANGED <<value, blocking, out, balanced>>
------------------------------------------------------------------------------
Acquire(t) == \/ EnterAcquire(t) \/ TakePermit(t) \/ GiveUp(t)
              \/ WaitForPermit(t) \/ ReturnFromWait(t)

Release(t) == \/ RejectRelease(t) \/ PassCheck(t) \/ EnterRelease(t) \/ PostPermit(t)

Next == \E t \in Threads : \/ CallAcquire(t) \/ CallRelease(t)
                           \/ Acquire(t) \/ Release(t) \/ Exit(t)
                           \/ Interrupt(t)

Spec == Init /\ [][Next]_vars

\* A thread inside a method keeps running, and is not overtaken for ever by
\* others each time the lock is free.  Nobody has to call a method.
Fairness ==
    \A t \in Threads :
        /\ WF_vars(TakePermit(t) \/ GiveUp(t) \/ WaitForPermit(t) \/ Exit(t))
        /\ WF_vars(RejectRelease(t) \/ PassCheck(t) \/ PostPermit(t))
        /\ SF_vars(EnterAcquire(t) \/ ReturnFromWait(t) \/ EnterRelease(t))

FairSpec == Spec /\ Fairness
------------------------------------------------------------------------------
\* Threads that have called release and not yet put their permit back.
Releasing == {t \in Threads : pc[t] \in {"r_check", "r_enter", "r_post"}}

\* Acquirers taken out of the queue by notify that have not looked at value yet.
Awake == {t \in Threads : \/ woken[t] = "signal"
                          \/ pc[t] = "a_test" /\ blocking[t]}

\* Only the thread that holds the lock is between cond.acquire() and
\* cond.release(): value, which is read and written in separate bytecodes, is
\* never written by two threads at once.
MutualExclusion == \A t \in Threads : pc[t] \in Critical => owner = t

\* Exactly the threads inside cond.wait() are in the queue or on their way out of
\* it, and only a blocking acquire goes there.
WaitersInQueue ==
    \A t \in Threads :
        /\ t \in waiting => pc[t] = "a_wait" /\ woken[t] = "no"
        /\ woken[t] # "no" => pc[t] = "a_wait"
        /\ pc[t] = "a_wait" => blocking[t]

\* The inductive invariant behind the safety properties.
LockInv == TypeOK /\ WaitersInQueue /\ MutualExclusion

\* Permits are neither lost nor invented while callers balance their calls:
\* every one is available, with a caller, or on its way back.  In particular
\* value never exceeds InitialValue and a balanced release is never rejected
\* (a rejected one would leave its permit uncounted).
Conservation ==
    balanced => value + out + Cardinality(Releasing) = InitialValue

\* A permit never sits unused while everybody who wants it sleeps: with threads
\* in the queue, each available permit has a thread awake that comes to take it.
\* This is why notify() must follow every increment, and follow it under the lock.
NoLostWakeup == waiting # {} => value <= Cardinality(Awake)

\* Threads that a check of the bound has let through.
Admitted == {t \in Threads : pc[t] \in {"r_enter", "r_post"}}

\* How far callers who release too often can push it in spite of the check:
\* every thread can pass the check once while value is still below the bound.
ExcessBounded == value <= InitialValue - 1 + Cardinality(Threads)

\* _BoundedSemaphore behaves as an atomic semaphore does.
Mode(t) ==
    CASE pc[t] \in {"a_enter", "a_test"} -> IF blocking[t] THEN "acquiring" ELSE "trying"
      [] pc[t] = "a_wait" -> "acquiring"
      [] t \in Releasing -> "releasing"
      [] OTHER -> "idle"

Modes == [t \in Threads |-> Mode(t)]

Abstract == INSTANCE AbstractSemaphore WITH avail <- value, mode <- Modes

\* Each call takes effect atomically: grants, refusals and rejections are all
\* justified by the value at one instant within the call.
ImplementsAtomic == Abstract!ASpec

\* A thread that was interrupted has left with the lock, which nobody gives back.
LockAbandoned == \E t \in Threads : owner = t /\ pc[t] = "idle"

\* ... and while permits are available, somebody who wants one gets one, whatever the
\* misuse, unless the lock was abandoned.
ImplementsFair == <>LockAbandoned \/ Abstract!AFairness
==============================================================================
