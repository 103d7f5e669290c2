------------------------------ MODULE Condition ------------------------------
(***************************************************************************)
(* A Python-level Condition(Lock()): the non-reentrant Mutex of            *)
(* _threading/Lock.java together with the one condition queue that         *)
(* _threading/Condition.java creates on it.  The module declares the state *)
(* of that pair and the steps a thread can take on it; the clients         *)
(* (Semaphore, Event) conjoin these steps with their own.                  *)
(*                                                                         *)
(* The Mutex is an AbstractQueuedSynchronizer whose state is 0 or 1.  It   *)
(* records the thread that took it but does not check it: isHeldExclusively*)
(* is "state = 1", so any thread may release, wait or notify while it is   *)
(* locked.  java.util.concurrent itself is external: signal() wakes some   *)
(* waiter, and a woken waiter has to take the lock again before await()    *)
(* returns or throws.                                                      *)
(***************************************************************************)
CONSTANTS Threads,   \* the Java threads that share the object
          NoThread   \* the owner of an unlocked Mutex

ASSUME ThreadsAssumption == NoThread \notin Threads

VARIABLES owner,    \* exclusive owner thread; NoThread when the state is 0
          waiting,  \* threads parked in the condition queue
          woken     \* for each thread, what took it out of the queue

condVars == <<owner, waiting, woken>>

\* Why a thread inside await() left the condition queue, "no" if it did not.
Wakeups == {"no", "signal", "timeout", "interrupt"}

CondTypeOK ==
    /\ owner \in Threads \cup {NoThread}
    /\ waiting \subseteq Threads
    /\ woken \in [Threads -> Wakeups]

CondInit ==
    /\ owner = NoThread
    /\ waiting = {}
    /\ woken = [t \in Threads |-> "no"]

\* Mutex.isHeldExclusively: locked, by whichever thread.
IsHeld == owner # NoThread

\* Mutant of Lock: tryAcquire without its compare-and-set.
LockAnyway(t) == owner' = t /\ UNCHANGED <<waiting, woken>>

\* Mutex.lock(): taken when the state is 0; until then the thread stays blocked.
Lock(t) ==
    /\ owner = NoThread
    /\ owner' = t
    /\ UNCHANGED <<waiting, woken>>

\* Mutex.unlock(): any thread may release; an unlocked Mutex throws.
Unlock ==
    /\ IsHeld
    /\ owner' = NoThread
    /\ UNCHANGED <<waiting, woken>>

\* Condition.wait: enqueue and release the Mutex in one step.
Await(t) ==
    /\ IsHeld
    /\ waiting' = waiting \cup {t}
    /\ owner' = NoThread
    /\ UNCHANGED woken

\* The wait set and wake-up record after the threads of S are taken out for why.
Wake(S, why) ==
    /\ waiting' = waiting \ S
    /\ woken' = [t \in Threads |-> IF t \in S THEN why ELSE woken[t]]

\* Condition.notify(1): some waiter, if there is one, leaves the queue.
Signal ==
    /\ IsHeld
    /\ IF waiting = {} THEN UNCHANGED <<waiting, woken>>
                       ELSE \E w \in waiting : Wake({w}, "signal")
    /\ UNCHANGED owner

\* Condition.notifyAll: every waiter leaves the queue.
SignalAll ==
    /\ IsHeld
    /\ Wake(waiting, "signal")
    /\ UNCHANGED owner

\* A timed wait runs out, or Thread.interrupt() reaches a parked waiter.  Both
\* compete with notify for the waiter; whoever dequeues it first decides.
Expire(t, why) ==
    /\ t \in waiting
    /\ Wake({t}, why)
    /\ UNCHANGED owner

\* await() takes the Mutex again; only then does it return, or throw.
Reacquire(t) ==
    /\ woken[t] # "no"
    /\ owner = NoThread
    /\ owner' = t
    /\ woken' = [woken EXCEPT ![t] = "no"]
    /\ UNCHANGED waiting
==============================================================================
