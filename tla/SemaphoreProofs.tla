--------------------------- MODULE SemaphoreProofs ---------------------------
(***************************************************************************)
(* Safety of threading.BoundedSemaphore for any set of threads, any        *)
(* initial value, interrupts or not.                                       *)
(***************************************************************************)
EXTENDS Semaphore, FiniteSetTheorems, TLAPS
------------------------------------------------------------------------------
LEMMA LockInvInit == Init => LockInv
  BY ThreadsAssumption, SemaphoreAssumption
  DEF Init, CondInit, LockInv, TypeOK, CondTypeOK, WaitersInQueue, MutualExclusion,
      Critical, Labels, Wakeups

LEMMA LockInvNext == LockInv /\ [Next]_vars => LockInv'
<1> SUFFICES ASSUME LockInv, [Next]_vars PROVE LockInv'
  OBVIOUS
<1> USE ThreadsAssumption, SemaphoreAssumption
    DEF LockInv, TypeOK, CondTypeOK, WaitersInQueue, MutualExclusion, Critical,
        Labels, Wakeups, Goto, condVars, semVars
<1>1. ASSUME NEW t \in Threads, CallAcquire(t) PROVE LockInv'
  BY <1>1 DEF CallAcquire
<1>2. ASSUME NEW t \in Threads, EnterAcquire(t) PROVE LockInv'
  BY <1>2 DEF EnterAcquire, Lock
<1>3. ASSUME NEW t \in Threads, TakePermit(t) PROVE LockInv'
  BY <1>3 DEF TakePermit
<1>4. ASSUME NEW t \in Threads, GiveUp(t) PROVE LockInv'
  BY <1>4 DEF GiveUp
<1>5. ASSUME NEW t \in Threads, WaitForPermit(t) PROVE LockInv'
  BY <1>5 DEF WaitForPermit, Await, IsHeld
<1>6. ASSUME NEW t \in Threads, ReturnFromWait(t) PROVE LockInv'
  BY <1>6 DEF ReturnFromWait, Reacquire
<1>7. ASSUME NEW t \in Threads, Interrupt(t) PROVE LockInv'
  BY <1>7 DEF Interrupt, Expire, Wake
<1>8. ASSUME NEW t \in Threads, CallRelease(t) PROVE LockInv'
  BY <1>8 DEF CallRelease
<1>9. ASSUME NEW t \in Threads, RejectRelease(t) \/ PassCheck(t) PROVE LockInv'
  BY <1>9 DEF RejectRelease, PassCheck
<1>10. ASSUME NEW t \in Threads, EnterRelease(t) PROVE LockInv'
  BY <1>10 DEF EnterRelease, Lock
<1>11. ASSUME NEW t \in Threads, PostPermit(t) PROVE LockInv'
  <2>1. CASE waiting = {}
    BY <1>11, <2>1 DEF PostPermit, Signal, IsHeld
  <2>2. CASE waiting # {}
    BY <1>11, <2>2 DEF PostPermit, Signal, IsHeld, Wake
  <2>3. QED
    BY <2>1, <2>2
<1>12. ASSUME NEW t \in Threads, Exit(t) PROVE LockInv'
  BY <1>12 DEF Exit, Unlock, IsHeld
<1>13. CASE UNCHANGED vars
  BY <1>13 DEF vars
<1>14. QED
  BY <1>1, <1>2, <1>3, <1>4, <1>5, <1>6, <1>7, <1>8, <1>9, <1>10, <1>11, <1>12, <1>13
  DEF Next, Acquire, Release

\* LockInv holds throughout: the variables have their types, and waiters are
\* where cond.wait() puts them.
THEOREM LockInvariant == Spec => []LockInv
<1>1. Init => LockInv
  BY LockInvInit
<1>2. LockInv /\ [Next]_vars => LockInv'
  BY LockInvNext
<1>3. QED
  BY <1>1, <1>2, PTL DEF Spec

\* At most one thread is between cond.acquire() and cond.release().
THEOREM MutualExclusionHolds == Spec => []MutualExclusion
<1>1. LockInv => MutualExclusion
  BY DEF LockInv
<1>2. QED
  BY <1>1, LockInvariant, PTL
------------------------------------------------------------------------------
\* A filtered set of threads is finite; it counts one more when a thread joins
\* it, and one less at most when a thread leaves.
LEMMA CountJoin ==
  ASSUME NEW S \in SUBSET Threads, NEW t \in Threads, t \notin S
  PROVE  /\ IsFiniteSet(S) /\ Cardinality(S) \in Nat
         /\ Cardinality(S \cup {t}) = Cardinality(S) + 1
<1>1. IsFiniteSet(S)
  BY SemaphoreAssumption, FS_Subset
<1>2. QED
  BY <1>1, FS_AddElement, FS_CardinalityType

LEMMA CountLeave ==
  ASSUME NEW S \in SUBSET Threads, NEW t \in Threads, t \in S
  PROVE  /\ IsFiniteSet(S) /\ Cardinality(S) \in Nat
         /\ Cardinality(S \ {t}) = Cardinality(S) - 1
<1>1. IsFiniteSet(S)
  BY SemaphoreAssumption, FS_Subset
<1>2. QED
  BY <1>1, FS_RemoveElement, FS_CardinalityType

LEMMA CountSubset ==
  ASSUME NEW S \in SUBSET Threads, NEW T \in SUBSET S
  PROVE  /\ Cardinality(S) \in Nat /\ Cardinality(T) \in Nat
         /\ Cardinality(T) <= Cardinality(S)
<1>1. IsFiniteSet(S)
  BY SemaphoreAssumption, FS_Subset
<1>2. QED
  BY <1>1, FS_Subset, FS_CardinalityType
------------------------------------------------------------------------------
LEMMA ConservationInit == Init => Conservation
<1>1. Init => Releasing = {}
  BY DEF Init, Releasing
<1>2. QED
  BY <1>1, FS_EmptySet, SemaphoreAssumption DEF Init, Conservation

\* What each step does to the threads with a release under way.
LEMMA ConservationNext ==
  LockInv /\ Conservation /\ [Next]_vars => Conservation'
<1> SUFFICES ASSUME LockInv, Conservation, [Next]_vars, balanced'
             PROVE  (value + out + Cardinality(Releasing) = InitialValue)'
  BY DEF Conservation
<1>b. balanced
  BY DEF Next, Acquire, Release, CallAcquire, CallRelease, EnterAcquire, TakePermit,
         GiveUp, WaitForPermit, ReturnFromWait, RejectRelease, PassCheck, EnterRelease,
         PostPermit, Exit, Interrupt, vars, semVars
<1> USE DEF LockInv, TypeOK, Goto
<1>0. /\ value \in Nat /\ out \in Nat /\ InitialValue \in Nat
      /\ value + out + Cardinality(Releasing) = InitialValue
      /\ Cardinality(Releasing) \in Nat /\ Releasing \in SUBSET Threads
  BY <1>b, CountSubset, SemaphoreAssumption DEF Conservation, Releasing
<1>1. ASSUME UNCHANGED <<value, out>>, Releasing' = Releasing
      PROVE  (value + out + Cardinality(Releasing) = InitialValue)'
  BY <1>0, <1>1
<1>2. ASSUME NEW t \in Threads, CallAcquire(t) \/ EnterAcquire(t) \/ GiveUp(t)
      PROVE  UNCHANGED <<value, out>> /\ Releasing' = Releasing
  BY <1>2 DEF CallAcquire, EnterAcquire, GiveUp, Releasing
<1>3. ASSUME NEW t \in Threads, WaitForPermit(t) \/ ReturnFromWait(t) \/ Interrupt(t)
      PROVE  UNCHANGED <<value, out>> /\ Releasing' = Releasing
  BY <1>3 DEF WaitForPermit, ReturnFromWait, Interrupt, semVars, Releasing
<1>4. ASSUME NEW t \in Threads, PassCheck(t) \/ EnterRelease(t) \/ Exit(t)
      PROVE  UNCHANGED <<value, out>> /\ Releasing' = Releasing
  BY <1>4 DEF PassCheck, EnterRelease, Exit, Releasing
<1>5. ASSUME NEW t \in Threads, TakePermit(t)
      PROVE  (value + out + Cardinality(Releasing) = InitialValue)'
  <2>1. Releasing' = Releasing /\ value' = value - 1 /\ out' = out + 1
    BY <1>5 DEF TakePermit, Releasing
  <2>2. QED
    BY <2>1, <1>0
<1>6. ASSUME NEW t \in Threads, CallRelease(t)
      PROVE  (value + out + Cardinality(Releasing) = InitialValue)'
  <2>1. t \notin Releasing /\ Releasing' = Releasing \cup {t}
    BY <1>6 DEF CallRelease, Releasing
  <2>2. value' = value /\ out' = out - 1 /\ out > 0
    BY <1>6 DEF CallRelease
  <2>3. Cardinality(Releasing') = Cardinality(Releasing) + 1
    BY <2>1, <1>0, CountJoin
  <2>4. QED
    BY <2>2, <2>3, <1>0
\* A balanced release is never rejected: its own permit is not available.
<1>7. ASSUME NEW t \in Threads, RejectRelease(t) PROVE FALSE
  <2>1. t \in Releasing
    BY <1>7 DEF RejectRelease, Releasing
  <2>2. Cardinality(Releasing \ {t}) = Cardinality(Releasing) - 1
        /\ Cardinality(Releasing \ {t}) \in Nat
    BY <2>1, <1>0, CountLeave, CountSubset
  <2>3. value < InitialValue
    BY <2>2, <1>0
  <2>4. QED
    BY <2>3, <1>0, <1>7 DEF RejectRelease
<1>8. ASSUME NEW t \in Threads, PostPermit(t)
      PROVE  (value + out + Cardinality(Releasing) = InitialValue)'
  <2>1. t \in Releasing /\ Releasing' = Releasing \ {t}
    BY <1>8 DEF PostPermit, Releasing
  <2>2. value' = value + 1 /\ out' = out
    BY <1>8 DEF PostPermit
  <2>3. Cardinality(Releasing') = Cardinality(Releasing) - 1
    BY <2>1, <1>0, CountLeave
  <2>4. QED
    BY <2>2, <2>3, <1>0
<1>9. CASE UNCHANGED vars
  BY <1>9, <1>1 DEF vars, semVars, Releasing
<1>10. QED
  BY <1>1, <1>2, <1>3, <1>4, <1>5, <1>6, <1>7, <1>8, <1>9 DEF Next, Acquire, Release

\* With balanced callers permits are neither lost nor invented.
THEOREM ConservationHolds == Spec => []Conservation
<1>1. Init => Conservation
  BY ConservationInit
<1>2. LockInv /\ Conservation /\ [Next]_vars => Conservation'
  BY ConservationNext
<1>3. QED
  BY <1>1, <1>2, LockInvariant, PTL DEF Spec
------------------------------------------------------------------------------
LEMMA NoLostWakeupNext ==
  LockInv /\ NoLostWakeup /\ [Next]_vars => NoLostWakeup'
<1> SUFFICES ASSUME LockInv, NoLostWakeup, [Next]_vars PROVE NoLostWakeup'
  OBVIOUS
<1> USE DEF LockInv, TypeOK, CondTypeOK, WaitersInQueue, Goto
<1>0. /\ Awake \in SUBSET Threads /\ Awake' \in SUBSET Threads
      /\ Cardinality(Awake) \in Nat /\ Cardinality(Awake') \in Nat
      /\ value \in Nat
  BY CountSubset DEF Awake
\* Steps that add no permit, put nobody to sleep and keep everybody awake.
<1>1. ASSUME value' = value, waiting' \subseteq waiting, Awake \subseteq Awake'
      PROVE  NoLostWakeup'
  <2>1. Cardinality(Awake) <= Cardinality(Awake')
    BY <1>0, <1>1, CountSubset
  <2>2. QED
    BY <2>1, <1>0, <1>1 DEF NoLostWakeup
<1>2. ASSUME NEW t \in Threads, CallAcquire(t) \/ EnterAcquire(t) \/ GiveUp(t)
      PROVE  NoLostWakeup'
  BY <1>1, <1>2 DEF CallAcquire, EnterAcquire, GiveUp, Lock, condVars, Awake
<1>3. ASSUME NEW t \in Threads, CallRelease(t) \/ RejectRelease(t) \/ PassCheck(t)
      PROVE  NoLostWakeup'
  BY <1>1, <1>3 DEF CallRelease, RejectRelease, PassCheck, condVars, Awake
<1>4. ASSUME NEW t \in Threads, EnterRelease(t) \/ Exit(t)
      PROVE  NoLostWakeup'
  BY <1>1, <1>4 DEF EnterRelease, Exit, Lock, Unlock, Awake
\* The taker of a permit is the one thread that stops being awake.
<1>5. ASSUME NEW t \in Threads, TakePermit(t) PROVE NoLostWakeup'
  <2>1. value' = value - 1 /\ waiting' = waiting /\ woken' = woken
    BY <1>5 DEF TakePermit, condVars
  <2>2. Awake' = Awake \ {t}
    BY <1>5 DEF TakePermit, condVars, Awake
  <2>3. Cardinality(Awake') >= Cardinality(Awake) - 1
    <3>1. CASE t \in Awake
      BY <3>1, <2>2, <1>0, CountLeave
    <3>2. CASE t \notin Awake
      <4>1. Awake' = Awake
        BY <3>2, <2>2
      <4>2. QED
        BY <4>1, <1>0
    <3>3. QED
      BY <3>1, <3>2
  <2>4. QED
    BY <2>1, <2>3, <1>0, <1>5 DEF TakePermit, NoLostWakeup
\* A thread goes to sleep only when there is no permit.
<1>6. ASSUME NEW t \in Threads, WaitForPermit(t) PROVE NoLostWakeup'
  BY <1>0, <1>6 DEF WaitForPermit, NoLostWakeup
<1>7. ASSUME NEW t \in Threads, ReturnFromWait(t) PROVE NoLostWakeup'
  BY <1>1, <1>7 DEF ReturnFromWait, Reacquire, Awake
<1>8. ASSUME NEW t \in Threads, Interrupt(t) PROVE NoLostWakeup'
  BY <1>1, <1>8 DEF Interrupt, Expire, Wake, semVars, Awake
\* A permit comes with a wake-up if there is anybody to wake.
<1>9. ASSUME NEW t \in Threads, PostPermit(t) PROVE NoLostWakeup'
  <2>1. CASE waiting = {}
    BY <2>1, <1>9 DEF PostPermit, Signal, NoLostWakeup
  <2>2. CASE waiting # {}
    <3>1. PICK w \in waiting : Wake({w}, "signal")
      BY <2>2, <1>9 DEF PostPermit, Signal
    <3>2. w \in Threads /\ w \notin Awake /\ w # t
      BY <3>1, <1>9 DEF PostPermit, Awake
    <3>3. Awake' = Awake \cup {w}
      BY <3>1, <3>2, <1>9 DEF PostPermit, Wake, Awake
    <3>4. Cardinality(Awake') = Cardinality(Awake) + 1
      BY <3>2, <3>3, <1>0, CountJoin
    <3>5. value' = value + 1 /\ value <= Cardinality(Awake)
      BY <2>2, <1>9 DEF PostPermit, NoLostWakeup
    <3>6. QED
      BY <3>4, <3>5, <1>0 DEF NoLostWakeup
  <2>3. QED
    BY <2>1, <2>2
<1>10. CASE UNCHANGED vars
  BY <1>1, <1>10 DEF vars, condVars, semVars, Awake
<1>11. QED
  BY <1>2, <1>3, <1>4, <1>5, <1>6, <1>7, <1>8, <1>9, <1>10 DEF Next, Acquire, Release

\* A permit never sits unused while everybody who wants it sleeps.
THEOREM NoLostWakeupHolds == Spec => []NoLostWakeup
<1>1. Init => NoLostWakeup
  BY DEF Init, CondInit, NoLostWakeup
<1>2. LockInv /\ NoLostWakeup /\ [Next]_vars => NoLostWakeup'
  BY NoLostWakeupNext
<1>3. QED
  BY <1>1, <1>2, LockInvariant, PTL DEF Spec
------------------------------------------------------------------------------
\* A release is admitted below the bound; from then on, only threads admitted at
\* the same time can carry value past it.
ExcessInv == value + Cardinality(Admitted) <= InitialValue - 1 + Cardinality(Threads)

LEMMA ExcessNext == LockInv /\ ExcessInv /\ [Next]_vars => ExcessInv'
<1> SUFFICES ASSUME LockInv, ExcessInv, [Next]_vars PROVE ExcessInv'
  OBVIOUS
<1> USE DEF LockInv, TypeOK, Goto
<1>0. /\ Admitted \in SUBSET Threads /\ Admitted' \in SUBSET Threads
      /\ Cardinality(Admitted) \in Nat /\ Cardinality(Admitted') \in Nat
      /\ Cardinality(Threads) \in Nat /\ Cardinality(Admitted') <= Cardinality(Threads)
      /\ value \in Nat /\ InitialValue \in Nat
  BY CountSubset, SemaphoreAssumption DEF Admitted
<1>1. ASSUME value' = value, Admitted' = Admitted PROVE ExcessInv'
  BY <1>1, <1>0 DEF ExcessInv
<1>2. ASSUME NEW t \in Threads, CallAcquire(t) \/ EnterAcquire(t) \/ GiveUp(t)
      PROVE  ExcessInv'
  BY <1>1, <1>2 DEF CallAcquire, EnterAcquire, GiveUp, Admitted
<1>3. ASSUME NEW t \in Threads, WaitForPermit(t) \/ ReturnFromWait(t) \/ Interrupt(t)
      PROVE  ExcessInv'
  BY <1>1, <1>3 DEF WaitForPermit, ReturnFromWait, Interrupt, semVars, Admitted
<1>4. ASSUME NEW t \in Threads, CallRelease(t) \/ RejectRelease(t) \/ EnterRelease(t)
      PROVE  ExcessInv'
  BY <1>1, <1>4 DEF CallRelease, RejectRelease, EnterRelease, Admitted
<1>5. ASSUME NEW t \in Threads, Exit(t) PROVE ExcessInv'
  BY <1>1, <1>5 DEF Exit, Admitted
<1>6. ASSUME NEW t \in Threads, TakePermit(t) PROVE ExcessInv'
  <2>1. Admitted' = Admitted /\ value' = value - 1
    BY <1>6 DEF TakePermit, Admitted
  <2>2. QED
    BY <2>1, <1>0 DEF ExcessInv
<1>7. ASSUME NEW t \in Threads, PassCheck(t) PROVE ExcessInv'
  BY <1>7, <1>0 DEF PassCheck, ExcessInv
<1>8. ASSUME NEW t \in Threads, PostPermit(t) PROVE ExcessInv'
  <2>1. t \in Admitted /\ Admitted' = Admitted \ {t} /\ value' = value + 1
    BY <1>8 DEF PostPermit, Admitted
  <2>2. Cardinality(Admitted') = Cardinality(Admitted) - 1
    BY <2>1, <1>0, CountLeave
  <2>3. QED
    BY <2>1, <2>2, <1>0 DEF ExcessInv
<1>9. CASE UNCHANGED vars
  BY <1>1, <1>9 DEF vars, semVars, Admitted
<1>10. QED
  BY <1>2, <1>3, <1>4, <1>5, <1>6, <1>7, <1>8, <1>9 DEF Next, Acquire, Release

\* However callers misuse it, value stays below InitialValue plus one per thread.
THEOREM ExcessBoundedHolds == Spec => []ExcessBounded
<1>1. Init => ExcessInv
  <2>1. Init => Admitted = {} /\ value = InitialValue
    BY DEF Init, Admitted
  <2>2. Cardinality(Threads) \in Nat /\ Cardinality(Threads) # 0
    BY SemaphoreAssumption, FS_EmptySet, FS_CardinalityType
  <2>3. Admitted = {} => Cardinality(Admitted) = 0
    BY FS_EmptySet
  <2>4. InitialValue \in Nat
    BY SemaphoreAssumption
  <2>5. QED
    BY <2>1, <2>2, <2>3, <2>4 DEF ExcessInv
<1>2. LockInv /\ ExcessInv /\ [Next]_vars => ExcessInv'
  BY ExcessNext
<1>3. LockInv /\ ExcessInv => ExcessBounded
  <2>1. Cardinality(Admitted) \in Nat /\ Cardinality(Threads) \in Nat
    BY CountSubset DEF Admitted
  <2>2. QED
    BY <2>1, SemaphoreAssumption DEF ExcessInv, ExcessBounded, LockInv, TypeOK
<1>4. QED
  BY <1>1, <1>2, <1>3, LockInvariant, PTL DEF Spec
------------------------------------------------------------------------------
(* Refinement: the mapping takes every step to an atomic semaphore's step or to a stutter. *)

\* The mode of a thread depends on its own pc and argument only.
LEMMA ModeStep ==
  ASSUME NEW t \in Threads, pc \in [Threads -> Labels], NEW l, Goto(t, l),
         \A u \in Threads \ {t} : blocking'[u] = blocking[u]
  PROVE  Modes' = [Modes EXCEPT ![t] = Mode(t)']
<1>1. \A u \in Threads \ {t} : pc'[u] = pc[u]
  BY DEF Goto
<1>2. \A u \in Threads \ {t} : Mode(u)' = Mode(u)
  BY <1>1 DEF Mode, Releasing
<1>3. QED
  BY <1>2 DEF Modes

LEMMA RefinesNext == LockInv /\ [Next]_vars => [Abstract!ANext]_(Abstract!absVars)
<1> SUFFICES ASSUME LockInv, [Next]_vars
             PROVE  Abstract!ANext \/ UNCHANGED <<value, Modes>>
  BY DEF Abstract!absVars
<1> USE DEF LockInv, TypeOK, CondTypeOK, WaitersInQueue
<1>1. \A t \in Threads : Modes[t] = Mode(t)
  BY DEF Modes
<1>2. ASSUME NEW t \in Threads, CallAcquire(t) PROVE Abstract!Call(t)
  <2>1. Mode(t) = "idle" /\ Mode(t)' \in {"acquiring", "trying"}
    BY <1>2 DEF CallAcquire, Mode, Releasing, Goto
  <2>2. Modes' = [Modes EXCEPT ![t] = Mode(t)'] /\ value' = value
    BY <1>2, ModeStep DEF CallAcquire
  <2>3. QED
    BY <1>1, <2>1, <2>2 DEF Abstract!Call, Abstract!Become
<1>3. ASSUME NEW t \in Threads, EnterAcquire(t) \/ WaitForPermit(t)
      PROVE  UNCHANGED <<value, Modes>>
  <2>1. Mode(t)' = Mode(t)
    BY <1>3 DEF EnterAcquire, WaitForPermit, Mode, Releasing, Goto
  <2>2. Modes' = [Modes EXCEPT ![t] = Mode(t)'] /\ value' = value
    BY <1>3, ModeStep DEF EnterAcquire, WaitForPermit
  <2>3. QED
    BY <1>1, <2>1, <2>2 DEF Modes
<1>4. ASSUME NEW t \in Threads, TakePermit(t) PROVE Abstract!Grant(t)
  <2>1. Mode(t) \in {"acquiring", "trying"} /\ Mode(t)' = "idle"
    BY <1>4 DEF TakePermit, Mode, Releasing, Goto
  <2>2. Modes' = [Modes EXCEPT ![t] = Mode(t)'] /\ value' = value - 1 /\ value > 0
    BY <1>4, ModeStep DEF TakePermit
  <2>3. QED
    BY <1>1, <2>1, <2>2 DEF Abstract!Grant, Abstract!Become
<1>5. ASSUME NEW t \in Threads, GiveUp(t) PROVE Abstract!Refuse(t)
  <2>1. Mode(t) = "trying" /\ Mode(t)' = "idle"
    BY <1>5 DEF GiveUp, Mode, Releasing, Goto
  <2>2. Modes' = [Modes EXCEPT ![t] = Mode(t)'] /\ value' = value /\ value = 0
    BY <1>5, ModeStep DEF GiveUp
  <2>3. QED
    BY <1>1, <2>1, <2>2 DEF Abstract!Refuse, Abstract!Become
<1>6. ASSUME NEW t \in Threads, ReturnFromWait(t)
      PROVE  Abstract!Abandon(t) \/ UNCHANGED <<value, Modes>>
  <2>1. Mode(t) = "acquiring" /\ Mode(t)' \in {"acquiring", "idle"}
    BY <1>6 DEF ReturnFromWait, Reacquire, Mode, Releasing, Goto
  <2>2. Modes' = [Modes EXCEPT ![t] = Mode(t)'] /\ value' = value
    <3>1. \E l : Goto(t, l)
      BY <1>6 DEF ReturnFromWait
    <3>2. QED
      BY <1>6, <3>1, ModeStep DEF ReturnFromWait
  <2>3. CASE Mode(t)' = "idle"
    BY <1>1, <2>1, <2>2, <2>3 DEF Abstract!Abandon, Abstract!Become
  <2>4. CASE Mode(t)' = "acquiring"
    BY <2>1, <2>2, <2>4 DEF Modes
  <2>5. QED
    BY <2>1, <2>3, <2>4
<1>7. ASSUME NEW t \in Threads, CallRelease(t) PROVE Abstract!Call(t)
  <2>1. Mode(t) = "idle" /\ Mode(t)' = "releasing"
    BY <1>7 DEF CallRelease, Mode, Releasing, Goto
  <2>2. Modes' = [Modes EXCEPT ![t] = Mode(t)'] /\ value' = value
    BY <1>7, ModeStep DEF CallRelease
  <2>3. QED
    BY <1>1, <2>1, <2>2 DEF Abstract!Call, Abstract!Become
<1>8. ASSUME NEW t \in Threads, RejectRelease(t) PROVE Abstract!Reject(t)
  <2>1. Mode(t) = "releasing" /\ Mode(t)' = "idle"
    BY <1>8 DEF RejectRelease, Mode, Releasing, Goto
  <2>2. Modes' = [Modes EXCEPT ![t] = Mode(t)'] /\ value' = value /\ value >= InitialValue
    BY <1>8, ModeStep DEF RejectRelease
  <2>3. QED
    BY <1>1, <2>1, <2>2 DEF Abstract!Reject, Abstract!Become
<1>9. ASSUME NEW t \in Threads, PassCheck(t) \/ EnterRelease(t)
      PROVE  UNCHANGED <<value, Modes>>
  <2>1. Mode(t)' = Mode(t)
    BY <1>9 DEF PassCheck, EnterRelease, Mode, Releasing, Goto
  <2>2. Modes' = [Modes EXCEPT ![t] = Mode(t)'] /\ value' = value
    BY <1>9, ModeStep DEF PassCheck, EnterRelease
  <2>3. QED
    BY <1>1, <2>1, <2>2 DEF Modes
<1>10. ASSUME NEW t \in Threads, PostPermit(t) PROVE Abstract!Post(t)
  <2>1. Mode(t) = "releasing" /\ Mode(t)' = "idle"
    BY <1>10 DEF PostPermit, Mode, Releasing, Goto
  <2>2. Modes' = [Modes EXCEPT ![t] = Mode(t)'] /\ value' = value + 1
    BY <1>10, ModeStep DEF PostPermit
  <2>3. QED
    BY <1>1, <2>1, <2>2 DEF Abstract!Post, Abstract!Become
<1>11. ASSUME NEW t \in Threads, Exit(t) PROVE UNCHANGED <<value, Modes>>
  <2>1. Mode(t)' = Mode(t)
    BY <1>11 DEF Exit, Mode, Releasing, Goto
  <2>2. Modes' = [Modes EXCEPT ![t] = Mode(t)'] /\ value' = value
    BY <1>11, ModeStep DEF Exit
  <2>3. QED
    BY <1>1, <2>1, <2>2 DEF Modes
<1>12. ASSUME NEW t \in Threads, Interrupt(t) PROVE UNCHANGED <<value, Modes>>
  BY <1>12 DEF Interrupt, semVars, Modes, Mode, Releasing
<1>13. CASE UNCHANGED vars
  BY <1>13 DEF vars, semVars, Modes, Mode, Releasing
<1>14. QED
  BY <1>2, <1>3, <1>4, <1>5, <1>6, <1>7, <1>8, <1>9, <1>10, <1>11, <1>12, <1>13
  DEF Next, Acquire, Release, Abstract!ANext

\* _BoundedSemaphore implements the atomic semaphore: each call takes effect at
\* one instant, whatever the interleaving, the misuse and the interrupts.
THEOREM Refinement == Spec => ImplementsAtomic
<1>1. Init => Abstract!AInit
  BY DEF Init, Abstract!AInit, Modes, Mode, Releasing
<1>2. LockInv /\ [Next]_vars => [Abstract!ANext]_(Abstract!absVars)
  BY RefinesNext
<1>3. QED
  BY <1>1, <1>2, LockInvariant, PTL DEF Spec, ImplementsAtomic, Abstract!ASpec
==============================================================================
