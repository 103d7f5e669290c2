----------------------------- MODULE EventProofs -----------------------------
(***************************************************************************)
(* Safety of threading.Event and threading.Timer for any set of threads.   *)
(***************************************************************************)
EXTENDS Event, TLAPS

LEMMA LockInvInit == Init => LockInv
  BY ThreadsAssumption, EventAssumption
  DEF Init, CondInit, LockInv, TypeOK, CondTypeOK, RolesKept, WaitersInQueue,
      MutualExclusion, Critical, Labels, Wakeups

LEMMA LockInvNext == LockInv /\ [Next]_vars => LockInv'
<1> SUFFICES ASSUME LockInv, [Next]_vars PROVE LockInv'
  OBVIOUS
<1> USE ThreadsAssumption, EventAssumption
    DEF LockInv, TypeOK, CondTypeOK, RolesKept, WaitersInQueue, MutualExclusion, Critical,
        Labels, Wakeups, Goto, condVars, eventVars
<1>1. ASSUME NEW t \in Threads, Call(t) \/ CallWait(t) \/ Start(t) PROVE LockInv'
  <2>1. CASE Call(t)
    BY <2>1 DEF Call
  <2>2. CASE CallWait(t)
    <3>1. PICK b \in BOOLEAN : timed' = [timed EXCEPT ![t] = b]
      BY <2>2 DEF CallWait
    <3>2. timed' \in [Threads -> BOOLEAN]
      BY <3>1
    <3>3. QED
      BY <2>2, <3>2 DEF CallWait
  <2>3. CASE Start(t)
    BY <2>3 DEF Start
  <2>4. QED
    BY <1>1, <2>1, <2>2, <2>3
<1>2. ASSUME NEW t \in Threads, Enter(t) PROVE LockInv'
  BY <1>2 DEF Enter, Lock
<1>3. ASSUME NEW t \in Threads, SetFlag(t) PROVE LockInv'
  BY <1>3 DEF SetFlag, SignalAll, Wake, IsHeld
<1>4. ASSUME NEW t \in Threads, ClearFlag(t) PROVE LockInv'
  BY <1>4 DEF ClearFlag
<1>5. ASSUME NEW t \in Threads, TestFlag(t) PROVE LockInv'
  BY <1>5 DEF TestFlag, Await, IsHeld
<1>6. ASSUME NEW t \in Threads, ReturnFlag(t) PROVE LockInv'
  BY <1>6 DEF ReturnFlag
<1>7. ASSUME NEW t \in Threads, Exit(t) PROVE LockInv'
  BY <1>7 DEF Exit, Unlock, IsHeld, Users
<1>8. ASSUME NEW t \in Threads, Timeout(t) \/ Interrupt(t) PROVE LockInv'
  BY <1>8 DEF Timeout, Interrupt, Expire, Wake
<1>9. ASSUME NEW t \in Threads, ReturnFromWait(t) PROVE LockInv'
  BY <1>9 DEF ReturnFromWait, Reacquire
<1>10. ASSUME NEW t \in Threads, TimerStep(t) PROVE LockInv'
  <2>1. CASE TestFinished(t)
    <3>1. pc[t] # "idle" /\ pc' \in [Threads -> Labels]
      BY <2>1 DEF TestFinished
    <3>2. ran' \subseteq Timers
      BY <2>1 DEF TestFinished
    <3>3. QED
      BY <2>1, <3>1, <3>2 DEF TestFinished
  <2>2. CASE FunctionEnds(t)
    BY <2>2 DEF FunctionEnds
  <2>3. QED
    BY <1>10, <2>1, <2>2 DEF TimerStep
<1>11. CASE UNCHANGED vars
  BY <1>11 DEF vars
<1>12. QED
  BY <1>1, <1>2, <1>3, <1>4, <1>5, <1>6, <1>7, <1>8, <1>9, <1>10, <1>11
  DEF Next, Locked

\* LockInv holds throughout: types, waiters where cond.wait() puts them, and at
\* most one thread between cond.acquire() and cond.release().
THEOREM LockInvariant == Spec => []LockInv
<1>1. Init => LockInv
  BY LockInvInit
<1>2. LockInv /\ [Next]_vars => LockInv'
  BY LockInvNext
<1>3. QED
  BY <1>1, <1>2, PTL DEF Spec
------------------------------------------------------------------------------
LEMMA NoSleeperNext ==
  LockInv /\ NoSleeperWhileSet /\ [Next]_vars => NoSleeperWhileSet'
<1> SUFFICES ASSUME LockInv, NoSleeperWhileSet, [Next]_vars PROVE NoSleeperWhileSet'
  OBVIOUS
<1> USE DEF NoSleeperWhileSet
<1>1. ASSUME NEW t \in Threads, Call(t) \/ CallWait(t) \/ Start(t) \/ TimerStep(t)
      PROVE  NoSleeperWhileSet'
  BY <1>1 DEF Call, CallWait, Start, TimerStep, TestFinished, FunctionEnds, condVars
<1>2. ASSUME NEW t \in Threads, Enter(t) \/ ReturnFromWait(t) \/ ReturnFlag(t) \/ Exit(t)
      PROVE  NoSleeperWhileSet'
  BY <1>2 DEF Enter, Lock, ReturnFromWait, Reacquire, ReturnFlag, Exit, Unlock, condVars
<1>3. ASSUME NEW t \in Threads, SetFlag(t) PROVE NoSleeperWhileSet'
  BY <1>3 DEF SetFlag, SignalAll, Wake
<1>4. ASSUME NEW t \in Threads, ClearFlag(t) PROVE NoSleeperWhileSet'
  BY <1>4 DEF ClearFlag
<1>5. ASSUME NEW t \in Threads, TestFlag(t) PROVE NoSleeperWhileSet'
  BY <1>5 DEF TestFlag, condVars
<1>6. ASSUME NEW t \in Threads, Timeout(t) \/ Interrupt(t) PROVE NoSleeperWhileSet'
  BY <1>6 DEF Timeout, Interrupt, Expire, Wake, eventVars
<1>7. CASE UNCHANGED vars
  BY <1>7 DEF vars, condVars, eventVars
<1>8. QED
  BY <1>1, <1>2, <1>3, <1>4, <1>5, <1>6, <1>7 DEF Next, Locked

\* Nobody sleeps on an event that is set.
THEOREM NoSleeperWhileSetHolds == Spec => []NoSleeperWhileSet
<1>1. Init => NoSleeperWhileSet
  BY DEF Init, NoSleeperWhileSet
<1>2. LockInv /\ NoSleeperWhileSet /\ [Next]_vars => NoSleeperWhileSet'
  BY NoSleeperNext
<1>3. QED
  BY <1>1, <1>2, LockInvariant, PTL DEF Spec
------------------------------------------------------------------------------
\* The event of a cancelled timer stays set until somebody clears it, so a timer
\* that was cancelled before it looked finds the event set when it does.
CancelInv ==
    /\ early # {} => flag
    /\ \A t \in ran : pc[t] \notin Untested
    /\ early \cap ran = {}

LEMMA CancelNext == LockInv /\ CancelInv /\ [Next]_vars => CancelInv'
<1> SUFFICES ASSUME LockInv, CancelInv, [Next]_vars
             PROVE  /\ early' # {} => flag'
                    /\ \A t \in ran' : pc'[t] \notin Untested
                    /\ early' \cap ran' = {}
  BY DEF CancelInv
<1> USE EventAssumption DEF LockInv, TypeOK, RolesKept, Labels, Untested, Goto
<1>0. /\ early # {} => flag
      /\ \A t \in ran : t \in Threads /\ pc[t] \notin Untested
      /\ early \cap ran = {}
  BY DEF CancelInv
<1> DEFINE Kept == /\ early' # {} => flag'
                   /\ \A t \in ran' : pc'[t] \notin Untested
                   /\ early' \cap ran' = {}
<1> HIDE DEF Kept
\* Steps of other methods keep a timer that ran its function away from the test.
<1>1. ASSUME NEW t \in Threads, UNCHANGED <<flag, early, ran>>,
             NEW l \in Labels, pc' = [pc EXCEPT ![t] = l],
             t \in ran => l \notin Untested
      PROVE  Kept
  BY <1>0, <1>1 DEF Kept
<1>2. ASSUME NEW t \in Threads, Call(t) \/ CallWait(t) \/ Start(t) PROVE Kept
  <2>1. t \notin ran
    BY <1>0, <1>2 DEF Call, CallWait, Start
  <2>2. QED
    BY <1>1, <1>2, <2>1 DEF Call, CallWait, Start
<1>3. ASSUME NEW t \in Threads, Enter(t) \/ ReturnFromWait(t) \/ ReturnFlag(t) PROVE Kept
  <2>1. CASE Enter(t)
    BY <1>0, <1>1, <2>1 DEF Enter
  <2>2. CASE ReturnFromWait(t)
    BY <1>0, <1>1, <2>2 DEF ReturnFromWait
  <2>3. CASE ReturnFlag(t)
    BY <1>0, <1>1, <2>3 DEF ReturnFlag
  <2>4. QED
    BY <1>3, <2>1, <2>2, <2>3
<1>4. ASSUME NEW t \in Threads, Exit(t) PROVE Kept
  BY <1>0, <1>1, <1>4 DEF Exit, Users
<1>5. ASSUME NEW t \in Threads, SetFlag(t) PROVE Kept
  BY <1>0, <1>5 DEF SetFlag, Kept
<1>6. ASSUME NEW t \in Threads, ClearFlag(t) PROVE Kept
  BY <1>0, <1>6 DEF ClearFlag, Kept
<1>7. ASSUME NEW t \in Threads, TestFlag(t) PROVE Kept
  BY <1>0, <1>1, <1>7 DEF TestFlag
<1>8. ASSUME NEW t \in Threads, TestFinished(t) PROVE Kept
  <2>1. CASE flag
    BY <1>0, <1>1, <1>8, <2>1 DEF TestFinished
  <2>2. CASE ~flag
    BY <1>0, <1>8, <2>2 DEF TestFinished, Kept
  <2>3. QED
    BY <2>1, <2>2
<1>9. ASSUME NEW t \in Threads, FunctionEnds(t) PROVE Kept
  BY <1>0, <1>1, <1>9 DEF FunctionEnds
<1>10. ASSUME NEW t \in Threads, Timeout(t) \/ Interrupt(t) PROVE Kept
  BY <1>0, <1>10 DEF Timeout, Interrupt, eventVars, Kept
<1>11. CASE UNCHANGED vars
  BY <1>0, <1>11 DEF vars, eventVars, Kept
<1>12. QED
  BY <1>2, <1>3, <1>4, <1>5, <1>6, <1>7, <1>8, <1>9, <1>10, <1>11
  DEF Next, Locked, TimerStep, Kept

\* A cancel that takes effect before the timer looks keeps its function from running.
THEOREM CancelStopsTimerHolds == Spec => []CancelStopsTimer
<1>1. Init => CancelInv
  BY DEF Init, CancelInv
<1>2. LockInv /\ CancelInv /\ [Next]_vars => CancelInv'
  BY CancelNext
<1>3. CancelInv => CancelStopsTimer
  BY DEF CancelInv, CancelStopsTimer
<1>4. QED
  BY <1>1, <1>2, <1>3, LockInvariant, PTL DEF Spec
------------------------------------------------------------------------------
\* What a wait() without a timeout relies on, from its wake-up to its return: the
\* flag is still set, or a clear() that came first has put the thread in missed.
FalseInv ==
    \A t \in Users : ~timed[t] =>
        /\ woken[t] # "timeout"
        /\ woken[t] = "signal" \/ pc[t] = "w_return" => flag \/ t \in missed
        /\ pc[t] = "w_exit" => result[t] \/ t \in missed

LEMMA FalseNext == LockInv /\ FalseInv /\ [Next]_vars => FalseInv'
<1> SUFFICES ASSUME LockInv, FalseInv, [Next]_vars PROVE FalseInv'
  OBVIOUS
<1> USE ThreadsAssumption, EventAssumption
    DEF LockInv, TypeOK, CondTypeOK, RolesKept, WaitersInQueue, MutualExclusion, Critical,
        Labels, Wakeups, Goto, condVars, eventVars, Users, FalseInv
<1>1. ASSUME NEW t \in Threads, Call(t) PROVE FalseInv'
  BY <1>1 DEF Call
<1>2. ASSUME NEW t \in Threads, CallWait(t) PROVE FalseInv'
  <2>1. /\ woken[t] = "no" /\ pc'[t] = "w_enter"
        /\ UNCHANGED <<condVars, flag, result, missed>>
    BY <1>2 DEF CallWait
  <2>2. \A u \in Threads \ {t} : timed'[u] = timed[u] /\ pc'[u] = pc[u]
    BY <1>2 DEF CallWait
  <2>3. QED
    BY <2>1, <2>2
<1>3. ASSUME NEW t \in Threads, Start(t) PROVE FalseInv'
  BY <1>3 DEF Start
<1>4. ASSUME NEW t \in Threads, Enter(t) PROVE FalseInv'
  BY <1>4 DEF Enter, Lock
<1>5. ASSUME NEW t \in Threads, SetFlag(t) PROVE FalseInv'
  BY <1>5 DEF SetFlag, SignalAll, Wake, IsHeld
<1>6. ASSUME NEW t \in Threads, ClearFlag(t) PROVE FalseInv'
  BY <1>6 DEF ClearFlag
<1>7. ASSUME NEW t \in Threads, TestFlag(t) PROVE FalseInv'
  BY <1>7 DEF TestFlag, Await, IsHeld
<1>8. ASSUME NEW t \in Threads, ReturnFlag(t) PROVE FalseInv'
  BY <1>8 DEF ReturnFlag
<1>9. ASSUME NEW t \in Threads, Exit(t) PROVE FalseInv'
  BY <1>9 DEF Exit, Unlock, IsHeld
<1>10. ASSUME NEW t \in Threads, Timeout(t) \/ Interrupt(t) PROVE FalseInv'
  BY <1>10 DEF Timeout, Interrupt, Expire, Wake
<1>11. ASSUME NEW t \in Threads, ReturnFromWait(t) PROVE FalseInv'
  BY <1>11 DEF ReturnFromWait, Reacquire
<1>12. ASSUME NEW t \in Threads, TimerStep(t) PROVE FalseInv'
  BY <1>12 DEF TimerStep, TestFinished, FunctionEnds
<1>13. CASE UNCHANGED vars
  BY <1>13 DEF vars
<1>14. QED
  BY <1>1, <1>2, <1>3, <1>4, <1>5, <1>6, <1>7, <1>8, <1>9, <1>10, <1>11, <1>12, <1>13
  DEF Next, Locked

\* wait() without a timeout returns False only to a thread that a clear() overtook.
THEOREM FalseMeansClearedHolds == Spec => []FalseMeansCleared
<1>1. Init => FalseInv
  BY EventAssumption DEF Init, CondInit, FalseInv, Users
<1>2. LockInv /\ FalseInv /\ [Next]_vars => FalseInv'
  BY FalseNext
<1>3. FalseInv => FalseMeansCleared
  BY DEF FalseInv, FalseMeansCleared
<1>4. QED
  BY <1>1, <1>2, <1>3, LockInvariant, PTL DEF Spec
==============================================================================
