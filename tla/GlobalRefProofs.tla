---------------------------- MODULE GlobalRefProofs ----------------------------
(***************************************************************************)
(* Weak references are called back once and for good, none is forgotten,   *)
(* and the table of GlobalRefs is exact, for any objects, references,      *)
(* users, flags and number of GlobalRefs.                                  *)
(***************************************************************************)
EXTENDS GlobalRef, TLAPS

Callers == {Reaper, Processor}
Restorers == {Processor, Finalizer}
CallLabels == {"c_enter", "c_loop"}
RestoreLabels == {"r_enter", "r_list", "r_swap", "r_loop"}
Inside == {"c_loop", "r_list", "r_swap", "r_loop"}

\* The GlobalRefs that exist
MadeGrefs == {g \in Grefs : g[2] <= made[g[1]]}

\* The threads are different, and none of them is Nobody.
LEMMA ThreadFacts ==
  /\ Reaper \in Threads /\ Processor \in Threads /\ Finalizer \in Threads
  /\ Reaper # Processor /\ Reaper # Finalizer /\ Processor # Finalizer
  /\ \A t \in Users : t \in Threads /\ t \notin {Reaper, Processor, Finalizer}
  /\ Nobody \notin Threads /\ Callers \subseteq Threads /\ Restorers \subseteq Threads
  BY GlobalRefAssumption DEF Threads, Callers, Restorers

\* The parts of a GlobalRef.
LEMMA GrefParts ==
  /\ None \notin Grefs
  /\ \A g \in Grefs : g[1] \in Objects /\ g[2] \in 1 .. MaxGrefs /\ g = <<g[1], g[2]>>
  /\ \A o \in Objects, n \in 1 .. MaxGrefs :
        /\ <<o, n>> \in Grefs
        /\ <<o, n>>[1] = o /\ <<o, n>>[2] = n
  BY DEF Grefs, None

------------------------------------------------------------------------------
(* Types. *)

Places ==
  /\ pc[Reaper] \in {"idle", "failed", "delay"} \cup CallLabels
  /\ pc[Processor] \in {"idle", "p_restore", "p_calls", "p_finalize"}
                       \cup CallLabels \cup RestoreLabels
  /\ pc[Finalizer] \in {"idle", "r_done"} \cup RestoreLabels
  /\ \A t \in Users : pc[t] \in {"idle", "add", "deref", "load", "load_cleared", "test_cleared"}
  /\ \A t \in Users : pc[t] # "idle" => ref[t] \in Refs
  /\ \A t \in Threads : pc[t] \in {"delay", "add", "r_done"} \cup CallLabels \cup RestoreLabels
                            => hand[t] \in Grefs

MadeInv ==
  /\ \A o \in Objects : attr[o] = IF made[o] = 0 THEN None ELSE <<o, made[o]>>
  /\ live \subseteq MadeGrefs /\ queue \subseteq MadeGrefs /\ objects \subseteq MadeGrefs
  /\ cleared \subseteq MadeGrefs /\ delayed \subseteq MadeGrefs /\ toCall \subseteq MadeGrefs
  /\ stray \subseteq MadeGrefs
  /\ \A g \in Grefs : references[g] # {} => g \in MadeGrefs
  /\ \A r \in Refs : gref[r] \in MadeGrefs \cup {None}
  /\ \A t \in Threads : hand[t] \in MadeGrefs \cup {None}

\* The next GlobalRef of an object is a new one.
LEMMA NextMade ==
  ASSUME TypeOK, NEW o \in Objects, made[o] < MaxGrefs
  PROVE  /\ Next1(o) \in Grefs \ MadeGrefs /\ Next1(o)[1] = o /\ Next1(o) # None
         /\ made[o] + 1 \in 1 .. MaxGrefs
         /\ made' = [made EXCEPT ![o] = @ + 1] => MadeGrefs' = MadeGrefs \cup {Next1(o)}
<1> DEFINE n == Next1(o)
<1>1. made[o] \in Nat /\ made[o] + 1 \in 1 .. MaxGrefs /\ \A p \in Objects : made[p] \in Nat
  BY GlobalRefAssumption DEF TypeOK
<1>2. n \in Grefs /\ n[1] = o /\ n[2] = made[o] + 1 /\ n # None
  BY <1>1, GrefParts DEF Next1
<1>3. n \notin MadeGrefs
  BY <1>1, <1>2 DEF MadeGrefs
<1>4. ASSUME made' = [made EXCEPT ![o] = @ + 1] PROVE MadeGrefs' = MadeGrefs \cup {n}
  <2>1. \A g \in Grefs : /\ g[1] \in Objects /\ g[2] \in Nat
                         /\ (g[1] = o /\ g[2] = made[o] + 1) => g = n
    BY <1>1, GrefParts DEF Next1
  <2>2. made'[o] = made[o] + 1 /\ \A p \in Objects \ {o} : made'[p] = made[p]
    BY <1>4 DEF TypeOK
  <2> HIDE DEF n
  <2>3. \A g \in Grefs : g[2] <= made'[g[1]] <=> g[2] <= made[g[1]] \/ g = n
    BY <2>1, <2>2, <1>1, <1>2
  <2>4. QED
    BY <2>3, <1>2 DEF MadeGrefs
<1>5. QED
  BY <1>1, <1>2, <1>3, <1>4

\* The attribute of an object is one of its GlobalRefs.
LEMMA AttrMade ==
  ASSUME TypeOK, MadeInv, NEW o \in Objects
  PROVE  attr[o] # None => attr[o] \in MadeGrefs /\ attr[o][1] = o
<1>1. made[o] \in Nat /\ made[o] <= MaxGrefs
  BY GlobalRefAssumption DEF TypeOK
<1>2. ASSUME made[o] # 0 PROVE attr[o] \in MadeGrefs /\ attr[o][1] = o
  <2>1. attr[o] = <<o, made[o]>>
    BY <1>2 DEF MadeInv
  <2>2. made[o] \in 1 .. MaxGrefs
    BY <1>1, <1>2, GlobalRefAssumption
  <2>3. QED
    BY <2>1, <2>2, GrefParts, <1>1 DEF MadeGrefs
<1>3. QED
  BY <1>2 DEF MadeInv

\* A thread that works on a GlobalRef has one.
LEMMA HandMade ==
  ASSUME TypeOK, Places, MadeInv, NEW t \in Threads,
         pc[t] \in {"delay", "add", "r_done"} \cup CallLabels \cup RestoreLabels
  PROVE  hand[t] \in MadeGrefs /\ hand[t] \in Grefs /\ hand[t][1] \in Objects
  BY GrefParts DEF Places, MadeInv, TypeOK

Types == TypeOK /\ Places /\ MadeInv

\* t goes to the label l, and a reaper that has died is replaced.
GoesTo(t, l) ==
  /\ pc' \in [Threads -> Labels] /\ pc'[t] = l
  /\ \A u \in Threads \ {t} :
        pc'[u] = pc[u] \/ (u = Reaper /\ pc[u] = "failed" /\ pc'[u] = "idle")

LEMMA WithReaperEffect ==
  ASSUME TypeOK, NEW t \in Threads \ {Reaper}, NEW l \in Labels, pc' = WithReaper(t, l)
  PROVE  GoesTo(t, l)
<1>1. "idle" \in Labels /\ Reaper \in Threads /\ pc \in [Threads -> Labels]
  BY ThreadFacts DEF Labels, TypeOK
<1>2. QED
  BY ONLY <1>1, t \in Threads \ {Reaper}, l \in Labels, pc' = WithReaper(t, l)
  DEF WithReaper, GoesTo

LEMMA TypeOKStep ==
  ASSUME Types, [Next]_vars
  PROVE  TypeOK'
<1> USE ThreadFacts, GlobalRefAssumption DEF Types, TypeOK, Places, Labels, Lives, Goto,
        Take, jvm, table, pending, pass, CallLabels, RestoreLabels, Callers, Restorers
<1>1. ASSUME NEW o \in Objects, Collect(o) PROVE TypeOK'
  BY <1>1 DEF Collect
<1>2. ASSUME NEW o \in Objects, Register(o) PROVE TypeOK'
  BY <1>2 DEF Register
<1>3. ASSUME NEW o \in Objects, RunFinalizer(o) PROVE TypeOK'
  BY <1>3 DEF RunFinalizer
<1>4. ASSUME EndFinalizer PROVE TypeOK'
  BY <1>4 DEF EndFinalizer
<1>5. ASSUME Dequeue PROVE TypeOK'
  BY <1>5 DEF Dequeue
<1>6. ASSUME Delay PROVE TypeOK'
  BY <1>6 DEF Delay
<1>7. ASSUME NEW t \in Callers, EnterCall(t) PROVE TypeOK'
  <2>1. CASE hand[t] \in cleared
    BY <1>7, <2>1 DEF EnterCall, Caller
  <2>2. CASE hand[t] \notin cleared
    BY <1>7, <2>2 DEF EnterCall
  <2>3. QED
    BY <2>1, <2>2
<1>8. ASSUME NEW t \in Callers, RunCallback(t) PROVE TypeOK'
  BY <1>8 DEF RunCallback
<1>9. ASSUME NEW t \in Callers, LeaveCall(t) PROVE TypeOK'
  BY <1>9 DEF LeaveCall, Caller
<1>10. ASSUME NEW t \in Restorers, EnterRestore(t) PROVE TypeOK'
  BY <1>10 DEF EnterRestore
<1>11. ASSUME NEW t \in Restorers, Undelay(t) PROVE TypeOK'
  BY <1>11 DEF Undelay
<1>12. ASSUME NEW t \in Restorers, Swap(t) PROVE TypeOK'
  <2> DEFINE o == hand[t][1]
  <2>1. o \in Objects /\ made[o] < MaxGrefs /\ hand[t] \in Grefs
    BY <1>12, GrefParts DEF Swap
  <2>2. Next1(o) \in Grefs /\ made[o] + 1 \in 0 .. MaxGrefs
    BY <2>1, NextMade
  <2>3. hand' \in [Threads -> Grefs \cup {None}] /\ pc' \in [Threads -> Labels]
    BY <1>12 DEF Swap, WithReaper
  <2>4. left' \in [Threads -> SUBSET Refs] /\ references' \in [Grefs -> SUBSET Refs]
    BY <1>12, <2>1, <2>2 DEF Swap
  <2> HIDE DEF o
  <2>5. made' \in [Objects -> 0 .. MaxGrefs] /\ attr' \in [Objects -> Grefs \cup {None}]
    BY <1>12, <2>1, <2>2 DEF Swap, o
  <2>6. objects' \subseteq Grefs /\ live' \subseteq Grefs /\ stray' \subseteq Grefs
    BY <1>12, <2>1, <2>2 DEF Swap, o
  <2>7. QED
    BY <1>12, <2>1, <2>2, <2>3, <2>4, <2>5, <2>6 DEF Swap
<1>13. ASSUME NEW t \in Restorers, MoveReference(t) PROVE TypeOK'
  BY <1>13, GrefParts DEF MoveReference
<1>14. ASSUME NEW t \in Restorers, LeaveRestore(t) PROVE TypeOK'
  BY <1>14 DEF LeaveRestore
<1>15. ASSUME StartPass PROVE TypeOK'
  BY <1>15 DEF StartPass
<1>16. ASSUME RestoreNext PROVE TypeOK'
  BY <1>16 DEF RestoreNext
<1>17. ASSUME LockList PROVE TypeOK'
  BY <1>17 DEF LockList
<1>18. ASSUME CallNext PROVE TypeOK'
  BY <1>18 DEF CallNext
<1>19. ASSUME ClearList PROVE TypeOK'
  BY <1>19 DEF ClearList
<1>20. ASSUME RunDelayedFinalizers PROVE TypeOK'
  BY <1>20 DEF RunDelayedFinalizers
<1>21. ASSUME NEW t \in Users, NEW r \in Refs, NewInstance(t, r) PROVE TypeOK'
  <2>1. Referent[r] \in Objects /\ pc' \in [Threads -> Labels]
    BY <1>21 DEF NewInstance, WithReaper
  <2>2. QED
    BY <1>21, <2>1, NextMade DEF NewInstance
<1>22. ASSUME NEW t \in Users, Add(t) PROVE TypeOK'
  BY <1>22 DEF Add
<1>23. ASSUME NEW t \in Users, NEW r \in Refs, CallReference(t, r) PROVE TypeOK'
  BY <1>23 DEF CallReference
<1>24. ASSUME NEW t \in Users, Deref(t) PROVE TypeOK'
  BY <1>24 DEF Deref, Return
<1>25. ASSUME NEW t \in Users, LoadGref(t) PROVE TypeOK'
  BY <1>25 DEF LoadGref
<1>26. ASSUME NEW t \in Users, TestCleared(t) PROVE TypeOK'
  BY <1>26 DEF TestCleared, Return
<1>27. ASSUME UNCHANGED vars PROVE TypeOK'
  BY <1>27 DEF vars
<1>28. QED
  BY <1>1, <1>2, <1>3, <1>4, <1>5, <1>6, <1>7, <1>8, <1>9, <1>10, <1>11, <1>12, <1>13,
     <1>14, <1>15, <1>16, <1>17, <1>18, <1>19, <1>20, <1>21, <1>22, <1>23, <1>24, <1>25,
     <1>26, <1>27 DEF Next, Collector, ReaperStep, PassStep, FinalizerStep, Call, Restore,
     Dereference, Callers, Restorers

LEMMA PlacesStep ==
  ASSUME Types, [Next]_vars
  PROVE  Places'
<1> USE ThreadFacts DEF Types, TypeOK, Places, Goto, Take, jvm, table, pending, pass,
        CallLabels, RestoreLabels, Callers, Restorers
<1>1. ASSUME NEW o \in Objects, Collect(o) PROVE Places'
  BY <1>1 DEF Collect
<1>2. ASSUME NEW o \in Objects, Register(o) PROVE Places'
  BY <1>2 DEF Register
<1>3. ASSUME NEW o \in Objects, RunFinalizer(o) PROVE Places'
  BY <1>3, GrefParts DEF RunFinalizer
<1>4. ASSUME EndFinalizer PROVE Places'
  BY <1>4 DEF EndFinalizer
<1>5. ASSUME Dequeue PROVE Places'
  BY <1>5 DEF Dequeue
<1>6. ASSUME Delay PROVE Places'
  BY <1>6 DEF Delay
<1>7. ASSUME NEW t \in Callers, EnterCall(t) PROVE Places'
  BY <1>7 DEF EnterCall, Caller
<1>8. ASSUME NEW t \in Callers, RunCallback(t) PROVE Places'
  BY <1>8 DEF RunCallback
<1>9. ASSUME NEW t \in Callers, LeaveCall(t) PROVE Places'
  BY <1>9 DEF LeaveCall, Caller
<1>10. ASSUME NEW t \in Restorers, EnterRestore(t) PROVE Places'
  BY <1>10 DEF EnterRestore
<1>11. ASSUME NEW t \in Restorers, Undelay(t) PROVE Places'
  BY <1>11 DEF Undelay
<1>12. ASSUME NEW t \in Restorers, Swap(t) PROVE Places'
  <2>1. \/ GoesTo(t, "r_loop") /\ hand' = hand
        \/ /\ GoesTo(t, IF t = Processor THEN "idle" ELSE "r_done")
           /\ hand' = [hand EXCEPT ![t] = IF t = Processor THEN None ELSE @]
    BY <1>12, WithReaperEffect DEF Swap, Labels
  <2>2. pc[t] = "r_swap" /\ ref' = ref
    BY <1>12 DEF Swap
  <2>3. QED
    BY <2>1, <2>2 DEF GoesTo
<1>13. ASSUME NEW t \in Restorers, MoveReference(t) PROVE Places'
  BY <1>13 DEF MoveReference
<1>14. ASSUME NEW t \in Restorers, LeaveRestore(t) PROVE Places'
  BY <1>14 DEF LeaveRestore
<1>15. ASSUME StartPass PROVE Places'
  BY <1>15 DEF StartPass
<1>16. ASSUME RestoreNext PROVE Places'
  BY <1>16, GrefParts DEF RestoreNext
<1>17. ASSUME LockList PROVE Places'
  BY <1>17 DEF LockList
<1>18. ASSUME CallNext PROVE Places'
  BY <1>18 DEF CallNext
<1>19. ASSUME ClearList PROVE Places'
  BY <1>19 DEF ClearList
<1>20. ASSUME RunDelayedFinalizers PROVE Places'
  BY <1>20 DEF RunDelayedFinalizers
<1>21. ASSUME NEW t \in Users, NEW r \in Refs, NewInstance(t, r) PROVE Places'
  <2>1. r \in Refs /\ ref' = [ref EXCEPT ![t] = r]
    BY <1>21 DEF NewInstance
  <2>2. GoesTo(t, "add")
    BY <1>21, WithReaperEffect DEF NewInstance, Labels
  <2>3. \E g \in Grefs : hand' = [hand EXCEPT ![t] = g]
    BY <1>21, NextMade, GlobalRefAssumption DEF NewInstance
  <2>4. QED
    BY <2>1, <2>2, <2>3 DEF GoesTo
<1>22. ASSUME NEW t \in Users, Add(t) PROVE Places'
  BY <1>22 DEF Add
<1>23. ASSUME NEW t \in Users, NEW r \in Refs, CallReference(t, r) PROVE Places'
  BY <1>23, GrefParts DEF CallReference
<1>24. ASSUME NEW t \in Users, Deref(t) PROVE Places'
  BY <1>24 DEF Deref, Return
<1>25. ASSUME NEW t \in Users, LoadGref(t) PROVE Places'
  BY <1>25 DEF LoadGref
<1>26. ASSUME NEW t \in Users, TestCleared(t) PROVE Places'
  BY <1>26 DEF TestCleared, Return
<1>27. ASSUME UNCHANGED vars PROVE Places'
  BY <1>27 DEF vars
<1>28. QED
  BY <1>1, <1>2, <1>3, <1>4, <1>5, <1>6, <1>7, <1>8, <1>9, <1>10, <1>11, <1>12, <1>13,
     <1>14, <1>15, <1>16, <1>17, <1>18, <1>19, <1>20, <1>21, <1>22, <1>23, <1>24, <1>25,
     <1>26, <1>27 DEF Next, Collector, ReaperStep, PassStep, FinalizerStep, Call, Restore,
     Dereference, Callers, Restorers

LEMMA MadeStep ==
  ASSUME Types, [Next]_vars
  PROVE  MadeInv'
<1> USE ThreadFacts DEF Types, TypeOK, Places, MadeInv, Goto, Take, jvm, table, pending,
        pass, CallLabels, RestoreLabels, Callers, Restorers
<1>1. ASSUME NEW o \in Objects, Collect(o) PROVE MadeInv'
  <2>1. MadeGrefs' = MadeGrefs
    BY <1>1 DEF Collect, MadeGrefs
  <2>2. QED
    BY <1>1, <2>1 DEF Collect
<1>2. ASSUME NEW o \in Objects, Register(o) PROVE MadeInv'
  <2>1. MadeGrefs' = MadeGrefs
    BY <1>2 DEF Register, MadeGrefs
  <2>2. QED
    BY <1>2, <2>1 DEF Register
<1>3. ASSUME NEW o \in Objects, RunFinalizer(o) PROVE MadeInv'
  <2>1. MadeGrefs' = MadeGrefs
    BY <1>3 DEF RunFinalizer, MadeGrefs
  <2>2. QED
    BY <1>3, <2>1, AttrMade DEF RunFinalizer
<1>4. ASSUME EndFinalizer PROVE MadeInv'
  <2>1. MadeGrefs' = MadeGrefs
    BY <1>4 DEF EndFinalizer, MadeGrefs
  <2>2. QED
    BY <1>4, <2>1 DEF EndFinalizer
<1>5. ASSUME Dequeue PROVE MadeInv'
  <2>1. MadeGrefs' = MadeGrefs
    BY <1>5 DEF Dequeue, MadeGrefs
  <2>2. QED
    BY <1>5, <2>1 DEF Dequeue
<1>6. ASSUME Delay PROVE MadeInv'
  <2>1. MadeGrefs' = MadeGrefs
    BY <1>6 DEF Delay, MadeGrefs
  <2>2. QED
    BY <1>6, <2>1, HandMade DEF Delay
<1>7. ASSUME NEW t \in Callers, EnterCall(t) PROVE MadeInv'
  <2>1. MadeGrefs' = MadeGrefs
    BY <1>7 DEF EnterCall, MadeGrefs
  <2>2. QED
    BY <1>7, <2>1, HandMade DEF EnterCall, Caller
<1>8. ASSUME NEW t \in Callers, RunCallback(t) PROVE MadeInv'
  <2>1. MadeGrefs' = MadeGrefs
    BY <1>8 DEF RunCallback, MadeGrefs
  <2>2. QED
    BY <1>8, <2>1 DEF RunCallback
<1>9. ASSUME NEW t \in Callers, LeaveCall(t) PROVE MadeInv'
  <2>1. MadeGrefs' = MadeGrefs
    BY <1>9 DEF LeaveCall, MadeGrefs
  <2>2. QED
    BY <1>9, <2>1, HandMade DEF LeaveCall, Caller
<1>10. ASSUME NEW t \in Restorers, EnterRestore(t) PROVE MadeInv'
  <2>1. MadeGrefs' = MadeGrefs
    BY <1>10 DEF EnterRestore, MadeGrefs
  <2>2. QED
    BY <1>10, <2>1 DEF EnterRestore
<1>11. ASSUME NEW t \in Restorers, Undelay(t) PROVE MadeInv'
  <2>1. MadeGrefs' = MadeGrefs
    BY <1>11 DEF Undelay, MadeGrefs
  <2>2. QED
    BY <1>11, <2>1 DEF Undelay
<1>12. ASSUME NEW t \in Restorers, Swap(t) PROVE MadeInv'
  <2> DEFINE o == hand[t][1]
             n == Next1(o)
  <2>1. o \in Objects /\ made[o] < MaxGrefs /\ hand[t] \in MadeGrefs /\ hand[t] \in Grefs
    BY <1>12, HandMade DEF Swap
  <2>2. n \in Grefs \ MadeGrefs /\ made[o] + 1 \in 1 .. MaxGrefs /\ n = <<o, made[o] + 1>>
    BY <2>1, NextMade DEF Next1
  <2>3. MadeGrefs' = MadeGrefs \cup {n}
    BY <1>12, <2>1, NextMade DEF Swap
  <2> HIDE DEF n, o
  <2>4. made' = [made EXCEPT ![o] = made[o] + 1] /\ attr' = [attr EXCEPT ![o] = n]
    BY <1>12 DEF Swap, n, o
  <2>5. \A p \in Objects : attr'[p] = IF made'[p] = 0 THEN None ELSE <<p, made'[p]>>
    BY <2>4, <2>2, <2>1
  <2>6. objects' \subseteq MadeGrefs' /\ live' \subseteq MadeGrefs'
    BY <1>12, <2>3 DEF Swap, n, o
  <2>7. \A g \in Grefs : references'[g] # {} => g \in MadeGrefs'
    BY <1>12, <2>2, <2>3, <2>1 DEF Swap, n, o
  <2>8. \A u \in Threads : hand'[u] \in MadeGrefs' \cup {None}
    BY <1>12, <2>3 DEF Swap
  <2>s. stray' \subseteq MadeGrefs'
    BY <1>12, <2>3 DEF Swap, n, o
  <2>9. QED
    BY <1>12, <2>3, <2>5, <2>6, <2>7, <2>8, <2>s DEF Swap
<1>13. ASSUME NEW t \in Restorers, MoveReference(t) PROVE MadeInv'
  <2>1. MadeGrefs' = MadeGrefs
    BY <1>13 DEF MoveReference, MadeGrefs
  <2>2. QED
    BY <1>13, <2>1, GrefParts, AttrMade DEF MoveReference
<1>14. ASSUME NEW t \in Restorers, LeaveRestore(t) PROVE MadeInv'
  <2>1. MadeGrefs' = MadeGrefs
    BY <1>14 DEF LeaveRestore, MadeGrefs
  <2>2. QED
    BY <1>14, <2>1, HandMade DEF LeaveRestore
<1>15. ASSUME StartPass PROVE MadeInv'
  <2>1. MadeGrefs' = MadeGrefs
    BY <1>15 DEF StartPass, MadeGrefs
  <2>2. QED
    BY <1>15, <2>1 DEF StartPass
<1>16. ASSUME RestoreNext PROVE MadeInv'
  <2>1. MadeGrefs' = MadeGrefs
    BY <1>16 DEF RestoreNext, MadeGrefs
  <2>2. QED
    BY <1>16, <2>1, AttrMade DEF RestoreNext
<1>17. ASSUME LockList PROVE MadeInv'
  <2>1. MadeGrefs' = MadeGrefs
    BY <1>17 DEF LockList, MadeGrefs
  <2>2. QED
    BY <1>17, <2>1 DEF LockList
<1>18. ASSUME CallNext PROVE MadeInv'
  <2>1. MadeGrefs' = MadeGrefs
    BY <1>18 DEF CallNext, MadeGrefs
  <2>2. QED
    BY <1>18, <2>1 DEF CallNext
<1>19. ASSUME ClearList PROVE MadeInv'
  <2>1. MadeGrefs' = MadeGrefs
    BY <1>19 DEF ClearList, MadeGrefs
  <2>2. QED
    BY <1>19, <2>1 DEF ClearList
<1>20. ASSUME RunDelayedFinalizers PROVE MadeInv'
  <2>1. MadeGrefs' = MadeGrefs
    BY <1>20 DEF RunDelayedFinalizers, MadeGrefs
  <2>2. QED
    BY <1>20, <2>1 DEF RunDelayedFinalizers
<1>21. ASSUME NEW t \in Users, NEW r \in Refs, NewInstance(t, r) PROVE MadeInv'
  <2>1. CASE UNCHANGED <<table, live>>
    <3>1. MadeGrefs' = MadeGrefs
      BY <2>1 DEF MadeGrefs
    <3>2. \E g \in live : hand' = [hand EXCEPT ![t] = g]
      BY <1>21, <2>1, GlobalRefAssumption DEF NewInstance
    <3>3. QED
      BY <1>21, <2>1, <3>1, <3>2 DEF NewInstance
  <2>2. CASE ~UNCHANGED <<table, live>>
    <3> DEFINE o == Referent[r]
               n == Next1(o)
    <3>1. /\ made[o] < MaxGrefs /\ hand' = [hand EXCEPT ![t] = n]
          /\ made' = [made EXCEPT ![o] = @ + 1] /\ attr' = [attr EXCEPT ![o] = n]
          /\ objects' = objects \cup {n} /\ live' = live \cup {n}
      BY <1>21, <2>2 DEF NewInstance
    <3>2. o \in Objects
      BY GlobalRefAssumption
    <3>3. n \in Grefs \ MadeGrefs /\ made[o] + 1 \in 1 .. MaxGrefs /\ n = <<o, made[o] + 1>>
      BY <3>1, <3>2, NextMade DEF Next1
    <3>4. MadeGrefs' = MadeGrefs \cup {n}
      BY <3>1, <3>2, NextMade
    <3> HIDE DEF n, o
    <3>5. \A p \in Objects : attr'[p] = IF made'[p] = 0 THEN None ELSE <<p, made'[p]>>
      BY <3>1, <3>2, <3>3
    <3>6. QED
      BY <1>21, <3>1, <3>4, <3>5 DEF NewInstance
  <2>3. QED
    BY <2>1, <2>2
<1>22. ASSUME NEW t \in Users, Add(t) PROVE MadeInv'
  <2>1. MadeGrefs' = MadeGrefs
    BY <1>22 DEF Add, MadeGrefs
  <2>2. QED
    BY <1>22, <2>1, HandMade DEF Add
<1>23. ASSUME NEW t \in Users, NEW r \in Refs, CallReference(t, r) PROVE MadeInv'
  <2>1. MadeGrefs' = MadeGrefs
    BY <1>23 DEF CallReference, MadeGrefs
  <2>2. QED
    BY <1>23, <2>1 DEF CallReference
<1>24. ASSUME NEW t \in Users, Deref(t) PROVE MadeInv'
  <2>1. MadeGrefs' = MadeGrefs
    BY <1>24 DEF Deref, MadeGrefs
  <2>2. QED
    BY <1>24, <2>1 DEF Deref, Return
<1>25. ASSUME NEW t \in Users, LoadGref(t) PROVE MadeInv'
  <2>1. MadeGrefs' = MadeGrefs
    BY <1>25 DEF LoadGref, MadeGrefs
  <2>2. QED
    BY <1>25, <2>1 DEF LoadGref
<1>26. ASSUME NEW t \in Users, TestCleared(t) PROVE MadeInv'
  <2>1. MadeGrefs' = MadeGrefs
    BY <1>26 DEF TestCleared, MadeGrefs
  <2>2. QED
    BY <1>26, <2>1 DEF TestCleared, Return
<1>27. ASSUME UNCHANGED vars PROVE MadeInv'
  BY <1>27 DEF vars, MadeGrefs
<1>28. QED
  BY <1>1, <1>2, <1>3, <1>4, <1>5, <1>6, <1>7, <1>8, <1>9, <1>10, <1>11, <1>12, <1>13,
     <1>14, <1>15, <1>16, <1>17, <1>18, <1>19, <1>20, <1>21, <1>22, <1>23, <1>24, <1>25,
     <1>26, <1>27 DEF Next, Collector, ReaperStep, PassStep, FinalizerStep, Call, Restore,
     Dereference, Callers, Restorers

LEMMA TypesInit == Init => Types
  BY ThreadFacts, GrefParts, GlobalRefAssumption
  DEF Init, Types, TypeOK, Places, MadeInv, Labels, Lives, CallLabels, RestoreLabels

LEMMA TypesStep == Types /\ [Next]_vars => Types'
  BY TypeOKStep, PlacesStep, MadeStep DEF Types

------------------------------------------------------------------------------
(* Who holds the monitors, and what the threads leave to each other. *)

\* A thread inside a synchronized method of a GlobalRef holds its monitor, and the pass
\* that of the list while it makes the calls.
Monitors ==
  /\ \A t \in Threads : pc[t] \in Inside => monitor[hand[t]] = t
  /\ \A g \in Grefs : monitor[g] # Nobody => pc[monitor[g]] \in Inside /\ hand[monitor[g]] = g
  /\ listOwner = Processor <=> pc[Processor] \in {"p_calls"} \cup CallLabels

\* The reaper makes calls only if they are not delayed, passes and finalizers that restore
\* only if they are.  A finalizer does so if finalization is not delayed too, a pass if it is.
Phases ==
  /\ pc[Reaper] \in CallLabels => ~Delaying
  /\ pc[Processor] # "idle" => Delaying
  /\ pc[Finalizer] # "idle" => flags = "force" /\ life[hand[Finalizer][1]] = "finalizable"
  /\ pc[Processor] \in RestoreLabels => life[hand[Processor][1]] = "pool"
  /\ \A o \in toRestore : life[o] = "pool"
  /\ toRestore # {} => pc[Processor] \in {"p_restore"} \cup RestoreLabels
  /\ \A o \in Objects : life[o] \in {"registered", "pool"} => flags = "preserve"

LEMMA MonitorsStep ==
  ASSUME Types, Monitors, [Next]_vars
  PROVE  Monitors'
<1> USE ThreadFacts, HandMade DEF Types, TypeOK, Places, Monitors, Goto, Take, jvm, table,
        pending, pass, CallLabels, RestoreLabels, Callers, Restorers, Inside
<1>1. ASSUME NEW o \in Objects, Collect(o) PROVE Monitors'
  BY <1>1 DEF Collect
<1>2. ASSUME NEW o \in Objects, Register(o) PROVE Monitors'
  BY <1>2 DEF Register
<1>3. ASSUME NEW o \in Objects, RunFinalizer(o) PROVE Monitors'
  BY <1>3 DEF RunFinalizer
<1>4. ASSUME EndFinalizer PROVE Monitors'
  BY <1>4 DEF EndFinalizer
<1>5. ASSUME Dequeue PROVE Monitors'
  BY <1>5 DEF Dequeue
<1>6. ASSUME Delay PROVE Monitors'
  BY <1>6 DEF Delay
<1>7. ASSUME NEW t \in Callers, EnterCall(t) PROVE Monitors'
  BY <1>7 DEF EnterCall, Caller
<1>8. ASSUME NEW t \in Callers, RunCallback(t) PROVE Monitors'
  BY <1>8 DEF RunCallback
<1>9. ASSUME NEW t \in Callers, LeaveCall(t) PROVE Monitors'
  BY <1>9 DEF LeaveCall, Caller
<1>10. ASSUME NEW t \in Restorers, EnterRestore(t) PROVE Monitors'
  BY <1>10 DEF EnterRestore
<1>11. ASSUME NEW t \in Restorers, Undelay(t) PROVE Monitors'
  BY <1>11 DEF Undelay
<1>12. ASSUME NEW t \in Restorers, Swap(t) PROVE Monitors'
  <2>1. pc[t] = "r_swap" /\ hand[t] \in Grefs /\ listOwner' = listOwner
    BY <1>12 DEF Swap, pending
  <2>2. CASE hand[t] \in objects
    <3>1. GoesTo(t, "r_loop") /\ UNCHANGED <<hand, monitor>>
      BY <1>12, <2>2, WithReaperEffect DEF Swap, Labels
    <3>2. QED
      BY <2>1, <3>1 DEF GoesTo
  <2>3. CASE hand[t] \notin objects
    <3>1. /\ GoesTo(t, IF t = Processor THEN "idle" ELSE "r_done")
          /\ monitor' = [monitor EXCEPT ![hand[t]] = Nobody]
          /\ hand' = [hand EXCEPT ![t] = IF t = Processor THEN None ELSE @]
      BY <1>12, <2>3, WithReaperEffect DEF Swap, Labels
    <3>2. QED
      BY <2>1, <3>1 DEF GoesTo
  <2>4. QED
    BY <2>2, <2>3
<1>13. ASSUME NEW t \in Restorers, MoveReference(t) PROVE Monitors'
  BY <1>13 DEF MoveReference
<1>14. ASSUME NEW t \in Restorers, LeaveRestore(t) PROVE Monitors'
  BY <1>14 DEF LeaveRestore
<1>15. ASSUME StartPass PROVE Monitors'
  BY <1>15 DEF StartPass
<1>16. ASSUME RestoreNext PROVE Monitors'
  BY <1>16 DEF RestoreNext
<1>17. ASSUME LockList PROVE Monitors'
  BY <1>17 DEF LockList
<1>18. ASSUME CallNext PROVE Monitors'
  BY <1>18 DEF CallNext
<1>19. ASSUME ClearList PROVE Monitors'
  BY <1>19 DEF ClearList
<1>20. ASSUME RunDelayedFinalizers PROVE Monitors'
  BY <1>20 DEF RunDelayedFinalizers
<1>21. ASSUME NEW t \in Users, NEW r \in Refs, NewInstance(t, r) PROVE Monitors'
  <2>1. pc[t] = "idle" /\ GoesTo(t, "add") /\ UNCHANGED <<monitor, listOwner>>
    BY <1>21, WithReaperEffect DEF NewInstance, Labels
  <2>2. \A u \in Threads \ {t} : hand'[u] = hand[u]
    BY <1>21 DEF NewInstance
  <2>3. QED
    BY <2>1, <2>2 DEF GoesTo
<1>22. ASSUME NEW t \in Users, Add(t) PROVE Monitors'
  BY <1>22 DEF Add
<1>23. ASSUME NEW t \in Users, NEW r \in Refs, CallReference(t, r) PROVE Monitors'
  BY <1>23 DEF CallReference
<1>24. ASSUME NEW t \in Users, Deref(t) PROVE Monitors'
  BY <1>24 DEF Deref, Return
<1>25. ASSUME NEW t \in Users, LoadGref(t) PROVE Monitors'
  BY <1>25 DEF LoadGref
<1>26. ASSUME NEW t \in Users, TestCleared(t) PROVE Monitors'
  BY <1>26 DEF TestCleared, Return
<1>27. ASSUME UNCHANGED vars PROVE Monitors'
  BY <1>27 DEF vars
<1>28. QED
  BY <1>1, <1>2, <1>3, <1>4, <1>5, <1>6, <1>7, <1>8, <1>9, <1>10, <1>11, <1>12, <1>13,
     <1>14, <1>15, <1>16, <1>17, <1>18, <1>19, <1>20, <1>21, <1>22, <1>23, <1>24, <1>25,
     <1>26, <1>27 DEF Next, Collector, ReaperStep, PassStep, FinalizerStep, Call, Restore,
     Dereference, Callers, Restorers

LEMMA PhasesStep ==
  ASSUME Types, Monitors, Phases, [Next]_vars
  PROVE  Phases'
<1> USE ThreadFacts, HandMade DEF Types, TypeOK, Places, Phases, Delaying, Goto, Take, jvm,
        table, pending, pass, CallLabels, RestoreLabels, Callers, Restorers, Inside
<1>1. ASSUME NEW o \in Objects, Collect(o) PROVE Phases'
  <2>1. /\ life[o] = "strong" /\ UNCHANGED <<flags, pc, hand, toRestore>>
        /\ \E l \in {"dead", "finalizable"} : life' = [life EXCEPT ![o] = l]
    BY <1>1 DEF Collect
  <2>2. QED
    BY <2>1
<1>2. ASSUME NEW o \in Objects, Register(o) PROVE Phases'
  BY <1>2 DEF Register
<1>3. ASSUME NEW o \in Objects, RunFinalizer(o) PROVE Phases'
  <2>1. life[o] = "finalizable" /\ flags # "preserve" /\ pc[Finalizer] = "idle"
    BY <1>3 DEF RunFinalizer
  <2>2. CASE life' = [life EXCEPT ![o] = "strong"] /\ UNCHANGED <<pc, hand>>
    BY <1>3, <2>1, <2>2 DEF RunFinalizer
  <2>3. CASE Delaying /\ attr[o] # None /\ Take(Finalizer, attr[o]) /\ UNCHANGED life
    <3>1. hand'[Finalizer][1] = o /\ flags = "force"
      BY <2>1, <2>3, AttrMade, GlobalRefAssumption
    <3>2. QED
      BY <1>3, <2>1, <2>3, <3>1 DEF RunFinalizer
  <2>4. QED
    BY <1>3, <2>2, <2>3 DEF RunFinalizer
<1>4. ASSUME EndFinalizer PROVE Phases'
  BY <1>4 DEF EndFinalizer
<1>5. ASSUME Dequeue PROVE Phases'
  BY <1>5 DEF Dequeue
<1>6. ASSUME Delay PROVE Phases'
  BY <1>6 DEF Delay
<1>7. ASSUME NEW t \in Callers, EnterCall(t) PROVE Phases'
  BY <1>7 DEF EnterCall, Caller
<1>8. ASSUME NEW t \in Callers, RunCallback(t) PROVE Phases'
  BY <1>8 DEF RunCallback
<1>9. ASSUME NEW t \in Callers, LeaveCall(t) PROVE Phases'
  BY <1>9 DEF LeaveCall, Caller
<1>10. ASSUME NEW t \in Restorers, EnterRestore(t) PROVE Phases'
  BY <1>10 DEF EnterRestore
<1>11. ASSUME NEW t \in Restorers, Undelay(t) PROVE Phases'
  BY <1>11 DEF Undelay
<1>12. ASSUME NEW t \in Restorers, Swap(t) PROVE Phases'
  <2>1. /\ pc[t] = "r_swap" /\ UNCHANGED <<flags, life>>
        /\ \/ GoesTo(t, "r_loop") /\ UNCHANGED <<hand, toRestore>>
           \/ /\ GoesTo(t, IF t = Processor THEN "idle" ELSE "r_done")
              /\ hand' = [hand EXCEPT ![t] = IF t = Processor THEN None ELSE @]
              /\ toRestore' = IF t = Processor THEN {} ELSE toRestore
    BY <1>12, WithReaperEffect DEF Swap, Labels
  <2>2. QED
    BY <2>1 DEF GoesTo
<1>13. ASSUME NEW t \in Restorers, MoveReference(t) PROVE Phases'
  BY <1>13 DEF MoveReference
<1>14. ASSUME NEW t \in Restorers, LeaveRestore(t) PROVE Phases'
  BY <1>14 DEF LeaveRestore
<1>15. ASSUME StartPass PROVE Phases'
  BY <1>15 DEF StartPass
<1>16. ASSUME RestoreNext PROVE Phases'
  BY <1>16, AttrMade DEF RestoreNext
<1>17. ASSUME LockList PROVE Phases'
  BY <1>17 DEF LockList
<1>18. ASSUME CallNext PROVE Phases'
  BY <1>18 DEF CallNext
<1>19. ASSUME ClearList PROVE Phases'
  BY <1>19 DEF ClearList
<1>20. ASSUME RunDelayedFinalizers PROVE Phases'
  BY <1>20 DEF RunDelayedFinalizers
<1>21. ASSUME NEW t \in Users, NEW r \in Refs, NewInstance(t, r) PROVE Phases'
  <2>1. pc[t] = "idle" /\ GoesTo(t, "add") /\ UNCHANGED <<flags, life, toRestore>>
    BY <1>21, WithReaperEffect DEF NewInstance, Labels
  <2>2. \A u \in Threads \ {t} : hand'[u] = hand[u]
    BY <1>21 DEF NewInstance
  <2>3. QED
    BY <2>1, <2>2 DEF GoesTo
<1>22. ASSUME NEW t \in Users, Add(t) PROVE Phases'
  BY <1>22 DEF Add
<1>23. ASSUME NEW t \in Users, NEW r \in Refs, CallReference(t, r) PROVE Phases'
  BY <1>23 DEF CallReference
<1>24. ASSUME NEW t \in Users, Deref(t) PROVE Phases'
  BY <1>24 DEF Deref, Return
<1>25. ASSUME NEW t \in Users, LoadGref(t) PROVE Phases'
  BY <1>25 DEF LoadGref
<1>26. ASSUME NEW t \in Users, TestCleared(t) PROVE Phases'
  BY <1>26 DEF TestCleared, Return
<1>27. ASSUME UNCHANGED vars PROVE Phases'
  BY <1>27 DEF vars
<1>28. QED
  BY <1>1, <1>2, <1>3, <1>4, <1>5, <1>6, <1>7, <1>8, <1>9, <1>10, <1>11, <1>12, <1>13,
     <1>14, <1>15, <1>16, <1>17, <1>18, <1>19, <1>20, <1>21, <1>22, <1>23, <1>24, <1>25,
     <1>26, <1>27 DEF Next, Collector, ReaperStep, PassStep, FinalizerStep, Call, Restore,
     Dereference, Callers, Restorers

LEMMA Exclusive ==
  ASSUME Types, Phases
  PROVE  /\ pc[Finalizer] # "idle" => /\ pc[Processor] \notin RestoreLabels
                                      /\ pc[Reaper] \notin CallLabels
         /\ pc[Reaper] \in CallLabels => pc[Processor] = "idle"
<1>1. pc[Processor] \in RestoreLabels => hand[Processor][1] \in Objects
  BY ThreadFacts, HandMade DEF Types, Places, RestoreLabels
<1>2. QED
  BY <1>1 DEF Phases, Delaying

------------------------------------------------------------------------------
(* Which GlobalRefs are alive, cleared, or on their way. *)

\* What has died, or is on its way to be called back, does not become alive again.
Dead == live \cap (cleared \cup queue \cup delayed \cup toCall) = {}

\* restore() works on the GlobalRef of the object, and then moves to its successor.
Restores ==
  \A t \in Restorers :
      /\ pc[t] \in {"r_enter", "r_list", "r_swap"} => hand[t] = attr[hand[t][1]]
      /\ pc[t] = "r_loop" => /\ hand[t] \notin cleared \cup live \cup stray
                             /\ attr[hand[t][1]] \in live \ stray
                             /\ \A r \in left[t] : gref[r] = hand[t]

\* call() works on a GlobalRef that has died, and goes through references not called before.
Calls ==
  /\ pc[Reaper] = "delay" => hand[Reaper] \notin live
  /\ \A t \in Callers :
      /\ pc[t] \in CallLabels => hand[t] \notin live
      /\ pc[t] = "c_loop" => /\ hand[t] \in cleared
                             /\ \A r \in left[t] : gref[r] = hand[t] /\ called[r] = 0

\* A reference is made, by one thread, on a GlobalRef that stays alive meanwhile.
Adds ==
  /\ \A t \in Users : pc[t] = "add" => /\ hand[t] \in live /\ life[hand[t][1]] = "strong"
                                       /\ gref[ref[t]] = None
  /\ \A t, u \in Users : pc[t] = "add" /\ pc[u] = "add" /\ ref[t] = ref[u] => t = u

\* Of the list that the pass works on, what is not called yet is still to be called.
Delayed ==
  listOwner = Processor =>
      \A g \in delayed : \/ g \in toCall \cup cleared
                         \/ g = hand[Processor] /\ pc[Processor] = "c_enter"

\* The references of a GlobalRef in the table use it, or are about to be moved to it.
Shared ==
  \A g \in objects \ cleared : \A r \in references[g] :
      \/ gref[r] = g
      \/ \E t \in Restorers : pc[t] = "r_loop" /\ r \in left[t] /\ attr[hand[t][1]] = g

\* No reference uses a GlobalRef that a failing restore() has left behind, and nobody but
\* a later restore() works on it.
Strays ==
  /\ stray \cap (queue \cup delayed \cup toCall \cup objects \cup cleared) = {}
  /\ \A t \in Callers : pc[t] \in {"delay"} \cup CallLabels => hand[t] \notin stray
  /\ \A t \in Users : pc[t] = "add" => hand[t] \notin stray
  /\ \A r \in Refs : gref[r] \notin stray

Inv ==
  /\ Types /\ Monitors /\ Phases
  /\ Dead /\ Strays /\ Restores /\ Calls /\ Adds /\ Delayed /\ Shared
  /\ TableExact /\ CallbackFinal /\ NoOrphan

\* What a restore does that finds its GlobalRef in the table, with the new one n.
Swaps(t, n) ==
  /\ n \in Grefs \ MadeGrefs /\ MadeGrefs' = MadeGrefs \cup {n} /\ n # None
  /\ pc[t] = "r_swap" /\ hand[t] \in objects \ cleared /\ hand[t] \in MadeGrefs
  /\ n[1] = hand[t][1] /\ hand[t][1] \in Objects /\ attr[hand[t][1]] = hand[t]
  /\ attr' = [attr EXCEPT ![hand[t][1]] = n]
  /\ live' = (live \ {hand[t]}) \cup {n}
  /\ references' = [references EXCEPT ![n] = references[hand[t]]]
  /\ objects' = (objects \ {hand[t]}) \cup {n}
  /\ left' = [left EXCEPT ![t] = references[hand[t]]]
  /\ GoesTo(t, "r_loop")
  /\ UNCHANGED <<monitor, hand, flags, life, queue, delayed, listOwner, toRestore, toCall,
                 cleared, gref, called, ref, stray>>

\* And one that does not: call() has been there before it, or a restore() that failed.
Fails(t, n) ==
  /\ n \in Grefs \ MadeGrefs /\ MadeGrefs' = MadeGrefs \cup {n} /\ n # None
  /\ pc[t] = "r_swap" /\ hand[t] \in cleared \cup stray /\ hand[t] \in MadeGrefs
  /\ n[1] = hand[t][1] /\ hand[t][1] \in Objects
  /\ attr' = [attr EXCEPT ![hand[t][1]] = n]
  /\ live' = (live \ {hand[t]}) \cup {n}
  /\ references' = [references EXCEPT ![n] = references[hand[t]]]
  /\ stray' = stray \cup {n}
  /\ monitor' = [monitor EXCEPT ![hand[t]] = Nobody]
  /\ \E g \in {hand[t], None} : hand' = [hand EXCEPT ![t] = g]
  /\ \E l \in {"idle", "r_done"} : GoesTo(t, l)
  /\ UNCHANGED <<flags, life, queue, delayed, listOwner, toCall, objects, left, cleared,
                 gref, called, ref>>

LEMMA SwapEffect ==
  ASSUME Types, Monitors, Restores, TableExact, NEW t \in Restorers, Swap(t)
  PROVE  \E n : Swaps(t, n) \/ Fails(t, n)
<1> DEFINE old == hand[t]
           o == old[1]
           n == Next1(o)
<1>1. /\ t \in Threads \ {Reaper} /\ pc[t] = "r_swap" /\ old \in MadeGrefs /\ old \in Grefs
      /\ o \in Objects /\ made[o] < MaxGrefs
  BY ThreadFacts, HandMade DEF Swap, Types, RestoreLabels, Restorers
<1>2. attr[o] = old /\ monitor[old] = t
  BY <1>1 DEF Restores, RestoreLabels, Monitors, Inside
<1>3. \A u \in Threads : hand[u] = old => pc[u] \notin {"r_loop", "c_loop"}
  BY <1>1, <1>2 DEF Monitors, Inside
<1>4. old[2] <= made[o]
  BY <1>1 DEF MadeGrefs
<1>5. old \in objects <=> old \notin cleared \cup stray
  BY <1>1, <1>3, <1>4, ThreadFacts DEF TableExact, Calling
<1>6. n \in Grefs \ MadeGrefs /\ n[1] = o /\ n # None /\ MadeGrefs' = MadeGrefs \cup {n}
  BY <1>1, NextMade DEF Types, Swap
<1>7. CASE old \in objects
  <2>1. GoesTo(t, "r_loop")
    BY <1>1, <1>7, WithReaperEffect DEF Swap, Types, Labels
  <2>2. Swaps(t, n)
    BY <1>1, <1>2, <1>5, <1>6, <1>7, <2>1 DEF Swap, Swaps, pending
  <2>3. QED
    BY <2>2
<1>8. CASE old \notin objects
  <2>1. \E l \in {"idle", "r_done"} : GoesTo(t, l)
    BY <1>1, <1>8, WithReaperEffect DEF Swap, Types, Labels
  <2>2. \E g \in {hand[t], None} : hand' = [hand EXCEPT ![t] = g]
    BY <1>1, <1>8 DEF Swap
  <2>3. Fails(t, n)
    BY <1>1, <1>5, <1>6, <1>8, <2>1, <2>2 DEF Swap, Fails, pending
  <2>4. QED
    BY <2>3
<1>9. QED
  BY <1>7, <1>8

\* What newInstance does, with a GlobalRef g that it finds or makes.
Makes(t, r, g) ==
  /\ pc[t] = "idle" /\ gref[r] = None /\ life[Referent[r]] = "strong" /\ \A u \in Users : ref[u] # r
  /\ Referent[r] \in Objects /\ g \in Grefs /\ g[1] = Referent[r]
  /\ ref' = [ref EXCEPT ![t] = r] /\ hand' = [hand EXCEPT ![t] = g]
  /\ pc'[t] = "add"
  /\ \A u \in Threads \ {t} : pc'[u] = pc[u] \/ (u = Reaper /\ pc[u] = "failed" /\ pc'[u] = "idle")
  /\ UNCHANGED <<flags, life, queue, delayed, listOwner, toRestore, toCall, references, cleared,
                 monitor, gref, called, left, stray>>

Finds(g) == g \in live /\ g \in objects /\ UNCHANGED <<made, attr, objects, live>>

Creates(g) ==
  /\ g \notin MadeGrefs /\ MadeGrefs' = MadeGrefs \cup {g}
  /\ objects' = objects \cup {g} /\ live' = live \cup {g}
  /\ attr' = [attr EXCEPT ![g[1]] = g]

LEMMA NewInstanceEffect ==
  ASSUME Types, NEW t \in Users, NEW r \in Refs, NewInstance(t, r)
  PROVE  \E g : Makes(t, r, g) /\ (Finds(g) \/ Creates(g))
<1> DEFINE o == Referent[r]
           n == Next1(o)
<1>1. o \in Objects
  BY GlobalRefAssumption
<1>2. /\ pc[t] = "idle" /\ gref[r] = None /\ life[o] = "strong" /\ \A u \in Users : ref[u] # r
      /\ ref' = [ref EXCEPT ![t] = r]
      /\ pc' = WithReaper(t, "add")
      /\ UNCHANGED <<flags, life, queue, delayed, listOwner, toRestore, toCall, references, cleared,
                     monitor, gref, called, left, stray>>
  BY DEF NewInstance, pending, pass, table
<1>3. /\ pc'[t] = "add"
      /\ \A u \in Threads \ {t} :
            pc'[u] = pc[u] \/ (u = Reaper /\ pc[u] = "failed" /\ pc'[u] = "idle")
  BY <1>2, ThreadFacts, WithReaperEffect DEF Types, Labels, GoesTo
<1>4. ASSUME NEW g \in objects \cap live \cap OfObject(o), Take(t, g), UNCHANGED <<table, live>>
      PROVE  Makes(t, r, g) /\ Finds(g)
  BY <1>1, <1>2, <1>3, <1>4 DEF Makes, Finds, Take, OfObject, table
<1>5. ASSUME made[o] < MaxGrefs, Take(t, n), made' = [made EXCEPT ![o] = @ + 1],
             objects' = objects \cup {n}, live' = live \cup {n}, attr' = [attr EXCEPT ![o] = n]
      PROVE  Makes(t, r, n) /\ Creates(n)
  <2>1. n \in Grefs \ MadeGrefs /\ n[1] = o /\ MadeGrefs' = MadeGrefs \cup {n}
    BY <1>1, <1>5, NextMade DEF Types
  <2>2. QED
    BY <1>1, <1>2, <1>3, <1>5, <2>1 DEF Makes, Creates, Take
<1>6. QED
  BY <1>4, <1>5 DEF NewInstance

\* call() finds its entry in the table.
LEMMA CallInTable ==
  ASSUME Types, TableExact, NEW t \in Callers, pc[t] = "c_loop" PROVE hand[t] \in objects
  BY ThreadFacts, HandMade DEF Types, TableExact, Calling, CallLabels, Callers

\* The attributes of two objects are different GlobalRefs.
LEMMA AttrsDiffer ==
  ASSUME Types, NEW o \in Objects, NEW g \in Grefs, attr[o] = g PROVE g[1] = o
  BY AttrMade, GrefParts DEF Types

\* At most one restore is under way.
LEMMA OneRestorer ==
  ASSUME Types, Phases
  PROVE  \A t, u \in Restorers : pc[t] \in RestoreLabels /\ pc[u] \in RestoreLabels => t = u
  BY Exclusive, ThreadFacts DEF Types, Places, RestoreLabels, CallLabels, Restorers, Callers

\* The table in terms of the GlobalRefs that exist.
Moving(g) == \E t \in Threads : hand[t] = g /\ pc[t] = "r_loop"

LEMMA TableMade ==
  /\ TableExact <=> \A g \in Grefs : g \in objects <=> \/ g \in MadeGrefs \ (cleared \cup stray) /\ ~Moving(g)
                                                       \/ Calling(g)
  /\ TableExact' <=> \A g \in Grefs : g \in objects' <=> \/ g \in MadeGrefs' \ (cleared' \cup stray') /\ ~Moving(g)'
                                                         \/ Calling(g)'
  BY DEF TableExact, MadeGrefs, Moving

\* A GlobalRef whose monitor is free is not being moved or called, and at most one thread is in it.
LEMMA MonitorFree ==
  ASSUME Types, Monitors, NEW g \in Grefs
  PROVE  /\ monitor[g] = Nobody => ~Moving(g) /\ ~Calling(g)
         /\ \A t, u \in Threads :
               hand[t] = g /\ pc[t] \in Inside /\ hand[u] = g /\ pc[u] \in Inside => t = u
<1>1. \A u \in Threads : hand[u] = g /\ pc[u] \in Inside => monitor[g] = u /\ u # Nobody
  BY ThreadFacts DEF Monitors
<1>2. monitor[g] = Nobody => ~Moving(g) /\ ~Calling(g)
  BY <1>1, ThreadFacts DEF Moving, Calling, Inside
<1>3. QED
  BY <1>1, <1>2

\* A GlobalRef that is being moved has left the table.
LEMMA MovedAway ==
  ASSUME Types, Monitors, TableExact, NEW t \in Threads,
         pc[t] = "r_loop" PROVE hand[t] \notin objects
<1>1. hand[t] \in Grefs
  BY HandMade DEF Types, RestoreLabels
<1>2. ~Calling(hand[t])
  BY <1>1, MonitorFree, ThreadFacts DEF Calling, Inside
<1>3. QED
  BY <1>1, <1>2 DEF TableExact

\* A GlobalRef that call() enters is in the table, and all its references use it.
LEMMA CallEnters ==
  ASSUME Types, Monitors, TableExact, Strays, Restores, Calls, Shared, CallbackFinal,
         NEW t \in Callers, pc[t] = "c_enter", monitor[hand[t]] = Nobody, hand[t] \notin cleared
  PROVE  /\ hand[t] \in objects
         /\ \A r \in references[hand[t]] : gref[r] = hand[t] /\ called[r] = 0
<1>1. t \in Threads /\ hand[t] \in Grefs /\ hand[t] \in MadeGrefs
  BY HandMade, ThreadFacts DEF Types, CallLabels
<1>2. hand[t] \in objects
  BY <1>1, MonitorFree, TableMade DEF Strays, CallLabels
<1>3. hand[t] \notin live
  BY DEF Calls, CallLabels
<1>4. \A u \in Restorers : pc[u] = "r_loop" => attr[hand[u][1]] # hand[t]
  BY <1>3 DEF Restores
<1>5. \A r \in references[hand[t]] : r \in Refs /\ gref[r] = hand[t]
  BY <1>1, <1>2, <1>4 DEF Types, TypeOK, Shared
<1>6. \A r \in references[hand[t]] : called[r] = 0
  BY <1>5 DEF CallbackFinal, Types, TypeOK
<1>7. QED
  BY <1>2, <1>5, <1>6

LEMMA DeadStep ==
  ASSUME Types, Monitors, Phases, Dead, Restores, Calls, TableExact, [Next]_vars
  PROVE  Dead'
<1> USE ThreadFacts, HandMade, Exclusive DEF Types, TypeOK, Places, Dead, Restores, Calls,
        MadeInv, Goto, Take, jvm, table, pending, pass, CallLabels, RestoreLabels, Callers,
        Restorers
<1>1. ASSUME NEW o \in Objects, Collect(o) PROVE Dead'
  BY <1>1 DEF Collect
<1>2. ASSUME NEW o \in Objects, Register(o) PROVE Dead'
  BY <1>2 DEF Register
<1>3. ASSUME NEW o \in Objects, RunFinalizer(o) PROVE Dead'
  BY <1>3 DEF RunFinalizer
<1>4. ASSUME EndFinalizer PROVE Dead'
  BY <1>4 DEF EndFinalizer
<1>5. ASSUME Dequeue PROVE Dead'
  BY <1>5 DEF Dequeue
<1>6. ASSUME Delay PROVE Dead'
  BY <1>6 DEF Delay
<1>7. ASSUME NEW t \in Callers, EnterCall(t) PROVE Dead'
  BY <1>7 DEF EnterCall, Caller
<1>8. ASSUME NEW t \in Callers, RunCallback(t) PROVE Dead'
  BY <1>8 DEF RunCallback
<1>9. ASSUME NEW t \in Callers, LeaveCall(t) PROVE Dead'
  BY <1>9 DEF LeaveCall, Caller
<1>10. ASSUME NEW t \in Restorers, EnterRestore(t) PROVE Dead'
  BY <1>10 DEF EnterRestore
<1>11. ASSUME NEW t \in Restorers, Undelay(t) PROVE Dead'
  BY <1>11 DEF Undelay
<1>12. ASSUME NEW t \in Restorers, Swap(t) PROVE Dead'
  <2>1. PICK n : Swaps(t, n) \/ Fails(t, n)
    BY <1>12, SwapEffect
  <2>2. CASE Swaps(t, n)
    BY <2>2 DEF Swaps
  <2>3. CASE Fails(t, n)
    BY <2>3 DEF Fails
  <2>4. QED
    BY <2>1, <2>2, <2>3
<1>13. ASSUME NEW t \in Restorers, MoveReference(t) PROVE Dead'
  BY <1>13 DEF MoveReference
<1>14. ASSUME NEW t \in Restorers, LeaveRestore(t) PROVE Dead'
  BY <1>14 DEF LeaveRestore
<1>15. ASSUME StartPass PROVE Dead'
  BY <1>15 DEF StartPass
<1>16. ASSUME RestoreNext PROVE Dead'
  BY <1>16 DEF RestoreNext
<1>17. ASSUME LockList PROVE Dead'
  BY <1>17 DEF LockList
<1>18. ASSUME CallNext PROVE Dead'
  BY <1>18 DEF CallNext
<1>19. ASSUME ClearList PROVE Dead'
  BY <1>19 DEF ClearList
<1>20. ASSUME RunDelayedFinalizers PROVE Dead'
  BY <1>20 DEF RunDelayedFinalizers
<1>21. ASSUME NEW t \in Users, NEW r \in Refs, NewInstance(t, r) PROVE Dead'
  <2>1. PICK g : Makes(t, r, g) /\ (Finds(g) \/ Creates(g))
    BY <1>21, NewInstanceEffect
  <2>2. CASE Finds(g)
    BY <2>1, <2>2 DEF Makes, Finds
  <2>3. CASE Creates(g)
    BY <2>1, <2>3 DEF Makes, Creates
  <2>4. QED
    BY <2>1, <2>2, <2>3
<1>22. ASSUME NEW t \in Users, Add(t) PROVE Dead'
  BY <1>22 DEF Add
<1>23. ASSUME NEW t \in Users, NEW r \in Refs, CallReference(t, r) PROVE Dead'
  BY <1>23 DEF CallReference
<1>24. ASSUME NEW t \in Users, Deref(t) PROVE Dead'
  BY <1>24 DEF Deref, Return
<1>25. ASSUME NEW t \in Users, LoadGref(t) PROVE Dead'
  BY <1>25 DEF LoadGref
<1>26. ASSUME NEW t \in Users, TestCleared(t) PROVE Dead'
  BY <1>26 DEF TestCleared, Return
<1>27. ASSUME UNCHANGED vars PROVE Dead'
  BY <1>27 DEF vars
<1>28. QED
  BY <1>1, <1>2, <1>3, <1>4, <1>5, <1>6, <1>7, <1>8, <1>9, <1>10, <1>11, <1>12, <1>13,
     <1>14, <1>15, <1>16, <1>17, <1>18, <1>19, <1>20, <1>21, <1>22, <1>23, <1>24, <1>25,
     <1>26, <1>27 DEF Next, Collector, ReaperStep, PassStep, FinalizerStep, Call, Restore,
     Dereference, Callers, Restorers

LEMMA StraysStep ==
  ASSUME Types, Monitors, Phases, Strays, Restores, Calls, TableExact, [Next]_vars
  PROVE  Strays'
<1> USE ThreadFacts, HandMade, Exclusive DEF Types, TypeOK, Places, Strays, Restores, Calls,
        MadeInv, Goto, Take, jvm, table, pending, pass, CallLabels, RestoreLabels, Callers,
        Restorers
<1>1. ASSUME NEW o \in Objects, Collect(o) PROVE Strays'
  BY <1>1 DEF Collect
<1>2. ASSUME NEW o \in Objects, Register(o) PROVE Strays'
  BY <1>2 DEF Register
<1>3. ASSUME NEW o \in Objects, RunFinalizer(o) PROVE Strays'
  BY <1>3 DEF RunFinalizer
<1>4. ASSUME EndFinalizer PROVE Strays'
  BY <1>4 DEF EndFinalizer
<1>5. ASSUME Dequeue PROVE Strays'
  BY <1>5 DEF Dequeue
<1>6. ASSUME Delay PROVE Strays'
  BY <1>6 DEF Delay
<1>7. ASSUME NEW t \in Callers, EnterCall(t) PROVE Strays'
  BY <1>7 DEF EnterCall, Caller
<1>8. ASSUME NEW t \in Callers, RunCallback(t) PROVE Strays'
  BY <1>8 DEF RunCallback
<1>9. ASSUME NEW t \in Callers, LeaveCall(t) PROVE Strays'
  BY <1>9 DEF LeaveCall, Caller
<1>10. ASSUME NEW t \in Restorers, EnterRestore(t) PROVE Strays'
  BY <1>10 DEF EnterRestore
<1>11. ASSUME NEW t \in Restorers, Undelay(t) PROVE Strays'
  BY <1>11 DEF Undelay
<1>12. ASSUME NEW t \in Restorers, Swap(t) PROVE Strays'
  <2>1. PICK n : Swaps(t, n) \/ Fails(t, n)
    BY <1>12, SwapEffect
  <2>2. CASE Swaps(t, n)
    BY <2>2 DEF Swaps, GoesTo
  <2>3. CASE Fails(t, n)
    BY <2>3 DEF Fails, GoesTo
  <2>4. QED
    BY <2>1, <2>2, <2>3
<1>13. ASSUME NEW t \in Restorers, MoveReference(t) PROVE Strays'
  BY <1>13 DEF MoveReference
<1>14. ASSUME NEW t \in Restorers, LeaveRestore(t) PROVE Strays'
  BY <1>14 DEF LeaveRestore
<1>15. ASSUME StartPass PROVE Strays'
  BY <1>15 DEF StartPass
<1>16. ASSUME RestoreNext PROVE Strays'
  BY <1>16 DEF RestoreNext
<1>17. ASSUME LockList PROVE Strays'
  BY <1>17 DEF LockList
<1>18. ASSUME CallNext PROVE Strays'
  BY <1>18 DEF CallNext
<1>19. ASSUME ClearList PROVE Strays'
  BY <1>19 DEF ClearList
<1>20. ASSUME RunDelayedFinalizers PROVE Strays'
  BY <1>20 DEF RunDelayedFinalizers
<1>21. ASSUME NEW t \in Users, NEW r \in Refs, NewInstance(t, r) PROVE Strays'
  <2>1. PICK g : Makes(t, r, g) /\ (Finds(g) \/ Creates(g))
    BY <1>21, NewInstanceEffect
  <2>2. CASE Finds(g)
    BY <2>1, <2>2 DEF Makes, Finds
  <2>3. CASE Creates(g)
    BY <2>1, <2>3 DEF Makes, Creates
  <2>4. QED
    BY <2>1, <2>2, <2>3
<1>22. ASSUME NEW t \in Users, Add(t) PROVE Strays'
  BY <1>22 DEF Add
<1>23. ASSUME NEW t \in Users, NEW r \in Refs, CallReference(t, r) PROVE Strays'
  BY <1>23 DEF CallReference
<1>24. ASSUME NEW t \in Users, Deref(t) PROVE Strays'
  BY <1>24 DEF Deref, Return
<1>25. ASSUME NEW t \in Users, LoadGref(t) PROVE Strays'
  BY <1>25 DEF LoadGref
<1>26. ASSUME NEW t \in Users, TestCleared(t) PROVE Strays'
  BY <1>26 DEF TestCleared, Return
<1>27. ASSUME UNCHANGED vars PROVE Strays'
  BY <1>27 DEF vars
<1>28. QED
  BY <1>1, <1>2, <1>3, <1>4, <1>5, <1>6, <1>7, <1>8, <1>9, <1>10, <1>11, <1>12, <1>13,
     <1>14, <1>15, <1>16, <1>17, <1>18, <1>19, <1>20, <1>21, <1>22, <1>23, <1>24, <1>25,
     <1>26, <1>27 DEF Next, Collector, ReaperStep, PassStep, FinalizerStep, Call, Restore,
     Dereference, Callers, Restorers

LEMMA RestoresStep ==
  ASSUME Types, Monitors, Phases, Dead, Strays, Restores, Calls, Adds, Shared,
         TableExact, [Next]_vars
  PROVE  Restores'
<1> USE ThreadFacts, HandMade, Exclusive DEF Types, TypeOK, Places, Restores, Phases, Goto,
        Take, jvm, table, pending, pass, CallLabels, RestoreLabels, Callers, Restorers
<1>1. ASSUME NEW o \in Objects, Collect(o) PROVE Restores'
  BY <1>1, AttrsDiffer DEF Collect, OfObject
<1>2. ASSUME NEW o \in Objects, Register(o) PROVE Restores'
  BY <1>2 DEF Register
<1>3. ASSUME NEW o \in Objects, RunFinalizer(o) PROVE Restores'
  BY <1>3, AttrMade DEF RunFinalizer
<1>4. ASSUME EndFinalizer PROVE Restores'
  BY <1>4 DEF EndFinalizer
<1>5. ASSUME Dequeue PROVE Restores'
  BY <1>5 DEF Dequeue
<1>6. ASSUME Delay PROVE Restores'
  BY <1>6 DEF Delay
<1>7. ASSUME NEW t \in Callers, EnterCall(t) PROVE Restores'
  <2>1. CASE hand[t] \in cleared
    BY <1>7, <2>1 DEF EnterCall, Caller
  <2>2. CASE hand[t] \notin cleared
    <3>1. /\ cleared' = cleared \cup {hand[t]} /\ left' = [left EXCEPT ![t] = references[hand[t]]]
          /\ pc' = [pc EXCEPT ![t] = "c_loop"] /\ pc[t] = "c_enter" /\ t \in Threads
          /\ monitor[hand[t]] = Nobody /\ UNCHANGED <<hand, live, gref, attr, stray>>
      BY <1>7, <2>2 DEF EnterCall
    <3>2. \A u \in Restorers : pc[u] = "r_loop" => hand[u] # hand[t] /\ u # t
      BY <3>1, MonitorFree DEF Moving
    <3>3. \A u \in Restorers : pc'[u] \in RestoreLabels => pc'[u] = pc[u] /\ u # t
      BY <3>1
    <3>4. QED
      BY <3>1, <3>2, <3>3
  <2>3. QED
    BY <2>1, <2>2
<1>8. ASSUME NEW t \in Callers, RunCallback(t) PROVE Restores'
  BY <1>8 DEF RunCallback
<1>9. ASSUME NEW t \in Callers, LeaveCall(t) PROVE Restores'
  BY <1>9 DEF LeaveCall, Caller
<1>10. ASSUME NEW t \in Restorers, EnterRestore(t) PROVE Restores'
  BY <1>10 DEF EnterRestore
<1>11. ASSUME NEW t \in Restorers, Undelay(t) PROVE Restores'
  BY <1>11 DEF Undelay
<1>12. ASSUME NEW t \in Restorers, Swap(t) PROVE Restores'
  <2>1. PICK n : Swaps(t, n) \/ Fails(t, n)
    BY <1>12, SwapEffect
  <2>2. CASE Swaps(t, n)
    <3>1. t \in Threads /\ pc[t] = "r_swap" /\ hand[t] \in Grefs /\ hand[t] \notin cleared
          /\ hand[t] # n /\ n \notin stray
      BY <2>2 DEF Swaps, MadeInv
    <3>2. \A r \in references[hand[t]] : gref[r] = hand[t]
      BY <2>2, <3>1, OneRestorer DEF Swaps, Shared
    <3>3. \A u \in Restorers : u # t => pc'[u] \notin RestoreLabels
      BY <2>2, <3>1, OneRestorer DEF Swaps, GoesTo
    <3>4. /\ pc'[t] = "r_loop" /\ hand'[t] \notin cleared' \cup live' \cup stray'
          /\ attr'[hand'[t][1]] \in live' \ stray'
      BY <2>2, <3>1 DEF Swaps, GoesTo, Strays
    <3>5. \A r \in left'[t] : gref'[r] = hand'[t]
      BY <2>2, <3>1, <3>2 DEF Swaps
    <3>6. QED
      BY ONLY <3>3, <3>4, <3>5 DEF Restores, RestoreLabels
  <2>3. CASE Fails(t, n)
    <3>1. \A u \in Restorers : pc'[u] \notin RestoreLabels
      BY <2>3, OneRestorer DEF Fails, GoesTo
    <3>2. QED
      BY ONLY <3>1 DEF Restores, RestoreLabels
  <2>4. QED
    BY <2>1, <2>2, <2>3
<1>13. ASSUME NEW t \in Restorers, MoveReference(t) PROVE Restores'
  BY <1>13 DEF MoveReference
<1>14. ASSUME NEW t \in Restorers, LeaveRestore(t) PROVE Restores'
  BY <1>14 DEF LeaveRestore
<1>15. ASSUME StartPass PROVE Restores'
  BY <1>15 DEF StartPass
<1>16. ASSUME RestoreNext PROVE Restores'
  BY <1>16, AttrMade DEF RestoreNext
<1>17. ASSUME LockList PROVE Restores'
  BY <1>17 DEF LockList
<1>18. ASSUME CallNext PROVE Restores'
  BY <1>18 DEF CallNext
<1>19. ASSUME ClearList PROVE Restores'
  BY <1>19 DEF ClearList
<1>20. ASSUME RunDelayedFinalizers PROVE Restores'
  BY <1>20 DEF RunDelayedFinalizers
<1>21. ASSUME NEW t \in Users, NEW r \in Refs, NewInstance(t, r) PROVE Restores'
  <2>1. PICK g : Makes(t, r, g) /\ (Finds(g) \/ Creates(g))
    BY <1>21, NewInstanceEffect
  <2>2. CASE Finds(g)
    BY <2>1, <2>2 DEF Makes, Finds
  <2>3. CASE Creates(g)
    BY <2>1, <2>3 DEF Makes, Creates
  <2>4. QED
    BY <2>1, <2>2, <2>3
<1>22. ASSUME NEW t \in Users, Add(t) PROVE Restores'
  BY <1>22, GrefParts DEF Add, Adds
<1>23. ASSUME NEW t \in Users, NEW r \in Refs, CallReference(t, r) PROVE Restores'
  BY <1>23 DEF CallReference
<1>24. ASSUME NEW t \in Users, Deref(t) PROVE Restores'
  BY <1>24 DEF Deref, Return
<1>25. ASSUME NEW t \in Users, LoadGref(t) PROVE Restores'
  BY <1>25 DEF LoadGref
<1>26. ASSUME NEW t \in Users, TestCleared(t) PROVE Restores'
  BY <1>26 DEF TestCleared, Return
<1>27. ASSUME UNCHANGED vars PROVE Restores'
  BY <1>27 DEF vars
<1>28. QED
  BY <1>1, <1>2, <1>3, <1>4, <1>5, <1>6, <1>7, <1>8, <1>9, <1>10, <1>11, <1>12, <1>13,
     <1>14, <1>15, <1>16, <1>17, <1>18, <1>19, <1>20, <1>21, <1>22, <1>23, <1>24, <1>25,
     <1>26, <1>27 DEF Next, Collector, ReaperStep, PassStep, FinalizerStep, Call, Restore,
     Dereference, Callers, Restorers

LEMMA CallsStep ==
  ASSUME Types, Monitors, Phases, Dead, Strays, Restores, Calls, Shared, TableExact,
         CallbackFinal, Adds, [Next]_vars
  PROVE  Calls'
<1> USE ThreadFacts, HandMade, Exclusive DEF Types, TypeOK, Places, Calls, Goto, Take, jvm,
        table, pending, pass, CallLabels, RestoreLabels, Callers, Restorers
<1>1. ASSUME NEW o \in Objects, Collect(o) PROVE Calls'
  BY <1>1 DEF Collect
<1>2. ASSUME NEW o \in Objects, Register(o) PROVE Calls'
  BY <1>2 DEF Register
<1>3. ASSUME NEW o \in Objects, RunFinalizer(o) PROVE Calls'
  BY <1>3 DEF RunFinalizer
<1>4. ASSUME EndFinalizer PROVE Calls'
  BY <1>4 DEF EndFinalizer
<1>5. ASSUME Dequeue PROVE Calls'
  BY <1>5, GrefParts DEF Dequeue, Dead
<1>6. ASSUME Delay PROVE Calls'
  BY <1>6 DEF Delay
<1>7. ASSUME NEW t \in Callers, EnterCall(t) PROVE Calls'
  <2>1. CASE hand[t] \in cleared
    BY <1>7, <2>1 DEF EnterCall, Caller
  <2>2. CASE hand[t] \notin cleared
    <3>1. \A r \in references[hand[t]] : gref[r] = hand[t] /\ called[r] = 0
      BY <1>7, <2>2, CallEnters DEF EnterCall
    <3>2. /\ cleared' = cleared \cup {hand[t]} /\ left' = [left EXCEPT ![t] = references[hand[t]]]
          /\ pc' = [pc EXCEPT ![t] = "c_loop"] /\ pc[t] = "c_enter"
          /\ UNCHANGED <<hand, live, gref, called>>
      BY <1>7, <2>2 DEF EnterCall
    <3>3. QED
      BY <3>1, <3>2
  <2>3. QED
    BY <2>1, <2>2
<1>8. ASSUME NEW t \in Callers, RunCallback(t) PROVE Calls'
  BY <1>8 DEF RunCallback
<1>9. ASSUME NEW t \in Callers, LeaveCall(t) PROVE Calls'
  BY <1>9 DEF LeaveCall, Caller
<1>10. ASSUME NEW t \in Restorers, EnterRestore(t) PROVE Calls'
  BY <1>10 DEF EnterRestore
<1>11. ASSUME NEW t \in Restorers, Undelay(t) PROVE Calls'
  BY <1>11 DEF Undelay
<1>12. ASSUME NEW t \in Restorers, Swap(t) PROVE Calls'
  <2>1. PICK n : Swaps(t, n) \/ Fails(t, n)
    BY <1>12, SwapEffect
  <2>2. CASE Swaps(t, n)
    BY <2>2 DEF Swaps, GoesTo
  <2>3. CASE Fails(t, n)
    BY <2>3 DEF Fails, GoesTo
  <2>4. QED
    BY <2>1, <2>2, <2>3
<1>13. ASSUME NEW t \in Restorers, MoveReference(t) PROVE Calls'
  <2>1. /\ pc[t] = "r_loop" /\ t \in Threads /\ hand[t] \in Grefs
        /\ \E r \in left[t] : gref' = [gref EXCEPT ![r] = attr[hand[t][1]]]
        /\ \A u \in Threads \ {t} : left'[u] = left[u]
        /\ UNCHANGED <<live, cleared, pc, hand, called>>
    BY <1>13 DEF MoveReference
  <2>2. \A r \in left[t] : gref[r] = hand[t]
    BY <2>1 DEF Restores
  <2>3. \A u \in Callers : pc[u] = "c_loop" => u # t /\ hand[u] # hand[t]
    BY <2>1, MonitorFree DEF Inside
  <2>4. \A u \in Callers : pc[u] = "c_loop" => \A r \in left[u] : gref'[r] = gref[r]
    BY <2>1, <2>2, <2>3
  <2>5. QED
    BY <2>1, <2>3, <2>4
<1>14. ASSUME NEW t \in Restorers, LeaveRestore(t) PROVE Calls'
  BY <1>14 DEF LeaveRestore
<1>15. ASSUME StartPass PROVE Calls'
  BY <1>15 DEF StartPass
<1>16. ASSUME RestoreNext PROVE Calls'
  BY <1>16 DEF RestoreNext
<1>17. ASSUME LockList PROVE Calls'
  BY <1>17 DEF LockList
<1>18. ASSUME CallNext PROVE Calls'
  BY <1>18, GrefParts DEF CallNext, Dead
<1>19. ASSUME ClearList PROVE Calls'
  BY <1>19 DEF ClearList
<1>20. ASSUME RunDelayedFinalizers PROVE Calls'
  BY <1>20 DEF RunDelayedFinalizers
<1>21. ASSUME NEW t \in Users, NEW r \in Refs, NewInstance(t, r) PROVE Calls'
  <2>1. PICK g : Makes(t, r, g) /\ (Finds(g) \/ Creates(g))
    BY <1>21, NewInstanceEffect
  <2>2. CASE Finds(g)
    BY <2>1, <2>2 DEF Makes, Finds
  <2>3. CASE Creates(g)
    BY <2>1, <2>3 DEF Makes, Creates
  <2>4. QED
    BY <2>1, <2>2, <2>3
<1>22. ASSUME NEW t \in Users, Add(t) PROVE Calls'
  <2>1. /\ gref' = [gref EXCEPT ![ref[t]] = hand[t]] /\ gref[ref[t]] = None
        /\ pc' = [pc EXCEPT ![t] = "idle"] /\ hand' = [hand EXCEPT ![t] = None]
        /\ UNCHANGED <<live, cleared, left, called>>
    BY <1>22 DEF Add, Adds
  <2>2. \A u \in Callers : u # t /\ pc'[u] = pc[u] /\ hand'[u] = hand[u]
    BY <2>1
  <2>3. \A u \in Callers : pc[u] = "c_loop" => ref[t] \notin left[u]
    BY <2>1, GrefParts
  <2>4. \A u \in Callers : \A r \in left[u] : pc[u] = "c_loop" => gref'[r] = gref[r]
    BY <2>1, <2>3
  <2>5. pc'[Reaper] = pc[Reaper] /\ hand'[Reaper] = hand[Reaper]
    BY <2>2
  <2>6. QED
    BY ONLY <2>1, <2>2, <2>4, <2>5, Calls DEF Calls
<1>23. ASSUME NEW t \in Users, NEW r \in Refs, CallReference(t, r) PROVE Calls'
  BY <1>23 DEF CallReference
<1>24. ASSUME NEW t \in Users, Deref(t) PROVE Calls'
  BY <1>24 DEF Deref, Return
<1>25. ASSUME NEW t \in Users, LoadGref(t) PROVE Calls'
  BY <1>25 DEF LoadGref
<1>26. ASSUME NEW t \in Users, TestCleared(t) PROVE Calls'
  BY <1>26 DEF TestCleared, Return
<1>27. ASSUME UNCHANGED vars PROVE Calls'
  BY <1>27 DEF vars
<1>28. QED
  BY <1>1, <1>2, <1>3, <1>4, <1>5, <1>6, <1>7, <1>8, <1>9, <1>10, <1>11, <1>12, <1>13,
     <1>14, <1>15, <1>16, <1>17, <1>18, <1>19, <1>20, <1>21, <1>22, <1>23, <1>24, <1>25,
     <1>26, <1>27 DEF Next, Collector, ReaperStep, PassStep, FinalizerStep, Call, Restore,
     Dereference, Callers, Restorers

LEMMA AddsStep ==
  ASSUME Types, Monitors, Phases, Adds, Restores, TableExact, [Next]_vars
  PROVE  Adds'
<1> USE ThreadFacts, HandMade, Exclusive DEF Types, TypeOK, Places, Adds, Phases, Goto,
        Take, jvm, table, pending, pass, CallLabels, RestoreLabels, Callers, Restorers
<1>1. ASSUME NEW o \in Objects, Collect(o) PROVE Adds'
  BY <1>1, GrefParts DEF Collect, OfObject
<1>2. ASSUME NEW o \in Objects, Register(o) PROVE Adds'
  BY <1>2 DEF Register
<1>3. ASSUME NEW o \in Objects, RunFinalizer(o) PROVE Adds'
  BY <1>3 DEF RunFinalizer
<1>4. ASSUME EndFinalizer PROVE Adds'
  BY <1>4 DEF EndFinalizer
<1>5. ASSUME Dequeue PROVE Adds'
  BY <1>5 DEF Dequeue
<1>6. ASSUME Delay PROVE Adds'
  BY <1>6 DEF Delay
<1>7. ASSUME NEW t \in Callers, EnterCall(t) PROVE Adds'
  BY <1>7 DEF EnterCall, Caller
<1>8. ASSUME NEW t \in Callers, RunCallback(t) PROVE Adds'
  BY <1>8 DEF RunCallback
<1>9. ASSUME NEW t \in Callers, LeaveCall(t) PROVE Adds'
  BY <1>9 DEF LeaveCall, Caller
<1>10. ASSUME NEW t \in Restorers, EnterRestore(t) PROVE Adds'
  BY <1>10 DEF EnterRestore
<1>11. ASSUME NEW t \in Restorers, Undelay(t) PROVE Adds'
  BY <1>11 DEF Undelay
<1>12. ASSUME NEW t \in Restorers, Swap(t) PROVE Adds'
  <2>1. PICK n : Swaps(t, n) \/ Fails(t, n)
    BY <1>12, SwapEffect
  <2>2. CASE Swaps(t, n)
    BY <2>2 DEF Swaps, GoesTo
  <2>3. CASE Fails(t, n)
    BY <2>3 DEF Fails, GoesTo
  <2>4. QED
    BY <2>1, <2>2, <2>3
<1>13. ASSUME NEW t \in Restorers, MoveReference(t) PROVE Adds'
  BY <1>13, GrefParts DEF MoveReference, Restores
<1>14. ASSUME NEW t \in Restorers, LeaveRestore(t) PROVE Adds'
  BY <1>14 DEF LeaveRestore
<1>15. ASSUME StartPass PROVE Adds'
  BY <1>15 DEF StartPass
<1>16. ASSUME RestoreNext PROVE Adds'
  BY <1>16 DEF RestoreNext
<1>17. ASSUME LockList PROVE Adds'
  BY <1>17 DEF LockList
<1>18. ASSUME CallNext PROVE Adds'
  BY <1>18 DEF CallNext
<1>19. ASSUME ClearList PROVE Adds'
  BY <1>19 DEF ClearList
<1>20. ASSUME RunDelayedFinalizers PROVE Adds'
  BY <1>20 DEF RunDelayedFinalizers
<1>21. ASSUME NEW t \in Users, NEW r \in Refs, NewInstance(t, r) PROVE Adds'
  <2>1. PICK g : Makes(t, r, g) /\ (Finds(g) \/ Creates(g))
    BY <1>21, NewInstanceEffect
  <2>2. CASE Finds(g)
    BY <2>1, <2>2 DEF Makes, Finds
  <2>3. CASE Creates(g)
    BY <2>1, <2>3 DEF Makes, Creates
  <2>4. QED
    BY <2>1, <2>2, <2>3
<1>22. ASSUME NEW t \in Users, Add(t) PROVE Adds'
  BY <1>22 DEF Add
<1>23. ASSUME NEW t \in Users, NEW r \in Refs, CallReference(t, r) PROVE Adds'
  BY <1>23 DEF CallReference
<1>24. ASSUME NEW t \in Users, Deref(t) PROVE Adds'
  BY <1>24 DEF Deref, Return
<1>25. ASSUME NEW t \in Users, LoadGref(t) PROVE Adds'
  BY <1>25 DEF LoadGref
<1>26. ASSUME NEW t \in Users, TestCleared(t) PROVE Adds'
  BY <1>26 DEF TestCleared, Return
<1>27. ASSUME UNCHANGED vars PROVE Adds'
  BY <1>27 DEF vars
<1>28. QED
  BY <1>1, <1>2, <1>3, <1>4, <1>5, <1>6, <1>7, <1>8, <1>9, <1>10, <1>11, <1>12, <1>13,
     <1>14, <1>15, <1>16, <1>17, <1>18, <1>19, <1>20, <1>21, <1>22, <1>23, <1>24, <1>25,
     <1>26, <1>27 DEF Next, Collector, ReaperStep, PassStep, FinalizerStep, Call, Restore,
     Dereference, Callers, Restorers

LEMMA DelayedStep ==
  ASSUME Types, Monitors, Phases, Delayed, Restores, TableExact, [Next]_vars
  PROVE  Delayed'
<1> USE ThreadFacts, HandMade, Exclusive DEF Types, TypeOK, Places, Delayed, Monitors, Goto,
        Take, jvm, table, pending, pass, CallLabels, RestoreLabels, Callers, Restorers
<1>1. ASSUME NEW o \in Objects, Collect(o) PROVE Delayed'
  BY <1>1 DEF Collect
<1>2. ASSUME NEW o \in Objects, Register(o) PROVE Delayed'
  BY <1>2 DEF Register
<1>3. ASSUME NEW o \in Objects, RunFinalizer(o) PROVE Delayed'
  BY <1>3 DEF RunFinalizer
<1>4. ASSUME EndFinalizer PROVE Delayed'
  BY <1>4 DEF EndFinalizer
<1>5. ASSUME Dequeue PROVE Delayed'
  BY <1>5 DEF Dequeue
<1>6. ASSUME Delay PROVE Delayed'
  BY <1>6 DEF Delay
<1>7. ASSUME NEW t \in Callers, EnterCall(t) PROVE Delayed'
  BY <1>7 DEF EnterCall, Caller
<1>8. ASSUME NEW t \in Callers, RunCallback(t) PROVE Delayed'
  BY <1>8 DEF RunCallback
<1>9. ASSUME NEW t \in Callers, LeaveCall(t) PROVE Delayed'
  BY <1>9 DEF LeaveCall, Caller
<1>10. ASSUME NEW t \in Restorers, EnterRestore(t) PROVE Delayed'
  BY <1>10 DEF EnterRestore
<1>11. ASSUME NEW t \in Restorers, Undelay(t) PROVE Delayed'
  BY <1>11 DEF Undelay
<1>12. ASSUME NEW t \in Restorers, Swap(t) PROVE Delayed'
  <2>1. PICK n : Swaps(t, n) \/ Fails(t, n)
    BY <1>12, SwapEffect
  <2>2. CASE Swaps(t, n)
    BY <2>2 DEF Swaps, GoesTo
  <2>3. CASE Fails(t, n)
    BY <2>3 DEF Fails, GoesTo
  <2>4. QED
    BY <2>1, <2>2, <2>3
<1>13. ASSUME NEW t \in Restorers, MoveReference(t) PROVE Delayed'
  BY <1>13 DEF MoveReference
<1>14. ASSUME NEW t \in Restorers, LeaveRestore(t) PROVE Delayed'
  BY <1>14 DEF LeaveRestore
<1>15. ASSUME StartPass PROVE Delayed'
  BY <1>15 DEF StartPass
<1>16. ASSUME RestoreNext PROVE Delayed'
  BY <1>16 DEF RestoreNext
<1>17. ASSUME LockList PROVE Delayed'
  BY <1>17 DEF LockList
<1>18. ASSUME CallNext PROVE Delayed'
  BY <1>18 DEF CallNext
<1>19. ASSUME ClearList PROVE Delayed'
  BY <1>19 DEF ClearList
<1>20. ASSUME RunDelayedFinalizers PROVE Delayed'
  BY <1>20 DEF RunDelayedFinalizers
<1>21. ASSUME NEW t \in Users, NEW r \in Refs, NewInstance(t, r) PROVE Delayed'
  <2>1. PICK g : Makes(t, r, g) /\ (Finds(g) \/ Creates(g))
    BY <1>21, NewInstanceEffect
  <2>2. /\ t \in Threads \ {Reaper, Processor, Finalizer} /\ hand' = [hand EXCEPT ![t] = g]
        /\ \A u \in Threads \ {t} : pc'[u] = pc[u] \/ (pc[u] = "failed" /\ pc'[u] = "idle")
        /\ live \subseteq live'
        /\ UNCHANGED <<queue, delayed, listOwner, toCall, cleared, gref>>
    BY <2>1 DEF Makes, Finds, Creates
  <2>3. QED
    BY <2>2
<1>22. ASSUME NEW t \in Users, Add(t) PROVE Delayed'
  BY <1>22 DEF Add
<1>23. ASSUME NEW t \in Users, NEW r \in Refs, CallReference(t, r) PROVE Delayed'
  BY <1>23 DEF CallReference
<1>24. ASSUME NEW t \in Users, Deref(t) PROVE Delayed'
  BY <1>24 DEF Deref, Return
<1>25. ASSUME NEW t \in Users, LoadGref(t) PROVE Delayed'
  BY <1>25 DEF LoadGref
<1>26. ASSUME NEW t \in Users, TestCleared(t) PROVE Delayed'
  BY <1>26 DEF TestCleared, Return
<1>27. ASSUME UNCHANGED vars PROVE Delayed'
  BY <1>27 DEF vars
<1>28. QED
  BY <1>1, <1>2, <1>3, <1>4, <1>5, <1>6, <1>7, <1>8, <1>9, <1>10, <1>11, <1>12, <1>13,
     <1>14, <1>15, <1>16, <1>17, <1>18, <1>19, <1>20, <1>21, <1>22, <1>23, <1>24, <1>25,
     <1>26, <1>27 DEF Next, Collector, ReaperStep, PassStep, FinalizerStep, Call, Restore,
     Dereference, Callers, Restorers

LEMMA SharedStep ==
  ASSUME Types, Monitors, Phases, Shared, Adds, Restores, TableExact, [Next]_vars
  PROVE  Shared'
<1> USE ThreadFacts, HandMade, Exclusive DEF Types, TypeOK, Places, Shared, Goto, Take, jvm,
        table, pending, pass, CallLabels, RestoreLabels, Callers, Restorers
<1>1. ASSUME NEW o \in Objects, Collect(o) PROVE Shared'
  BY <1>1 DEF Collect
<1>2. ASSUME NEW o \in Objects, Register(o) PROVE Shared'
  BY <1>2 DEF Register
<1>3. ASSUME NEW o \in Objects, RunFinalizer(o) PROVE Shared'
  BY <1>3 DEF RunFinalizer
<1>4. ASSUME EndFinalizer PROVE Shared'
  BY <1>4 DEF EndFinalizer
<1>5. ASSUME Dequeue PROVE Shared'
  BY <1>5 DEF Dequeue
<1>6. ASSUME Delay PROVE Shared'
  BY <1>6 DEF Delay
<1>7. ASSUME NEW t \in Callers, EnterCall(t) PROVE Shared'
  BY <1>7 DEF EnterCall, Caller
<1>8. ASSUME NEW t \in Callers, RunCallback(t) PROVE Shared'
  BY <1>8 DEF RunCallback
<1>9. ASSUME NEW t \in Callers, LeaveCall(t) PROVE Shared'
  BY <1>9 DEF LeaveCall, Caller
<1>10. ASSUME NEW t \in Restorers, EnterRestore(t) PROVE Shared'
  BY <1>10 DEF EnterRestore
<1>11. ASSUME NEW t \in Restorers, Undelay(t) PROVE Shared'
  BY <1>11 DEF Undelay
<1>12. ASSUME NEW t \in Restorers, Swap(t) PROVE Shared'
  <2>1. PICK n : Swaps(t, n) \/ Fails(t, n)
    BY <1>12, SwapEffect
  <2>2. CASE Swaps(t, n)
    BY <2>2 DEF Swaps, GoesTo
  <2>3. CASE Fails(t, n)
    <3>1. /\ n \notin MadeGrefs /\ pc[t] = "r_swap" /\ UNCHANGED <<objects, cleared, gref>>
          /\ \A g \in Grefs \ {n} : references'[g] = references[g]
      BY <2>3 DEF Fails
    <3>2. n \notin objects
      BY <3>1 DEF MadeInv
    <3>3. \A u \in Restorers : pc[u] # "r_loop"
      BY <3>1, OneRestorer
    <3>4. \A g \in objects \ cleared : \A r \in references[g] : gref[r] = g
      BY ONLY <3>3, Shared DEF Shared
    <3>5. QED
      BY <3>1, <3>2, <3>4
  <2>4. QED
    BY <2>1, <2>2, <2>3
<1>13. ASSUME NEW t \in Restorers, MoveReference(t) PROVE Shared'
  <2>1. PICK r \in left[t] : /\ gref' = [gref EXCEPT ![r] = attr[hand[t][1]]]
                             /\ left' = [left EXCEPT ![t] = @ \ {r}]
    BY <1>13 DEF MoveReference
  <2>2. /\ t \in Threads /\ pc[t] = "r_loop" /\ hand[t] \notin objects /\ gref[r] = hand[t]
        /\ UNCHANGED <<objects, cleared, references, pc, hand, attr>>
    BY <1>13, MovedAway DEF MoveReference, Restores
  <2>3. \A u \in Restorers : pc[u] = "r_loop" => u = t
    BY <2>2, OneRestorer
  <2>4. /\ left'[t] = left[t] \ {r} /\ gref'[r] = attr[hand[t][1]]
        /\ \A s \in Refs \ {r} : gref'[s] = gref[s]
    BY <2>1
  <2>5. SUFFICES ASSUME NEW g \in objects \ cleared, NEW s \in references[g]
                 PROVE  gref'[s] = g \/ (s \in left'[t] /\ attr[hand[t][1]] = g)
    BY <2>2
  <2>6. gref[s] = g \/ (s \in left[t] /\ attr[hand[t][1]] = g)
    BY ONLY <2>3, <2>5, Shared DEF Shared
  <2>7. QED
    BY <2>2, <2>4, <2>6
<1>14. ASSUME NEW t \in Restorers, LeaveRestore(t) PROVE Shared'
  BY <1>14 DEF LeaveRestore
<1>15. ASSUME StartPass PROVE Shared'
  BY <1>15 DEF StartPass
<1>16. ASSUME RestoreNext PROVE Shared'
  BY <1>16 DEF RestoreNext
<1>17. ASSUME LockList PROVE Shared'
  BY <1>17 DEF LockList
<1>18. ASSUME CallNext PROVE Shared'
  BY <1>18 DEF CallNext
<1>19. ASSUME ClearList PROVE Shared'
  BY <1>19 DEF ClearList
<1>20. ASSUME RunDelayedFinalizers PROVE Shared'
  BY <1>20 DEF RunDelayedFinalizers
<1>21. ASSUME NEW t \in Users, NEW r \in Refs, NewInstance(t, r) PROVE Shared'
  <2>1. PICK g : Makes(t, r, g) /\ (Finds(g) \/ Creates(g))
    BY <1>21, NewInstanceEffect
  <2>2. CASE Finds(g)
    BY <2>1, <2>2 DEF Makes, Finds
  <2>3. CASE Creates(g)
    <3>1. references[g] = {} /\ life[g[1]] = "strong" /\ g \in Grefs
      BY <2>1, <2>3 DEF Makes, Creates, MadeInv
    <3>2. \A u \in Restorers : pc[u] = "r_loop" => /\ hand[u][1] \in Objects /\ hand[u][1] # g[1]
                                                 /\ pc'[u] = "r_loop" /\ hand'[u] = hand[u]
      BY <2>1, <3>1 DEF Makes, Phases
    <3>3. \A u \in Restorers : pc[u] = "r_loop" => attr'[hand'[u][1]] = attr[hand[u][1]]
      BY <2>3, <3>2 DEF Creates
    <3>4. objects' = objects \cup {g} /\ UNCHANGED <<cleared, references, gref, left>>
      BY <2>1, <2>3 DEF Makes, Creates
    <3>5. QED
      BY ONLY <3>1, <3>2, <3>3, <3>4, Shared DEF Shared
  <2>4. QED
    BY <2>1, <2>2, <2>3
<1>22. ASSUME NEW t \in Users, Add(t) PROVE Shared'
  <2>1. /\ gref' = [gref EXCEPT ![ref[t]] = hand[t]] /\ gref[ref[t]] = None
        /\ references' = [references EXCEPT ![hand[t]] = @ \cup {ref[t]}]
        /\ hand[t] \in Grefs /\ ref[t] \in Refs
        /\ pc' = [pc EXCEPT ![t] = "idle"] /\ hand' = [hand EXCEPT ![t] = None]
        /\ UNCHANGED <<objects, cleared, left, attr>>
    BY <1>22 DEF Add, Adds
  <2>2. \A u \in Restorers : u # t /\ pc'[u] = pc[u] /\ hand'[u] = hand[u]
    BY <2>1
  <2>3. \A u \in Restorers : pc[u] = "r_loop" => ref[t] \notin left[u]
    BY <2>1, GrefParts DEF Restores
  <2>4. \A g \in objects \ cleared : ref[t] \notin references[g]
    BY <2>1, <2>3, GrefParts
  <2>5. SUFFICES ASSUME NEW g \in objects \ cleared, NEW s \in references'[g]
                 PROVE  \/ gref'[s] = g
                        \/ \E u \in Restorers : pc[u] = "r_loop" /\ s \in left[u] /\ attr[hand[u][1]] = g
    BY <2>1, <2>2
  <2>6. CASE s \in references[g]
    BY <2>1, <2>4, <2>6
  <2>7. CASE s \notin references[g]
    BY <2>1, <2>7
  <2>8. QED
    BY <2>6, <2>7
<1>23. ASSUME NEW t \in Users, NEW r \in Refs, CallReference(t, r) PROVE Shared'
  BY <1>23 DEF CallReference
<1>24. ASSUME NEW t \in Users, Deref(t) PROVE Shared'
  BY <1>24 DEF Deref, Return
<1>25. ASSUME NEW t \in Users, LoadGref(t) PROVE Shared'
  BY <1>25 DEF LoadGref
<1>26. ASSUME NEW t \in Users, TestCleared(t) PROVE Shared'
  BY <1>26 DEF TestCleared, Return
<1>27. ASSUME UNCHANGED vars PROVE Shared'
  BY <1>27 DEF vars
<1>28. QED
  BY <1>1, <1>2, <1>3, <1>4, <1>5, <1>6, <1>7, <1>8, <1>9, <1>10, <1>11, <1>12, <1>13,
     <1>14, <1>15, <1>16, <1>17, <1>18, <1>19, <1>20, <1>21, <1>22, <1>23, <1>24, <1>25,
     <1>26, <1>27 DEF Next, Collector, ReaperStep, PassStep, FinalizerStep, Call, Restore,
     Dereference, Callers, Restorers

LEMMA TableStep ==
  ASSUME Types, Monitors, Phases, TableExact, Strays, Restores, Calls, Shared,
         CallbackFinal, [Next]_vars
  PROVE  TableExact'
<1> USE ThreadFacts, HandMade, Exclusive DEF Types, TypeOK, Places, TableExact, Calling,
        Monitors, Goto, Take, jvm, table, pending, pass, CallLabels, RestoreLabels, Callers,
        Restorers
<1>1. ASSUME NEW o \in Objects, Collect(o) PROVE TableExact'
  BY <1>1 DEF Collect
<1>2. ASSUME NEW o \in Objects, Register(o) PROVE TableExact'
  BY <1>2 DEF Register
<1>3. ASSUME NEW o \in Objects, RunFinalizer(o) PROVE TableExact'
  BY <1>3 DEF RunFinalizer
<1>4. ASSUME EndFinalizer PROVE TableExact'
  BY <1>4 DEF EndFinalizer
<1>5. ASSUME Dequeue PROVE TableExact'
  BY <1>5 DEF Dequeue
<1>6. ASSUME Delay PROVE TableExact'
  BY <1>6 DEF Delay
<1>7. ASSUME NEW t \in Callers, EnterCall(t) PROVE TableExact'
  <2>1. CASE hand[t] \in cleared
    BY <1>7, <2>1 DEF EnterCall, Caller
  <2>2. CASE hand[t] \notin cleared
    <3>1. hand[t] \in objects /\ hand[t] \in Grefs /\ t \in Threads
      BY <1>7, <2>2, CallEnters DEF EnterCall
    <3>2. /\ cleared' = cleared \cup {hand[t]} /\ pc' = [pc EXCEPT ![t] = "c_loop"]
          /\ pc[t] = "c_enter" /\ UNCHANGED <<hand, made, objects, stray>>
      BY <1>7, <2>2 DEF EnterCall
    <3>3. \A g \in Grefs : /\ Moving(g)' <=> Moving(g)
                           /\ Calling(g)' <=> Calling(g) \/ g = hand[t]
      BY <3>1, <3>2 DEF Moving
    <3>4. MadeGrefs' = MadeGrefs
      BY <3>2 DEF MadeGrefs
    <3>5. QED
      BY ONLY <3>1, <3>2, <3>3, <3>4, TableMade, TableExact
  <2>3. QED
    BY <2>1, <2>2
<1>8. ASSUME NEW t \in Callers, RunCallback(t) PROVE TableExact'
  BY <1>8 DEF RunCallback
<1>9. ASSUME NEW t \in Callers, LeaveCall(t) PROVE TableExact'
  <2>1. /\ pc[t] = "c_loop" /\ objects' = objects \ {hand[t]} /\ hand[t] \in objects
        /\ hand' = [hand EXCEPT ![t] = None] /\ pc' = [pc EXCEPT ![t] = Caller(t)]
        /\ hand[t] \in cleared /\ hand[t] \in Grefs /\ t \in Threads
        /\ UNCHANGED <<made, cleared, stray>>
    BY <1>9, CallInTable DEF LeaveCall, Calls
  <2>2. Caller(t) \notin {"r_loop", "c_loop"}
    BY DEF Caller
  <2>3. \A u \in Callers : hand[u] = hand[t] /\ pc[u] = "c_loop" => u = t
    BY <2>1, MonitorFree DEF Inside
  <2>4. \A g \in Grefs : /\ Moving(g)' <=> Moving(g)
                         /\ Calling(g)' <=> Calling(g) /\ g # hand[t]
    BY <2>1, <2>2, <2>3, GrefParts DEF Moving
  <2>5. MadeGrefs' = MadeGrefs
    BY <2>1 DEF MadeGrefs
  <2>6. QED
    BY ONLY <2>1, <2>4, <2>5, TableMade, TableExact
<1>10. ASSUME NEW t \in Restorers, EnterRestore(t) PROVE TableExact'
  BY <1>10 DEF EnterRestore
<1>11. ASSUME NEW t \in Restorers, Undelay(t) PROVE TableExact'
  BY <1>11 DEF Undelay
<1>12. ASSUME NEW t \in Restorers, Swap(t) PROVE TableExact'
  <2>1. PICK n : Swaps(t, n) \/ Fails(t, n)
    BY <1>12, SwapEffect
  <2>2. CASE Swaps(t, n)
    <3>1. /\ n \in Grefs \ MadeGrefs /\ MadeGrefs' = MadeGrefs \cup {n} /\ n # None
          /\ pc[t] = "r_swap" /\ GoesTo(t, "r_loop") /\ hand[t] \in Grefs
          /\ hand[t] # n /\ n \notin cleared \cup stray /\ t \in Threads
          /\ objects' = (objects \ {hand[t]}) \cup {n} /\ UNCHANGED <<hand, cleared, stray>>
      BY <2>2 DEF Swaps, MadeInv
    <3>2. \A u \in Threads : hand[u] # n
      BY <3>1 DEF MadeInv
    <3>3. ~Calling(hand[t])
      BY <3>1, MonitorFree DEF Inside
    <3>4. \A g \in Grefs : /\ Moving(g)' <=> Moving(g) \/ g = hand[t]
                           /\ Calling(g)' <=> Calling(g)
      BY <3>1 DEF Moving, GoesTo
    <3>5. ~Calling(n) /\ ~Moving(n)
      BY <3>2 DEF Moving
    <3>6. QED
      BY ONLY <3>1, <3>3, <3>4, <3>5, TableMade, TableExact
  <2>3. CASE Fails(t, n)
    <3>1. /\ n \in Grefs \ MadeGrefs /\ MadeGrefs' = MadeGrefs \cup {n} /\ stray' = stray \cup {n}
          /\ pc[t] = "r_swap" /\ \E l \in {"idle", "r_done"} : GoesTo(t, l)
          /\ \A u \in Threads \ {t} : hand'[u] = hand[u]
          /\ t \in Threads /\ UNCHANGED <<objects, cleared>>
      BY <2>3 DEF Fails
    <3>2. \A u \in Threads : hand[u] # n
      BY <3>1, GrefParts DEF MadeInv
    <3>3. \A g \in Grefs : (Moving(g)' <=> Moving(g)) /\ (Calling(g)' <=> Calling(g))
      BY <3>1 DEF Moving, GoesTo
    <3>4. ~Calling(n) /\ ~Moving(n)
      BY <3>2 DEF Moving
    <3>5. QED
      BY ONLY <3>1, <3>3, <3>4, TableMade, TableExact
  <2>4. QED
    BY <2>1, <2>2, <2>3
<1>13. ASSUME NEW t \in Restorers, MoveReference(t) PROVE TableExact'
  BY <1>13 DEF MoveReference
<1>14. ASSUME NEW t \in Restorers, LeaveRestore(t) PROVE TableExact'
  BY <1>14 DEF LeaveRestore
<1>15. ASSUME StartPass PROVE TableExact'
  BY <1>15 DEF StartPass
<1>16. ASSUME RestoreNext PROVE TableExact'
  BY <1>16 DEF RestoreNext
<1>17. ASSUME LockList PROVE TableExact'
  BY <1>17 DEF LockList
<1>18. ASSUME CallNext PROVE TableExact'
  BY <1>18 DEF CallNext
<1>19. ASSUME ClearList PROVE TableExact'
  BY <1>19 DEF ClearList
<1>20. ASSUME RunDelayedFinalizers PROVE TableExact'
  BY <1>20 DEF RunDelayedFinalizers
<1>21. ASSUME NEW t \in Users, NEW r \in Refs, NewInstance(t, r) PROVE TableExact'
  <2>1. PICK g : Makes(t, r, g) /\ (Finds(g) \/ Creates(g))
    BY <1>21, NewInstanceEffect
  <2>2. CASE Finds(g)
    BY <2>1, <2>2 DEF Makes, Finds
  <2>3. CASE Creates(g)
    <3>1. /\ g \in Grefs \ MadeGrefs /\ MadeGrefs' = MadeGrefs \cup {g} /\ g \notin cleared
          /\ g \notin stray /\ objects' = objects \cup {g} /\ UNCHANGED <<cleared, stray>>
          /\ hand' = [hand EXCEPT ![t] = g] /\ pc'[t] = "add" /\ pc[t] = "idle"
      BY <2>1, <2>3 DEF Makes, Creates, MadeInv
    <3>2. \A u \in Threads : hand[u] # g
      BY <3>1, GrefParts DEF MadeInv
    <3>3. \A u \in Threads : \A l \in {"r_loop", "c_loop"} : pc'[u] = l <=> pc[u] = l
      BY <2>1, <3>1 DEF Makes
    <3>4. \A h \in Grefs : Moving(h)' <=> Moving(h)
      BY <3>1, <3>2, <3>3 DEF Moving
    <3>5. \A h \in Grefs : Calling(h)' <=> Calling(h)
      BY <3>1, <3>2, <3>3
    <3>6. ~Moving(g) /\ ~Calling(g)
      BY <3>2 DEF Moving
    <3>7. QED
      BY ONLY <3>1, <3>4, <3>5, <3>6, TableMade, TableExact
  <2>4. QED
    BY <2>1, <2>2, <2>3
<1>22. ASSUME NEW t \in Users, Add(t) PROVE TableExact'
  BY <1>22 DEF Add
<1>23. ASSUME NEW t \in Users, NEW r \in Refs, CallReference(t, r) PROVE TableExact'
  BY <1>23 DEF CallReference
<1>24. ASSUME NEW t \in Users, Deref(t) PROVE TableExact'
  BY <1>24 DEF Deref, Return
<1>25. ASSUME NEW t \in Users, LoadGref(t) PROVE TableExact'
  BY <1>25 DEF LoadGref
<1>26. ASSUME NEW t \in Users, TestCleared(t) PROVE TableExact'
  BY <1>26 DEF TestCleared, Return
<1>27. ASSUME UNCHANGED vars PROVE TableExact'
  BY <1>27 DEF vars
<1>28. QED
  BY <1>1, <1>2, <1>3, <1>4, <1>5, <1>6, <1>7, <1>8, <1>9, <1>10, <1>11, <1>12, <1>13,
     <1>14, <1>15, <1>16, <1>17, <1>18, <1>19, <1>20, <1>21, <1>22, <1>23, <1>24, <1>25,
     <1>26, <1>27 DEF Next, Collector, ReaperStep, PassStep, FinalizerStep, Call, Restore,
     Dereference, Callers, Restorers

LEMMA CallbackStep ==
  ASSUME Types, Monitors, Phases, CallbackFinal, Calls, Restores, Dead, Adds, TableExact,
         [Next]_vars
  PROVE  CallbackFinal'
<1> USE ThreadFacts, HandMade, Exclusive DEF Types, TypeOK, Places, CallbackFinal, Goto,
        Take, jvm, table, pending, pass, CallLabels, RestoreLabels, Callers, Restorers
<1>1. ASSUME NEW o \in Objects, Collect(o) PROVE CallbackFinal'
  BY <1>1 DEF Collect
<1>2. ASSUME NEW o \in Objects, Register(o) PROVE CallbackFinal'
  BY <1>2 DEF Register
<1>3. ASSUME NEW o \in Objects, RunFinalizer(o) PROVE CallbackFinal'
  BY <1>3 DEF RunFinalizer
<1>4. ASSUME EndFinalizer PROVE CallbackFinal'
  BY <1>4 DEF EndFinalizer
<1>5. ASSUME Dequeue PROVE CallbackFinal'
  BY <1>5 DEF Dequeue
<1>6. ASSUME Delay PROVE CallbackFinal'
  BY <1>6 DEF Delay
<1>7. ASSUME NEW t \in Callers, EnterCall(t) PROVE CallbackFinal'
  BY <1>7 DEF EnterCall, Caller
<1>8. ASSUME NEW t \in Callers, RunCallback(t) PROVE CallbackFinal'
  BY <1>8, GrefParts DEF RunCallback, Calls
<1>9. ASSUME NEW t \in Callers, LeaveCall(t) PROVE CallbackFinal'
  BY <1>9 DEF LeaveCall, Caller
<1>10. ASSUME NEW t \in Restorers, EnterRestore(t) PROVE CallbackFinal'
  BY <1>10 DEF EnterRestore
<1>11. ASSUME NEW t \in Restorers, Undelay(t) PROVE CallbackFinal'
  BY <1>11 DEF Undelay
<1>12. ASSUME NEW t \in Restorers, Swap(t) PROVE CallbackFinal'
  <2>1. PICK n : Swaps(t, n) \/ Fails(t, n)
    BY <1>12, SwapEffect
  <2>2. /\ n \notin MadeGrefs /\ n # None /\ live' = (live \ {hand[t]}) \cup {n}
        /\ UNCHANGED <<called, gref, cleared>>
    BY <2>1 DEF Swaps, Fails
  <2>3. \A r \in Refs : gref[r] # n
    BY <2>2 DEF MadeInv
  <2>4. QED
    BY ONLY <2>2, <2>3, CallbackFinal DEF CallbackFinal
<1>13. ASSUME NEW t \in Restorers, MoveReference(t) PROVE CallbackFinal'
  BY <1>13, GrefParts DEF MoveReference, Restores
<1>14. ASSUME NEW t \in Restorers, LeaveRestore(t) PROVE CallbackFinal'
  BY <1>14 DEF LeaveRestore
<1>15. ASSUME StartPass PROVE CallbackFinal'
  BY <1>15 DEF StartPass
<1>16. ASSUME RestoreNext PROVE CallbackFinal'
  BY <1>16 DEF RestoreNext
<1>17. ASSUME LockList PROVE CallbackFinal'
  BY <1>17 DEF LockList
<1>18. ASSUME CallNext PROVE CallbackFinal'
  BY <1>18 DEF CallNext
<1>19. ASSUME ClearList PROVE CallbackFinal'
  BY <1>19 DEF ClearList
<1>20. ASSUME RunDelayedFinalizers PROVE CallbackFinal'
  BY <1>20 DEF RunDelayedFinalizers
<1>21. ASSUME NEW t \in Users, NEW r \in Refs, NewInstance(t, r) PROVE CallbackFinal'
  <2>1. PICK g : Makes(t, r, g) /\ (Finds(g) \/ Creates(g))
    BY <1>21, NewInstanceEffect
  <2>2. CASE Finds(g)
    BY <2>1, <2>2 DEF Makes, Finds
  <2>3. CASE Creates(g)
    <3>1. /\ g \notin MadeGrefs /\ g # None /\ live' = live \cup {g}
          /\ UNCHANGED <<called, gref, cleared>>
      BY <2>1, <2>3, GrefParts DEF Makes, Creates
    <3>2. \A s \in Refs : gref[s] # g
      BY <3>1 DEF MadeInv
    <3>3. QED
      BY ONLY <3>1, <3>2, CallbackFinal DEF CallbackFinal
  <2>4. QED
    BY <2>1, <2>2, <2>3
<1>22. ASSUME NEW t \in Users, Add(t) PROVE CallbackFinal'
  BY <1>22, GrefParts DEF Add, Adds
<1>23. ASSUME NEW t \in Users, NEW r \in Refs, CallReference(t, r) PROVE CallbackFinal'
  BY <1>23 DEF CallReference
<1>24. ASSUME NEW t \in Users, Deref(t) PROVE CallbackFinal'
  BY <1>24 DEF Deref, Return
<1>25. ASSUME NEW t \in Users, LoadGref(t) PROVE CallbackFinal'
  BY <1>25 DEF LoadGref
<1>26. ASSUME NEW t \in Users, TestCleared(t) PROVE CallbackFinal'
  BY <1>26 DEF TestCleared, Return
<1>27. ASSUME UNCHANGED vars PROVE CallbackFinal'
  BY <1>27 DEF vars
<1>28. QED
  BY <1>1, <1>2, <1>3, <1>4, <1>5, <1>6, <1>7, <1>8, <1>9, <1>10, <1>11, <1>12, <1>13,
     <1>14, <1>15, <1>16, <1>17, <1>18, <1>19, <1>20, <1>21, <1>22, <1>23, <1>24, <1>25,
     <1>26, <1>27 DEF Next, Collector, ReaperStep, PassStep, FinalizerStep, Call, Restore,
     Dereference, Callers, Restorers

LEMMA OrphanStep ==
  ASSUME Types, Monitors, Phases, NoOrphan, Dead, Strays, Restores, Adds, Delayed, Calls,
         TableExact, [Next]_vars
  PROVE  NoOrphan'
<1> USE ThreadFacts, HandMade, Exclusive DEF Types, TypeOK, Places, NoOrphan, ReaperHas,
        Restoring, Goto, Take, jvm, table, pending, pass, CallLabels, RestoreLabels,
        Callers, Restorers
<1>1. ASSUME NEW o \in Objects, Collect(o) PROVE NoOrphan'
  BY <1>1 DEF Collect, Strays
<1>2. ASSUME NEW o \in Objects, Register(o) PROVE NoOrphan'
  BY <1>2 DEF Register
<1>3. ASSUME NEW o \in Objects, RunFinalizer(o) PROVE NoOrphan'
  BY <1>3 DEF RunFinalizer
<1>4. ASSUME EndFinalizer PROVE NoOrphan'
  BY <1>4 DEF EndFinalizer
<1>5. ASSUME Dequeue PROVE NoOrphan'
  BY <1>5 DEF Dequeue
<1>6. ASSUME Delay PROVE NoOrphan'
  BY <1>6 DEF Delay
<1>7. ASSUME NEW t \in Callers, EnterCall(t) PROVE NoOrphan'
  BY <1>7 DEF EnterCall, Caller
<1>8. ASSUME NEW t \in Callers, RunCallback(t) PROVE NoOrphan'
  BY <1>8 DEF RunCallback
<1>9. ASSUME NEW t \in Callers, LeaveCall(t) PROVE NoOrphan'
  BY <1>9 DEF LeaveCall, Caller
<1>10. ASSUME NEW t \in Restorers, EnterRestore(t) PROVE NoOrphan'
  BY <1>10 DEF EnterRestore
<1>11. ASSUME NEW t \in Restorers, Undelay(t) PROVE NoOrphan'
  BY <1>11 DEF Undelay
<1>12. ASSUME NEW t \in Restorers, Swap(t) PROVE NoOrphan'
  <2>1. PICK n : Swaps(t, n) \/ Fails(t, n)
    BY <1>12, SwapEffect
  <2>2. CASE Swaps(t, n)
    BY <2>2 DEF Swaps, GoesTo
  <2>3. CASE Fails(t, n)
    <3>1. /\ hand[t] \in cleared \cup stray /\ live' = (live \ {hand[t]}) \cup {n} /\ t \in Threads
          /\ \A u \in Threads \ {t} : hand'[u] = hand[u]
          /\ \E l \in {"idle", "r_done"} : GoesTo(t, l)
          /\ UNCHANGED <<queue, delayed, cleared, gref>>
      BY <2>3 DEF Fails
    <3>2. \A r \in Refs : gref[r] = hand[t] => gref[r] \in cleared
      BY <3>1 DEF Strays
    <3>3. \A u \in Threads \ {t} : pc[u] \in {"delay", "c_enter", "r_swap", "r_loop"} => pc'[u] = pc[u]
      BY <3>1 DEF GoesTo
    <3>4. t # Reaper
      OBVIOUS
    <3>5. QED
      BY <3>1, <3>2, <3>3, <3>4
  <2>4. QED
    BY <2>1, <2>2, <2>3
<1>13. ASSUME NEW t \in Restorers, MoveReference(t) PROVE NoOrphan'
  BY <1>13, GrefParts DEF MoveReference, Restores
<1>14. ASSUME NEW t \in Restorers, LeaveRestore(t) PROVE NoOrphan'
  BY <1>14 DEF LeaveRestore
<1>15. ASSUME StartPass PROVE NoOrphan'
  BY <1>15 DEF StartPass
<1>16. ASSUME RestoreNext PROVE NoOrphan'
  BY <1>16 DEF RestoreNext
<1>17. ASSUME LockList PROVE NoOrphan'
  BY <1>17 DEF LockList
<1>18. ASSUME CallNext PROVE NoOrphan'
  BY <1>18 DEF CallNext
<1>19. ASSUME ClearList PROVE NoOrphan'
  <2>1. /\ pc[Processor] = "p_calls" /\ toCall = {} /\ pc' = [pc EXCEPT ![Processor] = "p_finalize"]
        /\ UNCHANGED <<gref, live, cleared, queue, hand>>
    BY <1>19 DEF ClearList
  <2>2. delayed \subseteq cleared
    BY <2>1 DEF Monitors, Delayed
  <2>3. QED
    BY <2>1, <2>2
<1>20. ASSUME RunDelayedFinalizers PROVE NoOrphan'
  BY <1>20 DEF RunDelayedFinalizers
<1>21. ASSUME NEW t \in Users, NEW r \in Refs, NewInstance(t, r) PROVE NoOrphan'
  <2>1. PICK g : Makes(t, r, g) /\ (Finds(g) \/ Creates(g))
    BY <1>21, NewInstanceEffect
  <2>2. /\ t \in Threads \ {Reaper, Processor, Finalizer} /\ hand' = [hand EXCEPT ![t] = g]
        /\ \A u \in Threads \ {t} : pc'[u] = pc[u] \/ (pc[u] = "failed" /\ pc'[u] = "idle")
        /\ live \subseteq live'
        /\ UNCHANGED <<queue, delayed, listOwner, toCall, cleared, gref>>
    BY <2>1 DEF Makes, Finds, Creates
  <2>3. QED
    BY <2>2
<1>22. ASSUME NEW t \in Users, Add(t) PROVE NoOrphan'
  BY <1>22, GrefParts DEF Add, Adds
<1>23. ASSUME NEW t \in Users, NEW r \in Refs, CallReference(t, r) PROVE NoOrphan'
  BY <1>23 DEF CallReference
<1>24. ASSUME NEW t \in Users, Deref(t) PROVE NoOrphan'
  BY <1>24 DEF Deref, Return
<1>25. ASSUME NEW t \in Users, LoadGref(t) PROVE NoOrphan'
  BY <1>25 DEF LoadGref
<1>26. ASSUME NEW t \in Users, TestCleared(t) PROVE NoOrphan'
  BY <1>26 DEF TestCleared, Return
<1>27. ASSUME UNCHANGED vars PROVE NoOrphan'
  BY <1>27 DEF vars
<1>28. QED
  BY <1>1, <1>2, <1>3, <1>4, <1>5, <1>6, <1>7, <1>8, <1>9, <1>10, <1>11, <1>12, <1>13,
     <1>14, <1>15, <1>16, <1>17, <1>18, <1>19, <1>20, <1>21, <1>22, <1>23, <1>24, <1>25,
     <1>26, <1>27 DEF Next, Collector, ReaperStep, PassStep, FinalizerStep, Call, Restore,
     Dereference, Callers, Restorers

------------------------------------------------------------------------------
(* What get() answers. *)

\* It returns None when the GlobalRef it looked at is cleared.
AnswersCleared ==
  \A u \in Users : pc[u] = "test_cleared" /\ pc'[u] = "idle" => hand[u] \in cleared

LEMMA NoneStep ==
  ASSUME Types, [Next]_vars
  PROVE  AnswersCleared
<1> USE ThreadFacts DEF AnswersCleared, Types, TypeOK, Places, Goto, Take, jvm, table,
        pending, pass, CallLabels, RestoreLabels, Callers, Restorers
<1>1. ASSUME NEW o \in Objects, Collect(o) PROVE AnswersCleared
  BY <1>1 DEF Collect
<1>2. ASSUME NEW o \in Objects, Register(o) PROVE AnswersCleared
  BY <1>2 DEF Register
<1>3. ASSUME NEW o \in Objects, RunFinalizer(o) PROVE AnswersCleared
  BY <1>3 DEF RunFinalizer
<1>4. ASSUME EndFinalizer PROVE AnswersCleared
  BY <1>4 DEF EndFinalizer
<1>5. ASSUME Dequeue PROVE AnswersCleared
  BY <1>5 DEF Dequeue
<1>6. ASSUME Delay PROVE AnswersCleared
  BY <1>6 DEF Delay
<1>7. ASSUME NEW t \in Callers, EnterCall(t) PROVE AnswersCleared
  BY <1>7 DEF EnterCall, Caller
<1>8. ASSUME NEW t \in Callers, RunCallback(t) PROVE AnswersCleared
  BY <1>8 DEF RunCallback
<1>9. ASSUME NEW t \in Callers, LeaveCall(t) PROVE AnswersCleared
  BY <1>9 DEF LeaveCall, Caller
<1>10. ASSUME NEW t \in Restorers, EnterRestore(t) PROVE AnswersCleared
  BY <1>10 DEF EnterRestore
<1>11. ASSUME NEW t \in Restorers, Undelay(t) PROVE AnswersCleared
  BY <1>11 DEF Undelay
<1>12. ASSUME NEW t \in Restorers, Swap(t) PROVE AnswersCleared
  <2>1. pc[t] = "r_swap" /\ \E l \in {"idle", "r_done", "r_loop"} : GoesTo(t, l)
    BY <1>12, WithReaperEffect DEF Swap, Labels
  <2>2. QED
    BY <2>1 DEF GoesTo
<1>13. ASSUME NEW t \in Restorers, MoveReference(t) PROVE AnswersCleared
  BY <1>13 DEF MoveReference
<1>14. ASSUME NEW t \in Restorers, LeaveRestore(t) PROVE AnswersCleared
  BY <1>14 DEF LeaveRestore
<1>15. ASSUME StartPass PROVE AnswersCleared
  BY <1>15 DEF StartPass
<1>16. ASSUME RestoreNext PROVE AnswersCleared
  BY <1>16 DEF RestoreNext
<1>17. ASSUME LockList PROVE AnswersCleared
  BY <1>17 DEF LockList
<1>18. ASSUME CallNext PROVE AnswersCleared
  BY <1>18 DEF CallNext
<1>19. ASSUME ClearList PROVE AnswersCleared
  BY <1>19 DEF ClearList
<1>20. ASSUME RunDelayedFinalizers PROVE AnswersCleared
  BY <1>20 DEF RunDelayedFinalizers
<1>21. ASSUME NEW t \in Users, NEW r \in Refs, NewInstance(t, r) PROVE AnswersCleared
  <2>1. PICK g : Makes(t, r, g)
    BY <1>21, NewInstanceEffect
  <2>2. QED
    BY <2>1 DEF Makes
<1>22. ASSUME NEW t \in Users, Add(t) PROVE AnswersCleared
  BY <1>22 DEF Add
<1>23. ASSUME NEW t \in Users, NEW r \in Refs, CallReference(t, r) PROVE AnswersCleared
  BY <1>23 DEF CallReference
<1>24. ASSUME NEW t \in Users, Deref(t) PROVE AnswersCleared
  BY <1>24 DEF Deref, Return
<1>25. ASSUME NEW t \in Users, LoadGref(t) PROVE AnswersCleared
  BY <1>25 DEF LoadGref
<1>26. ASSUME NEW t \in Users, TestCleared(t) PROVE AnswersCleared
  BY <1>26 DEF TestCleared, Return
<1>27. ASSUME UNCHANGED vars PROVE AnswersCleared
  BY <1>27 DEF vars
<1>28. QED
  BY <1>1, <1>2, <1>3, <1>4, <1>5, <1>6, <1>7, <1>8, <1>9, <1>10, <1>11, <1>12, <1>13,
     <1>14, <1>15, <1>16, <1>17, <1>18, <1>19, <1>20, <1>21, <1>22, <1>23, <1>24, <1>25,
     <1>26, <1>27 DEF Next, Collector, ReaperStep, PassStep, FinalizerStep, Call, Restore,
     Dereference, Callers, Restorers

------------------------------------------------------------------------------
LEMMA InitInv == Init => Inv
<1> SUFFICES ASSUME Init PROVE Inv
  OBVIOUS
<1> USE ThreadFacts, GrefParts, GlobalRefAssumption DEF Init
<1>1. Types
  BY TypesInit
<1>2. \A t \in Threads : pc[t] = "idle" /\ hand[t] = None
  OBVIOUS
<1>3. Monitors /\ Phases
  BY <1>2 DEF Monitors, Phases, Inside, CallLabels, RestoreLabels
<1>4. Dead /\ Strays /\ Restores /\ Calls /\ Adds /\ Delayed /\ Shared
  BY <1>2 DEF Dead, Strays, Restores, Calls, Adds, Delayed, Shared, CallLabels,
     RestoreLabels, Callers, Restorers
<1>5. MadeGrefs = {}
  BY DEF MadeGrefs
<1>6. TableExact
  BY <1>2, <1>5, TableMade DEF Calling
<1>7. CallbackFinal /\ NoOrphan
  BY DEF CallbackFinal, NoOrphan
<1>8. QED
  BY <1>1, <1>3, <1>4, <1>6, <1>7 DEF Inv

LEMMA InvStep == Inv /\ [Next]_vars => Inv'
<1> SUFFICES ASSUME Inv, [Next]_vars PROVE Inv'
  OBVIOUS
<1> USE DEF Inv
<1>1. Types' /\ Monitors' /\ Phases'
  BY TypesStep, MonitorsStep, PhasesStep
<1>2. Dead' /\ Strays' /\ Restores'
  BY DeadStep, StraysStep, RestoresStep
<1>3. Calls' /\ Adds' /\ Delayed' /\ Shared'
  BY CallsStep, AddsStep, DelayedStep, SharedStep
<1>4. TableExact' /\ CallbackFinal' /\ NoOrphan'
  BY TableStep, CallbackStep, OrphanStep
<1>5. QED
  BY <1>1, <1>2, <1>3, <1>4

LEMMA InvHolds == Spec => []Inv
<1>1. QED
  BY InitInv, InvStep, PTL DEF Spec

\* The fields of the references, of the table and of the threads keep their types.
THEOREM TypeCorrect == Spec => []TypeOK
<1>1. QED
  BY InvHolds, PTL DEF Inv, Types

\* The keys of GlobalRef.objects are the GlobalRefs that are neither cleared nor being
\* disbanded nor left behind by a restore() that failed, and the one that is being called
\* back, whatever the reaper, the pass, the finalizer and the users do.  So call() never
\* misses its entry, and restore() does so only on a GlobalRef that is cleared or left behind.
THEOREM TableExactHolds == Spec => []TableExact
<1>1. QED
  BY InvHolds, PTL DEF Inv

\* No callback runs twice, and no reference that was called back resolves again, whether
\* callbacks are delayed or not and however often its object is resurrected.
THEOREM CallbackFinalHolds == Spec => []CallbackFinal
<1>1. QED
  BY InvHolds, PTL DEF Inv

\* The reaper, delayedCallbacks and the pass lose no reference between them.
THEOREM NoOrphanHolds == Spec => []NoOrphan
<1>1. QED
  BY InvHolds, PTL DEF Inv

\* When isCleared() of the GlobalRef its reference still uses makes get() return None,
\* no restore is about to move that reference.
THEOREM NoneIsFinalHolds == Spec => NoneIsFinal
<1>1. ASSUME Inv, [Next]_vars
      PROVE  \A t \in Users :
                pc[t] = "test_cleared" /\ pc'[t] = "idle" /\ hand[t] = gref[ref[t]]
                  => ~\E u \in {Processor, Finalizer} : hand[u] = hand[t] /\ pc[u] = "r_loop"
  <2>1. \A t \in Users : pc[t] = "test_cleared" /\ pc'[t] = "idle" => hand[t] \in cleared
    BY <1>1, NoneStep DEF Inv, AnswersCleared
  <2>2. QED
    BY <1>1, <2>1 DEF Inv, Restores, Restorers, RestoreLabels
<1>2. QED
  BY <1>1, InvHolds, PTL DEF Spec, NoneIsFinal
==============================================================================
