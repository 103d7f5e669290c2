--------------------------- MODULE FinalizationProofs ---------------------------
(***************************************************************************)
(* Passes and finalizers do not overlap, every __del__ runs once, and      *)
(* collect() returns when all finalizers have run and can be called again, *)
(* for any sets of objects, callers and processors.                        *)
(***************************************************************************)
EXTENDS Finalization, TLAPS

\* The sorts of thread are different.
LEMMA ThreadFacts ==
  /\ Finalizer \in Workers /\ Finalizer \in Threads /\ Finalizer \notin Processors
  /\ Processors \subseteq Workers /\ Workers \subseteq Threads /\ Users \subseteq Threads
  /\ Workers = Processors \cup {Finalizer} /\ Threads = Users \cup Workers
  /\ \A u \in Users : u \notin Workers /\ u \notin Processors /\ u # Finalizer /\ u # None
  /\ \A p \in Processors : p # None /\ p # Finalizer
  /\ \A o \in Objects : o # None /\ o # Sentinel
  /\ Sentinel # None /\ Finalizer # None
  BY FinalizationAssumption DEF Workers, Threads

------------------------------------------------------------------------------
(* Types. *)

\* Where the threads are, and openFinalizeCount as the finalizer thread has it.
Places ==
  /\ \A u \in Users : pc[u] \in {"idle"} \cup CollectLabels
  /\ pc[Finalizer] \in {"idle", "dec", "test"} \cup FinalizerLabels
  /\ \A p \in Processors : pc[p] \in {"idle", "dec", "test"} \cup ProcessorLabels
  /\ work[Finalizer] \in Objects \cup {Sentinel} \/ pc[Finalizer] = "idle"
  /\ pc[Finalizer] \in {"dec", "test"} => work[Finalizer] \in Objects
  /\ openFinalizeCount = IF pc[Finalizer] \in {"idle", "f_pre"} THEN 0 ELSE 1

Types == TypeOK /\ Places

LEMMA TypesStep ==
  ASSUME Types, [Next]_vars
  PROVE  Types'
<1> USE ThreadFacts DEF Types, TypeOK, Places, Labels, Prompt, CollectLabels,
        FinalizerLabels, ProcessorLabels, trash, counting, open, processor, passing,
        collecting, Goto
<1>1. ASSUME JvmCollects PROVE Types'
  BY <1>1 DEF JvmCollects, Collects, Garbage
<1>2. ASSUME TimePasses PROVE Types'
  <2>1. recent' \in BOOLEAN /\ slipped' \in BOOLEAN
    BY <1>2 DEF TimePasses
  <2>2. TypeOK'
    BY <1>2, <2>1 DEF TimePasses
  <2>3. Places'
    BY <1>2 DEF TimePasses
  <2>4. QED
    BY <2>2, <2>3
<1>3. ASSUME NEW o \in Objects, Drop(o) PROVE Types'
  BY <1>3 DEF Drop
<1>4. ASSUME NEW u \in Users, CallCollect(u) PROVE Types'
  BY <1>4 DEF CallCollect
<1>5. ASSUME NEW u \in Users, Prepare(u) PROVE Types'
  BY <1>5 DEF Prepare
<1>6. ASSUME NEW u \in Users, ResetCount(u) PROVE Types'
  BY <1>6 DEF ResetCount
<1>7. ASSUME NEW u \in Users, SystemGc(u) PROVE Types'
  BY <1>7 DEF SystemGc, Collects, Garbage
<1>8. ASSUME NEW u \in Users, TakeTrash(u) PROVE Types'
  BY <1>8 DEF TakeTrash
<1>9. ASSUME NEW u \in Users, CountTrash(u) PROVE Types'
  BY <1>9 DEF CountTrash, WriteCount
<1>10. ASSUME NEW u \in Users, EndTrash(u) PROVE Types'
  BY <1>10 DEF EndTrash
<1>11. ASSUME NEW u \in Users, UnlockPass(u) PROVE Types'
  <2>1. lockPostFinalization' \in BOOLEAN /\ slipped' \in BOOLEAN
    BY <1>11 DEF UnlockPass
  <2>2. TypeOK'
    BY <1>11, <2>1 DEF UnlockPass
  <2>3. Places'
    BY <1>11 DEF UnlockPass
  <2>4. QED
    BY <2>2, <2>3
<1>12. ASSUME NEW u \in Users, PokeProcessor(u) PROVE Types'
  <2>1. waitingForFinalizers' \in BOOLEAN
    BY <1>12 DEF PokeProcessor
  <2>2. TypeOK'
    BY <1>12, <2>1 DEF PokeProcessor
  <2>3. Places'
    BY <1>12 DEF PokeProcessor
  <2>4. QED
    BY <2>2, <2>3
<1>13. ASSUME NEW u \in Users, InterruptProcessor(u) PROVE Types'
  <2>1. waitingForFinalizers' \in BOOLEAN
    BY <1>13 DEF InterruptProcessor
  <2>2. TypeOK'
    BY <1>13, <2>1 DEF InterruptProcessor
  <2>3. Places'
    BY <1>13 DEF InterruptProcessor
  <2>4. QED
    BY <2>2, <2>3
<1>14. ASSUME NEW u \in Users, TestCount(u) PROVE Types'
  BY <1>14 DEF TestCount
<1>15. ASSUME NEW u \in Users, Settle(u) PROVE Types'
  <2>1. waitingForFinalizers' \in BOOLEAN /\ slipped' \in BOOLEAN
    BY <1>15 DEF Settle
  <2>2. TypeOK'
    BY <1>15, <2>1 DEF Settle
  <2>3. Places'
    BY <1>15 DEF Settle
  <2>4. QED
    BY <2>2, <2>3
<1>16. ASSUME NEW u \in Users, AwaitPass(u) PROVE Types'
  <2>1. gcRunning' \in BOOLEAN
    BY <1>16 DEF AwaitPass
  <2>2. TypeOK'
    BY <1>16, <2>1 DEF AwaitPass
  <2>3. Places'
    BY <1>16 DEF AwaitPass
  <2>4. QED
    BY <2>2, <2>3
<1>17. ASSUME TakeFinalizable PROVE Types'
  BY <1>17 DEF TakeFinalizable
<1>18. ASSUME NotifyPre PROVE Types'
  BY <1>18 DEF NotifyPre
<1>19. ASSUME StartProcessor PROVE Types'
  <2>1. postFinalizationPending' \in BOOLEAN
    BY <1>19 DEF StartProcessor
  <2>2. TypeOK'
    BY <1>19, <2>1 DEF StartProcessor
  <2>3. Places'
    BY <1>19 DEF StartProcessor
  <2>4. QED
    BY <2>2, <2>3
<1>20. ASSUME TellCollector PROVE Types'
  BY <1>20 DEF TellCollector
<1>21. ASSUME Finalize PROVE Types'
  BY <1>21 DEF Finalize, Perform, Caller
<1>22. ASSUME NotifyPost PROVE Types'
  <2>1. recent' \in BOOLEAN
    BY <1>22 DEF NotifyPost
  <2>2. wasRecent' \in BOOLEAN
    BY <1>22 DEF NotifyPost
  <2>3. openFinalizeCount' = 0
    BY <1>22 DEF NotifyPost
  <2>4. TypeOK'
    BY <1>22, <2>1, <2>2, <2>3 DEF NotifyPost
  <2>5. Places'
    BY <1>22 DEF NotifyPost
  <2>6. QED
    BY <2>4, <2>5
<1>23. ASSUME NEW t \in Workers, Decrement(t) PROVE Types'
  BY <1>23 DEF Decrement, WriteCount, Caller
<1>24. ASSUME NEW t \in Workers, TestWaiting(t) PROVE Types'
  BY <1>24 DEF TestWaiting, Caller
<1>25. ASSUME NEW p \in Processors, CalmedDown(p) PROVE Types'
  BY <1>25 DEF CalmedDown
<1>26. ASSUME NEW p \in Processors, ClearProcessor(p) PROVE Types'
  BY <1>26 DEF ClearProcessor
<1>27. ASSUME NEW p \in Processors, BeginPass(p) PROVE Types'
  BY <1>27 DEF BeginPass
<1>28. ASSUME NEW p \in Processors, PerformNext(p) PROVE Types'
  BY <1>28 DEF PerformNext, Perform, Caller
<1>29. ASSUME NEW p \in Processors, ClearFinalizables(p) PROVE Types'
  BY <1>29 DEF ClearFinalizables
<1>30. ASSUME NEW p \in Processors, EndPass(p) PROVE Types'
  BY <1>30 DEF EndPass
<1>31. ASSUME NEW p \in Processors, NotifyPass(p) PROVE Types'
  <2>1. postFinalizationPending' \in BOOLEAN
    BY <1>31 DEF NotifyPass
  <2>2. TypeOK'
    BY <1>31, <2>1 DEF NotifyPass
  <2>3. Places'
    BY <1>31 DEF NotifyPass
  <2>4. QED
    BY <2>2, <2>3
<1>32. CASE UNCHANGED vars
  BY <1>32 DEF vars
<1>33. QED
  BY <1>1, <1>2, <1>3, <1>4, <1>5, <1>6, <1>7, <1>8, <1>9, <1>10, <1>11, <1>12, <1>13,
     <1>14, <1>15, <1>16, <1>17, <1>18, <1>19, <1>20, <1>21, <1>22, <1>23, <1>24, <1>25,
     <1>26, <1>27, <1>28, <1>29, <1>30, <1>31, <1>32 DEF Next, Finalizing, Processing,
     Collecting, Workers

\* A step of collect().  It does not touch what the finalizers and passes work with.
UserStep(u) == CallCollect(u) \/ Collecting(u)

LEMMA UserEffect ==
  ASSUME Types, NEW u \in Users, UserStep(u)
  PROVE  /\ pc' = [pc EXCEPT ![u] = pc'[u]]
         /\ UNCHANGED <<delayed, open, processor, passing, work, ran>>
         /\ Collects({Sentinel}) \/ UNCHANGED <<life, toFinalize>>
<1> USE ThreadFacts DEF UserStep, Collecting, Types, TypeOK, collecting, Goto
<1>1. CASE CallCollect(u) \/ Prepare(u) \/ ResetCount(u) \/ SystemGc(u)
  BY <1>1 DEF CallCollect, Prepare, ResetCount, SystemGc
<1>2. CASE TakeTrash(u) \/ CountTrash(u) \/ EndTrash(u) \/ UnlockPass(u)
  BY <1>2 DEF TakeTrash, CountTrash, EndTrash, UnlockPass
<1>3. CASE PokeProcessor(u) \/ InterruptProcessor(u) \/ TestCount(u) \/ Settle(u) \/ AwaitPass(u)
  BY <1>3 DEF PokeProcessor, InterruptProcessor, TestCount, Settle, AwaitPass
<1>4. QED
  BY <1>1, <1>2, <1>3

------------------------------------------------------------------------------
(* Passes. *)

\* A pass has the monitor of the list; before it a processor waits, and then looks at
\* finalization no more.
Performing == {"p_pass", "dec", "test"}
Passing == Performing \cup {"p_end"}
Decided == {"p_clear", "p_begin"} \cup Passing
Active == {"p_wait"} \cup Decided

\* The monitor is held by the pass, the field by the processor that has not begun one; there
\* are processors only if finalization is delayed.
Holders ==
  /\ ~delayed => \A p \in Processors : pc[p] = "idle"
  /\ \A p \in Processors : postLock = p <=> pc[p] \in Passing
  /\ \A p \in Processors : postFinalizationProcessor = p <=> pc[p] \in {"p_wait", "p_clear"}

\* As long as no finalizer has slipped in, one processor at a time is waiting or in its pass,
\* and from the moment when finalization has calmed down to the end of the pass the finalizer
\* thread gets no further than the monitor.
Passes ==
  ~slipped =>
    /\ \A p, q \in Processors : pc[p] \in Active /\ pc[q] \in Active => p = q
    /\ \A p \in Processors : pc[p] \in Decided =>
          ~recent /\ pc[Finalizer] \in {"idle", "f_pre", "f_start"}

LEMMA HoldersStep ==
  ASSUME Types, Holders, [Next]_vars
  PROVE  Holders'
<1> USE ThreadFacts DEF Types, TypeOK, Places, Holders, Performing, Passing,
        FinalizerLabels, ProcessorLabels, trash, counting, open, processor, passing,
        collecting, Goto
<1>1. ASSUME JvmCollects PROVE Holders'
  BY <1>1 DEF JvmCollects, Collects, Garbage
<1>2. ASSUME TimePasses PROVE Holders'
  BY <1>2 DEF TimePasses
<1>3. ASSUME NEW o \in Objects, Drop(o) PROVE Holders'
  BY <1>3 DEF Drop
<1>4. ASSUME NEW u \in Users, UserStep(u) PROVE Holders'
  BY <1>4, UserEffect
<1>5. ASSUME TakeFinalizable PROVE Holders'
  BY <1>5 DEF TakeFinalizable
<1>6. ASSUME NotifyPre PROVE Holders'
  BY <1>6 DEF NotifyPre
<1>7. ASSUME StartProcessor PROVE Holders'
  BY <1>7 DEF StartProcessor
<1>8. ASSUME TellCollector PROVE Holders'
  BY <1>8 DEF TellCollector
<1>9. ASSUME Finalize PROVE Holders'
  BY <1>9 DEF Finalize, Perform, Caller
<1>10. ASSUME NotifyPost PROVE Holders'
  BY <1>10 DEF NotifyPost
<1>11. ASSUME NEW t \in Workers, Decrement(t) PROVE Holders'
  BY <1>11 DEF Decrement, WriteCount, Caller
<1>12. ASSUME NEW t \in Workers, TestWaiting(t) PROVE Holders'
  BY <1>12 DEF TestWaiting, Caller
<1>13. ASSUME NEW p \in Processors, CalmedDown(p) PROVE Holders'
  BY <1>13 DEF CalmedDown
<1>14. ASSUME NEW p \in Processors, ClearProcessor(p) PROVE Holders'
  BY <1>14 DEF ClearProcessor
<1>15. ASSUME NEW p \in Processors, BeginPass(p) PROVE Holders'
  BY <1>15 DEF BeginPass
<1>16. ASSUME NEW p \in Processors, PerformNext(p) PROVE Holders'
  BY <1>16 DEF PerformNext, Perform, Caller
<1>17. ASSUME NEW p \in Processors, ClearFinalizables(p) PROVE Holders'
  BY <1>17 DEF ClearFinalizables
<1>18. ASSUME NEW p \in Processors, EndPass(p) PROVE Holders'
  BY <1>18 DEF EndPass
<1>19. ASSUME NEW p \in Processors, NotifyPass(p) PROVE Holders'
  BY <1>19 DEF NotifyPass
<1>20. CASE UNCHANGED vars
  BY <1>20 DEF vars
<1>21. QED
  BY <1>1, <1>2, <1>3, <1>4, <1>5, <1>6, <1>7, <1>8, <1>9, <1>10, <1>11, <1>12, <1>13,
     <1>14, <1>15, <1>16, <1>17, <1>18, <1>19, <1>20 DEF Next, Finalizing, Processing,
     UserStep, Workers

\* Delayed finalization has a processor waiting as long as finalizers are at work.
Served ==
  ~slipped /\ delayed /\ (recent \/ pc[Finalizer] \in {"f_body", "f_post", "dec", "test"}) =>
      \E p \in Processors : pc[p] = "p_wait"

LEMMA PassesStep ==
  ASSUME Types, Holders, Passes, Served, [Next]_vars
  PROVE  Passes'
<1> USE ThreadFacts DEF Types, TypeOK, Places, Holders, Passes, Performing, Passing, Decided,
        Active, FinalizerLabels, ProcessorLabels, trash, counting, open, processor, passing,
        collecting, Goto
<1>1. ASSUME JvmCollects PROVE Passes'
  BY <1>1 DEF JvmCollects, Collects, Garbage
<1>2. ASSUME TimePasses PROVE Passes'
  BY <1>2 DEF TimePasses
<1>3. ASSUME NEW o \in Objects, Drop(o) PROVE Passes'
  BY <1>3 DEF Drop
<1>4. ASSUME NEW u \in Users, UserStep(u) PROVE Passes'
  BY <1>4, UserEffect
<1>5. ASSUME TakeFinalizable PROVE Passes'
  BY <1>5 DEF TakeFinalizable
<1>6. ASSUME NotifyPre PROVE Passes'
  BY <1>6 DEF NotifyPre
<1>7. ASSUME StartProcessor PROVE Passes'
  <2>1. SUFFICES ASSUME ~slipped'
                 PROVE  Passes'
    BY DEF Passes
  <2>2. ~slipped /\ \A p \in Processors : pc[p] \notin {"p_clear", "p_begin"}
    BY <1>7, <2>1 DEF StartProcessor
  <2>3. \A p \in Processors : pc[p] \notin Decided
    BY <1>7, <2>2 DEF StartProcessor
  <2>4. CASE postFinalizationProcessor = None
    <3>1. \A p \in Processors : pc[p] \notin Active
      BY <2>3, <2>4
    <3>2. QED
      BY <1>7, <2>3, <3>1 DEF StartProcessor
  <2>5. CASE postFinalizationProcessor # None
    BY <1>7, <2>2, <2>3, <2>5 DEF StartProcessor
  <2>6. QED
    BY <2>4, <2>5
<1>8. ASSUME TellCollector PROVE Passes'
  BY <1>8 DEF TellCollector
<1>9. ASSUME Finalize PROVE Passes'
  BY <1>9 DEF Finalize, Perform, Caller
<1>10. ASSUME NotifyPost PROVE Passes'
  BY <1>10 DEF NotifyPost
<1>11. ASSUME NEW t \in Workers, Decrement(t) PROVE Passes'
  BY <1>11 DEF Decrement, WriteCount, Caller
<1>12. ASSUME NEW t \in Workers, TestWaiting(t) PROVE Passes'
  BY <1>12 DEF TestWaiting, Caller
<1>13. ASSUME NEW p \in Processors, CalmedDown(p) PROVE Passes'
  BY <1>13 DEF CalmedDown
<1>14. ASSUME NEW p \in Processors, ClearProcessor(p) PROVE Passes'
  BY <1>14 DEF ClearProcessor
<1>15. ASSUME NEW p \in Processors, BeginPass(p) PROVE Passes'
  BY <1>15 DEF BeginPass
<1>16. ASSUME NEW p \in Processors, PerformNext(p) PROVE Passes'
  BY <1>16 DEF PerformNext, Perform, Caller
<1>17. ASSUME NEW p \in Processors, ClearFinalizables(p) PROVE Passes'
  BY <1>17 DEF ClearFinalizables
<1>18. ASSUME NEW p \in Processors, EndPass(p) PROVE Passes'
  BY <1>18 DEF EndPass
<1>19. ASSUME NEW p \in Processors, NotifyPass(p) PROVE Passes'
  BY <1>19 DEF NotifyPass
<1>20. CASE UNCHANGED vars
  BY <1>20 DEF vars
<1>21. QED
  BY <1>1, <1>2, <1>3, <1>4, <1>5, <1>6, <1>7, <1>8, <1>9, <1>10, <1>11, <1>12, <1>13,
     <1>14, <1>15, <1>16, <1>17, <1>18, <1>19, <1>20 DEF Next, Finalizing, Processing,
     UserStep, Workers

LEMMA ServedStep ==
  ASSUME Types, Holders, Passes, Served, [Next]_vars
  PROVE  Served'
<1> USE ThreadFacts DEF Types, TypeOK, Places, Holders, Passes, Served, Performing, Passing,
        Decided, Active, FinalizerLabels, ProcessorLabels, trash, counting, open, processor, passing,
        collecting, Goto
<1>1. ASSUME JvmCollects PROVE Served'
  BY <1>1 DEF JvmCollects, Collects, Garbage
<1>2. ASSUME TimePasses PROVE Served'
  BY <1>2 DEF TimePasses
<1>3. ASSUME NEW o \in Objects, Drop(o) PROVE Served'
  BY <1>3 DEF Drop
<1>4. ASSUME NEW u \in Users, UserStep(u) PROVE Served'
  <2>1. \A t \in Workers : pc'[t] = pc[t]
    BY <1>4, UserEffect
  <2>2. UNCHANGED <<slipped, delayed, recent>>
    BY <1>4, UserEffect
  <2>3. QED
    BY <2>1, <2>2
<1>5. ASSUME TakeFinalizable PROVE Served'
  BY <1>5 DEF TakeFinalizable
<1>6. ASSUME NotifyPre PROVE Served'
  BY <1>6 DEF NotifyPre
<1>7. ASSUME StartProcessor PROVE Served'
  <2>1. SUFFICES ASSUME ~slipped', delayed'
                 PROVE  \E p \in Processors : pc'[p] = "p_wait"
    BY DEF Served
  <2>2. CASE postFinalizationProcessor = None
    BY <1>7, <2>1, <2>2 DEF StartProcessor
  <2>3. CASE postFinalizationProcessor # None
    <3>1. PICK p \in Processors : postFinalizationProcessor = p
      BY <2>3
    <3>2. pc[p] = "p_wait"
      BY <1>7, <2>1, <3>1 DEF StartProcessor
    <3>3. QED
      BY <1>7, <2>3, <3>2 DEF StartProcessor
  <2>4. QED
    BY <2>2, <2>3
<1>8. ASSUME TellCollector PROVE Served'
  BY <1>8 DEF TellCollector
<1>9. ASSUME Finalize PROVE Served'
  BY <1>9 DEF Finalize, Perform, Caller
<1>10. ASSUME NotifyPost PROVE Served'
  BY <1>10 DEF NotifyPost
<1>11. ASSUME NEW t \in Workers, Decrement(t) PROVE Served'
  BY <1>11 DEF Decrement, WriteCount, Caller
<1>12. ASSUME NEW t \in Workers, TestWaiting(t) PROVE Served'
  BY <1>12 DEF TestWaiting, Caller
<1>13. ASSUME NEW p \in Processors, CalmedDown(p) PROVE Served'
  BY <1>13 DEF CalmedDown
<1>14. ASSUME NEW p \in Processors, ClearProcessor(p) PROVE Served'
  BY <1>14 DEF ClearProcessor
<1>15. ASSUME NEW p \in Processors, BeginPass(p) PROVE Served'
  BY <1>15 DEF BeginPass
<1>16. ASSUME NEW p \in Processors, PerformNext(p) PROVE Served'
  BY <1>16 DEF PerformNext, Perform, Caller
<1>17. ASSUME NEW p \in Processors, ClearFinalizables(p) PROVE Served'
  BY <1>17 DEF ClearFinalizables
<1>18. ASSUME NEW p \in Processors, EndPass(p) PROVE Served'
  BY <1>18 DEF EndPass
<1>19. ASSUME NEW p \in Processors, NotifyPass(p) PROVE Served'
  BY <1>19 DEF NotifyPass
<1>20. CASE UNCHANGED vars
  BY <1>20 DEF vars
<1>21. QED
  BY <1>1, <1>2, <1>3, <1>4, <1>5, <1>6, <1>7, <1>8, <1>9, <1>10, <1>11, <1>12, <1>13,
     <1>14, <1>15, <1>16, <1>17, <1>18, <1>19, <1>20 DEF Next, Finalizing, Processing,
     UserStep, Workers

------------------------------------------------------------------------------
(* Objects. *)

\* What the finalizer thread has taken and not finalized or registered yet.
AtWork == IF pc[Finalizer] \in {"f_pre", "f_start", "f_body"} THEN {work[Finalizer]} ELSE {}

\* What the finalizers and the passes are at has been collected.
Gone ==
  /\ \A o \in Objects : ran[o] > 0 \/ o \in toFinalize \cup AtWork \cup delayedFinalizables =>
        life[o] = "collected"
  /\ \A p \in Processors : \A o \in left[p] : life[o] = "collected"

\* An object that is collected is in one place until it is finalized, if no finalizer slips in.
Located ==
  ~slipped =>
    /\ \A o \in Objects : life[o] # "collected" =>
          ran[o] = 0 /\ o \notin toFinalize \cup AtWork \cup delayedFinalizables
    /\ \A o \in Objects : life[o] = "collected" =>
          \/ ran[o] = 1
          \/ ran[o] = 0 /\ o \in toFinalize \cup AtWork \cup delayedFinalizables
    /\ \A o \in Objects \cap (toFinalize \cup AtWork) : ran[o] = 0 /\ o \notin delayedFinalizables
    /\ Objects \cap toFinalize \cap AtWork = {}

\* Then a pass goes once through the objects that are registered, and none is added meanwhile.
Registered ==
  ~slipped =>
    /\ \A o \in delayedFinalizables :
          ran[o] = 0 \/ \E p \in Processors : pc[p] \in Performing
    /\ \A p \in Processors : pc[p] \in Performing =>
          /\ seen[p] = delayedFinalizables /\ left[p] \subseteq delayedFinalizables
          /\ \A o \in delayedFinalizables : ran[o] = IF o \in left[p] THEN 0 ELSE 1
    /\ delayedFinalizables # {} =>
          \E p \in Processors : pc[p] \in {"p_wait", "p_clear", "p_begin"} \cup Performing

LEMMA GoneStep ==
  ASSUME Types, Gone, [Next]_vars
  PROVE  Gone'
<1> USE ThreadFacts DEF Types, TypeOK, Places, Gone, AtWork,
        FinalizerLabels, ProcessorLabels, trash, counting, open, processor, passing,
        collecting, Goto
<1>1. ASSUME JvmCollects PROVE Gone'
  BY <1>1 DEF JvmCollects, Collects, Garbage
<1>2. ASSUME TimePasses PROVE Gone'
  BY <1>2 DEF TimePasses
<1>3. ASSUME NEW o \in Objects, Drop(o) PROVE Gone'
  BY <1>3 DEF Drop
<1>4. ASSUME NEW u \in Users, UserStep(u) PROVE Gone'
  <2>1. pc'[Finalizer] = pc[Finalizer] /\ work' = work
    BY <1>4, UserEffect
  <2>2. AtWork' = AtWork
    BY <2>1
  <2>3. CASE Collects({Sentinel})
    BY <2>2, <2>3, <1>4, UserEffect DEF Collects, Garbage
  <2>4. CASE UNCHANGED <<life, toFinalize>>
    BY <2>2, <2>4, <1>4, UserEffect
  <2>5. QED
    BY <1>4, <2>3, <2>4, UserEffect
<1>5. ASSUME TakeFinalizable PROVE Gone'
  BY <1>5 DEF TakeFinalizable
<1>6. ASSUME NotifyPre PROVE Gone'
  BY <1>6 DEF NotifyPre
<1>7. ASSUME StartProcessor PROVE Gone'
  BY <1>7 DEF StartProcessor
<1>8. ASSUME TellCollector PROVE Gone'
  BY <1>8 DEF TellCollector
<1>9. ASSUME Finalize PROVE Gone'
  BY <1>9 DEF Finalize, Perform, Caller
<1>10. ASSUME NotifyPost PROVE Gone'
  BY <1>10 DEF NotifyPost
<1>11. ASSUME NEW t \in Workers, Decrement(t) PROVE Gone'
  BY <1>11 DEF Decrement, WriteCount, Caller
<1>12. ASSUME NEW t \in Workers, TestWaiting(t) PROVE Gone'
  BY <1>12 DEF TestWaiting, Caller
<1>13. ASSUME NEW p \in Processors, CalmedDown(p) PROVE Gone'
  BY <1>13 DEF CalmedDown
<1>14. ASSUME NEW p \in Processors, ClearProcessor(p) PROVE Gone'
  BY <1>14 DEF ClearProcessor
<1>15. ASSUME NEW p \in Processors, BeginPass(p) PROVE Gone'
  BY <1>15 DEF BeginPass
<1>16. ASSUME NEW p \in Processors, PerformNext(p) PROVE Gone'
  BY <1>16 DEF PerformNext, Perform, Caller
<1>17. ASSUME NEW p \in Processors, ClearFinalizables(p) PROVE Gone'
  BY <1>17 DEF ClearFinalizables
<1>18. ASSUME NEW p \in Processors, EndPass(p) PROVE Gone'
  BY <1>18 DEF EndPass
<1>19. ASSUME NEW p \in Processors, NotifyPass(p) PROVE Gone'
  BY <1>19 DEF NotifyPass
<1>20. CASE UNCHANGED vars
  BY <1>20 DEF vars
<1>21. QED
  BY <1>1, <1>2, <1>3, <1>4, <1>5, <1>6, <1>7, <1>8, <1>9, <1>10, <1>11, <1>12, <1>13,
     <1>14, <1>15, <1>16, <1>17, <1>18, <1>19, <1>20 DEF Next, Finalizing, Processing,
     UserStep, Workers

LEMMA LocatedStep ==
  ASSUME Types, Passes, Registered, Located, [Next]_vars
  PROVE  Located'
<1> USE ThreadFacts DEF Types, TypeOK, Places, Registered, Located, AtWork, Performing,
        FinalizerLabels, ProcessorLabels, trash, counting, open, processor, passing,
        collecting, Goto
<1>1. ASSUME JvmCollects PROVE Located'
  BY <1>1 DEF JvmCollects, Collects, Garbage
<1>2. ASSUME TimePasses PROVE Located'
  BY <1>2 DEF TimePasses
<1>3. ASSUME NEW o \in Objects, Drop(o) PROVE Located'
  BY <1>3 DEF Drop
<1>4. ASSUME NEW u \in Users, UserStep(u) PROVE Located'
  <2>1. pc'[Finalizer] = pc[Finalizer] /\ work' = work
    BY <1>4, UserEffect
  <2>2. AtWork' = AtWork
    BY <2>1
  <2>3. CASE Collects({Sentinel})
    BY <2>2, <2>3, <1>4, UserEffect DEF Collects, Garbage
  <2>4. CASE UNCHANGED <<life, toFinalize>>
    BY <2>2, <2>4, <1>4, UserEffect
  <2>5. QED
    BY <1>4, <2>3, <2>4, UserEffect
<1>5. ASSUME TakeFinalizable PROVE Located'
  BY <1>5 DEF TakeFinalizable
<1>6. ASSUME NotifyPre PROVE Located'
  BY <1>6 DEF NotifyPre
<1>7. ASSUME StartProcessor PROVE Located'
  BY <1>7 DEF StartProcessor
<1>8. ASSUME TellCollector PROVE Located'
  BY <1>8 DEF TellCollector
<1>9. ASSUME Finalize PROVE Located'
  BY <1>9 DEF Finalize, Perform, Caller
<1>10. ASSUME NotifyPost PROVE Located'
  BY <1>10 DEF NotifyPost
<1>11. ASSUME NEW t \in Workers, Decrement(t) PROVE Located'
  BY <1>11 DEF Decrement, WriteCount, Caller
<1>12. ASSUME NEW t \in Workers, TestWaiting(t) PROVE Located'
  BY <1>12 DEF TestWaiting, Caller
<1>13. ASSUME NEW p \in Processors, CalmedDown(p) PROVE Located'
  BY <1>13 DEF CalmedDown
<1>14. ASSUME NEW p \in Processors, ClearProcessor(p) PROVE Located'
  BY <1>14 DEF ClearProcessor
<1>15. ASSUME NEW p \in Processors, BeginPass(p) PROVE Located'
  BY <1>15 DEF BeginPass
<1>16. ASSUME NEW p \in Processors, PerformNext(p) PROVE Located'
  BY <1>16 DEF PerformNext, Perform, Caller
<1>17. ASSUME NEW p \in Processors, ClearFinalizables(p) PROVE Located'
  BY <1>17 DEF ClearFinalizables
<1>18. ASSUME NEW p \in Processors, EndPass(p) PROVE Located'
  BY <1>18 DEF EndPass
<1>19. ASSUME NEW p \in Processors, NotifyPass(p) PROVE Located'
  BY <1>19 DEF NotifyPass
<1>20. CASE UNCHANGED vars
  BY <1>20 DEF vars
<1>21. QED
  BY <1>1, <1>2, <1>3, <1>4, <1>5, <1>6, <1>7, <1>8, <1>9, <1>10, <1>11, <1>12, <1>13,
     <1>14, <1>15, <1>16, <1>17, <1>18, <1>19, <1>20 DEF Next, Finalizing, Processing,
     UserStep, Workers

LEMMA RegisteredStep ==
  ASSUME Types, Holders, Passes, Served, Located, Registered, [Next]_vars
  PROVE  Registered'
<1> USE ThreadFacts DEF Types, TypeOK, Places, Holders, Passes, Served, Located, Registered,
        AtWork, Performing, Passing, Decided, Active, FinalizerLabels, ProcessorLabels, trash,
        counting, open, processor, passing, collecting, Goto
<1>1. ASSUME JvmCollects PROVE Registered'
  BY <1>1 DEF JvmCollects, Collects, Garbage
<1>2. ASSUME TimePasses PROVE Registered'
  BY <1>2 DEF TimePasses
<1>3. ASSUME NEW o \in Objects, Drop(o) PROVE Registered'
  BY <1>3 DEF Drop
<1>4. ASSUME NEW u \in Users, UserStep(u) PROVE Registered'
  BY <1>4, UserEffect
<1>5. ASSUME TakeFinalizable PROVE Registered'
  BY <1>5 DEF TakeFinalizable
<1>6. ASSUME NotifyPre PROVE Registered'
  BY <1>6 DEF NotifyPre
<1>7. ASSUME StartProcessor PROVE Registered'
  BY <1>7 DEF StartProcessor
<1>8. ASSUME TellCollector PROVE Registered'
  BY <1>8 DEF TellCollector
<1>9. ASSUME Finalize PROVE Registered'
  BY <1>9 DEF Finalize, Perform, Caller
<1>10. ASSUME NotifyPost PROVE Registered'
  BY <1>10 DEF NotifyPost
<1>11. ASSUME NEW t \in Workers, Decrement(t) PROVE Registered'
  BY <1>11 DEF Decrement, WriteCount, Caller
<1>12. ASSUME NEW t \in Workers, TestWaiting(t) PROVE Registered'
  BY <1>12 DEF TestWaiting, Caller
<1>13. ASSUME NEW p \in Processors, CalmedDown(p) PROVE Registered'
  BY <1>13 DEF CalmedDown
<1>14. ASSUME NEW p \in Processors, ClearProcessor(p) PROVE Registered'
  BY <1>14 DEF ClearProcessor
<1>15. ASSUME NEW p \in Processors, BeginPass(p) PROVE Registered'
  BY <1>15 DEF BeginPass
<1>16. ASSUME NEW p \in Processors, PerformNext(p) PROVE Registered'
  BY <1>16 DEF PerformNext, Perform, Caller
<1>17. ASSUME NEW p \in Processors, ClearFinalizables(p) PROVE Registered'
  BY <1>17 DEF ClearFinalizables
<1>18. ASSUME NEW p \in Processors, EndPass(p) PROVE Registered'
  BY <1>18 DEF EndPass
<1>19. ASSUME NEW p \in Processors, NotifyPass(p) PROVE Registered'
  BY <1>19 DEF NotifyPass
<1>20. CASE UNCHANGED vars
  BY <1>20 DEF vars
<1>21. QED
  BY <1>1, <1>2, <1>3, <1>4, <1>5, <1>6, <1>7, <1>8, <1>9, <1>10, <1>11, <1>12, <1>13,
     <1>14, <1>15, <1>16, <1>17, <1>18, <1>19, <1>20 DEF Next, Finalizing, Processing,
     UserStep, Workers

------------------------------------------------------------------------------
(* A collect() that nothing disturbs. *)

\* One collect() at a time, which has gcRunning.
Alone ==
  /\ gcRunning <=> \E u \in Users : pc[u] # "idle"
  /\ \A u, v \in Users : pc[u] # "idle" /\ pc[v] # "idle" => u = v

\* Finalizers are running or have been lately; there are none, and none to come.
Warm == recent \/ pc[Finalizer] = "f_post"
Quiet == toFinalize = {} /\ pc[Finalizer] = "idle"
Unstarted == \A p \in Processors : pc[p] \in {"idle", "p_wait"}

\* collect() begins when nothing is going on, keeps the pass from starting as long as it
\* counts, and then finalization is warm until there is nothing left to do.
Phases ==
  \A u \in Users :
    /\ pc[u] # "idle" /\ pc[Finalizer] = "f_pre" /\ wasRecent => recent
    /\ pc[u] = "c_prepare" /\ pc[Finalizer] \in {"idle", "f_pre"} /\ ~recent =>
          \A p \in Processors : pc[p] = "idle"
    /\ pc[u] \in {"c_reset", "c_gc", "c_take", "c_count", "c_unlock"} => lockPostFinalization
    /\ pc[u] \in {"c_prepare", "c_reset", "c_gc", "c_take", "c_count", "c_unlock", "c_poke",
                  "c_interrupt"} => Unstarted
    /\ pc[u] \in {"c_unlock", "c_poke", "c_interrupt"} => Warm
    /\ pc[u] = "c_interrupt" => postFinalizationProcessor # None
    /\ pc[u] \in {"c_wait", "c_sleep", "c_settle"} => (Warm /\ Unstarted) \/ Quiet
    /\ pc[u] \in {"c_pending", "c_pwait"} => Quiet

LEMMA AloneStep ==
  ASSUME Timely, Undisturbed, Types, Phases, Alone, [Next]_vars
  PROVE  Alone'
<1> USE ThreadFacts DEF Types, TypeOK, Places, Performing, Passing, Decided, Prompt,
        CollectLabels, FinalizerLabels, ProcessorLabels, Alone, Phases, Warm, Quiet,
        Unstarted, trash, counting, open, processor, passing, collecting, Goto
<1>1. ASSUME JvmCollects PROVE Alone'
  BY <1>1 DEF JvmCollects, Collects, Garbage
<1>2. ASSUME TimePasses PROVE Alone'
  BY <1>2 DEF TimePasses
<1>3. ASSUME NEW o \in Objects, Drop(o) PROVE Alone'
  BY <1>3 DEF Drop
<1>4. ASSUME NEW u \in Users, CallCollect(u) PROVE Alone'
  BY <1>4 DEF CallCollect
<1>5. ASSUME NEW u \in Users, Prepare(u) PROVE Alone'
  BY <1>5 DEF Prepare
<1>6. ASSUME NEW u \in Users, ResetCount(u) PROVE Alone'
  BY <1>6 DEF ResetCount
<1>7. ASSUME NEW u \in Users, SystemGc(u) PROVE Alone'
  BY <1>7 DEF SystemGc, Collects, Garbage
<1>8. ASSUME NEW u \in Users, TakeTrash(u) PROVE Alone'
  BY <1>8 DEF TakeTrash
<1>9. ASSUME NEW u \in Users, CountTrash(u) PROVE Alone'
  BY <1>9 DEF CountTrash, WriteCount
<1>10. ASSUME NEW u \in Users, EndTrash(u) PROVE Alone'
  BY <1>10 DEF EndTrash
<1>11. ASSUME NEW u \in Users, UnlockPass(u) PROVE Alone'
  BY <1>11 DEF UnlockPass
<1>12. ASSUME NEW u \in Users, PokeProcessor(u) PROVE Alone'
  BY <1>12 DEF PokeProcessor
<1>13. ASSUME NEW u \in Users, InterruptProcessor(u) PROVE Alone'
  BY <1>13 DEF InterruptProcessor
<1>14. ASSUME NEW u \in Users, TestCount(u) PROVE Alone'
  BY <1>14 DEF TestCount
<1>15. ASSUME NEW u \in Users, Settle(u) PROVE Alone'
  BY <1>15 DEF Settle
<1>16. ASSUME NEW u \in Users, AwaitPass(u) PROVE Alone'
  BY <1>16 DEF AwaitPass
<1>17. ASSUME TakeFinalizable PROVE Alone'
  BY <1>17 DEF TakeFinalizable
<1>18. ASSUME NotifyPre PROVE Alone'
  BY <1>18 DEF NotifyPre
<1>19. ASSUME StartProcessor PROVE Alone'
  BY <1>19 DEF StartProcessor
<1>20. ASSUME TellCollector PROVE Alone'
  BY <1>20 DEF TellCollector
<1>21. ASSUME Finalize PROVE Alone'
  BY <1>21 DEF Finalize, Perform, Caller
<1>22. ASSUME NotifyPost PROVE Alone'
  BY <1>22 DEF NotifyPost
<1>23. ASSUME NEW t \in Workers, Decrement(t) PROVE Alone'
  BY <1>23 DEF Decrement, WriteCount, Caller
<1>24. ASSUME NEW t \in Workers, TestWaiting(t) PROVE Alone'
  BY <1>24 DEF TestWaiting, Caller
<1>25. ASSUME NEW p \in Processors, CalmedDown(p) PROVE Alone'
  BY <1>25 DEF CalmedDown
<1>26. ASSUME NEW p \in Processors, ClearProcessor(p) PROVE Alone'
  BY <1>26 DEF ClearProcessor
<1>27. ASSUME NEW p \in Processors, BeginPass(p) PROVE Alone'
  BY <1>27 DEF BeginPass
<1>28. ASSUME NEW p \in Processors, PerformNext(p) PROVE Alone'
  BY <1>28 DEF PerformNext, Perform, Caller
<1>29. ASSUME NEW p \in Processors, ClearFinalizables(p) PROVE Alone'
  BY <1>29 DEF ClearFinalizables
<1>30. ASSUME NEW p \in Processors, EndPass(p) PROVE Alone'
  BY <1>30 DEF EndPass
<1>31. ASSUME NEW p \in Processors, NotifyPass(p) PROVE Alone'
  BY <1>31 DEF NotifyPass
<1>32. CASE UNCHANGED vars
  BY <1>32 DEF vars
<1>33. QED
  BY <1>1, <1>2, <1>3, <1>4, <1>5, <1>6, <1>7, <1>8, <1>9, <1>10, <1>11, <1>12, <1>13,
     <1>14, <1>15, <1>16, <1>17, <1>18, <1>19, <1>20, <1>21, <1>22, <1>23, <1>24, <1>25,
     <1>26, <1>27, <1>28, <1>29, <1>30, <1>31, <1>32 DEF Next, Finalizing, Processing,
     Collecting, Workers

\* The sentinel of a collect() interrupts it while it takes the trash.
Told ==
  /\ Sentinel \in toFinalize \cup AtWork => /\ interrupted = {}
                                            /\ \E u \in Users : pc[u] \in {"c_take", "c_count"}
  /\ ~(Sentinel \in toFinalize /\ Sentinel \in AtWork)
  /\ \A u \in interrupted : pc[u] = "c_take" /\ Warm

LEMMA PhasesStep ==
  ASSUME Timely, Undisturbed, Types, Holders, Served, Alone, Told, Phases, [Next]_vars
  PROVE  Phases'
<1> USE ThreadFacts DEF Types, TypeOK, Places, Performing, Passing, Decided, Prompt,
        CollectLabels, FinalizerLabels, ProcessorLabels, Holders, Served, Alone, Told,
        AtWork, Phases, Warm, Quiet, Unstarted, trash, counting, open, processor, passing,
        collecting, Goto
<1>1. ASSUME JvmCollects PROVE Phases'
  BY <1>1 DEF JvmCollects, Collects, Garbage
<1>2. ASSUME TimePasses PROVE Phases'
  BY <1>2 DEF TimePasses
<1>3. ASSUME NEW o \in Objects, Drop(o) PROVE Phases'
  BY <1>3 DEF Drop
<1>4. ASSUME NEW u \in Users, CallCollect(u) PROVE Phases'
  BY <1>4 DEF CallCollect
<1>5. ASSUME NEW u \in Users, Prepare(u) PROVE Phases'
  BY <1>5 DEF Prepare
<1>6. ASSUME NEW u \in Users, ResetCount(u) PROVE Phases'
  BY <1>6 DEF ResetCount
<1>7. ASSUME NEW u \in Users, SystemGc(u) PROVE Phases'
  BY <1>7 DEF SystemGc, Collects, Garbage
<1>8. ASSUME NEW u \in Users, TakeTrash(u) PROVE Phases'
  BY <1>8 DEF TakeTrash
<1>9. ASSUME NEW u \in Users, CountTrash(u) PROVE Phases'
  BY <1>9 DEF CountTrash, WriteCount
<1>10. ASSUME NEW u \in Users, EndTrash(u) PROVE Phases'
  BY <1>10 DEF EndTrash
<1>11. ASSUME NEW u \in Users, UnlockPass(u) PROVE Phases'
  BY <1>11 DEF UnlockPass
<1>12. ASSUME NEW u \in Users, PokeProcessor(u) PROVE Phases'
  BY <1>12 DEF PokeProcessor
<1>13. ASSUME NEW u \in Users, InterruptProcessor(u) PROVE Phases'
  BY <1>13 DEF InterruptProcessor
<1>14. ASSUME NEW u \in Users, TestCount(u) PROVE Phases'
  BY <1>14 DEF TestCount
<1>15. ASSUME NEW u \in Users, Settle(u) PROVE Phases'
  BY <1>15 DEF Settle
<1>16. ASSUME NEW u \in Users, AwaitPass(u) PROVE Phases'
  BY <1>16 DEF AwaitPass
<1>17. ASSUME TakeFinalizable PROVE Phases'
  BY <1>17 DEF TakeFinalizable
<1>18. ASSUME NotifyPre PROVE Phases'
  BY <1>18 DEF NotifyPre
<1>19. ASSUME StartProcessor PROVE Phases'
  BY <1>19 DEF StartProcessor
<1>20. ASSUME TellCollector PROVE Phases'
  BY <1>20 DEF TellCollector
<1>21. ASSUME Finalize PROVE Phases'
  BY <1>21 DEF Finalize, Perform, Caller
<1>22. ASSUME NotifyPost PROVE Phases'
  BY <1>22 DEF NotifyPost
<1>23. ASSUME NEW t \in Workers, Decrement(t) PROVE Phases'
  BY <1>23 DEF Decrement, WriteCount, Caller
<1>24. ASSUME NEW t \in Workers, TestWaiting(t) PROVE Phases'
  BY <1>24 DEF TestWaiting, Caller
<1>25. ASSUME NEW p \in Processors, CalmedDown(p) PROVE Phases'
  BY <1>25 DEF CalmedDown
<1>26. ASSUME NEW p \in Processors, ClearProcessor(p) PROVE Phases'
  BY <1>26 DEF ClearProcessor
<1>27. ASSUME NEW p \in Processors, BeginPass(p) PROVE Phases'
  BY <1>27 DEF BeginPass
<1>28. ASSUME NEW p \in Processors, PerformNext(p) PROVE Phases'
  BY <1>28 DEF PerformNext, Perform, Caller
<1>29. ASSUME NEW p \in Processors, ClearFinalizables(p) PROVE Phases'
  BY <1>29 DEF ClearFinalizables
<1>30. ASSUME NEW p \in Processors, EndPass(p) PROVE Phases'
  BY <1>30 DEF EndPass
<1>31. ASSUME NEW p \in Processors, NotifyPass(p) PROVE Phases'
  BY <1>31 DEF NotifyPass
<1>32. CASE UNCHANGED vars
  BY <1>32 DEF vars
<1>33. QED
  BY <1>1, <1>2, <1>3, <1>4, <1>5, <1>6, <1>7, <1>8, <1>9, <1>10, <1>11, <1>12, <1>13,
     <1>14, <1>15, <1>16, <1>17, <1>18, <1>19, <1>20, <1>21, <1>22, <1>23, <1>24, <1>25,
     <1>26, <1>27, <1>28, <1>29, <1>30, <1>31, <1>32 DEF Next, Finalizing, Processing,
     Collecting, Workers

LEMMA ToldStep ==
  ASSUME Timely, Undisturbed, Types, Alone, Phases, Told, [Next]_vars
  PROVE  Told'
<1> USE ThreadFacts DEF Types, TypeOK, Places, Performing, Passing, Decided, Prompt,
        CollectLabels, FinalizerLabels, ProcessorLabels, Alone, Told, AtWork, Phases, Warm,
        Quiet, Unstarted, trash, counting, open, processor, passing, collecting, Goto
<1>1. ASSUME JvmCollects PROVE Told'
  BY <1>1 DEF JvmCollects, Collects, Garbage
<1>2. ASSUME TimePasses PROVE Told'
  BY <1>2 DEF TimePasses
<1>3. ASSUME NEW o \in Objects, Drop(o) PROVE Told'
  BY <1>3 DEF Drop
<1>4. ASSUME NEW u \in Users, CallCollect(u) PROVE Told'
  BY <1>4 DEF CallCollect
<1>5. ASSUME NEW u \in Users, Prepare(u) PROVE Told'
  BY <1>5 DEF Prepare
<1>6. ASSUME NEW u \in Users, ResetCount(u) PROVE Told'
  BY <1>6 DEF ResetCount
<1>7. ASSUME NEW u \in Users, SystemGc(u) PROVE Told'
  BY <1>7 DEF SystemGc, Collects, Garbage
<1>8. ASSUME NEW u \in Users, TakeTrash(u) PROVE Told'
  BY <1>8 DEF TakeTrash
<1>9. ASSUME NEW u \in Users, CountTrash(u) PROVE Told'
  BY <1>9 DEF CountTrash, WriteCount
<1>10. ASSUME NEW u \in Users, EndTrash(u) PROVE Told'
  BY <1>10 DEF EndTrash
<1>11. ASSUME NEW u \in Users, UnlockPass(u) PROVE Told'
  BY <1>11 DEF UnlockPass
<1>12. ASSUME NEW u \in Users, PokeProcessor(u) PROVE Told'
  BY <1>12 DEF PokeProcessor
<1>13. ASSUME NEW u \in Users, InterruptProcessor(u) PROVE Told'
  BY <1>13 DEF InterruptProcessor
<1>14. ASSUME NEW u \in Users, TestCount(u) PROVE Told'
  BY <1>14 DEF TestCount
<1>15. ASSUME NEW u \in Users, Settle(u) PROVE Told'
  BY <1>15 DEF Settle
<1>16. ASSUME NEW u \in Users, AwaitPass(u) PROVE Told'
  BY <1>16 DEF AwaitPass
<1>17. ASSUME TakeFinalizable PROVE Told'
  BY <1>17 DEF TakeFinalizable
<1>18. ASSUME NotifyPre PROVE Told'
  BY <1>18 DEF NotifyPre
<1>19. ASSUME StartProcessor PROVE Told'
  BY <1>19 DEF StartProcessor
<1>20. ASSUME TellCollector PROVE Told'
  BY <1>20 DEF TellCollector
<1>21. ASSUME Finalize PROVE Told'
  BY <1>21 DEF Finalize, Perform, Caller
<1>22. ASSUME NotifyPost PROVE Told'
  BY <1>22 DEF NotifyPost
<1>23. ASSUME NEW t \in Workers, Decrement(t) PROVE Told'
  BY <1>23 DEF Decrement, WriteCount, Caller
<1>24. ASSUME NEW t \in Workers, TestWaiting(t) PROVE Told'
  BY <1>24 DEF TestWaiting, Caller
<1>25. ASSUME NEW p \in Processors, CalmedDown(p) PROVE Told'
  BY <1>25 DEF CalmedDown
<1>26. ASSUME NEW p \in Processors, ClearProcessor(p) PROVE Told'
  BY <1>26 DEF ClearProcessor
<1>27. ASSUME NEW p \in Processors, BeginPass(p) PROVE Told'
  BY <1>27 DEF BeginPass
<1>28. ASSUME NEW p \in Processors, PerformNext(p) PROVE Told'
  BY <1>28 DEF PerformNext, Perform, Caller
<1>29. ASSUME NEW p \in Processors, ClearFinalizables(p) PROVE Told'
  BY <1>29 DEF ClearFinalizables
<1>30. ASSUME NEW p \in Processors, EndPass(p) PROVE Told'
  BY <1>30 DEF EndPass
<1>31. ASSUME NEW p \in Processors, NotifyPass(p) PROVE Told'
  BY <1>31 DEF NotifyPass
<1>32. CASE UNCHANGED vars
  BY <1>32 DEF vars
<1>33. QED
  BY <1>1, <1>2, <1>3, <1>4, <1>5, <1>6, <1>7, <1>8, <1>9, <1>10, <1>11, <1>12, <1>13,
     <1>14, <1>15, <1>16, <1>17, <1>18, <1>19, <1>20, <1>21, <1>22, <1>23, <1>24, <1>25,
     <1>26, <1>27, <1>28, <1>29, <1>30, <1>31, <1>32 DEF Next, Finalizing, Processing,
     Collecting, Workers

\* A pass that a collect() sees is the only one since it began, and it is pending.
Awaited ==
  (\E u \in Users : pc[u] # "idle") =>
     /\ \A p, q \in Processors : pc[p] # "idle" /\ pc[q] # "idle" => p = q
     /\ (\E p \in Processors : pc[p] # "idle") => postFinalizationPending

LEMMA AwaitedStep ==
  ASSUME Timely, Undisturbed, Types, Holders, Alone, Phases, Awaited, [Next]_vars
  PROVE  Awaited'
<1> USE ThreadFacts DEF Types, TypeOK, Places, Performing, Passing, Decided, Prompt,
        CollectLabels, FinalizerLabels, ProcessorLabels, Holders, Awaited, Alone, Phases,
        Warm, Quiet, Unstarted, trash, counting, open, processor, passing, collecting, Goto
<1>1. ASSUME JvmCollects PROVE Awaited'
  BY <1>1 DEF JvmCollects, Collects, Garbage
<1>2. ASSUME TimePasses PROVE Awaited'
  BY <1>2 DEF TimePasses
<1>3. ASSUME NEW o \in Objects, Drop(o) PROVE Awaited'
  BY <1>3 DEF Drop
<1>4. ASSUME NEW u \in Users, CallCollect(u) PROVE Awaited'
  BY <1>4 DEF CallCollect
<1>5. ASSUME NEW u \in Users, Prepare(u) PROVE Awaited'
  BY <1>5 DEF Prepare
<1>6. ASSUME NEW u \in Users, ResetCount(u) PROVE Awaited'
  BY <1>6 DEF ResetCount
<1>7. ASSUME NEW u \in Users, SystemGc(u) PROVE Awaited'
  BY <1>7 DEF SystemGc, Collects, Garbage
<1>8. ASSUME NEW u \in Users, TakeTrash(u) PROVE Awaited'
  BY <1>8 DEF TakeTrash
<1>9. ASSUME NEW u \in Users, CountTrash(u) PROVE Awaited'
  BY <1>9 DEF CountTrash, WriteCount
<1>10. ASSUME NEW u \in Users, EndTrash(u) PROVE Awaited'
  BY <1>10 DEF EndTrash
<1>11. ASSUME NEW u \in Users, UnlockPass(u) PROVE Awaited'
  BY <1>11 DEF UnlockPass
<1>12. ASSUME NEW u \in Users, PokeProcessor(u) PROVE Awaited'
  BY <1>12 DEF PokeProcessor
<1>13. ASSUME NEW u \in Users, InterruptProcessor(u) PROVE Awaited'
  BY <1>13 DEF InterruptProcessor
<1>14. ASSUME NEW u \in Users, TestCount(u) PROVE Awaited'
  BY <1>14 DEF TestCount
<1>15. ASSUME NEW u \in Users, Settle(u) PROVE Awaited'
  BY <1>15 DEF Settle
<1>16. ASSUME NEW u \in Users, AwaitPass(u) PROVE Awaited'
  BY <1>16 DEF AwaitPass
<1>17. ASSUME TakeFinalizable PROVE Awaited'
  BY <1>17 DEF TakeFinalizable
<1>18. ASSUME NotifyPre PROVE Awaited'
  BY <1>18 DEF NotifyPre
<1>19. ASSUME StartProcessor PROVE Awaited'
  BY <1>19 DEF StartProcessor
<1>20. ASSUME TellCollector PROVE Awaited'
  BY <1>20 DEF TellCollector
<1>21. ASSUME Finalize PROVE Awaited'
  BY <1>21 DEF Finalize, Perform, Caller
<1>22. ASSUME NotifyPost PROVE Awaited'
  BY <1>22 DEF NotifyPost
<1>23. ASSUME NEW t \in Workers, Decrement(t) PROVE Awaited'
  BY <1>23 DEF Decrement, WriteCount, Caller
<1>24. ASSUME NEW t \in Workers, TestWaiting(t) PROVE Awaited'
  BY <1>24 DEF TestWaiting, Caller
<1>25. ASSUME NEW p \in Processors, CalmedDown(p) PROVE Awaited'
  BY <1>25 DEF CalmedDown
<1>26. ASSUME NEW p \in Processors, ClearProcessor(p) PROVE Awaited'
  BY <1>26 DEF ClearProcessor
<1>27. ASSUME NEW p \in Processors, BeginPass(p) PROVE Awaited'
  BY <1>27 DEF BeginPass
<1>28. ASSUME NEW p \in Processors, PerformNext(p) PROVE Awaited'
  BY <1>28 DEF PerformNext, Perform, Caller
<1>29. ASSUME NEW p \in Processors, ClearFinalizables(p) PROVE Awaited'
  BY <1>29 DEF ClearFinalizables
<1>30. ASSUME NEW p \in Processors, EndPass(p) PROVE Awaited'
  BY <1>30 DEF EndPass
<1>31. ASSUME NEW p \in Processors, NotifyPass(p) PROVE Awaited'
  BY <1>31 DEF NotifyPass
<1>32. CASE UNCHANGED vars
  BY <1>32 DEF vars
<1>33. QED
  BY <1>1, <1>2, <1>3, <1>4, <1>5, <1>6, <1>7, <1>8, <1>9, <1>10, <1>11, <1>12, <1>13,
     <1>14, <1>15, <1>16, <1>17, <1>18, <1>19, <1>20, <1>21, <1>22, <1>23, <1>24, <1>25,
     <1>26, <1>27, <1>28, <1>29, <1>30, <1>31, <1>32 DEF Next, Finalizing, Processing,
     Collecting, Workers

------------------------------------------------------------------------------
(* The theorems. *)

LEMMA InitTypes ==
  ASSUME Init  PROVE Types
<1>1. delayed \in BOOLEAN
  BY FinalizationAssumption DEF Init
<1>2. /\ life \in [Objects -> {"held", "garbage", "collected"}] /\ ran \in [Objects -> Nat]
      /\ pc \in [Threads -> Labels] /\ count \in [Threads -> Int]
  BY DEF Init, Labels
<1>3. /\ work \in [Workers -> Objects \cup {Sentinel, None}]
      /\ left \in [Processors -> SUBSET Objects] /\ seen \in [Processors -> SUBSET Objects]
  BY DEF Init
<1>4. /\ toFinalize \subseteq Objects \cup {Sentinel} /\ delayedFinalizables \subseteq Objects
      /\ gcTrash \subseteq Objects /\ monitoredObjects \subseteq Objects /\ notify \subseteq Objects
      /\ finalizeWaitCount \in Int /\ openFinalizeCount \in {0, 1} /\ interrupted \subseteq Users
      /\ postFinalizationProcessor \in Processors \cup {None} /\ postLock \in Processors \cup {None}
  BY DEF Init
<1>5. /\ gcRunning \in BOOLEAN /\ waitingForFinalizers \in BOOLEAN /\ miscounted \in BOOLEAN /\ slipped \in BOOLEAN
      /\ recent \in BOOLEAN /\ wasRecent \in BOOLEAN
      /\ postFinalizationPending \in BOOLEAN /\ lockPostFinalization \in BOOLEAN
  BY DEF Init
<1>6. TypeOK
  BY <1>1, <1>2, <1>3, <1>4, <1>5 DEF TypeOK
<1>7. Places
  BY ThreadFacts DEF Init, Places
<1>8. QED
  BY <1>6, <1>7 DEF Types

LEMMA InitPasses ==
  ASSUME Init  PROVE Holders /\ Passes /\ Served /\ Gone /\ Located /\ Registered
<1> USE ThreadFacts DEF Init, Performing, Passing, Decided, Active, FinalizerLabels
<1>1. Holders /\ Passes
  BY DEF Holders, Passes
<1>2. Served
  BY DEF Served
<1>3. Gone /\ Located
  BY DEF Gone, Located, AtWork
<1>4. Registered
  BY DEF Registered
<1>5. QED
  BY <1>1, <1>2, <1>3, <1>4

LEMMA InitCollect ==
  ASSUME Init  PROVE Alone /\ Phases /\ Told /\ Awaited
<1> USE ThreadFacts DEF Init
<1>1. Alone
  BY DEF Alone
<1>2. Phases
  BY DEF Phases
<1>3. Told
  BY DEF Told, AtWork
<1>4. Awaited
  BY DEF Awaited
<1>5. QED
  BY <1>1, <1>2, <1>3, <1>4

\* The types of the state, where each thread can be, and the count of open finalizers, which
\* only the finalizer thread changes: in every state, whatever the timing.
THEOREM TypesInvariant == Spec => []Types
<1>1. Init => Types
  BY InitTypes
<1>2. Types /\ [Next]_vars => Types'
  BY TypesStep
<1>3. QED
  BY <1>1, <1>2, PTL DEF Spec

\* What a pass and the finalizer thread do with the objects, whatever the timing.
PassInv == Types /\ Holders /\ Passes /\ Served /\ Gone /\ Located /\ Registered

LEMMA PassInvariant == Spec => []PassInv
<1>1. Init => PassInv
  BY InitTypes, InitPasses DEF PassInv
<1>2. PassInv /\ [Next]_vars => PassInv'
  BY TypesStep, HoldersStep, PassesStep, ServedStep, GoneStep, LocatedStep, RegisteredStep
     DEF PassInv
<1>3. QED
  BY <1>1, <1>2, PTL DEF Spec

\* While a pass performs finalizers, the finalizer thread is not in one, unless a finalizer
\* has slipped in between a processor's last look and its pass.
THEOREM NoOverlapHolds == Spec => []NoOverlap
<1>1. PassInv => NoOverlap
  BY DEF PassInv, Passes, NoOverlap, Decided, Passing, Performing
<1>2. QED
  BY <1>1, PassInvariant, PTL

\* The __del__ of an object does not run before the object is collected; and unless a
\* finalizer has slipped in it runs at most once, by the finalizer thread or by one pass.
THEOREM FinalizedOnceHolds == Spec => []FinalizedOnce
<1>1. ASSUME PassInv, NEW o \in Objects, ran[o] > 0
      PROVE  life[o] = "collected"
  BY <1>1 DEF PassInv, Gone
<1>2. ASSUME PassInv, NEW o \in Objects, ~slipped
      PROVE  ran[o] <= 1
  BY <1>2 DEF PassInv, Located
<1>3. PassInv => FinalizedOnce
  BY <1>1, <1>2 DEF FinalizedOnce
<1>4. QED
  BY <1>3, PassInvariant, PTL

\* With it, what goes on around a collect() that the JVM does not disturb.
CollectInv == Alone /\ Phases /\ Told /\ Awaited

LEMMA CollectInvariant ==
  ASSUME Timely, Undisturbed
  PROVE  Spec => [](PassInv /\ CollectInv)
<1>1. Init => PassInv /\ CollectInv
  BY InitTypes, InitPasses, InitCollect DEF PassInv, CollectInv
<1>2. PassInv /\ [Next]_vars => PassInv'
  BY TypesStep, HoldersStep, PassesStep, ServedStep, GoneStep, LocatedStep, RegisteredStep
     DEF PassInv
<1>3. PassInv /\ CollectInv /\ [Next]_vars => CollectInv'
  BY AloneStep, PhasesStep, ToldStep, AwaitedStep DEF PassInv, CollectInv
<1>4. QED
  BY <1>1, <1>2, <1>3, PTL DEF Spec

\* gcRunning is set only as long as some thread is in collect(): it is reset on every way
\* out, because the NullPointerException of interruptProcessor cannot happen.
THEOREM CanCollectAgainHolds ==
  ASSUME Timely, Undisturbed
  PROVE  Spec => []CanCollectAgain
<1>1. CollectInv => CanCollectAgain
  BY DEF CollectInv, Alone, CanCollectAgain
<1>2. QED
  BY <1>1, CollectInvariant, PTL

\* A collect() that finds no pass pending finds nothing left to finalize: the finalizer
\* thread is idle with an empty queue, and no object is registered without a processor.
LEMMA NothingLeft ==
  ASSUME PassInv, CollectInv, NEW u \in Users, pc[u] = "c_pending",
         ~postFinalizationPending, ~slipped,
         NEW o \in Objects, life[o] = "collected"
  PROVE  ran[o] > 0
<1>1. Quiet
  BY DEF CollectInv, Phases
<1>2. \A p \in Processors : pc[p] = "idle"
  BY DEF CollectInv, Awaited
<1>3. delayedFinalizables = {}
  BY <1>2 DEF PassInv, Registered, Performing
<1>4. toFinalize = {} /\ AtWork = {}
  BY <1>1 DEF Quiet, AtWork
<1>5. QED
  BY <1>3, <1>4 DEF PassInv, Located

\* collect() returns from the test for a pass with none pending.
LEMMA ReturnStep ==
  ASSUME Types, Next, NEW u \in Users, pc[u] = "c_pending", pc'[u] = "idle"
  PROVE  ~postFinalizationPending
<1> USE ThreadFacts DEF Types, TypeOK, Places, Prompt, CollectLabels, FinalizerLabels,
        ProcessorLabels, trash, counting, open, processor, passing, collecting, Goto
<1>1. ASSUME JvmCollects PROVE ~postFinalizationPending
  BY <1>1 DEF JvmCollects, Collects, Garbage
<1>2. ASSUME TimePasses PROVE ~postFinalizationPending
  BY <1>2 DEF TimePasses
<1>3. ASSUME NEW o \in Objects, Drop(o) PROVE ~postFinalizationPending
  BY <1>3 DEF Drop
<1>4. ASSUME NEW v \in Users, CallCollect(v) PROVE ~postFinalizationPending
  BY <1>4 DEF CallCollect
<1>5. ASSUME NEW v \in Users, Prepare(v) PROVE ~postFinalizationPending
  BY <1>5 DEF Prepare
<1>6. ASSUME NEW v \in Users, ResetCount(v) PROVE ~postFinalizationPending
  BY <1>6 DEF ResetCount
<1>7. ASSUME NEW v \in Users, SystemGc(v) PROVE ~postFinalizationPending
  BY <1>7 DEF SystemGc, Collects, Garbage
<1>8. ASSUME NEW v \in Users, TakeTrash(v) PROVE ~postFinalizationPending
  BY <1>8 DEF TakeTrash
<1>9. ASSUME NEW v \in Users, CountTrash(v) PROVE ~postFinalizationPending
  BY <1>9 DEF CountTrash, WriteCount
<1>10. ASSUME NEW v \in Users, EndTrash(v) PROVE ~postFinalizationPending
  BY <1>10 DEF EndTrash
<1>11. ASSUME NEW v \in Users, UnlockPass(v) PROVE ~postFinalizationPending
  BY <1>11 DEF UnlockPass
<1>12. ASSUME NEW v \in Users, PokeProcessor(v) PROVE ~postFinalizationPending
  BY <1>12 DEF PokeProcessor
<1>13. ASSUME NEW v \in Users, InterruptProcessor(v) PROVE ~postFinalizationPending
  BY <1>13 DEF InterruptProcessor
<1>14. ASSUME NEW v \in Users, TestCount(v) PROVE ~postFinalizationPending
  BY <1>14 DEF TestCount
<1>15. ASSUME NEW v \in Users, Settle(v) PROVE ~postFinalizationPending
  BY <1>15 DEF Settle
<1>16. ASSUME NEW v \in Users, AwaitPass(v) PROVE ~postFinalizationPending
  BY <1>16 DEF AwaitPass
<1>17. ASSUME TakeFinalizable PROVE ~postFinalizationPending
  BY <1>17 DEF TakeFinalizable
<1>18. ASSUME NotifyPre PROVE ~postFinalizationPending
  BY <1>18 DEF NotifyPre
<1>19. ASSUME StartProcessor PROVE ~postFinalizationPending
  BY <1>19 DEF StartProcessor
<1>20. ASSUME TellCollector PROVE ~postFinalizationPending
  BY <1>20 DEF TellCollector
<1>21. ASSUME Finalize PROVE ~postFinalizationPending
  BY <1>21 DEF Finalize, Perform, Caller
<1>22. ASSUME NotifyPost PROVE ~postFinalizationPending
  BY <1>22 DEF NotifyPost
<1>23. ASSUME NEW t \in Workers, Decrement(t) PROVE ~postFinalizationPending
  BY <1>23 DEF Decrement, WriteCount, Caller
<1>24. ASSUME NEW t \in Workers, TestWaiting(t) PROVE ~postFinalizationPending
  BY <1>24 DEF TestWaiting, Caller
<1>25. ASSUME NEW p \in Processors, CalmedDown(p) PROVE ~postFinalizationPending
  BY <1>25 DEF CalmedDown
<1>26. ASSUME NEW p \in Processors, ClearProcessor(p) PROVE ~postFinalizationPending
  BY <1>26 DEF ClearProcessor
<1>27. ASSUME NEW p \in Processors, BeginPass(p) PROVE ~postFinalizationPending
  BY <1>27 DEF BeginPass
<1>28. ASSUME NEW p \in Processors, PerformNext(p) PROVE ~postFinalizationPending
  BY <1>28 DEF PerformNext, Perform, Caller
<1>29. ASSUME NEW p \in Processors, ClearFinalizables(p) PROVE ~postFinalizationPending
  BY <1>29 DEF ClearFinalizables
<1>30. ASSUME NEW p \in Processors, EndPass(p) PROVE ~postFinalizationPending
  BY <1>30 DEF EndPass
<1>31. ASSUME NEW p \in Processors, NotifyPass(p) PROVE ~postFinalizationPending
  BY <1>31 DEF NotifyPass
<1>32. QED
  BY <1>1, <1>2, <1>3, <1>4, <1>5, <1>6, <1>7, <1>8, <1>9, <1>10, <1>11, <1>12, <1>13,
     <1>14, <1>15, <1>16, <1>17, <1>18, <1>19, <1>20, <1>21, <1>22, <1>23, <1>24, <1>25,
     <1>26, <1>27, <1>28, <1>29, <1>30, <1>31 DEF Next, Finalizing, Processing, Collecting,
     Workers

\* When collect() returns, every object that has been collected has had its __del__ run, the
\* delayed ones included, if no finalizer has slipped in between a processor and its pass.
THEOREM CollectCompleteHolds ==
  ASSUME Timely, Undisturbed
  PROVE  Spec => CollectComplete
<1> DEFINE Complete == \A u \in Users : pc[u] = "c_pending" /\ pc'[u] = "idle" =>
                         \A o \in Objects : life[o] = "collected" => ran[o] > 0 \/ slipped
<1>1. PassInv /\ CollectInv /\ [Next]_vars => [Complete]_vars
  <2>1. SUFFICES ASSUME PassInv, CollectInv, Next,
                        NEW u \in Users, pc[u] = "c_pending", pc'[u] = "idle"
                 PROVE  ~postFinalizationPending
    BY NothingLeft
  <2>2. QED
    BY <2>1, ReturnStep DEF PassInv
<1>2. QED
  BY <1>1, CollectInvariant, PTL DEF Spec, CollectComplete
==============================================================================
