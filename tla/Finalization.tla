----------------------------- MODULE Finalization -----------------------------
(***************************************************************************)
(* gc.collect() of Jython, modules/gc.java, and the hand-shake of the      *)
(* finalizers it depends on (notifyPreFinalization, notifyPostFinalization, *)
(* PostFinalizationProcessor, FinalizeTrigger).                            *)
(*                                                                         *)
(* collect() asks the JVM for a collection and a sentinel to tell when it  *)
(* has everything that was collected, counts the finalizers it must wait   *)
(* for, and waits until as many have notified it.  If finalization is      *)
(* delayed finalizers only register their objects; a processor thread,     *)
(* started by a finalizer, waits until finalization has calmed down and    *)
(* runs all finalizers in one pass.  collect() keeps it from that until it *)
(* has counted.  The counters and flags are plain fields of the class, and *)
(* ++ and -- read and write in two steps.                                  *)
(*                                                                         *)
(* All objects here are monitored and have a __del__, which does not bring *)
(* them back and does not call collect() itself.  The second and further   *)
(* runs of syncCollect in one collect(), the search for cycles and what is *)
(* printed are left out.                                                   *)
(***************************************************************************)
EXTENDS Integers

CONSTANTS Objects,
          Users,         \* threads that call collect()
          Processors,    \* PostFinalizationProcessor threads
          Finalizer,     \* the JVM's finalizer thread
          Sentinel,      \* the GCSentinel of the collect() under way
          Modes,         \* is finalization delayed: settings to consider
          Timely,        \* do things happen in the time gc.java allows for them
          Undisturbed,   \* does the JVM not collect by itself around a collect()
          None           \* no thread, no object

Workers == Processors \cup {Finalizer}

ASSUME FinalizationAssumption ==
    /\ Modes \subseteq BOOLEAN /\ Timely \in BOOLEAN /\ Undisturbed \in BOOLEAN
    /\ Users \cap Workers = {} /\ Finalizer \notin Processors
    /\ None \notin Users \cup Workers \cup Objects /\ Sentinel \notin Objects \cup {None}

VARIABLES
    delayed,       \* gc.delayedFinalizationEnabled()
    life,          \* "held" by the program, "garbage", or "collected" by the JVM
    toFinalize,    \* what the JVM has queued for its finalizer thread
    gcTrash, monitoredObjects, notify,   \* notify: objects with NOTIFY_GC_FLAG
    gcRunning, finalizeWaitCount, waitingForFinalizers,
    openFinalizeCount,
    recent,        \* postFinalizationTimestamp is at most the time-out ago
    postFinalizationProcessor, postFinalizationPending, lockPostFinalization,
    postLock,      \* owner of the monitor of the list of processes
    delayedFinalizables,   \* resurrectionCriticals included
    pc,
    interrupted,   \* threads with a pending interrupt
    work,          \* the object a finalizer or a pass is at
    count,         \* finalizeWaitCount as a thread has read it, to change it
    wasRecent,     \* recent, as the finalizer thread has read it
    left, seen,    \* of a pass: what it has still to visit, what it found at first
    ran,           \* history: how often each object's __del__ has run
    miscounted,    \* history: has a change of finalizeWaitCount been overwritten, or
                   \* will a finalizer count down what was never counted up
    slipped        \* history: has a finalizer got past notifyPreFinalization unseen, between
                   \* a processor's last look at finalization and its pass, or counting on one
                   \* that waits no more

trash == <<gcTrash, monitoredObjects, notify>>
counting == <<finalizeWaitCount, count, miscounted>>
open == <<openFinalizeCount, recent, wasRecent>>
processor == <<postFinalizationProcessor, postFinalizationPending, slipped>>
passing == <<delayedFinalizables, left, seen, postLock>>
collecting == <<gcRunning, waitingForFinalizers, lockPostFinalization>>
vars == <<delayed, life, toFinalize, trash, counting, open, processor, passing, collecting,
          pc, interrupted, work, ran>>

Threads == Users \cup Workers

\* What a user thread does at once, in microseconds, between two waits.
Prompt == {"c_prepare", "c_unlock", "c_poke", "c_interrupt", "c_wait"}
CollectLabels == {"c_reset", "c_gc", "c_take", "c_count"} \cup Prompt
                 \cup {"c_sleep", "c_settle", "c_pending", "c_pwait"}
FinalizerLabels == {"f_pre", "f_start", "f_body", "f_post"}
ProcessorLabels == {"p_wait", "p_clear", "p_begin", "p_pass", "p_end", "p_done"}
Labels == {"idle", "dec", "test"} \cup CollectLabels \cup FinalizerLabels \cup ProcessorLabels

TypeOK ==
    /\ delayed \in BOOLEAN /\ life \in [Objects -> {"held", "garbage", "collected"}]
    /\ toFinalize \subseteq Objects \cup {Sentinel}
    /\ gcTrash \subseteq Objects /\ monitoredObjects \subseteq Objects /\ notify \subseteq Objects
    /\ gcRunning \in BOOLEAN /\ waitingForFinalizers \in BOOLEAN
    /\ finalizeWaitCount \in Int /\ openFinalizeCount \in {0, 1}
    /\ recent \in BOOLEAN /\ wasRecent \in BOOLEAN
    /\ postFinalizationProcessor \in Processors \cup {None}
    /\ postFinalizationPending \in BOOLEAN /\ lockPostFinalization \in BOOLEAN
    /\ postLock \in Processors \cup {None} /\ delayedFinalizables \subseteq Objects
    /\ pc \in [Threads -> Labels] /\ interrupted \subseteq Users
    /\ work \in [Workers -> Objects \cup {Sentinel, None}] /\ count \in [Threads -> Int]
    /\ left \in [Processors -> SUBSET Objects] /\ seen \in [Processors -> SUBSET Objects]
    /\ ran \in [Objects -> Nat] /\ miscounted \in BOOLEAN /\ slipped \in BOOLEAN

Init ==
    /\ delayed \in Modes
    /\ life = [o \in Objects |-> "held"] /\ toFinalize = {}
    /\ gcTrash = {} /\ monitoredObjects = Objects /\ notify = {}
    /\ gcRunning = FALSE /\ waitingForFinalizers = FALSE /\ lockPostFinalization = FALSE
    /\ finalizeWaitCount = 0 /\ count = [t \in Threads |-> 0] /\ miscounted = FALSE
    /\ openFinalizeCount = 0 /\ recent = FALSE /\ wasRecent = FALSE
    /\ postFinalizationProcessor = None /\ postFinalizationPending = FALSE /\ slipped = FALSE
    /\ postLock = None /\ delayedFinalizables = {}
    /\ left = [p \in Processors |-> {}] /\ seen = [p \in Processors |-> {}]
    /\ pc = [t \in Threads |-> "idle"] /\ interrupted = {}
    /\ work = [t \in Workers |-> None] /\ ran = [o \in Objects |-> 0]

Goto(t, label) == pc' = [pc EXCEPT ![t] = label]

(* The program and the JVM. *)

Drop(o) ==
    /\ life[o] = "held" /\ life' = [life EXCEPT ![o] = "garbage"]
    /\ UNCHANGED <<delayed, toFinalize, trash, counting, open, processor, passing, collecting,
                   pc, interrupted, work, ran>>

Garbage == {o \in Objects : life[o] = "garbage"}

\* A collection: references to what is garbage go to the queue gcTrash, and the triggers to
\* the finalizer thread, together with the further objects of X.
Collects(X) ==
    /\ life' = [o \in Objects |-> IF o \in Garbage THEN "collected" ELSE life[o]]
    /\ gcTrash' = gcTrash \cup (Garbage \cap monitoredObjects)
    /\ toFinalize' = toFinalize \cup Garbage \cup X

\* One that nobody asked for, or that a collect() asks for again as it waits for trash.
JvmCollects ==
    /\ Garbage # {} /\ Collects({})
    /\ Undisturbed =>
           \A u \in Users : /\ u \notin interrupted
                            /\ pc[u] \in {"idle", "c_prepare", "c_reset", "c_gc", "c_take", "c_count"}
    /\ UNCHANGED <<delayed, monitoredObjects, notify, counting, open, processor, passing,
                   collecting, pc, interrupted, work, ran>>

\* Longer than postFinalizationTimeOut has passed since the last finalizer.  In time, the
\* next one of those a collect() waits for comes sooner, and so does its next instruction.
TimePasses ==
    /\ recent /\ recent' = FALSE
    /\ Timely => \A u \in Users : pc[u] # "idle" =>
                     /\ toFinalize = {} /\ pc[Finalizer] = "idle"
                     /\ pc[u] \notin Prompt /\ u \notin interrupted
    /\ UNCHANGED <<delayed, life, toFinalize, trash, counting, openFinalizeCount, wasRecent,
                   processor, passing, collecting, pc, interrupted, work, ran>>

(* gc.collect(). *)

\* With nothing monitored collect() only asks for a collection; with one under way
\* it returns -1.
CallCollect(u) ==
    /\ pc[u] = "idle" /\ ~gcRunning /\ monitoredObjects # {}
    /\ Undisturbed => /\ toFinalize = {} /\ \A t \in Workers : pc[t] = "idle"
    /\ gcRunning' = TRUE /\ Goto(u, "c_prepare")
    /\ UNCHANGED <<delayed, life, toFinalize, trash, counting, open, processor, passing,
                   waitingForFinalizers, lockPostFinalization, interrupted, work, ran>>

\* The trash of earlier collections is dropped, and the finalizers of what is still there
\* are told to notify.
Prepare(u) ==
    /\ pc[u] = "c_prepare" /\ Goto(u, "c_reset")
    /\ lockPostFinalization' = TRUE
    /\ gcTrash' = {} /\ monitoredObjects' = monitoredObjects \ gcTrash
    /\ notify' = notify \cup monitoredObjects'
    /\ miscounted' = (miscounted \/ gcTrash \cap notify # {})
    /\ UNCHANGED <<delayed, life, toFinalize, finalizeWaitCount, count, open, processor, passing,
                   gcRunning, waitingForFinalizers, interrupted, work, ran>>

\* "Finalize wait count should be initially 0!"
ResetCount(u) ==
    /\ pc[u] = "c_reset" /\ Goto(u, "c_gc")
    /\ finalizeWaitCount' = 0
    /\ gcTrash' = {} /\ monitoredObjects' = monitoredObjects \ gcTrash
    /\ miscounted' = (miscounted \/ gcTrash \cap notify # {})
    /\ UNCHANGED <<delayed, life, toFinalize, notify, count, open, processor, passing,
                   collecting, interrupted, work, ran>>

SystemGc(u) ==
    /\ pc[u] = "c_gc" /\ Goto(u, "c_take")
    /\ Collects({Sentinel})
    /\ UNCHANGED <<delayed, monitoredObjects, notify, counting, open, processor, passing,
                   collecting, interrupted, work, ran>>

TakeTrash(u) ==
    /\ pc[u] = "c_take" /\ u \notin interrupted /\ Goto(u, "c_count")
    /\ \E o \in gcTrash : /\ gcTrash' = gcTrash \ {o}
                          /\ monitoredObjects' = monitoredObjects \ {o}
    /\ count' = [count EXCEPT ![u] = finalizeWaitCount]
    /\ UNCHANGED <<delayed, life, toFinalize, notify, finalizeWaitCount, miscounted, open, processor,
                   passing, collecting, interrupted, work, ran>>

\* The thread t writes what it makes of the count it has read.
WriteCount(t, value) ==
    /\ finalizeWaitCount' = value
    /\ miscounted' = (miscounted \/ finalizeWaitCount # count[t])
    /\ count' = [count EXCEPT ![t] = 0]

CountTrash(u) ==
    /\ pc[u] = "c_count" /\ Goto(u, "c_take")
    /\ WriteCount(u, count[u] + 1)
    /\ UNCHANGED <<delayed, life, toFinalize, trash, open, processor, passing, collecting,
                   interrupted, work, ran>>

EndTrash(u) ==
    /\ pc[u] = "c_take" /\ u \in interrupted /\ Goto(u, "c_unlock")
    /\ interrupted' = interrupted \ {u}
    /\ UNCHANGED <<delayed, life, toFinalize, trash, counting, open, processor, passing,
                   collecting, work, ran>>

UnlockPass(u) ==
    /\ pc[u] = "c_unlock" /\ Goto(u, "c_poke")
    /\ lockPostFinalization' = FALSE
    /\ UNCHANGED <<delayed, life, toFinalize, trash, counting, open, processor, passing,
                   gcRunning, waitingForFinalizers, interrupted, work, ran>>

\* The processor's sleep is cut short, if there is one.
PokeProcessor(u) ==
    /\ pc[u] = "c_poke"
    /\ IF postFinalizationProcessor = None
       THEN Goto(u, "c_wait") /\ waitingForFinalizers' = TRUE
       ELSE Goto(u, "c_interrupt") /\ UNCHANGED waitingForFinalizers
    /\ UNCHANGED <<delayed, life, toFinalize, trash, counting, open, processor, passing,
                   gcRunning, lockPostFinalization, interrupted, work, ran>>

\* The field is read again: if the processor has cleared it a NullPointerException leaves
\* collect(), which returns -1 and does not reset gcRunning.
InterruptProcessor(u) ==
    /\ pc[u] = "c_interrupt"
    /\ IF postFinalizationProcessor = None
       THEN Goto(u, "idle") /\ UNCHANGED waitingForFinalizers
       ELSE Goto(u, "c_wait") /\ waitingForFinalizers' = TRUE
    /\ UNCHANGED <<delayed, life, toFinalize, trash, counting, open, processor, passing,
                   gcRunning, lockPostFinalization, interrupted, work, ran>>

TestCount(u) ==
    /\ pc[u] = "c_wait"
    /\ Goto(u, IF finalizeWaitCount = 0 THEN "c_settle" ELSE "c_sleep")
    /\ UNCHANGED <<delayed, life, toFinalize, trash, counting, open, processor, passing,
                   collecting, interrupted, work, ran>>

\* Mutant of Settle: open and recent finalizers are not waited for.
SettleAtOnce(u) ==
    /\ pc[u] = "c_settle" /\ Goto(u, "c_pending")
    /\ waitingForFinalizers' = FALSE
    /\ UNCHANGED <<delayed, life, toFinalize, trash, counting, open, processor, passing,
                   gcRunning, lockPostFinalization, interrupted, work, ran>>

Settle(u) ==
    /\ pc[u] = "c_settle" /\ openFinalizeCount = 0 /\ ~recent /\ Goto(u, "c_pending")
    /\ waitingForFinalizers' = FALSE
    /\ UNCHANGED <<delayed, life, toFinalize, trash, counting, open, processor, passing,
                   gcRunning, lockPostFinalization, interrupted, work, ran>>

\* Mutant of AwaitPass: gcRunning is not reset after a pass has been waited for.
ReturnRunning(u) ==
    /\ pc[u] = "c_pending"
    /\ Goto(u, IF postFinalizationPending THEN "c_pwait" ELSE "idle")
    /\ UNCHANGED <<delayed, life, toFinalize, trash, counting, open, processor, passing,
                   collecting, interrupted, work, ran>>

AwaitPass(u) ==
    /\ pc[u] = "c_pending"
    /\ IF postFinalizationPending THEN Goto(u, "c_pwait") /\ UNCHANGED gcRunning
                                  ELSE Goto(u, "idle") /\ gcRunning' = FALSE
    /\ UNCHANGED <<delayed, life, toFinalize, trash, counting, open, processor, passing,
                   waitingForFinalizers, lockPostFinalization, interrupted, work, ran>>

(* Running a finalizer: FinalizeTrigger.performFinalization and notifyFinalize. *)

\* Where t goes on when it is done.
Caller(t) == IF t = Finalizer THEN "f_post" ELSE "p_pass"

Perform(t, o) ==
    /\ ran' = [ran EXCEPT ![o] = @ + 1]
    /\ IF o \in notify
       THEN Goto(t, "dec") /\ count' = [count EXCEPT ![t] = finalizeWaitCount]
       ELSE Goto(t, Caller(t)) /\ UNCHANGED count

Decrement(t) ==
    /\ pc[t] = "dec" /\ WriteCount(t, count[t] - 1)
    /\ notify' = notify \ {work[t]}
    /\ Goto(t, IF count[t] = 1 THEN "test" ELSE Caller(t))
    /\ UNCHANGED <<delayed, life, toFinalize, gcTrash, monitoredObjects, open, processor,
                   passing, collecting, interrupted, work, ran>>

\* Mutant of TestWaiting: the collector is not notified.
TestSilently(t) ==
    /\ pc[t] = "test" /\ Goto(t, Caller(t))
    /\ UNCHANGED <<delayed, life, toFinalize, trash, counting, open, processor, passing,
                   collecting, interrupted, work, ran>>

TestWaiting(t) ==
    /\ pc[t] = "test"
    /\ pc' = [u \in Threads |->
                 IF u = t THEN Caller(t)
                 ELSE IF pc[u] = "c_sleep" /\ waitingForFinalizers THEN "c_wait" ELSE pc[u]]
    /\ UNCHANGED <<delayed, life, toFinalize, trash, counting, open, processor, passing,
                   collecting, interrupted, work, ran>>

(* The finalizer thread: FinalizeTrigger.finalize, GCSentinel.finalize. *)

TakeFinalizable ==
    /\ pc[Finalizer] = "idle" /\ Goto(Finalizer, "f_pre")
    /\ \E x \in toFinalize : /\ toFinalize' = toFinalize \ {x}
                             /\ work' = [work EXCEPT ![Finalizer] = x]
    /\ wasRecent' = recent
    /\ UNCHANGED <<delayed, life, trash, counting, openFinalizeCount, recent, processor, passing,
                   collecting, interrupted, ran>>

\* It takes the clock as it was read (wasRecent), and starts no processor if that is recent.
NotifyPre ==
    /\ pc[Finalizer] = "f_pre"
    /\ openFinalizeCount' = openFinalizeCount + 1
    /\ Goto(Finalizer, IF wasRecent THEN "f_body" ELSE "f_start")
    /\ slipped' = \/ slipped
                  \/ delayed /\ wasRecent /\ \A p \in Processors : pc[p] # "p_wait"
    /\ UNCHANGED <<delayed, life, toFinalize, trash, counting, recent, wasRecent,
                   postFinalizationProcessor, postFinalizationPending, passing, collecting,
                   interrupted, work, ran>>

\* The delayed finalization is the one process there is; without it no thread is started.
\* Nor is one while the field holds a processor, be it one that waits no more.
StartProcessor ==
    /\ pc[Finalizer] = "f_start" /\ postLock = None
    /\ slipped' = (slipped \/ \E p \in Processors : pc[p] \in {"p_clear", "p_begin"})
    /\ IF delayed /\ postFinalizationProcessor = None
       THEN \E p \in Processors :
                /\ pc[p] = "idle"
                /\ postFinalizationProcessor' = p /\ postFinalizationPending' = TRUE
                /\ pc' = [pc EXCEPT ![p] = "p_wait", ![Finalizer] = "f_body"]
       ELSE /\ Goto(Finalizer, "f_body")
            /\ UNCHANGED <<postFinalizationProcessor, postFinalizationPending>>
    /\ UNCHANGED <<delayed, life, toFinalize, trash, counting, open, passing, collecting,
                   interrupted, work, ran>>

\* The sentinel waits until no trash has come for long enough; in time that is not before
\* all trash has been taken.
TellCollector ==
    /\ pc[Finalizer] = "f_body" /\ work[Finalizer] = Sentinel /\ Goto(Finalizer, "f_post")
    /\ Timely => gcTrash = {} /\ \A u \in Users : pc[u] # "c_count"
    /\ interrupted' = {u \in Users : pc[u] \in CollectLabels}
    /\ UNCHANGED <<delayed, life, toFinalize, trash, counting, open, processor, passing,
                   collecting, work, ran>>

Finalize ==
    /\ pc[Finalizer] = "f_body" /\ work[Finalizer] \in Objects
    /\ IF delayed THEN /\ delayedFinalizables' = delayedFinalizables \cup {work[Finalizer]}
                       /\ Goto(Finalizer, "f_post") /\ UNCHANGED <<count, ran>>
                  ELSE Perform(Finalizer, work[Finalizer]) /\ UNCHANGED delayedFinalizables
    /\ UNCHANGED <<delayed, life, toFinalize, trash, finalizeWaitCount, miscounted, open, processor,
                   left, seen, postLock, collecting, interrupted, work>>

\* The processor is interrupted, which only ends its sleep.  If it clears the field between
\* the test for null and the call the NullPointerException leaves finalize(), which has
\* nothing left to do.
NotifyPost ==
    /\ pc[Finalizer] = "f_post" /\ Goto(Finalizer, "idle")
    /\ recent' = TRUE /\ wasRecent' = FALSE
    /\ openFinalizeCount' = openFinalizeCount - 1
    /\ work' = [work EXCEPT ![Finalizer] = None]
    /\ UNCHANGED <<delayed, life, toFinalize, trash, counting, processor, passing, collecting,
                   interrupted, ran>>

(* A processor: PostFinalizationProcessor.run, DelayedFinalizationProcess.run. *)

\* Mutant of CalmedDown: open finalizers are not looked at.
CalmedDownAnyway(p) ==
    /\ pc[p] = "p_wait" /\ ~lockPostFinalization /\ ~recent
    /\ Goto(p, "p_clear")
    /\ UNCHANGED <<delayed, life, toFinalize, trash, counting, open, processor, passing,
                   collecting, interrupted, work, ran>>

CalmedDown(p) ==
    /\ pc[p] = "p_wait" /\ ~lockPostFinalization /\ openFinalizeCount = 0 /\ ~recent
    /\ Goto(p, "p_clear")
    /\ UNCHANGED <<delayed, life, toFinalize, trash, counting, open, processor, passing,
                   collecting, interrupted, work, ran>>

\* Mutant of ClearProcessor: the field is left as it is.
KeepProcessor(p) ==
    /\ pc[p] = "p_clear" /\ Goto(p, "p_begin")
    /\ UNCHANGED <<delayed, life, toFinalize, trash, counting, open, processor, passing,
                   collecting, interrupted, work, ran>>

ClearProcessor(p) ==
    /\ pc[p] = "p_clear" /\ Goto(p, "p_begin")
    /\ postFinalizationProcessor' = None
    /\ UNCHANGED <<delayed, life, toFinalize, trash, counting, open, postFinalizationPending,
                   slipped, passing, collecting, interrupted, work, ran>>

BeginPass(p) ==
    /\ pc[p] = "p_begin" /\ postLock = None /\ Goto(p, "p_pass")
    /\ postLock' = p
    /\ left' = [left EXCEPT ![p] = delayedFinalizables]
    /\ seen' = [seen EXCEPT ![p] = delayedFinalizables]
    /\ UNCHANGED <<delayed, life, toFinalize, trash, counting, open, processor,
                   delayedFinalizables, collecting, interrupted, work, ran>>

\* If objects were registered since it began, a ConcurrentModificationException ends the
\* pass, with the map as it is.
PerformNext(p) ==
    /\ pc[p] = "p_pass" /\ left[p] # {}
    /\ IF delayedFinalizables = seen[p]
       THEN \E o \in left[p] : /\ left' = [left EXCEPT ![p] = @ \ {o}]
                               /\ work' = [work EXCEPT ![p] = o]
                               /\ Perform(p, o)
       ELSE Goto(p, "p_end") /\ UNCHANGED <<left, work, count, ran>>
    /\ UNCHANGED <<delayed, life, toFinalize, trash, finalizeWaitCount, miscounted, open, processor,
                   delayedFinalizables, seen, postLock, collecting, interrupted>>

\* Mutant of ClearFinalizables: the map is not cleared.
KeepFinalizables(p) ==
    /\ pc[p] = "p_pass" /\ left[p] = {} /\ Goto(p, "p_end")
    /\ UNCHANGED <<delayed, life, toFinalize, trash, counting, open, processor, passing,
                   collecting, interrupted, work, ran>>

ClearFinalizables(p) ==
    /\ pc[p] = "p_pass" /\ left[p] = {} /\ Goto(p, "p_end")
    /\ delayedFinalizables' = {}
    /\ UNCHANGED <<delayed, life, toFinalize, trash, counting, open, processor, left, seen,
                   postLock, collecting, interrupted, work, ran>>

EndPass(p) ==
    /\ pc[p] = "p_end" /\ Goto(p, "p_done")
    /\ postLock' = None
    /\ left' = [left EXCEPT ![p] = {}] /\ seen' = [seen EXCEPT ![p] = {}]
    /\ work' = [work EXCEPT ![p] = None]
    /\ UNCHANGED <<delayed, life, toFinalize, trash, counting, open, processor,
                   delayedFinalizables, collecting, interrupted, ran>>

\* Whether or not another processor has been started meanwhile.
NotifyPass(p) ==
    /\ pc[p] = "p_done" /\ postFinalizationPending' = FALSE
    /\ pc' = [t \in Threads |-> IF t = p THEN "idle"
                                ELSE IF pc[t] = "c_pwait" THEN "c_pending" ELSE pc[t]]
    /\ UNCHANGED <<delayed, life, toFinalize, trash, counting, open, postFinalizationProcessor,
                   slipped, passing, collecting, interrupted, work, ran>>

(* The specification. *)

Collecting(u) ==
    \/ Prepare(u) \/ ResetCount(u) \/ SystemGc(u) \/ TakeTrash(u) \/ CountTrash(u)
    \/ EndTrash(u) \/ UnlockPass(u) \/ PokeProcessor(u) \/ InterruptProcessor(u)
    \/ TestCount(u) \/ Settle(u) \/ AwaitPass(u)

Finalizing ==
    \/ TakeFinalizable \/ NotifyPre \/ StartProcessor \/ TellCollector \/ Finalize
    \/ NotifyPost \/ Decrement(Finalizer) \/ TestWaiting(Finalizer)

Processing(p) ==
    \/ CalmedDown(p) \/ ClearProcessor(p) \/ BeginPass(p) \/ PerformNext(p)
    \/ ClearFinalizables(p) \/ EndPass(p) \/ NotifyPass(p) \/ Decrement(p) \/ TestWaiting(p)

Next ==
    \/ JvmCollects \/ TimePasses \/ Finalizing
    \/ \E o \in Objects : Drop(o)
    \/ \E u \in Users : CallCollect(u) \/ Collecting(u)
    \/ \E p \in Processors : Processing(p)

Spec == Init /\ [][Next]_vars

\* Threads run and time passes.  Nobody has to call collect() or to drop an object, and the
\* JVM collects when it likes.
FairSpec ==
    /\ Spec /\ WF_vars(TimePasses) /\ WF_vars(Finalizing)
    /\ \A u \in Users : WF_vars(Collecting(u))
    /\ \A p \in Processors : WF_vars(Processing(p))

(* Properties. *)

\* While a pass runs no finalizer has left notifyPreFinalization and not notifyPostFinalization:
\* none registers an object that the pass does not see or that it drops unseen.  The monitor
\* of the processes sees to that, except for a finalizer that leaves after a processor has
\* looked at finalization for the last time, as it is quicker to get the monitor than the
\* pass, or had read the clock before: once that has happened the code guarantees nothing here.
NoOverlap ==
    ~slipped /\ (\E p \in Processors : pc[p] \in {"p_pass", "dec", "test"}) =>
        pc[Finalizer] \notin {"f_body", "f_post", "dec", "test"}

\* __del__ runs not before the object is collected, and once, unless a finalizer that has
\* slipped in registered an object while a pass was at work: the exception that ends that
\* pass leaves what it has finalized to the next one.
FinalizedOnce ==
    \A o \in Objects : /\ ran[o] > 0 => life[o] = "collected"
                       /\ ~slipped => ran[o] <= 1

\* "collect() ... blocks until all gc-monitored objects that are garbage actually have been
\* collected and had their finalizers called and completed": when it returns none is left
\* that has been collected and not finalized, but for what a finalizer that has slipped in
\* leaves behind.
CollectComplete ==
    [][\A u \in Users : pc[u] = "c_pending" /\ pc'[u] = "idle" =>
           \A o \in Objects : life[o] = "collected" => ran[o] > 0 \/ slipped]_vars

\* Once collect() has returned it can be called again.
CanCollectAgain == gcRunning => \E u \in Users : pc[u] # "idle"

\* What is collected is finalized, even by a pass that is started after the one before it
\* has cleared the way.  A finalizer that slips in can find the field not yet cleared: what
\* it registers after that pass waits for the next collection, or for ever.
AllFinalized == []~slipped => \A o \in Objects : life[o] = "collected" ~> ran[o] > 0

\* collect() returns: it blocks until the finalizers of what was collected have completed,
\* and no longer.
CollectReturns == \A u \in Users : pc[u] = "c_prepare" ~> pc[u] = "idle"

\* It does if the finalizers it waits for are counted right and have a pass to run in.
CountedCollectReturns == []~miscounted /\ []~slipped => CollectReturns
===============================================================================
