------------------------------ MODULE GlobalRef ------------------------------
(***************************************************************************)
(* Python weak references: AbstractReference and GlobalRef of _weakref,    *)
(* and the restoring of references to resurrected objects of gc.           *)
(*                                                                         *)
(* All references (AbstractReference) to one object share a GlobalRef, the *)
(* java.lang.ref.WeakReference proper.  When the JVM clears it the reaper  *)
(* thread takes it from the reference queue and calls the references back, *)
(* at once or, if callbacks are delayed, after the post-finalization pass. *)
(* That pass, or a finalizer, may restore the references of an object that *)
(* is being resurrected: they all move to a fresh GlobalRef.  Meanwhile a  *)
(* user that dereferences one waits until its fate is decided.             *)
(*                                                                         *)
(* The collector and the finalizable objects are external: an object falls *)
(* out of reach, its finalizer runs and makes it reachable again, and it   *)
(* may fall out of reach once more.                                        *)
(***************************************************************************)
EXTENDS Naturals

CONSTANTS Objects, Refs,     \* referents and AbstractReferences
          Referent,          \* the object each reference is made for
          Users,             \* threads that make references and call them
          Reaper,            \* the thread "weakref reaper"
          Processor,         \* the PostFinalizationProcessor thread
          Finalizer,         \* the JVM's finalizer thread
          Nobody,            \* the owner of a free monitor
          Modes,             \* settings of the gc flags to consider
          MaxGrefs           \* bound: GlobalRefs made for one object

ASSUME GlobalRefAssumption ==
    /\ Referent \in [Refs -> Objects]
    /\ Reaper \notin {Processor, Finalizer, Nobody}
    /\ Processor \notin {Finalizer, Nobody} /\ Finalizer # Nobody
    /\ Users \cap {Reaper, Processor, Finalizer, Nobody} = {}
    /\ Modes \subseteq {"none", "force", "preserve"}
    /\ MaxGrefs \in Nat

Threads == Users \cup {Reaper, Processor, Finalizer}

\* The GlobalRefs of object o are <<o, 1>>, <<o, 2>>, ... in order of creation.
Grefs == Objects \X (1 .. MaxGrefs)
None == <<>>     \* no GlobalRef, no reference

VARIABLES
    flags,       \* FORCE_DELAYED_WEAKREF_CALLBACKS, PRESERVE_WEAKREFS_..., or none
    life,        \* how each object is reachable, see Lives
    live,        \* GlobalRefs whose referent is not null
    queue,       \* GlobalRefs in (or on their way to) the reference queue
    made,        \* number of GlobalRefs made for each object
    attr,        \* WEAK_REF_ATTR of each object, None if it has none
    objects,     \* keys of the table GlobalRef.objects, each its own value
    references,  \* GlobalRef.references
    cleared,     \* GlobalRefs with cleared = true
    monitor,     \* owner of the monitor of each GlobalRef
    delayed,     \* delayedCallbacks
    listOwner,   \* owner of the monitor of delayedCallbacks
    gref,        \* AbstractReference.gref, None before the reference exists
    called,      \* history: how often each callback was called
    stray,       \* history: GlobalRefs that a restore() has made and left behind as it failed
    pc, hand,    \* where each thread is, and the GlobalRef it works on
    ref,         \* the reference a user thread makes or calls
    left,        \* references a loop over references has still to visit
    toRestore, toCall   \* what the pass has still to do

jvm == <<life, live, queue>>
table == <<made, attr, objects, stray>>
pending == <<delayed, listOwner>>
pass == <<toRestore, toCall>>
vars == <<flags, jvm, table, pending, pass, references, cleared, monitor, gref,
          called, pc, hand, ref, left>>

\* "finalizable": only its finalizer keeps it, and finalize() has not run yet;
\* "registered": finalize() has run and left __del__ to the pass; "pool": the
\* same, and reachable from another object with a __del__ to run.
Lives == {"strong", "finalizable", "registered", "pool", "dead"}

Labels == {"idle", "failed", "delay", "c_enter", "c_loop", "r_enter", "r_list",
           "r_swap", "r_loop", "r_done", "p_restore", "p_calls", "p_finalize",
           "add", "deref", "load", "load_cleared", "test_cleared"}

Goto(t, l) == pc' = [pc EXCEPT ![t] = l]

\* createReaperThreadIfAbsent, before t gets to the label l.
WithReaper(t, l) == [pc EXCEPT ![t] = l, ![Reaper] = IF @ = "failed" THEN "idle" ELSE @]

Take(t, g) == hand' = [hand EXCEPT ![t] = g]

OfObject(o) == {g \in Grefs : g[1] = o}
Next1(o) == <<o, made[o] + 1>>

\* gc.delayedWeakrefCallbacksEnabled
Delaying == flags # "none"

TypeOK ==
    /\ flags \in Modes /\ life \in [Objects -> Lives]
    /\ live \subseteq Grefs /\ queue \subseteq Grefs /\ objects \subseteq Grefs
    /\ stray \subseteq Grefs /\ cleared \subseteq Grefs /\ delayed \subseteq Grefs /\ toCall \subseteq Grefs
    /\ made \in [Objects -> 0 .. MaxGrefs] /\ attr \in [Objects -> Grefs \cup {None}]
    /\ references \in [Grefs -> SUBSET Refs] /\ gref \in [Refs -> Grefs \cup {None}]
    /\ monitor \in [Grefs -> Threads \cup {Nobody}] /\ listOwner \in {Processor, Nobody}
    /\ called \in [Refs -> Nat] /\ toRestore \subseteq Objects
    /\ hand \in [Threads -> Grefs \cup {None}] /\ left \in [Threads -> SUBSET Refs]
    /\ pc \in [Threads -> Labels] /\ ref \in [Users -> Refs \cup {None}]

Init ==
    /\ flags \in Modes
    /\ life = [o \in Objects |-> "strong"]
    /\ live = {} /\ queue = {} /\ objects = {} /\ cleared = {} /\ delayed = {} /\ stray = {}
    /\ made = [o \in Objects |-> 0] /\ attr = [o \in Objects |-> None]
    /\ references = [g \in Grefs |-> {}] /\ gref = [r \in Refs |-> None]
    /\ monitor = [g \in Grefs |-> Nobody] /\ listOwner = Nobody
    /\ called = [r \in Refs |-> 0]
    /\ pc = [t \in Threads |-> "idle"] /\ hand = [t \in Threads |-> None]
    /\ ref = [t \in Users |-> None] /\ left = [t \in Threads |-> {}]
    /\ toRestore = {} /\ toCall = {}
------------------------------------------------------------------------------
\* The JVM: an object falls out of reach, for good or but for its finalizer; every
\* WeakReference to it is cleared at that moment and enqueued at some later time, but for
\* one that only the object itself refers to.
Collect(o) ==
    /\ life[o] = "strong"
    /\ \A t \in Users : pc[t] = "add" => hand[t] \notin OfObject(o)
    /\ \/ life' = [life EXCEPT ![o] = "dead"]
       \/ made[o] < MaxGrefs /\ life' = [life EXCEPT ![o] = "finalizable"]
    /\ live' = live \ OfObject(o)
    /\ queue' = queue \cup ((live \cap OfObject(o)) \ stray)
    /\ UNCHANGED <<flags, table, pending, pass, references, cleared, monitor, gref,
                   called, pc, hand, ref, left>>

\* FinalizeTrigger.finalize() when finalization is delayed: left to the pass.
Register(o) ==
    /\ flags = "preserve" /\ life[o] = "finalizable"
    /\ \E l \in {"registered", "pool"} : life' = [life EXCEPT ![o] = l]
    /\ UNCHANGED <<flags, live, queue, table, pending, pass, references, cleared,
                   monitor, gref, called, pc, hand, ref, left>>

\* Otherwise it runs __del__ here, which makes the object reachable and, if
\* callbacks are delayed, may call gc.restoreWeakReferences on it.
RunFinalizer(o) ==
    /\ flags # "preserve" /\ life[o] = "finalizable"
    /\ pc[Finalizer] = "idle"
    /\ \/ life' = [life EXCEPT ![o] = "strong"] /\ UNCHANGED <<pc, hand>>
       \/ /\ Delaying /\ attr[o] # None
          /\ Take(Finalizer, attr[o]) /\ Goto(Finalizer, "r_enter")
          /\ UNCHANGED life
    /\ UNCHANGED <<flags, live, queue, table, pending, pass, references, cleared,
                   monitor, gref, called, ref, left>>

\* __del__ goes on after restoreWeakReferences.
EndFinalizer ==
    /\ pc[Finalizer] = "r_done"
    /\ life' = [life EXCEPT ![hand[Finalizer][1]] = "strong"]
    /\ Goto(Finalizer, "idle") /\ Take(Finalizer, None)
    /\ UNCHANGED <<flags, live, queue, table, pending, pass, references, cleared,
                   monitor, gref, called, ref, left>>
------------------------------------------------------------------------------
\* The reaper: RefReaper.collect

Dequeue ==
    /\ pc[Reaper] = "idle"
    /\ \E g \in queue : queue' = queue \ {g} /\ Take(Reaper, g)
    /\ Goto(Reaper, IF Delaying THEN "delay" ELSE "c_enter")
    /\ UNCHANGED <<flags, life, live, table, pending, pass, references, cleared,
                   monitor, gref, called, ref, left>>

\* Mutant of Delay: delayedCallbacks is not synchronized.
DelayUnlocked ==
    /\ pc[Reaper] = "delay"
    /\ delayed' = delayed \cup {hand[Reaper]}
    /\ Goto(Reaper, "idle") /\ Take(Reaper, None)
    /\ UNCHANGED <<flags, jvm, table, listOwner, pass, references, cleared, monitor,
                   gref, called, ref, left>>

\* delayedCallback
Delay ==
    /\ pc[Reaper] = "delay"
    /\ listOwner = Nobody
    /\ delayed' = delayed \cup {hand[Reaper]}
    /\ Goto(Reaper, "idle") /\ Take(Reaper, None)
    /\ UNCHANGED <<flags, jvm, table, listOwner, pass, references, cleared, monitor,
                   gref, called, ref, left>>
------------------------------------------------------------------------------
\* GlobalRef.call, synchronized, run by the reaper or by the pass

\* Where t goes on when call() returns.
Caller(t) == IF t = Reaper THEN "idle" ELSE "p_calls"

\* Mutant of EnterCall: cleared is not tested.
EnterCallAnyway(t) ==
    /\ pc[t] = "c_enter"
    /\ monitor[hand[t]] = Nobody
    /\ cleared' = cleared \cup {hand[t]}
    /\ left' = [left EXCEPT ![t] = references[hand[t]]]
    /\ monitor' = [monitor EXCEPT ![hand[t]] = t]
    /\ Goto(t, "c_loop")
    /\ UNCHANGED <<flags, jvm, table, pending, pass, references, gref, called, hand, ref>>

EnterCall(t) ==
    /\ pc[t] = "c_enter"
    /\ monitor[hand[t]] = Nobody
    /\ IF hand[t] \in cleared
       THEN /\ Goto(t, Caller(t)) /\ Take(t, None)
            /\ UNCHANGED <<cleared, monitor, left>>
       ELSE /\ cleared' = cleared \cup {hand[t]}
            /\ left' = [left EXCEPT ![t] = references[hand[t]]]
            /\ monitor' = [monitor EXCEPT ![hand[t]] = t]
            /\ Goto(t, "c_loop") /\ UNCHANGED hand
    /\ UNCHANGED <<flags, jvm, table, pending, pass, references, gref, called, ref>>

RunCallback(t) ==
    /\ pc[t] = "c_loop"
    /\ \E r \in left[t] : /\ called' = [called EXCEPT ![r] = @ + 1]
                          /\ left' = [left EXCEPT ![t] = @ \ {r}]
    /\ UNCHANGED <<flags, jvm, table, pending, pass, references, cleared, monitor,
                   gref, pc, hand, ref>>

\* The entry of the table goes; without one a NullPointerException ends the
\* reaper thread, or the pass with delayedCallbacks as they were.
LeaveCall(t) ==
    /\ pc[t] = "c_loop" /\ left[t] = {}
    /\ objects' = objects \ {hand[t]}
    /\ monitor' = [monitor EXCEPT ![hand[t]] = Nobody]
    /\ Take(t, None)
    /\ IF hand[t] \in objects
       THEN Goto(t, Caller(t)) /\ UNCHANGED <<listOwner, pass>>
       ELSE /\ Goto(t, IF t = Reaper THEN "failed" ELSE "idle")
            /\ IF t = Reaper THEN UNCHANGED <<listOwner, pass>>
                             ELSE listOwner' = Nobody /\ toRestore' = {} /\ toCall' = {}
    /\ UNCHANGED <<flags, jvm, made, attr, stray, delayed, references, cleared, gref,
                   called, ref, left>>
------------------------------------------------------------------------------
\* GlobalRef.restore, synchronized, run by the pass or by a finalizer

EnterRestore(t) ==
    /\ pc[t] = "r_enter"
    /\ monitor[hand[t]] = Nobody
    /\ monitor' = [monitor EXCEPT ![hand[t]] = t]
    /\ Goto(t, "r_list")
    /\ UNCHANGED <<flags, jvm, table, pending, pass, references, cleared, gref, called,
                   hand, ref, left>>

Undelay(t) ==
    /\ pc[t] = "r_list"
    /\ listOwner = Nobody
    /\ delayed' = delayed \ {hand[t]}
    /\ Goto(t, "r_swap")
    /\ UNCHANGED <<flags, jvm, table, listOwner, pass, references, cleared, monitor,
                   gref, called, hand, ref, left>>

\* A fresh GlobalRef with the same references takes the place of the old one in
\* the attribute and in the table, and a reaper that died is replaced.  If call() has
\* already taken the old one out of the table, put(restore, null) throws, which ends the
\* pass or the finalizer and leaves the fresh one in the attribute.
Swap(t) ==
    /\ pc[t] = "r_swap"
    /\ LET old == hand[t]
           new == Next1(old[1])
       IN /\ made[old[1]] < MaxGrefs
          /\ made' = [made EXCEPT ![old[1]] = @ + 1]
          /\ attr' = [attr EXCEPT ![old[1]] = new]
          /\ live' = (live \ {old}) \cup {new}
          /\ references' = [references EXCEPT ![new] = references[old]]
          /\ IF old \in objects
             THEN /\ objects' = (objects \ {old}) \cup {new}
                  /\ left' = [left EXCEPT ![t] = references[old]]
                  /\ pc' = WithReaper(t, "r_loop")
                  /\ UNCHANGED <<monitor, hand, toRestore, stray>>
             ELSE /\ monitor' = [monitor EXCEPT ![old] = Nobody]
                  /\ stray' = stray \cup {new}
                  /\ pc' = WithReaper(t, IF t = Processor THEN "idle" ELSE "r_done")
                  /\ hand' = [hand EXCEPT ![t] = IF t = Processor THEN None ELSE @]
                  /\ toRestore' = IF t = Processor THEN {} ELSE toRestore
                  /\ UNCHANGED <<objects, left>>
    /\ UNCHANGED <<flags, life, queue, pending, toCall, cleared, gref, called, ref>>

\* Mutant of MoveReference: cleared is set before all references have moved.
MoveCleared(t) ==
    /\ pc[t] = "r_loop"
    /\ \E r \in left[t] : /\ gref' = [gref EXCEPT ![r] = attr[hand[t][1]]]
                          /\ left' = [left EXCEPT ![t] = @ \ {r}]
    /\ cleared' = cleared \cup {hand[t]}
    /\ UNCHANGED <<flags, jvm, table, pending, pass, references, monitor, called, pc,
                   hand, ref>>

\* Each reference moves to the new GlobalRef; a get() pending on it is interrupted,
\* which only shortens its sleep.
MoveReference(t) ==
    /\ pc[t] = "r_loop"
    /\ \E r \in left[t] : /\ gref' = [gref EXCEPT ![r] = attr[hand[t][1]]]
                          /\ left' = [left EXCEPT ![t] = @ \ {r}]
    /\ UNCHANGED <<flags, jvm, table, pending, pass, references, cleared, monitor,
                   called, pc, hand, ref>>

\* Mutant of LeaveRestore: the disbanded GlobalRef is not marked cleared.
LeaveUncleared(t) ==
    /\ pc[t] = "r_loop" /\ left[t] = {}
    /\ monitor' = [monitor EXCEPT ![hand[t]] = Nobody]
    /\ IF t = Processor THEN Goto(t, "p_restore") /\ Take(t, None)
                        ELSE Goto(t, "r_done") /\ UNCHANGED hand
    /\ UNCHANGED <<flags, jvm, table, pending, pass, references, cleared, gref, called,
                   ref, left>>

LeaveRestore(t) ==
    /\ pc[t] = "r_loop" /\ left[t] = {}
    /\ cleared' = cleared \cup {hand[t]}
    /\ monitor' = [monitor EXCEPT ![hand[t]] = Nobody]
    /\ IF t = Processor THEN Goto(t, "p_restore") /\ Take(t, None)
                        ELSE Goto(t, "r_done") /\ UNCHANGED hand
    /\ UNCHANGED <<flags, jvm, table, pending, pass, references, gref, called, ref, left>>
------------------------------------------------------------------------------
\* The pass: DelayedFinalizationProcess.run

\* Objects that have been collected since the processor looked at finalization are not
\* registered yet, their GlobalRefs may be in the list already.
StartPass ==
    /\ pc[Processor] = "idle" /\ Delaying
    /\ toRestore' = {o \in Objects : life[o] = "pool"}
    /\ Goto(Processor, "p_restore")
    /\ UNCHANGED <<flags, jvm, table, pending, toCall, references, cleared, monitor,
                   gref, called, hand, ref, left>>

\* restoreWeakReferences for each object of the pool
RestoreNext ==
    /\ pc[Processor] = "p_restore"
    /\ \E o \in toRestore :
         /\ toRestore' = toRestore \ {o}
         /\ IF attr[o] = None THEN UNCHANGED <<pc, hand>>
                              ELSE Goto(Processor, "r_enter") /\ Take(Processor, attr[o])
    /\ UNCHANGED <<flags, jvm, table, pending, toCall, references, cleared, monitor,
                   gref, called, ref, left>>

\* processDelayedCallbacks keeps the monitor of the list until every call is made.
LockList ==
    /\ pc[Processor] = "p_restore" /\ toRestore = {}
    /\ listOwner = Nobody
    /\ listOwner' = Processor
    /\ toCall' = delayed
    /\ Goto(Processor, "p_calls")
    /\ UNCHANGED <<flags, jvm, table, delayed, toRestore, references, cleared, monitor,
                   gref, called, hand, ref, left>>

CallNext ==
    /\ pc[Processor] = "p_calls"
    /\ \E g \in toCall : toCall' = toCall \ {g} /\ Take(Processor, g)
    /\ Goto(Processor, "c_enter")
    /\ UNCHANGED <<flags, jvm, table, pending, toRestore, references, cleared, monitor,
                   gref, called, ref, left>>

ClearList ==
    /\ pc[Processor] = "p_calls" /\ toCall = {}
    /\ delayed' = {}
    /\ listOwner' = Nobody
    /\ Goto(Processor, "p_finalize")
    /\ UNCHANGED <<flags, jvm, table, pass, references, cleared, monitor, gref, called,
                   hand, ref, left>>

\* The delayed finalizers run, and make their objects reachable.
RunDelayedFinalizers ==
    /\ pc[Processor] = "p_finalize"
    /\ life' = [o \in Objects |-> IF life[o] \in {"registered", "pool"} THEN "strong"
                                                                       ELSE life[o]]
    /\ Goto(Processor, "idle")
    /\ UNCHANGED <<flags, live, queue, table, pending, pass, references, cleared,
                   monitor, gref, called, hand, ref, left>>
------------------------------------------------------------------------------
\* User threads: ReferenceType.__new__

\* GlobalRef.newInstance, synchronized on objects; it replaces a reaper that died.
NewInstance(t, r) ==
    LET o == Referent[r]
        found == objects \cap live \cap OfObject(o)
    IN /\ pc[t] = "idle" /\ gref[r] = None /\ life[o] = "strong"
       /\ \A u \in Users : ref[u] # r
       /\ ref' = [ref EXCEPT ![t] = r]
       /\ pc' = WithReaper(t, "add")
       /\ \/ /\ \E g \in found : Take(t, g)
             /\ UNCHANGED <<table, live>>
          \/ /\ found = {} /\ made[o] < MaxGrefs
             /\ Take(t, Next1(o))
             /\ made' = [made EXCEPT ![o] = @ + 1]
             /\ objects' = objects \cup {Next1(o)} /\ UNCHANGED stray
             /\ live' = live \cup {Next1(o)}
             /\ attr' = [attr EXCEPT ![o] = Next1(o)]
       /\ UNCHANGED <<flags, life, queue, pending, pass, references, cleared, monitor,
                      gref, called, left>>

\* The constructor of AbstractReference, and GlobalRef.add, which is synchronized.
Add(t) ==
    /\ pc[t] = "add"
    /\ monitor[hand[t]] = Nobody
    /\ gref' = [gref EXCEPT ![ref[t]] = hand[t]]
    /\ references' = [references EXCEPT ![hand[t]] = @ \cup {ref[t]}]
    /\ Goto(t, "idle") /\ Take(t, None) /\ ref' = [ref EXCEPT ![t] = None]
    /\ UNCHANGED <<flags, jvm, table, pending, pass, cleared, monitor, called, left>>
------------------------------------------------------------------------------
\* User threads: AbstractReference.get.  The field gref is read anew for every
\* gref.get() and every gref.isCleared(), and may change in between.

CallReference(t, r) ==
    /\ pc[t] = "idle" /\ gref[r] # None
    /\ ref' = [ref EXCEPT ![t] = r]
    /\ Take(t, gref[r])
    /\ Goto(t, "deref")
    /\ UNCHANGED <<flags, jvm, table, pending, pass, references, cleared, monitor, gref,
                   called, left>>

Return(t) ==
    Goto(t, "idle") /\ Take(t, None) /\ ref' = [ref EXCEPT ![t] = None]

Deref(t) ==
    /\ pc[t] = "deref"
    /\ \/ /\ hand[t] \in live \/ ~Delaying
          /\ Return(t)
       \/ /\ hand[t] \notin live /\ Delaying
          /\ Goto(t, "load_cleared") /\ UNCHANGED <<hand, ref>>
    /\ UNCHANGED <<flags, jvm, table, pending, pass, references, cleared, monitor, gref,
                   called, left>>

LoadGref(t) ==
    /\ \/ pc[t] = "load" /\ Goto(t, "deref")
       \/ pc[t] = "load_cleared" /\ Goto(t, "test_cleared")
    /\ Take(t, gref[ref[t]])
    /\ UNCHANGED <<flags, jvm, table, pending, pass, references, cleared, monitor, gref,
                   called, ref, left>>

\* isCleared(): return null, or sleep and try again.
TestCleared(t) ==
    /\ pc[t] = "test_cleared"
    /\ \/ hand[t] \in cleared /\ Return(t)
       \/ hand[t] \notin cleared /\ Goto(t, "load") /\ UNCHANGED <<hand, ref>>
    /\ UNCHANGED <<flags, jvm, table, pending, pass, references, cleared, monitor, gref,
                   called, left>>
------------------------------------------------------------------------------
Collector == \E o \in Objects : Collect(o) \/ Register(o) \/ RunFinalizer(o)

Call(t) == EnterCall(t) \/ RunCallback(t) \/ LeaveCall(t)

Restore(t) == EnterRestore(t) \/ Undelay(t) \/ Swap(t) \/ MoveReference(t) \/ LeaveRestore(t)

ReaperStep == Dequeue \/ Delay \/ Call(Reaper)

PassStep == RestoreNext \/ LockList \/ CallNext \/ ClearList \/ RunDelayedFinalizers
            \/ Call(Processor) \/ Restore(Processor)

FinalizerStep == Restore(Finalizer) \/ EndFinalizer

Dereference(t) == Deref(t) \/ LoadGref(t) \/ TestCleared(t)

Next ==
    \/ Collector \/ ReaperStep \/ StartPass \/ PassStep \/ FinalizerStep
    \/ \E t \in Users : \/ \E r \in Refs : NewInstance(t, r) \/ CallReference(t, r)
                        \/ Add(t) \/ Dereference(t)

Spec == Init /\ [][Next]_vars

\* The reaper, a pass or a finalizer that has begun and a user in get() keep running,
\* and a monitor is not kept from a thread for ever by others that find it free first.
\* Whether objects are collected or a pass begins is left open.
Fairness ==
    /\ SF_vars(ReaperStep) /\ SF_vars(PassStep) /\ WF_vars(FinalizerStep)
    /\ \A t \in Users : WF_vars(Dereference(t))

FairSpec == Spec /\ Fairness
------------------------------------------------------------------------------
\* The GlobalRef a reference uses, if it has one, and those on their way to call().
ReaperHas(g) == hand[Reaper] = g /\ pc[Reaper] \in {"delay", "c_enter"}
Restoring(g) == \E t \in {Processor, Finalizer} :
                    hand[t] = g /\ pc[t] \in {"r_swap", "r_loop"}
Calling(g) == \E t \in {Reaper, Processor} : hand[t] = g /\ pc[t] = "c_loop"

\* A reference is called back at most once, and only if it is dead for good: it is
\* never restored, and never resolves to its object again.
CallbackFinal ==
    \A r \in Refs : called[r] > 0 => called[r] = 1 /\ gref[r] \in cleared \ live

\* No reference is forgotten: one that is neither alive nor cleared is on its way to
\* be called back or being restored.  Otherwise get() would wait for ever.
NoOrphan ==
    \A r \in Refs : gref[r] # None =>
        \/ gref[r] \in live \cup cleared \cup queue \cup delayed
        \/ ReaperHas(gref[r]) \/ Restoring(gref[r])

\* The table holds exactly the GlobalRefs that are not cleared yet, the one that is
\* being called back included and the one that is being disbanded left out, as well as
\* those that a failing restore() leaves behind.
TableExact ==
    \A g \in Grefs :
        g \in objects <=> \/ g[2] <= made[g[1]] /\ g \notin cleared \cup stray
                             /\ ~\E t \in Threads : hand[t] = g /\ pc[t] = "r_loop"
                          \/ Calling(g)

\* get() returns None only for a reference that is called back, never for one that a
\* restore has just moved: cleared is set after the references have moved.  (It may
\* if the move comes between its read of gref and its call of isCleared().)
NoneIsFinal ==
    [][\A t \in Users : pc[t] = "test_cleared" /\ pc'[t] = "idle" /\ hand[t] = gref[ref[t]]
                          => ~\E u \in {Processor, Finalizer} : hand[u] = hand[t] /\ pc[u] = "r_loop"]_vars

\* get() "would block until a consistent state is reached (i.e. referent is non-null
\* or cleared == true)": when it returns None, its reference is indeed cleared.
NoneMeansCleared ==
    [][\A t \in Users : pc[t] = "test_cleared" /\ pc'[t] = "idle"
                          => gref[ref[t]] \in cleared]_vars

\* A finalizer that calls restoreWeakReferences while a pass is at work takes the monitors
\* of the GlobalRef and of the list in the other order.
Overlap == pc[Finalizer] # "idle" /\ pc[Processor] # "idle"

\* get() waits no longer than it takes to decide the fate of the reference, provided that a
\* pass begins whenever the last one has ended for long enough, that no restore() fails,
\* and that no finalizer slips into a pass (see NoOverlap of Finalization).
GetResolves ==
    []<>(pc[Processor] # "idle" \/ ~Delaying) /\ [](stray = {} /\ ~Overlap)
        => \A t \in Users : pc[t] = "load_cleared" ~> pc[t] = "idle"
==============================================================================
