------------------------------ MODULE Selectors ------------------------------
(***************************************************************************)
(* select() and poll() of Lib/_socket.py, and the notifications that the   *)
(* threads of Netty send to them.                                          *)
(*                                                                         *)
(* A call of select makes a selector of its own, with a condition          *)
(* variable, and adds it to every socket it watches; a poll object stays   *)
(* registered and has a queue of notifications.  Whoever changes what can  *)
(* be read on a socket goes through a snapshot of its selectors and        *)
(* notifies each: for a select it must take the lock of the condition.     *)
(* Both look at the sockets themselves, so that they report levels and not *)
(* edges.                                                                  *)
(***************************************************************************)
EXTENDS RealSocket

CONSTANTS Users,     \* threads of the program
          Poll,      \* the poll object, shared by them
          Nobody,    \* the owner of a free lock
          NoSocket,  \* what a thread that is not in a call works on
          Watchable, \* the sets of sockets that select is called with
          Masks,     \* the event masks that sockets are registered with in the poll
          Calls,     \* the calls that each thread of the program makes
          MaxNotes   \* bound: notifications in the poll object when register is called

\* Threads other than Users: the event loop each socket's channel is bound to, the
\* thread of the parent group that queues a child, and the finalizer of the JVM.
Loop(s) == <<"loop", s>>
Worker(c) == <<"worker", c>>
Finalizer == <<"finalizer">>
Service == {Loop(s) : s \in Sockets} \cup {Worker(c) : c \in Children} \cup {Finalizer}
Threads == Users \cup Service

ASSUME SelectorsAssumption ==
    /\ Users \cap Service = {} /\ Poll \notin Users
    /\ Nobody \notin Threads /\ NoSocket \notin Sockets
    /\ Watchable \subseteq (SUBSET Sockets) \ {{}} /\ Masks \subseteq SUBSET {"in", "hup"}
    /\ Calls \in [Users -> SUBSET {"select", "poll", "accept", "recv", "close"}]

Registrable == Users \cup {Poll}   \* the select a user is in, and the poll object

VARIABLES
    pc,          \* where each thread is
    at,          \* the socket it works on
    cont,        \* where it goes on after _notify_selectors or _make_active
    todo,        \* selectors a notifying thread has still to notify
    selectors,   \* _realsocket.selectors
    cv,          \* owner of the lock of each user's select
    watch, left, \* the sockets of its call, and those a loop over them has still to visit
    ready,       \* selected_rlist
    timed,       \* does its call give up
    unseen,      \* history: sockets a test of its call has found empty though Filled
    pollQueue,   \* poll.queue: notifications, the sock and hangup of each
    registered,  \* poll.registered: the mask of each socket, {} for none
    batch,       \* notifications _handle_poll has taken
    overlooked,  \* history: sockets poll() may have forgotten
    activated, activation,  \* _activated of each child, owner of its _activation_cv
    closed       \* sockets the program has closed

threadVars == <<pc, at, cont>>
selectVars == <<cv, watch, left, ready, timed, unseen>>
pollVars == <<pollQueue, registered, batch, overlooked>>
socketVars == <<activated, activation, closed>>

\* The labels of select, poll, and the subroutines, and then those of ServerSocket.
Labels == {"idle", "snapshot", "notify", "activate",
           "s_register", "s_add", "s_test", "s_decide", "s_wait", "s_woken", "s_unregister",
           "g_add", "g_put", "g_drop", "p_take", "p_test", "p_repump"}
          \cup {"a_take", "a_count", "r_take", "r_store", "r_load", "r_read", "r_release",
                "r_reset", "r_eof", "k_close", "k_count",
                "i_lock", "i_wait", "i_woken", "loop", "closed", "d_release", "d_reset",
                "d_drain",
                "w_lock", "w_put", "w_exit", "f_write", "f_poll", "f_close"}

Goto(t, l) == pc' = [pc EXCEPT ![t] = l]
At(t, s) == at' = [at EXCEPT ![t] = s]

Note(s, hangup) == [sock |-> s, hangup |-> hangup]
Notes == [sock : Sockets, hangup : BOOLEAN]

SelectorsTypeOK ==
    /\ pc \in [Threads -> Labels] /\ cont \in [Threads -> Labels]
    /\ at \in [Threads -> Sockets \cup {NoSocket}]
    /\ todo \in [Threads -> SUBSET Registrable]
    /\ selectors \in [Sockets -> SUBSET Registrable]
    /\ cv \in [Users -> Users \cup {Nobody}]
    /\ watch \in [Users -> SUBSET Sockets] /\ left \in [Users -> SUBSET Sockets]
    /\ ready \in [Users -> SUBSET Sockets] /\ timed \in [Users -> BOOLEAN]
    /\ unseen \in [Users -> SUBSET Sockets]
    /\ pollQueue \in Seq(Notes) /\ batch \in [Users -> Seq(Notes)]
    /\ registered \in [Sockets -> SUBSET {"in", "hup"}] /\ overlooked \subseteq Sockets
    /\ activated \in [Children -> BOOLEAN] /\ activation \in [Children -> Threads \cup {Nobody}]
    /\ closed \subseteq Sockets

SelectorsInit ==
    /\ at = [t \in Threads |-> NoSocket] /\ cont = [t \in Threads |-> "idle"]
    /\ todo = [t \in Threads |-> {}] /\ selectors = [s \in Sockets |-> {}]
    /\ cv = [t \in Users |-> Nobody] /\ timed = [t \in Users |-> FALSE]
    /\ watch = [t \in Users |-> {}] /\ left = [t \in Users |-> {}]
    /\ ready = [t \in Users |-> {}] /\ unseen = [t \in Users |-> {}]
    /\ pollQueue = <<>> /\ batch = [t \in Users |-> <<>>]
    /\ registered = [s \in Sockets |-> {}] /\ overlooked = {}
    /\ activated = [c \in Children |-> FALSE] /\ activation = [c \in Children |-> Nobody]
    /\ closed = {}

\* A thread in recv() on child c, or on its way there
Reads(t, c) ==
    /\ at[t] = c
    /\ \/ pc[t] \in {"r_take", "r_store", "r_load", "r_read", "r_release", "r_reset", "r_eof"}
       \/ pc[t] = "activate" /\ cont[t] = "r_take"

\* What a test of a socket finds.  The field incoming_head is read twice: the end of the
\* stream, which recv() leaves there for a moment, and None, if it is reset in between,
\* have no readableBytes.
MustRaise(s) == s # Server /\ head[s] = PeerClosed
MayRaise(s) ==
    \/ MustRaise(s)
    \/ /\ s # Server /\ head[s] \in Messages
       /\ \E t \in Threads : at[t] = s /\ pc[t] \in {"r_reset", "d_reset"}
Overlooks(s) == Filled(s) /\ ~Readable(s)
------------------------------------------------------------------------------
\* Mutant of MakeActive: the thread that waits for the child is not notified.
MakeActiveSilent(t) ==
    /\ pc[t] = "activate"
    /\ activated' = [activated EXCEPT ![at[t]] = TRUE]
    /\ Goto(t, cont[t]) /\ cont' = [cont EXCEPT ![t] = "idle"]
    /\ UNCHANGED <<dataVars, at, todo, selectors, selectVars, pollVars, activation, closed>>

\* _make_active, called by t on child at[t]: the flag is read without the lock.
MakeActive(t) ==
    /\ pc[t] = "activate"
    /\ LET c == at[t]
       IN IF activated[c]
          THEN Goto(t, cont[t]) /\ UNCHANGED activated
          ELSE /\ activation[c] = Nobody
               /\ activated' = [activated EXCEPT ![c] = TRUE]
               /\ pc' = [pc EXCEPT ![t] = cont[t],
                                   ![Loop(c)] = IF @ = "i_wait" THEN "i_woken" ELSE @]
    /\ cont' = [cont EXCEPT ![t] = "idle"]
    /\ UNCHANGED <<dataVars, at, todo, selectors, selectVars, pollVars, activation, closed>>

\* The first thing a call on socket s does: a connection must be active.
Enter(t, s, label) ==
    /\ At(t, s)
    /\ IF s = Server THEN Goto(t, label) /\ UNCHANGED cont
       ELSE Goto(t, "activate") /\ cont' = [cont EXCEPT ![t] = label]
------------------------------------------------------------------------------
\* _notify_selectors: the iterator of the list is a snapshot of it ...
Snapshot(t) ==
    /\ pc[t] = "snapshot"
    /\ todo' = [todo EXCEPT ![t] = selectors[at[t]]]
    /\ Goto(t, "notify")
    /\ UNCHANGED <<dataVars, at, cont, selectors, selectVars, pollVars, socketVars>>

\* Mutant of NotifySelect: the condition is notified without its lock.
NotifyUnlocked(t) ==
    /\ pc[t] = "notify"
    /\ \E u \in todo[t] \cap Users :
         /\ todo' = [todo EXCEPT ![t] = @ \ {u}]
         /\ pc' = [pc EXCEPT ![u] = IF @ = "s_wait" THEN "s_woken" ELSE @]
    /\ UNCHANGED <<dataVars, at, cont, selectors, selectVars, pollVars, socketVars>>

\* ... _Select.notify takes the lock and wakes the caller of select if it waits, ...
NotifySelect(t) ==
    /\ pc[t] = "notify"
    /\ \E u \in todo[t] \cap Users :
         /\ cv[u] = Nobody
         /\ todo' = [todo EXCEPT ![t] = @ \ {u}]
         /\ pc' = [pc EXCEPT ![u] = IF @ = "s_wait" THEN "s_woken" ELSE @]
    /\ UNCHANGED <<dataVars, at, cont, selectors, selectVars, pollVars, socketVars>>

\* ... and poll.notify puts a notification in the queue of the poll object.
NotifyPoll(t) ==
    /\ pc[t] = "notify" /\ Poll \in todo[t]
    /\ todo' = [todo EXCEPT ![t] = @ \ {Poll}]
    /\ pollQueue' = Append(pollQueue, Note(at[t], cont[t] = "closed"))
    /\ UNCHANGED <<dataVars, threadVars, selectors, selectVars, registered, batch, overlooked,
                   socketVars>>

Notified(t) ==
    /\ pc[t] = "notify" /\ todo[t] = {}
    /\ Goto(t, cont[t]) /\ cont' = [cont EXCEPT ![t] = "idle"]
    /\ UNCHANGED <<dataVars, at, todo, selectors, selectVars, pollVars, socketVars>>
------------------------------------------------------------------------------
\* select(rlist, [], [], timeout): the lock of the condition is held from here on.
CallSelect(t, S) ==
    /\ pc[t] = "idle" /\ S \in Watchable /\ S \cap closed = {}
    /\ cv' = [cv EXCEPT ![t] = t]
    /\ watch' = [watch EXCEPT ![t] = S] /\ left' = [left EXCEPT ![t] = S]
    /\ \E b \in BOOLEAN : timed' = [timed EXCEPT ![t] = b]
    /\ Goto(t, "s_register")
    /\ UNCHANGED <<dataVars, at, cont, todo, selectors, ready, unseen, pollVars, socketVars>>

\* _register_selector of each socket: _make_active and then addIfAbsent.
RegisterNext(t) ==
    /\ pc[t] = "s_register"
    /\ \E s \in left[t] : Enter(t, s, "s_add")
    /\ UNCHANGED <<dataVars, todo, selectors, selectVars, pollVars, socketVars>>

AddSelector(t) ==
    /\ pc[t] = "s_add"
    /\ selectors' = [selectors EXCEPT ![at[t]] = @ \cup {t}]
    /\ left' = [left EXCEPT ![t] = IF @ = {at[t]} THEN watch[t] ELSE @ \ {at[t]}]
    /\ Goto(t, IF left[t] = {at[t]} THEN "s_test" ELSE "s_register") /\ At(t, NoSocket)
    /\ UNCHANGED <<dataVars, cont, todo, cv, watch, ready, timed, unseen, pollVars,
                   socketVars>>

\* The call is over: nobody can wake or find its selector any more.
LeaveSelect(t) ==
    /\ selectors' = [s \in Sockets |-> selectors[s] \ {t}]
    /\ todo' = [u \in Threads |-> todo[u] \ {t}]
    /\ cv' = [cv EXCEPT ![t] = Nobody]
    /\ watch' = [watch EXCEPT ![t] = {}] /\ left' = [left EXCEPT ![t] = {}]
    /\ ready' = [ready EXCEPT ![t] = {}] /\ timed' = [timed EXCEPT ![t] = FALSE]
    /\ unseen' = [unseen EXCEPT ![t] = {}]
    /\ Goto(t, "idle")

TestSocket(t) ==
    /\ pc[t] = "s_test"
    /\ \E s \in left[t] \ closed :
         /\ ~MustRaise(s)
         /\ left' = [left EXCEPT ![t] = @ \ {s}]
         /\ ready' = [ready EXCEPT ![t] = IF Readable(s) THEN @ \cup {s} ELSE @]
         /\ unseen' = [unseen EXCEPT ![t] = IF Overlooks(s) THEN @ \cup {s} ELSE @]
         /\ Goto(t, IF left[t] = {s} THEN "s_decide" ELSE "s_test")
    /\ UNCHANGED <<dataVars, at, cont, todo, selectors, cv, watch, timed, pollVars,
                   socketVars>>

\* fileno() of a socket that was closed meanwhile raises, and _readable() may.  There is
\* no finally around the yield, so the dead selector stays in the lists; notifying it has
\* no effect.
TestRaises(t) ==
    /\ pc[t] = "s_test"
    /\ \E s \in left[t] : s \in closed \/ MayRaise(s)
    /\ LeaveSelect(t)
    /\ UNCHANGED <<dataVars, at, cont, pollVars, socketVars>>

\* Return what is ready, or nothing if the time is over, ...
Decide(t) ==
    /\ pc[t] = "s_decide"
    /\ ready[t] # {} \/ timed[t]
    /\ Goto(t, "s_unregister")
    /\ UNCHANGED <<dataVars, at, cont, todo, selectors, selectVars, pollVars, socketVars>>

\* Mutant of Wait: the lock is kept.
WaitHolding(t) ==
    /\ pc[t] = "s_decide" /\ ready[t] = {}
    /\ Goto(t, "s_wait")
    /\ UNCHANGED <<dataVars, at, cont, todo, selectors, selectVars, pollVars, socketVars>>

\* ... or wait, which gives the lock back in the same step.
Wait(t) ==
    /\ pc[t] = "s_decide" /\ ready[t] = {}
    /\ cv' = [cv EXCEPT ![t] = Nobody]
    /\ Goto(t, "s_wait")
    /\ UNCHANGED <<dataVars, at, cont, todo, selectors, watch, left, ready, timed, unseen,
                   pollVars, socketVars>>

Expire(t) ==
    /\ pc[t] = "s_wait" /\ timed[t]
    /\ Goto(t, "s_woken")
    /\ UNCHANGED <<dataVars, at, cont, todo, selectors, selectVars, pollVars, socketVars>>

\* Mutant of WakeUp: the sockets are not looked at again.
WakeUpDeciding(t) ==
    /\ pc[t] = "s_woken" /\ cv[t] = Nobody
    /\ cv' = [cv EXCEPT ![t] = t]
    /\ Goto(t, "s_decide")
    /\ UNCHANGED <<dataVars, at, cont, todo, selectors, watch, left, ready, timed, unseen,
                   pollVars, socketVars>>

WakeUp(t) ==
    /\ pc[t] = "s_woken" /\ cv[t] = Nobody
    /\ cv' = [cv EXCEPT ![t] = t]
    /\ left' = [left EXCEPT ![t] = watch[t]] /\ unseen' = [unseen EXCEPT ![t] = {}]
    /\ Goto(t, "s_test")
    /\ UNCHANGED <<dataVars, at, cont, todo, selectors, watch, ready, timed, pollVars,
                   socketVars>>

Unregister(t) ==
    /\ pc[t] = "s_unregister"
    /\ LeaveSelect(t)
    /\ UNCHANGED <<dataVars, at, cont, pollVars, socketVars>>
------------------------------------------------------------------------------
\* poll.register: the mask, the selector, and then a first notification.
CallRegister(t, s, mask) ==
    /\ pc[t] = "idle" /\ s \notin closed /\ mask \in Masks
    /\ Len(pollQueue) < MaxNotes
    /\ registered' = [registered EXCEPT ![s] = mask]
    /\ Enter(t, s, "g_add")
    /\ UNCHANGED <<dataVars, todo, selectors, selectVars, pollQueue, batch, overlooked,
                   socketVars>>

AddPoll(t) ==
    /\ pc[t] = "g_add"
    /\ selectors' = [selectors EXCEPT ![at[t]] = @ \cup {Poll}]
    /\ Goto(t, "g_put")
    /\ UNCHANGED <<dataVars, at, cont, todo, selectVars, pollVars, socketVars>>

NotifyFirst(t) ==
    /\ pc[t] = "g_put"
    /\ pollQueue' = Append(pollQueue, Note(at[t], FALSE))
    /\ overlooked' = overlooked \ {at[t]}
    /\ At(t, NoSocket) /\ Goto(t, "idle")
    /\ UNCHANGED <<dataVars, cont, todo, selectors, selectVars, registered, batch,
                   socketVars>>

\* poll.modify changes the mask and notifies nobody.
Modify(t, s, mask) ==
    /\ pc[t] = "idle" /\ registered[s] # {} /\ mask \in Masks \ {registered[s]}
    /\ s \notin closed
    /\ registered' = [registered EXCEPT ![s] = mask]
    /\ overlooked' = IF mask \subseteq registered[s] THEN overlooked ELSE overlooked \cup {s}
    /\ UNCHANGED <<dataVars, threadVars, todo, selectors, selectVars, pollQueue, batch,
                   socketVars>>

\* poll.unregister: the mask, and then the selector.
CallUnregister(t, s) ==
    /\ pc[t] = "idle" /\ registered[s] # {} /\ s \notin closed
    /\ registered' = [registered EXCEPT ![s] = {}] /\ overlooked' = overlooked \ {s}
    /\ At(t, s) /\ Goto(t, "g_drop")
    /\ UNCHANGED <<dataVars, cont, todo, selectors, selectVars, pollQueue, batch, socketVars>>

RemovePoll(t) ==
    /\ pc[t] = "g_drop"
    /\ selectors' = IF at[t] \in closed THEN selectors
                    ELSE [selectors EXCEPT ![at[t]] = @ \ {Poll}]
    /\ At(t, NoSocket) /\ Goto(t, "idle")
    /\ UNCHANGED <<dataVars, cont, todo, selectVars, pollVars, socketVars>>

\* poll.poll(timeout)
CallPoll(t) ==
    /\ pc[t] = "idle"
    /\ \E b \in BOOLEAN : timed' = [timed EXCEPT ![t] = b]
    /\ Goto(t, "p_take")
    /\ UNCHANGED <<dataVars, at, cont, todo, selectors, cv, watch, left, ready, unseen,
                   pollVars, socketVars>>

LeavePoll(t) ==
    /\ Goto(t, "idle")
    /\ ready' = [ready EXCEPT ![t] = {}] /\ timed' = [timed EXCEPT ![t] = FALSE]
    /\ UNCHANGED <<at, cont, cv, watch, left, unseen>>

\* take() or poll(), and drainTo()
TakeNotifications(t) ==
    /\ pc[t] = "p_take" /\ pollQueue # <<>>
    /\ batch' = [batch EXCEPT ![t] = pollQueue] /\ pollQueue' = <<>>
    /\ Goto(t, "p_test")
    /\ UNCHANGED <<dataVars, at, cont, todo, selectors, selectVars, registered, overlooked,
                   socketVars>>

PollExpires(t) ==
    /\ pc[t] = "p_take" /\ pollQueue = <<>> /\ timed[t]
    /\ LeavePoll(t)
    /\ UNCHANGED <<dataVars, todo, selectors, pollVars, socketVars>>

\* _event_test
Events(note) == {e \in registered[note.sock] : IF e = "in" THEN Readable(note.sock)
                                                           ELSE note.hangup}

\* One notification after the other; no more are looked at for a socket with an event.
TestNotification(t) ==
    /\ pc[t] = "p_test"
    /\ LET note == Head(batch[t])
           s == note.sock
           found == s \notin ready[t] /\ Events(note) # {}
           missed == s \notin ready[t] /\ "in" \in registered[s] /\ Overlooks(s)
       IN /\ s \notin ready[t] /\ "in" \in registered[s] => ~MustRaise(s)
          /\ ready' = [ready EXCEPT ![t] = IF found THEN @ \cup {s} ELSE @]
          /\ overlooked' = IF found THEN overlooked \ {s}
                           ELSE IF missed THEN overlooked \cup {s} ELSE overlooked
          /\ batch' = [batch EXCEPT ![t] = Tail(@)]
          /\ Goto(t, IF Len(batch[t]) = 1 THEN "p_repump" ELSE "p_test")
    /\ UNCHANGED <<dataVars, at, cont, todo, selectors, cv, watch, left, timed, unseen,
                   pollQueue, registered, socketVars>>

\* _readable() raises, and so does poll(): the notifications it has taken are lost.
PollRaises(t) ==
    /\ pc[t] = "p_test"
    /\ LET s == Head(batch[t]).sock
       IN s \notin ready[t] /\ "in" \in registered[s] /\ MayRaise(s)
    /\ overlooked' = overlooked \cup ready[t] \cup {batch[t][i].sock : i \in DOMAIN batch[t]}
    /\ batch' = [batch EXCEPT ![t] = <<>>]
    /\ LeavePoll(t)
    /\ UNCHANGED <<dataVars, todo, selectors, pollQueue, registered, socketVars>>

\* Mutant of Repump: nothing is put back.
RepumpNothing(t) ==
    /\ pc[t] = "p_repump"
    /\ LeavePoll(t)
    /\ UNCHANGED <<dataVars, todo, selectors, pollVars, socketVars>>

\* "Repump sockets to pick up a subsequent level change", and return; poll() without a
\* timeout returns even if there was no event, with a timeout it tries again.
Repump(t) ==
    /\ pc[t] = "p_repump"
    /\ pollQueue' = pollQueue \o SetToSeq({Note(s, FALSE) : s \in ready[t]})
    /\ \/ LeavePoll(t)
       \/ /\ ready[t] = {} /\ timed[t] /\ Goto(t, "p_take")
          /\ UNCHANGED <<at, cont, selectVars>>
    /\ UNCHANGED <<dataVars, todo, selectors, registered, batch, overlooked, socketVars>>
------------------------------------------------------------------------------
Notifying(t) == Snapshot(t) \/ NotifySelect(t) \/ NotifyPoll(t) \/ Notified(t)

Selecting(t) == \/ RegisterNext(t) \/ AddSelector(t) \/ TestSocket(t) \/ TestRaises(t)
                \/ Decide(t) \/ Wait(t) \/ WakeUp(t) \/ Unregister(t)

Polling(t) == \/ AddPoll(t) \/ NotifyFirst(t) \/ RemovePoll(t) \/ TakeNotifications(t)
              \/ TestNotification(t) \/ PollRaises(t) \/ Repump(t)

\* Some thread is on its way to notify selector x about socket s.
Informing(s, x) ==
    \E t \in Threads : /\ at[t] = s
                       /\ \/ pc[t] = "snapshot"
                          \/ pc[t] = "notify" /\ x \in todo[t]

\* A wake-up is never lost: when a select sleeps although a socket it watches can be
\* read, the thread that made it so has still to notify it.  A selector is added before
\* the sockets are tested, and a socket is filled before its selectors are notified.  (It
\* is lost when select looks just while recv() of another thread has a message in hand,
\* and leaves a part of it: see unseen.)
NoLostNotification ==
    \A t \in Users : pc[t] = "s_wait" =>
        \A s \in watch[t] \ unseen[t] : Readable(s) => Informing(s, t)

\* The poll object does not forget a socket that can be read: a notification of it is in
\* the queue or on its way there, or will be repeated when it has been reported.  This
\* is what makes poll report levels.  (It forgets one in three ways, see overlooked:
\* modify() adds to its mask; it looks while recv() has a message in hand; _readable()
\* raises.  And unregister() may take the selector that another thread's register() of
\* the same socket has just added.)
PollNotForgotten ==
    \A s \in Sockets \ (overlooked \cup closed) :
        /\ "in" \in registered[s] /\ Poll \in selectors[s] /\ Readable(s)
        => \/ \E i \in DOMAIN pollQueue : pollQueue[i].sock = s
           \/ Informing(s, Poll)
           \/ \E t \in Users : \/ at[t] = s /\ pc[t] \in {"g_add", "g_put"}
                               \/ at[t] = s /\ pc[t] = "activate" /\ cont[t] = "g_add"
                               \/ \E i \in DOMAIN batch[t] : batch[t][i].sock = s
                               \/ pc[t] \in {"p_test", "p_repump"} /\ s \in ready[t]
==============================================================================
