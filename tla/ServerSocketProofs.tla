-------------------------- MODULE ServerSocketProofs --------------------------
(***************************************************************************)
(* Where the threads that use a listening socket and its connections can   *)
(* be, and what select(), poll() and recv() can rely on, for any number of *)
(* threads and connections, messages and backlog.                          *)
(***************************************************************************)
EXTENDS ServerSocket, FiniteSetTheorems, FunctionTheorems, SequenceTheorems, TLAPS
------------------------------------------------------------------------------
\* Event loops, workers and the finalizer are different threads, and none is a user.
LEMMA ThreadFacts ==
  /\ \A s \in Sockets : Loop(s) \in Threads \ Users
  /\ \A c \in Children : Worker(c) \in Threads \ Users
  /\ Finalizer \in Threads \ Users
  /\ \A s, r \in Sockets : Loop(s) = Loop(r) => s = r
  /\ \A c, d \in Children : Worker(c) = Worker(d) => c = d
  /\ \A s \in Sockets, c \in Children : Loop(s) # Worker(c)
  /\ \A s \in Sockets : Loop(s) # Finalizer
  /\ \A c \in Children : Worker(c) # Finalizer
<1>1. \A s \in Sockets : Loop(s) \in Service
  BY DEF Service
<1>2. \A c \in Children : Worker(c) \in Service
  BY DEF Service
<1>3. Finalizer \in Service
  BY DEF Service
<1>4. Service \subseteq Threads \ Users
  BY SelectorsAssumption DEF Threads
<1>5. \A s, r \in Sockets : Loop(s) = Loop(r) => s = r
  BY DEF Loop
<1>6. \A c, d \in Children : Worker(c) = Worker(d) => c = d
  BY DEF Worker
<1>7. \A s \in Sockets, c \in Children : Loop(s) # Worker(c)
  BY DEF Loop, Worker
<1>8. \A s \in Sockets : Loop(s) # Finalizer
  BY DEF Loop, Finalizer
<1>9. \A c \in Children : Worker(c) # Finalizer
  BY DEF Worker, Finalizer
<1>10. QED
  BY <1>1, <1>2, <1>3, <1>4, <1>5, <1>6, <1>7, <1>8, <1>9

\* Where each kind of thread can be, what it works on, and where it goes on
UserPlace(t) ==
  /\ pc[t] \in {"idle", "activate", "s_register", "s_add", "s_test", "s_decide", "s_wait",
                "s_woken", "s_unregister", "g_add", "g_put", "g_drop", "p_take", "p_test",
                "p_repump", "a_take", "a_count", "r_take", "r_store", "r_load", "r_read",
                "r_release", "r_reset", "r_eof", "k_close", "k_count"}
  /\ pc[t] = "activate" => cont[t] \in {"s_add", "g_add", "r_take", "k_close"}
  /\ pc[t] \in {"s_add", "g_add", "g_put", "g_drop"} => at[t] \in Sockets
  /\ pc[t] \in {"activate", "a_count", "r_take", "r_store", "r_load", "r_read", "r_release",
                "r_reset", "r_eof", "k_close", "k_count"} => at[t] \in Children
  /\ pc[t] = "p_test" => batch[t] # <<>>

ChildPlace(c) ==
  /\ pc[Loop(c)] \in {"idle", "i_lock", "i_wait", "i_woken", "loop", "snapshot", "notify",
                      "closed", "d_release", "d_reset", "d_drain"}
  /\ pc[Loop(c)] # "idle" => at[Loop(c)] = c
  /\ pc[Loop(c)] \in {"snapshot", "notify"} => cont[Loop(c)] \in {"loop", "closed"}

WorkerPlace(c) ==
  /\ pc[Worker(c)] \in {"idle", "w_lock", "w_put", "snapshot", "notify", "w_exit"}
  /\ pc[Worker(c)] # "idle" => at[Worker(c)] = Server
  /\ pc[Worker(c)] \in {"snapshot", "notify"} => cont[Worker(c)] = "w_exit"

ServerPlace ==
  /\ pc[Loop(Server)] \in {"loop", "f_write", "f_poll", "activate", "f_close", "closed"}
  /\ pc[Loop(Server)] = "activate" => cont[Loop(Server)] = "f_close"
  /\ pc[Loop(Server)] \in {"activate", "f_close"} => at[Loop(Server)] \in Children

FinalizerPlace ==
  /\ pc[Finalizer] \in {"idle", "activate", "k_close", "k_count"}
  /\ pc[Finalizer] = "activate" => cont[Finalizer] = "k_close"
  /\ pc[Finalizer] # "idle" => at[Finalizer] \in Children

Places ==
  /\ \A t \in Users : UserPlace(t)
  /\ \A c \in Children : ChildPlace(c) /\ WorkerPlace(c)
  /\ ServerPlace /\ FinalizerPlace

\* A thread stays where it is, but that it may be woken up.
Stays(u) ==
  /\ \/ pc'[u] = pc[u]
     \/ pc[u] = "s_wait" /\ pc'[u] = "s_woken"
     \/ pc[u] = "i_wait" /\ pc'[u] = "i_woken"
  /\ cont'[u] = cont[u] /\ at'[u] = at[u]
  /\ u \in Users => batch'[u] = batch[u]

LEMMA UserStays ==
  ASSUME NEW t \in Users, UserPlace(t), Stays(t) PROVE UserPlace(t)'
  BY DEF UserPlace, Stays

LEMMA ServiceStays ==
  /\ \A c \in Children : ChildPlace(c) /\ Stays(Loop(c)) => ChildPlace(c)'
  /\ \A c \in Children : WorkerPlace(c) /\ Stays(Worker(c)) => WorkerPlace(c)'
  /\ ServerPlace /\ Stays(Loop(Server)) => ServerPlace'
  /\ FinalizerPlace /\ Stays(Finalizer) => FinalizerPlace'
  BY DEF ChildPlace, WorkerPlace, ServerPlace, FinalizerPlace, Stays

LEMMA SocketFacts == /\ Server \in Sockets /\ Server \notin Children
                     /\ \A c \in Children : c \in Sockets /\ c # Server
                     /\ \A t \in Users : t \in Threads
  BY RealSocketAssumption DEF Sockets, Threads

LEMMA UserActs ==
  ASSUME Places, NEW t \in Users, \A u \in Threads \ {t} : Stays(u), UserPlace(t)'
  PROVE  Places'
<1>1. \A u \in Threads \ Users : Stays(u)
  OBVIOUS
<1>2. QED
  BY <1>1, UserStays, ServiceStays, ThreadFacts, SocketFacts DEF Places

LEMMA LoopActs ==
  ASSUME Places, NEW c \in Children, \A u \in Threads \ {Loop(c)} : Stays(u), ChildPlace(c)'
  PROVE  Places'
<1>1. \A u \in Users : Stays(u)
  BY ThreadFacts, SocketFacts
<1>2. \A d \in Children : Stays(Worker(d)) /\ (d # c => Stays(Loop(d)))
  BY ThreadFacts, SocketFacts
<1>3. Stays(Loop(Server)) /\ Stays(Finalizer)
  BY ThreadFacts, SocketFacts
<1>4. QED
  BY <1>1, <1>2, <1>3, UserStays, ServiceStays DEF Places

LEMMA WorkerActs ==
  ASSUME Places, NEW c \in Children, \A u \in Threads \ {Worker(c)} : Stays(u), WorkerPlace(c)'
  PROVE  Places'
<1>1. \A u \in Users : Stays(u)
  BY ThreadFacts, SocketFacts
<1>2. \A d \in Children : Stays(Loop(d)) /\ (d # c => Stays(Worker(d)))
  BY ThreadFacts, SocketFacts
<1>3. Stays(Loop(Server)) /\ Stays(Finalizer)
  BY ThreadFacts, SocketFacts
<1>4. QED
  BY <1>1, <1>2, <1>3, UserStays, ServiceStays DEF Places

LEMMA ServerActs ==
  ASSUME Places, \A u \in Threads \ {Loop(Server)} : Stays(u), ServerPlace'
  PROVE  Places'
<1>1. \A u \in Users : Stays(u)
  BY ThreadFacts, SocketFacts
<1>2. \A d \in Children : Stays(Loop(d)) /\ Stays(Worker(d))
  BY ThreadFacts, SocketFacts
<1>3. Stays(Finalizer)
  BY ThreadFacts, SocketFacts
<1>4. QED
  BY <1>1, <1>2, <1>3, UserStays, ServiceStays DEF Places

LEMMA FinalizerActs ==
  ASSUME Places, \A u \in Threads \ {Finalizer} : Stays(u), FinalizerPlace'
  PROVE  Places'
<1>1. \A u \in Users : Stays(u)
  BY ThreadFacts, SocketFacts
<1>2. \A d \in Children : Stays(Loop(d)) /\ Stays(Worker(d))
  BY ThreadFacts, SocketFacts
<1>3. Stays(Loop(Server))
  BY ThreadFacts, SocketFacts
<1>4. QED
  BY <1>1, <1>2, <1>3, UserStays, ServiceStays DEF Places

\* The part of TypeOK that the places of threads rest on
ThreadsOK ==
  /\ pc \in [Threads -> Labels] /\ cont \in [Threads -> Labels]
  /\ at \in [Threads -> Sockets \cup {NoSocket}]
  /\ batch \in [Users -> Seq(Notes)] /\ pollQueue \in Seq(Notes)
  /\ childQueue \in Seq(Children) /\ accepted \subseteq Children
  /\ left \in [Users -> SUBSET Sockets]
  /\ head \in [Children -> Messages \cup {PeerClosed, NoMessage}]

LEMMA TypeThreads == TypeOK => ThreadsOK
  BY DEF TypeOK, ThreadsOK, SelectorsTypeOK, DataTypeOK

\* What a step of recv() may change, ...
RecvLabels == {"r_store", "r_load", "r_read", "r_release", "r_reset", "r_eof"}

ReadOp(c) ==
  \/ UNCHANGED dataVars \/ Take(c) \/ Store(c) \/ Load(c) \/ ReadEof(c) \/ EndRead(c)
  \/ FailRead(c) \/ Release(c, msg[c]) \/ \E n \in 1 .. MsgSize : ReadBytes(c, n)

Receives(t) ==
  /\ pc[t] \in {"r_take", "r_store", "r_load", "r_read", "r_release", "r_reset", "r_eof"}
  /\ UNCHANGED recvVars /\ torn' \in {torn, torn \cup {at[t]}}
  /\ \/ Return(t)
     \/ UNCHANGED <<at, timed>> /\ \E l \in RecvLabels : Goto(t, l)

LEMMA RecvFrame ==
  ASSUME ThreadsOK, Places, NEW t \in Users, Receiving(t)
  PROVE  Receives(t) /\ ReadOp(at[t]) /\ at[t] \in Children
<1>0. /\ pc[t] \in {"r_take", "r_store", "r_load", "r_read", "r_release", "r_reset", "r_eof"}
      /\ at[t] \in Children
  <2>1. pc[t] \in {"r_take", "r_store", "r_load", "r_read", "r_release", "r_reset", "r_eof"}
    BY DEF Receiving, TakeMessage, StoreMessage, LoadMessage, Eof, ReadMessage, ReleaseMessage,
           ResetMessage, RecvFails, RecvNothing
  <2>2. QED
    BY <2>1 DEF Places, UserPlace
<1>1. CASE TakeMessage(t)
  BY <1>0, <1>1 DEF TakeMessage, Receives, ReadOp, RecvLabels
<1>2. CASE StoreMessage(t)
  BY <1>0, <1>2 DEF StoreMessage, Receives, ReadOp, RecvLabels
<1>3. CASE LoadMessage(t)
  <2>1. head[at[t]] = NoMessage \/ head[at[t]] = PeerClosed \/ head[at[t]] \in Messages
    BY <1>0 DEF ThreadsOK
  <2>2. \/ Return(t)
        \/ Goto(t, "r_eof") /\ UNCHANGED <<at, timed>>
        \/ Goto(t, "r_read") /\ UNCHANGED <<at, timed>>
    BY <1>3, <2>1 DEF LoadMessage, PeerClosed, NoMessage, Messages
  <2>3. QED
    BY <1>0, <1>3, <2>2 DEF LoadMessage, Receives, ReadOp, RecvLabels
<1>4. CASE Eof(t)
  BY <1>0, <1>4 DEF Eof, Receives, ReadOp
<1>5. CASE ReadMessage(t)
  BY <1>0, <1>5 DEF ReadMessage, Receives, ReadOp, RecvLabels
<1>6. CASE ReleaseMessage(t)
  BY <1>0, <1>6 DEF ReleaseMessage, Receives, ReadOp, RecvLabels
<1>7. CASE ResetMessage(t)
  BY <1>0, <1>7 DEF ResetMessage, Receives, ReadOp
<1>8. CASE RecvFails(t)
  BY <1>0, <1>8 DEF RecvFails, Receives, ReadOp
<1>9. CASE RecvNothing(t)
  BY <1>0, <1>9 DEF RecvNothing, Receives, ReadOp
<1>10. QED
  BY <1>1, <1>2, <1>3, <1>4, <1>5, <1>6, <1>7, <1>8, <1>9 DEF Receiving

\* ... and of _finish_closing of a child
FinishOp(c) == UNCHANGED dataVars \/ Release(c, head[c]) \/ Reset(c) \/ Drain(c)

Disposes(c) ==
  /\ pc[Loop(c)] \in {"closed", "d_release", "d_reset", "d_drain"}
  /\ \E l \in {"closed", "d_release", "d_reset", "d_drain"} : Goto(Loop(c), l)
  /\ finished' \in {finished, finished \cup {c}} /\ torn' \in {torn, torn \cup {c}}
  /\ UNCHANGED <<at, cont, todo, selectors, selectVars, pollVars, socketVars, countVars,
                 closing, parentDown, childrenDown>>

LEMMA FinishFrame ==
  ASSUME NEW c \in Children, Finish(c) PROVE Disposes(c) /\ FinishOp(c)
<1>1. CASE BeginFinish(c)
  BY <1>1 DEF BeginFinish, Disposes, FinishOp, Goto
<1>2. CASE ReleaseHead(c)
  BY <1>2 DEF ReleaseHead, Disposes, FinishOp, closeVars
<1>3. CASE ReleaseFails(c)
  BY <1>3 DEF ReleaseFails, Disposes, FinishOp
<1>4. CASE ResetHead(c)
  BY <1>4 DEF ResetHead, Disposes, FinishOp, closeVars
<1>5. CASE DrainQueue(c)
  BY <1>5 DEF DrainQueue, Disposes, FinishOp
<1>6. QED
  BY <1>1, <1>2, <1>3, <1>4, <1>5 DEF Finish

LEMMA TailNonempty ==
  ASSUME NEW S, NEW q \in Seq(S), q # <<>>, Len(q) # 1 PROVE Tail(q) # <<>>
<1>1. Len(q) # 0
  OBVIOUS
<1>2. Len(Tail(q)) = Len(q) - 1
  OBVIOUS
<1>3. Len(q) \in Nat
  OBVIOUS
<1>4. Len(Tail(q)) # 0
  BY <1>1, <1>2, <1>3
<1>5. Len(<<>>) = 0
  OBVIOUS
<1>6. QED
  BY <1>4, <1>5, Zenon

\* What a thread of the program does keeps its place, and leaves the others where they are.
LEMMA UserPlaces ==
  ASSUME ThreadsOK, Places, NEW t \in Users,
         Call(t) \/ Running(t) \/ Expiring(t) \/ Activating(t)
  PROVE  UserPlace(t)' /\ \A u \in Threads \ {t} : Stays(u)
<1> DEFINE P == UserPlace(t)' /\ \A u \in Threads \ {t} : Stays(u)
<1> USE SocketFacts DEF Goto, At, Stays, pollVars, selectVars, threadVars, ThreadsOK, UserPlace,
        Places
<1>1. ASSUME NEW S, CallSelect(t, S) PROVE P
  BY <1>1 DEF CallSelect
<1>2. ASSUME NEW s \in Sockets, NEW m, CallRegister(t, s, m) PROVE P
  BY <1>2 DEF CallRegister, Enter, Sockets
<1>3. ASSUME NEW s \in Sockets, NEW m, Modify(t, s, m) \/ CallUnregister(t, s) PROVE P
  BY <1>3 DEF Modify, CallUnregister
<1>4. ASSUME CallPoll(t) \/ CallAccept(t) \/ CloseServer(t) PROVE P
  BY <1>4 DEF CallPoll, CallAccept, CloseServer
<1>5. ASSUME NEW c \in Children, CallRecv(t, c) \/ CallClose(t, c) PROVE P
  BY <1>5 DEF CallRecv, CallClose, Enter
<1>6. ASSUME RegisterNext(t) PROVE P
  BY <1>6 DEF RegisterNext, Enter, Sockets
<1>7. ASSUME AddSelector(t) PROVE P
  BY <1>7 DEF AddSelector
<1>8. ASSUME TestSocket(t) \/ TestRaises(t) \/ Unregister(t) PROVE P
  BY <1>8 DEF TestSocket, TestRaises, Unregister, LeaveSelect
<1>9. ASSUME Decide(t) \/ Wait(t) \/ WakeUp(t) \/ Expire(t) PROVE P
  BY <1>9 DEF Decide, Wait, WakeUp, Expire
<1>10. ASSUME AddPoll(t) \/ NotifyFirst(t) \/ RemovePoll(t) PROVE P
  BY <1>10 DEF AddPoll, NotifyFirst, RemovePoll
<1>11. ASSUME TakeNotifications(t) \/ PollExpires(t) PROVE P
  BY <1>11 DEF TakeNotifications, PollExpires, LeavePoll
<1>12. ASSUME TestNotification(t) \/ PollRaises(t) PROVE P
  <2>1. CASE TestNotification(t)
    BY <2>1, TailNonempty DEF TestNotification
  <2>2. CASE PollRaises(t)
    BY <2>2 DEF PollRaises, LeavePoll
  <2>3. QED
    BY <1>12, <2>1, <2>2
<1>13. ASSUME Repump(t) PROVE P
  BY <1>13 DEF Repump, LeavePoll
<1>14. ASSUME TakeChild(t) PROVE P
  BY <1>14 DEF TakeChild, Dequeue
<1>15. ASSUME NoChild(t) \/ CountChild(t) \/ Receiving(t) PROVE P
  <2>1. CASE NoChild(t) \/ CountChild(t)
    BY <2>1 DEF NoChild, CountChild, Return
  <2>2. CASE Receiving(t)
    <3>1. Receives(t) /\ at[t] \in Children
      BY <2>2, RecvFrame
    <3>2. CASE Return(t)
      BY <3>1, <3>2 DEF Receives, recvVars, Return
    <3>3. ASSUME NEW l \in RecvLabels, Goto(t, l), UNCHANGED <<at, timed>> PROVE P
      BY <3>1, <3>3 DEF Receives, recvVars, RecvLabels
    <3>4. QED
      BY <3>1, <3>2, <3>3 DEF Receives
  <2>3. QED
    BY <1>15, <2>1, <2>2
<1>16. ASSUME CloseChild(t) \/ UncountChild(t) PROVE P
  BY <1>16 DEF CloseChild, UncountChild
<1>17. ASSUME MakeActive(t) PROVE P
  <2>1. /\ at[t] \in Children /\ cont[t] \in {"s_add", "g_add", "r_take", "k_close"}
        /\ Loop(at[t]) \in Threads /\ Loop(at[t]) # t
    BY <1>17, ThreadFacts DEF MakeActive
  <2>2. CASE activated[at[t]]
    BY <1>17, <2>1, <2>2 DEF MakeActive
  <2>3. CASE ~activated[at[t]]
    BY <1>17, <2>1, <2>3 DEF MakeActive
  <2>4. QED
    BY <2>2, <2>3
<1> HIDE DEF P, UserPlace, Goto, At, Stays, pollVars, selectVars, threadVars
<1>18. ASSUME Call(t) PROVE P
  <2>1. \A s \in accepted \cup {Server} : s \in Sockets
    OBVIOUS
  <2>2. QED
    BY <1>1, <1>2, <1>3, <1>4, <1>5, <1>18, <2>1 DEF Call
<1>19. ASSUME Running(t) PROVE P
  BY <1>6, <1>7, <1>8, <1>9, <1>10, <1>11, <1>12, <1>13, <1>14, <1>15, <1>16, <1>19
  DEF Running, Selecting, Polling, Accepting, Closing
<1>20. QED
  BY <1>9, <1>11, <1>17, <1>18, <1>19 DEF Expiring, Activating, P

LEMMA LoopPlaces ==
  ASSUME ThreadsOK, Places, NEW c \in Children,
         \/ Connect(c) \/ SubmitRejected(c) \/ Activated(c) \/ ReadChannel(c) \/ CloseChannel(c)
         \/ Finish(c) \/ Notifies(Loop(c))
  PROVE  ChildPlace(c)' /\ \A u \in Threads \ {Loop(c)} : Stays(u)
<1>1. /\ Loop(c) \in Threads /\ c \in Sockets /\ ChildPlace(c)
      /\ Users \subseteq Threads \ {Loop(c)}
  BY ThreadFacts, SocketFacts DEF Places
<1> USE <1>1 DEF Goto, At, Stays, pollVars, selectVars, threadVars, ThreadsOK, ChildPlace
<1>2. CASE Connect(c) \/ SubmitRejected(c) \/ Activated(c)
  BY <1>2 DEF Connect, SubmitRejected, Activated
<1>3. CASE ReadChannel(c) \/ CloseChannel(c)
  BY <1>3 DEF ReadChannel, CloseChannel, NotifyThen
<1>8. CASE Finish(c)
  BY <1>8, FinishFrame DEF Disposes
<1>4. CASE Snapshot(Loop(c)) \/ Notified(Loop(c))
  BY <1>4 DEF Snapshot, Notified
<1>5. CASE NotifyPoll(Loop(c))
  BY <1>5 DEF NotifyPoll
<1>6. CASE NotifySelect(Loop(c))
  BY <1>6 DEF NotifySelect
<1>7. QED
  BY <1>2, <1>3, <1>4, <1>5, <1>6, <1>8 DEF Notifies, Notifying

LEMMA WorkerPlaces ==
  ASSUME ThreadsOK, Places, NEW c \in Children,
         LockChild(c) \/ QueueChild(c) \/ UnlockChild(c) \/ Notifies(Worker(c))
  PROVE  WorkerPlace(c)' /\ \A u \in Threads \ {Worker(c)} : Stays(u)
<1>1. /\ Worker(c) \in Threads /\ Server \in Sockets /\ WorkerPlace(c)
      /\ Users \subseteq Threads \ {Worker(c)}
  BY ThreadFacts, SocketFacts DEF Places
<1> USE <1>1 DEF Goto, At, Stays, pollVars, selectVars, threadVars, ThreadsOK, WorkerPlace
<1>2. CASE LockChild(c) \/ UnlockChild(c)
  BY <1>2 DEF LockChild, UnlockChild
<1>3. CASE QueueChild(c)
  BY <1>3 DEF QueueChild
<1>4. CASE Snapshot(Worker(c)) \/ Notified(Worker(c))
  BY <1>4 DEF Snapshot, Notified
<1>5. CASE NotifyPoll(Worker(c))
  BY <1>5 DEF NotifyPoll
<1>6. CASE NotifySelect(Worker(c))
  BY <1>6 DEF NotifySelect
<1>7. QED
  BY <1>2, <1>3, <1>4, <1>5, <1>6 DEF Notifies, Notifying

LEMMA SubmitPlaces == ASSUME ThreadsOK, Places, NEW c \in Children, Submit(c) PROVE Places'
<1>1. /\ Loop(c) \in Threads /\ Worker(c) \in Threads /\ Loop(c) # Worker(c)
      /\ Server \in Sockets
  BY ThreadFacts, SocketFacts
<1>2. \A u \in Threads \ {Loop(c), Worker(c)} : Stays(u)
  BY <1>1 DEF Submit, Stays, At, Goto, ThreadsOK, pollVars
<1>3. ChildPlace(c)' /\ WorkerPlace(c)'
  BY <1>1 DEF Places, ChildPlace, WorkerPlace, Submit, At, ThreadsOK
<1>4. \A u \in Users : Stays(u)
  BY <1>2, ThreadFacts, SocketFacts
<1>5. \A d \in Children \ {c} : Stays(Loop(d)) /\ Stays(Worker(d))
  BY <1>2, ThreadFacts, SocketFacts
<1>6. Stays(Loop(Server)) /\ Stays(Finalizer)
  BY <1>2, ThreadFacts, SocketFacts
<1>7. QED
  BY <1>3, <1>4, <1>5, <1>6, UserStays, ServiceStays DEF Places

LEMMA ServerPlaces ==
  ASSUME ThreadsOK, Places, Stopping \/ Activating(Loop(Server))
  PROVE  ServerPlace' /\ \A u \in Threads \ {Loop(Server)} : Stays(u)
<1>1. /\ Loop(Server) \in Threads /\ ServerPlace
      /\ Users \subseteq Threads \ {Loop(Server)}
  BY ThreadFacts, SocketFacts DEF Places
<1> USE <1>1 DEF Goto, At, Stays, pollVars, selectVars, threadVars, ThreadsOK, ServerPlace
<1>2. CASE ShutDownParent \/ UncountParent \/ CloseLeftover
  BY <1>2 DEF ShutDownParent, UncountParent, CloseLeftover
<1>3. CASE PollLeftover
  BY <1>3, SocketFacts DEF PollLeftover, Dequeue, Enter
<1>4. CASE Activating(Loop(Server))
  <2>1. /\ at[Loop(Server)] \in Children /\ cont[Loop(Server)] = "f_close"
        /\ Loop(at[Loop(Server)]) \in Threads /\ Loop(at[Loop(Server)]) # Loop(Server)
    BY <1>4, ThreadFacts, SocketFacts DEF Activating, MakeActive
  <2>2. CASE activated[at[Loop(Server)]]
    BY <1>4, <2>1, <2>2 DEF Activating, MakeActive
  <2>3. CASE ~activated[at[Loop(Server)]]
    BY <1>4, <2>1, <2>3 DEF Activating, MakeActive
  <2>4. QED
    BY <2>2, <2>3
<1>5. QED
  BY <1>2, <1>3, <1>4 DEF Stopping

LEMMA FinalizerPlaces ==
  ASSUME ThreadsOK, Places,
         Closing(Finalizer) \/ Activating(Finalizer) \/ \E c \in Children : Collect(c)
  PROVE  FinalizerPlace' /\ \A u \in Threads \ {Finalizer} : Stays(u)
<1>1. /\ Finalizer \in Threads /\ FinalizerPlace
      /\ Users \subseteq Threads \ {Finalizer}
  BY ThreadFacts, SocketFacts DEF Places
<1> USE <1>1 DEF Goto, At, Stays, pollVars, selectVars, threadVars, ThreadsOK, FinalizerPlace
<1>2. CASE Closing(Finalizer)
  BY <1>2 DEF Closing, CloseChild, UncountChild
<1>3. ASSUME NEW c \in Children, Collect(c)
      PROVE  FinalizerPlace' /\ \A u \in Threads \ {Finalizer} : Stays(u)
  BY <1>3, SocketFacts DEF Collect, Enter
<1>4. CASE Activating(Finalizer)
  <2>1. /\ at[Finalizer] \in Children /\ cont[Finalizer] = "k_close"
        /\ Loop(at[Finalizer]) \in Threads /\ Loop(at[Finalizer]) # Finalizer
    BY <1>4, ThreadFacts, SocketFacts DEF Activating, MakeActive
  <2>2. CASE activated[at[Finalizer]]
    BY <1>4, <2>1, <2>2 DEF Activating, MakeActive
  <2>3. CASE ~activated[at[Finalizer]]
    BY <1>4, <2>1, <2>3 DEF Activating, MakeActive
  <2>4. QED
    BY <2>2, <2>3
<1>5. QED
  BY <1>2, <1>3, <1>4

\* Only the event loop of a child and the thread that queues it notify; event loops of
\* children and these threads do not call _make_active.
LEMMA Actors ==
  ASSUME Places, NEW t \in Threads
  PROVE  /\ Notifies(t) => \E c \in Children : t = Loop(c) \/ t = Worker(c)
         /\ Activating(t) => t \in Users \cup {Loop(Server), Finalizer}
<1>1. \/ t \in Users \cup {Loop(Server), Finalizer}
      \/ \E c \in Children : t = Loop(c) \/ t = Worker(c)
  BY DEF Threads, Service, Sockets
<1>2. CASE t \in Users
  BY <1>2 DEF Places, UserPlace, Notifies, Notifying, Snapshot, NotifySelect, NotifyPoll, Notified
<1>3. CASE t \in {Loop(Server), Finalizer}
  BY <1>3 DEF Places, ServerPlace, FinalizerPlace, Notifies, Notifying, Snapshot, NotifySelect,
              NotifyPoll, Notified
<1>4. CASE \E c \in Children : t = Loop(c) \/ t = Worker(c)
  BY <1>4 DEF Places, ChildPlace, WorkerPlace, Activating, MakeActive
<1>5. QED
  BY <1>1, <1>2, <1>3, <1>4

LEMMA NotifierAt ==
  ASSUME Places, NEW t \in Threads, Notifies(t) PROVE at[t] \in Sockets
  BY SocketFacts, Actors DEF Places, ChildPlace, WorkerPlace, Notifies, Notifying,
     Snapshot, NotifySelect, NotifyPoll, Notified

LEMMA PlacesNext == ThreadsOK /\ Places /\ [Next]_vars => Places'
<1> SUFFICES ASSUME ThreadsOK, Places, [Next]_vars PROVE Places'
  OBVIOUS
<1>1. ASSUME NEW t \in Users, Call(t) \/ Running(t) \/ Expiring(t) \/ Activating(t)
      PROVE  Places'
  BY <1>1, UserPlaces, UserActs
<1>2. ASSUME NEW c \in Children,
             \/ Connect(c) \/ SubmitRejected(c) \/ Activated(c) \/ ReadChannel(c)
             \/ CloseChannel(c) \/ Finish(c) \/ Notifies(Loop(c))
      PROVE  Places'
  BY <1>2, LoopPlaces, LoopActs
<1>3. ASSUME NEW c \in Children,
             LockChild(c) \/ QueueChild(c) \/ UnlockChild(c) \/ Notifies(Worker(c))
      PROVE  Places'
  BY <1>3, WorkerPlaces, WorkerActs
<1>4. ASSUME Stopping \/ Activating(Loop(Server)) PROVE Places'
  BY <1>4, ServerPlaces, ServerActs
<1>5. ASSUME Closing(Finalizer) \/ Activating(Finalizer) \/ \E c \in Children : Collect(c)
      PROVE  Places'
  BY <1>5, FinalizerPlaces, FinalizerActs
<1>6. ASSUME NEW t \in Threads, Notifies(t) \/ Activating(t) PROVE Places'
  BY <1>1, <1>2, <1>3, <1>4, <1>5, <1>6, Actors
<1>7. CASE UNCHANGED vars
  BY <1>7 DEF vars, selectorVars, threadVars, pollVars, Places, UserPlace, ChildPlace,
              WorkerPlace, ServerPlace, FinalizerPlace
<1>8. QED
  BY <1>1, <1>2, <1>3, <1>4, <1>5, <1>6, <1>7, SubmitPlaces DEF Next, Barrier, Queueing
------------------------------------------------------------------------------
LEMMA BytesType ==
  ASSUME NEW m \in Messages
  PROVE  /\ Bytes(m) \in Seq(Messages \X (1 .. MsgSize))
         /\ Len(Bytes(m)) = MsgSize /\ Bytes(m)[1][1] = m
<1>1. MsgSize \in Nat \ {0}
  BY RealSocketAssumption
<1>2. \A i \in 1 .. MsgSize : <<m, i>> \in Messages \X (1 .. MsgSize)
  OBVIOUS
<1>3. QED
  BY <1>1, <1>2 DEF Bytes

\* What readBytes hands out and leaves
LEMMA ReadType ==
  ASSUME DataTypeOK, NEW c \in Children, NEW n \in 1 .. MsgSize, ReadBytes(c, n)
  PROVE  DataTypeOK'
<1> DEFINE B == Messages \X (1 .. MsgSize)
<1> DEFINE k == IF n < Len(rest[c]) THEN n ELSE Len(rest[c])
<1>0. MsgSize \in Nat \ {0}
  BY RealSocketAssumption
<1>1. rest[c] \in Seq(B) /\ got[c] \in Seq(B)
  BY DEF DataTypeOK
<1>2. k \in 0 .. Len(rest[c])
  BY <1>0, <1>1
<1>3. /\ SubSeq(rest[c], 1, k) \in Seq(B)
      /\ SubSeq(rest[c], k + 1, Len(rest[c])) \in Seq(B)
  BY <1>1, <1>2
<1>4. got[c] \o SubSeq(rest[c], 1, k) \in Seq(B)
  BY <1>1, <1>3
<1>5. rest' \in [Children -> Seq(B)] /\ got' \in [Children -> Seq(B)]
  BY <1>3, <1>4 DEF ReadBytes, DataTypeOK
<1>6. msg' \in [Children -> Messages \cup {PeerClosed, NoMessage}]
  BY DEF ReadBytes, DataTypeOK
<1>7. QED
  BY <1>5, <1>6 DEF ReadBytes, DataTypeOK

LEMMA DequeueType == ASSUME DataTypeOK, Dequeue PROVE DataTypeOK'
<1>0. Backlog \in Nat
  BY RealSocketAssumption
<1>1. Tail(childQueue) \in Seq(Children) /\ Len(Tail(childQueue)) = Len(childQueue) - 1
  BY DEF Dequeue, DataTypeOK
<1>2. Len(childQueue) \in Nat /\ Len(childQueue) <= Backlog
  BY DEF DataTypeOK
<1>3. Len(Tail(childQueue)) <= Backlog
  BY <1>0, <1>1, <1>2
<1>4. QED
  BY <1>1, <1>3 DEF Dequeue, DataTypeOK, streamVars

\* Every operation on the data keeps its types.
LEMMA DataOps ==
  ASSUME DataTypeOK, NEW c \in Children
  PROVE  /\ Receive(c) => DataTypeOK'
         /\ ReceiveEof(c) => DataTypeOK'
         /\ ReadOp(c) => DataTypeOK'
         /\ FinishOp(c) => DataTypeOK'
         /\ Enqueue(c) => DataTypeOK'
<1>0. MaxMsgs \in Nat /\ Backlog \in Nat /\ Messages \subseteq Messages \cup {PeerClosed}
  BY RealSocketAssumption
<1>1. Receive(c) => DataTypeOK'
  <2> SUFFICES ASSUME Receive(c) PROVE DataTypeOK'
    OBVIOUS
  <2>1. sent[c] \in 0 .. MaxMsgs /\ sent[c] < MaxMsgs
    BY DEF Receive, DataTypeOK
  <2>2. sent[c] + 1 \in 1 .. MaxMsgs /\ sent[c] + 1 \in 0 .. MaxMsgs
    BY <1>0, <2>1
  <2>3. sent' \in [Children -> 0 .. MaxMsgs]
    BY <2>2 DEF Receive, DataTypeOK
  <2>4. incoming' \in [Children -> Seq(Messages \cup {PeerClosed})]
    BY <2>2 DEF Receive, DataTypeOK, Messages
  <2>5. retained[c] \in [Messages -> Int] /\ sent[c] + 1 \in Messages
    BY <2>2 DEF DataTypeOK, Messages
  <2>6. retained' \in [Children -> [Messages -> Int]]
    BY <2>5 DEF Receive, DataTypeOK
  <2>7. QED
    BY <2>3, <2>4, <2>6 DEF Receive, DataTypeOK
<1>2. ReceiveEof(c) => DataTypeOK'
  BY <1>0 DEF ReceiveEof, DataTypeOK
<1>3. Take(c) => DataTypeOK'
  <2> SUFFICES ASSUME Take(c) PROVE DataTypeOK'
    OBVIOUS
  <2>1. incoming[c] \in Seq(Messages \cup {PeerClosed}) /\ incoming[c] # <<>>
    BY DEF Take, DataTypeOK
  <2>2. /\ Tail(incoming[c]) \in Seq(Messages \cup {PeerClosed})
        /\ Head(incoming[c]) \in Messages \cup {PeerClosed}
    BY <2>1
  <2>3. (IF Head(incoming[c]) = PeerClosed THEN <<>> ELSE Bytes(Head(incoming[c])))
           \in Seq(Messages \X (1 .. MsgSize))
    BY <2>2, BytesType
  <2>4. /\ incoming' \in [Children -> Seq(Messages \cup {PeerClosed})]
        /\ msg' \in [Children -> Messages \cup {PeerClosed, NoMessage}]
    BY <2>2 DEF Take, DataTypeOK
  <2>5. rest' \in [Children -> Seq(Messages \X (1 .. MsgSize))]
    BY <2>3 DEF Take, DataTypeOK
  <2>6. QED
    BY <2>4, <2>5 DEF Take, DataTypeOK
<1>8. Store(c) \/ Load(c) \/ EndRead(c) \/ FailRead(c) \/ Reset(c) => DataTypeOK'
  BY DEF Store, Load, EndRead, FailRead, Reset, DataTypeOK
<1>9. ReadEof(c) => DataTypeOK'
  <2> SUFFICES ASSUME ReadEof(c) PROVE DataTypeOK'
    OBVIOUS
  <2>1. peerClosed' \in [Children -> BOOLEAN]
    BY DEF ReadEof, DataTypeOK
  <2>2. QED
    BY <2>1 DEF ReadEof, DataTypeOK
<1>10. ASSUME NEW m, Release(c, m) PROVE DataTypeOK'
  <2>1. retained[c] \in [Messages -> Int]
    BY DEF DataTypeOK
  <2>2. [retained[c] EXCEPT ![m] = @ - 1] \in [Messages -> Int]
    <3>1. CASE m \in Messages
      <4>1. retained[c][m] \in Int
        BY <2>1, <3>1
      <4>2. retained[c][m] - 1 \in Int
        BY <4>1
      <4>3. QED
        BY <2>1, <3>1, <4>2
    <3>2. CASE m \notin Messages
      <4>1. [retained[c] EXCEPT ![m] = @ - 1] = retained[c]
        BY <2>1, <3>2
      <4>2. QED
        BY <2>1, <4>1
    <3>3. QED
      BY <3>1, <3>2
  <2>3. retained' \in [Children -> [Messages -> Int]]
    BY <1>10, <2>2 DEF Release, DataTypeOK
  <2>4. QED
    BY <1>10, <2>3 DEF Release, DataTypeOK
<1>11. ASSUME NEW n \in 1 .. MsgSize, ReadBytes(c, n) PROVE DataTypeOK'
  BY <1>11, ReadType
<1>4. Drain(c) => DataTypeOK'
  BY <1>0 DEF Drain, DataTypeOK
<1>5. ASSUME Enqueue(c) PROVE DataTypeOK'
  <2>1. childQueue \in Seq(Children) /\ Len(childQueue) \in Nat /\ Len(childQueue) < Backlog
    BY <1>5 DEF Enqueue, DataTypeOK
  <2>2. Append(childQueue, c) \in Seq(Children) /\ Len(Append(childQueue, c)) = Len(childQueue) + 1
    BY <2>1
  <2>3. childQueue' \in Seq(Children) /\ Len(childQueue') <= Backlog
    BY <1>0, <1>5, <2>1, <2>2 DEF Enqueue
  <2>4. QED
    BY <1>5, <2>3 DEF Enqueue, DataTypeOK, streamVars
<1>12. UNCHANGED dataVars => DataTypeOK'
  BY DEF dataVars, streamVars, DataTypeOK
<1>7. QED
  BY <1>1, <1>2, <1>3, <1>4, <1>5, <1>8, <1>9, <1>10, <1>11, <1>12 DEF ReadOp, FinishOp

------------------------------------------------------------------------------
\* SetToSeq lists the elements of a finite set.
LEMMA Enumeration ==
  ASSUME NEW S, IsFiniteSet(S)
  PROVE  /\ SetToSeq(S) \in Seq(S)
         /\ \A x \in S : \E i \in DOMAIN SetToSeq(S) : SetToSeq(S)[i] = x
<1> DEFINE n == Cardinality(S)
<1>1. n \in Nat /\ ExistsBijection(1 .. n, S)
  BY FS_CardinalityType
<1>2. PICK f \in Bijection(1 .. n, S) : TRUE
  BY <1>1, Fun_ExistsBij
<1>3. f \in [1 .. n -> S] /\ IsInjective(f)
  BY <1>2 DEF Bijection, Injection
<1>4. SetToSeq(S) \in [1 .. n -> S] /\ IsInjective(SetToSeq(S))
  BY <1>3 DEF SetToSeq
<1>5. SetToSeq(S) \in Injection(1 .. n, S)
  BY <1>4 DEF Injection
<1>6. IsFiniteSet(1 .. n) /\ Cardinality(1 .. n) = n
  BY <1>1, FS_Interval
<1>7. SetToSeq(S) \in Surjection(1 .. n, S)
  BY <1>5, <1>6, FS_Injection
<1>8. \A x \in S : \E i \in 1 .. n : SetToSeq(S)[i] = x
  BY <1>7 DEF Surjection
<1>9. SetToSeq(S) \in Seq(S)
  BY <1>1, <1>4
<1>10. DOMAIN SetToSeq(S) = 1 .. n
  BY <1>4
<1>11. QED
  BY <1>8, <1>9, <1>10

\* The notifications of the sockets poll reports.
LEMMA Repumped ==
  ASSUME NEW S \in SUBSET Sockets
  PROVE  LET N == {Note(s, FALSE) : s \in S}
         IN  /\ SetToSeq(N) \in Seq(Notes)
             /\ \A s \in S : \E i \in DOMAIN SetToSeq(N) : SetToSeq(N)[i].sock = s
<1> DEFINE N == {Note(s, FALSE) : s \in S}
<1> DEFINE f == [s \in S |-> Note(s, FALSE)]
<1>1. IsFiniteSet(Sockets)
  BY RealSocketAssumption, FS_AddElement DEF Sockets
<1>2. IsFiniteSet(S)
  BY <1>1, FS_Subset
<1>3. f \in Surjection(S, N)
  BY DEF Surjection
<1>4. IsFiniteSet(N)
  BY <1>2, <1>3, FS_Surjection
<1>b. \A s \in Sockets : Note(s, FALSE) \in Notes
  BY DEF Notes, Note
<1>5. N \subseteq Notes
  BY <1>b
<1>a. \A s \in S : Note(s, FALSE) \in N /\ Note(s, FALSE).sock = s
  BY DEF Note
<1> HIDE DEF N
<1>6. SetToSeq(N) \in Seq(N) /\ \A x \in N : \E i \in DOMAIN SetToSeq(N) : SetToSeq(N)[i] = x
  BY <1>4, Enumeration
<1>7. SetToSeq(N) \in Seq(Notes)
  BY <1>5, <1>6
<1>8. \A s \in S : \E i \in DOMAIN SetToSeq(N) : SetToSeq(N)[i].sock = s
  BY <1>6, <1>a
<1>9. QED
  BY <1>7, <1>8 DEF N
------------------------------------------------------------------------------
\* The types of the variables, in groups that change together: threads, ...
ThreadTypes == /\ pc \in [Threads -> Labels] /\ cont \in [Threads -> Labels]
               /\ at \in [Threads -> Sockets \cup {NoSocket}]

LEMMA ThreadTypesNext == TypeOK /\ Places /\ [Next]_vars => ThreadTypes'
<1> SUFFICES ASSUME TypeOK, Places, [Next]_vars PROVE ThreadTypes'
  OBVIOUS
<1>0. ThreadTypes /\ Children \subseteq Sockets /\ Server \in Sockets /\ Users \subseteq Threads
      /\ childQueue \in Seq(Children) /\ left \in [Users -> SUBSET Sockets]
      /\ accepted \subseteq Children
  BY SocketFacts DEF TypeOK, SelectorsTypeOK, DataTypeOK, ThreadTypes
<1> USE <1>0 DEF ThreadTypes, Goto, At, Labels, threadVars
<1>1. ASSUME NEW t \in Users, Call(t) PROVE ThreadTypes'
  <2>1. ASSUME NEW s \in Sockets, NEW m, CallRegister(t, s, m) \/ CallUnregister(t, s)
        PROVE  ThreadTypes'
    BY <2>1 DEF CallRegister, CallUnregister, Enter
  <2>2. ASSUME NEW c \in Children, CallRecv(t, c) \/ CallClose(t, c) PROVE ThreadTypes'
    BY <2>2 DEF CallRecv, CallClose, Enter
  <2>3. ASSUME NEW s, NEW m,
               \/ Modify(t, s, m) \/ CallSelect(t, s) \/ CallPoll(t)
               \/ CallAccept(t) \/ CloseServer(t)
        PROVE  ThreadTypes'
    BY <2>3 DEF Modify, CallPoll, CallAccept, CloseServer, CallSelect
  <2>4. \A s \in accepted \cup {Server} : s \in Sockets
    OBVIOUS
  <2>5. QED
    BY <1>1, <2>1, <2>2, <2>3, <2>4 DEF Call
<1>2. ASSUME NEW t \in Users, Selecting(t) PROVE ThreadTypes'
  BY <1>2 DEF Selecting, RegisterNext, AddSelector, TestSocket, TestRaises,
              Decide, Wait, WakeUp, Unregister, Enter, LeaveSelect
<1>3. ASSUME NEW t \in Users, Polling(t) \/ Expiring(t) PROVE ThreadTypes'
  BY <1>3 DEF Polling, Expiring, AddPoll, NotifyFirst, RemovePoll, TakeNotifications,
              TestNotification, PollRaises, Repump, Expire, PollExpires, LeavePoll
<1>4. ASSUME NEW t \in Users, Receiving(t) \/ Accepting(t) PROVE ThreadTypes'
  BY <1>4, RecvFrame, TypeThreads
  DEF Receives, RecvLabels, recvVars, Accepting, TakeChild, NoChild, CountChild, Return, Dequeue
<1>5. ASSUME NEW t \in Threads, Closing(t) \/ Notifies(t) PROVE ThreadTypes'
  <2>1. CASE Closing(t)
    BY <2>1 DEF Closing, CloseChild, UncountChild
  <2>2. CASE Snapshot(t) \/ Notified(t)
    BY <2>2 DEF Snapshot, Notified
  <2>3. CASE NotifySelect(t)
    BY <2>3 DEF NotifySelect
  <2>4. CASE NotifyPoll(t)
    BY <2>4 DEF NotifyPoll
  <2>5. QED
    BY <1>5, <2>1, <2>2, <2>3, <2>4 DEF Notifies, Notifying
<1>6. ASSUME NEW t \in Threads, Activating(t) PROVE ThreadTypes'
  <2>1. CASE activated[at[t]]
    BY <1>6, <2>1 DEF Activating, MakeActive
  <2>2. CASE ~activated[at[t]]
    BY <1>6, <2>2 DEF Activating, MakeActive
  <2>3. QED
    BY <2>1, <2>2
<1>7. ASSUME NEW c \in Children, Connect(c) \/ Barrier(c) \/ Queueing(c) \/ Collect(c)
      PROVE  ThreadTypes'
  BY <1>7 DEF Connect, Barrier, Submit, SubmitRejected, Activated, Queueing, LockChild,
              QueueChild, UnlockChild, Collect, Enter
<1>8. ASSUME NEW c \in Children, ReadChannel(c) \/ CloseChannel(c) \/ Finish(c)
      PROVE  ThreadTypes'
  BY <1>8, FinishFrame DEF ReadChannel, CloseChannel, NotifyThen, Disposes
<1>9. ASSUME ShutDownParent \/ UncountParent \/ CloseLeftover PROVE ThreadTypes'
  BY <1>9 DEF ShutDownParent, UncountParent, CloseLeftover
<1>10. ASSUME PollLeftover PROVE ThreadTypes'
  BY <1>10, SocketFacts DEF PollLeftover, Dequeue, Enter
<1>11. CASE UNCHANGED vars
  BY <1>11 DEF vars, selectorVars
<1> HIDE DEF ThreadTypes, Goto, At, Labels, threadVars
<1>12. QED
  BY <1>1, <1>2, <1>3, <1>4, <1>5, <1>6, <1>7, <1>8, <1>9, <1>10, <1>11, SocketFacts, ThreadFacts
  DEF Next, Running, Stopping

\* ... lists of selectors and their snapshots, ...
QueueTypes == /\ todo \in [Threads -> SUBSET Registrable]
              /\ selectors \in [Sockets -> SUBSET Registrable]

LEMMA QueueTypesNext == TypeOK /\ Places /\ [Next]_vars => QueueTypes'
<1> SUFFICES ASSUME TypeOK, Places, [Next]_vars PROVE QueueTypes'
  OBVIOUS
<1>0. /\ QueueTypes /\ pc \in [Threads -> Labels] /\ Poll \in Registrable
      /\ \A t \in Users : t \in Threads /\ t \in Registrable
  BY SocketFacts DEF TypeOK, SelectorsTypeOK, QueueTypes, Registrable
<1> USE <1>0 DEF QueueTypes
<1>1. ASSUME NEW t \in Users, Call(t) PROVE QueueTypes'
  BY <1>1 DEF Call, CallSelect, CallRegister, Modify, CallUnregister, CallPoll, CallRecv,
              CallClose, CallAccept, CloseServer
<1>2. ASSUME NEW t \in Users, AddSelector(t) \/ AddPoll(t) \/ RemovePoll(t) PROVE QueueTypes'
  BY <1>2 DEF AddSelector, AddPoll, RemovePoll
<1>3. ASSUME NEW t \in Users, TestRaises(t) \/ Unregister(t) PROVE QueueTypes'
  BY <1>3 DEF TestRaises, Unregister, LeaveSelect
<1>4. ASSUME NEW t \in Users, \/ RegisterNext(t) \/ TestSocket(t) \/ Decide(t) \/ Wait(t)
                              \/ WakeUp(t) \/ Expiring(t)
      PROVE  QueueTypes'
  BY <1>4 DEF RegisterNext, TestSocket, Decide, Wait, WakeUp, Expiring, Expire, PollExpires
<1>5. ASSUME NEW t \in Users, \/ NotifyFirst(t) \/ TakeNotifications(t) \/ TestNotification(t)
                              \/ PollRaises(t) \/ Repump(t) \/ Accepting(t) \/ Receiving(t)
      PROVE  QueueTypes'
  BY <1>5, RecvFrame, TypeThreads
  DEF NotifyFirst, TakeNotifications, TestNotification, PollRaises, Repump, Receives, recvVars,
      Accepting, TakeChild, NoChild, CountChild
<1>6. ASSUME NEW t \in Threads, Closing(t) \/ Activating(t) PROVE QueueTypes'
  BY <1>6 DEF Closing, CloseChild, UncountChild, Activating, MakeActive
<1>7. ASSUME NEW t \in Threads, Notifies(t) PROVE QueueTypes'
  <2>1. at[t] \in Sockets
    BY <1>7, NotifierAt
  <2>2. QED
    BY <1>7, <2>1 DEF Notifies, Notifying, Snapshot, NotifySelect, NotifyPoll, Notified
<1>8. ASSUME NEW c \in Children, Connect(c) \/ Barrier(c) \/ Queueing(c) \/ Collect(c)
      PROVE  QueueTypes'
  BY <1>8 DEF Connect, Barrier, Submit, SubmitRejected, Activated, Queueing, LockChild,
              QueueChild, UnlockChild, Collect
<1>9. ASSUME NEW c \in Children, ReadChannel(c) \/ CloseChannel(c) \/ Finish(c)
      PROVE  QueueTypes'
  BY <1>9, FinishFrame DEF ReadChannel, CloseChannel, Disposes
<1>10. ASSUME Stopping PROVE QueueTypes'
  BY <1>10 DEF Stopping, ShutDownParent, UncountParent, CloseLeftover, PollLeftover
<1>11. CASE UNCHANGED vars
  BY <1>11 DEF vars, selectorVars
<1> HIDE DEF QueueTypes
<1>12. QED
  BY <1>1, <1>2, <1>3, <1>4, <1>5, <1>6, <1>7, <1>8, <1>9, <1>10, <1>11, ThreadFacts
  DEF Next, Running, Selecting, Polling

\* ... calls of select, ...
SelectTypes == /\ cv \in [Users -> Users \cup {Nobody}]
               /\ watch \in [Users -> SUBSET Sockets] /\ left \in [Users -> SUBSET Sockets]
               /\ ready \in [Users -> SUBSET Sockets] /\ unseen \in [Users -> SUBSET Sockets]

LEMMA SelectTypesNext == TypeOK /\ Places /\ [Next]_vars => SelectTypes'
<1> SUFFICES ASSUME TypeOK, Places, [Next]_vars PROVE SelectTypes'
  OBVIOUS
<1>0. /\ SelectTypes /\ Children \subseteq Sockets /\ Server \in Sockets
      /\ accepted \subseteq Children
  BY SocketFacts DEF TypeOK, SelectorsTypeOK, SelectTypes
<1> USE <1>0 DEF SelectTypes, selectVars
<1>1. ASSUME NEW t \in Users, NEW S, CallSelect(t, S) PROVE SelectTypes'
  BY <1>1, SelectorsAssumption DEF CallSelect
<1>2. ASSUME NEW t \in Users, NEW s \in Sockets, NEW m, CallRegister(t, s, m)
      PROVE  SelectTypes'
  BY <1>2 DEF CallRegister
<1>3. ASSUME NEW t \in Users, NEW c \in Children, CallRecv(t, c) \/ CallClose(t, c)
      PROVE  SelectTypes'
  BY <1>3 DEF CallRecv, CallClose
<1>4. ASSUME NEW t \in Users, NEW s, NEW m, \/ Modify(t, s, m) \/ CallUnregister(t, s)
                                            \/ CallPoll(t) \/ CallAccept(t) \/ CloseServer(t)
      PROVE  SelectTypes'
  BY <1>4 DEF Modify, CallUnregister, CallPoll, CallAccept, CloseServer
<1>5. ASSUME NEW t \in Users, RegisterNext(t) \/ AddSelector(t) \/ TestSocket(t) \/ Decide(t)
      PROVE  SelectTypes'
  BY <1>5 DEF RegisterNext, AddSelector, TestSocket, Decide
<1>6. ASSUME NEW t \in Users, Wait(t) \/ WakeUp(t) \/ Expire(t) PROVE SelectTypes'
  BY <1>6 DEF Wait, WakeUp, Expire
<1>7. ASSUME NEW t \in Users, TestRaises(t) \/ Unregister(t) PROVE SelectTypes'
  BY <1>7 DEF TestRaises, Unregister, LeaveSelect
<1>8. ASSUME NEW t \in Users,
             AddPoll(t) \/ NotifyFirst(t) \/ RemovePoll(t) \/ TakeNotifications(t)
      PROVE  SelectTypes'
  BY <1>8 DEF AddPoll, NotifyFirst, RemovePoll, TakeNotifications
<1>9. ASSUME NEW t \in Users, TestNotification(t) PROVE SelectTypes'
  <2>1. batch[t] \in Seq(Notes) /\ batch[t] # <<>>
    BY <1>9 DEF TestNotification, TypeOK, SelectorsTypeOK, Places, UserPlace
  <2>2. Head(batch[t]) \in Notes
    BY <2>1
  <2>3. Head(batch[t]).sock \in Sockets
    BY <2>2 DEF Notes
  <2>4. QED
    BY <1>9, <2>3 DEF TestNotification
<1>10. ASSUME NEW t \in Users, PollExpires(t) \/ PollRaises(t) \/ Repump(t)
       PROVE  SelectTypes'
  BY <1>10 DEF PollExpires, PollRaises, Repump, LeavePoll
<1>11. ASSUME NEW t \in Users, Accepting(t) \/ Receiving(t) PROVE SelectTypes'
  BY <1>11, RecvFrame, TypeThreads
  DEF Accepting, TakeChild, NoChild, CountChild, Receives, recvVars, Return
<1>12. ASSUME NEW t \in Threads, Closing(t) PROVE SelectTypes'
  BY <1>12 DEF Closing, CloseChild, UncountChild
<1>13. ASSUME NEW t \in Threads, Activating(t) \/ Notifies(t) PROVE SelectTypes'
  BY <1>13 DEF Activating, MakeActive, Notifies, Notifying, Snapshot, NotifySelect, NotifyPoll,
               Notified
<1>14. ASSUME NEW c \in Children, Connect(c) \/ Barrier(c) \/ Queueing(c) \/ Collect(c)
      PROVE  SelectTypes'
  BY <1>14 DEF Connect, Barrier, Submit, SubmitRejected, Activated, Queueing, LockChild,
              QueueChild, UnlockChild, Collect
<1>15. ASSUME NEW c \in Children, ReadChannel(c) \/ CloseChannel(c) \/ Finish(c)
      PROVE  SelectTypes'
  BY <1>15, FinishFrame DEF ReadChannel, CloseChannel, Disposes
<1>16. ASSUME Stopping PROVE SelectTypes'
  BY <1>16 DEF Stopping, ShutDownParent, UncountParent, CloseLeftover, PollLeftover
<1>17. CASE UNCHANGED vars
  BY <1>17 DEF vars, selectorVars
<1>18. \A s \in accepted \cup {Server} : s \in Sockets
  OBVIOUS
<1> HIDE DEF SelectTypes, selectVars
<1>19. ASSUME NEW t \in Users, Call(t) PROVE SelectTypes'
  BY <1>1, <1>2, <1>3, <1>4, <1>18, <1>19 DEF Call
<1>20. ASSUME NEW t \in Users, Selecting(t) \/ Polling(t) \/ Expiring(t) PROVE SelectTypes'
  BY <1>5, <1>6, <1>7, <1>8, <1>9, <1>10, <1>20 DEF Selecting, Polling, Expiring
<1>21. QED
  BY <1>11, <1>12, <1>13, <1>14, <1>15, <1>16, <1>17, <1>19, <1>20, ThreadFacts, SocketFacts
  DEF Next, Running

\* The steps that bring nothing to read.
QuietStep ==
  \/ \E t \in Users : Call(t) \/ Running(t) \/ Expiring(t)
  \/ \E t \in Threads : Activating(t) \/ Notifies(t)
  \/ \E c \in Children : \/ Connect(c) \/ Barrier(c) \/ LockChild(c) \/ UnlockChild(c)
                         \/ Finish(c) \/ Collect(c)
  \/ Stopping \/ Closing(Finalizer)

LEMMA Steps ==
  ASSUME Next
  PROVE  \/ QuietStep
         \/ \E c \in Children : ReadChannel(c) \/ CloseChannel(c) \/ QueueChild(c)
  BY DEF Next, QuietStep, Queueing

\* What they do to the data
QuietData ==
  \/ UNCHANGED dataVars \/ Dequeue
  \/ \E t \in Users : Receiving(t) /\ ReadOp(at[t]) /\ at[t] \in Children
  \/ \E c \in Children : Finish(c) /\ FinishOp(c)

LEMMA QuietSteps == ASSUME TypeOK, Places, QuietStep PROVE QuietData
<1> USE DEF QuietData
<1>1. ASSUME NEW t \in Users, Call(t) PROVE QuietData
  BY <1>1 DEF Call, CallSelect, CallRegister, Modify, CallUnregister, CallPoll, CallRecv,
              CallClose, CallAccept, CloseServer
<1>2. ASSUME NEW t \in Users, Selecting(t) \/ Polling(t) \/ Expiring(t) PROVE QuietData
  BY <1>2 DEF Selecting, Polling, Expiring, RegisterNext, AddSelector, TestSocket, TestRaises,
              Decide, Wait, WakeUp, Unregister, AddPoll, NotifyFirst, RemovePoll,
              TakeNotifications, TestNotification, PollRaises, Repump, Expire, PollExpires
<1>3. ASSUME NEW t \in Users, Receiving(t) PROVE QuietData
  BY <1>3, RecvFrame, TypeThreads
<1>4. ASSUME NEW t \in Users, Accepting(t) PROVE QuietData
  BY <1>4 DEF Accepting, TakeChild, NoChild, CountChild
<1>5. ASSUME NEW t \in Threads, Closing(t) \/ Activating(t) \/ Notifies(t) PROVE QuietData
  BY <1>5 DEF Closing, CloseChild, UncountChild, Activating, MakeActive, Notifies, Notifying,
              Snapshot, NotifySelect, NotifyPoll, Notified
<1>6. ASSUME NEW c \in Children,
             Connect(c) \/ Barrier(c) \/ LockChild(c) \/ UnlockChild(c) \/ Collect(c)
      PROVE  QuietData
  BY <1>6 DEF Connect, Barrier, Submit, SubmitRejected, Activated, LockChild, UnlockChild,
              Collect
<1>7. ASSUME NEW c \in Children, Finish(c) PROVE QuietData
  BY <1>7, FinishFrame
<1>8. ASSUME Stopping PROVE QuietData
  BY <1>8 DEF Stopping, ShutDownParent, UncountParent, CloseLeftover, PollLeftover
<1> HIDE DEF QuietData
<1>9. QED
  BY <1>1, <1>2, <1>3, <1>4, <1>5, <1>6, <1>7, <1>8, ThreadFacts, SocketFacts
  DEF QuietStep, Running

\* What recv() and _finish_closing do brings nothing new.
LEMMA OpsFrame ==
  ASSUME DataTypeOK, NEW c \in Children, ReadOp(c) \/ FinishOp(c)
  PROVE  /\ UNCHANGED <<childQueue, sent>>
         /\ \A d \in Children : incoming'[d] # <<>> => incoming[d] # <<>>
<1> DEFINE P == /\ UNCHANGED <<childQueue, sent>>
                /\ \A d \in Children : incoming'[d] # <<>> => incoming[d] # <<>>
<1>1. CASE UNCHANGED dataVars
  BY <1>1 DEF dataVars, streamVars
<1>2. CASE Take(c)
  <2>1. UNCHANGED <<childQueue, sent>> /\ incoming[c] # <<>>
    BY <1>2 DEF Take
  <2>2. \A d \in Children \ {c} : incoming'[d] = incoming[d]
    BY <1>2 DEF Take, DataTypeOK
  <2>3. QED
    BY <2>1, <2>2
<1>3. CASE Store(c) \/ Load(c) \/ ReadEof(c) \/ EndRead(c) \/ FailRead(c) \/ Reset(c)
  BY <1>3 DEF Store, Load, ReadEof, EndRead, FailRead, Reset
<1>4. ASSUME NEW m, Release(c, m) PROVE P
  BY <1>4 DEF Release
<1>5. ASSUME NEW n, ReadBytes(c, n) PROVE P
  BY <1>5 DEF ReadBytes
<1>6. CASE Drain(c)
  BY <1>6 DEF Drain, DataTypeOK
<1>7. QED
  BY <1>1, <1>2, <1>3, <1>4, <1>5, <1>6 DEF ReadOp, FinishOp

\* The data changes by its operations only.
LEMMA DataSteps ==
  ASSUME TypeOK, Places, [Next]_vars
  PROVE  \/ QuietData
         \/ \E c \in Children : Receive(c) \/ ReceiveEof(c) \/ Enqueue(c)
<1>1. CASE UNCHANGED vars
  BY <1>1 DEF vars, QuietData
<1>2. ASSUME NEW c \in Children, ReadChannel(c) \/ CloseChannel(c) \/ QueueChild(c)
      PROVE  Receive(c) \/ ReceiveEof(c) \/ Enqueue(c)
  BY <1>2 DEF ReadChannel, CloseChannel, QueueChild
<1>3. QED
  BY <1>1, <1>2, Steps, QuietSteps

LEMMA DataTypesNext == TypeOK /\ Places /\ [Next]_vars => DataTypeOK'
<1> SUFFICES ASSUME TypeOK, Places, [Next]_vars PROVE DataTypeOK'
  OBVIOUS
<1>1. DataTypeOK
  BY DEF TypeOK
<1>2. CASE UNCHANGED dataVars
  BY <1>1, <1>2 DEF dataVars, streamVars, DataTypeOK
<1>3. ASSUME NEW c \in Children, Receive(c) \/ ReceiveEof(c) \/ Enqueue(c) PROVE DataTypeOK'
  BY <1>1, <1>3, DataOps
<1>4. ASSUME Dequeue PROVE DataTypeOK'
  BY <1>1, <1>4, DequeueType
<1>5. QED
  BY <1>1, <1>2, <1>3, <1>4, DataOps, DataSteps DEF QuietData

\* ... the poll object, ...
PollTypes == /\ pollQueue \in Seq(Notes) /\ batch \in [Users -> Seq(Notes)]
             /\ registered \in [Sockets -> SUBSET {"in", "hup"}] /\ overlooked \subseteq Sockets

LEMMA PollTypesNext == TypeOK /\ Places /\ [Next]_vars => PollTypes'
<1> SUFFICES ASSUME TypeOK, Places, [Next]_vars PROVE PollTypes'
  OBVIOUS
<1>0. /\ PollTypes /\ Children \subseteq Sockets /\ Server \in Sockets
      /\ accepted \subseteq Children /\ ready \in [Users -> SUBSET Sockets]
  BY SocketFacts DEF TypeOK, SelectorsTypeOK, PollTypes
<1> USE <1>0 DEF PollTypes, pollVars
<1>1. ASSUME NEW t \in Users, NEW s \in Sockets, NEW m,
             CallRegister(t, s, m) \/ Modify(t, s, m) \/ CallUnregister(t, s)
      PROVE  PollTypes'
  BY <1>1, SelectorsAssumption DEF CallRegister, Modify, CallUnregister
<1>2. ASSUME NEW t \in Users, NEW c, \/ CallSelect(t, c) \/ CallRecv(t, c) \/ CallClose(t, c)
                                     \/ CallPoll(t) \/ CallAccept(t) \/ CloseServer(t)
      PROVE  PollTypes'
  BY <1>2 DEF CallSelect, CallRecv, CallClose, CallPoll, CallAccept, CloseServer
<1>3. ASSUME NEW t \in Users, Selecting(t) \/ Expiring(t) PROVE PollTypes'
  BY <1>3 DEF Selecting, RegisterNext, AddSelector, TestSocket, TestRaises, Decide, Wait, WakeUp,
              Unregister, Expiring, Expire, PollExpires
<1>4. ASSUME NEW t \in Users, AddPoll(t) \/ RemovePoll(t) \/ TakeNotifications(t)
      PROVE  PollTypes'
  <2>1. <<>> \in Seq(Notes)
    OBVIOUS
  <2>2. QED
    BY <1>4, <2>1 DEF AddPoll, RemovePoll, TakeNotifications
<1>5. ASSUME NEW t \in Users, NotifyFirst(t) PROVE PollTypes'
  <2>1. Note(at[t], FALSE) \in Notes
    BY <1>5 DEF NotifyFirst, Places, UserPlace, Note, Notes
  <2>2. Append(pollQueue, Note(at[t], FALSE)) \in Seq(Notes)
    BY <2>1 DEF Note
  <2>3. QED
    BY <1>5, <2>2 DEF NotifyFirst
<1>6. ASSUME NEW t \in Users, TestNotification(t) \/ PollRaises(t) PROVE PollTypes'
  <2>1. batch[t] \in Seq(Notes) /\ batch[t] # <<>>
    BY <1>6 DEF TestNotification, PollRaises, Places, UserPlace
  <2>7. \A i \in DOMAIN batch[t] : batch[t][i] \in Notes
    BY <2>1
  <2>8. Tail(batch[t]) \in Seq(Notes) /\ Head(batch[t]) \in Notes /\ <<>> \in Seq(Notes)
    BY <2>1
  <2>2. /\ Tail(batch[t]) \in Seq(Notes) /\ Head(batch[t]).sock \in Sockets
        /\ <<>> \in Seq(Notes)
    BY <2>8 DEF Notes
  <2>3. \A i \in DOMAIN batch[t] : batch[t][i].sock \in Sockets
    BY <2>7 DEF Notes
  <2>4. CASE TestNotification(t)
    <3>1. overlooked' \subseteq Sockets
      BY <2>2, <2>4 DEF TestNotification
    <3>2. QED
      BY <2>2, <2>4, <3>1 DEF TestNotification
  <2>5. CASE PollRaises(t)
    <3>1. overlooked' \subseteq Sockets
      BY <2>3, <2>5 DEF PollRaises
    <3>2. QED
      BY <2>2, <2>5, <3>1 DEF PollRaises
  <2>6. QED
    BY <1>6, <2>4, <2>5
<1>7. ASSUME NEW t \in Users, Repump(t) PROVE PollTypes'
  <2>1. SetToSeq({Note(s, FALSE) : s \in ready[t]}) \in Seq(Notes)
    BY Repumped
  <2>2. QED
    BY <1>7, <2>1 DEF Repump
<1>8. ASSUME NEW t \in Users, Accepting(t) \/ Receiving(t) PROVE PollTypes'
  BY <1>8, RecvFrame, TypeThreads
  DEF Accepting, TakeChild, NoChild, CountChild, Receives, recvVars
<1>9. ASSUME NEW t \in Threads, Notifies(t) PROVE PollTypes'
  <2>1. at[t] \in Sockets
    BY <1>9, NotifierAt
  <2>2. Note(at[t], cont[t] = "closed") \in Notes
    BY <2>1 DEF Note, Notes
  <2>3. Append(pollQueue, Note(at[t], cont[t] = "closed")) \in Seq(Notes)
    BY <2>2
  <2>4. CASE NotifyPoll(t)
    BY <2>3, <2>4 DEF NotifyPoll
  <2>5. CASE Snapshot(t) \/ NotifySelect(t) \/ Notified(t)
    BY <2>5 DEF Snapshot, NotifySelect, Notified
  <2>6. QED
    BY <1>9, <2>4, <2>5 DEF Notifies, Notifying
<1>10. ASSUME NEW t \in Threads, Closing(t) \/ Activating(t) PROVE PollTypes'
  BY <1>10 DEF Closing, CloseChild, UncountChild, Activating, MakeActive
<1>11. ASSUME NEW c \in Children, Connect(c) \/ Barrier(c) \/ Queueing(c) \/ Collect(c)
      PROVE  PollTypes'
  BY <1>11 DEF Connect, Barrier, Submit, SubmitRejected, Activated, Queueing, LockChild,
              QueueChild, UnlockChild, Collect
<1>12. ASSUME NEW c \in Children, ReadChannel(c) \/ CloseChannel(c) \/ Finish(c)
      PROVE  PollTypes'
  BY <1>12, FinishFrame DEF ReadChannel, CloseChannel, Disposes
<1>13. ASSUME Stopping PROVE PollTypes'
  BY <1>13 DEF Stopping, ShutDownParent, UncountParent, CloseLeftover, PollLeftover
<1>14. CASE UNCHANGED vars
  BY <1>14 DEF vars, selectorVars
<1>15. \A s \in accepted \cup {Server} : s \in Sockets
  OBVIOUS
<1> HIDE DEF PollTypes, pollVars
<1>16. ASSUME NEW t \in Users, Call(t) PROVE PollTypes'
  BY <1>1, <1>2, <1>15, <1>16 DEF Call
<1>17. ASSUME NEW t \in Users, Polling(t) PROVE PollTypes'
  BY <1>4, <1>5, <1>6, <1>7, <1>17 DEF Polling
<1>18. QED
  BY <1>3, <1>8, <1>9, <1>10, <1>11, <1>12, <1>13, <1>14, <1>16, <1>17, ThreadFacts, SocketFacts
  DEF Next, Running

\* ... children and sockets closed, ...
SocketTypes == /\ activated \in [Children -> BOOLEAN] /\ timed \in [Users -> BOOLEAN]
               /\ activation \in [Children -> Threads \cup {Nobody}] /\ closed \subseteq Sockets

LEMMA SocketTypesNext == TypeOK /\ Places /\ [Next]_vars => SocketTypes'
<1> SUFFICES ASSUME TypeOK, Places, [Next]_vars PROVE SocketTypes'
  OBVIOUS
<1>0. /\ SocketTypes /\ Children \subseteq Sockets /\ Server \in Sockets
      /\ accepted \subseteq Children
  BY SocketFacts DEF TypeOK, SelectorsTypeOK, SocketTypes
<1> USE <1>0 DEF SocketTypes, socketVars, selectVars
<1>1. ASSUME NEW t \in Users, NEW c, NEW m,
             \/ CallSelect(t, c) \/ CallRegister(t, c, m) \/ Modify(t, c, m)
             \/ CallUnregister(t, c) \/ CallPoll(t)
      PROVE  SocketTypes'
  BY <1>1 DEF CallSelect, CallRegister, Modify, CallUnregister, CallPoll
<1>2. ASSUME NEW t \in Users, NEW c, \/ CallRecv(t, c) \/ CallClose(t, c)
                                     \/ CallAccept(t) \/ CloseServer(t)
      PROVE  SocketTypes'
  BY <1>2 DEF CallRecv, CallClose, CallAccept, CloseServer
<1>3. ASSUME NEW t \in Users, Selecting(t) \/ Expiring(t) PROVE SocketTypes'
  BY <1>3 DEF Selecting, RegisterNext, AddSelector, TestSocket, TestRaises, Decide, Wait, WakeUp,
              Unregister, LeaveSelect, Expiring, Expire, PollExpires, LeavePoll
<1>4. ASSUME NEW t \in Users, Polling(t) PROVE SocketTypes'
  BY <1>4 DEF Polling, AddPoll, RemovePoll, TakeNotifications, NotifyFirst, TestNotification,
              PollRaises, Repump, LeavePoll
<1>5. ASSUME NEW t \in Users, Accepting(t) \/ Receiving(t) PROVE SocketTypes'
  BY <1>5, RecvFrame, TypeThreads
  DEF Accepting, TakeChild, NoChild, CountChild, Receives, recvVars, Return
<1>6. ASSUME NEW t \in Users \cup {Finalizer}, Closing(t) PROVE SocketTypes'
  BY <1>6 DEF Closing, CloseChild, UncountChild, Places, UserPlace, FinalizerPlace
<1>7. ASSUME NEW t \in Threads, Activating(t) PROVE SocketTypes'
  <2>1. CASE activated[at[t]]
    BY <1>7, <2>1 DEF Activating, MakeActive
  <2>2. CASE ~activated[at[t]]
    BY <1>7, <2>2 DEF Activating, MakeActive
  <2>3. QED
    BY <2>1, <2>2
<1>8. ASSUME NEW t \in Threads, Notifies(t) PROVE SocketTypes'
  BY <1>8 DEF Notifies, Notifying, Snapshot, NotifySelect, NotifyPoll, Notified
<1>9. ASSUME NEW c \in Children, Connect(c) \/ Barrier(c) \/ Queueing(c) \/ Collect(c)
      PROVE  SocketTypes'
  <2>1. CASE Connect(c) \/ Barrier(c) \/ Collect(c) \/ QueueChild(c)
    BY <2>1 DEF Connect, Barrier, Submit, SubmitRejected, Activated, QueueChild, Collect
  <2>2. Worker(c) \in Threads
    BY ThreadFacts
  <2>3. CASE LockChild(c) \/ UnlockChild(c)
    BY <2>2, <2>3 DEF LockChild, UnlockChild
  <2>4. QED
    BY <1>9, <2>1, <2>3 DEF Queueing
<1>10. ASSUME NEW c \in Children, ReadChannel(c) \/ CloseChannel(c) \/ Finish(c)
      PROVE  SocketTypes'
  BY <1>10, FinishFrame DEF ReadChannel, CloseChannel, Disposes
<1>11. ASSUME Stopping PROVE SocketTypes'
  BY <1>11 DEF Stopping, ShutDownParent, UncountParent, CloseLeftover, PollLeftover
<1>12. ASSUME UNCHANGED vars PROVE SocketTypes'
  BY <1>12 DEF vars, selectorVars
<1> HIDE DEF SocketTypes, socketVars, selectVars
<1>13. ASSUME NEW t \in Users, Call(t) PROVE SocketTypes'
  BY <1>1, <1>2, <1>13 DEF Call
<1>14. QED
  BY <1>3, <1>4, <1>5, <1>6, <1>7, <1>8, <1>9, <1>10, <1>11, <1>12, <1>13, ThreadFacts
  DEF Next, Running

\* ... and what the listening socket counts and closes.
ServerTypes ==
  /\ accepted \subseteq Children /\ collected \subseteq Children
  /\ acceptedChildren \in Int /\ copy \in Int
  /\ closing \subseteq Sockets /\ finished \subseteq Children /\ torn \subseteq Children
  /\ parentDown \in BOOLEAN /\ childrenDown \in BOOLEAN

LEMMA ServerTypesNext == TypeOK /\ Places /\ [Next]_vars => ServerTypes'
<1> SUFFICES ASSUME TypeOK, Places, [Next]_vars PROVE ServerTypes'
  OBVIOUS
<1>0. /\ ServerTypes /\ Children \subseteq Sockets /\ Server \in Sockets
  BY SocketFacts DEF TypeOK, ServerTypes
<1> USE <1>0 DEF ServerTypes, serverVars, countVars, closeVars
<1>1. ASSUME NEW t \in Users, Call(t) PROVE ServerTypes'
  BY <1>1 DEF Call, CallRecv, CallClose, CallAccept, CloseServer
<1>2. ASSUME NEW t \in Users, Accepting(t) \/ Receiving(t) PROVE ServerTypes'
  <2>1. CASE Accepting(t)
    BY <2>1 DEF Accepting, TakeChild, NoChild, CountChild, Places, UserPlace
  <2>2. CASE Receiving(t)
    BY <2>2, RecvFrame, TypeThreads DEF Receives, recvVars
  <2>3. QED
    BY <1>2, <2>1, <2>2
<1>3. ASSUME NEW t \in Users \cup {Finalizer}, Closing(t) PROVE ServerTypes'
  <2>1. CASE CloseChild(t)
    BY <1>3, <2>1 DEF CloseChild, Places, UserPlace, FinalizerPlace
  <2>2. CASE UncountChild(t)
    <3>1. childrenDown' \in BOOLEAN
      BY <2>2 DEF UncountChild
    <3>2. QED
      BY <2>2, <3>1 DEF UncountChild
  <2>3. QED
    BY <1>3, <2>1, <2>2 DEF Closing
<1>4. ASSUME NEW c \in Children, Connect(c) \/ Barrier(c) \/ Queueing(c) \/ Collect(c)
      PROVE  ServerTypes'
  BY <1>4 DEF Connect, Barrier, Submit, SubmitRejected, Activated, Queueing,
              LockChild, QueueChild, UnlockChild, Collect
<1>5. ASSUME NEW c \in Children, ReadChannel(c) \/ CloseChannel(c) \/ Finish(c)
      PROVE  ServerTypes'
  BY <1>5, FinishFrame DEF ReadChannel, CloseChannel, Disposes
<1>6. ASSUME Stopping PROVE ServerTypes'
  <2>1. CASE ShutDownParent
    BY <2>1 DEF ShutDownParent
  <2>2. CASE UncountParent
    BY <2>2 DEF UncountParent
  <2>3. CASE PollLeftover
    BY <2>3 DEF PollLeftover
  <2>4. CASE CloseLeftover
    BY <2>4 DEF CloseLeftover, Places, ServerPlace
  <2>5. QED
    BY <1>6, <2>1, <2>2, <2>3, <2>4 DEF Stopping
<1>7. ASSUME UNCHANGED vars PROVE ServerTypes'
  BY <1>7 DEF vars
<1>8. UNCHANGED serverVars => ServerTypes'
  OBVIOUS
<1> HIDE DEF ServerTypes, serverVars, countVars, closeVars
<1>9. QED
  BY <1>1, <1>2, <1>3, <1>4, <1>5, <1>6, <1>7, <1>8
  DEF Next, Running, Expiring, Activating, Notifies

LEMMA TypesNext == TypeOK /\ Places /\ [Next]_vars => TypeOK'
<1> SUFFICES ASSUME TypeOK, Places, [Next]_vars PROVE TypeOK'
  OBVIOUS
<1>1. (ThreadTypes /\ QueueTypes /\ SelectTypes /\ PollTypes /\ SocketTypes)'
  BY ThreadTypesNext, QueueTypesNext, SelectTypesNext, PollTypesNext, SocketTypesNext
<1>2. SelectorsTypeOK'
  BY <1>1 DEF ThreadTypes, QueueTypes, SelectTypes, PollTypes, SocketTypes, SelectorsTypeOK
<1>3. DataTypeOK' /\ ServerTypes'
  BY DataTypesNext, ServerTypesNext
<1>4. QED
  BY <1>2, <1>3 DEF TypeOK, ServerTypes

LEMMA TypesInit == Init => TypeOK /\ Places
<1> SUFFICES ASSUME Init PROVE TypeOK /\ Places
  OBVIOUS
<1>0. MaxMsgs \in Nat /\ Backlog \in Nat
  BY RealSocketAssumption
<1>1. DataTypeOK
  BY <1>0 DEF Init, DataInit, DataTypeOK
<1>2. SelectorsTypeOK
  BY DEF Init, SelectorsInit, SelectorsTypeOK, Labels
<1>a. ServerTypes
  <2>1. accepted = {} /\ collected = {} /\ closing = {} /\ finished = {} /\ torn = {}
    BY DEF Init
  <2>2. acceptedChildren = 1 /\ copy = 0 /\ parentDown = FALSE /\ childrenDown = FALSE
    BY DEF Init
  <2>3. acceptedChildren \in Int /\ copy \in Int
    BY <2>2
  <2>4. QED
    BY <2>1, <2>2, <2>3, Zenon DEF ServerTypes
<1>3. TypeOK
  BY <1>1, <1>2, <1>a DEF TypeOK, ServerTypes
<1>4. Places
  BY ThreadFacts, SocketFacts
  DEF Init, SelectorsInit, Places, UserPlace, ChildPlace, WorkerPlace, ServerPlace, FinalizerPlace
<1>5. QED
  BY <1>3, <1>4

\* The variables of a listening socket, its connections, selectors and threads have their
\* types, and every thread is where its code can be.
THEOREM TypesInvariant == Spec => [](TypeOK /\ Places)
<1>1. TypeOK /\ Places /\ [Next]_vars => TypeOK' /\ Places'
  BY TypeThreads, TypesNext, PlacesNext
<1>2. QED
  BY <1>1, TypesInit, PTL DEF Spec

------------------------------------------------------------------------------
\* What a step leaves to a select that does not take it.
Spares(t) ==
    /\ pc'[t] = pc[t] \/ (pc[t] = "s_wait" /\ pc'[t] = "s_woken")
    /\ cont'[t] = cont[t] /\ at'[t] = at[t] /\ batch'[t] = batch[t]
    /\ cv'[t] = cv[t] /\ watch'[t] = watch[t] /\ left'[t] = left[t] /\ ready'[t] = ready[t]
    /\ unseen'[t] = unseen[t]
    /\ \A s \in Sockets : t \in selectors[s] => t \in selectors'[s]

\* A user thread other than t.
LEMMA UserSpares ==
  ASSUME TypeOK, Places, NEW t \in Users, NEW x \in Users, x # t,
         Call(x) \/ Running(x) \/ Expiring(x) \/ Activating(x)
  PROVE  Spares(t)
<1>0. ThreadsOK /\ QueueTypes /\ SelectTypes /\ t # Poll
  BY TypeThreads, SelectorsAssumption DEF TypeOK, SelectorsTypeOK, QueueTypes, SelectTypes
<1>1. Stays(t)
  BY <1>0, UserPlaces, SocketFacts
<1>2. pc'[t] = pc[t] \/ (pc[t] = "s_wait" /\ pc'[t] = "s_woken")
  BY <1>1 DEF Stays, Places, UserPlace
<1>3. cont'[t] = cont[t] /\ at'[t] = at[t] /\ batch'[t] = batch[t]
  BY <1>1 DEF Stays
<1> USE <1>0 DEF QueueTypes, SelectTypes, selectVars, pollVars
<1> DEFINE P == /\ cv'[t] = cv[t] /\ watch'[t] = watch[t] /\ left'[t] = left[t]
                /\ ready'[t] = ready[t] /\ unseen'[t] = unseen[t]
                /\ \A s \in Sockets : t \in selectors[s] => t \in selectors'[s]
<1>4. ASSUME NEW s, NEW m, \/ CallSelect(x, s) \/ CallRegister(x, s, m) \/ Modify(x, s, m)
                           \/ CallUnregister(x, s) \/ CallPoll(x)
      PROVE  P
  BY <1>4 DEF CallSelect, CallRegister, Modify, CallUnregister, CallPoll
<1>5. ASSUME NEW c, CallRecv(x, c) \/ CallClose(x, c) \/ CallAccept(x) \/ CloseServer(x) PROVE P
  BY <1>5 DEF CallRecv, CallClose, CallAccept, CloseServer
<1>6. ASSUME RegisterNext(x) \/ AddSelector(x) \/ TestSocket(x) \/ Decide(x) PROVE P
  BY <1>6 DEF RegisterNext, AddSelector, TestSocket, Decide
<1>7. ASSUME TestRaises(x) \/ Unregister(x) PROVE P
  BY <1>7 DEF TestRaises, Unregister, LeaveSelect
<1>8. ASSUME Wait(x) \/ WakeUp(x) \/ Expire(x) PROVE P
  BY <1>8 DEF Wait, WakeUp, Expire
<1>9. ASSUME AddPoll(x) \/ NotifyFirst(x) \/ RemovePoll(x) \/ TakeNotifications(x) PROVE P
  <2>1. CASE AddPoll(x)
    BY <2>1 DEF AddPoll
  <2>5. CASE RemovePoll(x)
    BY <2>5 DEF RemovePoll
  <2>2. CASE NotifyFirst(x)
    BY <2>2 DEF NotifyFirst
  <2>3. CASE TakeNotifications(x)
    BY <2>3 DEF TakeNotifications
  <2>4. QED
    BY <1>9, <2>1, <2>2, <2>3, <2>5
<1>10. ASSUME TestNotification(x) \/ PollRaises(x) \/ Repump(x) \/ PollExpires(x) PROVE P
  BY <1>10 DEF TestNotification, PollRaises, Repump, PollExpires, LeavePoll
<1>11. ASSUME Accepting(x) \/ Receiving(x) PROVE P
  BY <1>11, RecvFrame
  DEF Accepting, TakeChild, NoChild, CountChild, Receives, recvVars, Return
<1>12. ASSUME Closing(x) \/ Activating(x) PROVE P
  BY <1>12 DEF Closing, CloseChild, UncountChild, Activating, MakeActive
<1> HIDE DEF P
<1>13. P
  BY <1>4, <1>5, <1>6, <1>7, <1>8, <1>9, <1>10, <1>11, <1>12
  DEF Call, Running, Expiring, Selecting, Polling
<1>14. QED
  BY <1>2, <1>3, <1>13 DEF Spares, P

\* The event loops, the threads of the parent group and the finalizer.
ServiceStep ==
  \/ \E c \in Children :
       \/ Connect(c) \/ Barrier(c) \/ Queueing(c) \/ ReadChannel(c) \/ CloseChannel(c)
       \/ Finish(c) \/ Collect(c) \/ Notifies(Loop(c)) \/ Notifies(Worker(c))
  \/ Stopping \/ Closing(Finalizer)
  \/ Activating(Loop(Server)) \/ Activating(Finalizer)

LEMMA ServiceQuiet ==
  ASSUME TypeOK, Places, ServiceStep PROVE UNCHANGED <<selectors, selectVars>>
<1>1. ASSUME NEW c \in Children, Connect(c) \/ Barrier(c) \/ Queueing(c) \/ Collect(c)
      PROVE  UNCHANGED <<selectors, selectVars>>
  BY <1>1 DEF Connect, Barrier, Submit, SubmitRejected, Activated, Queueing, LockChild,
              QueueChild, UnlockChild, Collect
<1>2. ASSUME NEW c \in Children, ReadChannel(c) \/ CloseChannel(c) \/ Finish(c)
      PROVE  UNCHANGED <<selectors, selectVars>>
  BY <1>2, FinishFrame DEF ReadChannel, CloseChannel, Disposes
<1>3. ASSUME NEW a, Notifies(a) \/ Activating(a) PROVE UNCHANGED <<selectors, selectVars>>
  BY <1>3 DEF Notifies, Notifying, Snapshot, NotifySelect, NotifyPoll, Notified, Activating,
              MakeActive
<1>4. Stopping => UNCHANGED <<selectors, selectVars>>
  BY DEF Stopping, ShutDownParent, UncountParent, CloseLeftover, PollLeftover
<1>5. Closing(Finalizer) => UNCHANGED <<selectors, selectVars>>
  BY ThreadFacts DEF Closing, CloseChild, UncountChild, selectVars
<1>6. QED
  BY <1>1, <1>2, <1>3, <1>4, <1>5 DEF ServiceStep

LEMMA ServiceSpares ==
  ASSUME TypeOK, Places, NEW t \in Users, ServiceStep PROVE Spares(t)
<1>1. ThreadsOK /\ t \in Threads \ Service /\ UserPlace(t)
  BY TypeThreads, SelectorsAssumption, SocketFacts DEF Places
<1>2. \A c \in Children : t # Loop(c) /\ t # Worker(c)
  BY ThreadFacts, SocketFacts
<1>3. t # Loop(Server) /\ t # Finalizer
  BY ThreadFacts, SocketFacts
<1>4. ASSUME NEW c \in Children,
             \/ Connect(c) \/ SubmitRejected(c) \/ Activated(c) \/ ReadChannel(c)
             \/ CloseChannel(c) \/ Finish(c) \/ Notifies(Loop(c))
      PROVE  Stays(t)
  BY <1>1, <1>2, <1>4, LoopPlaces
<1>5. ASSUME NEW c \in Children, Queueing(c) \/ Notifies(Worker(c)) PROVE Stays(t)
  BY <1>1, <1>2, <1>5, WorkerPlaces DEF Queueing
<1>6. ASSUME NEW c \in Children, Submit(c) PROVE Stays(t)
  BY <1>1, <1>2, <1>6 DEF Submit, Stays, At, Goto, ThreadsOK, pollVars
<1>7. ASSUME \/ Closing(Finalizer) \/ Activating(Finalizer)
             \/ \E c \in Children : Collect(c)
      PROVE  Stays(t)
  BY <1>1, <1>3, <1>7, FinalizerPlaces
<1>8. ASSUME Stopping \/ Activating(Loop(Server)) PROVE Stays(t)
  BY <1>1, <1>3, <1>8, ServerPlaces
<1>9. Stays(t)
  BY <1>4, <1>5, <1>6, <1>7, <1>8 DEF ServiceStep, Barrier
<1>10. UNCHANGED <<selectors, selectVars>>
  BY ServiceQuiet
<1>11. QED
  BY <1>1, <1>9, <1>10 DEF Spares, Stays, UserPlace, selectVars

\* Each step is taken by a thread of the program or another one.
LEMMA ActorSteps ==
  ASSUME Places, Next
  PROVE  ServiceStep \/ \E x \in Users : Call(x) \/ Running(x) \/ Expiring(x) \/ Activating(x)
<1>1. ASSUME NEW a \in Threads, Notifies(a) \/ Activating(a)
      PROVE  ServiceStep \/ \E x \in Users : Activating(x)
  BY <1>1, Actors DEF ServiceStep
<1>2. QED
  BY <1>1 DEF Next, ServiceStep
------------------------------------------------------------------------------
\* The barrier.  A child is in the hands of one party after the other: its event loop,
\* the thread that queues it, the queue, and whoever has taken it from there.  Only then
\* can it be used, and so be active; and nothing is read before it is.
Queued(c) == \E i \in DOMAIN childQueue : childQueue[i] = c
Queues(c) == pc[Worker(c)] \in {"w_lock", "w_put"}
Fresh(c) == pc[Loop(c)] \in {"idle", "i_lock"}
Taken(c) == ~Fresh(c) /\ ~Queues(c) /\ ~Queued(c)

\* A thread that is going to make a child active, to accept it or to close it.
Handles(t) == pc[t] \in {"activate", "a_count", "f_close"}

HandOver ==
    /\ \A c \in Children : /\ Fresh(c) => pc[Worker(c)] = "idle" /\ ~Queued(c)
                           /\ Queues(c) => ~Queued(c)
    /\ \A i, j \in DOMAIN childQueue : childQueue[i] = childQueue[j] => i = j
    /\ \A c \in accepted : Taken(c)
    /\ \A t \in Threads : Handles(t) => Taken(at[t])
    /\ \A t \in Users : watch[t] \subseteq accepted \cup {Server}
                        /\ left[t] \subseteq accepted \cup {Server}

Unread ==
    \A c \in Children :
        /\ activated[c] => Taken(c)
        /\ pc[Loop(c)] \in {"loop", "snapshot", "notify", "closed", "d_release", "d_reset",
                            "d_drain"} => activated[c]
        /\ sent[c] > 0 \/ incoming[c] # <<>> => activated[c]

\* Nobody but c's event loop and the thread it starts moves them.
LEMMA ChildMoves ==
  ASSUME ThreadsOK, Places, [Next]_vars, NEW c \in Children
  PROVE  /\ Fresh(c)' => Fresh(c) /\ (pc[Worker(c)] = "idle" => pc'[Worker(c)] = "idle")
         /\ Queues(c)' => pc[Loop(c)] = "i_lock" \/ (Queues(c) /\ ~QueueChild(c))
<1> DEFINE L == /\ Fresh(c)' => Fresh(c) /\ (pc[Worker(c)] = "idle" => pc'[Worker(c)] = "idle")
                /\ Queues(c)' => pc[Loop(c)] = "i_lock" \/ (Queues(c) /\ ~QueueChild(c))
<1>0. /\ Loop(c) \in Threads /\ Worker(c) \in Threads /\ Loop(c) # Worker(c)
      /\ \A d \in Children \ {c} : \A a \in {Loop(c), Worker(c)} : a # Loop(d) /\ a # Worker(d)
      /\ \A a \in {Loop(c), Worker(c)} : a \notin Users /\ a # Loop(Server) /\ a # Finalizer
      /\ ChildPlace(c) /\ WorkerPlace(c)
  BY ThreadFacts, SocketFacts DEF Places
<1>1. ASSUME Stays(Loop(c)), Stays(Worker(c)) PROVE L
  BY <1>0, <1>1 DEF Stays, ChildPlace, WorkerPlace, Fresh, Queues, QueueChild, Goto, ThreadsOK
<1>2. ASSUME NEW t \in Users, Call(t) \/ Running(t) \/ Expiring(t) \/ Activating(t) PROVE L
  BY <1>0, <1>1, <1>2, UserPlaces
<1>3. ASSUME NEW d \in Children, d # c,
             \/ Connect(d) \/ SubmitRejected(d) \/ Activated(d) \/ ReadChannel(d)
             \/ CloseChannel(d) \/ Finish(d) \/ Notifies(Loop(d))
      PROVE  L
  BY <1>0, <1>1, <1>3, LoopPlaces
<1>4. ASSUME NEW d \in Children, d # c, Queueing(d) \/ Notifies(Worker(d)) PROVE L
  BY <1>0, <1>1, <1>4, WorkerPlaces DEF Queueing
<1>5. ASSUME NEW d \in Children, d # c, Submit(d) PROVE L
  <2>1. Stays(Loop(c)) /\ Stays(Worker(c))
    BY <1>0, <1>5 DEF Submit, Stays, At, Goto, ThreadsOK, pollVars
  <2>2. QED
    BY <1>1, <2>1
<1>6. ASSUME Stopping \/ Activating(Loop(Server)) PROVE L
  BY <1>0, <1>1, <1>6, ServerPlaces
<1>7. ASSUME \/ Closing(Finalizer) \/ Activating(Finalizer)
             \/ \E d \in Children : Collect(d)
      PROVE  L
  BY <1>0, <1>1, <1>7, FinalizerPlaces
<1>8. ASSUME \/ Connect(c) \/ SubmitRejected(c) \/ Activated(c) \/ ReadChannel(c)
             \/ CloseChannel(c) \/ Submit(c)
      PROVE  L
  BY <1>0, <1>8 DEF Connect, Submit, SubmitRejected, Activated, ReadChannel, CloseChannel,
     NotifyThen, Goto, threadVars, ThreadsOK, Fresh, Queues, QueueChild
<1>17. ASSUME Finish(c) PROVE L
  BY <1>0, <1>17, FinishFrame DEF Disposes, Goto, ThreadsOK, Fresh, Queues, QueueChild
<1>9. ASSUME Queueing(c) PROVE L
  BY <1>0, <1>9 DEF Queueing, LockChild, QueueChild, UnlockChild, Goto, ThreadsOK, Fresh, Queues
<1>10. ASSUME Notifies(Loop(c)) PROVE L
  <2>1. /\ Stays(Worker(c)) /\ ChildPlace(c)' /\ ~Fresh(c)
    BY <1>0, <1>10, LoopPlaces
    DEF Notifies, Notifying, Snapshot, NotifySelect, NotifyPoll, Notified, Fresh
  <2>2. ~Fresh(c)'
    BY <1>0, <1>10 DEF Notifies, Notifying, Snapshot, NotifySelect, NotifyPoll, Notified, Goto,
       Fresh, ThreadsOK, threadVars, ChildPlace
  <2>3. QED
    BY <1>0, <2>1, <2>2 DEF Stays, Queues, QueueChild, Goto, ThreadsOK, WorkerPlace
<1>11. ASSUME Notifies(Worker(c)) PROVE L
  <2>1. /\ Stays(Loop(c)) /\ ~Queues(c) /\ pc[Worker(c)] # "idle"
    BY <1>0, <1>11, WorkerPlaces
    DEF Notifies, Notifying, Snapshot, NotifySelect, NotifyPoll, Notified, Queues
  <2>2. ~Queues(c)'
    BY <1>0, <1>11 DEF Notifies, Notifying, Snapshot, NotifySelect, NotifyPoll, Notified, Goto,
       Queues, ThreadsOK, threadVars, WorkerPlace
  <2>3. QED
    BY <1>0, <2>1, <2>2 DEF Stays, Fresh, ChildPlace
<1>12. ASSUME UNCHANGED vars PROVE L
  BY <1>0, <1>1, <1>12 DEF Stays, vars, selectorVars, threadVars, pollVars
<1> HIDE DEF L
<1>13. ASSUME NEW d \in Children, \/ Connect(d) \/ Barrier(d) \/ Queueing(d) \/ ReadChannel(d)
                                  \/ CloseChannel(d) \/ Finish(d) \/ Collect(d)
       PROVE  L
  BY <1>3, <1>4, <1>5, <1>7, <1>8, <1>9, <1>13, <1>17 DEF Barrier
<1>14. ASSUME NEW t \in Threads, Notifies(t) \/ Activating(t) PROVE L
  BY <1>2, <1>3, <1>4, <1>6, <1>7, <1>10, <1>11, <1>14, Actors
<1>15. L
  BY <1>2, <1>6, <1>7, <1>12, <1>13, <1>14 DEF Next
<1>16. QED
  BY <1>15 DEF L

LEMMA QueueMoves ==
  ASSUME TypeOK, Places, [Next]_vars, NEW c \in Children
  PROVE  Queued(c)' => Queued(c) \/ QueueChild(c)
<1>0. childQueue \in Seq(Children)
  BY DEF TypeOK, DataTypeOK
<1>1. CASE UNCHANGED dataVars
  BY <1>1 DEF dataVars, Queued
<1>2. CASE Dequeue
  BY <1>0, <1>2 DEF Dequeue, Queued
<1>3. ASSUME NEW d \in Children, ReadOp(d) \/ FinishOp(d) PROVE Queued(c)' => Queued(c)
  BY <1>3, OpsFrame DEF Queued, TypeOK
<1>4. CASE QuietData
  BY <1>1, <1>2, <1>3, <1>4 DEF QuietData
<1>5. ASSUME NEW d \in Children, QueueChild(d) PROVE Queued(c)' => Queued(c) \/ c = d
  BY <1>0, <1>5 DEF QueueChild, Enqueue, Queued
<1>6. ASSUME NEW d \in Children, ReadChannel(d) \/ CloseChannel(d)
      PROVE  Queued(c)' => Queued(c)
  BY <1>6 DEF ReadChannel, CloseChannel, Receive, ReceiveEof, Queued
<1>7. CASE UNCHANGED vars
  BY <1>1, <1>7 DEF vars
<1>8. QED
  BY <1>4, <1>5, <1>6, <1>7, Steps, QuietSteps

\* Once taken, a child remains so.
LEMMA TakenKept ==
  ASSUME TypeOK, Places, [Next]_vars, NEW c \in Children, Taken(c)
  PROVE  Taken(c)'
<1>1. ThreadsOK
  BY TypeThreads
<1>2. QueueChild(c) => Queues(c)
  BY DEF QueueChild, Queues
<1>3. QED
  BY <1>1, <1>2, ChildMoves, QueueMoves DEF Taken, Fresh

\* Who takes a child out of the queue is alone with it.
LEMMA HeadTaken ==
  ASSUME TypeOK, Places, HandOver, [Next]_vars, Dequeue, NEW h \in Children,
         h = Head(childQueue)
  PROVE  Taken(h)'
<1>1. /\ ThreadsOK /\ childQueue \in Seq(Children) /\ childQueue # <<>>
      /\ childQueue' = Tail(childQueue)
  BY TypeThreads DEF ThreadsOK, Dequeue
<1>2. Queued(h)
  BY <1>1 DEF Queued
<1>3. ~Fresh(h) /\ ~Queues(h)
  BY <1>1, <1>2 DEF HandOver
<1>4. ~Queued(h)'
  <2> SUFFICES ASSUME NEW i \in DOMAIN Tail(childQueue), Tail(childQueue)[i] = h PROVE FALSE
    BY <1>1 DEF Queued
  <2>1. 1 \in DOMAIN childQueue /\ i + 1 \in DOMAIN childQueue /\ i + 1 # 1
    BY <1>1
  <2>2. childQueue[i + 1] = childQueue[1]
    BY <1>1
  <2>3. QED
    BY <2>1, <2>2 DEF HandOver
<1>5. QED
  BY <1>1, <1>3, <1>4, ChildMoves DEF Taken, Fresh

LEMMA QueueOrder ==
  ASSUME TypeOK, Places, HandOver, [Next]_vars
  PROVE  /\ \A c \in Children : /\ Fresh(c)' => pc'[Worker(c)] = "idle" /\ ~Queued(c)'
                                /\ Queues(c)' => ~Queued(c)'
         /\ \A i, j \in DOMAIN childQueue' : childQueue'[i] = childQueue'[j] => i = j
<1>1. ThreadsOK /\ childQueue \in Seq(Children)
  BY TypeThreads DEF ThreadsOK
<1>2. ASSUME NEW c \in Children
      PROVE  /\ Fresh(c)' => pc'[Worker(c)] = "idle" /\ ~Queued(c)'
             /\ Queues(c)' => ~Queued(c)'
  <2>1. QueueChild(c) => Queues(c) /\ pc[Worker(c)] # "idle"
    BY DEF QueueChild, Queues
  <2>2. QED
    BY <1>1, <2>1, ChildMoves, QueueMoves DEF HandOver, Fresh
<1> DEFINE D == \A i, j \in DOMAIN childQueue' : childQueue'[i] = childQueue'[j] => i = j
<1>3. ASSUME UNCHANGED childQueue PROVE D
  BY <1>3 DEF HandOver
<1>4. ASSUME Dequeue PROVE D
  <2> SUFFICES ASSUME NEW i \in DOMAIN Tail(childQueue), NEW j \in DOMAIN Tail(childQueue),
                      Tail(childQueue)[i] = Tail(childQueue)[j]
               PROVE  i = j
    BY <1>4 DEF Dequeue
  <2>1. i + 1 \in DOMAIN childQueue /\ j + 1 \in DOMAIN childQueue /\ i \in Int /\ j \in Int
    BY <1>1, <1>4 DEF Dequeue
  <2>2. childQueue[i + 1] = childQueue[j + 1]
    BY <1>1, <1>4 DEF Dequeue
  <2>3. i + 1 = j + 1
    BY <2>1, <2>2 DEF HandOver
  <2>4. QED
    BY <2>1, <2>3
<1>5. ASSUME NEW c \in Children, QueueChild(c) PROVE D
  <2>1. ~Queued(c)
    BY <1>5 DEF QueueChild, HandOver, Queues
  <2> SUFFICES ASSUME NEW i \in DOMAIN Append(childQueue, c),
                      NEW j \in DOMAIN Append(childQueue, c),
                      Append(childQueue, c)[i] = Append(childQueue, c)[j]
               PROVE  i = j
    BY <1>5 DEF QueueChild, Enqueue
  <2>2. \A k \in DOMAIN Append(childQueue, c) :
          \/ k \in DOMAIN childQueue /\ Append(childQueue, c)[k] = childQueue[k]
          \/ k = Len(childQueue) + 1 /\ Append(childQueue, c)[k] = c
    BY <1>1
  <2>3. QED
    BY <2>1, <2>2 DEF Queued, HandOver
<1>6. QuietStep => UNCHANGED childQueue \/ Dequeue
  BY QuietSteps, OpsFrame DEF QuietData, dataVars, TypeOK
<1>7. ASSUME NEW c \in Children, ReadChannel(c) \/ CloseChannel(c) PROVE UNCHANGED childQueue
  BY <1>7 DEF ReadChannel, CloseChannel, Receive, ReceiveEof
<1>8. UNCHANGED vars => UNCHANGED childQueue
  BY DEF vars, dataVars
<1> HIDE DEF D
<1>9. D
  BY <1>3, <1>4, <1>5, <1>6, <1>7, <1>8, Steps
<1>10. QED
  BY <1>2, <1>9 DEF D

LEMMA AcceptSteps ==
  ASSUME TypeOK, Places, [Next]_vars
  PROVE  accepted' = accepted \/ \E t \in Users : CountChild(t)
<1>1. ASSUME NEW t \in Users, Call(t) \/ Running(t) \/ Expiring(t)
      PROVE  accepted' = accepted \/ CountChild(t)
  BY <1>1, RecvFrame, TypeThreads
  DEF Call, CallRecv, CallClose, CallAccept, CloseServer, serverVars, countVars, Running,
      Expiring, Accepting, TakeChild, NoChild, Receives, recvVars, Closing, CloseChild,
      UncountChild
<1>2. ASSUME NEW t, Activating(t) \/ Notifies(t) \/ Closing(t) PROVE accepted' = accepted
  BY <1>2 DEF Activating, Notifies, Closing, CloseChild, UncountChild, serverVars, countVars
<1>3. ASSUME NEW c \in Children, \/ Connect(c) \/ Barrier(c) \/ Queueing(c) \/ ReadChannel(c)
                                 \/ CloseChannel(c) \/ Finish(c) \/ Collect(c)
      PROVE  accepted' = accepted
  BY <1>3, FinishFrame
  DEF Connect, Barrier, Submit, SubmitRejected, Activated, Queueing, LockChild, QueueChild,
      UnlockChild, ReadChannel, CloseChannel, Disposes, Collect, countVars
<1>4. Stopping => accepted' = accepted
  BY DEF Stopping, ShutDownParent, UncountParent, CloseLeftover, PollLeftover, countVars,
         serverVars
<1>5. UNCHANGED vars => accepted' = accepted
  BY DEF vars, serverVars, countVars
<1>6. QED
  BY <1>1, <1>2, <1>3, <1>4, <1>5 DEF Next

\* Who begins to handle a child has it from accept() or from the queue.
Obtains(t) ==
    Handles(t)' => \/ Handles(t) /\ at'[t] = at[t]
                   \/ at'[t] \in accepted
                   \/ Dequeue /\ at'[t] = Head(childQueue)

LEMMA StaysObtains == ASSUME NEW t \in Threads, Stays(t) PROVE Obtains(t)
  BY DEF Stays, Obtains, Handles

LEMMA UserObtains ==
  ASSUME TypeOK, Places, HandOver, NEW t \in Users,
         Call(t) \/ Running(t) \/ Expiring(t) \/ Activating(t)
  PROVE  Obtains(t)
<1>1. /\ ThreadsOK /\ t \in Threads /\ UserPlace(t)
      /\ watch[t] \subseteq accepted \cup {Server} /\ left[t] \subseteq accepted \cup {Server}
  BY TypeThreads, SocketFacts DEF HandOver, Places
<1> USE <1>1 DEF Obtains, Handles, Goto, At, ThreadsOK, threadVars
<1>2. ASSUME NEW s \in accepted \cup {Server}, NEW m, CallRegister(t, s, m) PROVE Obtains(t)
  BY <1>2 DEF CallRegister, Enter
<1>3. ASSUME NEW s, NEW m, \/ CallSelect(t, s) \/ CallPoll(t) \/ CallAccept(t) \/ CloseServer(t)
                           \/ Modify(t, s, m) \/ CallUnregister(t, s)
      PROVE  Obtains(t)
  BY <1>3 DEF CallSelect, CallPoll, CallAccept, CloseServer, Modify, CallUnregister
<1>4. ASSUME NEW c \in Children, CallRecv(t, c) \/ CallClose(t, c) PROVE Obtains(t)
  BY <1>4 DEF CallRecv, CallClose, Enter
<1>5. ASSUME RegisterNext(t) PROVE Obtains(t)
  BY <1>5 DEF RegisterNext, Enter
<1>6. ASSUME \/ AddSelector(t) \/ TestSocket(t) \/ TestRaises(t) \/ Decide(t) \/ Wait(t)
             \/ WakeUp(t) \/ Unregister(t) \/ Expire(t)
      PROVE  Obtains(t)
  BY <1>6 DEF AddSelector, TestSocket, TestRaises, Decide, Wait, WakeUp, Unregister, Expire,
              LeaveSelect
<1>7. ASSUME Polling(t) \/ PollExpires(t) PROVE Obtains(t)
  BY <1>7 DEF Polling, AddPoll, NotifyFirst, RemovePoll, TakeNotifications, TestNotification,
              PollRaises, Repump, PollExpires, LeavePoll
<1>8. ASSUME TakeChild(t) PROVE Obtains(t)
  BY <1>8 DEF TakeChild
<1>9. ASSUME NoChild(t) \/ CountChild(t) \/ Receiving(t) PROVE Obtains(t)
  BY <1>9, RecvFrame DEF NoChild, CountChild, Receives, RecvLabels, recvVars, Return
<1>10. ASSUME Closing(t) PROVE Obtains(t)
  BY <1>10 DEF Closing, CloseChild, UncountChild
<1>11. ASSUME Activating(t) PROVE Obtains(t)
  BY <1>11 DEF Activating, MakeActive, UserPlace
<1> HIDE DEF Obtains
<1>12. ASSUME Call(t) PROVE Obtains(t)
  BY <1>2, <1>3, <1>4, <1>12 DEF Call
<1>13. ASSUME Running(t) PROVE Obtains(t)
  BY <1>5, <1>6, <1>7, <1>8, <1>9, <1>10, <1>13 DEF Running, Selecting, Accepting
<1>14. QED
  BY <1>6, <1>7, <1>11, <1>12, <1>13 DEF Expiring

LEMMA ServerObtains ==
  ASSUME TypeOK, Places, Stopping \/ Activating(Loop(Server)) PROVE Obtains(Loop(Server))
<1>1. ThreadsOK /\ Loop(Server) \in Threads /\ ServerPlace
  BY TypeThreads, ThreadFacts, SocketFacts DEF Places
<1> USE <1>1 DEF Obtains, Handles, Goto, At, ThreadsOK
<1>2. CASE ShutDownParent \/ UncountParent \/ CloseLeftover
  BY <1>2 DEF ShutDownParent, UncountParent, CloseLeftover
<1>3. CASE PollLeftover
  BY <1>3 DEF PollLeftover, Enter
<1>4. CASE Activating(Loop(Server))
  BY <1>4 DEF Activating, MakeActive, ServerPlace
<1>5. QED
  BY <1>2, <1>3, <1>4 DEF Stopping

LEMMA FinalizerObtains ==
  ASSUME TypeOK, Places,
         Closing(Finalizer) \/ Activating(Finalizer) \/ \E c \in Children : Collect(c)
  PROVE  Obtains(Finalizer)
<1>1. ThreadsOK /\ Finalizer \in Threads /\ FinalizerPlace
  BY TypeThreads, ThreadFacts, SocketFacts DEF Places
<1> USE <1>1 DEF Obtains, Handles, Goto, At, ThreadsOK
<1>2. CASE Closing(Finalizer)
  BY <1>2 DEF Closing, CloseChild, UncountChild
<1>3. CASE Activating(Finalizer)
  BY <1>3 DEF Activating, MakeActive, FinalizerPlace
<1>4. ASSUME NEW c \in Children, Collect(c) PROVE Obtains(Finalizer)
  BY <1>4 DEF Collect, Enter
<1>5. QED
  BY <1>2, <1>3, <1>4

LEMMA Obtained ==
  ASSUME TypeOK, Places, HandOver, [Next]_vars, NEW t \in Threads PROVE Obtains(t)
<1>0. ThreadsOK /\ \A x \in Users : x \in Threads
  BY TypeThreads, SocketFacts
<1>1. ASSUME NEW x \in Users, Call(x) \/ Running(x) \/ Expiring(x) \/ Activating(x)
      PROVE  Obtains(t)
  BY <1>0, <1>1, UserObtains, UserPlaces, StaysObtains
<1>2. ASSUME NEW c \in Children,
             \/ Connect(c) \/ SubmitRejected(c) \/ Activated(c) \/ ReadChannel(c)
             \/ CloseChannel(c) \/ Finish(c) \/ Notifies(Loop(c))
      PROVE  Obtains(t)
  <2>1. ChildPlace(c)' /\ \A u \in Threads \ {Loop(c)} : Stays(u)
    BY <1>0, <1>2, LoopPlaces
  <2>2. Obtains(Loop(c))
    BY <2>1 DEF ChildPlace, Obtains, Handles
  <2>3. QED
    BY <2>1, <2>2, StaysObtains
<1>3. ASSUME NEW c \in Children, Queueing(c) \/ Notifies(Worker(c)) PROVE Obtains(t)
  <2>1. WorkerPlace(c)' /\ \A u \in Threads \ {Worker(c)} : Stays(u)
    BY <1>0, <1>3, WorkerPlaces DEF Queueing
  <2>2. Obtains(Worker(c))
    BY <2>1 DEF WorkerPlace, Obtains, Handles
  <2>3. QED
    BY <2>1, <2>2, StaysObtains
<1>4. ASSUME NEW c \in Children, Submit(c) PROVE Obtains(t)
  <2>1. CASE t \in {Loop(c), Worker(c)}
    BY <1>0, <1>4, <2>1 DEF Submit, ThreadsOK, Obtains, Handles
  <2>2. CASE t \notin {Loop(c), Worker(c)}
    <3>1. Stays(t)
      BY <1>0, <1>4, <2>2 DEF Submit, Stays, At, Goto, ThreadsOK, pollVars
    <3>2. QED
      BY <3>1, StaysObtains
  <2>3. QED
    BY <2>1, <2>2
<1>5. ASSUME Stopping \/ Activating(Loop(Server)) PROVE Obtains(t)
  BY <1>0, <1>5, ServerPlaces, ServerObtains, StaysObtains
<1>6. ASSUME \/ Closing(Finalizer) \/ Activating(Finalizer)
             \/ \E c \in Children : Collect(c)
      PROVE  Obtains(t)
  BY <1>0, <1>6, FinalizerPlaces, FinalizerObtains, StaysObtains
<1>7. CASE UNCHANGED vars
  BY <1>7 DEF vars, selectorVars, threadVars, Obtains, Handles
<1>8. ASSUME NEW a \in Threads, Notifies(a) \/ Activating(a) PROVE Obtains(t)
  BY <1>1, <1>2, <1>3, <1>5, <1>6, <1>8, Actors
<1>9. QED
  BY <1>1, <1>2, <1>3, <1>4, <1>5, <1>6, <1>7, <1>8 DEF Next, Barrier

LEMMA HandlersTaken ==
  ASSUME TypeOK, Places, HandOver, [Next]_vars, NEW t \in Threads, Handles(t)'
  PROVE  Taken(at[t])'
<1>0. ThreadsOK /\ Children \subseteq Sockets
  BY TypeThreads, SocketFacts
<1>1. Places'
  BY <1>0, PlacesNext
<1>2. at'[t] \in Children
  <2>1. t \in Users \/ t \in Service
    BY DEF Threads
  <2>2. QED
    BY <1>1, <2>1 DEF Places, Service, Sockets, UserPlace, ChildPlace, WorkerPlace, ServerPlace,
       FinalizerPlace, Handles
<1>3. PICK c \in Children : c = at'[t]
  BY <1>2
<1>4. CASE Dequeue /\ c = Head(childQueue)
  BY <1>3, <1>4, HeadTaken DEF Taken, Fresh, Queues, Queued
<1>5. CASE Taken(c)
  BY <1>3, <1>5, TakenKept DEF Taken, Fresh, Queues, Queued
<1>6. QED
  BY <1>3, <1>4, <1>5, Obtained DEF Obtains, HandOver

LEMMA AcceptedTaken ==
  ASSUME TypeOK, Places, HandOver, [Next]_vars
  PROVE  \A c \in accepted' : Taken(c)'
<1>1. \A c \in accepted : c \in Children /\ Taken(c)
  BY DEF HandOver, TypeOK
<1>2. ASSUME NEW t \in Users, CountChild(t)
      PROVE  \A c \in accepted' : c \in Children /\ Taken(c)
  <2>1. t \in Threads /\ Handles(t) /\ at[t] \in Children
    BY <1>2, SocketFacts DEF CountChild, Handles, Places, UserPlace
  <2>2. QED
    BY <1>1, <1>2, <2>1 DEF CountChild, HandOver
<1>3. QED
  BY <1>1, <1>2, AcceptSteps, TakenKept

\* A thread of the program works on sockets it has made or accepted.
Watches(t) ==
    watch[t] \subseteq accepted \cup {Server} /\ left[t] \subseteq accepted \cup {Server}

LEMMA UserWatches ==
  ASSUME TypeOK, Places, NEW t \in Users, Watches(t), accepted \subseteq accepted',
         Call(t) \/ Running(t) \/ Expiring(t) \/ Activating(t)
  PROVE  Watches(t)'
<1>1. watch \in [Users -> SUBSET Sockets] /\ left \in [Users -> SUBSET Sockets]
  BY DEF TypeOK, SelectorsTypeOK
<1> USE <1>1 DEF Watches, selectVars, socketVars
<1>2. ASSUME NEW s \in accepted \cup {Server}, NEW m,
             \/ CallRegister(t, s, m) \/ Modify(t, s, m) \/ CallUnregister(t, s) \/ CallPoll(t)
             \/ CallAccept(t) \/ CloseServer(t)
      PROVE  Watches(t)'
  BY <1>2 DEF CallRegister, Modify, CallUnregister, CallPoll, CallAccept, CloseServer
<1>3. ASSUME NEW S, S \subseteq accepted \cup {Server}, CallSelect(t, S) PROVE Watches(t)'
  BY <1>3 DEF CallSelect
<1>4. ASSUME NEW c \in Children, CallRecv(t, c) \/ CallClose(t, c) PROVE Watches(t)'
  BY <1>4 DEF CallRecv, CallClose
<1>5. ASSUME RegisterNext(t) \/ AddSelector(t) \/ TestSocket(t) \/ Decide(t) PROVE Watches(t)'
  BY <1>5 DEF RegisterNext, AddSelector, TestSocket, Decide
<1>6. ASSUME TestRaises(t) \/ Unregister(t) PROVE Watches(t)'
  BY <1>6 DEF TestRaises, Unregister, LeaveSelect
<1>7. ASSUME Wait(t) \/ WakeUp(t) \/ Expire(t) \/ PollExpires(t) PROVE Watches(t)'
  BY <1>7 DEF Wait, WakeUp, Expire, PollExpires, LeavePoll
<1>8. ASSUME Polling(t) PROVE Watches(t)'
  BY <1>8 DEF Polling, AddPoll, NotifyFirst, RemovePoll, TakeNotifications, TestNotification,
              PollRaises, Repump, LeavePoll
<1>9. ASSUME Accepting(t) \/ Receiving(t) PROVE Watches(t)'
  BY <1>9, RecvFrame, TypeThreads
  DEF Accepting, TakeChild, NoChild, CountChild, Receives, recvVars, Return
<1>10. ASSUME Closing(t) \/ Activating(t) PROVE Watches(t)'
  BY <1>10 DEF Closing, CloseChild, UncountChild, Activating, MakeActive
<1> HIDE DEF Watches
<1>11. ASSUME Call(t) PROVE Watches(t)'
  BY <1>2, <1>3, <1>4, <1>11 DEF Call
<1>12. QED
  BY <1>5, <1>6, <1>7, <1>8, <1>9, <1>10, <1>11 DEF Running, Expiring, Selecting

LEMMA WatchesNext ==
  ASSUME TypeOK, Places, [Next]_vars, NEW t \in Users, Watches(t) PROVE Watches(t)'
<1>1. accepted \subseteq accepted'
  BY AcceptSteps DEF CountChild
<1>2. ASSUME Spares(t) PROVE Watches(t)'
  BY <1>1, <1>2 DEF Spares, Watches
<1>3. CASE UNCHANGED vars
  BY <1>1, <1>3 DEF vars, selectorVars, selectVars, Watches
<1>4. ASSUME NEW x \in Users, Call(x) \/ Running(x) \/ Expiring(x) \/ Activating(x)
      PROVE  Watches(t)'
  BY <1>1, <1>2, <1>4, UserWatches, UserSpares
<1>5. CASE Next
  BY <1>2, <1>4, <1>5, ServiceSpares, ActorSteps
<1>6. QED
  BY <1>3, <1>5

LEMMA HandOverNext == TypeOK /\ Places /\ HandOver /\ [Next]_vars => HandOver'
<1> SUFFICES ASSUME TypeOK, Places, HandOver, [Next]_vars PROVE HandOver'
  OBVIOUS
<1>1. \A t \in Users : Watches(t)'
  BY WatchesNext DEF HandOver, Watches
<1>2. \A t \in Threads : Handles(t)' => Taken(at[t])'
  BY HandlersTaken
<1>3. QED
  BY <1>1, <1>2, QueueOrder, AcceptedTaken DEF HandOver, Watches

Reading == {"loop", "snapshot", "notify", "closed", "d_release", "d_reset", "d_drain"}

LEMMA ActivatedSteps ==
  ASSUME TypeOK, Places, [Next]_vars, NEW c \in Children
  PROVE  /\ activated[c] => activated'[c]
         /\ activated'[c] => \/ activated[c] \/ SubmitRejected(c)
                             \/ \E t \in Threads : pc[t] = "activate" /\ at[t] = c
<1> DEFINE A == /\ activated[c] => activated'[c]
                /\ activated'[c] => \/ activated[c] \/ SubmitRejected(c)
                                    \/ \E t \in Threads : pc[t] = "activate" /\ at[t] = c
<1>0. activated \in [Children -> BOOLEAN]
  BY DEF TypeOK, SelectorsTypeOK
<1>1. ASSUME activated' = activated PROVE A
  BY <1>1
<1>2. ASSUME NEW t \in Users, Call(t) \/ Running(t) \/ Expiring(t) PROVE activated' = activated
  <2>1. Call(t) => activated' = activated
    BY DEF Call, CallSelect, CallRegister, Modify, CallUnregister, CallPoll, CallRecv, CallClose,
           CallAccept, CloseServer, socketVars
  <2>2. Selecting(t) \/ Expiring(t) => activated' = activated
    BY DEF Selecting, Expiring, RegisterNext, AddSelector, TestSocket, TestRaises, Decide, Wait,
           WakeUp, Unregister, Expire, PollExpires, socketVars
  <2>3. Polling(t) => activated' = activated
    BY DEF Polling, AddPoll, NotifyFirst, RemovePoll, TakeNotifications, TestNotification,
           PollRaises, Repump, socketVars
  <2>4. Accepting(t) \/ Receiving(t) \/ Closing(t) => activated' = activated
    BY RecvFrame, TypeThreads
    DEF Accepting, TakeChild, NoChild, CountChild, Receives, recvVars, Closing, CloseChild,
        UncountChild, socketVars
  <2>5. QED
    BY <1>2, <2>1, <2>2, <2>3, <2>4 DEF Running
<1>3. ASSUME NEW t \in Threads, Activating(t) PROVE A
  <2>1. CASE activated[at[t]]
    BY <1>1, <1>3, <2>1 DEF Activating, MakeActive
  <2>2. CASE ~activated[at[t]]
    <3>1. activated' = [activated EXCEPT ![at[t]] = TRUE] /\ pc[t] = "activate"
      BY <1>3, <2>2 DEF Activating, MakeActive
    <3>2. CASE at[t] = c
      BY <1>0, <3>1, <3>2
    <3>3. CASE at[t] # c
      <4>1. activated'[c] = activated[c]
        BY <1>0, <3>1, <3>3
      <4>2. QED
        BY <4>1, Zenon
    <3>4. QED
      BY <3>2, <3>3
  <2>3. QED
    BY <2>1, <2>2
<1>4. ASSUME NEW t, Notifies(t) PROVE activated' = activated
  BY <1>4 DEF Notifies, Notifying, Snapshot, NotifySelect, NotifyPoll, Notified, socketVars
<1>5. ASSUME NEW d \in Children, \/ Connect(d) \/ Submit(d) \/ Activated(d) \/ Queueing(d)
                                 \/ Collect(d)
      PROVE  activated' = activated
  BY <1>5 DEF Connect, Submit, Activated, Queueing, LockChild, QueueChild, UnlockChild, Collect,
              socketVars
<1>6. ASSUME NEW d \in Children, ReadChannel(d) \/ CloseChannel(d) \/ Finish(d)
      PROVE  activated' = activated
  BY <1>6, FinishFrame DEF ReadChannel, CloseChannel, Disposes, socketVars
<1>7. ASSUME NEW d \in Children, SubmitRejected(d) PROVE A
  <2>1. CASE d = c
    BY <1>0, <1>7, <2>1 DEF SubmitRejected
  <2>2. CASE d # c
    <3>1. activated'[c] = activated[c]
      BY <1>0, <1>7, <2>2 DEF SubmitRejected
    <3>2. QED
      BY <3>1, Zenon
  <2>3. QED
    BY <2>1, <2>2
<1>8. Stopping => activated' = activated
  BY DEF Stopping, ShutDownParent, UncountParent, CloseLeftover, PollLeftover, socketVars
<1>9. Closing(Finalizer) \/ UNCHANGED vars => activated' = activated
  BY DEF Closing, CloseChild, UncountChild, vars, selectorVars, socketVars
<1> HIDE DEF A
<1>10. A
  BY <1>1, <1>2, <1>3, <1>4, <1>5, <1>6, <1>7, <1>8, <1>9 DEF Next, Barrier
<1>11. QED
  BY <1>10 DEF A

\* An event loop is moved by its own steps only, but for being woken up.
LEMMA LoopSteps ==
  ASSUME ThreadsOK, Places, [Next]_vars, NEW c \in Children
  PROVE  \/ Stays(Loop(c)) \/ Connect(c) \/ Barrier(c) \/ ReadChannel(c) \/ CloseChannel(c)
         \/ Finish(c) \/ Notifies(Loop(c))
<1>0. /\ Loop(c) \in Threads /\ Worker(c) \in Threads /\ Loop(c) # Worker(c)
      /\ \A d \in Children \ {c} : Loop(c) # Loop(d)
      /\ \A d \in Children : Loop(c) # Worker(d)
      /\ Loop(c) \notin Users /\ Loop(c) # Loop(Server) /\ Loop(c) # Finalizer
  BY ThreadFacts, SocketFacts
<1> DEFINE L == \/ Stays(Loop(c)) \/ Connect(c) \/ Barrier(c) \/ ReadChannel(c)
                \/ CloseChannel(c) \/ Finish(c) \/ Notifies(Loop(c))
<1>1. ASSUME Stays(Loop(c)) PROVE L
  BY <1>1
<1>2. ASSUME NEW t \in Users, Call(t) \/ Running(t) \/ Expiring(t) \/ Activating(t) PROVE L
  BY <1>0, <1>1, <1>2, UserPlaces
<1>3. ASSUME NEW d \in Children, d # c,
             \/ Connect(d) \/ SubmitRejected(d) \/ Activated(d) \/ ReadChannel(d)
             \/ CloseChannel(d) \/ Finish(d) \/ Notifies(Loop(d))
      PROVE  L
  BY <1>0, <1>1, <1>3, LoopPlaces
<1>4. ASSUME NEW d \in Children, Queueing(d) \/ Notifies(Worker(d)) PROVE L
  BY <1>0, <1>1, <1>4, WorkerPlaces DEF Queueing
<1>5. ASSUME NEW d \in Children, d # c, Submit(d) PROVE L
  BY <1>0, <1>5 DEF Submit, Stays, At, ThreadsOK, pollVars
<1>6. ASSUME Stopping \/ Activating(Loop(Server)) PROVE L
  BY <1>0, <1>1, <1>6, ServerPlaces
<1>7. ASSUME \/ Closing(Finalizer) \/ Activating(Finalizer)
             \/ \E d \in Children : Collect(d)
      PROVE  L
  BY <1>0, <1>1, <1>7, FinalizerPlaces
<1>8. ASSUME UNCHANGED vars PROVE L
  BY <1>8 DEF vars, selectorVars, threadVars, pollVars, Stays
<1> HIDE DEF L
<1>9. ASSUME \/ Connect(c) \/ Barrier(c) \/ ReadChannel(c) \/ CloseChannel(c)
             \/ Finish(c) \/ Notifies(Loop(c))
      PROVE  L
  BY <1>9 DEF L
<1>10. ASSUME NEW d \in Children, \/ Connect(d) \/ Barrier(d) \/ Queueing(d) \/ ReadChannel(d)
                                  \/ CloseChannel(d) \/ Finish(d) \/ Collect(d)
       PROVE  L
  BY <1>3, <1>4, <1>5, <1>7, <1>9, <1>10 DEF Barrier
<1>11. ASSUME NEW t \in Threads, Notifies(t) \/ Activating(t) PROVE L
  BY <1>2, <1>3, <1>4, <1>6, <1>7, <1>9, <1>11, Actors
<1>12. L
  BY <1>2, <1>6, <1>7, <1>8, <1>10, <1>11 DEF Next
<1>13. QED
  BY <1>12 DEF L

LEMMA LoopMoves ==
  ASSUME ThreadsOK, Places, [Next]_vars, NEW c \in Children, pc'[Loop(c)] \in Reading
  PROVE  pc[Loop(c)] \in Reading \/ SubmitRejected(c) \/ (Activated(c) /\ activated[c])
<1> DEFINE L == pc[Loop(c)] \in Reading \/ SubmitRejected(c) \/ (Activated(c) /\ activated[c])
<1>0. /\ Loop(c) \in Threads /\ Worker(c) \in Threads /\ Loop(c) # Worker(c)
  BY ThreadFacts, SocketFacts
<1>1. ASSUME Stays(Loop(c)) PROVE L
  BY <1>1 DEF Stays, Reading
<1>2. ASSUME Connect(c) \/ Submit(c) \/ Activated(c) PROVE L
  BY <1>0, <1>2 DEF Connect, Submit, Activated, Goto, ThreadsOK, Reading
<1>3. ASSUME ReadChannel(c) \/ CloseChannel(c) \/ Finish(c) PROVE L
  BY <1>3, FinishFrame DEF ReadChannel, CloseChannel, Disposes, Reading
<1>4. ASSUME Notifies(Loop(c)) PROVE L
  BY <1>4 DEF Notifies, Notifying, Snapshot, NotifySelect, NotifyPoll, Notified, Reading
<1>5. QED
  BY <1>1, <1>2, <1>3, <1>4, LoopSteps DEF Barrier

\* Something to read comes from the event loop of an active child only.
LEMMA ReadingSteps ==
  ASSUME TypeOK, Places, [Next]_vars, NEW c \in Children,
         sent'[c] > 0 \/ incoming'[c] # <<>>
  PROVE  sent[c] > 0 \/ incoming[c] # <<>> \/ pc[Loop(c)] = "loop"
<1> DEFINE S == sent[c] > 0 \/ incoming[c] # <<>> \/ pc[Loop(c)] = "loop"
<1>0. DataTypeOK
  BY DEF TypeOK
<1>1. ASSUME UNCHANGED dataVars PROVE S
  BY <1>1 DEF dataVars, streamVars
<1>2. ASSUME Dequeue PROVE S
  BY <1>2 DEF Dequeue, streamVars
<1>3. ASSUME NEW d \in Children, ReadOp(d) \/ FinishOp(d) PROVE S
  <2>1. UNCHANGED sent /\ (incoming'[c] # <<>> => incoming[c] # <<>>)
    BY <1>0, <1>3, OpsFrame
  <2>2. QED
    BY <2>1
<1>4. ASSUME NEW d \in Children, ReadChannel(d) \/ CloseChannel(d) PROVE S
  BY <1>0, <1>4 DEF ReadChannel, CloseChannel, Receive, ReceiveEof, DataTypeOK
<1>5. ASSUME NEW d \in Children, QueueChild(d) PROVE S
  BY <1>5 DEF QueueChild, Enqueue, streamVars
<1> HIDE DEF S
<1>6. UNCHANGED vars => UNCHANGED dataVars
  BY DEF vars
<1>7. S
  BY <1>1, <1>2, <1>3, <1>4, <1>5, <1>6, Steps, QuietSteps DEF QuietData
<1>8. QED
  BY <1>7 DEF S

LEMMA UnreadNext == TypeOK /\ Places /\ HandOver /\ Unread /\ [Next]_vars => Unread'
<1> SUFFICES ASSUME TypeOK, Places, HandOver, Unread, [Next]_vars, NEW c \in Children
             PROVE  /\ activated'[c] => Taken(c)'
                    /\ pc'[Loop(c)] \in Reading => activated'[c]
                    /\ sent'[c] > 0 \/ incoming'[c] # <<>> => activated'[c]
  BY DEF Unread, Reading
<1>0. /\ ThreadsOK /\ activated \in [Children -> BOOLEAN] /\ Loop(c) \in Threads
      /\ Loop(c) # Worker(c) /\ Worker(c) \in Threads
  BY TypeThreads, ThreadFacts, SocketFacts DEF TypeOK, SelectorsTypeOK
<1>1. ASSUME activated'[c] PROVE Taken(c)'
  <2>1. CASE activated[c]
    BY <2>1, TakenKept DEF Unread
  <2>2. CASE SubmitRejected(c)
    <3>1. /\ Fresh(c) /\ pc'[Loop(c)] = "closed" /\ pc'[Worker(c)] = pc[Worker(c)]
          /\ childQueue' = childQueue
      BY <1>0, <2>2 DEF SubmitRejected, Fresh, Goto, ThreadsOK, dataVars
    <3>2. pc[Worker(c)] = "idle" /\ ~Queued(c)
      BY <3>1 DEF HandOver
    <3>3. QED
      BY <3>1, <3>2 DEF Taken, Fresh, Queues, Queued
  <2>3. CASE \E t \in Threads : pc[t] = "activate" /\ at[t] = c
    BY <2>3, TakenKept DEF HandOver, Handles
  <2>4. QED
    BY <1>1, <2>1, <2>2, <2>3, ActivatedSteps
<1>2. ASSUME pc'[Loop(c)] \in Reading PROVE activated'[c]
  <2>1. pc[Loop(c)] \in Reading => activated[c]
    BY DEF Unread, Reading
  <2>2. SubmitRejected(c) => activated'[c]
    BY <1>0 DEF SubmitRejected
  <2>3. QED
    BY <1>0, <1>2, <2>1, <2>2, LoopMoves, ActivatedSteps
<1>3. ASSUME sent'[c] > 0 \/ incoming'[c] # <<>> PROVE activated'[c]
  BY <1>3, ReadingSteps, ActivatedSteps DEF Unread
<1>4. QED
  BY <1>1, <1>2, <1>3

LEMMA HandOverInit == Init => HandOver /\ Unread
<1> SUFFICES ASSUME Init PROVE HandOver /\ Unread
  OBVIOUS
<1>1. HandOver
  BY ThreadFacts, SocketFacts
  DEF Init, DataInit, SelectorsInit, HandOver, Fresh, Queues, Queued, Handles
<1>2. Unread
  <2> SUFFICES ASSUME NEW c \in Children
               PROVE  ~activated[c] /\ pc[Loop(c)] = "idle" /\ sent[c] = 0 /\ incoming[c] = <<>>
    BY DEF Unread
  <2>1. QED
    BY ThreadFacts, SocketFacts DEF Init, DataInit, SelectorsInit
<1>3. QED
  BY <1>1, <1>2

THEOREM HandOverInvariant == Spec => [](TypeOK /\ Places /\ HandOver /\ Unread)
<1>1. HandOver /\ Unread /\ TypeOK /\ Places /\ [Next]_vars => HandOver' /\ Unread'
  BY HandOverNext, UnreadNext
<1>2. QED
  BY <1>1, HandOverInit, TypesInvariant, PTL DEF Spec

\* Nothing is read from a connection before the program has taken it and said how it is to
\* be used, however many connections are made, queued and closed at the same time.
THEOREM BarrierKeptHolds == Spec => []BarrierKept
<1>1. Unread => BarrierKept
  BY DEF Unread, BarrierKept, Taken, Queues, Queued
<1>2. QED
  BY <1>1, HandOverInvariant, PTL
------------------------------------------------------------------------------
\* No wake-up is lost.  A select that holds the lock of its condition cannot be notified;
\* a socket that it has found empty is still empty, or somebody is on the way to notify
\* it, and gets the lock only when it waits.  Empty means that there is nothing to read,
\* with what a thread in recv() has at hand: it can be read again when it is stored.
Entering(t) == pc[t] \in {"s_register", "s_add"} \/ (pc[t] = "activate" /\ cont[t] = "s_add")
Testing(t) == pc[t] \in {"s_test", "s_decide"}

\* Nobody needs to tell select t about s, or somebody will.
Covered(s, t) == Filled(s) => Informing(s, t)

Wakes(t) ==
    /\ Entering(t) \/ Testing(t) => cv[t] = t
    /\ Entering(t) => \A s \in watch[t] : s \in left[t] \/ t \in selectors[s]
    /\ Testing(t) \/ pc[t] \in {"s_wait", "s_woken"} => \A s \in watch[t] : t \in selectors[s]
    /\ Testing(t) => \A s \in watch[t] : \/ s \in left[t] \/ s \in ready[t] \/ s \in unseen[t]
                                         \/ Covered(s, t)
    /\ pc[t] = "s_decide" => left[t] = {}
    /\ pc[t] = "s_wait" => \A s \in watch[t] \ unseen[t] : Covered(s, t)

Alerts(t) ==
    \A s \in Sockets : t \in selectors[s] /\ Covered(s, t) => Covered(s, t)'

LEMMA SparedWakes ==
  ASSUME NEW t \in Users, Wakes(t), watch[t] \subseteq Sockets, Spares(t),
         Entering(t) \/ Testing(t) \/ pc'[t] = "s_wait" => Alerts(t)
  PROVE  Wakes(t)'
  BY DEF Wakes, Spares, Alerts, Entering, Testing

\* Somebody who is on the way to notify t is not distracted by others.
LEMMA InformingKept ==
  ASSUME NEW t,
         \A u \in Threads : Stays(u) \/ pc[u] \notin {"snapshot", "notify"},
         \A u \in Threads : t \in todo[u] => t \in todo'[u]
  PROVE  \A s \in Sockets : Informing(s, t) => Informing(s, t)'
  BY DEF Informing, Stays

LEMMA FilledOps ==
  ASSUME DataTypeOK, NEW c \in Children, NEW s \in Sockets, ReadOp(c) \/ FinishOp(c)
  PROVE  Filled(s)' => Filled(s)
<1> DEFINE F == Filled(s)' => Filled(s)
<1>1. CASE UNCHANGED dataVars
  BY <1>1 DEF dataVars, streamVars, Filled
<1>2. CASE Take(c)
  <2>1. CASE s = c
    BY <1>2, <2>1, SocketFacts DEF Take, Filled
  <2>2. CASE s # c
    BY <1>2, <2>2 DEF Take, Filled, DataTypeOK, Sockets
  <2>3. QED
    BY <2>1, <2>2
<1>3. CASE Store(c) \/ Load(c)
  BY <1>3 DEF Store, Load, Filled, DataTypeOK, Sockets
<1>4. CASE ReadEof(c) \/ EndRead(c) \/ FailRead(c) \/ Reset(c)
  <2>1. NoMessage \notin Messages
    BY DEF NoMessage, Messages
  <2>2. /\ UNCHANGED <<incoming, rest, childQueue>>
        /\ \A d \in Children : /\ head'[d] \in {head[d], NoMessage}
                               /\ msg'[d] \in {msg[d], NoMessage}
    BY <1>4 DEF ReadEof, EndRead, FailRead, Reset, DataTypeOK
  <2>3. QED
    BY <2>1, <2>2 DEF Filled, Sockets
<1>5. ASSUME NEW m, Release(c, m) PROVE F
  BY <1>5 DEF Release, Filled
<1>6. ASSUME NEW n \in 1 .. MsgSize, ReadBytes(c, n) PROVE F
  <2>1. UNCHANGED <<incoming, head, childQueue>>
    BY <1>6 DEF ReadBytes
  <2>2. /\ rest'[s] = rest[s] \/ s = c
        /\ msg'[s] \in Messages => msg[s] \in Messages
    BY <1>6 DEF ReadBytes, DataTypeOK, NoMessage, Messages
  <2>3. s = c => (rest'[s] # <<>> => rest[s] # <<>>)
    <3>1. rest[c] = <<>> => Len(rest[c]) = 0
      OBVIOUS
    <3>2. rest[c] = <<>> => rest'[c] = SubSeq(rest[c], 1, 0)
      BY <1>6, <3>1, RealSocketAssumption DEF ReadBytes, DataTypeOK
    <3>3. SubSeq(<<>>, 1, 0) = <<>>
      OBVIOUS
    <3>4. QED
      BY <3>2, <3>3
  <2>4. QED
    BY <2>1, <2>2, <2>3 DEF Filled
<1>7. CASE Drain(c)
  BY <1>7 DEF Drain, Filled, DataTypeOK, Sockets
<1>8. QED
  BY <1>1, <1>2, <1>3, <1>4, <1>5, <1>6, <1>7 DEF ReadOp, FinishOp

LEMMA FillingOps ==
  ASSUME DataTypeOK, NEW c \in Children, NEW s \in Sockets
  PROVE  /\ (Receive(c) \/ ReceiveEof(c)) /\ s # c => (Filled(s)' => Filled(s))
         /\ Enqueue(c) /\ s # Server => (Filled(s)' => Filled(s))
  BY DEF Receive, ReceiveEof, Enqueue, Filled, DataTypeOK, Sockets, streamVars

LEMMA QuietFilled ==
  ASSUME TypeOK, Places, QuietStep, NEW s \in Sockets
  PROVE  Filled(s)' => Filled(s)
<1>1. DataTypeOK
  BY DEF TypeOK
<1>2. CASE UNCHANGED dataVars
  BY <1>2 DEF dataVars, streamVars, Filled
<1>3. CASE Dequeue
  BY <1>1, <1>3 DEF Dequeue, Filled, DataTypeOK, streamVars
<1>4. QED
  BY <1>1, <1>2, <1>3, QuietSteps, FilledOps DEF QuietData

\* Who notifies t finishes, or gets the lock of t.
LEMMA NotifierAlerts ==
  ASSUME TypeOK, Places, NEW t \in Users, Wakes(t), NEW a \in Threads, Notifies(a),
         Entering(t) \/ Testing(t) \/ pc'[t] = "s_wait"
  PROVE  Alerts(t)
<1>1. ThreadsOK /\ todo \in [Threads -> SUBSET Registrable] /\ t # Poll /\ t \in Threads
  BY TypeThreads, SelectorsAssumption, SocketFacts DEF TypeOK, SelectorsTypeOK
<1>2. \A u \in Threads \ {a} : Stays(u)
  BY <1>1, Actors, LoopPlaces, WorkerPlaces
<1>3. at[a] \in Sockets
  BY NotifierAt
<1>4. \A u \in Threads \ {a} : todo'[u] = todo[u]
  BY <1>1 DEF Notifies, Notifying, Snapshot, NotifySelect, NotifyPoll, Notified
<1>5. at'[a] = at[a] /\ UNCHANGED dataVars
  BY <1>1 DEF Notifies, Notifying, Snapshot, NotifySelect, NotifyPoll, Notified, threadVars
<1>6. ASSUME NEW s \in Sockets, t \in selectors[s], Informing(s, t) PROVE Informing(s, t)'
  <2>1. PICK u \in Threads :
          at[u] = s /\ (pc[u] = "snapshot" \/ (pc[u] = "notify" /\ t \in todo[u]))
    BY <1>6 DEF Informing
  <2>2. CASE u # a
    BY <1>2, <1>4, <2>1, <2>2 DEF Informing, Stays
  <2>3. CASE u = a
    <3>1. CASE Snapshot(a)
      BY <1>1, <1>5, <1>6, <2>1, <2>3, <3>1 DEF Snapshot, Goto, Informing, ThreadsOK
    <3>2. CASE NotifySelect(a)
      <4>1. PICK x \in todo[a] \cap Users :
              /\ cv[x] = Nobody /\ todo' = [todo EXCEPT ![a] = @ \ {x}]
              /\ pc' = [pc EXCEPT ![x] = IF @ = "s_wait" THEN "s_woken" ELSE @]
        BY <3>2 DEF NotifySelect
      <4>2. pc[a] = "notify" /\ pc'[a] = pc[a]
        BY <1>1, <3>2, <4>1 DEF NotifySelect, ThreadsOK
      <4>3. x # t
        BY <1>1, <4>1, SelectorsAssumption DEF Wakes, ThreadsOK, Threads
      <4>4. t \in todo'[a]
        BY <1>1, <2>1, <2>3, <4>1, <4>2, <4>3
      <4>5. QED
        BY <1>5, <2>1, <2>3, <4>2, <4>4 DEF Informing
    <3>3. CASE NotifyPoll(a)
      BY <1>1, <1>5, <2>1, <2>3, <3>3 DEF NotifyPoll, threadVars, Informing
    <3>4. CASE Notified(a)
      BY <2>1, <2>3, <3>4 DEF Notified
    <3>5. QED
      BY <3>1, <3>2, <3>3, <3>4 DEF Notifies, Notifying
  <2>4. QED
    BY <2>2, <2>3
<1>7. \A s \in Sockets : Filled(s)' <=> Filled(s)
  BY <1>5 DEF Filled, dataVars, streamVars
<1>8. QED
  BY <1>6, <1>7 DEF Alerts, Covered

\* Who brings something to read is on the way to notify every selector t.
LEMMA FillingInforms ==
  ASSUME TypeOK, Places, NEW t, NEW c \in Children,
         ReadChannel(c) \/ CloseChannel(c) \/ QueueChild(c)
  PROVE  /\ \A s \in Sockets : Informing(s, t) => Informing(s, t)'
         /\ \A s \in Sockets : Filled(s)' => Filled(s) \/ Informing(s, t)'
<1>1. /\ ThreadsOK /\ DataTypeOK /\ ChildPlace(c) /\ WorkerPlace(c) /\ c \in Sockets
      /\ Loop(c) \in Threads /\ Worker(c) \in Threads
  BY TypeThreads, ThreadFacts, SocketFacts DEF TypeOK, Places
<1>2. CASE ReadChannel(c) \/ CloseChannel(c)
  <2>1. /\ pc[Loop(c)] \notin {"snapshot", "notify"} /\ todo' = todo
        /\ pc'[Loop(c)] = "snapshot" /\ at'[Loop(c)] = c
    BY <1>1, <1>2 DEF ReadChannel, CloseChannel, NotifyThen, Goto, ThreadsOK, ChildPlace
  <2>2. \A u \in Threads \ {Loop(c)} : Stays(u)
    BY <1>1, <1>2, LoopPlaces
  <2>3. \A s \in Sockets : Informing(s, t) => Informing(s, t)'
    BY <1>1, <2>1, <2>2, InformingKept
  <2>4. Informing(c, t)'
    BY <1>1, <2>1 DEF Informing
  <2>5. \A s \in Sockets \ {c} : Filled(s)' => Filled(s)
    BY <1>1, <1>2, FillingOps DEF ReadChannel, CloseChannel
  <2>6. QED
    BY <2>3, <2>4, <2>5
<1>3. CASE QueueChild(c)
  <2>1. /\ pc[Worker(c)] \notin {"snapshot", "notify"} /\ todo' = todo
        /\ pc'[Worker(c)] = "snapshot" /\ at'[Worker(c)] = Server
    BY <1>1, <1>3 DEF QueueChild, Goto, ThreadsOK, WorkerPlace
  <2>2. \A u \in Threads \ {Worker(c)} : Stays(u)
    BY <1>1, <1>3, WorkerPlaces
  <2>3. \A s \in Sockets : Informing(s, t) => Informing(s, t)'
    BY <1>1, <2>1, <2>2, InformingKept
  <2>4. Informing(Server, t)'
    BY <1>1, <2>1 DEF Informing
  <2>5. \A s \in Sockets \ {Server} : Filled(s)' => Filled(s)
    BY <1>1, <1>3, FillingOps DEF QueueChild
  <2>6. QED
    BY <2>3, <2>4, <2>5
<1>4. QED
  BY <1>2, <1>3

LEMMA FillingAlerts ==
  ASSUME TypeOK, Places, NEW t, NEW c \in Children,
         ReadChannel(c) \/ CloseChannel(c) \/ QueueChild(c)
  PROVE  Alerts(t)
  BY FillingInforms DEF Alerts, Covered

\* The steps that neither bring something to read nor notify.
CalmStep ==
  \/ \E x \in Users : Call(x) \/ Running(x) \/ Expiring(x) \/ Activating(x)
  \/ \E c \in Children : \/ Connect(c) \/ Barrier(c) \/ LockChild(c) \/ UnlockChild(c)
                         \/ Finish(c) \/ Collect(c)
  \/ Stopping \/ Closing(Finalizer) \/ Activating(Loop(Server)) \/ Activating(Finalizer)

\* Nobody who is on the way to notify t is stopped by somebody else.
LEMMA QuietInforms ==
  ASSUME TypeOK, Places, HandOver, NEW t, CalmStep,
         \A u \in Threads : t \in todo[u] => t \in todo'[u]
  PROVE  \A s \in Sockets : /\ Informing(s, t) => Informing(s, t)'
                            /\ Filled(s)' => Filled(s)
<1>1. ThreadsOK /\ \A u \in Users : UserPlace(u) /\ u \in Threads
  BY TypeThreads, SocketFacts DEF Places
<1> DEFINE Kept == \A u \in Threads : Stays(u) \/ pc[u] \notin {"snapshot", "notify"}
<1>2. ASSUME NEW x \in Users, Call(x) \/ Running(x) \/ Expiring(x) \/ Activating(x) PROVE Kept
  BY <1>1, <1>2, UserPlaces DEF UserPlace
<1>3. ASSUME NEW c \in Children,
             Connect(c) \/ SubmitRejected(c) \/ Activated(c) \/ Finish(c)
      PROVE  Kept
  <2>1. pc[Loop(c)] \notin {"snapshot", "notify"}
    BY <1>3, FinishFrame DEF Connect, SubmitRejected, Activated, Disposes
  <2>2. QED
    BY <1>1, <1>3, <2>1, LoopPlaces
<1>4. ASSUME NEW c \in Children, LockChild(c) \/ UnlockChild(c) PROVE Kept
  <2>1. pc[Worker(c)] \notin {"snapshot", "notify"}
    BY <1>4 DEF LockChild, UnlockChild
  <2>2. QED
    BY <1>1, <1>4, <2>1, WorkerPlaces
<1>5. ASSUME NEW c \in Children, Submit(c) PROVE Kept
  <2>1. /\ Loop(c) \in Threads /\ Worker(c) \in Threads /\ Loop(c) # Worker(c)
        /\ pc[Loop(c)] \notin {"snapshot", "notify"}
    BY <1>5, ThreadFacts, SocketFacts DEF Submit
  <2>2. \A u \in Threads \ {Loop(c), Worker(c)} : Stays(u)
    BY <1>1, <1>5, <2>1 DEF Submit, Stays, At, Goto, ThreadsOK, pollVars
  <2>3. pc[Worker(c)] \notin {"snapshot", "notify"}
    BY <1>5 DEF HandOver, Fresh, Submit
  <2>4. QED
    BY <2>1, <2>2, <2>3
<1>6. ASSUME \/ Closing(Finalizer) \/ Activating(Finalizer)
             \/ \E c \in Children : Collect(c)
      PROVE  Kept
  BY <1>1, <1>6, FinalizerPlaces DEF Places, FinalizerPlace
<1>7. ASSUME Stopping \/ Activating(Loop(Server)) PROVE Kept
  BY <1>1, <1>7, ServerPlaces DEF Places, ServerPlace
<1> HIDE DEF Kept
<1>8. Kept
  BY <1>2, <1>3, <1>4, <1>5, <1>6, <1>7 DEF CalmStep, Barrier
<1>9. \A s \in Sockets : Informing(s, t) => Informing(s, t)'
  BY <1>8, InformingKept DEF Kept
<1>10. \A s \in Sockets : Filled(s)' => Filled(s)
  BY QuietFilled, ThreadFacts, SocketFacts DEF CalmStep, QuietStep
<1>11. QED
  BY <1>9, <1>10

LEMMA QuietAlerts ==
  ASSUME TypeOK, Places, HandOver, NEW t, CalmStep,
         \A u \in Threads : t \in todo[u] => t \in todo'[u]
  PROVE  Alerts(t)
  BY QuietInforms DEF Alerts, Covered

\* Steps of t itself.
LEMMA OwnSelect ==
  ASSUME TypeOK, Places, NEW t \in Users, Wakes(t), Alerts(t), Selecting(t) \/ Expire(t)
  PROVE  Wakes(t)'
<1>0. /\ t \in Threads /\ pc \in [Threads -> Labels] /\ cont \in [Threads -> Labels]
      /\ at \in [Threads -> Sockets \cup {NoSocket}] /\ UserPlace(t)
      /\ selectors \in [Sockets -> SUBSET Registrable] /\ t \in Registrable
      /\ cv \in [Users -> Users \cup {Nobody}] /\ watch \in [Users -> SUBSET Sockets]
      /\ left \in [Users -> SUBSET Sockets] /\ ready \in [Users -> SUBSET Sockets]
      /\ unseen \in [Users -> SUBSET Sockets]
  BY SocketFacts DEF TypeOK, SelectorsTypeOK, Places, Registrable
<1> USE <1>0 DEF Wakes, Entering, Testing, Goto, At
<1>1. CASE RegisterNext(t)
  BY <1>1 DEF RegisterNext, Enter, selectVars
<1>2. CASE AddSelector(t)
  BY <1>2 DEF AddSelector, UserPlace
<1>3. CASE TestSocket(t)
  <2>1. PICK s \in left[t] \ closed :
          /\ left' = [left EXCEPT ![t] = @ \ {s}]
          /\ ready' = [ready EXCEPT ![t] = IF Readable(s) THEN @ \cup {s} ELSE @]
          /\ unseen' = [unseen EXCEPT ![t] = IF Overlooks(s) THEN @ \cup {s} ELSE @]
          /\ Goto(t, IF left[t] = {s} THEN "s_decide" ELSE "s_test")
    BY <1>3 DEF TestSocket
  <2>2. /\ watch' = watch /\ selectors' = selectors /\ cv' = cv /\ pc[t] = "s_test"
        /\ Filled(s)' = Filled(s)
    BY <1>3 DEF TestSocket, Filled, dataVars, streamVars
  <2>3. \A r \in watch[t] : r \in left'[t] \/ r \in ready'[t] \/ r \in unseen'[t] \/ Covered(r, t)'
    <3> SUFFICES ASSUME NEW r \in watch[t]
                 PROVE  r \in left'[t] \/ r \in ready'[t] \/ r \in unseen'[t] \/ Covered(r, t)'
      OBVIOUS
    <3>0. /\ left[t] \ {s} = left'[t] /\ ready[t] \subseteq ready'[t]
          /\ unseen[t] \subseteq unseen'[t]
          /\ Readable(s) => s \in ready'[t]
          /\ Overlooks(s) => s \in unseen'[t]
      BY <2>1
    <3>1. CASE r = s
      BY <2>2, <3>0, <3>1 DEF Covered, Overlooks
    <3>2. CASE r # s
      BY <2>2, <3>0, <3>2 DEF Alerts
    <3>3. QED
      BY <3>1, <3>2
  <2>4. pc'[t] = "s_decide" => left'[t] = {}
    BY <2>1
  <2>5. pc'[t] \in {"s_decide", "s_test"}
    BY <2>1
  <2>6. QED
    BY <2>2, <2>3, <2>4, <2>5
<1>4. CASE TestRaises(t) \/ Unregister(t)
  BY <1>4 DEF TestRaises, Unregister, LeaveSelect
<1>5. CASE Decide(t)
  BY <1>5 DEF Decide
<1>6. CASE Wait(t)
  BY <1>6 DEF Wait, Alerts
<1>7. CASE WakeUp(t)
  BY <1>7 DEF WakeUp
<1>8. CASE Expire(t)
  BY <1>8 DEF Expire, selectVars
<1>9. QED
  BY <1>1, <1>2, <1>3, <1>4, <1>5, <1>6, <1>7, <1>8 DEF Selecting

LEMMA OwnOther ==
  ASSUME TypeOK, Places, NEW t \in Users, Wakes(t),
         Call(t) \/ Polling(t) \/ PollExpires(t) \/ Accepting(t) \/ Receiving(t) \/ Closing(t)
         \/ Activating(t)
  PROVE  Wakes(t)'
<1>0. /\ t \in Threads /\ pc \in [Threads -> Labels] /\ cont \in [Threads -> Labels]
      /\ UserPlace(t) /\ cv \in [Users -> Users \cup {Nobody}]
      /\ watch \in [Users -> SUBSET Sockets] /\ left \in [Users -> SUBSET Sockets]
  BY SocketFacts DEF TypeOK, SelectorsTypeOK, Places
<1> DEFINE Out == ~Entering(t)' /\ ~Testing(t)' /\ pc'[t] \notin {"s_wait", "s_woken"}
<1> USE <1>0 DEF Entering, Testing, Goto, At
<1>1. ASSUME NEW S, CallSelect(t, S) PROVE Wakes(t)'
  BY <1>1 DEF CallSelect, Wakes
<1>2. ASSUME NEW s, NEW m, CallRegister(t, s, m) PROVE Out
  BY <1>2 DEF CallRegister, Enter
<1>3. ASSUME NEW s, NEW m, Modify(t, s, m) \/ CallUnregister(t, s) \/ CallPoll(t) PROVE Out
  BY <1>3 DEF Modify, CallUnregister, CallPoll, threadVars
<1>4. ASSUME NEW c, CallRecv(t, c) \/ CallClose(t, c) \/ CallAccept(t) \/ CloseServer(t)
      PROVE  Out
  BY <1>4 DEF CallRecv, CallClose, CallAccept, CloseServer, Enter, threadVars
<1>5. ASSUME Polling(t) \/ PollExpires(t) PROVE Out
  BY <1>5 DEF Polling, AddPoll, NotifyFirst, RemovePoll, TakeNotifications, TestNotification,
              PollRaises, Repump, PollExpires, LeavePoll
<1>6. ASSUME Accepting(t) \/ Receiving(t) PROVE Out
  BY <1>6, RecvFrame, TypeThreads
  DEF Accepting, TakeChild, NoChild, CountChild, Receives, RecvLabels, recvVars, Return
<1>7. ASSUME Closing(t) PROVE Out
  BY <1>7 DEF Closing, CloseChild, UncountChild
<1>8. ASSUME Activating(t) PROVE Wakes(t)'
  <2>1. /\ at[t] \in Children /\ cont[t] \in {"s_add", "g_add", "r_take", "k_close"}
        /\ t # Loop(at[t])
    BY <1>8, ThreadFacts, SocketFacts DEF Activating, MakeActive, UserPlace
  <2>2. pc'[t] = cont[t] /\ UNCHANGED <<cv, watch, left, selectors>>
    <3>1. CASE activated[at[t]]
      BY <1>8, <2>1, <3>1 DEF Activating, MakeActive, selectVars
    <3>2. CASE ~activated[at[t]]
      BY <1>8, <2>1, <3>2 DEF Activating, MakeActive, selectVars
    <3>3. QED
      BY <3>1, <3>2
  <2>3. pc[t] = "activate" /\ cont'[t] = "idle"
    BY <1>8 DEF Activating, MakeActive
  <2>4. CASE cont[t] = "s_add"
    BY <2>2, <2>3, <2>4 DEF Wakes
  <2>5. CASE cont[t] # "s_add"
    BY <2>1, <2>2, <2>3, <2>5 DEF Wakes
  <2>6. QED
    BY <2>4, <2>5
<1> HIDE DEF Entering, Testing, Goto, At
<1>9. Out => Wakes(t)'
  BY DEF Wakes, Testing
<1> HIDE DEF Out
<1>10. CASE Call(t)
  BY <1>1, <1>2, <1>3, <1>4, <1>9, <1>10 DEF Call
<1>11. QED
  BY <1>5, <1>6, <1>7, <1>8, <1>9, <1>10

\* What a thread has still to notify is forgotten only when a select is left.
LEMMA CalmTodo ==
  ASSUME TypeOK, Places, CalmStep, NEW t, NEW u \in Threads, t \in todo[u]
  PROVE  t \in todo'[u] \/ (t \in Users /\ (TestRaises(t) \/ Unregister(t)))
<1> DEFINE T == t \in todo'[u] \/ (t \in Users /\ (TestRaises(t) \/ Unregister(t)))
<1>1. ASSUME todo' = todo PROVE T
  BY <1>1
<1>2. ASSUME NEW x \in Users, TestRaises(x) \/ Unregister(x) PROVE T
  BY <1>2 DEF TestRaises, Unregister, LeaveSelect
<1>3. ASSUME NEW x \in Users, \/ RegisterNext(x) \/ AddSelector(x) \/ TestSocket(x) \/ Decide(x)
                              \/ Wait(x) \/ WakeUp(x) \/ Expiring(x)
      PROVE  todo' = todo
  BY <1>3 DEF RegisterNext, AddSelector, TestSocket, Decide, Wait, WakeUp, Expiring, Expire,
              PollExpires
<1>4. ASSUME NEW x \in Users, Polling(x) \/ Accepting(x) \/ Receiving(x) PROVE todo' = todo
  BY <1>4, RecvFrame, TypeThreads
  DEF Polling, AddPoll, NotifyFirst, RemovePoll, TakeNotifications, TestNotification, PollRaises,
      Repump, Accepting, TakeChild, NoChild, CountChild, Receives, recvVars
<1>5. ASSUME NEW x \in Users, Call(x) PROVE todo' = todo
  BY <1>5 DEF Call, CallSelect, CallRegister, Modify, CallUnregister, CallPoll, CallRecv,
              CallClose, CallAccept, CloseServer
<1>6. ASSUME NEW x, Closing(x) \/ Activating(x) PROVE todo' = todo
  BY <1>6 DEF Closing, CloseChild, UncountChild, Activating, MakeActive
<1>7. ASSUME NEW c \in Children, \/ Connect(c) \/ Barrier(c) \/ LockChild(c) \/ UnlockChild(c)
                                 \/ Finish(c) \/ Collect(c)
      PROVE  todo' = todo
  BY <1>7, FinishFrame
  DEF Connect, Barrier, Submit, SubmitRejected, Activated, LockChild, UnlockChild, Disposes,
      Collect
<1>8. Stopping => todo' = todo
  BY DEF Stopping, ShutDownParent, UncountParent, CloseLeftover, PollLeftover
<1> HIDE DEF T
<1>9. T
  BY <1>1, <1>2, <1>3, <1>4, <1>5, <1>6, <1>7, <1>8 DEF CalmStep, Running, Selecting
<1>10. QED
  BY <1>9 DEF T

LEMMA WakesNext ==
  ASSUME TypeOK, Places, HandOver, [Next]_vars, NEW t \in Users, Wakes(t)
  PROVE  Wakes(t)'
<1>0. watch[t] \subseteq Sockets /\ UserPlace(t) /\ t \in Threads
  BY SocketFacts DEF TypeOK, SelectorsTypeOK, Places
<1>1. CASE UNCHANGED vars
  BY <1>1 DEF vars, selectorVars, threadVars, selectVars, dataVars, streamVars, Wakes, Entering,
              Testing, Covered, Filled, Informing
<1>2. ASSUME TestRaises(t) \/ Unregister(t) PROVE Wakes(t)'
  <2>1. pc'[t] = "idle"
    BY <1>0, <1>2 DEF TestRaises, Unregister, LeaveSelect, Goto, TypeOK, SelectorsTypeOK
  <2>2. QED
    BY <2>1 DEF Wakes, Entering, Testing
<1>3. ASSUME CalmStep, ~TestRaises(t), ~Unregister(t) PROVE Alerts(t)
  BY <1>3, CalmTodo, QuietAlerts
<1>4. ASSUME NEW x \in Users, x # t, Call(x) \/ Running(x) \/ Expiring(x) \/ Activating(x)
      PROVE  Wakes(t)'
  BY <1>0, <1>2, <1>3, <1>4, UserSpares, SparedWakes DEF CalmStep
<1>5. ASSUME Call(t) \/ Running(t) \/ Expiring(t) \/ Activating(t) PROVE Wakes(t)'
  <2>1. CalmStep
    BY <1>5 DEF CalmStep
  <2>2. CASE Selecting(t) \/ Expire(t)
    BY <1>2, <1>3, <2>1, <2>2, OwnSelect
  <2>3. QED
    BY <1>5, <2>2, OwnOther DEF Running, Expiring
<1>6. ASSUME ServiceStep PROVE Wakes(t)'
  <2>1. ASSUME NEW a \in Threads, Notifies(a) PROVE Wakes(t)'
    BY <1>0, <1>6, <2>1, NotifierAlerts, ServiceSpares, SparedWakes
  <2>2. ASSUME NEW c \in Children, ReadChannel(c) \/ CloseChannel(c) \/ QueueChild(c)
        PROVE  Wakes(t)'
    BY <1>0, <1>6, <2>2, FillingAlerts, ServiceSpares, SparedWakes
  <2>3. ASSUME CalmStep PROVE Wakes(t)'
    BY <1>0, <1>2, <1>3, <1>6, <2>3, ServiceSpares, SparedWakes
  <2>4. QED
    BY <1>6, <2>1, <2>2, <2>3, ThreadFacts, SocketFacts DEF ServiceStep, CalmStep, Queueing
<1>7. QED
  BY <1>1, <1>4, <1>5, <1>6, ActorSteps

\* A select that waits although a socket it watches can be read is going to be notified,
\* however many threads select, poll, read, accept and close at the same time, unless it
\* has looked while recv() had a message of that socket at hand.
THEOREM NoLostNotificationHolds == Spec => []NoLostNotification
<1> DEFINE W == \A t \in Users : Wakes(t)
<1>1. Init => W
  BY SocketFacts DEF Init, SelectorsInit, Wakes, Entering, Testing
<1>2. TypeOK /\ Places /\ HandOver /\ W /\ [Next]_vars => W'
  BY WakesNext
<1>3. W => NoLostNotification
  BY DEF Wakes, NoLostNotification, Covered, Readable, Filled
<1>4. QED
  BY <1>1, <1>2, <1>3, HandOverInvariant, PTL DEF Spec
------------------------------------------------------------------------------
(* The poll object.  A registered socket that has it in its list, and something to read, *)
(* is remembered in the queue, by a notifier, or by a thread that registers it or has     *)
(* taken its notification.                                                                *)
Registering(t, s) ==
    at[t] = s /\ (pc[t] = "g_add" \/ (pc[t] = "activate" /\ cont[t] = "g_add"))

Remembers(t, s) ==
    \/ Registering(t, s)
    \/ at[t] = s /\ pc[t] = "g_put"
    \/ \E i \in DOMAIN batch[t] : batch[t][i].sock = s
    \/ pc[t] \in {"p_test", "p_repump"} /\ s \in ready[t]

Noted(s) == \E i \in DOMAIN pollQueue : pollQueue[i].sock = s

Wanted(s) == s \notin overlooked \cup closed /\ "in" \in registered[s] /\ Poll \in selectors[s]

Tracked(s) ==
    Wanted(s) /\ Filled(s)
    => Noted(s) \/ Informing(s, Poll) \/ \E t \in Users : Remembers(t, s)

Emptied(t) == pc[t] # "p_test" => batch[t] = <<>>

Levels == (\A s \in Sockets : Tracked(s)) /\ \A t \in Users : Emptied(t)

\* A sequence without its first element, and one with another at its end.
LEMMA TailFacts ==
  ASSUME NEW S, NEW q \in Seq(S), q # <<>>
  PROVE  /\ Tail(q) \in Seq(S) /\ Len(q) \in Nat \ {0} /\ DOMAIN q = 1 .. Len(q)
         /\ DOMAIN Tail(q) = 1 .. Len(q) - 1 /\ Len(Tail(q)) = Len(q) - 1
         /\ \A i \in 1 .. Len(q) - 1 : Tail(q)[i] = q[i + 1]
         /\ Head(q) = q[1]
  OBVIOUS

LEMMA AppendFacts ==
  ASSUME NEW S, NEW q \in Seq(S), NEW x \in S
  PROVE  /\ Append(q, x) \in Seq(S) /\ Len(q) \in Nat /\ DOMAIN q = 1 .. Len(q)
         /\ DOMAIN Append(q, x) = 1 .. Len(q) + 1 /\ Len(Append(q, x)) = Len(q) + 1
         /\ \A i \in 1 .. Len(q) : Append(q, x)[i] = q[i]
         /\ Append(q, x)[Len(q) + 1] = x
  OBVIOUS

\* A sequence cut after its first k elements.
LEMMA CutFacts ==
  ASSUME NEW S, NEW q \in Seq(S), NEW k \in Nat, k <= Len(q)
  PROVE  /\ SubSeq(q, k + 1, Len(q)) \in Seq(S) /\ SubSeq(q, 1, k) \in Seq(S)
         /\ Len(SubSeq(q, k + 1, Len(q))) = Len(q) - k /\ Len(SubSeq(q, 1, k)) = k
         /\ DOMAIN SubSeq(q, k + 1, Len(q)) = 1 .. Len(q) - k
         /\ \A i \in 1 .. Len(q) - k : /\ k + i \in 1 .. Len(q)
                                      /\ SubSeq(q, k + 1, Len(q))[i] = q[k + i]
         /\ \A i \in 1 .. k : SubSeq(q, 1, k)[i] = q[i]
  OBVIOUS

\* Adding one notification to the queue.
LEMMA NoteAppended ==
  ASSUME pollQueue \in Seq(Notes), NEW n \in Notes, pollQueue' = Append(pollQueue, n)
  PROVE  \A s : Noted(s)' <=> Noted(s) \/ s = n.sock
<1>1. /\ DOMAIN pollQueue = 1 .. Len(pollQueue) /\ Len(pollQueue) \in Nat
      /\ DOMAIN pollQueue' = 1 .. Len(pollQueue) + 1
      /\ \A i \in 1 .. Len(pollQueue) : pollQueue'[i] = pollQueue[i]
      /\ pollQueue'[Len(pollQueue) + 1] = n
  BY AppendFacts
<1>2. /\ Len(pollQueue) + 1 \in DOMAIN pollQueue' /\ DOMAIN pollQueue \subseteq DOMAIN pollQueue'
      /\ \A i \in DOMAIN pollQueue' : i \in DOMAIN pollQueue \/ i = Len(pollQueue) + 1
  BY <1>1
<1>3. QED
  BY <1>1, <1>2 DEF Noted

LEMMA SparedRemembers ==
  ASSUME NEW t \in Users, Spares(t)
  PROVE  /\ \A s \in Sockets : /\ Registering(t, s) => Registering(t, s)'
                               /\ Remembers(t, s) => Remembers(t, s)'
         /\ Emptied(t) => Emptied(t)'
  BY DEF Spares, Registering, Remembers, Emptied

\* What a step of user thread x does to the sockets: one that was wanted and remembered,
\* by the queue or x itself, still is.
TracksOn(x) ==
    \A s \in Sockets : Wanted(s)' /\ Filled(s) =>
        \/ Noted(s)' \/ Remembers(x, s)'
        \/ Wanted(s) /\ ~Noted(s) /\ ~Remembers(x, s)

Minds(x) == TracksOn(x) /\ Emptied(x)'

\* Steps in which x does nothing to the poll object.
Idles(x) ==
    /\ UNCHANGED pollVars /\ closed \subseteq closed'
    /\ \A s \in Sockets : Poll \in selectors'[s] => Poll \in selectors[s]

LEMMA IdleMinds ==
  ASSUME NEW x \in Users, Emptied(x), Idles(x),
         pc[x] \notin {"activate", "g_add", "g_put", "p_test", "p_repump"}
  PROVE  Minds(x)
<1>1. batch[x] = <<>> /\ batch'[x] = <<>>
  BY DEF Emptied, Idles, pollVars
<1>2. \A s \in Sockets : ~Registering(x, s) /\ ~Remembers(x, s)
  BY <1>1 DEF Registering, Remembers
<1>3. \A s \in Sockets : (Wanted(s)' => Wanted(s)) /\ (Noted(s) <=> Noted(s)')
  BY DEF Idles, pollVars, Wanted, Noted
<1>4. TracksOn(x)
  BY <1>2, <1>3 DEF TracksOn
<1>5. QED
  BY <1>1, <1>4 DEF Minds, Emptied

LEMMA IdleSteps ==
  ASSUME TypeOK, Places, NEW x \in Users, Emptied(x),
         \/ \E S : CallSelect(x, S)
         \/ CallPoll(x) \/ CallAccept(x) \/ CloseServer(x)
         \/ \E c \in Children : CallRecv(x, c) \/ CallClose(x, c)
         \/ Selecting(x) \/ RemovePoll(x) \/ Expiring(x) \/ Accepting(x) \/ Receiving(x)
         \/ Closing(x)
  PROVE  Minds(x)
<1>0. /\ selectors \in [Sockets -> SUBSET Registrable] /\ x # Poll
  BY SelectorsAssumption DEF TypeOK, SelectorsTypeOK
<1> DEFINE P == Idles(x) /\ pc[x] \notin {"activate", "g_add", "g_put", "p_test", "p_repump"}
<1> USE <1>0 DEF Idles, socketVars, pollVars
<1>1. ASSUME NEW S, CallSelect(x, S) PROVE P
  BY <1>1 DEF CallSelect
<1>2. ASSUME CallPoll(x) \/ CallAccept(x) \/ CloseServer(x) PROVE P
  BY <1>2 DEF CallPoll, CallAccept, CloseServer
<1>3. ASSUME NEW c \in Children, CallRecv(x, c) \/ CallClose(x, c) PROVE P
  BY <1>3 DEF CallRecv, CallClose
<1>4. ASSUME RegisterNext(x) \/ AddSelector(x) \/ TestSocket(x) \/ Decide(x) PROVE P
  BY <1>4 DEF RegisterNext, AddSelector, TestSocket, Decide
<1>5. ASSUME TestRaises(x) \/ Unregister(x) PROVE P
  BY <1>5 DEF TestRaises, Unregister, LeaveSelect
<1>6. ASSUME Wait(x) \/ WakeUp(x) \/ Expire(x) \/ PollExpires(x) PROVE P
  BY <1>6 DEF Wait, WakeUp, Expire, PollExpires
<1>7. ASSUME Accepting(x) PROVE P
  BY <1>7 DEF Accepting, TakeChild, NoChild, CountChild
<1>8. ASSUME Receiving(x) PROVE P
  BY <1>8, RecvFrame, TypeThreads DEF Receives, recvVars
<1>9. ASSUME Closing(x) PROVE P
  BY <1>9 DEF Closing, CloseChild, UncountChild
<1>10. ASSUME RemovePoll(x) PROVE P
  BY <1>10 DEF RemovePoll
<1> HIDE DEF P
<1>11. P
  BY <1>1, <1>2, <1>3, <1>4, <1>5, <1>6, <1>7, <1>8, <1>9, <1>10 DEF Selecting, Expiring
<1>12. QED
  BY <1>11, IdleMinds DEF P

\* Calls of register, modify and unregister.
LEMMA RegistrationMinds ==
  ASSUME TypeOK, Places, NEW x \in Users, Emptied(x), NEW s \in Sockets, NEW m,
         CallRegister(x, s, m) \/ Modify(x, s, m) \/ CallUnregister(x, s)
  PROVE  Minds(x)
<1>0. /\ x \in Threads /\ pc \in [Threads -> Labels] /\ cont \in [Threads -> Labels]
      /\ at \in [Threads -> Sockets \cup {NoSocket}]
      /\ selectors \in [Sockets -> SUBSET Registrable]
      /\ registered \in [Sockets -> SUBSET {"in", "hup"}]
  BY SocketFacts DEF TypeOK, SelectorsTypeOK
<1>1. pc[x] = "idle" /\ batch'[x] = batch[x] /\ batch[x] = <<>> /\ pollQueue' = pollQueue
  BY DEF Emptied, CallRegister, Modify, CallUnregister
<1>2. /\ \A r \in Sockets : ~Registering(x, r) /\ ~Remembers(x, r)
      /\ \A r \in Sockets : Noted(r)' <=> Noted(r)
  BY <1>1 DEF Registering, Remembers, Noted
<1>3. Emptied(x)'
  BY <1>1 DEF Emptied
<1>4. CASE CallRegister(x, s, m)
  <2>1. /\ registered' = [registered EXCEPT ![s] = m] /\ selectors' = selectors
        /\ overlooked' = overlooked /\ closed' = closed
    BY <1>4 DEF CallRegister, socketVars
  <2>2. Registering(x, s)'
    BY <1>0, <1>4 DEF CallRegister, Enter, At, Goto, Registering
  <2>3. Remembers(x, s)'
    BY <2>2 DEF Remembers
  <2>4. \A r \in Sockets \ {s} : registered'[r] = registered[r] /\ (Wanted(r)' <=> Wanted(r))
    BY <1>0, <2>1 DEF Wanted
  <2>5. TracksOn(x)
    BY <1>2, <2>3, <2>4 DEF TracksOn
  <2>6. QED
    BY <1>3, <2>5 DEF Minds
<1>5. CASE Modify(x, s, m)
  <2>1. /\ registered' = [registered EXCEPT ![s] = m] /\ selectors' = selectors
        /\ closed' = closed
        /\ overlooked' = IF m \subseteq registered[s] THEN overlooked ELSE overlooked \cup {s}
    BY <1>5 DEF Modify, socketVars
  <2>2. \A r \in Sockets : Wanted(r)' => Wanted(r)
    BY <1>0, <2>1 DEF Wanted
  <2>3. QED
    BY <1>2, <1>3, <2>1, <2>2 DEF Minds, TracksOn
<1>6. CASE CallUnregister(x, s)
  <2>1. /\ registered' = [registered EXCEPT ![s] = {}] /\ overlooked' = overlooked \ {s}
        /\ selectors' = selectors /\ closed' = closed
    BY <1>6 DEF CallUnregister, socketVars
  <2>2. registered'[s] = {} /\ ~Wanted(s)'
    BY <1>0, <2>1 DEF Wanted
  <2>3. \A r \in Sockets \ {s} : Wanted(r)' <=> Wanted(r)
    BY <1>0, <2>1 DEF Wanted
  <2>4. QED
    BY <1>2, <1>3, <2>2, <2>3 DEF Minds, TracksOn
<1>7. QED
  BY <1>4, <1>5, <1>6

\* The two steps of register that follow, and what comes before them.
LEMMA FirstMinds ==
  ASSUME TypeOK, Places, NEW x \in Users, Emptied(x),
         Activating(x) \/ AddPoll(x) \/ NotifyFirst(x)
  PROVE  Minds(x)
<1>0. /\ x \in Threads /\ pc \in [Threads -> Labels] /\ cont \in [Threads -> Labels]
      /\ at \in [Threads -> Sockets \cup {NoSocket}] /\ UserPlace(x)
      /\ selectors \in [Sockets -> SUBSET Registrable] /\ pollQueue \in Seq(Notes)
  BY SocketFacts DEF TypeOK, SelectorsTypeOK, Places
<1>1. batch'[x] = batch[x] /\ batch[x] = <<>> /\ UNCHANGED <<registered, closed>>
  BY DEF Emptied, Activating, MakeActive, AddPoll, NotifyFirst, pollVars, socketVars
<1>2. CASE Activating(x)
  <2>1. /\ at[x] \in Children /\ cont[x] \in {"s_add", "g_add", "r_take", "k_close"}
        /\ x # Loop(at[x]) /\ pc[x] = "activate"
    BY <1>0, <1>2, ThreadFacts, SocketFacts DEF Activating, MakeActive, UserPlace
  <2>2. pc'[x] = cont[x] /\ at'[x] = at[x]
    <3>1. CASE activated[at[x]]
      BY <1>0, <1>2, <2>1, <3>1 DEF Activating, MakeActive, Goto
    <3>2. CASE ~activated[at[x]]
      BY <1>0, <1>2, <2>1, <3>2 DEF Activating, MakeActive
    <3>3. QED
      BY <3>1, <3>2
  <2>3. UNCHANGED <<pollQueue, overlooked, selectors>>
    BY <1>2 DEF Activating, MakeActive, pollVars
  <2>4. \A s \in Sockets : /\ Registering(x, s) => Registering(x, s)'
                           /\ Remembers(x, s) => Remembers(x, s)'
    BY <1>1, <2>1, <2>2 DEF Registering, Remembers
  <2>5. \A s \in Sockets : (Wanted(s)' <=> Wanted(s)) /\ (Noted(s)' <=> Noted(s))
    BY <1>1, <2>3 DEF Wanted, Noted
  <2>6. Emptied(x)'
    BY <1>1 DEF Emptied
  <2>7. QED
    BY <2>4, <2>5, <2>6 DEF Minds, TracksOn
<1>3. CASE AddPoll(x)
  <2>1. /\ pc[x] = "g_add" /\ pc'[x] = "g_put" /\ at'[x] = at[x] /\ at[x] \in Sockets
        /\ selectors' = [selectors EXCEPT ![at[x]] = @ \cup {Poll}]
        /\ UNCHANGED <<pollQueue, overlooked>>
    BY <1>0, <1>3 DEF AddPoll, Goto, pollVars, UserPlace
  <2>2. \A s \in Sockets : Remembers(x, s) \/ s = at[x] => Remembers(x, s)'
    BY <1>0, <1>1, <2>1 DEF Registering, Remembers
  <2>3. \A s \in Sockets : /\ s # at[x] /\ Wanted(s)' => Wanted(s)
                           /\ Noted(s)' <=> Noted(s)
    BY <1>0, <1>1, <2>1 DEF Wanted, Noted
  <2>4. Emptied(x)'
    BY <1>1 DEF Emptied
  <2>5. QED
    BY <2>2, <2>3, <2>4 DEF Minds, TracksOn
<1>4. CASE NotifyFirst(x)
  <2>1. /\ pc[x] = "g_put" /\ pc'[x] = "idle" /\ at[x] \in Sockets /\ selectors' = selectors
        /\ pollQueue' = Append(pollQueue, Note(at[x], FALSE)) /\ overlooked' = overlooked \ {at[x]}
    BY <1>0, <1>4 DEF NotifyFirst, Goto, UserPlace
  <2>2. Note(at[x], FALSE) \in Notes /\ Note(at[x], FALSE).sock = at[x]
    BY <2>1 DEF Note, Notes
  <2>3. \A s \in Sockets : Noted(s) \/ s = at[x] => Noted(s)'
    BY <1>0, <2>1, <2>2, NoteAppended
  <2>4. \A s \in Sockets : /\ ~Registering(x, s)
                           /\ s # at[x] => ~Remembers(x, s) /\ (Wanted(s)' <=> Wanted(s))
    BY <1>1, <2>1 DEF Registering, Remembers, Wanted
  <2>5. Emptied(x)'
    BY <1>1 DEF Emptied
  <2>6. TracksOn(x)
    <3> SUFFICES ASSUME NEW s \in Sockets, Wanted(s)', s # at[x]
                 PROVE  Noted(s)' \/ (Wanted(s) /\ ~Noted(s) /\ ~Remembers(x, s))
      BY <2>3 DEF TracksOn
    <3>1. QED
      BY <2>3, <2>4
  <2>7. QED
    BY <2>5, <2>6 DEF Minds
<1>5. QED
  BY <1>2, <1>3, <1>4

LEMMA TakeMinds ==
  ASSUME TypeOK, NEW x \in Users, Emptied(x), TakeNotifications(x)
  PROVE  Minds(x)
<1>1. /\ pc[x] = "p_take" /\ pc'[x] = "p_test" /\ batch'[x] = pollQueue /\ pollQueue' = <<>>
      /\ UNCHANGED <<selectors, registered, overlooked, closed>>
  BY SocketFacts DEF TakeNotifications, Goto, TypeOK, SelectorsTypeOK, socketVars
<1>2. \A s \in Sockets : ~Registering(x, s) /\ ~Remembers(x, s)
  BY <1>1 DEF Emptied, Registering, Remembers
<1>3. \A s \in Sockets : /\ Noted(s) => Remembers(x, s)'
                         /\ Wanted(s)' <=> Wanted(s)
  BY <1>1 DEF Noted, Remembers, Wanted
<1>4. Emptied(x)'
  BY <1>1 DEF Emptied
<1>5. QED
  BY <1>1, <1>2, <1>3, <1>4 DEF Minds, TracksOn

\* A notification of a socket that can be read is not the last that is known of it: the
\* socket is found, unless it has been found already, and is put back; or it is overlooked.
LEMMA TestMinds ==
  ASSUME TypeOK, Places, NEW x \in Users, TestNotification(x)
  PROVE  Minds(x)
<1> DEFINE q == batch[x]  note == Head(q)
           found == note.sock \notin ready[x] /\ Events(note) # {}
           missed == /\ note.sock \notin ready[x] /\ "in" \in registered[note.sock]
                     /\ Overlooks(note.sock)
<1>1. /\ x \in Threads /\ pc[x] = "p_test" /\ q \in Seq(Notes) /\ q # <<>>
      /\ ready \in [Users -> SUBSET Sockets]
  BY SocketFacts DEF TestNotification, Places, UserPlace, TypeOK, SelectorsTypeOK
<1>2. /\ DOMAIN q = 1 .. Len(q) /\ Len(q) \in Nat \ {0} /\ q[1] = note
      /\ Tail(q) \in Seq(Notes) /\ Len(Tail(q)) = Len(q) - 1 /\ DOMAIN Tail(q) = 1 .. Len(q) - 1
      /\ \A i \in 1 .. Len(q) - 1 : Tail(q)[i] = q[i + 1]
  BY <1>1, TailFacts
<1>3. note \in Notes /\ note.sock \in Sockets
  <2>1. note \in Notes
    BY <1>1
  <2>2. QED
    BY <2>1 DEF Notes
<1>4. /\ ready'[x] = IF found THEN ready[x] \cup {note.sock} ELSE ready[x]
      /\ overlooked' = IF found THEN overlooked \ {note.sock}
                       ELSE IF missed THEN overlooked \cup {note.sock} ELSE overlooked
      /\ batch'[x] = Tail(q)
      /\ pc'[x] = IF Len(q) = 1 THEN "p_repump" ELSE "p_test"
      /\ UNCHANGED <<at, cont, pollQueue, selectors, registered, closed>>
  BY <1>1, <1>3 DEF TestNotification, Goto, TypeOK, SelectorsTypeOK, socketVars
<1>5. Emptied(x)'
  <2>1. Len(q) = 1 => Tail(q) = <<>>
    BY <1>2
  <2>2. QED
    BY <1>4, <2>1 DEF Emptied
<1>6. ASSUME NEW s \in Sockets, Wanted(s)', Filled(s), ~Remembers(x, s)', ~Noted(s)'
      PROVE  Wanted(s) /\ ~Noted(s) /\ ~Remembers(x, s)
  <2>1. s \notin ready'[x] /\ s \notin ready[x] /\ \A i \in DOMAIN Tail(q) : Tail(q)[i].sock # s
    BY <1>4, <1>6 DEF Remembers
  <2>2. s # note.sock
    <3>1. s = note.sock /\ Readable(s) => "in" \in Events(note)
      BY <1>4, <1>6 DEF Events, Wanted
    <3>2. s = note.sock => ~found /\ ~Readable(s)
      BY <1>4, <2>1, <3>1
    <3>3. s = note.sock => missed
      BY <1>4, <1>6, <2>1, <3>2 DEF Overlooks, Wanted
    <3>4. QED
      BY <1>4, <1>6, <3>2, <3>3 DEF Wanted
  <2>3. Wanted(s) /\ ~Noted(s)
    BY <1>4, <1>6, <2>2 DEF Wanted, Noted
  <2>4. ASSUME NEW i \in DOMAIN q PROVE q[i].sock # s
    <3>1. CASE i = 1
      BY <1>2, <2>2, <3>1
    <3>2. CASE i # 1
      <4>1. i - 1 \in 1 .. Len(q) - 1 /\ (i - 1) + 1 = i
        BY <1>2, <3>2
      <4>2. Tail(q)[i - 1] = q[i] /\ i - 1 \in DOMAIN Tail(q)
        BY <1>2, <4>1
      <4>3. QED
        BY <2>1, <4>2
    <3>3. QED
      BY <3>1, <3>2
  <2>5. ~Remembers(x, s)
    BY <1>1, <2>1, <2>4 DEF Remembers, Registering
  <2>6. QED
    BY <2>3, <2>5
<1>7. TracksOn(x)
  BY <1>6 DEF TracksOn
<1>8. QED
  BY <1>5, <1>7 DEF Minds

\* What the queue or the thread knew of is overlooked from now on.
LEMMA RaisesMinds ==
  ASSUME TypeOK, NEW x \in Users, PollRaises(x)
  PROVE  Minds(x)
<1>1. /\ pc[x] = "p_test" /\ pc'[x] = "idle" /\ batch'[x] = <<>> /\ pollQueue' = pollQueue
      /\ overlooked' = overlooked \cup ready[x] \cup {batch[x][i].sock : i \in DOMAIN batch[x]}
      /\ UNCHANGED <<selectors, registered, closed>>
  BY SocketFacts DEF PollRaises, LeavePoll, Goto, TypeOK, SelectorsTypeOK, socketVars
<1>2. \A s \in Sockets : Remembers(x, s) => s \in overlooked'
  BY <1>1 DEF Remembers, Registering
<1>3. \A s \in Sockets : (Wanted(s)' => Wanted(s)) /\ (Noted(s)' <=> Noted(s))
  BY <1>1 DEF Wanted, Noted
<1>4. \A s \in Sockets : Wanted(s)' => ~Remembers(x, s)
  BY <1>2 DEF Wanted
<1>5. TracksOn(x)
  BY <1>3, <1>4 DEF TracksOn
<1>6. QED
  BY <1>1, <1>5 DEF Minds, Emptied

\* Two sequences, one after the other.
LEMMA JoinFacts ==
  ASSUME NEW S, NEW q \in Seq(S), NEW r \in Seq(S)
  PROVE  /\ q \o r \in Seq(S) /\ Len(q \o r) = Len(q) + Len(r)
         /\ Len(q) \in Nat /\ Len(r) \in Nat
         /\ DOMAIN q = 1 .. Len(q) /\ DOMAIN r = 1 .. Len(r)
         /\ DOMAIN (q \o r) = 1 .. Len(q) + Len(r)
         /\ \A i \in 1 .. Len(q) : (q \o r)[i] = q[i]
         /\ \A i \in 1 .. Len(r) : (q \o r)[Len(q) + i] = r[i]
  OBVIOUS

LEMMA RepumpMinds ==
  ASSUME TypeOK, NEW x \in Users, Emptied(x), Repump(x)
  PROVE  Minds(x)
<1> DEFINE r == SetToSeq({Note(s, FALSE) : s \in ready[x]})
<1>1. /\ pc[x] = "p_repump" /\ pc'[x] \in {"idle", "p_take"} /\ pollQueue' = pollQueue \o r
      /\ UNCHANGED <<selectors, registered, overlooked, batch, closed>>
  BY SocketFacts DEF Repump, LeavePoll, Goto, TypeOK, SelectorsTypeOK, socketVars
<1>2. /\ r \in Seq(Notes) /\ \A s \in ready[x] : \E i \in DOMAIN r : r[i].sock = s
  BY Repumped DEF TypeOK, SelectorsTypeOK
<1> HIDE DEF r
<1>3. pollQueue \in Seq(Notes) /\ batch[x] = <<>>
  BY <1>1 DEF TypeOK, SelectorsTypeOK, Emptied
<1>4. /\ DOMAIN pollQueue \subseteq DOMAIN pollQueue'
      /\ \A i \in DOMAIN pollQueue : pollQueue'[i] = pollQueue[i]
      /\ \A i \in DOMAIN r : Len(pollQueue) + i \in DOMAIN pollQueue'
                             /\ pollQueue'[Len(pollQueue) + i] = r[i]
  BY <1>1, <1>2, <1>3, JoinFacts
<1>5. \A s \in Sockets : /\ Noted(s) => Noted(s)'
                         /\ s \in ready[x] => Noted(s)'
                         /\ Wanted(s)' <=> Wanted(s)
  BY <1>1, <1>2, <1>4 DEF Noted, Wanted
<1>6. \A s \in Sockets : ~Registering(x, s) /\ (Remembers(x, s) => s \in ready[x])
  BY <1>1, <1>3 DEF Registering, Remembers
<1>7. Emptied(x)'
  BY <1>1, <1>3 DEF Emptied
<1>8. QED
  BY <1>1, <1>5, <1>6, <1>7 DEF Minds, TracksOn

LEMMA UserMinds ==
  ASSUME TypeOK, Places, NEW x \in Users, Emptied(x),
         Call(x) \/ Running(x) \/ Expiring(x) \/ Activating(x)
  PROVE  Minds(x)
<1>1. \A s \in accepted \cup {Server} : s \in Sockets
  BY SocketFacts DEF TypeOK
<1>2. CASE Call(x)
  BY <1>1, <1>2, IdleSteps, RegistrationMinds DEF Call
<1>3. CASE Running(x)
  BY <1>3, IdleSteps, FirstMinds, TakeMinds, TestMinds, RaisesMinds, RepumpMinds
  DEF Running, Polling
<1>4. QED
  BY <1>2, <1>3, IdleSteps, FirstMinds

\* The poll object is told, and no thread of the program stops who tells it.
LEMMA UserLevels ==
  ASSUME TypeOK, Places, HandOver, Levels, NEW x \in Users,
         Call(x) \/ Running(x) \/ Expiring(x) \/ Activating(x)
  PROVE  Levels'
<1>1. CalmStep
  BY DEF CalmStep
<1>2. \A s \in Sockets : /\ Informing(s, Poll) => Informing(s, Poll)'
                         /\ Filled(s)' => Filled(s)
  BY <1>1, SelectorsAssumption, CalmTodo, QuietInforms
<1>3. Minds(x)
  BY UserMinds DEF Levels
<1>4. ASSUME NEW t \in Users, t # x PROVE Spares(t)
  BY <1>4, UserSpares
<1>5. \A t \in Users \ {x} :
        /\ \A s \in Sockets : /\ Registering(t, s) => Registering(t, s)'
                              /\ Remembers(t, s) => Remembers(t, s)'
        /\ Emptied(t)'
  BY <1>4, SparedRemembers DEF Levels
<1>6. \A t \in Users : Emptied(t)'
  BY <1>3, <1>5 DEF Minds
<1>7. ASSUME NEW s \in Sockets PROVE Tracked(s)'
  BY <1>2, <1>3, <1>5 DEF Tracked, Levels, Minds, TracksOn
<1>8. QED
  BY <1>6, <1>7 DEF Levels

\* Nor does any other thread, which either tells it itself ...
LEMMA NotifierInforms ==
  ASSUME TypeOK, Places, NEW a \in Threads, Notifies(a), NEW s \in Sockets, Informing(s, Poll)
  PROVE  Informing(s, Poll)' \/ Noted(s)' \/ Poll \notin selectors[s]
<1>1. /\ ThreadsOK /\ todo \in [Threads -> SUBSET Registrable] /\ Poll \notin Users
      /\ at[a] \in Sockets /\ pollQueue \in Seq(Notes)
  BY SelectorsAssumption, NotifierAt
  DEF TypeOK, ThreadsOK, SelectorsTypeOK, DataTypeOK
<1>2. \A u \in Threads \ {a} : Stays(u)
  BY <1>1, Actors, LoopPlaces, WorkerPlaces
<1>3. \A u \in Threads \ {a} : todo'[u] = todo[u]
  BY <1>1 DEF Notifies, Notifying, Snapshot, NotifySelect, NotifyPoll, Notified
<1>4. at'[a] = at[a]
  BY DEF Notifies, Notifying, Snapshot, NotifySelect, NotifyPoll, Notified, threadVars
<1>5. PICK u \in Threads :
        at[u] = s /\ (pc[u] = "snapshot" \/ (pc[u] = "notify" /\ Poll \in todo[u]))
  BY DEF Informing
<1>6. CASE u # a
  BY <1>2, <1>3, <1>5, <1>6 DEF Informing, Stays
<1>7. CASE u = a
  <2>1. CASE Snapshot(a)
    BY <1>1, <1>4, <1>5, <1>7, <2>1 DEF Snapshot, Goto, Informing, ThreadsOK
  <2>2. CASE NotifySelect(a)
    <3>1. PICK v \in todo[a] \cap Users :
            /\ cv[v] = Nobody /\ todo' = [todo EXCEPT ![a] = @ \ {v}]
            /\ pc' = [pc EXCEPT ![v] = IF @ = "s_wait" THEN "s_woken" ELSE @]
      BY <2>2 DEF NotifySelect
    <3>2. pc[a] = "notify" /\ pc'[a] = pc[a] /\ Poll \in todo'[a]
      BY <1>1, <1>5, <1>7, <2>2, <3>1 DEF NotifySelect, ThreadsOK
    <3>3. QED
      BY <1>4, <1>5, <1>7, <3>2 DEF Informing
  <2>3. CASE NotifyPoll(a)
    <3>1. /\ pollQueue' = Append(pollQueue, Note(at[a], cont[a] = "closed"))
          /\ Note(at[a], cont[a] = "closed") \in Notes
          /\ Note(at[a], cont[a] = "closed").sock = s
      BY <1>1, <1>5, <1>7, <2>3 DEF NotifyPoll, Note, Notes
    <3>2. QED
      BY <1>1, <3>1, NoteAppended
  <2>4. CASE Notified(a)
    BY <1>5, <1>7, <2>4 DEF Notified
  <2>5. QED
    BY <2>1, <2>2, <2>3, <2>4 DEF Notifies, Notifying
<1>8. QED
  BY <1>6, <1>7

LEMMA ServicePoll ==
  ASSUME TypeOK, Places, ServiceStep
  PROVE  /\ UNCHANGED <<registered, overlooked, selectors>> /\ closed \subseteq closed'
         /\ \A s \in Sockets : Noted(s) => Noted(s)'
<1> DEFINE Same == UNCHANGED pollVars /\ closed \subseteq closed'
<1>1. ASSUME NEW c \in Children, Connect(c) \/ Barrier(c) \/ Queueing(c) \/ Collect(c)
      PROVE  Same
  BY <1>1 DEF Connect, Barrier, Submit, SubmitRejected, Activated, Queueing, LockChild,
              QueueChild, UnlockChild, Collect, socketVars
<1>2. ASSUME NEW c \in Children, ReadChannel(c) \/ CloseChannel(c) \/ Finish(c)
      PROVE  Same
  BY <1>2, FinishFrame DEF ReadChannel, CloseChannel, Disposes, socketVars
<1>3. ASSUME NEW a, Activating(a) \/ Closing(a) PROVE Same
  BY <1>3 DEF Activating, MakeActive, Closing, CloseChild, UncountChild, socketVars
<1>4. Stopping => Same
  BY DEF Stopping, ShutDownParent, UncountParent, CloseLeftover, PollLeftover, socketVars
<1>5. ASSUME NEW a, Snapshot(a) \/ NotifySelect(a) \/ Notified(a) PROVE Same
  BY <1>5 DEF Snapshot, NotifySelect, Notified, socketVars
<1>6. ASSUME NEW a \in Threads, Notifies(a), NotifyPoll(a)
      PROVE  /\ UNCHANGED <<registered, overlooked>> /\ closed \subseteq closed'
             /\ \A s \in Sockets : Noted(s) => Noted(s)'
  <2>1. at[a] \in Sockets
    BY <1>6, NotifierAt
  <2>2. Note(at[a], cont[a] = "closed") \in Notes
    BY <2>1 DEF Note, Notes
  <2>3. QED
    BY <1>6, <2>2, NoteAppended DEF NotifyPoll, TypeOK, SelectorsTypeOK, socketVars
<1>7. Same => /\ UNCHANGED <<registered, overlooked>> /\ closed \subseteq closed'
              /\ \A s \in Sockets : Noted(s) => Noted(s)'
  BY DEF pollVars, Noted
<1>8. UNCHANGED selectors
  BY ServiceQuiet
<1> HIDE DEF Same
<1>9. Same \/ \E a \in Threads : Notifies(a)
  BY <1>1, <1>2, <1>3, <1>4, ThreadFacts, SocketFacts DEF ServiceStep
<1>10. QED
  BY <1>5, <1>6, <1>7, <1>8, <1>9 DEF Notifies, Notifying

LEMMA ServiceLevels ==
  ASSUME TypeOK, Places, HandOver, Levels, ServiceStep PROVE Levels'
<1>1. /\ UNCHANGED <<registered, overlooked, selectors>> /\ closed \subseteq closed'
      /\ \A s \in Sockets : Noted(s) => Noted(s)'
  BY ServicePoll
<1>2. \A t \in Users :
        /\ \A s \in Sockets : /\ Registering(t, s) => Registering(t, s)'
                              /\ Remembers(t, s) => Remembers(t, s)'
        /\ Emptied(t)'
  BY ServiceSpares, SparedRemembers DEF Levels
<1>3. \A s \in Sockets : Wanted(s)' => Wanted(s) /\ Poll \in selectors[s]
  BY <1>1 DEF Wanted
<1>4. \A s \in Sockets : (\E t \in Users : Remembers(t, s)) => \E t \in Users : Remembers(t, s)'
  BY <1>2
<1>5. ASSUME NEW s \in Sockets,
             Filled(s)' => Filled(s) \/ Informing(s, Poll)',
             \/ Informing(s, Poll) => Informing(s, Poll)' \/ Noted(s)'
             \/ Poll \notin selectors[s]
      PROVE  Tracked(s)'
  <2>1. Tracked(s)
    BY DEF Levels
  <2>2. QED
    BY <1>1, <1>3, <1>4, <1>5, <2>1 DEF Tracked
<1>6. ASSUME NEW a \in Threads, Notifies(a), NEW s \in Sockets PROVE Tracked(s)'
  <2>1. UNCHANGED dataVars
    BY <1>6 DEF Notifies, Notifying, Snapshot, NotifySelect, NotifyPoll, Notified
  <2>2. Filled(s)' => Filled(s)
    BY <2>1 DEF Filled, dataVars, streamVars
  <2>3. QED
    BY <1>5, <1>6, <2>2, NotifierInforms
<1>7. ASSUME NEW c \in Children, ReadChannel(c) \/ CloseChannel(c) \/ QueueChild(c),
             NEW s \in Sockets
      PROVE  Tracked(s)'
  BY <1>5, <1>7, FillingInforms
<1>8. ASSUME CalmStep, NEW s \in Sockets PROVE Tracked(s)'
  <2>1. /\ Informing(s, Poll) => Informing(s, Poll)'
        /\ Filled(s)' => Filled(s)
    BY <1>8, SelectorsAssumption, CalmTodo, QuietInforms
  <2>2. QED
    BY <1>5, <2>1
<1>9. \A s \in Sockets : Tracked(s)'
  BY <1>6, <1>7, <1>8, ThreadFacts, SocketFacts DEF ServiceStep, CalmStep, Queueing
<1>10. QED
  BY <1>2, <1>9 DEF Levels

LEMMA LevelsNext == TypeOK /\ Places /\ HandOver /\ Levels /\ [Next]_vars => Levels'
<1>1. ASSUME Levels, UNCHANGED vars PROVE Levels'
  BY <1>1 DEF Levels, Tracked, Emptied, Noted, Wanted, Remembers, Registering, Informing,
              Filled, vars, selectorVars, threadVars, pollVars, selectVars, socketVars,
              dataVars, streamVars
<1>2. QED
  BY <1>1, UserLevels, ServiceLevels, ActorSteps

\* A registered socket that can be read is reported by the next poll, or will be, in
\* whatever order threads register, poll, read, notify and close, unless a poll() has
\* overlooked it.
THEOREM PollNotForgottenHolds == Spec => []PollNotForgotten
<1>1. Init => Levels
  <2>1. Init => \A s \in Sockets : registered[s] = {}
    BY DEF Init, SelectorsInit
  <2>2. Init => \A t \in Users : batch[t] = <<>>
    BY DEF Init, SelectorsInit
  <2>3. QED
    BY <2>1, <2>2 DEF Levels, Tracked, Wanted, Emptied
<1>2. Levels => PollNotForgotten
  BY DEF Levels, Tracked, Wanted, Noted, Remembers, Registering, PollNotForgotten, Readable, Filled
<1>3. QED
  BY <1>1, <1>2, LevelsNext, HandOverInvariant, PTL DEF Spec
------------------------------------------------------------------------------
(* Buffers.  A child is read by one thread at a time, and while its event loop disposes *)
(* of what is left nobody reads, unless the child is torn.  So at most one thread works *)
(* on the data of a child, and where it is says what the fields hold.  A message is in  *)
(* one place: not received yet, once in the queue, or at hand.                          *)
WorkLabels == RecvLabels \cup {"d_release", "d_reset", "d_drain"}

Works(t, c) == at[t] = c /\ pc[t] \in WorkLabels
Label(t, c) == IF Works(t, c) THEN pc[t] ELSE "idle"
Lone(t, c) == \A u \in Threads \ {t} : ~Works(u, c)

InQueue(c, m) == \E i \in DOMAIN incoming[c] : incoming[c][i] = m

AtHand(c, l) ==
    /\ l = "r_store" => head[c] = NoMessage /\ msg[c] # NoMessage
    /\ l = "r_load" => head[c] # NoMessage /\ msg[c] \in {head[c], NoMessage}
    /\ l \in {"r_read", "r_release", "r_reset"} => head[c] \in Messages /\ msg[c] = head[c]
    /\ l \in {"r_release", "r_reset"} => rest[c] = <<>>
    /\ l = "r_eof" => head[c] = PeerClosed /\ msg[c] = PeerClosed
    /\ l \notin RecvLabels => msg[c] = NoMessage
    /\ l \in {"d_release", "d_reset"} => head[c] # NoMessage
    /\ l = "d_drain" => head[c] = NoMessage

OnePlace(c) ==
    /\ \A i \in DOMAIN incoming[c] : incoming[c][i] <= sent[c]
    /\ \A i, j \in DOMAIN incoming[c] :
           incoming[c][i] = incoming[c][j] /\ incoming[c][i] # PeerClosed => i = j
    /\ \A m \in Messages : m = head[c] \/ m = msg[c] => m <= sent[c] /\ ~InQueue(c, m)

Counted(c, l) ==
    \A m \in Messages :
        retained[c][m] = IF \/ InQueue(c, m)
                            \/ (m = head[c] \/ m = msg[c]) /\ l \notin {"r_reset", "d_reset"}
                         THEN 1 ELSE 0

Stage(c, l) == AtHand(c, l) /\ OnePlace(c) /\ Counted(c, l)

Shape(c) == \E t \in Threads : \E l \in Labels : Lone(t, c) /\ Label(t, c) = l /\ Stage(c, l)

Alone(c) == \A t, u \in Users : Reads(t, c) /\ Reads(u, c) => t = u

Orderly(c) == Alone(c) /\ (c \notin torn => Shape(c))

\* What the data of a child is made of.
LEMMA StreamTypes ==
  ASSUME DataTypeOK, NEW c \in Children
  PROVE  /\ incoming[c] \in Seq(Messages \cup {PeerClosed})
         /\ head[c] \in Messages \cup {PeerClosed, NoMessage}
         /\ msg[c] \in Messages \cup {PeerClosed, NoMessage}
         /\ rest[c] \in Seq(Messages \X (1 .. MsgSize)) /\ got[c] \in Seq(Messages \X (1 .. MsgSize))
         /\ sent[c] \in Nat /\ sent[c] <= MaxMsgs
         /\ peerClosed[c] \in BOOLEAN /\ retained[c] \in [Messages -> Int]
         /\ MsgSize \in Nat \ {0} /\ MaxMsgs \in Nat
  BY RealSocketAssumption DEF DataTypeOK

LEMMA MarkFacts ==
  /\ \A m \in Messages : m \in Nat \ {0} /\ m # PeerClosed /\ m # NoMessage
  /\ PeerClosed # NoMessage
  BY RealSocketAssumption DEF Messages, PeerClosed, NoMessage

\* The network brings a new message, or the end; who works on the child is not disturbed.
LEMMA ReceiveStage ==
  ASSUME DataTypeOK, NEW c \in Children, NEW l \in Labels, Stage(c, l), Receive(c)
  PROVE  Stage(c, l)'
<1> DEFINE m == sent[c] + 1  q == incoming[c]
<1>1. m \in Messages /\ m # PeerClosed
  BY StreamTypes DEF Receive, Messages, PeerClosed
<1>2. /\ incoming'[c] = Append(q, m) /\ sent'[c] = m
      /\ head' = head /\ msg' = msg /\ rest' = rest
      /\ retained'[c] = [retained[c] EXCEPT ![m] = @ + 1]
  BY DEF Receive, DataTypeOK
<1>3. /\ q \in Seq(Messages \cup {PeerClosed}) /\ DOMAIN q = 1 .. Len(q) /\ Len(q) \in Nat
      /\ DOMAIN incoming'[c] = 1 .. Len(q) + 1 /\ incoming'[c][Len(q) + 1] = m
      /\ \A i \in 1 .. Len(q) : incoming'[c][i] = q[i]
  BY <1>1, <1>2, StreamTypes, AppendFacts
<1>4. \A i \in DOMAIN q : q[i] \in Int /\ q[i] <= sent[c] /\ q[i] # m
  BY <1>3, StreamTypes DEF Stage, OnePlace, Messages, PeerClosed
<1>5. ~InQueue(c, m) /\ m # head[c] /\ m # msg[c]
  BY <1>1, <1>4, StreamTypes DEF Stage, OnePlace, InQueue
<1>6. \A x : InQueue(c, x)' <=> InQueue(c, x) \/ x = m
  BY <1>3 DEF InQueue
<1>7. AtHand(c, l)'
  BY <1>2 DEF Stage, AtHand
<1>8. OnePlace(c)'
  <2>1. \A i \in DOMAIN incoming'[c] : incoming'[c][i] <= sent'[c]
    BY <1>1, <1>2, <1>3, <1>4, StreamTypes
  <2>2. \A i, j \in DOMAIN incoming'[c] :
           incoming'[c][i] = incoming'[c][j] /\ incoming'[c][i] # PeerClosed => i = j
    <3>1. ASSUME NEW i \in 1 .. Len(q), NEW j \in 1 .. Len(q), q[i] = q[j], q[i] # PeerClosed
          PROVE  i = j
      BY <1>3, <3>1 DEF Stage, OnePlace
    <3>2. \A i \in 1 .. Len(q) : incoming'[c][i] # m
      BY <1>3, <1>4
    <3>3. \A i \in DOMAIN incoming'[c] : i \in 1 .. Len(q) \/ i = Len(q) + 1
      BY <1>3
    <3>4. QED
      BY <1>3, <3>1, <3>2, <3>3
  <2>3. \A x \in Messages : x = head[c] \/ x = msg[c] => x \in Int /\ x <= sent[c] /\ ~InQueue(c, x)
    BY MarkFacts DEF Stage, OnePlace
  <2>4. \A x \in Messages : x = head[c] \/ x = msg[c] => x <= m /\ ~InQueue(c, x)'
    BY <1>5, <1>6, <2>3, StreamTypes
  <2>5. QED
    BY <1>2, <2>1, <2>2, <2>4 DEF OnePlace
<1>9. Counted(c, l)'
  <2>1. ASSUME NEW x \in Messages
        PROVE  retained'[c][x] = IF x = m THEN retained[c][x] + 1 ELSE retained[c][x]
    BY <1>1, <1>2, StreamTypes
  <2>2. QED
    BY <1>1, <1>2, <1>5, <1>6, <2>1 DEF Stage, Counted
<1>10. QED
  BY <1>7, <1>8, <1>9 DEF Stage

LEMMA EofStage ==
  ASSUME DataTypeOK, NEW c \in Children, NEW l \in Labels, Stage(c, l), ReceiveEof(c)
  PROVE  Stage(c, l)'
<1> DEFINE q == incoming[c]
<1>1. /\ incoming'[c] = Append(q, PeerClosed)
      /\ UNCHANGED <<sent, head, msg, rest, retained>>
  BY DEF ReceiveEof, DataTypeOK
<1>2. /\ q \in Seq(Messages \cup {PeerClosed}) /\ DOMAIN q = 1 .. Len(q) /\ Len(q) \in Nat
      /\ DOMAIN incoming'[c] = 1 .. Len(q) + 1 /\ incoming'[c][Len(q) + 1] = PeerClosed
      /\ \A i \in 1 .. Len(q) : incoming'[c][i] = q[i]
  BY <1>1, StreamTypes, AppendFacts
<1>3. \A x \in Messages : InQueue(c, x)' <=> InQueue(c, x)
  <2>1. \A i \in DOMAIN incoming'[c] : i \in 1 .. Len(q) \/ incoming'[c][i] = PeerClosed
    BY <1>2
  <2>2. ASSUME NEW x, x # PeerClosed, NEW i \in DOMAIN incoming'[c], incoming'[c][i] = x
        PROVE  i \in DOMAIN q /\ q[i] = x
    BY <1>2, <2>1, <2>2
  <2>3. ASSUME NEW x, NEW i \in DOMAIN q, q[i] = x
        PROVE  i \in DOMAIN incoming'[c] /\ incoming'[c][i] = x
    BY <1>2, <2>3
  <2>4. QED
    BY <2>2, <2>3, MarkFacts DEF InQueue
<1>4. AtHand(c, l)' /\ Counted(c, l)'
  BY <1>1, <1>3 DEF Stage, AtHand, Counted
<1>5. OnePlace(c)'
  <2>1. \A i \in DOMAIN incoming'[c] : incoming'[c][i] <= sent[c]
    BY <1>2, StreamTypes DEF Stage, OnePlace, PeerClosed
  <2>2. \A i, j \in DOMAIN incoming'[c] :
           incoming'[c][i] = incoming'[c][j] /\ incoming'[c][i] # PeerClosed => i = j
    <3>1. ASSUME NEW i \in 1 .. Len(q), NEW j \in 1 .. Len(q), q[i] = q[j], q[i] # PeerClosed
          PROVE  i = j
      BY <1>2, <3>1 DEF Stage, OnePlace
    <3>2. \A i \in DOMAIN incoming'[c] : i \in 1 .. Len(q) \/ incoming'[c][i] = PeerClosed
      BY <1>2
    <3>3. QED
      BY <1>2, <3>1, <3>2
  <2>3. QED
    BY <1>1, <1>3, <2>1, <2>2 DEF Stage, OnePlace
<1>6. QED
  BY <1>4, <1>5 DEF Stage

\* The first of the queue is taken.
LEMMA TakeStage ==
  ASSUME DataTypeOK, NEW c \in Children, Stage(c, "idle"), Take(c)
  PROVE  Stage(c, "r_store")'
<1> DEFINE q == incoming[c]  m == Head(q)
<1>1. /\ q # <<>> /\ incoming'[c] = Tail(q) /\ msg'[c] = m
      /\ head[c] = NoMessage /\ head' = head /\ sent' = sent /\ retained' = retained
  BY DEF Take, DataTypeOK
<1>2. /\ DOMAIN q = 1 .. Len(q) /\ Len(q) \in Nat \ {0} /\ q[1] = m
      /\ DOMAIN incoming'[c] = 1 .. Len(q) - 1
      /\ \A i \in 1 .. Len(q) - 1 : incoming'[c][i] = q[i + 1]
  BY <1>1, StreamTypes, TailFacts
<1>3. m \in Messages \cup {PeerClosed} /\ q \in Seq(Messages \cup {PeerClosed})
  BY <1>2, StreamTypes
<1>4. msg[c] = NoMessage
  BY DEF Stage, AtHand, RecvLabels
<1> HIDE DEF q, m
<1>5. ASSUME NEW i \in DOMAIN incoming'[c]
      PROVE  i \in Nat /\ i + 1 \in DOMAIN q /\ i + 1 # 1 /\ incoming'[c][i] = q[i + 1]
  BY <1>2
<1>6. ASSUME NEW i \in DOMAIN q, i # 1
      PROVE  i - 1 \in DOMAIN incoming'[c] /\ incoming'[c][i - 1] = q[i]
  <2>1. i - 1 \in 1 .. Len(q) - 1 /\ (i - 1) + 1 = i
    BY <1>2, <1>6
  <2>2. QED
    BY <1>2, <2>1
<1>7. \A i, j \in DOMAIN q : q[i] = q[j] /\ q[i] # PeerClosed => i = j
  BY DEF Stage, OnePlace, q
<1>8. 1 \in DOMAIN q
  BY <1>2
<1>9. \A x \in Messages : InQueue(c, x) <=> x = m \/ InQueue(c, x)'
  <2>1. \A x : InQueue(c, x) <=> \E i \in DOMAIN q : q[i] = x
    BY DEF InQueue, q
  <2>2. \A x : InQueue(c, x)' <=> \E i \in DOMAIN incoming'[c] : incoming'[c][i] = x
    BY DEF InQueue
  <2>3. QED
    BY <1>2, <1>5, <1>6, <1>8, <2>1, <2>2
<1>10. \A x \in Messages : x = m => ~InQueue(c, x)'
  <2> SUFFICES ASSUME NEW x \in Messages, x = m,
                      NEW i \in DOMAIN incoming'[c], incoming'[c][i] = x
               PROVE  FALSE
    BY DEF InQueue
  <2>1. i \in Nat /\ i + 1 \in DOMAIN q /\ i + 1 # 1 /\ q[i + 1] = q[1]
    BY <1>2, <1>5
  <2>2. q[i + 1] # PeerClosed
    BY <1>2, <2>1, MarkFacts
  <2>3. QED
    BY <1>7, <1>8, <2>1, <2>2
<1>11. OnePlace(c)'
  <2>1. \A i \in DOMAIN incoming'[c] : incoming'[c][i] <= sent[c]
    BY <1>5 DEF Stage, OnePlace, q
  <2>2. ASSUME NEW i \in DOMAIN incoming'[c], NEW j \in DOMAIN incoming'[c],
               incoming'[c][i] = incoming'[c][j], incoming'[c][i] # PeerClosed
        PROVE  i = j
    <3>1. /\ i + 1 \in DOMAIN q /\ j + 1 \in DOMAIN q /\ i \in Nat /\ j \in Nat
          /\ q[i + 1] = q[j + 1] /\ q[i + 1] # PeerClosed
      BY <1>5, <2>2
    <3>2. i + 1 = j + 1
      BY <1>7, <3>1
    <3>3. QED
      BY <3>1, <3>2
  <2>3. m <= sent[c]
    BY <1>2, <1>8 DEF Stage, OnePlace, q
  <2>4. \A x \in Messages : x = head'[c] \/ x = msg'[c] => x <= sent[c] /\ ~InQueue(c, x)'
    BY <1>1, <1>10, <2>3, MarkFacts
  <2>5. \A i, j \in DOMAIN incoming'[c] :
           incoming'[c][i] = incoming'[c][j] /\ incoming'[c][i] # PeerClosed => i = j
    BY <2>2
  <2>6. QED
    BY <1>1, <2>1, <2>4, <2>5 DEF OnePlace
<1>12. Counted(c, "r_store")'
  BY <1>1, <1>4, <1>9, MarkFacts DEF Stage, Counted
<1>13. AtHand(c, "r_store")'
  BY <1>1, <1>3, MarkFacts DEF AtHand, RecvLabels
<1>14. QED
  BY <1>11, <1>12, <1>13 DEF Stage

\* What is done to a message at hand
LEMMA QueueKept ==
  ASSUME NEW c \in Children, OnePlace(c), incoming'[c] = incoming[c], sent'[c] = sent[c],
         \A m \in Messages : m = head'[c] \/ m = msg'[c] => m = head[c] \/ m = msg[c]
  PROVE  OnePlace(c)' /\ \A m : InQueue(c, m)' <=> InQueue(c, m)
<1>1. \A m : InQueue(c, m)' <=> InQueue(c, m)
  BY DEF InQueue
<1>2. QED
  BY <1>1 DEF OnePlace

LEMMA StayStage ==
  ASSUME NEW c \in Children, NEW l \in Labels, Stage(c, l),
         UNCHANGED <<incoming[c], head[c], msg[c], rest[c], sent[c], retained[c]>>
  PROVE  Stage(c, l)'
  BY QueueKept DEF Stage, AtHand, Counted

LEMMA HandStage ==
  ASSUME DataTypeOK, NEW c \in Children
  PROVE  /\ Store(c) /\ Stage(c, "r_store") => Stage(c, "r_load")'
         /\ Load(c) /\ Stage(c, "r_load") /\ head[c] = PeerClosed => Stage(c, "r_eof")'
         /\ Load(c) /\ Stage(c, "r_load") /\ head[c] \in Messages => Stage(c, "r_read")'
         /\ ReadEof(c) /\ Stage(c, "r_eof") => Stage(c, "idle")'
         /\ EndRead(c) /\ Stage(c, "r_reset") => Stage(c, "idle")'
         /\ Reset(c) /\ Stage(c, "d_reset") => Stage(c, "d_drain")'
<1>1. /\ head[c] \in Messages \cup {PeerClosed, NoMessage}
      /\ msg[c] \in Messages \cup {PeerClosed, NoMessage}
  BY StreamTypes
<1> USE MarkFacts DEF Stage, AtHand, Counted, RecvLabels, DataTypeOK
<1>2. Store(c) /\ Stage(c, "r_store") => Stage(c, "r_load")'
  BY <1>1, QueueKept DEF Store
<1>3. Load(c) /\ Stage(c, "r_load") => /\ head[c] = PeerClosed => Stage(c, "r_eof")'
                                       /\ head[c] \in Messages => Stage(c, "r_read")'
  BY <1>1, QueueKept DEF Load
<1>4. ReadEof(c) /\ Stage(c, "r_eof") => Stage(c, "idle")'
  BY <1>1, QueueKept DEF ReadEof
<1>5. EndRead(c) /\ Stage(c, "r_reset") => Stage(c, "idle")'
  BY <1>1, QueueKept DEF EndRead
<1>6. Reset(c) /\ Stage(c, "d_reset") => Stage(c, "d_drain")'
  BY <1>1, QueueKept DEF Reset
<1>7. QED
  BY <1>2, <1>3, <1>4, <1>5, <1>6

\* What readBytes takes out of what is left of a message
Cut(c, k) ==
    /\ k \in 0 .. Len(rest[c])
    /\ got'[c] = got[c] \o SubSeq(rest[c], 1, k)
    /\ rest'[c] = SubSeq(rest[c], k + 1, Len(rest[c]))
    /\ msg'[c] = IF k = Len(rest[c]) THEN msg[c] ELSE NoMessage
    /\ UNCHANGED <<incoming, head, peerClosed, sent, retained>>

LEMMA CutStep ==
  ASSUME DataTypeOK, NEW c \in Children, NEW n \in 1 .. MsgSize, ReadBytes(c, n)
  PROVE  \E k \in 0 .. Len(rest[c]) : Cut(c, k)
<1> DEFINE k == IF n < Len(rest[c]) THEN n ELSE Len(rest[c])
<1>1. k \in 0 .. Len(rest[c])
  BY StreamTypes
<1>2. Cut(c, k)
  BY <1>1 DEF Cut, ReadBytes, DataTypeOK
<1>3. QED
  BY <1>1, <1>2

LEMMA ReadStage ==
  ASSUME DataTypeOK, NEW c \in Children, NEW n \in 1 .. MsgSize, ReadBytes(c, n),
         Stage(c, "r_read")
  PROVE  /\ rest'[c] = <<>> => Stage(c, "r_release")'
         /\ rest'[c] # <<>> => Stage(c, "idle")'
<1>1. PICK k \in 0 .. Len(rest[c]) : Cut(c, k)
  BY CutStep
<1>2. rest[c] \in Seq(Messages \X (1 .. MsgSize)) /\ Len(rest[c]) \in Nat
  BY StreamTypes
<1>3. rest'[c] = <<>> <=> k = Len(rest[c])
  <2>1. Len(SubSeq(rest[c], k + 1, Len(rest[c]))) = Len(rest[c]) - k
    BY <1>2, CutFacts
  <2>2. Len(rest'[c]) = Len(rest[c]) - k
    BY <1>1, <2>1 DEF Cut
  <2>3. k = Len(rest[c]) => SubSeq(rest[c], k + 1, Len(rest[c])) = <<>>
    BY <1>2
  <2>4. rest'[c] = <<>> => Len(rest'[c]) = 0
    OBVIOUS
  <2>5. rest'[c] = <<>> => k = Len(rest[c])
    <3>1. rest'[c] = <<>> => Len(rest[c]) - k = 0
      BY <2>2, <2>4
    <3>2. QED
      BY <1>2, <3>1
  <2>6. rest'[c] = SubSeq(rest[c], k + 1, Len(rest[c]))
    BY <1>1 DEF Cut
  <2>7. QED
    BY <2>3, <2>5, <2>6
<1>4. head'[c] = head[c] /\ head[c] \in Messages /\ msg[c] = head[c]
  BY <1>1 DEF Cut, Stage, AtHand
<1>5. /\ incoming'[c] = incoming[c] /\ sent'[c] = sent[c] /\ retained'[c] = retained[c]
      /\ msg'[c] = IF rest'[c] = <<>> THEN msg[c] ELSE NoMessage
  BY <1>1, <1>3 DEF Cut
<1>6. OnePlace(c)' /\ \A m : InQueue(c, m)' <=> InQueue(c, m)
  BY <1>4, <1>5, QueueKept, MarkFacts DEF Stage
<1>7. ASSUME rest'[c] = <<>>
      PROVE  Stage(c, "r_release")'
  <2>1. AtHand(c, "r_release")'
    BY <1>4, <1>5, <1>7, MarkFacts DEF AtHand, RecvLabels
  <2>2. Counted(c, "r_release")'
    BY <1>4, <1>5, <1>6, <1>7 DEF Stage, Counted
  <2>3. QED
    BY <1>6, <2>1, <2>2 DEF Stage
<1>8. ASSUME rest'[c] # <<>>
      PROVE  Stage(c, "idle")'
  <2>1. msg'[c] = NoMessage
    BY <1>5, <1>8
  <2>2. AtHand(c, "idle")'
    BY <2>1 DEF AtHand, RecvLabels
  <2>3. Counted(c, "idle")'
    BY <1>4, <1>5, <1>6, <2>1, MarkFacts DEF Stage, Counted
  <2>4. QED
    BY <1>6, <2>2, <2>3 DEF Stage
<1>9. QED
  BY <1>7, <1>8

\* A message at hand is released once; then it is nowhere.
LEMMA ReleaseStage ==
  ASSUME DataTypeOK, NEW c \in Children
  PROVE  /\ Stage(c, "r_release") /\ Release(c, msg[c]) => Stage(c, "r_reset")'
         /\ Stage(c, "d_release") /\ head[c] \in Messages /\ Release(c, head[c])
              => Stage(c, "d_reset")'
         /\ Stage(c, "d_release") /\ head[c] = PeerClosed /\ UNCHANGED dataVars
              => Stage(c, "d_reset")'
         /\ Stage(c, "d_release") => head[c] # NoMessage
         /\ \A l \in {"d_release", "r_read", "r_release"} :
              Stage(c, l) /\ head[c] \in Messages => retained[c][head[c]] = 1
<1>0. retained[c] \in [Messages -> Int] /\ msg[c] \in Messages \cup {PeerClosed, NoMessage}
      /\ head[c] \in Messages \cup {PeerClosed, NoMessage}
  BY StreamTypes
<1>1. ASSUME NEW m \in Messages, Release(c, m), NEW l \in {"r_release", "d_release"}, Stage(c, l),
             m = head[c]
      PROVE  Stage(c, IF l = "r_release" THEN "r_reset" ELSE "d_reset")'
  <2> DEFINE k == IF l = "r_release" THEN "r_reset" ELSE "d_reset"
  <2>1. /\ UNCHANGED <<incoming, head, msg, rest, sent>>
        /\ retained'[c] = [retained[c] EXCEPT ![m] = @ - 1]
    BY <1>1 DEF Release, DataTypeOK
  <2>2. \A x \in Messages : retained'[c][x] = IF x = m THEN retained[c][x] - 1 ELSE retained[c][x]
    BY <1>0, <2>1
  <2>3. OnePlace(c)' /\ \A x : InQueue(c, x)' <=> InQueue(c, x)
    BY <1>1, <2>1, QueueKept DEF Stage
  <2>4. AtHand(c, k)'
    BY <1>1, <2>1, MarkFacts DEF Stage, AtHand, RecvLabels
  <2>5. \A x \in Messages : x # m => ~(x = head[c] \/ x = msg[c])
    BY <1>1, MarkFacts DEF Stage, AtHand, RecvLabels
  <2>6. ~InQueue(c, m) /\ retained[c][m] = 1
    BY <1>1 DEF Stage, OnePlace, Counted
  <2>7. Counted(c, k)'
    BY <1>1, <2>1, <2>2, <2>3, <2>5, <2>6 DEF Stage, Counted
  <2>8. QED
    BY <2>3, <2>4, <2>7 DEF Stage
<1>2. Stage(c, "r_release") => msg[c] \in Messages /\ msg[c] = head[c]
  BY DEF Stage, AtHand
<1>3. Stage(c, "d_release") /\ head[c] = PeerClosed /\ UNCHANGED dataVars => Stage(c, "d_reset")'
  <2> SUFFICES ASSUME Stage(c, "d_release"), head[c] = PeerClosed, UNCHANGED dataVars
               PROVE  Stage(c, "d_reset")'
    OBVIOUS
  <2>1. UNCHANGED <<incoming, head, msg, rest, sent, retained>>
    BY DEF dataVars, streamVars
  <2>2. QED
    BY <2>1, QueueKept, MarkFacts DEF Stage, AtHand, Counted, RecvLabels
<1>4. Stage(c, "d_release") => head[c] # NoMessage
  BY DEF Stage, AtHand
<1>5. \A l \in {"d_release", "r_read", "r_release"} :
        Stage(c, l) /\ head[c] \in Messages => retained[c][head[c]] = 1
  BY DEF Stage, Counted
<1>6. Stage(c, "r_release") /\ Release(c, msg[c]) => Stage(c, "r_reset")'
  BY <1>1, <1>2
<1>7. Stage(c, "d_release") /\ head[c] \in Messages /\ Release(c, head[c]) => Stage(c, "d_reset")'
  BY <1>1
<1>8. QED
  BY <1>3, <1>4, <1>5, <1>6, <1>7

LEMMA DrainStage ==
  ASSUME DataTypeOK, NEW c \in Children, Stage(c, "d_drain"), Drain(c)
  PROVE  Stage(c, "idle")'
<1>1. /\ incoming'[c] = <<>> /\ UNCHANGED <<head, msg, rest, sent>>
      /\ retained'[c] = [m \in Messages |-> IF InQueue(c, m) THEN retained[c][m] - 1
                                                             ELSE retained[c][m]]
  BY DEF Drain, DataTypeOK, InQueue
<1>2. \A m : ~InQueue(c, m)'
  BY <1>1 DEF InQueue
<1>3. head[c] = NoMessage /\ msg[c] = NoMessage
  BY DEF Stage, AtHand, RecvLabels
<1>4. \A m \in Messages : retained'[c][m] = 0
  BY <1>1, <1>3, MarkFacts DEF Stage, Counted
<1>5. QED
  BY <1>1, <1>2, <1>3, <1>4, MarkFacts DEF Stage, AtHand, OnePlace, Counted


\* Who works on the data of a child
LEMMA WorksWho ==
  ASSUME Places, NEW u \in Threads, NEW c \in Children, Works(u, c)
  PROVE  \/ u \in Users /\ Reads(u, c) /\ Past(u)
         \/ u = Loop(c) /\ Finishing(c)
<1>1. CASE u \in Users
  BY <1>1 DEF Places, UserPlace, Works, WorkLabels, RecvLabels, Reads, Past
<1>2. CASE \E d \in Children : u = Loop(d)
  BY <1>2 DEF Places, ChildPlace, Works, WorkLabels, RecvLabels, Finishing
<1>3. CASE u \in {Loop(Server), Finalizer} \/ \E d \in Children : u = Worker(d)
  BY <1>3 DEF Places, ServerPlace, FinalizerPlace, WorkerPlace, Works, WorkLabels, RecvLabels
<1>4. QED
  BY <1>1, <1>2, <1>3 DEF Threads, Service, Sockets

\* A thread works on it after a step exactly if it did before, at the same place.
WorksOn(u, c) == /\ Works(u, c)' <=> Works(u, c)
                 /\ Works(u, c) => pc'[u] = pc[u]

LEMMA StaysWorks ==
  ASSUME NEW u \in Threads, NEW c \in Children, Stays(u) PROVE WorksOn(u, c)
  BY DEF Stays, WorksOn, Works, WorkLabels, RecvLabels

LEMMA SparesWorks ==
  ASSUME NEW u \in Users, NEW c \in Children, Spares(u)
  PROVE  WorksOn(u, c) /\ (Reads(u, c)' => Reads(u, c))
  BY DEF Spares, WorksOn, Works, Reads, WorkLabels, RecvLabels

\* What a thread of the program does outside recv() is no work on the data.
Idle(t) ==
  /\ pc[t] \notin WorkLabels /\ pc'[t] \notin WorkLabels
  /\ \A c \in Children : Reads(t, c)' => Reads(t, c) \/ CallRecv(t, c)

LEMMA UserIdle ==
  ASSUME ThreadsOK, Places, NEW t \in Users,
         \/ Call(t) \/ Selecting(t) \/ Polling(t) \/ Accepting(t) \/ Closing(t)
         \/ Expiring(t) \/ Activating(t)
  PROVE  Idle(t)
<1> USE SocketFacts DEF Idle, Goto, At, pollVars, selectVars, threadVars, ThreadsOK, UserPlace,
        Places, WorkLabels, RecvLabels, Reads
<1>1. ASSUME NEW S, CallSelect(t, S) PROVE Idle(t)
  BY <1>1 DEF CallSelect
<1>2. ASSUME NEW s \in Sockets, NEW m, CallRegister(t, s, m) PROVE Idle(t)
  BY <1>2 DEF CallRegister, Enter, Sockets
<1>3. ASSUME NEW s \in Sockets, NEW m, Modify(t, s, m) \/ CallUnregister(t, s) PROVE Idle(t)
  BY <1>3 DEF Modify, CallUnregister
<1>4. ASSUME CallPoll(t) \/ CallAccept(t) \/ CloseServer(t) PROVE Idle(t)
  BY <1>4 DEF CallPoll, CallAccept, CloseServer
<1>5. ASSUME NEW c \in Children, CallRecv(t, c) PROVE Idle(t)
  <2>1. /\ pc[t] = "idle" /\ pc'[t] = "activate" /\ at'[t] = c
    BY <1>5 DEF CallRecv, Enter
  <2>2. ASSUME NEW d \in Children, Reads(t, d)' PROVE d = c
    BY <2>1, <2>2
  <2>3. QED
    BY <1>5, <2>1, <2>2
<1>6. ASSUME NEW c \in Children, CallClose(t, c) PROVE Idle(t)
  BY <1>6 DEF CallClose, Enter
<1>7. ASSUME RegisterNext(t) PROVE Idle(t)
  BY <1>7 DEF RegisterNext, Enter, Sockets
<1>8. ASSUME AddSelector(t) PROVE Idle(t)
  BY <1>8 DEF AddSelector
<1>9. ASSUME TestSocket(t) \/ TestRaises(t) \/ Unregister(t) PROVE Idle(t)
  BY <1>9 DEF TestSocket, TestRaises, Unregister, LeaveSelect
<1>10. ASSUME Decide(t) \/ Wait(t) \/ WakeUp(t) \/ Expire(t) PROVE Idle(t)
  BY <1>10 DEF Decide, Wait, WakeUp, Expire
<1>11. ASSUME AddPoll(t) \/ NotifyFirst(t) \/ RemovePoll(t) PROVE Idle(t)
  BY <1>11 DEF AddPoll, NotifyFirst, RemovePoll
<1>12. ASSUME TakeNotifications(t) \/ PollExpires(t) \/ PollRaises(t) PROVE Idle(t)
  BY <1>12 DEF TakeNotifications, PollExpires, PollRaises, LeavePoll
<1>13. ASSUME TestNotification(t) PROVE Idle(t)
  BY <1>13 DEF TestNotification
<1>14. ASSUME Repump(t) PROVE Idle(t)
  BY <1>14 DEF Repump, LeavePoll
<1>15. ASSUME TakeChild(t) \/ NoChild(t) \/ CountChild(t) PROVE Idle(t)
  BY <1>15 DEF TakeChild, NoChild, CountChild, Return
<1>16. ASSUME CloseChild(t) \/ UncountChild(t) PROVE Idle(t)
  BY <1>16 DEF CloseChild, UncountChild
<1>17. ASSUME MakeActive(t) PROVE Idle(t)
  <2>1. /\ at[t] \in Children /\ cont[t] \in {"s_add", "g_add", "r_take", "k_close"}
        /\ Loop(at[t]) \in Threads /\ Loop(at[t]) # t
    BY <1>17, ThreadFacts DEF MakeActive
  <2>2. pc[t] = "activate" /\ pc'[t] \in {cont[t], "activate"} /\ at'[t] = at[t]
        /\ (pc'[t] = "activate" => cont'[t] = cont[t])
    <3>1. CASE activated[at[t]]
      BY <1>17, <2>1, <3>1 DEF MakeActive
    <3>2. CASE ~activated[at[t]]
      BY <1>17, <2>1, <3>2 DEF MakeActive
    <3>3. QED
      BY <3>1, <3>2
  <2>3. QED
    BY <2>1, <2>2
<1> HIDE DEF Idle, UserPlace, Goto, At, pollVars, selectVars, threadVars, Places, WorkLabels,
         RecvLabels, Reads
<1>18. ASSUME Call(t) PROVE Idle(t)
  <2>1. \A s \in accepted \cup {Server} : s \in Sockets
    OBVIOUS
  <2>2. QED
    BY <1>1, <1>2, <1>3, <1>4, <1>5, <1>6, <1>18, <2>1 DEF Call
<1>19. QED
  BY <1>7, <1>8, <1>9, <1>10, <1>11, <1>12, <1>13, <1>14, <1>15, <1>16, <1>17, <1>18
  DEF Expiring, Activating, Selecting, Polling, Accepting, Closing

LEMMA IdleWorks ==
  ASSUME NEW u \in Users, NEW c \in Children, Idle(u)
  PROVE  WorksOn(u, c) /\ (Reads(u, c)' => Reads(u, c) \/ CallRecv(u, c))
  BY DEF Idle, WorksOn, Works

\* A step of recv() on another child
LEMMA ReceivesElsewhere ==
  ASSUME ThreadsOK, Places, NEW u \in Users, NEW c \in Children, Receiving(u), at[u] # c
  PROVE  WorksOn(u, c) /\ ~Reads(u, c)'
<1>1. Receives(u) /\ u \in Threads /\ NoSocket # c
  BY RecvFrame, SocketFacts, SelectorsAssumption
<1>2. at'[u] # c
  BY <1>1 DEF Receives, Return, At, ThreadsOK
<1>3. QED
  BY <1>2 DEF WorksOn, Works, Reads

\* A step of recv() on the child itself begins no other.
LEMMA ReceivesHere ==
  ASSUME ThreadsOK, Places, NEW u \in Users, Receiving(u)
  PROVE  Reads(u, at[u]) /\ \A c \in Children : c = at[u] \/ ~Reads(u, c)'
<1>1. Receives(u)
  BY RecvFrame
<1>2. ASSUME NEW c \in Children, at[u] # c PROVE ~Reads(u, c)'
  BY <1>2, ReceivesElsewhere
<1>3. QED
  BY <1>1, <1>2 DEF Receives, Reads

LEMMA UserWorks ==
  ASSUME TypeOK, Places, [Next]_vars, NEW u \in Users, NEW c \in Children
  PROVE  /\ WorksOn(u, c) \/ (Receiving(u) /\ at[u] = c)
         /\ Reads(u, c)' => Reads(u, c) \/ CallRecv(u, c)
<1> DEFINE W == /\ WorksOn(u, c) \/ (Receiving(u) /\ at[u] = c)
                /\ Reads(u, c)' => Reads(u, c) \/ CallRecv(u, c)
<1>0. ThreadsOK
  BY TypeThreads
<1>1. Spares(u) => W
  BY SparesWorks
<1>2. Idle(u) => W
  BY IdleWorks
<1>3. Receiving(u) => W
  BY <1>0, ReceivesElsewhere, ReceivesHere
<1>4. UNCHANGED vars => W
  BY DEF vars, selectorVars, threadVars, WorksOn, Works, Reads
<1>5. ASSUME NEW x \in Users, Call(x) \/ Running(x) \/ Expiring(x) \/ Activating(x) PROVE W
  <2>1. CASE x # u
    BY <1>1, <1>5, <2>1, UserSpares
  <2>2. CASE x = u
    BY <1>0, <1>2, <1>3, <1>5, <2>2, UserIdle DEF Running
  <2>3. QED
    BY <2>1, <2>2
<1>6. ServiceStep => W
  BY <1>1, ServiceSpares
<1> HIDE DEF W
<1>7. W
  BY <1>4, <1>5, <1>6, ActorSteps
<1>8. QED
  BY <1>7 DEF W

LEMMA LoopWorks ==
  ASSUME TypeOK, Places, [Next]_vars, NEW c \in Children
  PROVE  WorksOn(Loop(c), c) \/ Finish(c)
<1>0. ThreadsOK /\ Loop(c) \in Threads /\ Worker(c) \in Threads /\ Loop(c) # Worker(c)
  BY TypeThreads, ThreadFacts, SocketFacts
<1> DEFINE P == pc[Loop(c)] \notin WorkLabels /\ pc'[Loop(c)] \notin WorkLabels
<1>1. P => WorksOn(Loop(c), c)
  BY DEF WorksOn, Works
<1>2. Stays(Loop(c)) => WorksOn(Loop(c), c)
  BY <1>0, StaysWorks
<1>3. Connect(c) \/ Barrier(c) => P
  BY <1>0 DEF Connect, Barrier, Submit, SubmitRejected, Activated, Goto, ThreadsOK, WorkLabels,
     RecvLabels
<1>4. ReadChannel(c) \/ CloseChannel(c) => P
  BY <1>0 DEF ReadChannel, CloseChannel, NotifyThen, Goto, ThreadsOK, WorkLabels, RecvLabels
<1>5. Notifies(Loop(c)) => P
  <2>1. ASSUME Notifies(Loop(c))
        PROVE  /\ pc[Loop(c)] \in {"snapshot", "notify"}
               /\ pc'[Loop(c)] \in {"snapshot", "notify", cont[Loop(c)]}
    <3>1. CASE Snapshot(Loop(c)) \/ Notified(Loop(c))
      BY <1>0, <3>1 DEF Snapshot, Notified, Goto, ThreadsOK
    <3>2. CASE NotifySelect(Loop(c))
      BY <1>0, <3>2, SocketFacts, ThreadFacts DEF NotifySelect, Goto, ThreadsOK
    <3>3. CASE NotifyPoll(Loop(c))
      BY <1>0, <3>3 DEF NotifyPoll, threadVars
    <3>4. QED
      BY <2>1, <3>1, <3>2, <3>3 DEF Notifies, Notifying
  <2>2. QED
    BY <2>1 DEF Places, ChildPlace, WorkLabels, RecvLabels
<1> HIDE DEF P
<1>6. QED
  BY <1>0, <1>1, <1>2, <1>3, <1>4, <1>5, LoopSteps

\* So only its reader and its event loop begin, go on with or end work on a child.
LEMMA Undisturbed ==
  ASSUME TypeOK, Places, [Next]_vars, NEW c \in Children, NEW u \in Threads
  PROVE  WorksOn(u, c) \/ (u \in Users /\ Receiving(u) /\ at[u] = c) \/ (u = Loop(c) /\ Finish(c))
<1>1. CASE u \in Users
  BY <1>1, UserWorks
<1>2. CASE u = Loop(c)
  BY <1>2, LoopWorks
<1>3. CASE u \notin Users /\ u # Loop(c)
  <2>1. Places'
    BY PlacesNext, TypeThreads
  <2>2. ~Works(u, c)
    BY <1>3, WorksWho
  <2>3. ~Works(u, c)'
    <3>1. CASE \E d \in Children : u = Loop(d)
      BY <1>3, <2>1, <3>1 DEF Places, ChildPlace, Works, WorkLabels, RecvLabels
    <3>2. CASE u \in {Loop(Server), Finalizer} \/ \E d \in Children : u = Worker(d)
      BY <2>1, <3>2 DEF Places, ServerPlace, FinalizerPlace, WorkerPlace, Works, WorkLabels,
                        RecvLabels
    <3>3. QED
      BY <1>3, <3>1, <3>2 DEF Threads, Service, Sockets
  <2>4. QED
    BY <2>2, <2>3 DEF WorksOn
<1>4. QED
  BY <1>1, <1>2, <1>3

LEMMA AloneNext ==
  ASSUME TypeOK, Places, [Next]_vars, NEW c \in Children, Alone(c) PROVE Alone(c)'
<1> SUFFICES ASSUME NEW t \in Users, NEW u \in Users, Reads(t, c)', Reads(u, c)' PROVE t = u
  BY DEF Alone
<1>1. CASE Reads(t, c) /\ Reads(u, c)
  BY <1>1 DEF Alone
<1>2. ASSUME NEW x \in Users, NEW y \in Users, CallRecv(x, c), Reads(y, c)', y # x PROVE FALSE
  <2>1. ~Reads(y, c)
    BY <1>2 DEF CallRecv
  <2>2. CallRecv(y, c)
    BY <1>2, <2>1, UserWorks
  <2>3. Stays(y)
    BY <1>2, TypeThreads, SocketFacts
    DEF CallRecv, Enter, Goto, At, Stays, ThreadsOK, pollVars, UserPlace, Places
  <2>4. QED
    BY <1>2, <2>1, <2>3 DEF Stays, Reads, Places, UserPlace
<1>3. QED
  BY <1>1, <1>2, UserWorks

\* The data of the other children stays as it is.
SameData(c) ==
  UNCHANGED <<incoming[c], head[c], msg[c], rest[c], peerClosed[c], sent[c], retained[c], got[c]>>

LEMMA OpsElsewhere ==
  ASSUME DataTypeOK, NEW c \in Children, NEW d \in Children, c # d,
         ReadOp(d) \/ FinishOp(d) \/ Receive(d) \/ ReceiveEof(d)
  PROVE  SameData(c)
<1> USE DEF SameData, DataTypeOK
<1>1. ASSUME NEW m, Release(d, m) PROVE SameData(c)
  BY <1>1 DEF Release
<1>2. ASSUME NEW n, ReadBytes(d, n) PROVE SameData(c)
  BY <1>2 DEF ReadBytes
<1>3. CASE UNCHANGED dataVars
  BY <1>3 DEF dataVars, streamVars
<1>4. CASE Take(d) \/ Drain(d)
  BY <1>4 DEF Take, Drain
<1>5. CASE Store(d) \/ Load(d) \/ ReadEof(d) \/ EndRead(d) \/ FailRead(d) \/ Reset(d)
  BY <1>5 DEF Store, Load, ReadEof, EndRead, FailRead, Reset
<1>6. CASE Receive(d) \/ ReceiveEof(d)
  BY <1>6 DEF Receive, ReceiveEof
<1>7. QED
  BY <1>1, <1>2, <1>3, <1>4, <1>5, <1>6 DEF ReadOp, FinishOp

LEMMA DataOn ==
  ASSUME TypeOK, Places, [Next]_vars, NEW c \in Children
  PROVE  \/ SameData(c) \/ ReadChannel(c) \/ CloseChannel(c) \/ Finish(c)
         \/ \E u \in Users : Receiving(u) /\ at[u] = c
<1>0. DataTypeOK
  BY DEF TypeOK
<1>1. UNCHANGED dataVars \/ Dequeue \/ (\E d \in Children : Enqueue(d)) => SameData(c)
  BY DEF dataVars, streamVars, Dequeue, Enqueue, SameData
<1>2. ASSUME NEW d \in Children, ReadChannel(d) \/ CloseChannel(d) \/ QueueChild(d)
      PROVE  SameData(c) \/ ReadChannel(c) \/ CloseChannel(c)
  BY <1>0, <1>1, <1>2, OpsElsewhere DEF ReadChannel, CloseChannel, QueueChild
<1>3. UNCHANGED vars => SameData(c)
  BY <1>1 DEF vars
<1>4. QuietStep => SameData(c) \/ Finish(c) \/ \E u \in Users : Receiving(u) /\ at[u] = c
  BY <1>0, <1>1, QuietSteps, OpsElsewhere DEF QuietData
<1>5. QED
  BY <1>2, <1>3, <1>4, Steps

\* A child is torn while its event loop disposes of what is left, or begins to.
LEMMA TornSteps ==
  ASSUME TypeOK, Places, [Next]_vars
  PROVE  /\ torn \subseteq torn'
         /\ \A c \in Children : c \in torn' => c \in torn \/ Finishing(c) \/ Finish(c)
<1> DEFINE T == /\ torn \subseteq torn'
                /\ \A c \in Children : c \in torn' => c \in torn \/ Finishing(c) \/ Finish(c)
<1>0. torn' = torn => T
  OBVIOUS
<1>1. ASSUME NEW t \in Users, Receiving(t) PROVE T
  BY <1>1 DEF Receiving, TakeMessage, StoreMessage, LoadMessage, Eof, ReadMessage, ReleaseMessage,
              ResetMessage, RecvFails, RecvNothing
<1>2. ASSUME NEW c \in Children, Finish(c) PROVE T
  BY <1>2, FinishFrame DEF Disposes
<1> HIDE DEF T
<1> USE DEF closeVars, serverVars
<1>3. ASSUME NEW t \in Users, Call(t) PROVE torn' = torn
  BY <1>3 DEF Call, CallRecv, CallClose, CallAccept, CloseServer
<1>4. ASSUME NEW t \in Users, ((Selecting(t) \/ Polling(t)) /\ UNCHANGED serverVars) \/ Accepting(t)
      PROVE  torn' = torn
  BY <1>4 DEF Accepting, TakeChild, NoChild, CountChild
<1>5. ASSUME NEW t, Expiring(t) \/ Activating(t) \/ Notifies(t) \/ Closing(t) PROVE torn' = torn
  BY <1>5 DEF Expiring, Activating, Notifies, Closing, CloseChild, UncountChild
<1>6. ASSUME NEW c \in Children, Connect(c) \/ Barrier(c) \/ Queueing(c) PROVE torn' = torn
  BY <1>6 DEF Connect, Barrier, Submit, SubmitRejected, Activated, Queueing, LockChild,
              QueueChild, UnlockChild
<1>7. ASSUME NEW c \in Children, ReadChannel(c) \/ CloseChannel(c) \/ Collect(c)
      PROVE  torn' = torn
  BY <1>7 DEF ReadChannel, CloseChannel, Collect
<1>8. Stopping \/ UNCHANGED vars => torn' = torn
  BY DEF Stopping, ShutDownParent, UncountParent, PollLeftover, CloseLeftover, vars
<1>9. T
  BY <1>0, <1>1, <1>2, <1>3, <1>4, <1>5, <1>6, <1>7, <1>8 DEF Next, Running
<1>10. QED
  BY <1>9 DEF T

\* The one thread that may work on a child determines its shape.
LEMMA LoneStage ==
  ASSUME NEW c \in Children, Shape(c), NEW u \in Threads, Lone(u, c)
  PROVE  Stage(c, Label(u, c))
<1>1. PICK w \in Threads : \E l \in Labels : Lone(w, c) /\ Label(w, c) = l /\ Stage(c, l)
  BY DEF Shape
<1>2. CASE w = u
  BY <1>1, <1>2
<1>3. CASE w # u
  BY <1>1, <1>3 DEF Lone, Label
<1>4. QED
  BY <1>2, <1>3

LEMMA LoneWorks ==
  ASSUME NEW c \in Children, Shape(c), NEW u \in Threads, Works(u, c) PROVE Lone(u, c)
  BY DEF Shape, Lone

LEMMA ShapeNext ==
  ASSUME NEW c \in Children, NEW u \in Threads, \A v \in Threads \ {u} : WorksOn(v, c),
         Lone(u, c), NEW l \in Labels, Label(u, c)' = l, Stage(c, l)'
  PROVE  Shape(c)'
<1>1. Lone(u, c)'
  BY DEF Lone, WorksOn
<1>2. QED
  BY <1>1 DEF Shape

LEMMA ShapeKept ==
  ASSUME DataTypeOK, NEW c \in Children, Shape(c), \A v \in Threads : WorksOn(v, c),
         SameData(c) \/ Receive(c) \/ ReceiveEof(c)
  PROVE  Shape(c)'
<1>1. PICK w \in Threads : \E k \in Labels : Lone(w, c) /\ Label(w, c) = k /\ Stage(c, k)
  BY DEF Shape
<1>2. PICK l \in Labels : Lone(w, c) /\ Label(w, c) = l /\ Stage(c, l)
  BY <1>1
<1>3. Label(w, c)' = l
  BY <1>2 DEF Label, WorksOn, Works
<1>4. Stage(c, l)'
  BY <1>2, ReceiveStage, EofStage, StayStage DEF SameData
<1>5. QED
  BY <1>2, <1>3, <1>4, ShapeNext

\* The reader of a child that is not torn works on it alone.
LEMMA ReaderStage ==
  ASSUME TypeOK, Places, NEW u \in Users, NEW c \in Children, Receiving(u), at[u] = c,
         c \notin torn', Alone(c), Shape(c)
  PROVE  /\ pc[u] \in RecvLabels => Lone(u, c) /\ Stage(c, pc[u])
         /\ TakeMessage(u) => Lone(u, c) /\ Stage(c, "idle")
         /\ ~RecvFails(u)
<1>0. DataTypeOK /\ ThreadsOK /\ u \in Threads /\ Reads(u, c)
  BY TypeThreads, SocketFacts, ReceivesHere DEF TypeOK
<1>1. RecvLabels \subseteq WorkLabels /\ "r_take" \notin WorkLabels
  BY DEF RecvLabels, WorkLabels
<1>2. ASSUME pc[u] \in RecvLabels PROVE Lone(u, c) /\ Stage(c, pc[u])
  <2>1. Lone(u, c) /\ Label(u, c) = pc[u]
    BY <1>0, <1>1, <1>2, LoneWorks DEF Label, Works
  <2>2. Stage(c, Label(u, c))
    BY <1>0, <2>1, LoneStage
  <2>3. QED
    BY <2>1, <2>2
<1>3. ASSUME TakeMessage(u) PROVE Lone(u, c) /\ Stage(c, "idle")
  <2>1. ~Finishing(c)
    BY <1>3 DEF TakeMessage
  <2>2. Lone(u, c)
    BY <1>0, <2>1, WorksWho DEF Alone, Lone
  <2>3. Label(u, c) = "idle"
    BY <1>1, <1>3 DEF TakeMessage, Label, Works
  <2>4. QED
    BY <1>0, <2>2, <2>3, LoneStage
<1>4. ASSUME RecvFails(u) PROVE FALSE
  <2>1. pc[u] \in {"r_read", "r_release"} /\ retained[c][msg[c]] = 0
    BY <1>4 DEF RecvFails
  <2>2. Stage(c, pc[u])
    BY <1>2, <2>1 DEF RecvLabels
  <2>3. head[c] \in Messages /\ msg[c] = head[c]
    BY <2>1, <2>2 DEF Stage, AtHand
  <2>4. retained[c][head[c]] = 1
    BY <1>0, <2>1, <2>2, <2>3, ReleaseStage
  <2>5. QED
    BY <2>1, <2>3, <2>4
<1>5. QED
  BY <1>2, <1>3, <1>4

\* A step of recv()
LEMMA ReaderShape ==
  ASSUME TypeOK, Places, NEW u \in Users, NEW c \in Children, Receiving(u), at[u] = c,
         c \notin torn', Alone(c), Shape(c)
  PROVE  Shape(c)'
<1>0. /\ DataTypeOK /\ ThreadsOK /\ u \in Threads /\ pc \in [Threads -> Labels]
      /\ at \in [Threads -> Sockets \cup {NoSocket}] /\ c # NoSocket
  BY TypeThreads, SocketFacts, SelectorsAssumption DEF TypeOK, ThreadsOK
<1>1. /\ Running(u) /\ Receives(u) /\ Reads(u, c)
  BY <1>0, RecvFrame, ReceivesHere DEF Running
<1>2. \A v \in Threads \ {u} : WorksOn(v, c)
  BY <1>0, <1>1, UserPlaces, StaysWorks
<1>3. /\ "idle" \in Labels /\ RecvLabels \subseteq Labels /\ RecvLabels \subseteq WorkLabels
      /\ "idle" \notin WorkLabels /\ "r_take" \notin WorkLabels
  BY DEF Labels, RecvLabels, WorkLabels
<1>4. /\ pc[u] \in RecvLabels => Lone(u, c) /\ Stage(c, pc[u])
      /\ TakeMessage(u) => Lone(u, c) /\ Stage(c, "idle")
      /\ ~RecvFails(u)
  BY ReaderStage
<1>5. ASSUME NEW l \in RecvLabels, Goto(u, l), at'[u] = c, Lone(u, c), Stage(c, l)'
      PROVE  Shape(c)'
  <2>1. Label(u, c)' = l
    BY <1>0, <1>3, <1>5 DEF Goto, Label, Works
  <2>2. QED
    BY <1>0, <1>2, <1>3, <1>5, <2>1, ShapeNext
<1>6. ASSUME Return(u), Lone(u, c), Stage(c, "idle")' PROVE Shape(c)'
  <2>1. Label(u, c)' = "idle"
    BY <1>0, <1>6 DEF Return, At, Label, Works
  <2>2. QED
    BY <1>0, <1>2, <1>3, <1>6, <2>1, ShapeNext
<1>7. CASE TakeMessage(u)
  <2>1. Lone(u, c) /\ Stage(c, "idle")
    BY <1>4, <1>7
  <2>2. at'[u] = c
    BY <1>7 DEF TakeMessage
  <2>3. CASE Take(c) /\ Goto(u, "r_store")
    BY <1>0, <1>5, <2>1, <2>2, <2>3, TakeStage DEF RecvLabels
  <2>4. CASE head[c] # NoMessage /\ Goto(u, "r_load") /\ UNCHANGED dataVars
    <3>1. Stage(c, "idle")' /\ head'[c] # NoMessage
      BY <2>1, <2>4, <1>3, StayStage DEF dataVars, streamVars
    <3>2. Stage(c, "r_load")'
      BY <3>1 DEF Stage, AtHand, Counted, RecvLabels
    <3>3. QED
      BY <1>5, <2>1, <2>2, <2>4, <3>2 DEF RecvLabels
  <2>5. QED
    BY <1>7, <2>3, <2>4 DEF TakeMessage
<1>8. CASE StoreMessage(u)
  BY <1>0, <1>4, <1>5, <1>8, HandStage DEF StoreMessage, RecvLabels
<1>9. CASE LoadMessage(u)
  <2>1. Lone(u, c) /\ Stage(c, "r_load") /\ Load(c)
    BY <1>0, <1>4, <1>9 DEF LoadMessage, RecvLabels
  <2>2. head[c] = PeerClosed \/ head[c] \in Messages
    BY <1>0, <2>1, StreamTypes DEF Stage, AtHand
  <2>3. CASE head[c] = PeerClosed
    <3>1. Goto(u, "r_eof") /\ at'[u] = c
      BY <1>9, <2>3, MarkFacts DEF LoadMessage
    <3>2. QED
      BY <1>0, <1>5, <2>1, <2>3, <3>1, HandStage DEF RecvLabels
  <2>4. CASE head[c] \in Messages
    <3>1. Goto(u, "r_read") /\ at'[u] = c
      BY <1>9, <2>4, MarkFacts DEF LoadMessage
    <3>2. QED
      BY <1>0, <1>5, <2>1, <2>4, <3>1, HandStage DEF RecvLabels
  <2>5. QED
    BY <2>2, <2>3, <2>4
<1>10. CASE Eof(u)
  BY <1>0, <1>4, <1>6, <1>10, HandStage DEF Eof, RecvLabels
<1>11. CASE ReadMessage(u)
  <2>1. Lone(u, c) /\ Stage(c, "r_read")
    BY <1>0, <1>4, <1>11 DEF ReadMessage, RecvLabels
  <2>2. PICK n \in 1 .. MsgSize : ReadBytes(c, n)
    BY <1>11 DEF ReadMessage
  <2>3. CASE rest'[c] = <<>>
    <3>1. Goto(u, "r_release") /\ at'[u] = c
      BY <1>11, <2>3 DEF ReadMessage
    <3>2. Stage(c, "r_release")'
      BY <1>0, <2>1, <2>2, <2>3, ReadStage
    <3>3. QED
      BY <1>5, <2>1, <3>1, <3>2 DEF RecvLabels
  <2>4. CASE rest'[c] # <<>>
    <3>1. Return(u)
      BY <1>11, <2>4 DEF ReadMessage
    <3>2. Stage(c, "idle")'
      BY <1>0, <2>1, <2>2, <2>4, ReadStage
    <3>3. QED
      BY <1>6, <2>1, <3>1, <3>2
  <2>5. QED
    BY <2>3, <2>4
<1>12. CASE ReleaseMessage(u)
  BY <1>0, <1>4, <1>5, <1>12, ReleaseStage DEF ReleaseMessage, RecvLabels
<1>13. CASE ResetMessage(u)
  BY <1>0, <1>4, <1>6, <1>13, HandStage DEF ResetMessage, RecvLabels
<1>14. CASE RecvNothing(u)
  <2>1. pc[u] = "r_take" /\ UNCHANGED dataVars /\ Return(u)
    BY <1>14 DEF RecvNothing
  <2>2. WorksOn(u, c)
    BY <1>0, <1>3, <2>1 DEF Return, Goto, WorksOn, Works
  <2>3. SameData(c)
    BY <2>1 DEF dataVars, streamVars, SameData
  <2>4. QED
    BY <1>0, <1>2, <2>2, <2>3, ShapeKept
<1>15. QED
  BY <1>4, <1>7, <1>8, <1>9, <1>10, <1>11, <1>12, <1>13, <1>14 DEF Receiving

\* A step of _finish_closing
LEMMA FinisherShape ==
  ASSUME TypeOK, Places, NEW c \in Children, Finish(c), c \notin torn', Shape(c)
  PROVE  Shape(c)'
<1> DEFINE w == Loop(c)
<1>0. /\ DataTypeOK /\ ThreadsOK /\ w \in Threads /\ w \notin Users
      /\ pc \in [Threads -> Labels]
  BY TypeThreads, ThreadFacts, SocketFacts DEF TypeOK, ThreadsOK
<1>1. \A v \in Threads \ {w} : WorksOn(v, c)
  BY <1>0, LoopPlaces, StaysWorks
<1>2. at[w] = c /\ at'[w] = c
  BY FinishFrame DEF Disposes, Places, ChildPlace
<1>3. /\ {"idle", "closed", "d_release", "d_reset", "d_drain"} \subseteq Labels
      /\ {"d_release", "d_reset", "d_drain"} \subseteq WorkLabels /\ "closed" \notin WorkLabels
  BY DEF Labels, RecvLabels, WorkLabels
<1>4. pc[w] \in {"d_release", "d_reset", "d_drain"} => Lone(w, c) /\ Stage(c, pc[w])
  BY <1>0, <1>2, <1>3, LoneWorks, LoneStage DEF Label, Works
<1>5. ASSUME NEW l \in {"d_release", "d_reset", "d_drain"}, Goto(w, l), Lone(w, c), Stage(c, l)'
      PROVE  Shape(c)'
  <2>1. Label(w, c)' = l
    BY <1>0, <1>2, <1>3, <1>5 DEF Goto, Label, Works
  <2>2. QED
    BY <1>0, <1>1, <1>3, <1>5, <2>1, ShapeNext
<1>6. ASSUME Goto(w, "closed"), Lone(w, c), Stage(c, "idle")' PROVE Shape(c)'
  <2>1. Label(w, c)' = "idle"
    BY <1>0, <1>3, <1>6 DEF Goto, Label, Works
  <2>2. QED
    BY <1>0, <1>1, <1>3, <1>6, <2>1, ShapeNext
<1>7. CASE BeginFinish(c)
  <2>1. ~\E t \in Users : at[t] = c /\ Past(t)
    BY <1>7 DEF BeginFinish
  <2>2. Lone(w, c)
    BY <2>1, WorksWho DEF Lone, Reads
  <2>3. Label(w, c) = "idle"
    BY <1>3, <1>7 DEF BeginFinish, Label, Works
  <2>4. Stage(c, "idle")
    BY <1>0, <2>2, <2>3, LoneStage
  <2>5. Stage(c, "idle")' /\ head' = head
    BY <1>3, <1>7, <2>4, StayStage DEF BeginFinish, dataVars, streamVars
  <2>6. CASE head[c] = NoMessage
    <3>1. Stage(c, "d_drain")'
      BY <2>5, <2>6 DEF Stage, AtHand, Counted, RecvLabels
    <3>2. QED
      BY <1>5, <1>7, <2>2, <2>6, <3>1 DEF BeginFinish
  <2>7. CASE head[c] # NoMessage
    <3>1. Stage(c, "d_release")'
      BY <2>5, <2>7 DEF Stage, AtHand, Counted, RecvLabels
    <3>2. QED
      BY <1>5, <1>7, <2>2, <2>7, <3>1 DEF BeginFinish
  <2>8. QED
    BY <2>6, <2>7
<1>8. CASE ReleaseHead(c)
  <2>1. Lone(w, c) /\ Stage(c, "d_release") /\ Goto(w, "d_reset")
    BY <1>4, <1>8 DEF ReleaseHead
  <2>2. Stage(c, "d_reset")'
    BY <1>0, <1>8, <2>1, ReleaseStage DEF ReleaseHead
  <2>3. QED
    BY <1>5, <2>1, <2>2
<1>9. CASE ReleaseFails(c)
  <2>1. Stage(c, "d_release")
    BY <1>4, <1>9 DEF ReleaseFails
  <2>2. head[c] # NoMessage /\ (head[c] \in Messages => retained[c][head[c]] = 1)
    BY <1>0, <2>1, ReleaseStage
  <2>3. QED
    BY <1>9, <2>2 DEF ReleaseFails
<1>10. CASE ResetHead(c)
  BY <1>0, <1>4, <1>5, <1>10, HandStage DEF ResetHead
<1>11. CASE DrainQueue(c)
  BY <1>0, <1>4, <1>6, <1>11, DrainStage DEF DrainQueue
<1>12. QED
  BY <1>7, <1>8, <1>9, <1>10, <1>11 DEF Finish

LEMMA OrderlyNext ==
  ASSUME TypeOK, Places, [Next]_vars, NEW c \in Children, Orderly(c)
  PROVE  Orderly(c)'
<1>0. DataTypeOK /\ Alone(c) /\ torn \subseteq torn'
  BY TornSteps DEF TypeOK, Orderly
<1>1. Alone(c)'
  BY <1>0, AloneNext
<1>2. ASSUME c \notin torn' PROVE Shape(c)'
  <2>1. Shape(c)
    BY <1>0, <1>2 DEF Orderly
  <2>2. CASE Finish(c)
    BY <1>2, <2>1, <2>2, FinisherShape
  <2>3. ASSUME NEW u \in Users, Receiving(u), at[u] = c PROVE Shape(c)'
    BY <1>0, <1>2, <2>1, <2>3, ReaderShape
  <2>4. CASE ~Finish(c) /\ ~\E u \in Users : Receiving(u) /\ at[u] = c
    <3>1. \A v \in Threads : WorksOn(v, c)
      BY <2>4, Undisturbed
    <3>2. SameData(c) \/ Receive(c) \/ ReceiveEof(c)
      BY <2>4, DataOn DEF ReadChannel, CloseChannel
    <3>3. QED
      BY <1>0, <2>1, <3>1, <3>2, ShapeKept
  <2>5. QED
    BY <2>2, <2>3, <2>4
<1>3. QED
  BY <1>1, <1>2 DEF Orderly

LEMMA OrderlyInit == Init => \A c \in Children : Orderly(c)
<1> SUFFICES ASSUME Init, NEW c \in Children PROVE Orderly(c)
  OBVIOUS
<1>1. \A t \in Threads : pc[t] \in {"idle", "loop"}
  BY DEF Init
<1>2. \A t \in Threads : ~Works(t, c) /\ ~Reads(t, c)
  BY <1>1 DEF Works, Reads, WorkLabels, RecvLabels
<1>3. Loop(c) \in Threads /\ "idle" \in Labels
  BY ThreadFacts, SocketFacts DEF Labels
<1>4. Lone(Loop(c), c) /\ Label(Loop(c), c) = "idle"
  BY <1>2, <1>3 DEF Lone, Label
<1>5. Stage(c, "idle")
  BY MarkFacts DEF Init, DataInit, Stage, AtHand, OnePlace, Counted, InQueue, RecvLabels
<1>6. Shape(c)
  BY <1>3, <1>4, <1>5 DEF Shape
<1>7. QED
  BY <1>2, <1>6, SocketFacts DEF Orderly, Alone

\* A message is released once, and none is left behind: its reference count is 1 exactly as
\* long as it is in the queue, in incoming_head or at hand, whoever reads, closes and
\* receives at the same time, unless the child was torn.
THEOREM BuffersReleasedHolds == Spec => []BuffersReleased
<1> DEFINE B == \A c \in Children : Orderly(c)
<1>1. Init => B
  BY OrderlyInit
<1>2. TypeOK /\ Places /\ B /\ [Next]_vars => B'
  BY OrderlyNext
<1>3. TypeOK /\ Places /\ B => BuffersReleased
  <2> SUFFICES ASSUME Places, TypeOK, NEW c \in Children \ torn, Orderly(c), NEW m \in Messages
               PROVE  retained[c][m] =
                        IF \/ InQueue(c, m)
                           \/ /\ m = head[c] \/ m = msg[c]
                              /\ ~\E t \in Threads : at[t] = c /\ pc[t] \in {"r_reset", "d_reset"}
                        THEN 1 ELSE 0
    BY DEF BuffersReleased, InQueue
  <2>1. PICK w \in Threads : \E l \in Labels : Lone(w, c) /\ Label(w, c) = l /\ Stage(c, l)
    BY DEF Orderly, Shape
  <2>2. Lone(w, c) /\ Stage(c, Label(w, c))
    BY <2>1
  <2>3. (\E t \in Threads : at[t] = c /\ pc[t] \in {"r_reset", "d_reset"})
          <=> Label(w, c) \in {"r_reset", "d_reset"}
    BY <2>2 DEF Lone, Label, Works, WorkLabels, RecvLabels
  <2>4. QED
    BY <2>2, <2>3 DEF Stage, Counted
<1> HIDE DEF B
<1>4. QED
  BY <1>1, <1>2, <1>3, TypesInvariant, PTL DEF Spec
------------------------------------------------------------------------------
(* The stream.  What has been taken out of the queue is whole messages, in order, and *)
(* the queue goes on from there; the mark of the end is put there when the loop of the *)
(* child has received all it will ever receive.                                       *)
Streamed == Messages \X (1 .. MsgSize)

Exact(c) ==
    /\ InOrder(got[c] \o rest[c])
    /\ LastMessage(got[c] \o rest[c]) <= sent[c]
    /\ sent[c] <= LastMessage(got[c] \o rest[c]) + Len(incoming[c])
    /\ \A i \in DOMAIN incoming[c] :
           IF LastMessage(got[c] \o rest[c]) + i <= sent[c]
           THEN incoming[c][i] = LastMessage(got[c] \o rest[c]) + i
           ELSE incoming[c][i] = PeerClosed /\ i = Len(incoming[c]) /\ ~peerClosed[c]

\* What is left of a message is not forgotten, and nothing comes after the end.
Kept(c) ==
    /\ rest[c] # <<>> => head[c] \in Messages \/ msg[c] \in Messages
    /\ head[c] = PeerClosed \/ msg[c] = PeerClosed => incoming[c] = <<>>

Marked(c) ==
    \/ peerClosed[c] \/ head[c] = PeerClosed \/ msg[c] = PeerClosed
    \/ \E i \in DOMAIN incoming[c] : incoming[c][i] = PeerClosed

Ended(c) ==
    \/ pc[Loop(c)] = "closed" \/ Finishing(c)
    \/ pc[Loop(c)] \in {"snapshot", "notify"} /\ cont[Loop(c)] = "closed"

\* Nobody has begun to throw away what is left.
Whole(c) == c \notin finished /\ ~Finishing(c)

Stream(c) ==
    /\ c \in torn => ~Whole(c)
    /\ Marked(c) => Ended(c)
    /\ Whole(c) => Exact(c) /\ Kept(c)

LEMMA EndedKept ==
  ASSUME TypeOK, Places, [Next]_vars, NEW c \in Children
  PROVE  Ended(c) => Ended(c)'
<1>0. ThreadsOK /\ Loop(c) \in Threads
  BY ThreadFacts, SocketFacts, TypeThreads
<1> SUFFICES ASSUME Ended(c) PROVE Ended(c)'
  OBVIOUS
<1>1. CASE Stays(Loop(c))
  BY <1>1 DEF Stays, Ended, Finishing
<1>2. CASE Connect(c) \/ Barrier(c) \/ ReadChannel(c) \/ CloseChannel(c)
  BY <1>2 DEF Connect, Barrier, Submit, SubmitRejected, Activated, ReadChannel, CloseChannel,
              Ended, Finishing
<1>3. CASE Finish(c)
  BY <1>0, <1>3, FinishFrame DEF Disposes, Goto, ThreadsOK, Ended, Finishing
<1>4. CASE Notifies(Loop(c))
  <2>1. CASE Snapshot(Loop(c))
    BY <1>0, <2>1 DEF Snapshot, Goto, Ended, Finishing, ThreadsOK
  <2>2. CASE NotifySelect(Loop(c))
    BY <1>0, <2>2 DEF NotifySelect, Ended, Finishing, ThreadsOK
  <2>3. CASE NotifyPoll(Loop(c))
    BY <2>3 DEF NotifyPoll, threadVars, Ended, Finishing
  <2>4. CASE Notified(Loop(c))
    BY <1>0, <2>4 DEF Notified, Goto, Ended, Finishing, ThreadsOK
  <2>5. QED
    BY <1>4, <2>1, <2>2, <2>3, <2>4 DEF Notifies, Notifying
<1>5. QED
  BY <1>0, <1>1, <1>2, <1>3, <1>4, LoopSteps

LEMMA FinishedKept == ASSUME [Next]_vars, TypeOK, Places PROVE finished \subseteq finished'
<1> USE DEF serverVars, closeVars
<1>1. ASSUME NEW t \in Users, Call(t) \/ Expiring(t) PROVE finished \subseteq finished'
  BY <1>1 DEF Call, CallAccept, CallRecv, CloseServer, CallClose, Expiring
<1>2. ASSUME NEW t \in Users, Running(t) PROVE finished \subseteq finished'
  BY <1>2, RecvFrame, TypeThreads
  DEF Running, Accepting, TakeChild, NoChild, CountChild, Receives, recvVars, Closing, CloseChild,
      UncountChild
<1>3. ASSUME NEW t, Activating(t) \/ Notifies(t) \/ Closing(t) PROVE finished \subseteq finished'
  BY <1>3 DEF Activating, Notifies, Closing, CloseChild, UncountChild
<1>4. ASSUME NEW c \in Children, Connect(c) \/ Barrier(c) \/ Queueing(c)
      PROVE  finished \subseteq finished'
  BY <1>4 DEF Connect, Barrier, Submit, SubmitRejected, Activated, Queueing, LockChild,
              QueueChild, UnlockChild
<1>5. ASSUME NEW c \in Children, ReadChannel(c) \/ CloseChannel(c) \/ Finish(c) \/ Collect(c)
      PROVE  finished \subseteq finished'
  BY <1>5, FinishFrame DEF ReadChannel, CloseChannel, Disposes, Collect
<1>6. Stopping \/ UNCHANGED vars => finished \subseteq finished'
  BY DEF Stopping, ShutDownParent, UncountParent, PollLeftover, CloseLeftover, vars
<1>7. QED
  BY <1>1, <1>2, <1>3, <1>4, <1>5, <1>6 DEF Next

LEMMA WholeKept ==
  ASSUME TypeOK, Places, [Next]_vars, NEW c \in Children, Whole(c)'
  PROVE  Whole(c) /\ ~Finish(c)
<1>0. /\ c \notin finished /\ Loop(c) \in Threads /\ pc \in [Threads -> Labels]
  BY FinishedKept, ThreadFacts, SocketFacts, TypeThreads DEF Whole, ThreadsOK
<1>1. ASSUME Finish(c) PROVE FALSE
  <2>1. c \notin finished' /\ pc'[Loop(c)] \notin {"d_release", "d_reset", "d_drain"}
    BY DEF Whole, Finishing
  <2>2. QED
    BY <1>0, <1>1, <2>1
    DEF Finish, BeginFinish, ReleaseHead, ReleaseFails, ResetHead, DrainQueue, Goto
<1>2. WorksOn(Loop(c), c)
  BY <1>1, LoopWorks
<1>3. ASSUME Finishing(c) PROVE FALSE
  <2>1. Works(Loop(c), c)
    BY <1>3 DEF Finishing, Works, WorkLabels, Places, ChildPlace
  <2>2. pc'[Loop(c)] = pc[Loop(c)]
    BY <1>2, <2>1 DEF WorksOn
  <2>3. QED
    BY <1>3, <2>2 DEF Whole, Finishing
<1>4. QED
  BY <1>0, <1>1, <1>3 DEF Whole

LEMMA MarkedEnded ==
  ASSUME TypeOK, Places, [Next]_vars, NEW c \in Children, Marked(c) => Ended(c)
  PROVE  Marked(c)' => Ended(c)'
<1>0. DataTypeOK /\ c \in Sockets /\ Loop(c) \in Threads
  BY ThreadFacts, SocketFacts DEF TypeOK
<1>1. CASE SameData(c)
  BY <1>1, EndedKept DEF Marked, SameData
<1>2. CASE CloseChannel(c)
  BY <1>0, <1>2 DEF CloseChannel, NotifyThen, Goto, Ended, TypeOK, SelectorsTypeOK
<1>3. ASSUME Marked(c)' => Marked(c) PROVE Marked(c)' => Ended(c)'
  BY <1>3, EndedKept
<1>4. CASE ReadChannel(c)
  <2> DEFINE m == sent[c] + 1
  <2>0. Receive(c)
    BY <1>4 DEF ReadChannel
  <2>1. /\ m \in Messages /\ m # PeerClosed /\ incoming'[c] = Append(incoming[c], m)
        /\ peerClosed' = peerClosed /\ head' = head /\ msg' = msg
    <3>1. sent[c] \in Nat /\ sent[c] < MaxMsgs /\ MaxMsgs \in Nat
      BY <1>0, <2>0, StreamTypes DEF Receive
    <3>2. m \in Messages /\ m # PeerClosed
      BY <3>1 DEF Messages, PeerClosed
    <3>3. QED
      BY <1>0, <2>0, <3>2 DEF Receive, DataTypeOK
  <2>2. /\ DOMAIN incoming[c] = 1 .. Len(incoming[c]) /\ Len(incoming[c]) \in Nat
        /\ DOMAIN incoming'[c] = 1 .. Len(incoming[c]) + 1
        /\ incoming'[c][Len(incoming[c]) + 1] = m
        /\ \A i \in 1 .. Len(incoming[c]) : incoming'[c][i] = incoming[c][i]
    BY <1>0, <2>1, StreamTypes, AppendFacts
  <2>3. Marked(c)' => Marked(c)
    BY <2>1, <2>2 DEF Marked
  <2>4. QED
    BY <1>3, <2>3
<1>5. CASE Take(c)
  <2>1. /\ incoming[c] # <<>> /\ incoming'[c] = Tail(incoming[c]) /\ msg'[c] = Head(incoming[c])
        /\ peerClosed' = peerClosed /\ head' = head
    BY <1>0, <1>5 DEF Take, DataTypeOK
  <2>2. /\ DOMAIN incoming[c] = 1 .. Len(incoming[c]) /\ Len(incoming[c]) \in Nat \ {0}
        /\ DOMAIN incoming'[c] = 1 .. Len(incoming[c]) - 1
        /\ \A i \in 1 .. Len(incoming[c]) - 1 : incoming'[c][i] = incoming[c][i + 1]
        /\ msg'[c] = incoming[c][1]
    BY <1>0, <2>1, StreamTypes, TailFacts
  <2>3. ASSUME NEW i \in DOMAIN incoming'[c]
        PROVE  i + 1 \in DOMAIN incoming[c] /\ incoming'[c][i] = incoming[c][i + 1]
    BY <2>2
  <2>4. 1 \in DOMAIN incoming[c]
    BY <2>2
  <2>5. Marked(c)' => Marked(c)
    BY <2>1, <2>2, <2>3, <2>4 DEF Marked
  <2>6. QED
    BY <1>3, <2>5
<1>6. ASSUME NEW u \in Users, Receiving(u), at[u] = c, ~Take(c) PROVE Marked(c)' => Marked(c)
  <2> USE MarkFacts DEF Marked, DataTypeOK
  <2>1. ReadOp(c)
    BY <1>6, RecvFrame, TypeThreads
  <2>2. CASE UNCHANGED dataVars
    BY <2>2 DEF dataVars, streamVars
  <2>3. CASE Store(c) \/ Load(c) \/ ReadEof(c) \/ EndRead(c) \/ FailRead(c)
    BY <1>0, <2>3 DEF Store, Load, ReadEof, EndRead, FailRead
  <2>4. CASE Release(c, msg[c])
    BY <2>4 DEF Release
  <2>5. ASSUME NEW n \in 1 .. MsgSize, ReadBytes(c, n) PROVE Marked(c)' => Marked(c)
    BY <1>0, <2>5 DEF ReadBytes
  <2>6. QED
    BY <1>6, <2>1, <2>2, <2>3, <2>4, <2>5 DEF ReadOp
<1>7. CASE Finish(c)
  <2> USE MarkFacts DEF Marked, DataTypeOK
  <2>1. CASE UNCHANGED dataVars \/ Release(c, head[c])
    BY <2>1, <1>3 DEF dataVars, streamVars, Release
  <2>2. CASE Reset(c) \/ Drain(c)
    BY <1>0, <1>3, <2>2 DEF Reset, Drain
  <2>3. QED
    BY <1>7, <2>1, <2>2, FinishFrame DEF FinishOp
<1>8. QED
  BY <1>1, <1>2, <1>3, <1>4, <1>5, <1>6, <1>7, DataOn

LEMMA ByteFacts ==
  ASSUME NEW m \in Messages PROVE \A i \in 1 .. MsgSize : Bytes(m)[i] = <<m, i>>
  BY DEF Bytes

\* One more message in order.
LEMMA MessageInOrder ==
  ASSUME NEW q \in Seq(Streamed), InOrder(q), NEW m \in Messages, m = LastMessage(q) + 1
  PROVE  InOrder(q \o Bytes(m)) /\ LastMessage(q \o Bytes(m)) = m
<1> DEFINE r == q \o Bytes(m)  n == Len(q)
<1> DEFINE w == Bytes(m)
<1>1. /\ w \in Seq(Streamed) /\ Len(w) = MsgSize /\ MsgSize \in Nat \ {0}
      /\ \A i \in 1 .. MsgSize : w[i] = <<m, i>>
  BY BytesType, ByteFacts, RealSocketAssumption DEF Streamed
<1>0. r = q \o w
  OBVIOUS
<1> HIDE DEF w, r
<1>2. /\ n \in Nat /\ DOMAIN q = 1 .. n /\ DOMAIN r = 1 .. n + MsgSize /\ Len(r) = n + MsgSize
      /\ \A i \in 1 .. n : r[i] = q[i]
      /\ \A i \in 1 .. MsgSize : r[n + i] = w[i]
  <2>1. /\ Len(q \o w) = Len(q) + Len(w) /\ Len(q) \in Nat
        /\ DOMAIN q = 1 .. Len(q) /\ DOMAIN (q \o w) = 1 .. Len(q) + Len(w)
        /\ \A i \in 1 .. Len(q) : (q \o w)[i] = q[i]
        /\ \A i \in 1 .. Len(w) : (q \o w)[Len(q) + i] = w[i]
    <3>1. w \in Seq(Streamed)
      BY <1>1
    <3>2. QED
      BY <3>1, JoinFacts
  <2>2. QED
    BY <1>0, <1>1, <2>1
<1>3. m \in Nat \ {0}
  BY StreamTypes, RealSocketAssumption DEF Messages
<1>4. n # 0 => n \in DOMAIN q /\ q[n][1] = m - 1 /\ q[n][2] = MsgSize
  <2>1. n # 0 => q # <<>> /\ n \in DOMAIN q
    BY <1>2
  <2>2. n # 0 => q[n] \in Streamed /\ q[n][1] \in Int
    BY <2>1 DEF Streamed, Messages
  <2>3. n # 0 => m = q[n][1] + 1 /\ q[n][2] = MsgSize
    BY <2>1 DEF LastMessage, InOrder
  <2>4. QED
    BY <2>1, <2>2, <2>3
<1>5. n = 0 => m = 1
  <2>1. n = 0 => q = <<>>
    OBVIOUS
  <2>2. QED
    BY <2>1 DEF LastMessage
<1> HIDE DEF n
<1>6. ASSUME NEW i \in 1 .. n PROVE r[i] = IF i = 1 THEN <<1, 1>> ELSE Successor(r[i - 1])
  <2>1. q[i] = IF i = 1 THEN <<1, 1>> ELSE Successor(q[i - 1])
    BY <1>2 DEF InOrder
  <2>2. i # 1 => i - 1 \in 1 .. n
    BY <1>2
  <2>3. i # 1 => r[i - 1] = q[i - 1]
    BY <1>2, <2>2
  <2>4. QED
    BY <1>2, <2>1, <2>3
<1>7. ASSUME NEW j \in 1 .. MsgSize
      PROVE  r[n + j] = IF n + j = 1 THEN <<1, 1>> ELSE Successor(r[(n + j) - 1])
  <2>1. r[n + j] = <<m, j>>
    BY <1>1, <1>2
  <2>2. CASE n = 0 /\ j = 1
    BY <1>2, <1>5, <2>1, <2>2
  <2>3. CASE n # 0 /\ j = 1
    <3>1. r[n] = q[n] /\ (n + j) - 1 = n /\ n + j # 1
      BY <1>2, <1>4, <2>3
    <3>2. r[n][1] = m - 1 /\ r[n][2] = MsgSize
      BY <1>4, <2>3, <3>1
    <3>3. Successor(r[n]) = <<m, 1>>
      BY <1>1, <1>3, <3>2 DEF Successor
    <3>4. QED
      BY <2>1, <2>3, <3>1, <3>3
  <2>4. CASE j # 1
    <3>1. j - 1 \in 1 .. MsgSize /\ (n + j) - 1 = n + (j - 1) /\ n + j # 1 /\ j - 1 < MsgSize
          /\ (j - 1) + 1 = j
      BY <1>1, <1>2, <2>4
    <3>2. r[(n + j) - 1] = <<m, j - 1>>
      BY <1>1, <1>2, <3>1
    <3>3. Successor(<<m, j - 1>>) = <<m, j>>
      BY <3>1 DEF Successor
    <3>4. QED
      BY <2>1, <3>1, <3>2, <3>3
  <2>5. QED
    BY <2>2, <2>3, <2>4
<1>8. \A i \in DOMAIN r : i \in 1 .. n \/ (i - n \in 1 .. MsgSize /\ n + (i - n) = i)
  BY <1>1, <1>2
<1>9. \A i \in DOMAIN r : r[i] = IF i = 1 THEN <<1, 1>> ELSE Successor(r[i - 1])
  <2> SUFFICES ASSUME NEW i \in DOMAIN r
               PROVE  r[i] = IF i = 1 THEN <<1, 1>> ELSE Successor(r[i - 1])
    OBVIOUS
  <2>1. CASE i \in 1 .. n
    BY <1>6, <2>1
  <2>2. CASE i - n \in 1 .. MsgSize /\ n + (i - n) = i
    <3> DEFINE j == i - n
    <3>1. j \in 1 .. MsgSize /\ n + j = i
      BY <2>2
    <3> HIDE DEF j
    <3>2. QED
      BY <1>7, <3>1
  <2>3. QED
    BY <1>8, <2>1, <2>2
<1>10. r # <<>> /\ r[Len(r)] = <<m, MsgSize>>
  <2>1. MsgSize \in 1 .. MsgSize /\ Len(r) # 0
    BY <1>1, <1>2
  <2>2. QED
    BY <1>1, <1>2, <2>1
<1>11. InOrder(r) /\ LastMessage(r) = m
  BY <1>9, <1>10 DEF InOrder, LastMessage
<1>12. QED
  BY <1>11 DEF r, w

LEMMA LastType ==
  ASSUME DataTypeOK, NEW c \in Children
  PROVE  LastMessage(got[c] \o rest[c]) \in Nat /\ sent[c] \in Nat
<1> DEFINE s == got[c] \o rest[c]
<1>1. s \in Seq(Streamed)
  BY StreamTypes, JoinFacts DEF Streamed
<1> HIDE DEF s
<1>2. s # <<>> => s[Len(s)] \in Streamed
  BY <1>1
<1>3. LastMessage(s) \in Nat
  BY <1>2, StreamTypes DEF Streamed, Messages, LastMessage
<1>4. QED
  BY <1>3, StreamTypes DEF s

\* What is at hand is cut in two, and put together again.
LEMMA CutExact ==
  ASSUME DataTypeOK, NEW c \in Children, Exact(c), NEW n \in 1 .. MsgSize, ReadBytes(c, n)
  PROVE  Exact(c)'
<1>1. PICK k \in 0 .. Len(rest[c]) : Cut(c, k)
  BY CutStep
<1> DEFINE r == rest[c]  a == SubSeq(r, 1, k)  b == SubSeq(r, k + 1, Len(r))  g == got[c]
<1>2. r \in Seq(Streamed) /\ g \in Seq(Streamed) /\ Len(r) \in Nat /\ k \in Nat /\ k <= Len(r)
  BY StreamTypes DEF Streamed
<1>3. got'[c] = g \o a /\ rest'[c] = b
  BY <1>1 DEF Cut
<1>4. a \in Seq(Streamed) /\ b \in Seq(Streamed)
  BY <1>2, CutFacts
<1>5. a \o b = r
  <2>1. a \o b = SubSeq(r, 1, Len(r))
    <3>1. 1 \in 1 .. Len(r) + 1 /\ k \in 1 - 1 .. Len(r) /\ Len(r) \in k .. Len(r)
      BY <1>2
    <3>2. QED
      BY <1>2, <3>1, ConcatAdjacentSubSeq
  <2>2. SubSeq(r, 1, Len(r)) = r
    BY <1>2, SubSeqFull
  <2>3. QED
    BY <2>1, <2>2
<1> HIDE DEF a, b, g, r
<1>6. (g \o a) \o b = g \o (a \o b)
  <2>1. g \in Seq(Streamed) /\ a \in Seq(Streamed) /\ b \in Seq(Streamed)
    BY <1>2, <1>4
  <2>2. QED
    BY <2>1, ConcatAssociative
<1>7. got'[c] \o rest'[c] = g \o r
  BY <1>3, <1>5, <1>6
<1>8. got'[c] \o rest'[c] = got[c] \o rest[c]
  BY <1>7 DEF g, r
<1>9. UNCHANGED <<incoming, sent, peerClosed>>
  BY <1>1 DEF Cut
<1>10. QED
  BY <1>8, <1>9 DEF Exact

\* The next message, or the end, is taken when nothing of the last one is left.
LEMMA TakeExact ==
  ASSUME DataTypeOK, NEW c \in Children, Exact(c), Kept(c), Stage(c, "idle"), Take(c)
  PROVE  Exact(c)' /\ Kept(c)'
<1> DEFINE s == got[c] \o rest[c]  q == incoming[c]  last == LastMessage(s)  x == Head(q)
           r == incoming'[c]  l == Len(q)
<1>1. /\ q # <<>> /\ r = Tail(q) /\ msg'[c] = x /\ head[c] = NoMessage /\ head' = head
      /\ rest'[c] = (IF x = PeerClosed THEN <<>> ELSE Bytes(x))
      /\ UNCHANGED <<sent, got, peerClosed>>
  BY DEF Take, DataTypeOK
<1>2. /\ q \in Seq(Messages \cup {PeerClosed}) /\ l \in Nat \ {0} /\ q[1] = x
      /\ DOMAIN q = 1 .. l /\ DOMAIN r = 1 .. l - 1 /\ Len(r) = l - 1
      /\ r \in Seq(Messages \cup {PeerClosed})
  BY <1>1, StreamTypes, TailFacts
<1>3. ASSUME NEW i \in 1 .. l - 1 PROVE r[i] = q[i + 1]
  BY <1>1, <1>2, TailFacts
<1>4. rest[c] = <<>>
  BY <1>1, MarkFacts DEF Stage, AtHand, RecvLabels, Kept
<1>5. s = got[c] /\ s \in Seq(Streamed)
  BY <1>4, StreamTypes, ConcatEmptySeq DEF Streamed
<1>6. last \in Nat /\ sent[c] \in Nat
  BY LastType
<1>7. /\ InOrder(s) /\ last <= sent[c] /\ sent[c] <= last + l
      /\ \A i \in DOMAIN q :
           IF last + i <= sent[c] THEN q[i] = last + i
           ELSE q[i] = PeerClosed /\ i = l /\ ~peerClosed[c]
  BY DEF Exact
<1>8. got'[c] = got[c] /\ sent'[c] = sent[c] /\ peerClosed'[c] = peerClosed[c]
  BY <1>1
<1>9. x \in Messages \cup {PeerClosed} /\ 1 \in DOMAIN q
  BY <1>2
<1> HIDE DEF s, q, last, r, l, x
<1>10. CASE x = PeerClosed
  <2>1. rest'[c] = <<>> /\ got'[c] \o rest'[c] = s
    BY <1>1, <1>4, <1>5, <1>8, <1>10 DEF s
  <2>2. l = 1 /\ sent[c] = last
    BY <1>2, <1>6, <1>7, <1>9, <1>10 DEF PeerClosed
  <2>3. DOMAIN r = {} /\ Len(r) = 0 /\ r = <<>>
    BY <1>2, <2>2
  <2>4. Exact(c)'
    BY <1>6, <1>7, <1>8, <2>1, <2>2, <2>3 DEF Exact, last, r
  <2>5. Kept(c)'
    BY <2>1, <2>3 DEF Kept, r
  <2>6. QED
    BY <2>4, <2>5
<1>11. CASE x \in Messages
  <2>1. x \in Nat /\ x # PeerClosed
    BY <1>11, MarkFacts
  <2>2. x = last + 1 /\ last + 1 <= sent[c]
    <3>1. IF last + 1 <= sent[c] THEN q[1] = last + 1 ELSE q[1] = PeerClosed
      BY <1>7, <1>9
    <3>2. QED
      BY <1>2, <2>1, <3>1
  <2>3. got'[c] \o rest'[c] = s \o Bytes(x)
    BY <1>1, <1>5, <1>8, <2>1
  <2>4. InOrder(got'[c] \o rest'[c]) /\ LastMessage(got'[c] \o rest'[c]) = last + 1
    BY <1>5, <1>7, <1>11, <2>2, <2>3, MessageInOrder DEF last
  <2>5. ASSUME NEW i \in DOMAIN r
        PROVE  IF (last + 1) + i <= sent[c] THEN r[i] = (last + 1) + i
               ELSE r[i] = PeerClosed /\ i = Len(r) /\ ~peerClosed[c]
    <3>1. i \in 1 .. l - 1 /\ i + 1 \in DOMAIN q /\ (last + 1) + i = last + (i + 1)
      BY <1>2, <1>6
    <3>2. r[i] = q[i + 1]
      BY <1>3, <3>1
    <3>3. i + 1 = l => i = Len(r)
      BY <1>2, <3>1
    <3>4. IF last + (i + 1) <= sent[c] THEN q[i + 1] = last + (i + 1)
          ELSE q[i + 1] = PeerClosed /\ i + 1 = l /\ ~peerClosed[c]
      BY <1>7, <3>1
    <3>5. QED
      BY <3>1, <3>2, <3>3, <3>4
  <2>6. sent[c] <= (last + 1) + Len(r)
    BY <1>2, <1>6, <1>7
  <2>7. Exact(c)'
    BY <1>8, <2>2, <2>4, <2>5, <2>6 DEF Exact, r
  <2>8. Kept(c)'
    BY <1>1, <1>11, MarkFacts DEF Kept
  <2>9. QED
    BY <2>7, <2>8
<1>12. QED
  BY <1>9, <1>10, <1>11

\* A message or the mark is put at the end of the queue, where no mark is yet.
LEMMA ReceiveExact ==
  ASSUME DataTypeOK, NEW c \in Children, Exact(c), ~Marked(c), Receive(c) \/ ReceiveEof(c)
  PROVE  Exact(c)'
<1> DEFINE s == got[c] \o rest[c]  q == incoming[c]  last == LastMessage(s)
<1>1. last \in Nat /\ sent[c] \in Nat /\ q \in Seq(Messages \cup {PeerClosed})
      /\ DOMAIN q = 1 .. Len(q) /\ Len(q) \in Nat
  BY LastType, StreamTypes
<1>2. /\ InOrder(s) /\ last <= sent[c] /\ sent[c] <= last + Len(q)
      /\ \A i \in DOMAIN q : last + i <= sent[c] /\ q[i] = last + i
  BY DEF Exact, Marked
<1>3. sent[c] = last + Len(q)
  <2>1. Len(q) # 0 => Len(q) \in DOMAIN q
    BY <1>1
  <2>2. QED
    BY <1>1, <1>2, <2>1
<1>4. got' = got /\ rest' = rest /\ peerClosed' = peerClosed
  BY DEF Receive, ReceiveEof
<1>5. CASE Receive(c)
  <2>0. sent[c] + 1 \in Messages
    BY <1>1, <1>5, RealSocketAssumption DEF Receive, Messages
  <2>1. incoming'[c] = Append(q, sent[c] + 1) /\ sent'[c] = sent[c] + 1
    BY <1>5 DEF Receive, DataTypeOK
  <2>2. /\ DOMAIN incoming'[c] = 1 .. Len(q) + 1 /\ Len(incoming'[c]) = Len(q) + 1
        /\ \A i \in 1 .. Len(q) : incoming'[c][i] = q[i]
        /\ incoming'[c][Len(q) + 1] = sent[c] + 1
    BY <1>1, <2>0, <2>1, AppendFacts
  <2> HIDE DEF s, q, last
  <2>3. ASSUME NEW i \in DOMAIN incoming'[c]
        PROVE  last + i <= sent'[c] /\ incoming'[c][i] = last + i
    <3>1. CASE i \in 1 .. Len(q)
      BY <1>1, <1>2, <2>1, <2>2, <3>1
    <3>2. CASE i = Len(q) + 1
      BY <1>1, <1>3, <2>1, <2>2, <3>2
    <3>3. QED
      BY <1>1, <2>2, <3>1, <3>2
  <2>4. last <= sent'[c] /\ sent'[c] <= last + Len(incoming'[c])
    BY <1>1, <1>3, <2>1, <2>2
  <2>5. QED
    BY <1>2, <1>4, <2>3, <2>4 DEF Exact, s, last
<1>6. CASE ReceiveEof(c)
  <2>1. incoming'[c] = Append(q, PeerClosed) /\ sent'[c] = sent[c]
    BY <1>6 DEF ReceiveEof, DataTypeOK
  <2>2. /\ DOMAIN incoming'[c] = 1 .. Len(q) + 1 /\ Len(incoming'[c]) = Len(q) + 1
        /\ \A i \in 1 .. Len(q) : incoming'[c][i] = q[i]
        /\ incoming'[c][Len(q) + 1] = PeerClosed
    BY <1>1, <2>1, AppendFacts
  <2>3. ~peerClosed'[c]
    BY <1>4 DEF Marked
  <2> HIDE DEF s, q, last
  <2>4. ASSUME NEW i \in DOMAIN incoming'[c]
        PROVE  IF last + i <= sent'[c] THEN incoming'[c][i] = last + i
               ELSE incoming'[c][i] = PeerClosed /\ i = Len(incoming'[c]) /\ ~peerClosed'[c]
    <3>1. CASE i \in 1 .. Len(q)
      BY <1>1, <1>2, <2>1, <2>2, <3>1
    <3>2. CASE i = Len(q) + 1
      BY <1>1, <1>3, <2>1, <2>2, <2>3, <3>2
    <3>3. QED
      BY <1>1, <2>2, <3>1, <3>2
  <2>5. last <= sent'[c] /\ sent'[c] <= last + Len(incoming'[c])
    BY <1>1, <1>3, <2>1, <2>2
  <2>6. QED
    BY <1>2, <1>4, <2>4, <2>5 DEF Exact, s, last
<1>7. QED
  BY <1>5, <1>6

\* The other steps of recv() move what it has at hand.
LEMMA HandExact ==
  ASSUME DataTypeOK, NEW c \in Children, Exact(c), Kept(c)
  PROVE  /\ Store(c) /\ Stage(c, "r_store") => Exact(c)' /\ Kept(c)'
         /\ Load(c) /\ Stage(c, "r_load") => Exact(c)' /\ Kept(c)'
         /\ ReadEof(c) /\ Stage(c, "r_eof") => Exact(c)' /\ Kept(c)'
         /\ EndRead(c) /\ Stage(c, "r_reset") => Exact(c)' /\ Kept(c)'
         /\ Release(c, msg[c]) => Exact(c)' /\ Kept(c)'
<1>1. Store(c) \/ Load(c) \/ EndRead(c) \/ Release(c, msg[c]) => Exact(c)'
  BY DEF Store, Load, EndRead, Release, Exact
<1>2. ASSUME ReadEof(c), Stage(c, "r_eof") PROVE Exact(c)' /\ Kept(c)'
  <2>1. /\ incoming[c] = <<>> /\ rest[c] = <<>>
    BY <1>2, MarkFacts DEF Stage, AtHand, Kept
  <2>2. UNCHANGED <<incoming, rest, sent, got>>
    BY <1>2 DEF ReadEof
  <2>3. DOMAIN incoming[c] = {}
    BY <2>1
  <2>4. Exact(c)'
    BY <2>2, <2>3 DEF Exact
  <2>5. Kept(c)'
    BY <2>1, <2>2 DEF Kept
  <2>6. QED
    BY <2>4, <2>5
<1>3. ASSUME Store(c), Stage(c, "r_store") PROVE Kept(c)'
  BY <1>3, MarkFacts DEF Store, Stage, AtHand, Kept, DataTypeOK
<1>4. ASSUME Load(c), Stage(c, "r_load") PROVE Kept(c)'
  BY <1>4, MarkFacts DEF Load, Stage, AtHand, Kept, DataTypeOK
<1>5. ASSUME EndRead(c), Stage(c, "r_reset") PROVE Kept(c)'
  BY <1>5, MarkFacts DEF EndRead, Stage, AtHand, Kept, DataTypeOK
<1>6. Release(c, msg[c]) => Kept(c)'
  BY DEF Release, Kept
<1>7. QED
  BY <1>1, <1>2, <1>3, <1>4, <1>5, <1>6

\* readBytes leaves the message in incoming_head.
LEMMA ReadKept ==
  ASSUME DataTypeOK, NEW c \in Children, NEW n \in 1 .. MsgSize, ReadBytes(c, n), Stage(c, "r_read")
  PROVE  Kept(c)'
<1>1. PICK k \in 0 .. Len(rest[c]) : Cut(c, k)
  BY CutStep
<1>2. head'[c] \in Messages /\ (msg'[c] = head[c] \/ msg'[c] = NoMessage)
  BY <1>1 DEF Cut, Stage, AtHand
<1>3. head'[c] = head[c]
  BY <1>1 DEF Cut
<1>4. QED
  BY <1>2, <1>3, MarkFacts DEF Kept

LEMMA StreamNext ==
  ASSUME TypeOK, Places, [Next]_vars, NEW c \in Children, Orderly(c), Stream(c)
  PROVE  Stream(c)'
<1>0. DataTypeOK
  BY DEF TypeOK
<1>1. Marked(c)' => Ended(c)'
  BY MarkedEnded DEF Stream
<1>2. Whole(c)' => Whole(c) /\ ~Finish(c) /\ c \notin torn'
  <2>1. Whole(c)' => Whole(c) /\ ~Finish(c)
    BY WholeKept
  <2>2. Whole(c) /\ ~Finish(c) => c \notin torn'
    BY TornSteps DEF Stream, Whole
  <2>3. QED
    BY <2>1, <2>2
<1>3. ASSUME Whole(c), ~Finish(c), c \notin torn' PROVE Exact(c)' /\ Kept(c)'
  <2>1. Exact(c) /\ Kept(c) /\ Alone(c) /\ Shape(c)
    BY <1>3, TornSteps DEF Stream, Orderly
  <2>2. CASE SameData(c)
    BY <2>1, <2>2 DEF SameData, Exact, Kept
  <2>3. CASE ReadChannel(c) \/ CloseChannel(c)
    <3>1. ~Marked(c)
      BY <2>3 DEF ReadChannel, CloseChannel, Ended, Finishing, Stream
    <3>2. Receive(c) \/ ReceiveEof(c)
      BY <2>3 DEF ReadChannel, CloseChannel
    <3>3. UNCHANGED <<head, msg, rest>>
      BY <3>2 DEF Receive, ReceiveEof
    <3>4. Kept(c)'
      BY <2>1, <3>1, <3>3 DEF Kept, Marked
    <3>5. QED
      BY <1>0, <2>1, <3>1, <3>2, <3>4, ReceiveExact
  <2>4. ASSUME NEW u \in Users, Receiving(u), at[u] = c PROVE Exact(c)' /\ Kept(c)'
    <3>1. /\ pc[u] \in RecvLabels => Stage(c, pc[u])
          /\ TakeMessage(u) => Stage(c, "idle")
          /\ ~RecvFails(u)
      BY <1>3, <2>1, <2>4, ReaderStage
    <3>2. UNCHANGED dataVars => Exact(c)' /\ Kept(c)'
      BY <2>1 DEF dataVars, streamVars, Exact, Kept
    <3>3. CASE TakeMessage(u)
      BY <1>0, <2>1, <2>4, <3>1, <3>2, <3>3, TakeExact DEF TakeMessage
    <3>4. CASE StoreMessage(u)
      BY <1>0, <2>1, <2>4, <3>1, <3>4, HandExact DEF StoreMessage, RecvLabels
    <3>5. CASE LoadMessage(u)
      BY <1>0, <2>1, <2>4, <3>1, <3>5, HandExact DEF LoadMessage, RecvLabels
    <3>6. CASE Eof(u)
      BY <1>0, <2>1, <2>4, <3>1, <3>6, HandExact DEF Eof, RecvLabels
    <3>7. CASE ReleaseMessage(u) \/ ResetMessage(u)
      BY <1>0, <2>1, <2>4, <3>1, <3>7, HandExact DEF ReleaseMessage, ResetMessage, RecvLabels
    <3>8. CASE ReadMessage(u)
      <4>1. PICK n \in 1 .. MsgSize : ReadBytes(c, n)
        BY <2>4, <3>8 DEF ReadMessage
      <4>2. Exact(c)'
        BY <1>0, <2>1, <4>1, CutExact
      <4>3. Stage(c, "r_read")
        BY <3>1, <3>8 DEF ReadMessage, RecvLabels
      <4>4. QED
        BY <1>0, <4>1, <4>2, <4>3, ReadKept
    <3>9. CASE RecvNothing(u)
      BY <3>2, <3>9 DEF RecvNothing
    <3>10. QED
      BY <2>4, <3>1, <3>3, <3>4, <3>5, <3>6, <3>7, <3>8, <3>9 DEF Receiving
  <2>5. QED
    BY <1>3, <2>2, <2>3, <2>4, DataOn
<1>4. QED
  BY <1>1, <1>2, <1>3 DEF Stream

\* Until _finish_closing begins to throw away what is left, recv() has returned the bytes
\* of the peer in order, each once, nothing that was received is missing, and the end comes
\* last, for any number and size of messages, however reads and arrivals are interleaved.
THEOREM StreamExactHolds == Spec => []StreamExact
<1> DEFINE B == \A c \in Children : Orderly(c)
           S == \A c \in Children : Stream(c)
<1>1. Init => B /\ S
  <2>1. ASSUME Init, NEW c \in Children PROVE Stream(c)
    <3>1. /\ head[c] = NoMessage /\ msg[c] = NoMessage /\ ~peerClosed[c] /\ incoming[c] = <<>>
          /\ rest[c] = <<>> /\ got[c] = <<>> /\ sent[c] = 0 /\ torn = {}
      BY <2>1 DEF Init, DataInit
    <3>2. <<>> \o <<>> = <<>>
      OBVIOUS
    <3>3. Exact(c)
      BY <3>1, <3>2 DEF Exact, InOrder, LastMessage
    <3>4. Kept(c) /\ ~Marked(c)
      BY <3>1, MarkFacts DEF Kept, Marked
    <3>5. QED
      BY <3>1, <3>3, <3>4 DEF Stream
  <2>2. QED
    BY <2>1, OrderlyInit
<1>2. TypeOK /\ Places /\ B /\ [Next]_vars => B'
  BY OrderlyNext
<1>3. TypeOK /\ Places /\ B /\ S /\ [Next]_vars => S'
  BY StreamNext
<1>4. S => StreamExact
  BY DEF Stream, Whole, Exact, StreamExact
<1>5. QED
  BY <1>1, <1>2, <1>3, <1>4, TypesInvariant, PTL DEF Spec
==============================================================================
