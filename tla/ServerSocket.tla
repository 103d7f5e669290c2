----------------------------- MODULE ServerSocket ----------------------------
(***************************************************************************)
(* A listening socket of Lib/_socket.py and the connections it accepts,    *)
(* with the threads of the program that use them.                          *)
(*                                                                         *)
(* Netty calls initChannel for each connection on the event loop the       *)
(* connection is bound to.  It makes a ChildSocket, has another thread     *)
(* queue it for accept(), and waits: nothing is read until the program has *)
(* used the child, and so has made up its mind whether to wrap it in SSL.  *)
(* Once it is active the loop reads messages, and in the end the close, of *)
(* the peer or of the program.  The listening socket counts the children   *)
(* it has accepted, and the last to be closed shuts down their event loops.*)
(*                                                                         *)
(* Netty is external: each connection has an event loop of its own (there  *)
(* are _NUM_THREADS for all), listeners of a channel run there, and tasks  *)
(* submitted to the parent group do not run on the loop of the listener.   *)
(***************************************************************************)
EXTENDS Selectors

VARIABLES
    accepted,          \* children that accept() has returned
    acceptedChildren,  \* accepted_children
    copy,              \* accepted_children as _finish_closing has read it
    closing,           \* sockets whose channel is told to close
    finished,          \* children whose _finish_closing has run
    collected,         \* children whose __del__ has run
    torn,              \* history: children read and finished at the same time
    parentDown, childrenDown   \* shutdownGracefully was called on the group

countVars == <<accepted, acceptedChildren, copy, collected>>
closeVars == <<closing, finished, parentDown, childrenDown, torn>>
selectorVars == <<threadVars, todo, selectors, selectVars, pollVars, socketVars>>
serverVars == <<countVars, closeVars>>
vars == <<dataVars, selectorVars, serverVars>>

TypeOK ==
    /\ DataTypeOK /\ SelectorsTypeOK
    /\ accepted \subseteq Children /\ collected \subseteq Children
    /\ acceptedChildren \in Int /\ copy \in Int
    /\ closing \subseteq Sockets /\ finished \subseteq Children /\ torn \subseteq Children
    /\ parentDown \in BOOLEAN /\ childrenDown \in BOOLEAN

Init ==
    /\ DataInit /\ SelectorsInit
    /\ pc = [t \in Threads |-> IF t = Loop(Server) THEN "loop" ELSE "idle"]
    /\ accepted = {} /\ collected = {} /\ acceptedChildren = 1 /\ copy = 0
    /\ closing = {} /\ finished = {} /\ torn = {} /\ parentDown = FALSE /\ childrenDown = FALSE
------------------------------------------------------------------------------
\* ChildSocketHandler.initChannel, on the loop of the child

Connect(c) ==
    /\ pc[Loop(c)] = "idle" /\ pc[Loop(Server)] = "loop" /\ ~childrenDown
    /\ Goto(Loop(c), "i_lock") /\ At(Loop(c), c)
    /\ UNCHANGED <<dataVars, cont, todo, selectors, selectVars, pollVars, socketVars,
                   countVars, closeVars>>

\* Mutant of Submit: the loop does not wait.
SubmitUnawaited(c) ==
    /\ pc[Loop(c)] = "i_lock" /\ activation[c] = Nobody
    /\ pc' = [pc EXCEPT ![Loop(c)] = "loop", ![Worker(c)] = "w_lock"]
    /\ At(Worker(c), Server)
    /\ UNCHANGED <<dataVars, cont, todo, selectors, selectVars, pollVars, socketVars,
                   countVars, closeVars>>

\* With the lock of the child: submit wait_for_barrier, and wait.
Submit(c) ==
    /\ pc[Loop(c)] = "i_lock" /\ activation[c] = Nobody
    /\ pc' = [pc EXCEPT ![Loop(c)] = "i_wait", ![Worker(c)] = "w_lock"]
    /\ At(Worker(c), Server)
    /\ UNCHANGED <<dataVars, cont, todo, selectors, selectVars, pollVars, socketVars,
                   countVars, closeVars>>

\* The parent group is shut down: the exception closes the channel, whose listener
\* _make_active finds nobody waiting.
SubmitRejected(c) ==
    /\ pc[Loop(c)] = "i_lock" /\ parentDown /\ activation[c] = Nobody
    /\ activated' = [activated EXCEPT ![c] = TRUE]
    /\ Goto(Loop(c), "closed")
    /\ UNCHANGED <<dataVars, at, cont, todo, selectors, selectVars, pollVars, activation,
                   closed, countVars, closeVars>>

\* wait() returns, with the lock; _post_connect adds the handler that reads.
Activated(c) ==
    /\ pc[Loop(c)] = "i_woken" /\ activation[c] = Nobody
    /\ Goto(Loop(c), IF activated[c] THEN "loop" ELSE "i_wait")
    /\ UNCHANGED <<dataVars, at, cont, todo, selectors, selectVars, pollVars, socketVars,
                   countVars, closeVars>>

\* wait_for_barrier, on a thread of the parent group.  The lock of the child is held
\* until everybody who waits for the listening socket has been notified.
LockChild(c) ==
    /\ pc[Worker(c)] = "w_lock" /\ activation[c] = Nobody
    /\ activation' = [activation EXCEPT ![c] = Worker(c)]
    /\ Goto(Worker(c), "w_put")
    /\ UNCHANGED <<dataVars, at, cont, todo, selectors, selectVars, pollVars, activated,
                   closed, countVars, closeVars>>

QueueChild(c) ==
    /\ pc[Worker(c)] = "w_put"
    /\ Enqueue(c)
    /\ Goto(Worker(c), "snapshot") /\ cont' = [cont EXCEPT ![Worker(c)] = "w_exit"]
    /\ UNCHANGED <<at, todo, selectors, selectVars, pollVars, socketVars, countVars, closeVars>>

UnlockChild(c) ==
    /\ pc[Worker(c)] = "w_exit"
    /\ activation' = [activation EXCEPT ![c] = Nobody]
    /\ Goto(Worker(c), "idle") /\ At(Worker(c), NoSocket)
    /\ UNCHANGED <<dataVars, cont, todo, selectors, selectVars, pollVars, activated, closed,
                   countVars, closeVars>>
------------------------------------------------------------------------------
\* PythonInboundHandler and the listeners of a channel, on its loop

NotifyThen(c, label) ==
    Goto(Loop(c), "snapshot") /\ cont' = [cont EXCEPT ![Loop(c)] = label]

\* channelRead
ReadChannel(c) ==
    /\ pc[Loop(c)] = "loop"
    /\ Receive(c)
    /\ NotifyThen(c, "loop")
    /\ UNCHANGED <<at, todo, selectors, selectVars, pollVars, socketVars, countVars, closeVars>>

\* The channel is closed by the peer, by a failure, or as the program has asked for;
\* _peer_closed runs in each case.
CloseChannel(c) ==
    /\ pc[Loop(c)] = "loop"
    /\ ReceiveEof(c)
    /\ NotifyThen(c, "closed")
    /\ UNCHANGED <<at, todo, selectors, selectVars, pollVars, socketVars, countVars, closeVars>>

\* A thread that has taken a message, or is going to read one, and the loop of a child
\* that disposes of what is left
Past(t) == pc[t] \in {"r_store", "r_load", "r_read", "r_release", "r_reset", "r_eof"}
Finishing(c) == pc[Loop(c)] \in {"d_release", "d_reset", "d_drain"}

\* _finish_closing of a child, once its channel is closed and close() was called.  (If
\* close() came before initChannel was over, its listener runs before _peer_closed: the
\* mark is then left in a queue that nobody looks at any more.)
BeginFinish(c) ==
    /\ pc[Loop(c)] = "closed" /\ c \in closing \ finished
    /\ Goto(Loop(c), IF head[c] = NoMessage THEN "d_drain" ELSE "d_release")
    /\ torn' = IF \E t \in Users : at[t] = c /\ Past(t) THEN torn \cup {c} ELSE torn
    /\ UNCHANGED <<dataVars, at, cont, todo, selectors, selectVars, pollVars, socketVars,
                   countVars, closing, finished, parentDown, childrenDown>>

\* It reads the field again: a message is released, the mark is not.
ReleaseHead(c) ==
    /\ pc[Loop(c)] = "d_release"
    /\ \/ head[c] \in Messages /\ Release(c, head[c])
       \/ head[c] = PeerClosed /\ UNCHANGED dataVars
    /\ Goto(Loop(c), "d_reset")
    /\ UNCHANGED <<at, cont, todo, selectors, selectVars, pollVars, socketVars, countVars,
                   closeVars>>

\* recv() has set it to None meanwhile, or released the message: the listener ends with
\* an exception, and the queue stays as it is.
ReleaseFails(c) ==
    /\ pc[Loop(c)] = "d_release"
    /\ \/ head[c] = NoMessage
       \/ head[c] \in Messages /\ retained[c][head[c]] = 0
    /\ Goto(Loop(c), "closed")
    /\ finished' = finished \cup {c}
    /\ UNCHANGED <<dataVars, at, cont, todo, selectors, selectVars, pollVars, socketVars,
                   countVars, closing, parentDown, childrenDown, torn>>

ResetHead(c) ==
    /\ pc[Loop(c)] = "d_reset"
    /\ Reset(c)
    /\ Goto(Loop(c), "d_drain")
    /\ UNCHANGED <<at, cont, todo, selectors, selectVars, pollVars, socketVars, countVars,
                   closeVars>>

DrainQueue(c) ==
    /\ pc[Loop(c)] = "d_drain"
    /\ Drain(c)
    /\ Goto(Loop(c), "closed")
    /\ finished' = finished \cup {c}
    /\ UNCHANGED <<at, cont, todo, selectors, selectVars, pollVars, socketVars, countVars,
                   closing, parentDown, childrenDown, torn>>

\* _finish_closing of the listening socket; accepted_children is read and written
\* without open_lock.
ShutDownParent ==
    /\ pc[Loop(Server)] = "loop" /\ Server \in closing
    /\ parentDown' = TRUE
    /\ copy' = acceptedChildren
    /\ Goto(Loop(Server), "f_write")
    /\ UNCHANGED <<dataVars, at, cont, todo, selectors, selectVars, pollVars, socketVars,
                   accepted, acceptedChildren, collected, closing, finished, childrenDown, torn>>

UncountParent ==
    /\ pc[Loop(Server)] = "f_write"
    /\ acceptedChildren' = copy - 1 /\ copy' = 0
    /\ Goto(Loop(Server), "f_poll")
    /\ UNCHANGED <<dataVars, at, cont, todo, selectors, selectVars, pollVars, socketVars,
                   accepted, collected, closeVars>>

\* Mutant of PollLeftover: a child is closed without being made active.
PollLeftoverInactive ==
    /\ pc[Loop(Server)] = "f_poll"
    /\ \/ /\ Dequeue
          /\ At(Loop(Server), Head(childQueue)) /\ Goto(Loop(Server), "f_close")
       \/ /\ childQueue = <<>>
          /\ Goto(Loop(Server), "closed")
          /\ UNCHANGED <<dataVars, at>>
    /\ UNCHANGED <<cont, todo, selectors, selectVars, pollVars, socketVars, serverVars>>

\* Children that are still queued are closed; one that is queued later is not.
PollLeftover ==
    /\ pc[Loop(Server)] = "f_poll"
    /\ \/ /\ Dequeue
          /\ Enter(Loop(Server), Head(childQueue), "f_close")
       \/ /\ childQueue = <<>>
          /\ Goto(Loop(Server), "closed")
          /\ UNCHANGED <<dataVars, at, cont>>
    /\ UNCHANGED <<todo, selectors, selectVars, pollVars, socketVars, countVars, closeVars>>

CloseLeftover ==
    /\ pc[Loop(Server)] = "f_close"
    /\ closing' = closing \cup {at[Loop(Server)]}
    /\ Goto(Loop(Server), "f_poll") /\ At(Loop(Server), NoSocket)
    /\ UNCHANGED <<dataVars, cont, todo, selectors, selectVars, pollVars, socketVars,
                   countVars, finished, parentDown, childrenDown, torn>>
------------------------------------------------------------------------------
\* The program: accept, recv and close

Return(t) ==
    /\ Goto(t, "idle") /\ At(t, NoSocket)
    /\ timed' = [timed EXCEPT ![t] = FALSE]

CallAccept(t) ==
    /\ pc[t] = "idle" /\ Server \notin closed
    /\ \E b \in BOOLEAN : timed' = [timed EXCEPT ![t] = b]
    /\ Goto(t, "a_take")
    /\ UNCHANGED <<dataVars, at, cont, todo, selectors, cv, watch, left, ready, unseen,
                   pollVars, socketVars, countVars, closeVars>>

TakeChild(t) ==
    /\ pc[t] = "a_take"
    /\ Dequeue
    /\ Goto(t, "a_count") /\ At(t, Head(childQueue))
    /\ UNCHANGED <<cont, todo, selectors, selectVars, pollVars, socketVars, countVars, closeVars>>

NoChild(t) ==
    /\ pc[t] = "a_take" /\ childQueue = <<>> /\ timed[t]
    /\ Return(t)
    /\ UNCHANGED <<dataVars, cont, todo, selectors, cv, watch, left, ready, unseen, pollVars,
                   socketVars, countVars, closeVars>>

\* accepted is set, and accepted_children counted with open_lock.
CountChild(t) ==
    /\ pc[t] = "a_count"
    /\ accepted' = accepted \cup {at[t]}
    /\ acceptedChildren' = acceptedChildren + 1
    /\ Return(t)
    /\ UNCHANGED <<dataVars, cont, todo, selectors, cv, watch, left, ready, unseen, pollVars,
                   socketVars, copy, collected, closeVars>>

\* recv(n): _make_active, and then what the queue holds.  "concurrent reads on the same
\* socket have to be locked; I don't believe it is the job of recv to do this": only one
\* thread at a time is in recv() of a child, but others may select, poll or close it.
CallRecv(t, c) ==
    /\ pc[t] = "idle" /\ c \in accepted \ closed
    /\ \A u \in Users : ~Reads(u, c)
    /\ \E b \in BOOLEAN : timed' = [timed EXCEPT ![t] = b]
    /\ Enter(t, c, "r_take")
    /\ UNCHANGED <<dataVars, todo, selectors, cv, watch, left, ready, unseen, pollVars,
                   socketVars, countVars, closeVars>>

recvVars == <<cont, todo, selectors, cv, watch, left, ready, unseen, pollVars, socketVars,
              countVars, closing, finished, parentDown, childrenDown>>

\* _get_incoming_msg: take the next message, unless one is left in incoming_head.
TakeMessage(t) ==
    /\ pc[t] = "r_take"
    /\ \/ Take(at[t]) /\ Goto(t, "r_store")
       \/ head[at[t]] # NoMessage /\ Goto(t, "r_load") /\ UNCHANGED dataVars
    /\ torn' = IF Finishing(at[t]) THEN torn \cup {at[t]} ELSE torn
    /\ UNCHANGED <<at, timed, recvVars>>

StoreMessage(t) ==
    /\ pc[t] = "r_store"
    /\ Store(at[t]) /\ Goto(t, "r_load")
    /\ UNCHANGED <<at, timed, torn, recvVars>>

\* None, if _finish_closing was faster, makes recv() return nothing.
LoadMessage(t) ==
    /\ pc[t] = "r_load"
    /\ Load(at[t])
    /\ CASE head[at[t]] = NoMessage -> Return(t)
         [] head[at[t]] = PeerClosed -> Goto(t, "r_eof") /\ UNCHANGED <<at, timed>>
         [] head[at[t]] \in Messages -> Goto(t, "r_read") /\ UNCHANGED <<at, timed>>
    /\ UNCHANGED <<torn, recvVars>>

Eof(t) ==
    /\ pc[t] = "r_eof"
    /\ ReadEof(at[t]) /\ Return(t)
    /\ UNCHANGED <<torn, recvVars>>

ReadMessage(t) ==
    /\ pc[t] = "r_read"
    /\ \E n \in 1 .. MsgSize : ReadBytes(at[t], n)
    /\ IF rest'[at[t]] = <<>> THEN Goto(t, "r_release") /\ UNCHANGED <<at, timed>>
       ELSE Return(t)
    /\ UNCHANGED <<torn, recvVars>>

ReleaseMessage(t) ==
    /\ pc[t] = "r_release"
    /\ Release(at[t], msg[at[t]]) /\ Goto(t, "r_reset")
    /\ UNCHANGED <<at, timed, torn, recvVars>>

ResetMessage(t) ==
    /\ pc[t] = "r_reset"
    /\ EndRead(at[t]) /\ Return(t)
    /\ UNCHANGED <<torn, recvVars>>

\* _finish_closing has released the message.
RecvFails(t) ==
    /\ pc[t] \in {"r_read", "r_release"} /\ retained[at[t]][msg[at[t]]] = 0
    /\ FailRead(at[t]) /\ Return(t)
    /\ UNCHANGED <<torn, recvVars>>

\* EAGAIN or a timeout; and None, without a wait, once the end has been reported.
RecvNothing(t) ==
    /\ pc[t] = "r_take" /\ head[at[t]] = NoMessage
    /\ \/ peerClosed[at[t]]
       \/ timed[t] /\ incoming[at[t]] = <<>>
    /\ Return(t)
    /\ UNCHANGED <<dataVars, torn, recvVars>>

CallClose(t, c) ==
    /\ pc[t] = "idle" /\ c \in accepted \ closed
    /\ Enter(t, c, "k_close")
    /\ UNCHANGED <<dataVars, todo, selectors, selectVars, pollVars, socketVars, countVars,
                   closeVars>>

\* ChildSocket.__del__, which makes the child active, as it is, and calls close().  The
\* child must be out of reach: its channel is closed, and either the program has closed
\* it, or it has just let it go, and does not use it from now on.  (The listener that a
\* second close() adds finds nothing to do, unless the first was torn.)
Dropped(c) ==
    /\ pc[Loop(c)] = "closed" /\ pc[Worker(c)] = "idle"
    /\ \A t \in Users : at[t] # c /\ c \notin watch[t]
    /\ \/ c \in closed \cap finished
       \/ /\ c \notin closing /\ registered[c] = {}
          /\ \A i \in DOMAIN pollQueue : pollQueue[i].sock # c
          /\ \A t \in Users : \A i \in DOMAIN batch[t] : batch[t][i].sock # c

Collect(c) ==
    /\ pc[Finalizer] = "idle"
    /\ c \in accepted \ collected /\ Dropped(c)
    /\ collected' = collected \cup {c}
    /\ closed' = closed \cup {c}
    /\ Enter(Finalizer, c, "k_close")
    /\ UNCHANGED <<dataVars, todo, selectors, selectVars, pollVars, activated, activation,
                   accepted, acceptedChildren, copy, closeVars>>

\* _realsocket.close: with open_count down to 0, or below, the channel is closed.
CloseChild(t) ==
    /\ pc[t] = "k_close"
    /\ closing' = closing \cup {at[t]}
    /\ Goto(t, "k_count")
    /\ UNCHANGED <<dataVars, at, cont, todo, selectors, selectVars, pollVars, socketVars,
                   countVars, finished, parentDown, childrenDown, torn>>

\* The rest of ChildSocket.close, with open_lock of the parent.  The parent's open_count
\* is 0 when its close() has been called.
UncountChild(t) ==
    /\ pc[t] = "k_count"
    /\ acceptedChildren' = acceptedChildren - 1
    /\ childrenDown' = \/ childrenDown
                       \/ Server \in closing /\ acceptedChildren = 1
    /\ closed' = closed \cup {at[t]}
    /\ Goto(t, "idle") /\ At(t, NoSocket)
    /\ UNCHANGED <<dataVars, cont, todo, selectors, selectVars, pollVars, activated,
                   activation, accepted, copy, collected, closing, finished, parentDown, torn>>

CloseServer(t) ==
    /\ pc[t] = "idle" /\ Server \notin closed
    /\ closing' = closing \cup {Server}
    /\ closed' = closed \cup {Server}
    /\ UNCHANGED <<dataVars, threadVars, todo, selectors, selectVars, pollVars, activated,
                   activation, countVars, finished, parentDown, childrenDown, torn>>
------------------------------------------------------------------------------
Call(t) ==
    \/ /\ \/ /\ "select" \in Calls[t]
             /\ \E S \in Watchable : S \subseteq accepted \cup {Server} /\ CallSelect(t, S)
          \/ /\ "poll" \in Calls[t]
             /\ \E s \in accepted \cup {Server}, m \in Masks :
                  CallRegister(t, s, m) \/ Modify(t, s, m) \/ CallUnregister(t, s)
          \/ "poll" \in Calls[t] /\ CallPoll(t)
       /\ UNCHANGED serverVars
    \/ "accept" \in Calls[t] /\ CallAccept(t)
    \/ "recv" \in Calls[t] /\ \E c \in Children : CallRecv(t, c)
    \/ "close" \in Calls[t] /\ (CloseServer(t) \/ \E c \in Children : CallClose(t, c))

Accepting(t) == TakeChild(t) \/ NoChild(t) \/ CountChild(t)
Receiving(t) ==
    \/ TakeMessage(t) \/ StoreMessage(t) \/ LoadMessage(t) \/ Eof(t) \/ ReadMessage(t)
    \/ ReleaseMessage(t) \/ ResetMessage(t) \/ RecvFails(t) \/ RecvNothing(t)
Closing(t) == CloseChild(t) \/ UncountChild(t)
Expiring(t) == (Expire(t) \/ PollExpires(t)) /\ UNCHANGED serverVars
Deciding(t) == Decide(t) /\ UNCHANGED serverVars
Activating(t) == MakeActive(t) /\ UNCHANGED serverVars
Notifies(t) == Notifying(t) /\ UNCHANGED serverVars

\* A user thread that has called something goes on.
Running(t) ==
    \/ (Selecting(t) \/ Polling(t)) /\ UNCHANGED serverVars
    \/ Accepting(t) \/ Receiving(t) \/ Closing(t)

Barrier(c) == Submit(c) \/ SubmitRejected(c) \/ Activated(c)
Queueing(c) == LockChild(c) \/ QueueChild(c) \/ UnlockChild(c)
Finish(c) ==
    BeginFinish(c) \/ ReleaseHead(c) \/ ReleaseFails(c) \/ ResetHead(c) \/ DrainQueue(c)
Leaving(c) == (c \in closing /\ CloseChannel(c)) \/ Finish(c)
Stopping == ShutDownParent \/ UncountParent \/ PollLeftover \/ CloseLeftover

Next ==
    \/ \E t \in Users : Call(t) \/ Running(t) \/ Expiring(t)
    \/ \E t \in Threads : Activating(t) \/ Notifies(t)
    \/ \E c \in Children : \/ Connect(c) \/ Barrier(c) \/ Queueing(c)
                           \/ ReadChannel(c) \/ CloseChannel(c) \/ Finish(c)
                           \/ Collect(c)
    \/ Stopping \/ Closing(Finalizer)

Spec == Init /\ [][Next]_vars

\* Threads go on with what they have begun, and time passes: a call with a timeout that
\* sleeps is woken, and one that comes to the decision again and again gives up.  A
\* thread that notifies a select gets its lock in the end, however often its caller
\* takes it again.  Connections, messages and calls need not come; a close that was
\* asked for does.
Fairness ==
    /\ \A t \in Users : /\ WF_vars(Running(t) \/ Activating(t))
                        /\ WF_vars(Expiring(t))
                        /\ SF_vars(Deciding(t))
    /\ \A c \in Children :
         /\ SF_vars(Barrier(c) \/ Leaving(c) \/ Notifies(Loop(c)))
         /\ SF_vars(Queueing(c) \/ Notifies(Worker(c)))
    /\ WF_vars(Stopping \/ Activating(Loop(Server)))

FairSpec == Spec /\ Fairness
------------------------------------------------------------------------------
\* The byte that follows b in what the peer sends.
Successor(b) == IF b[2] < MsgSize THEN <<b[1], b[2] + 1>> ELSE <<b[1] + 1, 1>>

\* Whole messages from the first on, each byte once, in the order of the peer.
InOrder(bytes) ==
    /\ \A i \in DOMAIN bytes :
           bytes[i] = IF i = 1 THEN <<1, 1>> ELSE Successor(bytes[i - 1])
    /\ bytes # <<>> => bytes[Len(bytes)][2] = MsgSize

LastMessage(bytes) == IF bytes = <<>> THEN 0 ELSE bytes[Len(bytes)][1]

\* The program reads what the peer has sent, in its order, each byte once, and the end
\* after all of it: what recv() has returned and what is left of the message it took last
\* are the first messages, the queue holds all the others that were received, and then the
\* end.  That is until _finish_closing begins to throw away what nobody has read.
StreamExact ==
    \A c \in {d \in Children \ finished : ~Finishing(d)} :
        LET last == LastMessage(got[c] \o rest[c])
        IN /\ InOrder(got[c] \o rest[c])
           /\ last <= sent[c] /\ sent[c] <= last + Len(incoming[c])
           /\ \A i \in DOMAIN incoming[c] :
                  IF last + i <= sent[c]
                  THEN incoming[c][i] = last + i
                  ELSE incoming[c][i] = PeerClosed /\ i = Len(incoming[c]) /\ ~peerClosed[c]

\* Every buffer is released once: it is retained exactly as long as it is in the queue, in
\* incoming_head or at hand in recv(), up to its release, and closing a socket leaves none
\* behind.  (When _finish_closing overlaps with a recv() that has its message, a buffer
\* may be left in the field, or the queue: see torn.  Before its take, and after its end,
\* a recv() does no harm.)
BuffersReleased ==
    \A c \in Children \ torn : \A m \in Messages :
        retained[c][m] =
            IF \/ \E i \in DOMAIN incoming[c] : incoming[c][i] = m
               \/ /\ m = head[c] \/ m = msg[c]
                  /\ ~\E t \in Threads : at[t] = c /\ pc[t] \in {"r_reset", "d_reset"}
            THEN 1 ELSE 0

\* "Not blocking here will cause corruption in send/recv data because it will overlap
\* with the handshaking": nothing is read while the child is still waiting for the
\* thread that will say whether it is wrapped, from its connection until it is taken
\* out of the queue and used.
BarrierKept ==
    \A c \in Children : (sent[c] > 0 \/ incoming[c] # <<>>) =>
        /\ activated[c] /\ pc[Worker(c)] \notin {"w_lock", "w_put"}
        /\ \A i \in DOMAIN childQueue : childQueue[i] # c

\* A select that watches a socket that can be read returns.
InSelect(t) ==
    \/ pc[t] \in {"s_register", "s_add", "s_test", "s_decide", "s_wait", "s_woken"}
    \/ pc[t] = "activate" /\ cont[t] = "s_add"

Selecters == {t \in Users : "select" \in Calls[t]}

SelectReturns ==
    \A t \in Selecters, s \in Sockets :
        (InSelect(t) /\ s \in watch[t] /\ Readable(s))
            ~> (~InSelect(t) \/ ~Readable(s) \/ s \in unseen[t])

\* "timeout = 0 # Can't wait forever": a select with a timeout returns, whatever it finds.
SelectTimesOut == \A t \in Selecters : (InSelect(t) /\ timed[t]) ~> ~InSelect(t)

\* A connection the program uses gets out of initChannel, and one it closes is finished.
BarrierOpens == \A c \in Children : activated[c] ~> pc[Loop(c)] \in {"loop", "closed"}

CloseFinishes == \A c \in Children : c \in closing ~> c \in finished

\* accepted_children counts "the parent as well to simplify close logic": the event loops
\* of the children are not shut down while an accepted child is still open.
LoopsOutlive == childrenDown => accepted \subseteq closing
==============================================================================
