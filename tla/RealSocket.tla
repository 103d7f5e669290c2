----------------------------- MODULE RealSocket ------------------------------
(***************************************************************************)
(* The data a socket of Lib/_socket.py holds for its reader: the queue     *)
(* that the event loop of Netty fills, and the message that recv() takes   *)
(* from it and hands out in pieces; and, for a listening socket, the queue *)
(* of connections not yet accepted.  No lock protects any of it: a step    *)
(* here is a call on the queue or the buffer, or one access to the field   *)
(* incoming_head.                                                          *)
(*                                                                         *)
(* A message is a Netty buffer of MsgSize bytes.  The buffers come from a  *)
(* pool: whoever puts one in the queue retains it, and it must be released *)
(* once.  The module declares this state and the steps on it; Selectors    *)
(* and ServerSocket say which thread takes them, and when.                 *)
(***************************************************************************)
EXTENDS Integers, Sequences, SequencesExt

CONSTANTS Server,    \* the listening socket
          Children,  \* its ChildSockets, one for each connection that is made
          MaxMsgs,   \* bound: messages the peer sends on one connection
          MsgSize,   \* bytes in a message
          Backlog    \* the argument of listen(), the capacity of child_queue

ASSUME RealSocketAssumption ==
    /\ IsFiniteSet(Children) /\ Server \notin Children
    /\ MaxMsgs \in Nat /\ MsgSize \in Nat \ {0} /\ Backlog \in Nat \ {0}

VARIABLES incoming,    \* the queue of messages, by number, and PeerClosed
          head,        \* incoming_head: a message, PeerClosed, or NoMessage for None
          msg,         \* what the thread in recv() has at hand of the stream
          rest,        \* the bytes left in the message that was taken last
          peerClosed,  \* peer_closed, set when recv() has returned PeerClosed
          childQueue,  \* child_queue of the listening socket
          sent,        \* number of messages received from the network
          retained,    \* reference count of each message
          got          \* history: the bytes recv() has returned

streamVars == <<incoming, head, msg, rest, peerClosed, sent, retained, got>>
dataVars == <<streamVars, childQueue>>

Sockets == Children \cup {Server}
Messages == 1 .. MaxMsgs
PeerClosed == 0
NoMessage == -1

\* A byte is the number of its message and its place in it.
Bytes(m) == [i \in 1 .. MsgSize |-> <<m, i>>]

DataTypeOK ==
    /\ incoming \in [Children -> Seq(Messages \cup {PeerClosed})]
    /\ head \in [Children -> Messages \cup {PeerClosed, NoMessage}]
    /\ msg \in [Children -> Messages \cup {PeerClosed, NoMessage}]
    /\ rest \in [Children -> Seq(Messages \X (1 .. MsgSize))]
    /\ peerClosed \in [Children -> BOOLEAN]
    /\ childQueue \in Seq(Children) /\ Len(childQueue) <= Backlog
    /\ sent \in [Children -> 0 .. MaxMsgs]
    /\ retained \in [Children -> [Messages -> Int]]
    /\ got \in [Children -> Seq(Messages \X (1 .. MsgSize))]

DataInit ==
    /\ incoming = [c \in Children |-> <<>>]
    /\ head = [c \in Children |-> NoMessage] /\ msg = [c \in Children |-> NoMessage]
    /\ rest = [c \in Children |-> <<>>]
    /\ peerClosed = [c \in Children |-> FALSE] /\ childQueue = <<>>
    /\ sent = [c \in Children |-> 0]
    /\ retained = [c \in Children |-> [m \in Messages |-> 0]]
    /\ got = [c \in Children |-> <<>>]

\* _readable(): what is left of the message in incoming_head, or the queue.
Readable(s) ==
    IF s = Server THEN childQueue # <<>>
    ELSE (head[s] \in Messages /\ rest[s] # <<>>) \/ incoming[s] # <<>>

\* There is something to read, though a thread may have it at hand, out of the queue and
\* not yet in incoming_head, where _readable() does not see it.
Filled(s) ==
    IF s = Server THEN childQueue # <<>>
    ELSE \/ rest[s] # <<>> /\ (head[s] \in Messages \/ msg[s] \in Messages)
         \/ incoming[s] # <<>>
------------------------------------------------------------------------------
\* channelRead: the message is retained and put in the queue.
Receive(c) ==
    /\ sent[c] < MaxMsgs
    /\ LET m == sent[c] + 1
       IN /\ sent' = [sent EXCEPT ![c] = m]
          /\ retained' = [retained EXCEPT ![c][m] = @ + 1]
          /\ incoming' = [incoming EXCEPT ![c] = Append(@, m)]
    /\ UNCHANGED <<head, msg, rest, peerClosed, got, childQueue>>

\* _peer_closed, in so far as it concerns the queue.
ReceiveEof(c) ==
    /\ incoming' = [incoming EXCEPT ![c] = Append(@, PeerClosed)]
    /\ UNCHANGED <<head, msg, rest, peerClosed, sent, retained, got, childQueue>>

\* recv(): take() or poll(), if there is no message in incoming_head, ...
Take(c) ==
    /\ head[c] = NoMessage /\ incoming[c] # <<>>
    /\ LET m == Head(incoming[c])
       IN /\ msg' = [msg EXCEPT ![c] = m]
          /\ rest' = [rest EXCEPT ![c] = IF m = PeerClosed THEN <<>> ELSE Bytes(m)]
    /\ incoming' = [incoming EXCEPT ![c] = Tail(@)]
    /\ UNCHANGED <<head, peerClosed, sent, retained, got, childQueue>>

\* ... its assignment to incoming_head, ...
Store(c) ==
    /\ head' = [head EXCEPT ![c] = msg[c]]
    /\ UNCHANGED <<incoming, msg, rest, peerClosed, sent, retained, got, childQueue>>

\* ... and "msg = self.incoming_head".
Load(c) ==
    /\ msg' = [msg EXCEPT ![c] = head[c]]
    /\ UNCHANGED <<incoming, head, rest, peerClosed, sent, retained, got, childQueue>>

\* At the end of the stream '' is returned, and the mark is gone.
ReadEof(c) ==
    /\ msg[c] = PeerClosed
    /\ head' = [head EXCEPT ![c] = NoMessage] /\ msg' = [msg EXCEPT ![c] = NoMessage]
    /\ peerClosed' = [peerClosed EXCEPT ![c] = TRUE]
    /\ UNCHANGED <<incoming, rest, sent, retained, got, childQueue>>

\* Mutant of ReadBytes: what is left of a message is dropped.
ReadBytesOnce(c, n) ==
    /\ retained[c][msg[c]] > 0
    /\ got' = [got EXCEPT ![c] = @ \o SubSeq(rest[c], 1, IF n < Len(rest[c]) THEN n ELSE Len(rest[c]))]
    /\ rest' = [rest EXCEPT ![c] = <<>>]
    /\ UNCHANGED <<incoming, head, msg, peerClosed, sent, retained, childQueue>>

\* readBytes: up to n bytes of the message; a buffer that is released already raises.
\* The call returns, if any are left, and they stay in incoming_head.
ReadBytes(c, n) ==
    LET k == IF n < Len(rest[c]) THEN n ELSE Len(rest[c])
    IN /\ retained[c][msg[c]] > 0
       /\ got' = [got EXCEPT ![c] = @ \o SubSeq(rest[c], 1, k)]
       /\ rest' = [rest EXCEPT ![c] = SubSeq(@, k + 1, Len(@))]
       /\ msg' = [msg EXCEPT ![c] = IF k = Len(rest[c]) THEN @ ELSE NoMessage]
       /\ UNCHANGED <<incoming, head, peerClosed, sent, retained, childQueue>>

\* release: the buffer goes back to the pool.
Release(c, m) ==
    /\ retained[c][m] > 0
    /\ retained' = [retained EXCEPT ![c][m] = @ - 1]
    /\ UNCHANGED <<incoming, head, msg, rest, peerClosed, sent, got, childQueue>>

\* "self.incoming_head = None", of _finish_closing, ...
Reset(c) ==
    /\ head' = [head EXCEPT ![c] = NoMessage]
    /\ UNCHANGED <<incoming, msg, rest, peerClosed, sent, retained, got, childQueue>>

\* ... and of recv(), which returns.
EndRead(c) ==
    /\ head' = [head EXCEPT ![c] = NoMessage] /\ msg' = [msg EXCEPT ![c] = NoMessage]
    /\ UNCHANGED <<incoming, rest, peerClosed, sent, retained, got, childQueue>>

\* recv() ends with an exception.
FailRead(c) ==
    /\ msg' = [msg EXCEPT ![c] = NoMessage]
    /\ UNCHANGED <<incoming, head, rest, peerClosed, sent, retained, got, childQueue>>

\* Mutant of Drain: the messages are dropped, and not released.
DrainUnreleased(c) ==
    /\ incoming' = [incoming EXCEPT ![c] = <<>>]
    /\ UNCHANGED <<head, msg, rest, peerClosed, sent, retained, got, childQueue>>

\* drainTo, and the release of what was in the queue, which nobody else can reach now.
Drain(c) ==
    /\ incoming' = [incoming EXCEPT ![c] = <<>>]
    /\ retained' = [retained EXCEPT ![c] = [m \in Messages |->
                        IF \E i \in DOMAIN incoming[c] : incoming[c][i] = m
                        THEN retained[c][m] - 1 ELSE retained[c][m]]]
    /\ UNCHANGED <<head, msg, rest, peerClosed, sent, got, childQueue>>

\* child_queue.put, which waits while the queue is full, take and poll
Enqueue(c) ==
    /\ Len(childQueue) < Backlog
    /\ childQueue' = Append(childQueue, c)
    /\ UNCHANGED streamVars

Dequeue ==
    /\ childQueue # <<>>
    /\ childQueue' = Tail(childQueue)
    /\ UNCHANGED streamVars
==============================================================================
