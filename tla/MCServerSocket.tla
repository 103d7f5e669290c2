--------------------------- MODULE MCServerSocket ----------------------------
EXTENDS ServerSocket
CONSTANTS u1, u2, c1, c2
Apart == {{s} : s \in Sockets}
Together == {Sockets}
InOrHup == {{"hup"}, {"in", "hup"}}
SelectCalls == (u1 :> {"select", "accept", "close"}) @@ (u2 :> {"recv"})
PollCalls == (u1 :> {"accept", "recv"}) @@ (u2 :> {"poll"})
CloseCalls == (u1 :> {"accept", "close"}) @@ (u2 :> {})
==============================================================================
