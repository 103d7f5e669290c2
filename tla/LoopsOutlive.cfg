CONSTANTS
    u1 = u1
    u2 = u2
    c1 = c1
    c2 = c2
    Server = Server
    Children = {c1, c2}
    Users = {u1, u2}
    Poll = Poll
    Nobody = Nobody
    NoSocket = NoSocket
    MaxMsgs = 0
    MsgSize = 2
    Backlog = 1
    MaxNotes = 1
    Watchable <- Apart
    Calls <- CloseCalls
    Masks <- InOrHup
SPECIFICATION Spec
INVARIANTS LoopsOutlive
CHECK_DEADLOCK FALSE
