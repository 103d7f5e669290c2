CONSTANTS
    u1 = u1
    u2 = u2
    c1 = c1
    c2 = c2
    Server = Server
    Children = {c1}
    Users = {u1, u2}
    Poll = Poll
    Nobody = Nobody
    NoSocket = NoSocket
    MaxMsgs = 1
    MsgSize = 2
    Backlog = 1
    MaxNotes = 1
    Watchable <- Apart
    Calls <- SelectCalls
    Masks <- InOrHup
SPECIFICATION FairSpec
INVARIANTS NoLostNotification BuffersReleased BarrierKept
PROPERTIES SelectReturns SelectTimesOut BarrierOpens CloseFinishes
CHECK_DEADLOCK FALSE
