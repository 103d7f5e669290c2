CONSTANTS
    a = a
    b = b
    c = c
    user = user
    p1 = p1
    p2 = p2
    fin = fin
    Objects = {a, b, c}
    Users = {user}
    Processors = {p1, p2}
    Finalizer = fin
    Sentinel = Sentinel
    Modes = {TRUE, FALSE}
    Timely = TRUE
    Undisturbed = TRUE
    None = None
SPECIFICATION FairSpec
INVARIANTS NoOverlap FinalizedOnce 
PROPERTIES CollectComplete  CountedCollectReturns
CHECK_DEADLOCK FALSE
