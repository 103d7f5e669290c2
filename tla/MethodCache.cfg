CONSTANTS
    O = O
    A = A
    B = B
    C = C
    D = D
    X = X
    Y = Y
    P = P
    R = R
    Z = Z
    look = look
    set = set
    bind = bind
    m = m
    v1 = v1
    v2 = v2
    Types = {O, A, B, C, D}
    Hierarchy <- Siblings
    Builtin = {O}
    Names = {m}
    Values = {v1, v2}
    Slots = {1}
    Lookers = {look}
    Setters = {set}
    Rebinders = {bind}
    Looked = {D}
    Rebinds <- SiblingRebinds
    InitialDict <- SiblingDict
    MaxCalls <- Limits
    None = None
SPECIFICATION FairSpec
INVARIANTS CacheCoherent QuietAnswer AllAnnounced HierarchyConsistent
PROPERTIES ChangesEnd
CHECK_DEADLOCK FALSE
