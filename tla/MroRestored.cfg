CONSTANTS
    O = O
    A = A
    B = B
    C = C
    D = D
    X = X
    Y = Y
    P = P
    R = R
    Z = Z
    look = look
    set = set
    bind = bind
    m = m
    v1 = v1
    v2 = v2
    Types = {O, X, Y, P, R, Z}
    Hierarchy <- Diamond
    Builtin = {O}
    Names = {m}
    Values = {v1, v2}
    Slots = {1}
    Lookers = {look}
    Setters = {set}
    Rebinders = {bind}
    Looked = {R}
    Rebinds <- DiamondRebinds
    InitialDict <- NoAttributes
    MaxCalls <- Once
    None = None
SPECIFICATION Spec
INVARIANTS MroRestored
CHECK_DEADLOCK FALSE
