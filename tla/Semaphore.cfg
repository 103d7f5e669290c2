CONSTANTS
    t1 = t1
    t2 = t2
    t3 = t3
    Threads = {t1, t2, t3}
    NoThread = NoThread
    InitialValue = 2
    Interruptible = TRUE
SPECIFICATION FairSpec
INVARIANTS MutualExclusion Conservation NoLostWakeup ExcessBounded
PROPERTIES ImplementsAtomic ImplementsFair
CHECK_DEADLOCK FALSE
