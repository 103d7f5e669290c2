CONSTANTS
    u1 = u1
    u2 = u2
    m1 = m1
    Threads = {u1, u2, m1}
    Timers = {m1}
    NoThread = NoThread
SPECIFICATION FairSpec
INVARIANTS NoSleeperWhileSet FalseMeansCleared CancelStopsTimer
PROPERTIES WaitersReturn TimerFinishes
