CONSTANTS
    t1 = t1
    t2 = t2
    Threads = {t1, t2}
    Readers = {t1}
    NoThread = NoThread
    v1 = v1
    v2 = v2
    Values = {v1, v2}
    Null = Null
    MaxLinks = 3
    Types <- MCTypes
SPECIFICATION FairSpec
INVARIANT WellFormed
PROPERTIES ImplementsMap ReadsEnd
