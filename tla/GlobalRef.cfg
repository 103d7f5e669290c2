CONSTANTS
    o1 = o1
    r1 = r1
    r2 = r2
    u1 = u1
    Objects = {o1}
    Refs = {r1, r2}
    Referent <- TwoReferences
    Users = {u1}
    Reaper = Reaper
    Processor = Processor
    Finalizer = Finalizer
    Nobody = Nobody
    Modes = {"none", "force", "preserve"}
    MaxGrefs = 3
SPECIFICATION FairSpec
INVARIANTS CallbackFinal NoOrphan TableExact
PROPERTIES NoneIsFinal GetResolves
CHECK_DEADLOCK FALSE
