CONSTANTS
    o1 = o1
    r1 = r1
    r2 = r2
    u1 = u1
    Objects = {o1}
    Refs = {r1}
    Referent <- OneReference
    Users = {u1}
    Reaper = Reaper
    Processor = Processor
    Finalizer = Finalizer
    Nobody = Nobody
    Modes = {"preserve"}
    MaxGrefs = 2
SPECIFICATION Spec
PROPERTIES NoneMeansCleared
CHECK_DEADLOCK FALSE
