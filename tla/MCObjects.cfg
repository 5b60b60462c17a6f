CONSTANTS
    c1 = c1
    c2 = c2
    c3 = c3
    Clients = {c1, c2, c3}
    Obj = obj
    Names = {obj}
    NumTries = 1
    Old = old
    None = none
    Partial = partial
    KindsOf <- MCKindsOf
    Policy = "immediate"
    UplockTries = 1
    MaxFaults = 1
    MaxCrashes = 1
SPECIFICATION ObjSpec
INVARIANTS
    NoTornRead
    VisibleAfterRemote
    CacheCoherent
    AckedStays
    NobodyStuck
PROPERTIES
    NoRefetch
CHECK_DEADLOCK FALSE
