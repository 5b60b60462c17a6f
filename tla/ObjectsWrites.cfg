CONSTANTS
    c1 = c1
    c2 = c2
    c3 = c3
    Clients = {c1, c2}
    Obj = obj
    Names = {obj}
    NumTries = 1
    Old = old
    None = none
    Partial = partial
    KindsOf <- MCKindsOf
    Policy = "immediate"
    UplockTries = 1
    MaxFaults = 0
    MaxCrashes = 0
SPECIFICATION ObjSpec
INVARIANTS
    WritesConsistent
CHECK_DEADLOCK FALSE
