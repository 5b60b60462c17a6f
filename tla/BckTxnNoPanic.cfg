CONSTANTS
    b1 = b1
    Targets = {t1, t2}
    Bcks = {b1}
    NoTxn = NoTxn
    Uuids <- MCUuids2
    OpOf <- MncDestroy
    BckOf <- SameBck2
    BMDs <- MCBMDs
    InitBcks = {b1}
    MaxTries = 2
    MaxFaults = 0
    HkRuns = FALSE
SPECIFICATION Spec
SYMMETRY Symmetry
INVARIANTS
    NoPanic
CHECK_DEADLOCK FALSE
