CONSTANTS
    b1 = b1
    Targets = {t1, t2}
    Bcks = {b1}
    NoTxn = NoTxn
    Uuids <- MCUuids2
    OpOf <- CreateDestroy
    BckOf <- SameBck2
    BMDs <- MCBMDs
    InitBcks = {}
    MaxTries = 2
    MaxFaults = 1
    HkRuns = TRUE
SPECIFICATION Spec
SYMMETRY Symmetry
INVARIANTS
    SuccessEverywhere
    SameVersionSameBMD
    UndoRemovesOwn
    SettledClean
    LockOwnership
