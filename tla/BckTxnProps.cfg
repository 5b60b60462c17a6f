CONSTANTS
    b1 = b1
    Targets = {t1}
    Bcks = {b1}
    NoTxn = NoTxn
    Uuids <- MCUuids4
    OpOf <- AllFour
    BckOf <- SameBck4
    BMDs <- MCBMDs
    InitBcks = {b1}
    MaxTries = 2
    MaxFaults = 1
    HkRuns = FALSE
SPECIFICATION Spec
INVARIANTS
    SuccessEverywhere
    SettledClean
CHECK_DEADLOCK FALSE
