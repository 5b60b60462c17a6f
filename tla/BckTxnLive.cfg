CONSTANTS
    b1 = b1
    Targets = {t1}
    Bcks = {b1}
    NoTxn = NoTxn
    Uuids <- MCUuids2
    OpOf <- CreateDestroy
    BckOf <- SameBck2
    BMDs <- MCBMDs
    InitBcks = {}
    MaxTries = 2
    MaxFaults = 2
    HkRuns = TRUE
SPECIFICATION FairSpec
PROPERTIES
    ComesToRest
