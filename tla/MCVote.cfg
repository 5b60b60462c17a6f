CONSTANTS
    p1 = p1
    p2 = p2
    p3 = p3
    t1 = t1
    t2 = t2
    t3 = t3
    Proxies = {p1, p2, p3}
    Targets = {t1}
    Rank <- MCRank
    First = p1
    MaxCrashes = 1
    MaxNetFaults = 1
SPECIFICATION VFairSpec
INVARIANTS OneLeader
PROPERTIES VersionsGrow Failover
CHECK_DEADLOCK FALSE
