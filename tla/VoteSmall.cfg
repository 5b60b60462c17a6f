CONSTANTS
    p1 = p1
    p2 = p2
    p3 = p3
    t1 = t1
    t2 = t2
    t3 = t3
    Proxies = {p1, p2}
    Targets = {t1}
    Rank <- MCRank2
    First = p1
    MaxCrashes = 1
    MaxNetFaults = 0
SPECIFICATION VFairSpec
PROPERTIES Failover
CHECK_DEADLOCK FALSE
