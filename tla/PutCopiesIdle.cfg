SPECIFICATION PCFairSpec
CONSTANTS
    p1 = p1
    p2 = p2
    m1 = m1
    Run = Run
    User = User
    Puts <- MCPuts
    Mpaths <- MCMpaths
    MpathOf <- MCMpathOf
    Procs <- MCProcs
    Attached <- MCAttached
    Burst = 1
    Nobody = Nobody
PROPERTY SelfTerminates
