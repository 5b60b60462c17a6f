CONSTANTS
    t1 = t1
    t2 = t2
    o1 = o1
    o2 = o2
    Targets = {t1, t2}
    MaxGen = 2
    UserGens = {}
    Overlaps = FALSE
    Objs = {o1, o2}
    HomeOf <- MCHomeOf
    HrwOf <- MCHrwOf
    Scenarios <- MCScenarios
SPECIFICATION RebFairSpec
INVARIANTS
    SingleOwner
    Delivered
PROPERTIES
    NewestSucceeds
CHECK_DEADLOCK FALSE
