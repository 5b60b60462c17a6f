CONSTANTS
    t1 = t1
    t2 = t2
    o1 = o1
    o2 = o2
    Targets = {t1, t2}
    MaxGen = 2
    UserGens = {1}
    Overlaps = FALSE
    Objs = {o1, o2}
    HomeOf <- MCHomeOf
    HrwOf <- MCHrwOf
    Scenarios <- OneAfterOther
SPECIFICATION RebSpec
INVARIANTS
    SingleOwner
CHECK_DEADLOCK FALSE
