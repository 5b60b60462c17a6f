CONSTANTS
    t1 = t1
    t2 = t2
    p1 = p1
    Nobody = Nobody
    Others = {t1, t2, p1}
    TargetNodes = {t1, t2}
    InitMembers = {t1, p1}
    Tags <- MCTags
    Callers = {1, 2, 3}
    NodeOf <- MCNodeOf
    Retries = 1
    Scenarios <- LeaderScenarios
SPECIFICATION Spec
PROPERTIES
    OnlyPrimarySends
