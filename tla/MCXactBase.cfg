SPECIFICATION FairSpec
CONSTANTS
    a1 = a1
    d1 = d1
    f1 = f1
    s1 = s1
    e1 = e1
    Procs <- MCProcs
    Role <- MCRole
    Nobody = Nobody
    PollTimesOut = TRUE
INVARIANTS NoPanic NotifiedOnce OutcomeReported
PROPERTIES ImplementsAbs FinishNotifies
