SPECIFICATION FairSpec
CONSTANTS
    Conns = {c1, c2}
    Callers = {c1, c2}
    NumSources = 2
    MaxConn = 1
    RateLimited = TRUE
    NamedTarget = TRUE
    None = None
INVARIANT StoppedIsClean
PROPERTIES ImplementsBudget IdleSparesPending StopSparesResolver StopEnds
CHECK_DEADLOCK FALSE
