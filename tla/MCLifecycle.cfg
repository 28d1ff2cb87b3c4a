CONSTANTS
    r1 = r1  r2 = r2
    t1 = t1
    c1 = c1  c2 = c2
    q1 = q1
    Runs           <- TwoRuns
    Tasks          <- OneTask
    TaskOf         <- SameTask
    Closers        <- OneCloser
    Disturbed      <- TwoRuns
    Queries        <- OneQuery
    MaxConcurrency = 1
    MaxAbandons    = 1
    MaxCloseFails  = 1
SPECIFICATION Spec
CHECK_DEADLOCK FALSE
INVARIANTS
    SlotsConserved
    StoreOutlivesUsers
    HandoverClean
PROPERTIES
    RowKept
    CleanupTimeoutHonest
