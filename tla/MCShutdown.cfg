CONSTANTS
    r1 = r1  r2 = r2
    t1 = t1
    c1 = c1  c2 = c2
    q1 = q1
    Runs           <- TwoRuns
    Tasks          <- OneTask
    TaskOf         <- SameTask
    Closers        <- OneCloser
    Disturbed      <- OnlyOne
    Queries        <- NoQuery
    MaxConcurrency = 1
    MaxAbandons    = 1
    MaxCloseFails  = 1
SPECIFICATION RetryingSpec
CHECK_DEADLOCK FALSE
PROPERTIES
    RunReturns
    ShutdownCompletes
