CONSTANTS
    t1 = t1
    small = small  large = large  huge = huge
    Task      = t1
    Tasks     <- OneTask
    Budgets   <- Budgets0
    Amounts   <- Reserves
    Costs     <- OneCost
    Phases    <- RunPhases
    MaxCalls  = 4
    MaxLedger = 20
    Models    <- AllModels
    Planners  <- OnlySmall
    Quality   <- Qualities
    Estimate  <- Estimates
    Submissions <- RoundTasks
    PlanningCost = 2
    DecisionCost = 1
    ToolCost     = 1
    MinQuality   = 0
    MinGain      = 2
    DifferentCritic = TRUE
    MaxRounds     = 3
    MaxAttempts   = 2
    MaxBatch      = 1
    MaxFaults     = 1
    MaxReconciles = 0
SPECIFICATION FairSpec
CHECK_DEADLOCK FALSE
INVARIANTS
    PlannedFirst
    RecordedFirst
    CompletedIsEarned
    CascadeClimbs
PROPERTIES
    StopEnds
