CONSTANTS
    t1 = t1
    small = small  large = large  huge = huge
    Task      = t1
    Tasks     <- OneTask
    Budgets   <- Budgets0
    Amounts   <- Reserves
    Costs     <- OneCost
    Phases    <- RunPhases
    MaxCalls  = 2
    MaxLedger = 20
    Models    <- OnlySmall
    Planners  <- OnlySmall
    Quality   <- QualityOne
    Estimate  <- EstimatesOne
    Submissions <- DecisionTasks
    PlanningCost = 2
    DecisionCost = 1
    ToolCost     = 1
    MinQuality   = 0
    MinGain      = 2
    DifferentCritic = TRUE
    MaxRounds     = 1
    MaxAttempts   = 1
    MaxBatch      = 1
    MaxFaults     = 0
    MaxReconciles = 0
SPECIFICATION Spec
CHECK_DEADLOCK FALSE
INVARIANTS
    DecisionBilled
