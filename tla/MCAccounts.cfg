CONSTANTS
    t1 = t1
    small = small  large = large  huge = huge
    Task      = t1
    Tasks     <- OneTask
    Budgets   <- Budgets0
    Amounts   <- Reserves
    Costs     <- OddCosts
    Phases    <- RunPhases
    MaxCalls  = 4
    MaxLedger = 20
    Models    <- TwoModels
    Planners  <- OnlySmall
    Quality   <- QualityTwo
    Estimate  <- EstimatesTwo
    Submissions <- AccountTasks
    PlanningCost = 2
    DecisionCost = 1
    ToolCost     = 1
    MinQuality   = 0
    MinGain      = 2
    DifferentCritic = TRUE
    MaxRounds     = 1
    MaxAttempts   = 2
    MaxBatch      = 2
    MaxFaults     = 1
    MaxReconciles = 1
SPECIFICATION Spec
CHECK_DEADLOCK FALSE
INVARIANTS
    TypeOK
    OffTheListIsPaid
    AccountsClosed
    ConflictIsTold
