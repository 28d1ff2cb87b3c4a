CONSTANTS
    t1 = t1
    m1 = m1
    a1 = a1
    f1 = f1  f2 = f2
    Tasks      <- OneTask
    Budgets    <- OneBudget
    Amounts    <- OneAmount
    Costs      <- OverCost
    MaxCalls   = 2
    MaxLedger  = 5
    Phases     <- PlanPhase
    Models     <- OneModel
    RoleOf     <- SameRole
    Artifacts  <- OneArtifact
    Ids        <- TwoIds
    Versions   <- TwoVersions
    Acceptance <- AcceptV1
SPECIFICATION Spec
VIEW Tables
INVARIANTS
    TypeOK
    CreditedOnce
    MetricsBalance
PROPERTIES
    RecordsFinal
    RevisionIdentifiesQuality
