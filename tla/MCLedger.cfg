CONSTANTS
    t1 = t1
    Tasks     <- OneTask
    Budgets   <- SmallBudgets
    Amounts   <- SmallAmounts
    Costs     <- SmallCosts
    MaxCalls  = 2
    MaxLedger = 5
    Phases    <- OnePhase
SPECIFICATION Spec
INVARIANTS
    TypeOK
    ColumnsMatch
    WithinBudget
PROPERTIES
    EvidenceFinal
    BillIsFinal
    ImplementsAccount
