CONSTANTS
    None = None  Failed = Failed
    m1 = m1  m2 = m2  m3 = m3
    Models      <- MCModels
    Id          <- MCId
    Class       <- MCClass
    Cost        <- MCCost
    Acceptance  <- MCAcceptance
    Merit       <- MCMerit
    Nodes       <- MCNodes
    RoleType    <- MCRoleType
    Allowed     <- MCAllowed
    Types       <- MCTypes
    General     = "general"
    Parents     <- MCParents
    Profiles    <- MCProfiles
    Weights     <- MCWeights
    Entries     <- MCEntries
    Published   = 0
    Expires     = 1
    Unit        = 1000
    DefaultWeight = 10
    Selection   <- MCSelection
    MaxCallCost = 3
    CostScale   <- MCCostScale
    Rules       <- MCRules
    Questions   <- MCQuestions
    Policy      <- MCPolicy
    Submissions <- MCSubmissions
    Assessments <- MCAssessments
    Requests    <- MCRequests
    MaxTime     = 1
    MaxSamples  = 1
    MaxRoutes   = 1
SPECIFICATION Spec
CHECK_DEADLOCK FALSE
INVARIANTS
    ClassHolds
    OnlyValueDecides
    BetterQualityNeverHurts
