CONSTANTS
    Nodes         <- MCNodes
    Names         <- MCNames
    Frame         <- MCFrame
    Split         <- MCSplit
    Usages        <- MCUsages
    Tokens        <- MCTokens
    ArgumentTexts <- MCArguments
    InputPrice  = 1
    OutputPrice = 2
    MaxCost     = 20
    MaxTools    = 2
    FrameLimit  = 2
    OutputLimit = 8
    PartSize    = 2
    Capacity    = 1
    MaxFrames   = 3
SPECIFICATION Spec
CHECK_DEADLOCK FALSE
INVARIANTS
    TypeOK
    ReceivedIsCharged
    AnswerIsWhole
    IncrementsInOrder
