CONSTANTS
    c1 = c1  c2 = c2  callback = callback
    Closers  <- OneAndTool
    InTool   <- TheCallback
    MaxTools = 2
SPECIFICATION FairSpec
CHECK_DEADLOCK FALSE
INVARIANTS
    TypeOK
    CleanedUp
PROPERTIES
    ToolServed
    SessionEnds
