CONSTANTS
    e1 = e1  e2 = e2  e3 = e3
    p1 = p1  p2 = p2
    f1 = f1
    direct = direct  link = link
    Engines <- MCEngines
    Process <- MCProcess
    Files   <- MCFiles
    Names   <- MCNames
    FileAt  <- MCFileAt
    Inodes  <- MCInodes
    Found   <- MCFound
    Tables  <- MCTables
    ApplicationId = 7
    SchemaVersion = 2
    MaxWrites     = 2
SPECIFICATION Spec
CHECK_DEADLOCK FALSE
INVARIANTS
    SoleOwner
PROPERTIES
    FilesKept
