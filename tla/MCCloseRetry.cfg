CONSTANTS
    c1 = c1  c2 = c2  callback = callback
    Closers  <- TwoClosers
    InTool   <- Nobody
    MaxTools = 1
SPECIFICATION Spec
CHECK_DEADLOCK FALSE
INVARIANTS
    CloseTellsFailure
