SPECIFICATION FairSpec
CONSTANTS
    NumRefs = 2
    Pushes = {p1, p2}
    MaxAttempts = 2
    MaxWrites = 2
    MaxCalls = 2
    MaxRemovals = 1
    MaxTokens = 2
CHECK_DEADLOCK FALSE
INVARIANTS
    Inv
    UnlistedIsHeld
PROPERTIES
    PushReturns
