SPECIFICATION Spec
CONSTANTS
    c1 = c1
    c2 = c2
    r1 = r1
    top = top
    unit = unit
    Client <- MCClient
    Role <- MCRole
    Scope <- MCScope
    Root = top
    Chain <- MCChain
    Granting <- MCRole
    Asked <- Mixed
    FirstExpiry <- OneDay
    MaxTries = 2
    MaxRow = 2
    MaxClock = 1
CHECK_DEADLOCK FALSE
SYMMETRY ClientSymmetry
PROPERTIES
    OutcomeIsWritten
    AnswerHeld
    ImplementsPort
