CONSTANTS
    q1 = q1
    q2 = q2
    p1 = p1
    r1 = r1
    Question <- MCQuestion
    Perm <- MCPerm
    Role <- MCRole
    First <- MCFirst
    Window = 2
    LocalWriter = TRUE
    MaxVersion = 1
    MaxClock = 3
SPECIFICATION FairSpec
CHECK_DEADLOCK FALSE
INVARIANTS
    MixedIsRestrictive
    FlightSees
    CurrentMeansWhole
    InvalidationHolds
    WindowBounds
PROPERTY QuestionsEndOrHang
