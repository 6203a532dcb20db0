CONSTANTS
    q1 = q1
    q2 = q2
    p1 = p1
    r1 = r1
    Question <- MCQuestion
    Perm <- MCPerm
    Role <- MCRole
    First <- MCFirst
    Window = 0
    LocalWriter = TRUE
    MaxVersion = 0
    MaxClock = 0
SPECIFICATION FairSpec
CHECK_DEADLOCK FALSE
PROPERTY EveryQuestionEnds
