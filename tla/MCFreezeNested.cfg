CONSTANTS
    m1 = m1
    m2 = m2
    c1 = c1
    c2 = c2
    Operator = Operator
    NoOwner = NoOwner
    Manager <- MCManager
    Writer <- NoWriter
    Call <- MCCall
    Home <- Together
    Lease = 2
    RenewLag = 1
    MaxClock = 4
    MaxFence = 2
SPECIFICATION FairSpec
CHECK_DEADLOCK FALSE
INVARIANT BarrierStands
PROPERTIES
    OperatorWindowIsEvidence
    FleetThaws
