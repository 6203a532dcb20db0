CONSTANTS
    m1 = m1
    m2 = m2
    c1 = c1
    c2 = c2
    Operator = Operator
    NoOwner = NoOwner
    Manager <- MCManager
    Writer <- MCWriter
    Call <- MCCall
    Home <- Apart
    Lease = 2
    RenewLag = 1
    MaxClock = 4
    MaxFence = 2
SPECIFICATION Spec
CHECK_DEADLOCK FALSE
INVARIANTS
    CertifiedMeansFrozen
    CertifiedMeansAlone
