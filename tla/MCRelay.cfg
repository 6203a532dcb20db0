SPECIFICATION MCSpec
CONSTANTS
    a = a
    b = b
    r1 = r1
    r2 = r2
    Scope <- MCScope
    Root = Root
    NoScope = NoScope
    FirstTree <- MCTree
    Relay = {r1, r2}
    NoRelay = NoRelay
    BatchSize = 2
    TreeWriteAttempts = 2
    Plans <- MCPlans
    MaxEntry = 5
INVARIANTS
    OrderKept
    StoreFollowsTree
    StoreWhole
PROPERTIES
    EdgeNeverGoesBack
    EntrySettles
