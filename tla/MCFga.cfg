SPECIFICATION Spec
CONSTANTS
    c1 = c1
    c2 = c2
    h = h
    p = p
    root = root
    a = a
    u = u
    v = v
    local = local
    retired = retired
    Global = Global
    Client = {c1, c2}
    Holder = {h}
    Perm = {p}
    Role = {local, retired}
    Scope = {root, a, u, v}
    Root = root
    Catalog <- MCCatalog
    FirstTree <- MCTree
    Moves <- MCMoves
    Stray <- MCStray
    FirstDenied <- MCDenied
    GrantAt <- MCGrantAt
    DenyAt <- MCDenyAt
    Asked <- MCAsked
    MaxTries = 2
    MaxChanges = 2
    MaxCalls = 2
    MaxFails = 1
    MaxClock = 1
INVARIANTS StoreWhole OnlyStaleGrantsReach
PROPERTIES WritesTellTrue PurgeSafe ListedHeld
SYMMETRY Symmetry
CHECK_DEADLOCK FALSE
