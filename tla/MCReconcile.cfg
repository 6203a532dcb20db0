SPECIFICATION Spec
CONSTANTS
    h = h
    p = p
    q = q
    root = root
    a = a
    u = u
    upper = upper
    local = local
    general = general
    retired = retired
    Global = Global
    Holder = {h}
    Perm = {p, q}
    Role = {local, general, retired}
    Scope = {root, a, u, upper}
    Root = root
    Key <- MCKey
    Factory <- MCFactory
    Builds <- MCBuilds
    FirstActive = "database"
    Catalog <- MCCatalog
    Published = {p}
    Canon <- MCCanon
    FirstTree <- MCTree
    Moves <- MCMoves
    Starts <- MCStarts
    Passes <- MCPasses
    Ops <- MCOps
    MaxEvents = 4
    MaxClock = 1
INVARIANT RevokedStaysRevoked
PROPERTIES MigrationIsFaithful MaintenanceNeverOpens StoreRebuilt
CHECK_DEADLOCK FALSE
