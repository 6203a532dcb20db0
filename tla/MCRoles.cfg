SPECIFICATION Spec
CONSTANTS
    c1 = c1
    c2 = c2
    boss = boss
    sub = sub
    p = p
    q = q
    adm = adm
    op = op
    g = g
    w = w
    x = x
    y = y
    z = z
    nAdm = nAdm
    nOp = nOp
    n = n
    m = m
    root = root
    a = a
    u = u
    None = None
    Global = Global
    Client = {c1, c2}
    Actor = {boss, sub}
    Perm = {p, q}
    Role = {adm, op, g, w, x, y, z}
    Name = {nAdm, nOp, n, m}
    Scope = {root, a, u}
    Root = root
    TypeOf <- MCTypeOf
    LevelOf <- MCLevelOf
    Delegable = {p, q}
    FirstCatalog <- MCCatalog
    FirstTree <- MCTree
    FirstKnown <- MCKnown
    FirstHeld <- MCHeld
    Moves <- MCMoves
    Lapses = {u}
    AskAt <- MCAskAt
    DenyAt <- MCDenyAt
    Defines <- MCDefines
    Updates <- MCUpdates
    Deletes <- MCDeletes
    Plans <- MCPlans
    Prunes = {TRUE, FALSE}
    MaxCalls = 2
    MaxChanges = 1
INVARIANT PermitsFollow
PROPERTIES NamesApart DelegationBacked PruneSafe SyncedTogether
SYMMETRY Symmetry
CHECK_DEADLOCK FALSE
