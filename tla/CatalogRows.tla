---------------------------- MODULE CatalogRows ----------------------------
(***************************************************************************)
(* The rows of the catalog of roles and what is computed from them         *)
(* (src/src/catalog/catalog.ts): what a sync of the config makes of them,  *)
(* what the diff reports, and which roles of one name shadow which.        *)
(***************************************************************************)
EXTENDS Integers, FiniteSets, Sequences

CONSTANTS
    Perm,
    Role,       \* uuids of roles
    Name,       \* a slug and a level: what names a role inside a scope
    Scope,
    Root,       \* the scope `app`
    Global,     \* the owner of a role of the config
    TypeOf,     \* TypeOf[s]: the type of a scope
    LevelOf,    \* LevelOf[n]: the level in n
    None        \* no such row, no chain

Type == {TypeOf[s] : s \in Scope}

\* A row of authz_roles with its links, and the catalog: the rows of its roles and the
\* `assignable_at` of its permissions.
Row == [name : Name, owner : Scope \cup {Global}, rank : Nat, perms : SUBSET Perm]

Catalog == [rows : [Role -> Row \cup {None}], levels : [Perm -> (SUBSET Type) \cup {None}]]

Present(cat)  == {r \in Role : cat.rows[r] # None}
Globals(cat)  == {r \in Present(cat) : cat.rows[r].owner = Global}
Locals(cat)   == Present(cat) \ Globals(cat)
Named(cat, n) == {r \in Present(cat) : cat.rows[r].name = n}

PermsOf(cat, r) == IF r \in Present(cat) THEN cat.rows[r].perms ELSE {}

\* readCatalogProjectionSnapshot: what the tuples permits_<P> should be.
Links(cat) == {l \in Present(cat) \X Perm : l[2] \in cat.rows[l[1]].perms}

\* The highest rank of a global role, 0 when there is none.
TopGlobalRank(cat) ==
    LET ranks == {0} \cup {cat.rows[r].rank : r \in Globals(cat)}
    IN  CHOOSE m \in ranks : \A n \in ranks : n <= m

\* isRoleVisibleWith: the role is global or its owner is in the chain.
VisibleIn(row, chain) == row.owner \in {Global} \cup chain

\* assertAssignableAt.
Assignable(cat, n, p) == cat.levels[p] # None /\ LevelOf[n] \in cat.levels[p]

-----------------------------------------------------------------------------
(* syncAuthzCatalog.  A config lists permissions with their levels, and    *)
(* global roles.                                                           *)

IsConfig(config) ==
    /\ DOMAIN config = {"perms", "roles"}
    /\ DOMAIN config.perms \subseteq Perm /\ DOMAIN config.roles \subseteq Name
    /\ \A p \in DOMAIN config.perms : config.perms[p] \subseteq Type
    /\ \A n \in DOMAIN config.roles :
          config.roles[n] \in [uuid : Role, rank : Nat, perms : SUBSET Perm]

\* Bug: two configs may declare one role.
DisjointPerms(configs) ==
    \A i, j \in DOMAIN configs : i # j => DOMAIN configs[i].perms \cap DOMAIN configs[j].perms = {}

\* resolveDisjointCatalogs: a role and a permission belong to one config.
Disjoint(configs) ==
    \A i, j \in DOMAIN configs : i # j =>
        /\ DOMAIN configs[i].roles \cap DOMAIN configs[j].roles = {}
        /\ DOMAIN configs[i].perms \cap DOMAIN configs[j].perms = {}

WithPerms(cat, config) ==
    [cat EXCEPT !.levels = [p \in Perm |-> IF p \in DOMAIN config.perms THEN config.perms[p] ELSE @[p]]]

\* The row of a role of the config, which may be there.
UuidOf(cat, config, n) ==
    IF \E r \in Globals(cat) : cat.rows[r].name = n
    THEN CHOOSE r \in Globals(cat) : cat.rows[r].name = n
    ELSE config.roles[n].uuid

\* Every permission of a role is of the config or of the base, and admits its level; and
\* uuids are a primary key.
CanSync(cat, config) ==
    /\ \A n \in DOMAIN config.roles : \A p \in config.roles[n].perms :
          Assignable(WithPerms(cat, config), n, p)
    /\ \A n \in DOMAIN config.roles :
          \/ \E r \in Globals(cat) : cat.rows[r].name = n
          \/ config.roles[n].uuid \notin Present(cat)
    /\ \A m, n \in DOMAIN config.roles :
          m # n => UuidOf(cat, config, m) # UuidOf(cat, config, n)

\* What the transaction leaves.  It deletes no role and no permission; with prune the links
\* of the roles of the config are those the config lists.
Synced(cat, config, prune) ==
    LET uuid == [n \in DOMAIN config.roles |-> UuidOf(cat, config, n)]
        row(n) == [name |-> n, owner |-> Global, rank |-> config.roles[n].rank,
                   perms |-> config.roles[n].perms
                                \cup IF prune THEN {} ELSE PermsOf(cat, uuid[n])]
    IN  [WithPerms(cat, config) EXCEPT !.rows =
            [r \in Role |-> IF \E n \in DOMAIN uuid : uuid[n] = r
                            THEN row(CHOOSE n \in DOMAIN uuid : uuid[n] = r) ELSE @[r]]]

-----------------------------------------------------------------------------
(* diffAuthzCatalog and classifyHomonyms.                                  *)

\* The global row of each name, if any.
Row1(cat, n) == {cat.rows[r] : r \in {g \in Globals(cat) : cat.rows[g].name = n}}

\* What is not as the config says: `catalogInSync` asks that all be empty, and also that
\* no two homonyms be ambiguous.
Diff(cat, config) ==
    LET roles == config.roles
    IN [missingPermissions |-> {p \in DOMAIN config.perms : cat.levels[p] = None},
        missingRoles       |-> {n \in DOMAIN roles : Row1(cat, n) = {}},
        missingLinks       |-> {l \in (DOMAIN roles) \X Perm :
                                   /\ l[2] \in roles[l[1]].perms
                                   /\ \A x \in Row1(cat, l[1]) : l[2] \notin x.perms},
        extraLinks         |-> {l \in (DOMAIN roles) \X Perm :
                                   /\ l[2] \notin roles[l[1]].perms
                                   /\ \E x \in Row1(cat, l[1]) : l[2] \in x.perms},
        rankMismatches     |-> {n \in DOMAIN roles : \E x \in Row1(cat, n) : x.rank # roles[n].rank},
        assignableAtMismatches |-> {p \in DOMAIN config.perms :
                                       cat.levels[p] \notin {None, config.perms[p]}}]

Clean(diff) == \A f \in DOMAIN diff : diff[f] = {}

Homonyms(cat, r) == Named(cat, cat.rows[r].name) \ {r}

ShadowedByGlobal(cat) == {r \in Locals(cat) : Homonyms(cat, r) \cap Globals(cat) # {}}

\* The local homonyms above r, by the chains of their owners; with a chain that is null
\* nothing can be said.
Above(cat, chainOf, r) ==
    IF chainOf[cat.rows[r].owner] = None THEN {}
    ELSE {a \in Homonyms(cat, r) \cap Locals(cat) :
             cat.rows[a].owner \in chainOf[cat.rows[r].owner]}

\* Two owners that are each above the other: the tree has a cycle.
Ambiguous(cat, chainOf) ==
    {{x[1], x[2]} : x \in {y \in Locals(cat) \X Locals(cat) :
        y[2] \in Above(cat, chainOf, y[1]) /\ y[1] \in Above(cat, chainOf, y[2])}}

ShadowedByAncestor(cat, chainOf) ==
    {r \in Locals(cat) : \E a \in Above(cat, chainOf, r) : {r, a} \notin Ambiguous(cat, chainOf)}
=============================================================================
