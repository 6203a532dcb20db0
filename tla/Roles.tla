------------------------------- MODULE Roles -------------------------------
(***************************************************************************)
(* Who writes the catalog of roles (src/src/manager.ts, src/src/catalog/   *)
(* catalog.ts) and the store of OpenFGA that follows it: the delegation of *)
(* local roles, the sync of the config, the purge of a role and the prune  *)
(* of those whose owner is gone.  Each reads tree, catalog and facts one   *)
(* after the other and then writes the catalog in a transaction; only      *)
(* afterwards does it project what the roles grant, in other requests.     *)
(***************************************************************************)
EXTENDS CatalogRows

CONSTANTS
    Client,
    Actor,
    Delegable,  \* config.delegablePermissions
    FirstCatalog,
    FirstTree,  \* the edges <<child, parent>> at the start
    FirstKnown, \* bound: the sets of scopes the tree may know at the start
    FirstHeld,  \* the assignments <<actor, scope, role>> at the start
    Moves,      \* the edges the consumer may choose for a scope
    Lapses,     \* bound: the scopes the tree may forget and know again
    AskAt,      \* bound: the assignments that others make
    DenyAt,     \* bound: the denies <<actor, scope, permission>> that others make
    Defines,    \* bound: what clients define: <<actor, owner, ask>>
    Updates,    \* bound: what they change: <<actor, role, ask>>
    Deletes,    \* bound: what they delete: <<actor, role>>
    Plans,      \* bound: the lists of configs they sync
    Prunes,     \* bound: the links of a config are pruned, or not
    MaxCalls,   \* bound: calls that clients begin
    MaxChanges  \* bound: what changes around them

Edge == Scope \X Scope
Fact == Actor \X Scope \X Role

\* What is asked of a local role; an update may leave the rank or the permissions out.
AskSet == [name : Name, rank : Nat \cup {None}, perms : (SUBSET Perm) \cup {None}]
Whole  == [name : Name, rank : Nat, perms : SUBSET Perm]

\* The uuids that configs name, which no local role ever has.
Reserved ==
    UNION {UNION {{plan[i].roles[n].uuid : n \in DOMAIN plan[i].roles} : i \in DOMAIN plan} :
           plan \in Plans}

ASSUME RolesAssumption ==
    /\ Root \in Scope /\ Global \notin Scope
    /\ Actor # {} /\ Name # {} /\ Role # {} /\ IsFiniteSet(Role)
    /\ None \notin Row /\ \A s \in (SUBSET Scope) \cup (SUBSET Perm) \cup SUBSET Type : s # None
    /\ FirstCatalog \in Catalog
    /\ \A r \in Locals(FirstCatalog) : r \notin Reserved /\ FirstCatalog.rows[r].owner # Root
    /\ \A q, r \in Globals(FirstCatalog) : FirstCatalog.rows[q].name = FirstCatalog.rows[r].name => q = r
    /\ FirstTree \subseteq Edge /\ Moves \subseteq Edge
    /\ FirstKnown \subseteq SUBSET Scope /\ Lapses \subseteq Scope \ {Root}
    /\ FirstHeld \subseteq Fact /\ AskAt \subseteq Fact
    /\ DenyAt \subseteq Actor \X Scope \X Perm
    /\ Defines \subseteq Actor \X (Scope \ {Root}) \X Whole
    /\ Updates \subseteq Actor \X Role \X AskSet
    /\ Deletes \subseteq Actor \X Role
    /\ \A plan \in Plans : /\ Len(plan) \in Nat \ {0} /\ DOMAIN plan = 1..Len(plan)
                           /\ \A i \in DOMAIN plan : IsConfig(plan[i])
    /\ Prunes \subseteq BOOLEAN
    /\ {MaxCalls, MaxChanges} \subseteq Nat

VARIABLES
    cat,        \* the tables of the catalog
    spare,      \* uuids that no row has had, nor will have by a config
    tree,       \* the consumer's tree: its edges,
    known,      \* the scopes it answers for,
    blind,      \* and whether its resolver sees none of them
    held,       \* the assignments
    asked,      \* assignments that have passed their checks and are to be written
    denied,     \* the denies
    permits,    \* the tuples permits_<P> of the store
    call,       \* call[c]: the call of client c
    drift,      \* history: roles whose projection failed or was crossed by another write
    seen,       \* seen[c], history: what held at some instant of the call of c
    left        \* what is left of each bound

vars == <<cat, spare, tree, known, blind, held, asked, denied, permits, call, drift, seen, left>>

around == <<tree, known, blind, held, asked, denied>>

\* What a call does next, by what it is.
After == [define |-> [chain |-> "view", view |-> "roles", roles |-> "denies",
                      denies |-> "shadows", shadows |-> "commit"],
          update |-> [view |-> "chain", chain |-> "roles", roles |-> "shadows",
                      shadows |-> "denies", denies |-> "commit"],
          delete |-> [view |-> "chain", chain |-> "roles", roles |-> "collect"]]

InProject == {"project", "current", "write"}
InPurge   == {"erase", "residue", "drop"}
InPrune   == {"list", "resolve", "turn"}

NoCatalog == [rows |-> [r \in Role |-> None], levels |-> [p \in Perm |-> None]]

\* A call: what it is about; the catalog and the tree it has read, and what they gave the
\* actor; the configs it syncs; the roles it projects, with what they should have and what
\* they had; the keys it erases; the roles it has to look at, or to purge.  As history:
\* what another wrote under its projection, whether a fact landed before it dropped the
\* row, and whether the tree changed.
Call == [op : {"none", "define", "update", "delete", "sync", "prune"},
         pc : {"idle", "chain", "view", "roles", "denies", "shadows", "commit", "collect", "sync"}
                \cup InProject \cup InPurge \cup InPrune,
         actor : Actor, owner : Scope, role : Role, ask : AskSet,
         photo : Catalog, edges : SUBSET Edge, granted : SUBSET Perm, rank : Nat,
         plan : Plans \cup {<<>>}, at : Nat, prune : BOOLEAN,
         cover : SUBSET Role, want : SUBSET (Role \X Perm), have : SUBSET (Role \X Perm),
         facts : SUBSET Fact, todo : SUBSET Role, orphans : SUBSET Role,
         dirty : SUBSET Role, late : BOOLEAN, moved : BOOLEAN]

NoCall == [op |-> "none", pc |-> "idle",
           actor |-> CHOOSE a \in Actor : TRUE, owner |-> Root, role |-> CHOOSE r \in Role : TRUE,
           ask |-> [name |-> CHOOSE n \in Name : TRUE, rank |-> None, perms |-> None],
           photo |-> NoCatalog, edges |-> {}, granted |-> {}, rank |-> 0,
           plan |-> <<>>, at |-> 0, prune |-> FALSE,
           cover |-> {}, want |-> {}, have |-> {}, facts |-> {}, todo |-> {}, orphans |-> {},
           dirty |-> {}, late |-> FALSE, moved |-> FALSE]

\* While a call delegates: the roles its actor had along the chain, each where it is
\* assigned, what a role would grant there, at some instant both, and what was denied at all
\* of them; while it prunes: whether the resolver saw anything as it looked, and the scopes
\* that were gone since the turn of a role began; while it syncs: whether another has written
\* what is global.
Seen == [roles : SUBSET (Scope \X Role), links : SUBSET (Scope \X Role \X Perm),
         denied : SUBSET Perm, sighted : BOOLEAN, gone : SUBSET Scope, crossed : BOOLEAN]

Nothing == [roles |-> {}, links |-> {}, denied |-> {},
            sighted |-> FALSE, gone |-> {}, crossed |-> FALSE]

\* The scopes that s hangs from by these edges, and s: what every set that has s and the
\* parents of its own has.
Up(edges, s) ==
    LET Closed == {A \in SUBSET Scope : s \in A /\ \A e \in edges : e[1] \in A => e[2] \in A}
    IN  {t \in Scope : \A A \in Closed : t \in A}

\* resolveChain.
Resolves(s) == ~blind /\ s \in known
ChainOf(s)  == IF Resolves(s) THEN Up(tree, s) ELSE None

Idle(c) == call[c].pc = "idle"

\* r counts where it is assigned, t: it is of the level of t, and visible there.
Counts(rows, edges, t, r) ==
    /\ r \in Present(rows)
    /\ LevelOf[rows.rows[r].name] = TypeOf[t]
    /\ VisibleIn(rows.rows[r], Up(edges, t))

\* What the actor has along the chain of s, and the roles of it that count.
HeldAlong(edges, actor, s) ==
    {x \in Up(edges, s) \X Role : <<actor, x[1], x[2]>> \in held}

RolesAlong(rows, edges, actor, s) ==
    {x[2] : x \in {y \in HeldAlong(edges, actor, s) : Counts(rows, edges, y[1], y[2])}}

\* What each role would grant in each scope of the chain of s.
Granting(rows, edges, s) ==
    {x \in Up(edges, s) \X Present(rows) \X Perm :
        x[3] \in PermsOf(rows, x[2]) /\ Counts(rows, edges, x[1], x[2])}

DeniedAlong(edges, actor, s) ==
    {p \in Perm : \E t \in Up(edges, s) : <<actor, t, p>> \in denied}

Init ==
    /\ cat = FirstCatalog
    /\ spare = Role \ (Present(FirstCatalog) \cup Reserved)
    /\ tree = FirstTree /\ known \in FirstKnown /\ blind = FALSE
    /\ held = FirstHeld /\ asked = {} /\ denied = {}
    /\ permits = Links(FirstCatalog)
    /\ call = [c \in Client |-> NoCall]
    /\ drift = {}
    /\ seen = [c \in Client |-> Nothing]
    /\ left = [calls |-> MaxCalls, changes |-> MaxChanges]

-----------------------------------------------------------------------------
(* Around the calls: the consumer's tree, and the facts others write.      *)

Change == left.changes > 0 /\ left' = [left EXCEPT !.changes = @ - 1]

OnlyAround == UNCHANGED <<cat, spare, permits, drift>>

\* A fact of r lands: a purge that has read its residue does not see it.
Landing(r) ==
    call' = [c \in Client |-> [call[c] EXCEPT !.late = @ \/ (call[c].pc = "drop" /\ call[c].role = r)]]

\* grant(): the role is there and visible, and later its tuples are written.
Ask(k) ==
    /\ k \in AskAt \ (asked \cup held) /\ Change
    /\ Resolves(k[2]) /\ Counts(cat, tree, k[2], k[3])
    /\ asked' = asked \cup {k}
    /\ UNCHANGED <<tree, known, blind, held, denied, call>>
    /\ OnlyAround

Land(k) ==
    /\ k \in asked
    /\ asked' = asked \ {k} /\ held' = held \cup {k}
    /\ Landing(k[3])
    /\ UNCHANGED <<tree, known, blind, denied, left>>
    /\ OnlyAround

Revoke(k) ==
    /\ k \in held /\ Change
    /\ held' = held \ {k}
    /\ UNCHANGED <<tree, known, blind, asked, denied, call>>
    /\ OnlyAround

\* deny() and removeDeny().
Deny(d) ==
    /\ Change
    /\ denied' = IF d \in denied THEN denied \ {d} ELSE denied \cup {d}
    /\ UNCHANGED <<tree, known, blind, held, asked, call>>
    /\ OnlyAround

TreeChanges == call' = [c \in Client |-> [call[c] EXCEPT !.moved = ~Idle(c)]]

Move(m) ==
    /\ m \in Moves \ tree /\ Change
    /\ tree' = {e \in tree : e[1] # m[1]} \cup {m}
    /\ TreeChanges
    /\ UNCHANGED <<known, blind, held, asked, denied>>
    /\ OnlyAround

\* The tree forgets a scope (its row is gone, but those below still hang from it), or
\* knows it again (scopes.attached, a restore).
Lapse(s) ==
    /\ Change
    /\ known' = IF s \in known THEN known \ {s} ELSE known \cup {s}
    /\ TreeChanges
    /\ UNCHANGED <<tree, blind, held, asked, denied>>
    /\ OnlyAround

\* A resolver with no tenant, or on a replica that lags, answers null for all.
Blind ==
    /\ Change
    /\ blind' = ~blind
    /\ TreeChanges
    /\ UNCHANGED <<tree, known, held, asked, denied>>
    /\ OnlyAround

-----------------------------------------------------------------------------
(* Steps of a call.                                                        *)

Quiet == UNCHANGED <<cat, spare, permits>> /\ UNCHANGED around

Put(c, new) == call' = [call EXCEPT ![c] = new]

\* A check that fails ends the call with nothing written.
Check(c, ok, new) ==
    /\ Put(c, IF ok THEN [new EXCEPT !.pc = After[call[c].op][call[c].pc]] ELSE NoCall)
    /\ Quiet /\ UNCHANGED <<drift, left>>

Begin(c, new) ==
    /\ Idle(c) /\ left.calls > 0
    /\ left' = [left EXCEPT !.calls = @ - 1]
    /\ Put(c, new)
    /\ Quiet /\ UNCHANGED drift

\* The roles whose permits a call has yet to make follow the catalog.
Pending(c) ==
    IF call[c].pc \in InProject THEN call[c].cover
    ELSE IF call[c].pc \in InPurge THEN {call[c].role} ELSE {}

\* A failure of a store, or the deadline: what was to be projected is not.
GiveUp(c) ==
    /\ ~Idle(c)
    /\ Put(c, NoCall)
    /\ drift' = drift \cup Pending(c)
    /\ Quiet /\ UNCHANGED left

\* The roles rs change under the other calls that have read them.
Crossing(c, new, rs, pcs) ==
    [d \in Client |-> IF d = c THEN new
                      ELSE IF call[d].pc \in pcs THEN [call[d] EXCEPT !.dirty = @ \cup rs]
                      ELSE call[d]]

\* The call is done with the roles rs: they follow, unless another wrote under it.
Settle(c, rs) == drift' = (drift \ rs) \cup (rs \cap call[c].dirty)

\* A transaction of the catalog commits, and its answer may be lost.
Commit(c, new, rs, next) ==
    /\ cat' = new
    /\ \/ /\ call' = Crossing(c, next, rs, {"current", "write"} \cup InPurge) /\ UNCHANGED drift
       \/ /\ call' = Crossing(c, NoCall, rs, {"current", "write"} \cup InPurge)
          /\ drift' = drift \cup rs
    /\ UNCHANGED <<permits, left>> /\ UNCHANGED around

-----------------------------------------------------------------------------
(* defineScopedRole, updateScopedRole and deleteScopedRole.                *)

StartDefine(c) ==
    \E d \in Defines :
        Begin(c, [NoCall EXCEPT !.op = "define", !.pc = "chain", !.actor = d[1], !.owner = d[2],
                                !.ask = d[3]])

StartUpdate(c) ==
    \E d \in Updates :
        Begin(c, [NoCall EXCEPT !.op = "update", !.pc = "view", !.actor = d[1], !.role = d[2],
                                !.ask = d[3]])

StartDelete(c) ==
    \E d \in Deletes :
        Begin(c, [NoCall EXCEPT !.op = "delete", !.pc = "view", !.actor = d[1], !.role = d[2]])

\* assertKnownScope, with a fresh resolver.
ReadChain(c) ==
    /\ call[c].pc = "chain"
    /\ Check(c, Resolves(call[c].owner), [call[c] EXCEPT !.edges = tree])

\* assertComposable.
Composable(ask) ==
    ask.perms # None => \A p \in ask.perms : p \in Delegable /\ Assignable(cat, ask.name, p)

\* The view of the catalog; a role that is not local is not touched.
View(c) ==
    LET k == call[c]
    IN  /\ k.pc = "view"
        /\ IF k.op = "define" THEN Check(c, Composable(k.ask), [k EXCEPT !.photo = cat])
           ELSE Check(c, k.role \in Locals(cat) /\ Composable(k.ask),
                      [k EXCEPT !.photo = cat,
                                !.owner = IF k.role \in Locals(cat) THEN cat.rows[k.role].owner ELSE @])

\* The role that a call is about, as it read it.
Target(c) == call[c].photo.rows[call[c].role]

RankAlong(k) ==
    LET ranks == {0} \cup {k.photo.rows[r].rank : r \in RolesAlong(k.photo, k.edges, k.actor, k.owner)}
    IN  CHOOSE m \in ranks : \A n \in ranks : n <= m

\* assertLevelUnderOwner: the level of the owner, or of a scope that hangs from it now;
\* if they cannot be told, any level that is not above it.
LevelFits(k, enumerated) ==
    LET level == LevelOf[k.ask.name]
    IN  \/ level = TypeOf[k.owner]
        \/ /\ \A t \in Up(k.edges, k.owner) : TypeOf[t] # level
           /\ enumerated => \E s \in known : TypeOf[s] = level /\ k.owner \in Up(tree, s) \ {s}

\* rolesAlong: what the actor has in the chain that was read, by the view that was read.
ReadRoles(c) ==
    LET k == call[c]
        new == [k EXCEPT !.rank = RankAlong(k),
                         !.granted = UNION {PermsOf(k.photo, r) : r \in
                                               RolesAlong(k.photo, k.edges, k.actor, k.owner)}]
    IN  /\ k.pc = "roles"
        /\ \E enumerated \in BOOLEAN :
              Check(c, /\ k.op = "delete" \/ LevelFits(k, enumerated)
                       /\ k.op = "define" \/ new.rank > Target(c).rank, new)

RankFits(k) ==
    0 < k.ask.rank /\ k.ask.rank < k.rank /\ k.ask.rank < TopGlobalRank(k.photo)

\* Bug: what the actor is denied can be delegated.
ReadDeniesNone(c) ==
    LET k == call[c]
    IN  /\ k.pc = "denies"
        /\ Check(c, /\ k.ask.perms # None => k.ask.perms \subseteq k.granted
                    /\ (k.op = "update" /\ k.ask.rank = None) \/ RankFits(k), k)

\* deniedAlong, assertDelegable and assertRank.
ReadDenies(c) ==
    LET k == call[c]
    IN  /\ k.pc = "denies"
        /\ Check(c, /\ k.ask.perms # None =>
                          k.ask.perms \subseteq k.granted \ DeniedAlong(k.edges, k.actor, k.owner)
                    /\ (k.op = "update" /\ k.ask.rank = None) \/ RankFits(k), k)

\* shadowedBelow: the homonyms of a scope below the owner, by their chains now.
ShadowedBelow(k) ==
    {q \in Named(k.photo, k.ask.name) \cap Locals(k.photo) :
        LET owner == k.photo.rows[q].owner
        IN  /\ owner \notin Up(k.edges, k.owner) /\ Resolves(owner)
            /\ k.owner \in Up(tree, owner)}

\* assertNoRoleCollision and assertAboveShadowed.
Shadows(c) ==
    LET k == call[c]
    IN  /\ k.pc = "shadows"
        /\ Check(c, /\ k.op = "define" => \A q \in Named(k.photo, k.ask.name) :
                           ~VisibleIn(k.photo.rows[q], Up(k.edges, k.owner))
                    /\ \A q \in ShadowedBelow(k) :
                          \/ k.op = "update" /\ q = k.role
                          \/ k.rank > k.photo.rows[q].rank, k)

\* The owners of the homonyms, there and in the view: all that is new is refused.
OwnersOf(rows, n) == {rows.rows[r].owner : r \in Named(rows, n)}

Projecting(k, rs) == [NoCall EXCEPT !.op = k.op, !.pc = "project", !.cover = rs]

\* Bug: the homonyms are not read again inside the transaction.
DefineBlind(c) ==
    LET k == call[c]
        row == [name |-> k.ask.name, owner |-> k.owner, rank |-> k.ask.rank, perms |-> k.ask.perms]
    IN  /\ k.op = "define" /\ k.pc = "commit"
        /\ \E r \in spare :
              /\ spare' = spare \ {r}
              /\ Commit(c, [cat EXCEPT !.rows[r] = row], {r}, Projecting(k, {r}))

Define(c) ==
    LET k == call[c]
        row == [name |-> k.ask.name, owner |-> k.owner, rank |-> k.ask.rank, perms |-> k.ask.perms]
    IN  /\ k.op = "define" /\ k.pc = "commit"
        /\ OwnersOf(cat, k.ask.name) \subseteq OwnersOf(k.photo, k.ask.name)
        /\ \E r \in spare :
              /\ spare' = spare \ {r}
              /\ Commit(c, [cat EXCEPT !.rows[r] = row], {r}, Projecting(k, {r}))

\* E_AUTHZ_CATALOG_CONFLICT, or E_AUTHZ_UNKNOWN_ROLE: the catalog is not the one read.
Refused(c) ==
    LET k == call[c]
    IN  /\ k.pc = "commit"
        /\ IF k.op = "define"
           THEN ~(OwnersOf(cat, k.ask.name) \subseteq OwnersOf(k.photo, k.ask.name))
           ELSE k.role \notin Present(cat)
        /\ Put(c, NoCall)
        /\ Quiet /\ UNCHANGED <<drift, left>>

\* Bug: an update does not project what it changed.
UpdateOnly(c) ==
    LET k == call[c]
        row == [cat.rows[k.role] EXCEPT
                    !.rank  = IF k.ask.rank = None THEN Target(c).rank ELSE k.ask.rank,
                    !.perms = IF k.ask.perms \in {None, Target(c).perms} THEN @ ELSE k.ask.perms]
    IN  /\ k.op = "update" /\ k.pc = "commit" /\ k.role \in Present(cat)
        /\ Commit(c, [cat EXCEPT !.rows[k.role] = row], {}, NoCall)
        /\ UNCHANGED spare

\* What is not asked for is taken from the view: the rank is written even so, and the
\* links only if they differ from those of the view.
Update(c) ==
    LET k == call[c]
        changed == k.ask.perms \notin {None, Target(c).perms}
        row == [cat.rows[k.role] EXCEPT
                    !.rank  = IF k.ask.rank = None THEN Target(c).rank ELSE k.ask.rank,
                    !.perms = IF changed THEN k.ask.perms ELSE @]
    IN  /\ k.op = "update" /\ k.pc = "commit" /\ k.role \in Present(cat)
        /\ Commit(c, [cat EXCEPT !.rows[k.role] = row], IF changed THEN {k.role} ELSE {},
                  IF changed THEN Projecting(k, {k.role}) ELSE NoCall)
        /\ UNCHANGED spare

-----------------------------------------------------------------------------
(* syncCatalogs, and the projection.                                       *)

StartSync(c) ==
    \E plan \in Plans, prune \in Prunes :
        /\ Disjoint(plan)
        /\ Begin(c, [NoCall EXCEPT !.op = "sync", !.pc = "sync", !.plan = plan, !.at = 1,
                                   !.prune = prune])

\* The links that differ between two catalogs, by role.
Differ(one, two) == {r \in Role : PermsOf(one, r) # PermsOf(two, r)}

\* One config, in one transaction, with the snapshot it projects read inside.
Sync(c) ==
    LET k == call[c]
        new == Synced(cat, k.plan[k.at], k.prune)
    IN  /\ k.pc = "sync" /\ CanSync(cat, k.plan[k.at])
        /\ Commit(c, new, Differ(cat, new),
                  [k EXCEPT !.pc = "current", !.cover = Role, !.want = Links(new)])
        /\ spare' = spare \ Present(new)

\* projectCatalogRole: the view that there is now.
Project(c) ==
    /\ call[c].pc = "project"
    /\ Put(c, [call[c] EXCEPT !.pc = "current",
                              !.want = {l \in Links(cat) : l[1] \in call[c].cover}])
    /\ Quiet /\ UNCHANGED <<drift, left>>

\* A projection ends: a sync goes on with the next config.
Projected(k) ==
    IF k.op = "sync" /\ k.at < Len(k.plan)
    THEN [k EXCEPT !.pc = "sync", !.at = @ + 1, !.cover = {}, !.want = {}, !.have = {}, !.dirty = {}]
    ELSE NoCall

\* What the store has of those roles; with no difference nothing is written.
Current(c) ==
    LET k == call[c]
        have == {l \in permits : l[1] \in k.cover}
    IN  /\ k.pc = "current"
        /\ Quiet /\ UNCHANGED left
        /\ IF have = k.want THEN Put(c, Projected(k)) /\ Settle(c, k.cover)
           ELSE Put(c, [k EXCEPT !.pc = "write", !.have = have]) /\ UNCHANGED drift

\* One strict write: it is refused whole if a tuple it writes is there, or one it deletes
\* is not.  A projection of more than PURGE_BATCH_SIZE tuples would be several.
Write(c) ==
    LET k == call[c]
        writes == k.want \ k.have
        deletes == k.have \ k.want
        touched == {l[1] : l \in writes \cup deletes}
    IN  /\ k.pc = "write"
        /\ writes \cap permits = {} /\ deletes \subseteq permits
        /\ permits' = (permits \ deletes) \cup writes
        /\ \/ call' = Crossing(c, Projected(k), touched, {"write", "drop"}) /\ Settle(c, k.cover)
           \/ call' = Crossing(c, NoCall, touched, {"write", "drop"}) /\ drift' = drift \cup k.cover
        /\ UNCHANGED <<cat, spare, left>> /\ UNCHANGED around

-----------------------------------------------------------------------------
(* purgeRole: facts first, then the catalog.                               *)

PermitsOf(r) == {l \in permits : l[1] = r}
FactsOf(r)   == {k \in held : k[3] = r}

\* The role is there; the tuples of its bindings and its permits are read.
Collect(c) ==
    LET k == call[c]
    IN  /\ k.pc = "collect"
        /\ Put(c, IF k.role \in Present(cat)
                  THEN [k EXCEPT !.pc = "erase", !.facts = FactsOf(k.role), !.have = PermitsOf(k.role)]
                  ELSE NoCall)
        /\ Quiet /\ UNCHANGED <<drift, left>>

\* Those keys are deleted, there or not.
Erase(c) ==
    LET k == call[c]
    IN  /\ k.pc = "erase"
        /\ held' = held \ k.facts /\ permits' = permits \ k.have
        /\ call' = Crossing(c, [k EXCEPT !.pc = "residue", !.facts = {}, !.have = {}], {k.role},
                            {"write"})
        /\ UNCHANGED <<cat, spare, tree, known, blind, asked, denied, drift, left>>

\* What is there is read again: PurgeIncomplete if anything is left.
Residue(c) ==
    LET k == call[c]
    IN  /\ k.pc = "residue"
        /\ Quiet /\ UNCHANGED left
        /\ IF FactsOf(k.role) = {} /\ PermitsOf(k.role) = {}
           THEN Put(c, [k EXCEPT !.pc = "drop", !.dirty = {}]) /\ UNCHANGED drift
           ELSE Put(c, NoCall) /\ drift' = drift \cup {k.role}

\* A prune goes on with its next orphan.
Purged(k) ==
    IF k.op = "prune"
    THEN [k EXCEPT !.pc = "turn", !.orphans = @ \ {k.role}, !.dirty = {}, !.late = FALSE]
    ELSE NoCall

\* The links and the row, in one transaction; with no row, E_AUTHZ_UNKNOWN_ROLE.
Drop(c) ==
    LET k == call[c]
    IN  /\ k.pc = "drop"
        /\ IF k.role \in Present(cat)
           THEN /\ cat' = [cat EXCEPT !.rows[k.role] = None]
                /\ call' = Crossing(c, Purged(k), {k.role}, {"current", "write"} \cup InPurge)
                /\ Settle(c, {k.role})
           ELSE Put(c, NoCall) /\ UNCHANGED <<cat, drift>>
        /\ UNCHANGED <<spare, permits, left>> /\ UNCHANGED around

-----------------------------------------------------------------------------
(* pruneOrphanRoles with force.                                            *)

StartPrune(c) == Begin(c, [NoCall EXCEPT !.op = "prune", !.pc = "list"])

ListLocals(c) ==
    /\ call[c].pc = "list"
    /\ Put(c, [call[c] EXCEPT !.pc = "resolve", !.photo = cat, !.todo = Locals(cat)])
    /\ Quiet /\ UNCHANGED <<drift, left>>

\* One owner: its roles are orphans if its chain is null.
ResolveOwner(c) ==
    LET k == call[c]
    IN  /\ k.pc = "resolve"
        /\ \E r \in k.todo :
              LET same == {q \in k.todo : k.photo.rows[q].owner = k.photo.rows[r].owner}
              IN  Put(c, [k EXCEPT !.todo = @ \ same,
                                   !.orphans = IF Resolves(k.photo.rows[r].owner) THEN @ ELSE @ \cup same])
        /\ Quiet /\ UNCHANGED <<drift, left>>

\* All the owners are orphans, or more than half of the roles.
MassPurge(locals, orphans, ownerOf) ==
    /\ orphans # {}
    /\ \/ {ownerOf[r].owner : r \in orphans} = {ownerOf[r].owner : r \in locals}
       \/ 2 * Cardinality(orphans) > Cardinality(locals)

\* E_AUTHZ_MASS_PURGE_REFUSED, unless it was allowed.
Decide(c) ==
    LET k == call[c]
    IN  /\ k.pc = "resolve" /\ k.todo = {}
        /\ Put(c, IF MassPurge(Locals(k.photo), k.orphans, k.photo.rows) THEN NoCall
                  ELSE [k EXCEPT !.pc = "turn"])
        /\ Quiet /\ UNCHANGED <<drift, left>>

\* Bug: what was an orphan when the pass began is one still.
TurnBlind(c) ==
    LET k == call[c]
    IN  /\ k.pc = "turn"
        /\ Put(c, IF k.orphans = {} THEN NoCall
                  ELSE [k EXCEPT !.pc = "collect", !.role = CHOOSE r \in k.orphans : TRUE])
        /\ Quiet /\ UNCHANGED <<drift, left>>

\* The owner is resolved again just before: if it came back, the role is skipped.
Turn(c) ==
    LET k == call[c]
    IN  /\ k.pc = "turn"
        /\ IF k.orphans = {} THEN Put(c, NoCall)
           ELSE \E r \in k.orphans :
                   Put(c, IF Resolves(k.photo.rows[r].owner) THEN [k EXCEPT !.orphans = @ \ {r}]
                          ELSE [k EXCEPT !.pc = "collect", !.role = r])
        /\ Quiet /\ UNCHANGED <<drift, left>>

-----------------------------------------------------------------------------

Step ==
    \/ \E k \in AskAt : Ask(k)
    \/ \E k \in asked : Land(k)
    \/ \E k \in held : Revoke(k)
    \/ \E d \in DenyAt : Deny(d)
    \/ \E m \in Moves : Move(m)
    \/ \E s \in Lapses : Lapse(s)
    \/ Blind
    \/ \E c \in Client :
          \/ StartDefine(c) \/ StartUpdate(c) \/ StartDelete(c) \/ StartSync(c) \/ StartPrune(c)
          \/ ReadChain(c) \/ View(c) \/ ReadRoles(c) \/ ReadDenies(c) \/ Shadows(c)
          \/ Define(c) \/ Update(c) \/ Refused(c) \/ GiveUp(c)
          \/ Sync(c) \/ Project(c) \/ Current(c) \/ Write(c)
          \/ Collect(c) \/ Erase(c) \/ Residue(c) \/ Drop(c)
          \/ ListLocals(c) \/ ResolveOwner(c) \/ Decide(c) \/ Turn(c)

Delegates(k) == k.op \in {"define", "update"} /\ k.pc \notin {"idle"} \cup InProject
Looks(k)     == k.op = "prune" /\ k.pc \in {"list", "resolve"}
Purges(k)    == k.op = "prune" /\ ~Looks(k)

GlobalPart(rows) == [r \in Role |-> IF r \in Globals(rows) THEN rows.rows[r] ELSE None]

\* What holds now for the call k.
Now(k) ==
    LET mine == Delegates(k) /\ k.owner # Root
    IN  [roles   |-> IF mine THEN HeldAlong(tree, k.actor, k.owner) ELSE {},
         links   |-> IF mine THEN Granting(cat, tree, k.owner) ELSE {},
         denied  |-> IF mine THEN DeniedAlong(tree, k.actor, k.owner) ELSE {},
         sighted |-> Looks(k) /\ ~blind,
         gone    |-> IF Purges(k) THEN {s \in Scope : ~Resolves(s)} ELSE {},
         crossed |-> FALSE]

\* The history of c goes on, or begins again with the state it comes to.
Remembered(c) ==
    LET k == call[c]
        new == Now(call[c])'
    IN  CASE Delegates(k) /\ Delegates(k') /\ k.owner = k'.owner ->
                [new EXCEPT !.roles = @ \cup seen[c].roles, !.links = @ \cup seen[c].links,
                            !.denied = @ \cap seen[c].denied]
          [] Looks(k) /\ Looks(k') -> [new EXCEPT !.sighted = @ \/ seen[c].sighted]
          [] Looks(k) /\ Purges(k') -> [new EXCEPT !.sighted = seen[c].sighted]
          [] Purges(k) /\ Purges(k') ->
                [new EXCEPT !.sighted = seen[c].sighted,
                            !.gone = IF k.pc # "turn" /\ k'.pc = "turn" THEN @ ELSE @ \cup seen[c].gone]
          [] k.op = "sync" /\ k'.op = "sync" ->
                [new EXCEPT !.crossed = \/ seen[c].crossed
                                        \/ /\ k.pc = k'.pc
                                           /\ <<cat.levels, GlobalPart(cat)>> # <<cat'.levels, GlobalPart(cat')>>]
          [] OTHER -> new

Remember == seen' = [c \in Client |-> Remembered(c)]

Next == Step /\ Remember

Spec == Init /\ [][Next]_vars

-----------------------------------------------------------------------------
(* What must hold.                                                         *)

TypeOK ==
    /\ cat \in Catalog
    /\ spare \subseteq Role
    /\ tree \subseteq Edge /\ known \subseteq Scope /\ blind \in BOOLEAN
    /\ held \subseteq Fact /\ asked \subseteq Fact /\ denied \subseteq Actor \X Scope \X Perm
    /\ permits \subseteq Role \X Perm
    /\ call \in [Client -> Call]
    /\ drift \subseteq Role
    /\ seen \in [Client -> Seen]
    /\ left \in [{"calls", "changes"} -> Nat]

\* What the store says a role grants is what the catalog says, as soon as no call has it in
\* hand: every write that changes links is projected, by a strict write that notices what
\* changed under it.  Only a projection that failed, or that another write of the same role
\* crossed, leaves a difference (manager.ts:3328).
PermitsFollow ==
    \A r \in Role : r \notin drift /\ (\A c \in Client : r \notin Pending(c))
        => PermitsOf(r) = {l \in Links(cat) : l[1] = r}

\* Two roles of one name, both visible in a scope, and the owner of the one above the other
\* (or global): the diff and the sync tell of the lower one, or of both if each is above the
\* other.  Nothing can be said of an owner that the tree does not answer for.
HomonymsTold ==
    LET chainOf == [s \in Scope |-> ChainOf(s)]
    IN  \A r \in Locals(cat) : \A q \in Homonyms(cat, r) :
            /\ Resolves(cat.rows[r].owner)
            /\ q \in Globals(cat) \/ cat.rows[q].owner \in Up(tree, cat.rows[r].owner)
            => r \in ShadowedByGlobal(cat) \cup ShadowedByAncestor(cat, chainOf)
                        \cup UNION Ambiguous(cat, chainOf)

\* A call writes the catalog as a define of r.
Defined(c, r) ==
    /\ call[c].op = "define" /\ call[c].pc = "commit" /\ call'[c].pc # "commit"
    /\ cat.rows[r] = None /\ cat'.rows[r] # None

\* A role is not defined where its name is taken: by a role that is global, or of a scope
\* above or the same, whatever other clients defined or synced since it was checked; nor
\* above one of a scope below that the actor did not outrank; nor where no scope of the
\* tree would see it, unless the scopes below could not be listed.
DefinedApart ==
    [][\A c \in Client, r \in Role : Defined(c, r) /\ ~call[c].moved =>
          \A q \in Named(cat, call[c].ask.name) :
              /\ cat.rows[q].owner \notin {Global} \cup Up(tree, call[c].owner)
              /\ Resolves(cat.rows[q].owner) /\ call[c].owner \in Up(tree, cat.rows[q].owner)
                    => \E h \in Named(call[c].photo, call[c].ask.name) :
                          /\ call[c].photo.rows[h].owner = cat.rows[q].owner
                          /\ call[c].rank > call[c].photo.rows[h].rank]_vars

\* The links that a call writes as a delegation.
Delegated(c) ==
    IF Delegates(call[c]) /\ cat' # cat /\ call[c].pc = "commit" /\ call'[c].pc # "commit"
    THEN {l[2] : l \in Links(cat)' \ Links(cat)} ELSE {}

\* Nobody delegates what he has not: each permission that a local role gains was, at some
\* instant of the call, granted by a role in a scope of the chain of the owner where the actor
\* had it, at an instant of it too, and was not denied to him there all the time.  The reads
\* are not of one instant, so the two instants may differ.
DelegationBacked ==
    [][\A c \in Client : ~call[c].moved =>
          \A p \in Delegated(c) :
              /\ \E x \in seen[c].roles : <<x[1], x[2], p>> \in seen[c].links
              /\ p \notin seen[c].denied
              /\ p \in Delegable]_vars

\* A call takes the row of r away.
Dropped(c, r) == call[c].pc = "drop" /\ call[c].role = r /\ cat.rows[r] # None /\ cat'.rows[r] = None

\* When the row of a role goes, nothing in the store is left of it, except what landed
\* after the residue was read: facts that outlive their row could not be found again.
PurgedIsEmpty ==
    [][\A c \in Client, r \in Role : Dropped(c, r) => FactsOf(r) = {} \/ call[c].late]_vars

\* A prune takes only roles whose owner the tree did not answer for at some instant since
\* the role before was done.
PruneSparesKnown ==
    [][\A c \in Client, r \in Role : Dropped(c, r) /\ call[c].op = "prune"
          => cat.rows[r].owner \in seen[c].gone]_vars

\* A pass whose resolver saw nothing while it looked takes nothing, and no pass takes more
\* than half of the local roles it found.
PruneBounded ==
    [][\A c \in Client, r \in Role : Dropped(c, r) /\ call[c].op = "prune" =>
          /\ seen[c].sighted
          /\ 2 * Cardinality(call[c].orphans) <= Cardinality(Locals(call[c].photo))]_vars

\* After all the configs of a list are synced there is nothing to sync in any of them: none
\* undoes another.
SyncedTogether ==
    [][\A c \in Client :
          /\ call[c].op = "sync" /\ call[c].prune /\ call[c].at = Len(call[c].plan)
          /\ call[c].pc \in {"current", "write"} /\ call'[c].pc = "idle"
          /\ ~seen[c].crossed
          => \A i \in DOMAIN call[c].plan : Clean(Diff(cat, call[c].plan[i]))]_vars

\* Names stay apart in every chain, and what is not apart is told.
NamesApart == [](TypeOK /\ HomonymsTold) /\ DefinedApart

\* What takes roles away takes all of each, only what is orphan, and never most of them.
PruneSafe == PurgedIsEmpty /\ PruneSparesKnown /\ PruneBounded

\* "Un fallo aquí deja deriva [...], nunca una concesión que las tablas no respalden"
\* (catalog.ts:275): when the projection of a sync fails, and no other call has one in hand,
\* the store grants nothing that the tables do not.  It does not hold, and no run expects it
\* to: a link that the transaction took away is granted until some projection succeeds.
FailedSyncNeverGrants ==
    [][\A c \in Client :
          /\ call[c].op = "sync" /\ call[c].pc \in {"current", "write"} /\ call'[c].pc = "idle"
          /\ \A d \in Client \ {c} : Pending(d) = {}
          => permits' \subseteq Links(cat)']_vars
=============================================================================
