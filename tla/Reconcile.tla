------------------------------ MODULE Reconcile ------------------------------
(***************************************************************************)
(* authz:reconcile (src/src/manager.ts, reconcile() of both drivers).  One *)
(* pass at a time rebuilds the facts of a driver from those of another, or *)
(* what a store of OpenFGA derives from the catalog and the tree from its  *)
(* own facts.  A pass reads the tree, the facts of its origin and all of   *)
(* its destination, and then deletes and writes, one request after the     *)
(* other, while the engine keeps answering and the consumer keeps moving   *)
(* scopes.  Writes are frozen (Freeze has the lease), but one that had     *)
(* passed the barrier still lands.  A dry run is a pass that stops at its  *)
(* plan.                                                                   *)
(***************************************************************************)
EXTENDS FgaStore, Sequences

CONSTANTS
    Key,        \* the keys of config.drivers
    Factory,    \* Factory[k]: the factory of the key k, a reference
    Builds,     \* Builds[f]: the backend that f builds a driver of, "sql" or "fga"
    FirstActive,\* config.default at the start
    Catalog,    \* Catalog[r]: the row of a role; a role with no row is retired
    Published,  \* the permissions that the model of the store declares
    Canon,      \* Canon[s]: the scope that the consumer's resolver takes s for
    FirstTree,  \* the edges <<child, parent>> of the consumer at the start
    Moves,      \* the edges the consumer may choose for a scope
    Starts,     \* what the backends may hold at the start
    Passes,     \* bound: the passes an operator may ask for
    Ops,        \* bound: the writes clients may ask for
    MaxEvents,  \* bound: passes, writes, moves, cutovers, lapses and ticks
    MaxClock    \* bound: the clock stops there

\* Tuples.  A tuple is told by its relation and its ends, never by its expiry.
Facts == {"binding", "role", "held", "denied"}

Tuple == ({"parent"} \X (Scope \X Scope)) \cup ({"binding", "role"} \X Place)
             \cup ({"held"} \X (Holder \X Place)) \cup ({"denied"} \X (Holder \X Scope \X Perm))
             \cup ({"permits"} \X (Role \X Perm)) \cup {<<"rooted", Root>>}

\* familyOfTuple: what a store has, as one set.
Tuples(x) == ({"parent"} \X x.parent) \cup ({"binding"} \X x.binding) \cup ({"role"} \X x.role)
                 \cup ({"held"} \X {k \in DOMAIN x.held : x.held[k] # Absent})
                 \cup ({"denied"} \X x.denied) \cup ({"permits"} \X x.permits)
                 \cup {t \in {<<"rooted", Root>>} : x.rooted}

Without(x, t) ==
    CASE t[1] = "held"   -> [x EXCEPT !.held[t[2]] = Absent]
      [] t[1] = "rooted" -> [x EXCEPT !.rooted = FALSE]
      [] OTHER           -> [x EXCEPT ![t[1]] = @ \ {t[2]}]

\* The tuple as y has it, its expiry with it.
With(x, t, y) ==
    CASE t[1] = "held"   -> [x EXCEPT !.held[t[2]] = y.held[t[2]]]
      [] t[1] = "rooted" -> [x EXCEPT !.rooted = TRUE]
      [] OTHER           -> [x EXCEPT ![t[1]] = @ \cup {t[2]}]

Bare == [parent |-> {}, binding |-> {}, role |-> {}, denied |-> {}, permits |-> {},
         held |-> [k \in Holder \X Place |-> Absent], rooted |-> FALSE]

Backend == {"sql", "fga"}
Known   == DOMAIN Catalog
None    == "none"

\* --to and --from, which need not be given, and --prune; never --allow-stale-source nor
\* --allow-mass-delete.
Asked == [to : Key, from : Key \cup {None}, prune : BOOLEAN]

Op == [op : {"grant", "revoke"}, key : Holder \X Place, exp : Expiry]
        \cup [op : {"deny", "removeDeny"}, deny : Holder \X Scope \X Perm]

ASSUME ReconcileAssumption ==
    /\ Factory \in [Key -> DOMAIN Builds] /\ Builds \in [DOMAIN Builds -> Backend]
    /\ FirstActive \in Key /\ None \notin Key
    /\ Root \in Scope /\ IsFiniteSet(Scope)
    /\ Known \subseteq Role /\ \A r \in Known : Catalog[r] \in RoleRow
    /\ Published \subseteq Perm
    /\ Canon \in [Scope -> Scope] /\ Canon[Root] = Root
    /\ FirstTree \subseteq Scope \X Scope /\ Moves \subseteq Scope \X Scope
    /\ \A d, e \in FirstTree : d[1] = e[1] => d = e
    /\ \A e \in FirstTree \cup Moves : e[1] # Root /\ Canon[e[1]] = e[1]
    /\ Starts \subseteq [Backend -> Store]
    /\ \A x \in Starts : /\ \A t \in Tuples(x.sql) : t[1] \in {"held", "denied"}
                         /\ \A e \in x.fga.parent : e[1] # Root
    /\ Passes \subseteq Asked /\ Ops \subseteq Op
    /\ {MaxEvents, MaxClock} \subseteq Nat

VARIABLES
    clock,
    active,     \* config.default
    back,       \* back[b]: a backend; the tables have facts, the store all of it
    tree,       \* the consumer's tree: its edges
    queue,      \* the moves that the relay has to apply
    flight,     \* the write that has passed the barrier and not landed, if any
    pass,
    gone,       \* history: facts taken away from the backend that serves, and not given back
    sound,      \* history: the store had the tree, and nothing has raced it since
    left        \* what is left of MaxEvents

vars == <<clock, active, back, tree, queue, flight, pass, gone, sound, left>>

-----------------------------------------------------------------------------
(* What a pass wants.                                                      *)

\* readSourceTree: no edge of a cycle is written.
SourceTree(edges) == {e \in edges : e[1] \notin Reach(edges, e[2])}

Resolves(edges, s) == Root \in Reach(edges, s)

\* The marker of the root, the catalog, and the tree.
Derived(edges) ==
    [Bare EXCEPT !.rooted = TRUE, !.parent = edges,
                 !.permits = {rp \in Role \X Perm :
                    rp[1] \in Known /\ rp[2] \in Catalog[rp[1]].perms \cap Published}]

\* wantAssignment: the assignments of x that can be migrated.
Assignable(x, edges, now) ==
    {k \in DOMAIN x.held : /\ x.held[k] # Absent /\ Live(x.held[k], now)
                           /\ Resolves(edges, k[2][1])
                           /\ k[2][2] \in Known}

\* wantDeny: the denies of x that can be migrated to the store.
Deniable(x, edges) ==
    {d \in x.denied : d[3] \in Published /\ Resolves(edges, d[2])}

Seen(pl, edges) == Visible(Catalog[pl[2]], pl[1], Reach(edges, pl[1]))

\* Bug: the edge scope#binding goes with every assignment.
WantStoreHung(w, x, edges, now) ==
    LET ks == Assignable(x, edges, now)
    IN  [w EXCEPT !.held = [k \in DOMAIN x.held |-> IF k \in ks THEN x.held[k] ELSE Absent],
                  !.role = {k[2] : k \in ks},
                  !.binding = {k[2] : k \in ks},
                  !.denied = Deniable(x, edges)]

\* What the store should have of the facts of x, and what it should derive from the edges.
WantStore(w, x, edges, now) ==
    LET ks == Assignable(x, edges, now)
        pls == {k[2] : k \in ks}
    IN  [w EXCEPT !.held = [k \in DOMAIN x.held |-> IF k \in ks THEN x.held[k] ELSE Absent],
                  !.role = pls,
                  !.binding = {pl \in pls : Seen(pl, edges)},
                  !.denied = Deniable(x, edges)]

\* longerExpiry: of two facts that become one row, the one that lasts longer.
Fold(es) == IF Forever \in es THEN Forever ELSE CHOOSE e \in es : \A f \in es : e >= f

\* What the tables should have: each fact in the row of its canonical scope.
WantTables(w, x, edges, now) ==
    LET ks == {k \in DOMAIN x.held : /\ x.held[k] # Absent /\ Live(x.held[k], now)
                                     /\ Resolves(edges, Canon[k[2][1]])
                                     /\ k[2][2] \in Known}
        of(k) == {j \in ks : j[1] = k[1] /\ <<Canon[j[2][1]], j[2][2]>> = k[2]}
    IN  [w EXCEPT !.held = [k \in DOMAIN x.held |->
                               IF of(k) = {} THEN Absent ELSE Fold({x.held[j] : j \in of(k)})],
                  !.denied = {<<d[1], Canon[d[2]], d[3]>> :
                                 d \in {d \in x.denied : Resolves(edges, Canon[d[2]])}}]

-----------------------------------------------------------------------------
(* A pass.                                                                 *)

\* What it was asked, where its facts come from, what it has read: the tree and of its
\* origin the pages still to come; what it wants, and what is left of its plan, the tuples
\* whose expiry changes among them.  History: whether a write may land under it, or there
\* was a change of the tree that nobody is told of, and whether a scope moved; the destination
\* at its plan, and the states the tables were in while it read.
Pass == [pc : {"idle", "tree", "read", "plan", "apply", "done", "refused", "died"},
         to : Backend, origin : Backend, prune : BOOLEAN,
         now : Nat, edges : SUBSET (Scope \X Scope), pages : SUBSET {"held", "denied"},
         facts : Store, want : Store,
         del : SUBSET Tuple, put : SUBSET Tuple, update : SUBSET Tuple,
         lapsed : BOOLEAN, raced : BOOLEAN, moved : BOOLEAN,
         before : Store, were : SUBSET Store]

NoPass == [pc |-> "idle", to |-> "sql", origin |-> "sql", prune |-> FALSE,
           now |-> 0, edges |-> {}, pages |-> {}, facts |-> Bare, want |-> Bare,
           del |-> {}, put |-> {}, update |-> {},
           lapsed |-> FALSE, raced |-> FALSE, moved |-> FALSE, before |-> Bare, were |-> {}]

Running == pass.pc \in {"tree", "read", "plan", "apply"}
Self    == pass.to = pass.origin
Dest    == back[pass.to]

\* Writes of facts and of the tree are refused while a pass holds its window.
Frozen == Running /\ ~pass.lapsed

BackendOf(k) == Builds[Factory[k]]
Serving      == BackendOf(active)

\* Bug: keys are compared, and not what their factories are.
SameName(k, l) == k = l

\* sameDriver: two keys of one factory are one driver; of two factories they are two, even
\* if both build a driver of the same backend.
SameDriver(k, l) == Factory[k] = Factory[l]

\* isMaintenancePass: the engine serves from there, and the facts live there.
Maintenance(a) == a.from = None /\ SameDriver(a.to, active) /\ BackendOf(a.to) = "fga"

\* Towards the driver that serves, the only origin that is not stale is itself.
Stale(a) ==
    /\ SameDriver(a.to, active)
    /\ a.from = None \/ ~SameDriver(a.from, a.to)
    /\ ~Maintenance(a)

\* The drivers that can be an origin for `to`: the store reads the tables itself, and the
\* tables need another driver with enumerateFacts.
Gives(k, to) == ~SameDriver(k, to) /\ "fga" \in {BackendOf(k), BackendOf(to)}

\* factsOrigin: where the facts come from, as a set of none or one; with no --from the
\* tables are filled from the one driver that enumerates its facts.
Origin(a) ==
    IF Maintenance(a) THEN {BackendOf(a.to)}
    ELSE IF a.from # None THEN {BackendOf(k) : k \in {k \in {a.from} : Gives(k, a.to)}}
    ELSE IF BackendOf(a.to) = "fga" THEN {"sql"}
    ELSE IF Cardinality({k \in Key : Gives(k, a.to)}) = 1 THEN {"fga"} ELSE {}

\* The declared limit of #sameDriver: a second factory of the backend that serves names it,
\* and no pass towards it is stale.
ByAlias(a) == BackendOf(a.to) = Serving /\ Factory[a.to] # Factory[active]

Init ==
    /\ clock = 0
    /\ active = FirstActive
    /\ back \in Starts
    /\ tree = FirstTree
    /\ queue = <<>> /\ flight = {}
    /\ pass = NoPass
    /\ gone = {} /\ sound = FALSE
    /\ left = MaxEvents

Spend == left > 0 /\ left' = left - 1

\* reconcile() of the manager: no stale direction, an origin, and the window.  What a pass
\* by an alias brings back from another backend is given back by whoever asked for it.
Begin(a) ==
    /\ ~Running /\ Spend
    /\ ~Stale(a)
    /\ \E o \in Origin(a) :
          /\ pass' = [NoPass EXCEPT !.pc = "tree", !.to = BackendOf(a.to), !.origin = o,
                                    !.prune = a.prune, !.now = clock,
                                    !.pages = {"held", "denied"}, !.raced = flight # {},
                                    !.were = IF o = "sql" THEN {back.sql} ELSE {}]
          /\ gone' = IF ByAlias(a) /\ o # Serving THEN {} ELSE gone
    /\ UNCHANGED <<clock, active, back, tree, queue, flight, sound>>

OnlyPass == UNCHANGED <<clock, active, back, tree, queue, flight, gone, sound, left>>

\* enumerateEdges; the tables ask the resolver instead, which has what they need.
ReadTree ==
    /\ pass.pc = "tree"
    /\ pass' = [pass EXCEPT !.pc = "read", !.edges = SourceTree(tree)]
    /\ OnlyPass

\* Bug: the tables are read one after the other, with no snapshot.
ReadTablesApart ==
    /\ pass.pc = "read" /\ pass.origin = "sql"
    /\ \E f \in pass.pages :
          pass' = [pass EXCEPT !.pages = @ \ {f}, !.facts[f] = back.sql[f],
                               !.pc = IF pass.pages = {f} THEN "plan" ELSE "read"]
    /\ OnlyPass

\* readSourceFacts: both tables in one snapshot.
ReadTables ==
    /\ pass.pc = "read" /\ pass.origin = "sql"
    /\ pass' = [pass EXCEPT !.pc = "plan", !.pages = {}, !.facts.held = back.sql.held,
                            !.facts.denied = back.sql.denied]
    /\ OnlyPass

\* readOriginFacts over enumerateFacts: the store is read by pages, in no order to rely on.
ReadPage(f) ==
    /\ pass.pc = "read" /\ pass.origin = "fga" /\ f \in pass.pages
    /\ pass' = [pass EXCEPT !.pages = @ \ {f}, !.facts[f] = back.fga[f],
                            !.pc = IF pass.pages = {f} THEN "plan" ELSE "read"]
    /\ OnlyPass

\* What the destination has and nobody wants.  What is derived always goes, and so does
\* the edge scope#binding of an assignment of a role that is not visible there.
Extra(cur, want, prune) ==
    {t \in cur \ want : \/ prune \/ t[1] \notin Facts
                        \/ t[1] = "binding" /\ <<"role", t[2]>> \in want}

WantOf(facts) ==
    IF pass.to = "fga" THEN WantStore(Derived(pass.edges), facts, pass.edges, pass.now)
    ELSE WantTables(Bare, facts, pass.edges, pass.now)

Wanted == WantOf(pass.facts)

\* Whether the origin gave any fact that can be used.
Usable == Wanted.denied # {} \/ \E k \in Holder \X Place : Wanted.held[k] # Absent

\* The difference between what there is and what is wanted.  The store has no update: the
\* tuple is deleted and written.
Diff(x, want, to, prune) ==
    LET cur == Tuples(x)
        goal == Tuples(want)
        update == {t \in cur \cap goal : t[1] = "held" /\ x.held[t[2]] # want.held[t[2]]}
        extra == Extra(cur, goal, prune)
    IN  [extra |-> extra, update |-> update,
         del |-> extra \cup (IF to = "fga" THEN update ELSE {}),
         put |-> (goal \ cur) \cup update]

\* All of the destination is read, and the plan made.  An origin that gives nothing and a
\* --prune that would delete facts is the mark of a wrong origin.
Plan ==
    LET d == Diff(Dest, Wanted, pass.to, pass.prune)
        refuse == pass.prune /\ (\E t \in d.extra : t[1] \in Facts) /\ ~Usable
    IN  /\ pass.pc = "plan"
        /\ pass' = IF refuse THEN [NoPass EXCEPT !.pc = "refused"]
                   ELSE [pass EXCEPT !.pc = "apply", !.want = Wanted, !.update = d.update,
                                     !.del = d.del, !.put = d.put, !.before = Dest]
        /\ OnlyPass

\* The order of the requests.  The store deletes in the order it was read.
DeleteRank(t) == IF pass.to = "sql" /\ t[1] = "denied" THEN 1 ELSE 0

\* What is updated goes first, then the marker, the catalog, the tree and the facts: the
\* tables and a reading of the tables have the assignments first, a page of the store not.
WriteRank(t) ==
    CASE t \in pass.update        -> 0
      [] t[1] = "rooted"          -> 1
      [] t[1] = "permits"         -> 2
      [] t[1] = "parent"          -> 3
      [] t[1] = "denied" /\ ~Self -> 5
      [] OTHER                    -> 4

\* The three tuples of an assignment: who holds it, what it grants, where it hangs.
PlaceOf(t) == IF t[1] = "held" THEN t[2][2] ELSE t[2]
RowRank(t) == CASE t[1] = "held" -> 0 [] t[1] = "role" -> 1 [] t[1] = "binding" -> 2 [] OTHER -> 3

\* Whether t is written before u, as the plan has them.
NotAfter(t, u) ==
    /\ WriteRank(t) <= WriteRank(u)
    /\ RowRank(t) < 3 /\ RowRank(u) < 3 /\ PlaceOf(t) = PlaceOf(u) => RowRank(t) <= RowRank(u)

Apply(new, p) ==
    /\ back' = [back EXCEPT ![pass.to] = new]
    /\ pass' = p
    /\ UNCHANGED <<clock, active, tree, queue, flight, gone, sound, left>>

Delete(t) ==
    /\ pass.pc = "apply" /\ t \in pass.del
    /\ \A u \in pass.del : DeleteRank(t) <= DeleteRank(u)
    /\ Apply(Without(Dest, t), [pass EXCEPT !.del = @ \ {t}])

\* Bug: the writes do not wait for the deletes.
WriteEarly(t) ==
    LET there == t \in Tuples(Dest)
    IN  /\ pass.pc = "apply" /\ t \in pass.put
        /\ \A u \in pass.put : NotAfter(t, u)
        /\ pass.to = "sql" => there = (t \in pass.update)
        /\ Apply(IF pass.to = "fga" /\ there THEN Dest ELSE With(Dest, t, pass.want),
                 [pass EXCEPT !.put = @ \ {t}])

\* `Ignore`: what landed meanwhile stays as it is.  The row of an update has its uuid, and
\* if it is gone nothing is updated; a row that is there makes an insertion fail.
Write(t) ==
    LET there == t \in Tuples(Dest)
    IN  /\ pass.pc = "apply" /\ pass.del = {} /\ t \in pass.put
        /\ \A u \in pass.put : NotAfter(t, u)
        /\ pass.to = "sql" => there = (t \in pass.update)
        /\ Apply(IF pass.to = "fga" /\ there THEN Dest ELSE With(Dest, t, pass.want),
                 [pass EXCEPT !.put = @ \ {t}])

\* The last that the relay was told of each scope in its queue is what the consumer has.
Told ==
    \A i \in DOMAIN queue :
        queue[i] \in tree \/ \E j \in DOMAIN queue : j > i /\ queue[j][1] = queue[i][1]

\* The report, and the window is given back.  A scope of a cycle was left out.
Finish ==
    /\ pass.pc = "apply" /\ pass.del \cup pass.put = {}
    /\ pass' = [NoPass EXCEPT !.pc = "done"]
    /\ sound' = (IF pass.to = "fga"
                 THEN /\ ~pass.raced /\ (pass.to = Serving \/ ~pass.moved) /\ Told
                      /\ \A e \in tree : \E d \in pass.edges : d[1] = e[1]
                 ELSE sound)
    /\ UNCHANGED <<clock, active, back, tree, queue, flight, gone, left>>

\* A request fails or the process dies; what was applied stays.
Die ==
    /\ Running
    /\ pass' = [NoPass EXCEPT !.pc = "died"]
    /\ sound' = (sound /\ (pass.to = "sql" \/ pass.pc # "apply"))
    /\ UNCHANGED <<clock, active, back, tree, queue, flight, gone, left>>

\* The lease of the window is lost while the pass goes on.
Lapse ==
    /\ Frozen /\ Spend
    /\ pass' = [pass EXCEPT !.lapsed = TRUE, !.raced = TRUE]
    /\ UNCHANGED <<clock, active, back, tree, queue, flight, gone, sound>>

-----------------------------------------------------------------------------
(* The engine and the consumer, meanwhile.                                 *)

\* A write passes the barrier, which is open; a grant has made its checks.
Call(op) ==
    /\ flight = {} /\ ~Frozen /\ Spend
    /\ op.op = "grant" => /\ op.key[2][2] \in Known /\ Resolves(tree, op.key[2][1])
                          /\ Seen(op.key[2], tree)
    /\ flight' = {op}
    /\ UNCHANGED <<clock, active, back, tree, queue, pass, gone, sound>>

CallRelay ==
    /\ flight = {} /\ queue # <<>> /\ ~Frozen
    /\ flight' = {[op |-> "relay"]}
    /\ UNCHANGED <<clock, active, back, tree, queue, pass, gone, sound, left>>

\* The fact that a write is about.
TupleOf(op) == IF op.op \in {"grant", "revoke"} THEN <<"held", op.key>> ELSE <<"denied", op.deny>>

Landed(x, op) ==
    CASE op.op = "grant" /\ Serving = "fga" ->
             [AddStructure(x, {op.key[2]}) EXCEPT !.held[op.key] = op.exp]
      [] op.op = "grant" /\ Serving = "sql" -> [x EXCEPT !.held[op.key] = op.exp]
      [] op.op = "deny"  -> [x EXCEPT !.denied = @ \cup {op.deny}]
      [] OTHER           -> Without(x, TupleOf(op))

\* The write lands in the backend that serves, also when a pass has begun meanwhile: then
\* the pass may undo it in its own destination.
Land(op) ==
    /\ op \in flight /\ op.op # "relay"
    /\ back' = [back EXCEPT ![Serving] = Landed(@, op)]
    /\ flight' = {}
    /\ pass' = [pass EXCEPT !.were = IF Running /\ pass.pages # {} /\ pass.origin = "sql"
                                     THEN @ \cup {back'.sql} ELSE @]
    /\ gone' = IF op.op \in {"revoke", "removeDeny"} /\ ~(Running /\ pass.to = Serving)
               THEN gone \cup {TupleOf(op)} ELSE gone \ {TupleOf(op)}
    /\ UNCHANGED <<clock, active, tree, queue, sound, left>>

\* The relay applies a move: the edge, and the bindings of local roles below it.  The
\* tables need nothing of it.
Relayed(x, e) ==
    LET y == Reparent(x, e[1], {e[2]})
        moved == {pl \in x.role : pl[2] \in Known /\ Catalog[pl[2]].owner # Global
                                   /\ e[1] \in Up(y, pl[1])}
    IN  [y EXCEPT !.binding = (@ \ moved) \cup {pl \in moved : Seen(pl, y.parent)}]

Relay ==
    /\ [op |-> "relay"] \in flight
    /\ Serving = "fga" => /\ Cardinality(Parents(back.fga, Head(queue)[1])) <= 1
                          /\ Head(queue)[1] \notin Up(back.fga, Head(queue)[2])
    /\ back' = IF Serving = "fga" THEN [back EXCEPT !.fga = Relayed(@, Head(queue))] ELSE back
    /\ queue' = Tail(queue)
    /\ flight' = {}
    /\ sound' = (sound /\ Serving = "fga")
    /\ UNCHANGED <<clock, active, tree, pass, gone, left>>

\* The consumer moves a scope and tells; what would close a cycle is refused to it, and
\* stays in its table all the same.
Move(e) ==
    LET cyclic == e[1] \in Reach(tree, e[2])
    IN  /\ e \notin tree /\ Spend
        /\ tree' = {d \in tree : d[1] # e[1]} \cup {e}
        /\ queue' = IF cyclic THEN queue ELSE Append(queue, e)
        /\ sound' = (sound /\ ~cyclic /\ Serving = "fga")
        /\ pass' = [pass EXCEPT !.moved = @ \/ Running, !.raced = @ \/ (Running /\ cyclic)]
        /\ UNCHANGED <<clock, active, back, flight, gone>>

\* The operator changes config.default, with the engine stopped.
Cutover(k) ==
    /\ ~Running /\ flight = {} /\ k # active /\ Spend
    /\ active' = k
    /\ gone' = IF BackendOf(k) = Serving THEN gone ELSE {}
    /\ UNCHANGED <<clock, back, tree, queue, flight, pass, sound>>

Tick ==
    /\ clock < MaxClock /\ Spend
    /\ clock' = clock + 1
    /\ UNCHANGED <<active, back, tree, queue, flight, pass, gone, sound>>

PassStep ==
    \/ ReadTree \/ ReadTables \/ (\E f \in {"held", "denied"} : ReadPage(f)) \/ Plan
    \/ (\E t \in pass.del : Delete(t)) \/ (\E t \in pass.put : Write(t)) \/ Finish

Next ==
    \/ \E a \in Passes : Begin(a)
    \/ PassStep \/ Die \/ Lapse
    \/ (\E op \in Ops : Call(op)) \/ CallRelay \/ (\E op \in flight : Land(op)) \/ Relay
    \/ \E e \in Moves : Move(e)
    \/ \E k \in Key : Cutover(k)
    \/ Tick

Spec == Init /\ [][Next]_vars

-----------------------------------------------------------------------------
(* What a pass promises.                                                   *)

TypeOK ==
    /\ clock \in Nat /\ active \in Key
    /\ back \in [Backend -> Store]
    /\ tree \subseteq Scope \X Scope /\ queue \in Seq(Scope \X Scope)
    /\ flight \subseteq Op \cup {[op |-> "relay"]}
    /\ pass \in Pass
    /\ gone \subseteq Tuple
    /\ sound \in BOOLEAN
    /\ left \in Nat

\* authorize() of the tables, by the consumer's tree.
SqlAnswers(x) ==
    {q \in Holder \X Perm \X Scope :
        LET chain == Reach(tree, q[3])
        IN  /\ Root \in chain
            /\ \E pl \in Place :
                  /\ pl[1] \in chain /\ pl[2] \in Known /\ q[2] \in Catalog[pl[2]].perms
                  /\ Seen(pl, tree)
                  /\ x.held[<<q[1], pl>>] # Absent /\ Live(x.held[<<q[1], pl>>], clock)
            /\ \A s \in chain : <<q[1], s, q[2]>> \notin x.denied}

AnswersOf(b, x) == IF b = "fga" THEN Answers(x, clock) ELSE SqlAnswers(x)

\* What x will be when the rest of the plan of p is applied.
Goal(x, p) ==
    LET cut(f) == {t[2] : t \in {t \in p.del : t[1] = f}}
        add(f) == {t[2] : t \in {t \in p.put : t[1] = f}}
        all(f) == (x[f] \ cut(f)) \cup add(f)
    IN  [parent |-> all("parent"), binding |-> all("binding"), role |-> all("role"),
         denied |-> all("denied"), permits |-> all("permits"),
         rooted |-> x.rooted \/ add("rooted") # {},
         held |-> [k \in DOMAIN x.held |-> IF k \in add("held") THEN p.want.held[k]
                                           ELSE IF k \in cut("held") THEN Absent ELSE x.held[k]]]

Finishes == pass.pc = "apply" /\ pass'.pc = "done"
Quiet == ~pass.raced /\ ~pass.moved

\* "todo en un driver o todo en otro": a store that does not serve, filled from the tables
\* with --prune, answers as the tables did at some instant of the pass, whatever was written to them meanwhile,
\* for what the model declares; never as a mixture of two instants, which would grant what
\* nobody ever granted (openfga_driver.ts:2930).
SameAnswers ==
    [][Finishes /\ pass.to = "fga" /\ pass.to # Serving /\ ~Self /\ pass.prune /\ ~pass.moved =>
          \E x \in pass.were :
              Answers(back'.fga, clock) =
                  {q \in SqlAnswers(x) : q[2] \in Published /\ Canon[q[3]] = q[3]}]_vars

\* The way back: at any later instant a row of the tables is alive if and only if one of the
\* facts of the store that it stands for is (database_driver.ts:1427).
SameFactsBack ==
    [][Finishes /\ pass.to = "sql" /\ pass.prune /\ Quiet =>
          \A k \in Holder \X Place, later \in pass.now .. MaxClock + 2 :
              Canon[k[2][1]] = k[2][1] /\ Resolves(tree, k[2][1]) /\ k[2][2] \in Known =>
                  (back'.sql.held[k] # Absent /\ Live(back'.sql.held[k], later)) =
                  (\E s \in Scope : /\ Canon[s] = k[2][1]
                                    /\ LET e == back.fga.held[<<k[1], <<s, k[2][2]>>>>]
                                       IN  e # Absent /\ Live(e, later))]_vars

\* "la segunda pasada escribe cero": done over the same tree and origin, it finds nothing
\* to do.
SecondPassWritesNothing ==
    [][Finishes /\ Quiet =>
          LET again == Diff(back'[pass.to], WantOf(back'[pass.origin]), pass.to, pass.prune)
          IN  again.del = {} /\ again.put = {}]_vars

\* What was revoked in the backend that serves does not come back, in whatever order passes,
\* cutovers and revocations come, and under whatever key of its factory the driver is named
\* (3b-5; the stale direction, manager.ts:2128); a pass that names it by another factory is
\* the declared limit of #sameDriver, and what it brings back is not counted (ByAlias).
RevokedStaysRevoked == gone \cap Tuples(back[Serving]) = {}

\* A maintenance pass runs over the store that is answering: at none of its steps does it
\* say yes to what neither the store before nor the one it leaves does.  With --prune what
\* hangs from scopes that are gone may go before its edges.
MaintenanceNeverOpens ==
    [][pass.pc = "apply" /\ Self /\ ~pass.prune /\ ~pass'.raced
             /\ (\A s \in Scope : Cardinality(Parents(pass.before, s)) <= 1)
          => Answers(back'.fga, clock) \subseteq
                 Answers(pass.before, clock) \cup Answers(Goal(back'.fga, pass'), clock)]_vars

\* Without --prune too, an assignment of a role that is not visible in its scope grants
\* nothing once the pass is over (invariant 18, openfga_driver.ts:2539).
InvisibleUnhung ==
    [][Finishes /\ pass.to = "fga" /\ Quiet =>
          \A pl \in back'.fga.binding : pl \in pass.want.role => Seen(pl, tree)]_vars

\* A pass does not leave without facts a driver that had some: it has
\* something to put in their place or it is refused.
NeverEmptied ==
    [][Finishes /\ pass.prune /\ ~pass.raced =>
          \/ \A t \in Tuples(pass.before) : t[1] \notin {"held", "denied"}
          \/ \E t \in Tuples(back'[pass.to]) : t[1] \in {"held", "denied"}]_vars

\* Once a pass has rebuilt the tree of the store that serves, and the relay has caught up,
\* the store has the tree of the consumer: moves made under the pass are not lost.
StoreFollowsTree ==
    sound /\ Serving = "fga" /\ queue = <<>> /\ flight = {} /\ ~Running
        => back.fga.parent = SourceTree(tree)

\* A migration that ends is faithful: in its answers, in its facts and in its own eyes.
MigrationIsFaithful == SameAnswers /\ SameFactsBack /\ SecondPassWritesNothing

\* What a pass leaves behind is well formed, follows the tree and is not empty.
StoreRebuilt == [](TypeOK /\ StoreFollowsTree) /\ InvisibleUnhung /\ NeverEmptied

\* "si muere a medias, el destino queda de MENOS (fail-closed)" (database_driver.ts:1585,
\* openfga_driver.ts:2795): a pass that dies leaves a destination that says yes to nothing
\* that neither the one it found nor the one it was making does.
DeadPassFailsClosed ==
    [][pass.pc = "apply" /\ pass'.pc = "died" =>
          AnswersOf(pass.to, Dest) \subseteq
              AnswersOf(pass.to, pass.before) \cup AnswersOf(pass.to, Goal(Dest, pass))]_vars
=============================================================================
