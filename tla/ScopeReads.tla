----------------------------- MODULE ScopeReads -----------------------------
(***************************************************************************)
(* Reading the consumer's tree and what hangs from it: the resolver that   *)
(* climbs it row by row (src/src/hierarchical_resolver.ts) and its memo of *)
(* a request, the query that goes down (src/src/sql_descendants.ts) and    *)
(* the one that pages through it, and the manager's authorizedScopes() and *)
(* expandExcludedSubtrees(), which are built on both.  The tree is a table *)
(* of the consumer: nothing keeps it still, nor a tree, while it is read.  *)
(***************************************************************************)
EXTENDS Integers, Sequences, FiniteSets

CONSTANTS
    Node,       \* uuids of scopes
    Root,       \* the scope `app`, which has no row
    NoRow,
    Scenes      \* the sets of tables, grants and denies to start from, what is asked, the
                \* writes that come meanwhile, and the bounds

ASSUME ScopeReadsAssumption == Node \subseteq Nat /\ {Root, NoRow} \cap Node = {} /\ Root # NoRow

Scope == Node \cup {Root}

\* The table: the parent of each row (a NULL parent is the root).  The parent's row may be
\* missing, and the rows may form a cycle.
Table == [Node -> Scope \cup {NoRow}]

VARIABLES
    rows,       \* the table
    grants,     \* where the holder has a role that gives the permission
    denies,     \* where the permission is denied to it
    memo,       \* memo[n]: what resolveChain has answered for n in this request
    climb,      \* the climb under way
    call,       \* the call under way
    since,      \* history: the tables since the climb, or the read by pages, began
    worlds,     \* history: tables, grants and denies since the request began
    left,       \* what is left of the bounds: writes, calls
    scene       \* the bounds of the code: maxDepth, maxNodes, maxScopes, the page; the type
                \* asked for; and what is asked and written

vars == <<rows, grants, denies, memo, climb, call, since, worlds, left, scene>>

World == [rows |-> rows, grants |-> grants, denies |-> denies]

\* What resolveChain answers: a chain that starts at the scope, <<>> if the tree does not
\* know it, or what it throws.
Unasked == <<"unasked">>
Cycle   == <<"cycle">>
TooDeep == <<"tooDeep">>
Chains  == UNION {[1..k -> Scope] : k \in 1..(Cardinality(Node) + 1)}

NoClimb == [of |-> Root, asked |-> Root, chain |-> <<>>]

Ops == {"isWithin", "authorizedScopes", "expandExcludedSubtrees", "enumerateEdges"}

NoCall == [op |-> "none", pc |-> "idle", todo |-> {}, at |-> Root, below |-> {},
           denied |-> {}, direct |-> {}, result |-> {}, kind |-> "none", after |-> -1]

Members(s) == {s[i] : i \in DOMAIN s}

Init ==
    \E q \in Scenes :
        /\ rows \in q.rows /\ grants \in q.grants /\ denies \in q.denies
        /\ memo = [n \in Node |-> Unasked]
        /\ climb = NoClimb
        /\ call = NoCall
        /\ since = {} /\ worlds = {}
        /\ left = [writes |-> q.writes, calls |-> q.calls]
        /\ scene \in [maxDepth : q.maxDepth, maxNodes : q.maxNodes, maxScopes : q.maxScopes,
                      page : q.page, ofType : q.ofType, ops : {q.ops}, moves : {q.moves},
                      facts : {q.facts}]

Idle == call.pc \in {"idle", "done", "failed"}

\* How a call ends: with what it answers, or with what it throws.
Done(kind, set) == [NoCall EXCEPT !.op = call.op, !.pc = "done", !.kind = kind, !.result = set,
                                  !.denied = call.denied]
Failed(kind) == [NoCall EXCEPT !.op = call.op, !.pc = "failed", !.kind = kind]

-----------------------------------------------------------------------------
(* The rest of the world: the consumer writes a row, somebody grants,      *)
(* revokes, denies or removes a deny.                                      *)

Remember ==
    /\ since' = IF climb = NoClimb /\ call.pc # "page" THEN since ELSE since \cup {rows'}
    /\ worlds' = worlds \cup {[rows |-> rows', grants |-> grants', denies |-> denies']}

Other ==
    /\ ~Idle /\ left.writes > 0
    /\ left' = [left EXCEPT !.writes = @ - 1]
    /\ Remember
    /\ UNCHANGED <<memo, climb, call, scene>>

WriteRow(n, p) ==
    /\ <<n, p>> \in scene.moves /\ rows[n] # p
    /\ rows' = [rows EXCEPT ![n] = p]
    /\ UNCHANGED <<grants, denies>>
    /\ Other

Flip(set, s) == IF s \in set THEN set \ {s} ELSE set \cup {s}

WriteGrant(s) ==
    /\ s \in scene.facts
    /\ grants' = Flip(grants, s)
    /\ UNCHANGED <<rows, denies>>
    /\ Other

WriteDeny(s) ==
    /\ s \in scene.facts
    /\ denies' = Flip(denies, s)
    /\ UNCHANGED <<rows, grants>>
    /\ Other

-----------------------------------------------------------------------------
(* resolveChain: the climb.                                                *)

Reads == UNCHANGED <<rows, grants, denies, left, scene>>

\* A scope whose chain is at hand: the root always, another once the memo has it.  isWithin
\* resolves fresh: for it nothing is.
Known(s) == s \in Node => memo[s] # Unasked

ChainOf(s) == IF s = Root THEN <<Root>> ELSE memo[s]

\* Nobody has asked for s in this request: the first climb of its chain starts.
StartClimb(s) ==
    /\ ~Known(s) /\ climb = NoClimb
    /\ climb' = [of |-> s, asked |-> s, chain |-> <<>>]
    /\ since' = {rows}
    /\ UNCHANGED <<memo, call, worlds>>
    /\ Reads

\* The climb ends.  A chain, or that there is none, stays in the memo of the request; what
\* it throws does not, and is the end of the call.
Climbed(answer) ==
    /\ climb' = NoClimb
    /\ since' = {}
    /\ memo' = IF answer \in {Cycle, TooDeep} \/ call.op = "isWithin" THEN memo
               ELSE [memo EXCEPT ![climb.of] = answer]
    /\ call' = IF answer \in {Cycle, TooDeep} THEN Failed(answer[1])
               ELSE IF call.op # "isWithin" THEN call
               ELSE Done("some", Members(answer) \cap {call.at})

\* One call of nodeOf: one row is read.
ClimbStep ==
    LET n == climb.asked
        chain == Append(climb.chain, n)
    IN  /\ climb # NoClimb
        /\ IF rows[n] = NoRow THEN Climbed(<<>>)
           ELSE IF n \in Members(climb.chain) THEN Climbed(Cycle)
           ELSE IF Len(chain) > scene.maxDepth THEN Climbed(TooDeep)
           ELSE IF rows[n] = Root THEN Climbed(Append(chain, Root))
           ELSE /\ climb' = [climb EXCEPT !.asked = rows[n], !.chain = chain]
                /\ UNCHANGED <<memo, call, since>>
        /\ UNCHANGED worlds
        /\ Reads

\* nodeOf or a query of the call throws, or its deadline passes.
Fail ==
    /\ ~Idle
    /\ climb' = NoClimb
    /\ call' = Failed("dependency")
    /\ since' = {}
    /\ UNCHANGED <<memo, worlds>>
    /\ Reads

-----------------------------------------------------------------------------
(* Calls begin: in the request there is, or in another.                    *)

Begin(op, new) ==
    /\ Idle /\ op \in scene.ops /\ left.calls > 0
    /\ left' = [left EXCEPT !.calls = @ - 1]
    /\ call' = new
    /\ \/ UNCHANGED memo /\ worlds' = worlds \cup {World}
       \/ memo' = [n \in Node |-> Unasked] /\ worlds' = {World}
    /\ UNCHANGED <<rows, grants, denies, scene>>

\* isWithin(inner, outer), with the resolver and no memo.
IsWithin(inner, outer) ==
    /\ Begin("isWithin", [NoCall EXCEPT !.op = "isWithin", !.pc = "within", !.at = outer])
    /\ climb' = [of |-> inner, asked |-> inner, chain |-> <<>>]
    /\ since' = {rows}

AuthorizedScopes ==
    /\ Begin("authorizedScopes", [NoCall EXCEPT !.op = "authorizedScopes", !.pc = "assignments"])
    /\ UNCHANGED <<climb, since>>

\* The subtrees to expand are the ones the last answer left out.
ExpandExcludedSubtrees ==
    /\ call.kind = "all" /\ call.pc = "done"
    /\ Begin("expandExcludedSubtrees",
             [NoCall EXCEPT !.op = "expandExcludedSubtrees", !.pc = "exists",
                            !.todo = call.result, !.denied = call.result])
    /\ UNCHANGED <<climb, since>>

EnumerateEdges ==
    /\ Begin("enumerateEdges", [NoCall EXCEPT !.op = "enumerateEdges", !.pc = "page"])
    /\ climb' = climb
    /\ since' = {rows}

\* A step of the call that reads and changes nothing else.
Go(new) ==
    /\ climb = NoClimb
    /\ call' = new
    /\ since' = IF new.pc = "page" THEN since ELSE {}
    /\ UNCHANGED <<memo, climb, worlds>>
    /\ Reads

-----------------------------------------------------------------------------
(* authorizedScopes: listScopes of the driver ...                          *)

ListAssignments ==
    /\ call.pc = "assignments"
    /\ Go([call EXCEPT !.pc = "denies", !.todo = grants])

ListDenies ==
    /\ call.pc = "denies"
    /\ Go([call EXCEPT !.pc = "direct", !.denied = denies])

\* A scope counts if the tree knows it and no deny of its chain holds it back.
Direct(s) ==
    /\ call.pc = "direct" /\ s \in call.todo /\ Known(s)
    /\ Go([call EXCEPT !.todo = @ \ {s},
                       !.direct = IF ChainOf(s) # <<>> /\ Members(ChainOf(s)) \cap call.denied = {}
                                  THEN @ \cup {s} ELSE @])

-----------------------------------------------------------------------------
(* ... listDenies, and then what there is below.                           *)

ReadDenies ==
    /\ call.pc = "direct" /\ call.todo = {}
    /\ Go(IF call.direct = {} THEN Done("none", {})
          ELSE [call EXCEPT !.pc = "placing", !.todo = denies, !.denied = {}])

\* listDenies leaves out the scopes that the tree does not know.
Placing(s) ==
    /\ call.pc = "placing" /\ s \in call.todo /\ Known(s)
    /\ Go([call EXCEPT !.todo = @ \ {s},
                       !.denied = IF ChainOf(s) # <<>> THEN @ \cup {s} ELSE @])

Answer ==
    LET own == call.direct \cap scene.ofType
    IN  /\ call.pc = "placing" /\ call.todo = {}
        /\ Go(IF Root \in call.direct
              THEN IF Cardinality(call.denied) > scene.maxScopes THEN Failed("tooMany")
                   ELSE Done("all", call.denied)
              ELSE IF Cardinality(own) > scene.maxScopes THEN Failed("tooMany")
              ELSE [call EXCEPT !.pc = "exists", !.todo = call.direct, !.result = own])

\* The next subtree: is there a row of its scope?
Exists(s) ==
    /\ call.pc = "exists" /\ s \in call.todo
    /\ Go(IF s # Root /\ rows[s] = NoRow
          THEN IF call.op = "expandExcludedSubtrees" THEN Failed("resolver")
               ELSE [call EXCEPT !.todo = @ \ {s}]
          ELSE [call EXCEPT !.pc = "walk", !.at = s, !.todo = @ \ {s}])

\* The recursive query from s: the rows of each depth, down to maxNodes + 1 of them.
Below(f, s) ==
    LET depth[d \in Nat] == IF d = 1 THEN {n \in Node : f[n] = s}
                            ELSE {n \in Node : f[n] \in depth[d - 1]}
    IN  depth

RowsBelow(f, s, d) == {<<k, n>> \in (1..d) \X Node : n \in Below(f, s)[k]}

\* Bug: a row too many is not asked for, so that nobody sees that there was one.
DescendantsOfPartial(s) == RowsBelow(rows, s, scene.maxNodes)

\* All of them and at most one too many: UNION ALL, depth and LIMIT of maxNodes + 1.
DescendantsOf(s) == RowsBelow(rows, s, scene.maxNodes + 1)

Walk ==
    LET found == DescendantsOf(call.at)
        set == {e[2] : e \in found}
        more == call.result \cup {call.at} \cup set
    IN  /\ call.pc = "walk"
        /\ Go(IF Cardinality(found) > scene.maxNodes THEN Failed("tooMany")
              ELSE IF call.op = "authorizedScopes" THEN [call EXCEPT !.pc = "each", !.below = set]
              ELSE IF Cardinality(more) > scene.maxScopes THEN Failed("tooMany")
              ELSE [call EXCEPT !.pc = "exists", !.result = more])

\* Bug: a deny counts only in the scope it is of.
EachOwnDeny(s) ==
    LET chain == ChainOf(s)
    IN  /\ call.pc = "each" /\ s \in call.below /\ s \notin call.result /\ Known(s)
        /\ Go(IF call.at \notin Members(chain) THEN Failed("resolver")
              ELSE IF s \in call.denied \/ s \notin scene.ofType
              THEN [call EXCEPT !.below = @ \ {s}]
              ELSE IF Cardinality(call.result \cup {s}) > scene.maxScopes THEN Failed("tooMany")
              ELSE [call EXCEPT !.below = @ \ {s}, !.result = @ \cup {s}])

\* Each candidate is checked against its own chain: through the scope that was granted and
\* past no deny.
Each(s) ==
    LET chain == ChainOf(s)
    IN  /\ call.pc = "each" /\ s \in call.below /\ s \notin call.result /\ Known(s)
        /\ Go(IF call.at \notin Members(chain) THEN Failed("resolver")
              ELSE IF Members(chain) \cap call.denied # {} \/ s \notin scene.ofType
              THEN [call EXCEPT !.below = @ \ {s}]
              ELSE IF Cardinality(call.result \cup {s}) > scene.maxScopes THEN Failed("tooMany")
              ELSE [call EXCEPT !.below = @ \ {s}, !.result = @ \cup {s}])

NextSubtree ==
    /\ call.pc = "each" /\ call.below \subseteq call.result
    /\ Go([call EXCEPT !.pc = "exists", !.below = {}])

\* There is nothing left to expand.
Return ==
    /\ call.pc = "exists" /\ call.todo = {}
    /\ Go(Done(IF call.result = {} THEN "none" ELSE "some", call.result))

\* The scope whose chain the call needs next.
Needs(s) ==
    \/ call.pc \in {"direct", "placing"} /\ s \in call.todo
    \/ call.pc = "each" /\ s \in call.below \ call.result

-----------------------------------------------------------------------------
(* sqlScopeEdges: by pages, in the order of the uuids.                     *)

\* The rows of a page; an edge needs the row of its parent.
PageRows ==
    LET due == {n \in Node : rows[n] # NoRow /\ n > call.after}
    IN  {n \in due : Cardinality({m \in due : m < n}) < scene.page}

EdgesOf(page) == {<<n, rows[n]>> : n \in {m \in page : rows[m] = Root \/ rows[rows[m]] # NoRow}}

Page ==
    LET edges == call.result \cup EdgesOf(PageRows)
        last == CHOOSE n \in PageRows : \A m \in PageRows : m <= n
    IN  /\ call.pc = "page"
        /\ Go(IF Cardinality(PageRows) < scene.page THEN Done("some", edges)
              ELSE [call EXCEPT !.result = edges, !.after = last])

-----------------------------------------------------------------------------
Step ==
    \/ \E s \in Node : Needs(s) /\ StartClimb(s)
    \/ ClimbStep \/ Fail
    \/ ListAssignments \/ ListDenies \/ ReadDenies \/ Answer \/ Walk \/ NextSubtree \/ Return \/ Page
    \/ \E s \in Scope : Direct(s) \/ Placing(s) \/ Exists(s) \/ Each(s)

Next ==
    \/ \E n \in Node, p \in Scope \cup {NoRow} : WriteRow(n, p)
    \/ \E s \in Scope : WriteGrant(s) \/ WriteDeny(s)
    \/ \E inner \in Node, outer \in Scope : IsWithin(inner, outer)
    \/ AuthorizedScopes \/ ExpandExcludedSubtrees \/ EnumerateEdges
    \/ Step

Spec == Init /\ [][Next]_vars

-----------------------------------------------------------------------------
(* What is true of a table, by the definition of an ancestor.              *)

\* n and the scopes above it: the least set that holds n and the parent of what it holds.
Above(f, n) ==
    {t \in Scope : \A S \in SUBSET Scope :
        n \in S /\ (\A m \in S \cap Node : f[m] \in S \/ f[m] = NoRow) => t \in S}

Rooted(f, n) == Root \in Above(f, n)

Cyclic(f, n) == n \in Node /\ \E m \in Above(f, n) \cap Node :
                    f[m] \in Scope /\ m \in Above(f, f[m])

Under(f, s) == {n \in Node : n # s /\ f[n] # NoRow /\ s \in Above(f, n)}

\* The rows that a climb from n finds.
RowsUp(f, n) == {m \in Above(f, n) \cap Node : f[m] # NoRow}

\* What resolveChain has to say of n.
IsAnswer(f, n, answer) ==
    LET ups == RowsUp(f, n)
    IN  IF Cardinality(ups) > scene.maxDepth THEN answer = TooDeep
        ELSE IF Cyclic(f, n) THEN answer = Cycle
        ELSE IF ~Rooted(f, n) THEN answer = <<>>
        ELSE /\ Len(answer) = Cardinality(ups) + 1
             /\ answer[1] = n
             /\ \A i \in 1..Cardinality(ups) : f[answer[i]] = answer[i + 1]

\* authorize().
Authorized(w, s) ==
    /\ Rooted(w.rows, s)
    /\ Above(w.rows, s) \cap w.grants # {}
    /\ Above(w.rows, s) \cap w.denies = {}

Tables == {w.rows : w \in worlds}

-----------------------------------------------------------------------------
(* What the readers promise.                                               *)

TypeOK ==
    /\ rows \in Table
    /\ grants \subseteq Scope /\ denies \subseteq Scope
    /\ memo \in [Node -> Chains \cup {<<>>, Unasked}]
    /\ climb.of \in Scope /\ climb.asked \in Scope /\ climb.chain \in Chains \cup {<<>>}
    /\ call.op \in Ops \cup {"none"}
    /\ call.todo \subseteq Scope /\ call.below \subseteq Node /\ call.at \in Scope
    /\ call.denied \subseteq Scope /\ call.direct \subseteq Scope
    /\ since \subseteq Table

\* What ended a climb: the chain that the memo has now, or what was thrown.
AnswerOf(n) == IF call'.pc = "failed" THEN <<call'.kind>> ELSE memo'[n]

\* The climb reads one row after another with nothing to hold them together.  While one row
\* at most is written under it, what it answers, an error too, is the answer of one instant.
ChainTrue ==
    [][climb # NoClimb /\ climb' = NoClimb /\ call'.kind # "dependency" /\ Cardinality(since) <= 2 =>
          \E f \in since :
              IF call.op = "isWithin" /\ call'.pc = "done"
              THEN /\ Cardinality(RowsUp(f, climb.of)) <= scene.maxDepth
                   /\ (call'.result # {}) = (Rooted(f, climb.of) /\ call.at \in Above(f, climb.of))
              ELSE IsAnswer(f, climb.of, AnswerOf(climb.of))]_vars

\* The recursive query gives the whole subtree or an error, never a part of it; and an error
\* only if it is too large or has a cycle, whatever the depth and the LIMIT cut.
WalkTrue ==
    [][call.pc = "walk" /\ call'.pc # "walk" /\ call'.kind # "dependency" =>
          LET below == Under(rows, call.at) IN
          IF call'.pc = "failed"
          THEN \/ Cardinality(below) > scene.maxNodes
               \/ \E n \in below \cup {call.at} : Cyclic(rows, n)
               \/ Cardinality(call.result \cup {call.at} \cup below) > scene.maxScopes
          ELSE below \subseteq call'.below \cup call'.result /\ call'.below \subseteq below]_vars

\* What is read by pages skips no row that was there all along, however the table changes
\* between two pages ("no se salta nodos aunque el arbol cambie", sql_descendants.ts:217),
\* and every edge was there when its page was read.
EdgesTrue ==
    [][call.pc = "page" /\ call'.pc = "done" =>
          LET has(f, n, p) == f[n] = p /\ (p = Root \/ (p \in Node /\ f[p] # NoRow)) IN
          \A n \in Node, p \in Scope :
              /\ (\A f \in since : has(f, n, p)) => <<n, p>> \in call'.result
              /\ <<n, p>> \in call'.result => \E f \in since : has(f, n, p)]_vars

\* "the answer is { s | authorize(subject, permission, s) }" (README.md:351).  What is listed,
\* or not left out of `all`, was permitted at some instant of the request, if one write at
\* most came meanwhile.
ListSound ==
    [][call.op = "authorizedScopes" /\ ~Idle /\ call'.pc = "done" /\ Cardinality(worlds) <= 2 =>
          \A s \in IF call'.kind = "all"
                   THEN {t \in Scope : \A w \in worlds : /\ Rooted(w.rows, t)
                                                         /\ Above(w.rows, t) \cap call'.result = {}}
                   ELSE call'.result :
              \E w \in worlds : Authorized(w, s)]_vars

\* And nothing is missing: what was permitted all along is listed, whatever was granted and
\* denied meanwhile, while the tree stood still.
ListWhole ==
    [][call.op = "authorizedScopes" /\ ~Idle /\ call'.pc = "done" /\ Cardinality(Tables) = 1 =>
          \A s \in scene.ofType :
              (\A w \in worlds : Authorized(w, s)) =>
                  IF call'.kind = "all" THEN \A w \in worlds : Above(w.rows, s) \cap call'.result = {}
                  ELSE s \in call'.result]_vars

\* What was under an excluded scope all along is in its expansion, however the tree moves
\* between one subtree and the next: taking away half a subtree would leave the rest open.
ExcludedStayOut ==
    [][call.op = "expandExcludedSubtrees" /\ ~Idle /\ call'.pc = "done" =>
          \A s \in call.denied :
              {n \in Node : \A f \in Tables : n \in Under(f, s)} \cup {s} \subseteq call'.result]_vars

\* What is read of the tree is true of it.
ReadsTrue == []TypeOK /\ ChainTrue /\ WalkTrue /\ EdgesTrue

\* What is listed is what would be authorized.
ListsTrue == ListSound /\ ListWhole /\ ExcludedStayOut
=============================================================================
