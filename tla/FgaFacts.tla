------------------------------ MODULE FgaFacts ------------------------------
(***************************************************************************)
(* The facts in a store of OpenFGA (src/src/drivers/openfga_driver.ts).    *)
(* Clients of any process grant, deny and list; each request to the store  *)
(* is a step, and nothing holds two requests together.  One relay takes    *)
(* the changes of the consumer's tree in their order: a move writes one    *)
(* edge and then sweeps the bindings of local roles, a scope that is gone  *)
(* is purged in four phases and then cut off.  ScopeRelay has the relay's  *)
(* queue, with its leases, failures and parked entries; here it is FIFO.   *)
(***************************************************************************)
EXTENDS FgaStore, Sequences

CONSTANTS
    Client,
    Catalog,    \* Catalog[r]: the row of a role; a role with no row is retired
    FirstTree,  \* the edges <<child, parent>> at the start
    Moves,      \* the edges the consumer may choose for a scope
    Stray,      \* places that a retired role hangs from at the start
    FirstDenied,\* the denies at the start
    GrantAt,    \* bound: the places clients use
    DenyAt,     \* bound: the scopes where they deny
    Asked,      \* what grants ask for: an expiry, Forever or Omitted
    MaxTries,   \* GRANT_WRITE_ATTEMPTS
    MaxChanges, \* bound: changes of the tree
    MaxCalls,   \* bound: calls that clients begin
    MaxFails,   \* bound: times the relay fails or dies
    MaxClock    \* bound: the clock stops there

Known  == DOMAIN Catalog
Locals == {r \in Known : Catalog[r].owner # Global}

ASSUME FgaFactsAssumption ==
    /\ Root \in Scope /\ Holder # {} /\ Role # {} /\ Asked # {}
    /\ Known \subseteq Role /\ \A r \in Known : Catalog[r] \in RoleRow
    /\ FirstTree \subseteq Scope \X Scope /\ Moves \subseteq Scope \X Scope
    /\ \A d, e \in FirstTree : d[1] = e[1] => d = e
    /\ \A e \in FirstTree : Root \in Reach(FirstTree, e[1])
    /\ GrantAt \subseteq Place
    /\ Stray \subseteq Place /\ \A pl \in Stray : pl[2] \notin Known
    /\ FirstDenied \subseteq Holder \X Scope \X Perm
    /\ DenyAt \subseteq Scope
    /\ Asked \subseteq Expiry \cup {Omitted}
    /\ {MaxTries, MaxChanges, MaxCalls, MaxFails, MaxClock} \subseteq Nat

VARIABLES
    clock,
    st,         \* the store
    tree,       \* the consumer's tree: its edges
    queue,      \* the changes of the tree that the relay has to apply
    call,       \* call[c]: the call of client c
    relay,
    stale,      \* history: places hung by a grant whose checks are older than a move
    late,       \* history: holders granted or denied in a scope while it is purged
    open,       \* history: while c lists, its scope was permitted at some instant
    crossed,    \* history: after c read the denies one more landed
    left        \* what is left of each bound

vars == <<clock, st, tree, queue, call, relay, stale, late, open, crossed, left>>

Change == [op : {"moved", "detached"}, child : Scope, parent : Scope]

InGrant == {"read", "write", "reread", "blind", "cut", "put"}
InList  == {"listDenies", "listBindings", "listChain"}

\* A call: its request to come, its key (a deny and a listing use the scope), what it was
\* asked for, the expiry it writes or reports, the turn of its loop; what a listing has
\* read; and as history: whether the tree changed or another touched its key under way,
\* and whether it wrote and has not marked its failure.
Call == [pc : InGrant \cup InList \cup {"deny", "idle", "done", "failed"},
         key : Holder \X Place, asked : Asked, exp : Expiry, tries : Nat, at : Nat,
         denied : SUBSET Scope, answer : BOOLEAN,
         moved : BOOLEAN, raced : BOOLEAN, wrote : BOOLEAN]

NoCall == [pc |-> "idle", key |-> CHOOSE k \in Holder \X Place : TRUE,
           asked |-> CHOOSE a \in Asked : TRUE, exp |-> Forever, tries |-> 0, at |-> 0,
           denied |-> {}, answer |-> FALSE,
           moved |-> FALSE, raced |-> FALSE, wrote |-> FALSE]

InPurge == {"structure", "facts", "assignees", "denies", "cutDenies", "residue", "detach"}

\* The relay: its step, what the sweep will show and hide, the roles it has not read yet,
\* the keys a read of the purge found, and of the purge `progress`; as history, the places
\* whose edge the purge cut.
Relay == [pc : InPurge \cup {"idle", "edge", "sweep", "apply"},
          show : SUBSET Place, hide : SUBSET Place, todo : SUBSET Known,
          keys : SUBSET (Holder \X Place), denies : SUBSET (Holder \X Scope \X Perm),
          seen : SUBSET Place, deleted : BOOLEAN, unconfirmed : BOOLEAN,
          cut : SUBSET Place]

AtRest == [pc |-> "idle", show |-> {}, hide |-> {}, todo |-> {}, keys |-> {}, denies |-> {},
           seen |-> {}, deleted |-> FALSE, unconfirmed |-> FALSE, cut |-> {}]

\* The consumer's tree: the chain of a scope, and whether it knows the scope.
Chain(s) == Reach(tree, s)
Exists(s) == s = Root \/ \E e \in tree : e[1] = s

\* The scope is known and the role visible there, by the consumer's tree.
VisibleNow(pl) ==
    pl[2] \in Known /\ Exists(pl[1]) /\ Visible(Catalog[pl[2]], pl[1], Chain(pl[1]))

\* A deny is of a scope; the role of its key says nothing.
AnyRole == CHOOSE r \in Role : TRUE

KeyOf(c)   == call[c].key
PlaceOf(c) == call[c].key[2]
ScopeOf(c) == call[c].key[2][1]

\* The scope of the change at hand.
Child == Head(queue).child

\* The places of s that the roles of its level may have: the objects of purgeScope.
Objects(s) == {pl \in Place : pl[1] = s /\ pl[2] \in Known /\ Catalog[pl[2]].type = TypeOf(s)}

Ongoing(c) == call[c].pc \notin {"idle", "done", "failed"}

Busy == relay.pc \in InPurge

Init ==
    /\ clock = 0
    /\ st = [parent |-> FirstTree, binding |-> Stray, role |-> Stray,
             held |-> [k \in Holder \X Place |-> Absent], denied |-> FirstDenied,
             permits |-> {rp \in Role \X Perm : rp[1] \in Known /\ rp[2] \in Catalog[rp[1]].perms},
             rooted |-> TRUE]
    /\ tree = FirstTree
    /\ queue = <<>>
    /\ call = [c \in Client |-> NoCall]
    /\ relay = AtRest
    /\ stale = {} /\ late = {}
    /\ open = [c \in Client |-> FALSE] /\ crossed = [c \in Client |-> FALSE]
    /\ left = [changes |-> MaxChanges, calls |-> MaxCalls, fails |-> MaxFails]

-----------------------------------------------------------------------------
(* The consumer: its transaction changes the tree and enqueues the change. *)

Consume(edges, change) ==
    /\ left.changes > 0
    /\ tree' = {e \in tree : e[1] # change.child} \cup edges
    /\ queue' = Append(queue, change)
    /\ left' = [left EXCEPT !.changes = @ - 1]
    /\ call' = [c \in Client |-> IF Ongoing(c) THEN [call[c] EXCEPT !.moved = TRUE] ELSE call[c]]
    /\ UNCHANGED <<clock, st, relay, stale, late>>

\* The consumer keeps its tree a tree.
Move(s, p) ==
    /\ <<s, p>> \in Moves \ tree /\ Exists(s) /\ Exists(p) /\ s \notin Chain(p)
    /\ Consume({<<s, p>>}, [op |-> "moved", child |-> s, parent |-> p])

\* Leaves first, and not while a change that hangs something there is under way.
Detach(s) ==
    /\ s # Root /\ Exists(s)
    /\ ~\E e \in tree : e[2] = s
    /\ ~\E i \in DOMAIN queue : queue[i].parent = s
    /\ Consume({}, [op |-> "detached", child |-> s, parent |-> Root])

-----------------------------------------------------------------------------
(* Calls begin and end.                                                    *)

Begin(c, new) ==
    /\ ~Ongoing(c) /\ left.calls > 0
    /\ left' = [left EXCEPT !.calls = @ - 1]
    /\ call' = [call EXCEPT ![c] = new]
    /\ UNCHANGED <<clock, st, tree, queue, relay, stale, late>>

StartGrant(c, k, asked) ==
    /\ VisibleNow(k[2])
    /\ Begin(c, [NoCall EXCEPT !.pc = "read", !.key = k, !.asked = asked])

StartDeny(c, k) ==
    /\ Exists(k[2][1])
    /\ Begin(c, [NoCall EXCEPT !.pc = "deny", !.key = k])

\* listScopes takes the instant it compares expiries with before it reads anything.
StartList(c, k) == Begin(c, [NoCall EXCEPT !.pc = "listDenies", !.key = k, !.at = clock])

Goto(c, pc) == call' = [call EXCEPT ![c].pc = pc]

\* How a call ends: what a grant reports, what a listing answers; or a failure, marked as
\* partial or not.
Returned(e, answer) == [NoCall EXCEPT !.pc = "done", !.exp = e, !.answer = answer]
Failed(c, marked) == [NoCall EXCEPT !.pc = "failed", !.wrote = call[c].wrote /\ ~marked]

OnlyCall == UNCHANGED <<clock, st, tree, queue, relay, stale, late, left>>

\* A request is refused, or its deadline passes, and it did not land.  What fails after
\* replaceAssignment has deleted is marked (markPartialWrite).
GiveUp(c) ==
    /\ call[c].pc \in InGrant \cup InList \cup {"deny"}
    /\ call' = [call EXCEPT ![c] = Failed(c, call[c].pc = "put")]
    /\ OnlyCall

\* The calls under way on this key are raced by a change of it.
Raced(d, k, changed) ==
    IF Ongoing(d) /\ KeyOf(d) = k THEN [call[d] EXCEPT !.raced = @ \/ changed] ELSE call[d]

\* The request of c makes the store `new`, and the call goes on as `next`; or its answer is
\* lost, and the caller is told that it may have landed (indeterminate).
Land(c, new, next) ==
    /\ st' = new
    /\ \E to \in {next, NoCall} :
          call' = [d \in Client |-> IF d = c THEN to ELSE Raced(d, KeyOf(c), new # st)]
    /\ stale' = IF call[c].moved THEN stale \cup (new.binding \ st.binding) ELSE stale
    /\ late' = IF Busy /\ ScopeOf(c) = Child THEN late \cup {KeyOf(c)[1]} ELSE late
    /\ UNCHANGED <<clock, tree, queue, relay, left>>

-----------------------------------------------------------------------------
(* grant().                                                                *)

\* The assignment is there: nothing to do, or replace it.
Renew(c) ==
    LET previous == st.held[KeyOf(c)]
        e == Resolve(previous, call[c].asked, clock)
    IN  call' = [call EXCEPT ![c] = IF e = previous THEN Returned(e, FALSE)
                                    ELSE [@ EXCEPT !.pc = "cut", !.exp = e]]

\* readAssignment; if it fails, only a grant that names its expiry goes on.
Read(c) ==
    /\ call[c].pc \in {"read", "reread"}
    /\ \/ /\ st.held[KeyOf(c)] = Absent
          /\ call' = [call EXCEPT ![c].pc = "write", ![c].exp = Fresh(call[c].asked)]
       \/ st.held[KeyOf(c)] # Absent /\ Renew(c)
       \/ /\ call[c].asked # Omitted
          /\ call' = [call EXCEPT ![c].pc = "blind", ![c].exp = call[c].asked]
    /\ OnlyCall

\* Structure and assignment in one request, strict the first time.  A 409 names no
\* tuple: it may be any of the three, or none.
Write(c) ==
    /\ call[c].pc = "write"
    /\ \/ /\ call[c].tries > 0 \/ ~Clashes(st, KeyOf(c))
          /\ Land(c, Assign(st, KeyOf(c), call[c].exp), Returned(call[c].exp, FALSE))
       \/ /\ call' = [call EXCEPT ![c] = IF call[c].tries + 1 >= MaxTries THEN Failed(c, FALSE)
                                          ELSE [call[c] EXCEPT !.pc = "reread", !.tries = @ + 1]]
          /\ OnlyCall

\* writeAssignment, after a read that failed: strict, and what is there is replaced.
BlindWrite(c) ==
    /\ call[c].pc = "blind"
    /\ \/ ~Clashes(st, KeyOf(c)) /\ Land(c, Assign(st, KeyOf(c), call[c].exp), Returned(call[c].exp, FALSE))
       \/ Clashes(st, KeyOf(c)) /\ Goto(c, "cut") /\ OnlyCall

\* replaceAssignment: a condition is no part of the key, so delete and then write.
ReplaceDelete(c) ==
    /\ call[c].pc = "cut"
    /\ Land(c, Unassign(st, {KeyOf(c)}),
            [call[c] EXCEPT !.pc = "put", !.wrote = st.held[KeyOf(c)] # Absent])

ReplaceWrite(c) ==
    /\ call[c].pc = "put"
    /\ Land(c, Assign(st, KeyOf(c), call[c].exp), Returned(call[c].exp, FALSE))

-----------------------------------------------------------------------------
(* The rest of the writes, one request each, and listScopes.               *)

Deny(c) ==
    /\ call[c].pc = "deny"
    /\ \E p \in Perm :
          Land(c, [st EXCEPT !.denied = @ \cup {<<KeyOf(c)[1], ScopeOf(c), p>>}],
               Returned(Forever, FALSE))

\* Neither asks whether the scope is known: what is not reachable can be taken away.
TakeAway(k, new) ==
    /\ new # st
    /\ st' = new
    /\ call' = [d \in Client |-> Raced(d, k, TRUE)]
    /\ late' = IF Busy /\ k[2][1] = Child THEN late \cup {k[1]} ELSE late
    /\ UNCHANGED <<clock, tree, queue, relay, stale, left>>

Revoke(k) == TakeAway(k, Unassign(st, {k}))

RemoveDeny(k) ==
    TakeAway(k, [st EXCEPT !.denied = {d \in @ : ~(d[1] = k[1] /\ d[2] = k[2][1])}])

\* listScopes, for one binding: the denies of the holder, its assignments, and then the
\* chain of the scope, by the consumer's tree.
ListDenies(c) ==
    /\ call[c].pc = "listDenies"
    /\ call' = [call EXCEPT ![c].pc = "listBindings",
                            ![c].denied = {d[2] : d \in {x \in st.denied : x[1] = KeyOf(c)[1]}}]
    /\ OnlyCall

ListBindings(c) ==
    LET e == st.held[KeyOf(c)]
        granting == PlaceOf(c)[2] \in Known /\ Catalog[PlaceOf(c)[2]].perms # {}
    IN  /\ call[c].pc = "listBindings"
        /\ call' = [call EXCEPT ![c] = IF granting /\ e # Absent /\ Live(e, call[c].at)
                                       THEN [@ EXCEPT !.pc = "listChain"]
                                       ELSE Returned(Forever, FALSE)]
        /\ OnlyCall

\* Bug: a deny counts only in the scope that is listed.
ListChainOwn(c) ==
    /\ call[c].pc = "listChain"
    /\ call' = [call EXCEPT ![c] = Returned(Forever,
                   /\ VisibleNow(PlaceOf(c))
                   /\ ScopeOf(c) \notin call[c].denied)]
    /\ OnlyCall

ListChain(c) ==
    /\ call[c].pc = "listChain"
    /\ call' = [call EXCEPT ![c] = Returned(Forever,
                   /\ VisibleNow(PlaceOf(c))
                   /\ Chain(ScopeOf(c)) \cap call[c].denied = {})]
    /\ OnlyCall

-----------------------------------------------------------------------------
(* The relay: a move.                                                      *)

Work(new, r) ==
    /\ st' = new
    /\ relay' = r
    /\ call' = [d \in Client |-> Raced(d, KeyOf(d), new.held # st.held)]
    /\ UNCHANGED <<clock, tree, left>>

Think(r) == Work(st, r) /\ UNCHANGED <<queue, stale, late>>

Finish(new) ==
    /\ Work(new, AtRest)
    /\ queue' = Tail(queue)
    /\ late' = {}
    /\ UNCHANGED stale

\* With no local role there is nothing to sweep.
AfterEdge == IF Locals = {} THEN "apply" ELSE "sweep"

\* Bug: an edge that is there already needs no sweep.
TakeMoveOnce ==
    /\ relay = AtRest /\ queue # <<>> /\ Head(queue).op = "moved"
    /\ IF Parents(st, Child) = {Head(queue).parent} THEN Finish(st)
       ELSE Think([AtRest EXCEPT !.pc = "edge", !.todo = Locals])

\* reparent: read the parents of the child.  If the edge is there, a pass that wrote it may
\* have died before its sweep.
TakeMove ==
    /\ relay = AtRest /\ queue # <<>> /\ Head(queue).op = "moved"
    /\ Cardinality(Parents(st, Child)) <= 1
    /\ Child \notin Up(st, Head(queue).parent)
    /\ Think([AtRest EXCEPT !.pc = IF Parents(st, Child) = {Head(queue).parent}
                                   THEN AfterEdge ELSE "edge", !.todo = Locals])

WriteEdge ==
    /\ relay.pc = "edge"
    /\ Work(Reparent(st, Child, {Head(queue).parent}), [relay EXCEPT !.pc = AfterEdge])
    /\ UNCHANGED <<queue, stale, late>>

\* Bug: only the bindings of the scope that moved are looked at.
SubtreeOwn == {Child}

\* The scopes whose chain the move has changed.
Subtree == {s \in Scope : Child \in Up(st, s)}

\* The bindings of one local role, by their #role, told apart by the chains of the store.
SweepRead(r) ==
    LET hung == {pl \in st.role : pl[2] = r /\ pl[1] \in Subtree}
        seen == {pl \in hung : Visible(Catalog[r], pl[1], Up(st, pl[1]))}
    IN  /\ relay.pc = "sweep" /\ r \in relay.todo
        /\ Think([relay EXCEPT !.todo = @ \ {r}, !.show = @ \cup seen, !.hide = @ \cup (hung \ seen),
                               !.pc = IF relay.todo = {r} THEN "apply" ELSE "sweep"])

\* Only the edge scope#binding comes and goes.
SweepApply ==
    /\ relay.pc = "apply"
    /\ Work([st EXCEPT !.binding = (@ \ relay.hide) \cup relay.show], AtRest)
    /\ queue' = Tail(queue)
    /\ stale' = stale \ relay.hide
    /\ UNCHANGED late

-----------------------------------------------------------------------------
(* The relay: purgeScope, and then onScopeDetached.                        *)

Hung(s) == {pl \in st.binding : pl[1] = s}

\* Bug: the denies first, and then the structure.
PurgeDeniesFirst ==
    /\ relay = AtRest /\ queue # <<>> /\ Head(queue).op = "detached"
    /\ Work([st EXCEPT !.denied = {d \in @ : d[2] # Child}],
            [AtRest EXCEPT !.pc = "structure", !.seen = Hung(Child),
                           !.todo = {pl[2] : pl \in Objects(Child)}])
    /\ late' = {}
    /\ UNCHANGED <<queue, stale>>

\* visible: which bindings the scope has before anything is deleted.
TakeDetached ==
    /\ relay = AtRest /\ queue # <<>> /\ Head(queue).op = "detached"
    /\ Work(st, [AtRest EXCEPT !.pc = "structure", !.seen = Hung(Child),
                               !.todo = {pl[2] : pl \in Objects(Child)}])
    /\ late' = {}
    /\ UNCHANGED <<queue, stale>>

\* Bug: only what the read saw counts.
PurgeStructureCounted ==
    /\ relay.pc = "structure"
    /\ Work(CutStructure(st, Objects(Child)),
            [relay EXCEPT !.pc = "facts", !.cut = Hung(Child) \cap Objects(Child),
                          !.deleted = relay.seen \cap Objects(Child) # {}, !.seen = {}])
    /\ UNCHANGED <<queue, stale, late>>

\* Phase 1: blind; what the read did not see may have landed since.
PurgeStructure ==
    /\ relay.pc = "structure"
    /\ Work(CutStructure(st, Objects(Child)),
            [relay EXCEPT !.pc = "facts", !.cut = Hung(Child) \cap Objects(Child),
                          !.deleted = relay.seen \cap Objects(Child) # {},
                          !.unconfirmed = ~(Objects(Child) \subseteq relay.seen), !.seen = {}])
    /\ UNCHANGED <<queue, stale, late>>

\* Phase 2: each object is read again and its assignees deleted, expired ones too.
PurgeReadFacts(r) ==
    /\ relay.pc = "facts" /\ r \in relay.todo
    /\ Think([relay EXCEPT !.pc = "assignees", !.todo = @ \ {r},
                           !.keys = {k \in Holder \X {<<Child, r>>} : st.held[k] # Absent}])

PurgeFacts ==
    /\ relay.pc = "assignees"
    /\ Work(Unassign(st, relay.keys),
            [relay EXCEPT !.pc = "facts", !.keys = {}, !.deleted = @ \/ relay.keys # {}])
    /\ UNCHANGED <<queue, stale, late>>

\* Phase 3: the edges of roles that the catalog does not declare at this level.
PurgeStrays ==
    LET strays == Hung(Child) \ Objects(Child)
    IN  /\ relay.pc = "facts" /\ relay.todo = {}
        /\ Work([st EXCEPT !.binding = @ \ strays],
                [relay EXCEPT !.pc = "denies", !.unconfirmed = FALSE, !.cut = @ \cup strays,
                              !.deleted = @ \/ strays # {}])
        /\ UNCHANGED <<queue, stale, late>>

PurgeReadDenies ==
    /\ relay.pc = "denies"
    /\ Think([relay EXCEPT !.pc = "cutDenies", !.denies = {d \in st.denied : d[2] = Child}])

\* Phase 4: the denies, last.
PurgeDenies ==
    /\ relay.pc = "cutDenies"
    /\ Work([st EXCEPT !.denied = @ \ relay.denies],
            [relay EXCEPT !.pc = "residue", !.denies = {}, !.deleted = @ \/ relay.denies # {}])
    /\ UNCHANGED <<queue, stale, late>>

\* The demonstration of zero.  The scope's own object is read last, and no assignment
\* lands without an edge there: one instant stands for all its reads.
PurgeResidue ==
    LET residue == \/ Hung(Child) # {}
                   \/ \E d \in st.denied : d[2] = Child
                   \/ \E pl \in Objects(Child) : pl \in st.role
                   \/ \E h \in Holder, pl \in Objects(Child) : st.held[<<h, pl>>] # Absent
    IN  /\ relay.pc = "residue"
        /\ Think(IF residue THEN AtRest ELSE [relay EXCEPT !.pc = "detach"])

CutEdge ==
    /\ relay.pc = "detach"
    /\ Finish(Reparent(st, Child, {}))

\* A request of the relay fails or the pass dies: the change stays in the queue.
RelayFail ==
    /\ relay # AtRest /\ left.fails > 0
    /\ relay' = AtRest
    /\ left' = [left EXCEPT !.fails = @ - 1]
    /\ UNCHANGED <<clock, st, tree, queue, call, stale, late>>

-----------------------------------------------------------------------------
Tick ==
    /\ clock < MaxClock
    /\ clock' = clock + 1
    /\ UNCHANGED <<st, tree, queue, call, relay, stale, late, left>>

Start(c) ==
    \/ \E h \in Holder, pl \in GrantAt :
          \/ \E asked \in Asked : StartGrant(c, <<h, pl>>, asked)
          \/ StartList(c, <<h, pl>>)
    \/ \E h \in Holder, s \in DenyAt : StartDeny(c, <<h, <<s, AnyRole>>>>)

Client1(c) ==
    \/ Start(c)
    \/ Read(c) \/ Write(c) \/ BlindWrite(c) \/ ReplaceDelete(c) \/ ReplaceWrite(c)
    \/ Deny(c) \/ ListDenies(c) \/ ListBindings(c) \/ ListChain(c)
    \/ GiveUp(c)

RelayWork ==
    \/ TakeMove \/ WriteEdge \/ (\E r \in Locals : SweepRead(r)) \/ SweepApply
    \/ TakeDetached \/ PurgeStructure \/ (\E r \in Known : PurgeReadFacts(r)) \/ PurgeFacts
    \/ PurgeStrays \/ PurgeReadDenies \/ PurgeDenies \/ PurgeResidue \/ CutEdge

\* What a listing of the key of c would say of everything at this instant.
Permitted(c) ==
    /\ st.held[KeyOf(c)] # Absent /\ Live(st.held[KeyOf(c)], call[c].at)
    /\ VisibleNow(PlaceOf(c))
    /\ ~\E d \in st.denied : d[1] = KeyOf(c)[1] /\ d[2] \in Chain(ScopeOf(c))

Remember ==
    /\ open' = [c \in Client |-> call[c].pc \in InList /\ (open[c] \/ Permitted(c))]
    /\ crossed' = [c \in Client |-> call[c].pc \in InList \ {"listDenies"}
                                     /\ (crossed[c] \/ ~(st'.denied \subseteq st.denied))]

Step ==
    \/ \E s, p \in Scope : Move(s, p)
    \/ \E s \in Scope : Detach(s)
    \/ \E c \in Client : Client1(c)
    \/ \E k \in Holder \X GrantAt : Revoke(k)
    \/ \E d \in st.denied : RemoveDeny(<<d[1], <<d[2], AnyRole>>>>)
    \/ RelayWork \/ RelayFail
    \/ Tick

Next == Step /\ Remember

Spec == Init /\ [][Next]_vars

-----------------------------------------------------------------------------
(* What the driver promises.                                               *)

\* Nothing is under way and the relay has caught up.
Settled == queue = <<>> /\ \A c \in Client : ~Ongoing(c)

TypeOK ==
    /\ clock \in Nat
    /\ st \in Store
    /\ tree \subseteq Scope \X Scope
    /\ queue \in Seq(Change)
    /\ call \in [Client -> Call]
    /\ relay \in Relay
    /\ stale \subseteq Place /\ late \subseteq Holder
    /\ open \in [Client -> BOOLEAN] /\ crossed \in [Client -> BOOLEAN]
    /\ left \in [{"changes", "calls", "fails"} -> Nat]

\* "que NINGUN hueco deje una asignacion que listRoles/hasRole ven y authorize no honra"
\* (openfga_driver.ts:2125): once all is quiet, an assignment of a role that is visible
\* in its scope has its edges, whatever sweeps and purges, failed ones too, ran with it.
NothingInert ==
    Settled => \A k \in Holder \X Place :
        st.held[k] # Absent /\ VisibleNow(k[2]) => k[2] \in st.role \cap st.binding

\* A local role stops granting where a move takes its owner out of the chain (invariant
\* 18), in the whole subtree and also when the pass that moved it died half way.  What
\* may still grant was hung by a grant whose check is older than the move.
OnlyStaleGrantsReach ==
    Settled => \A pl \in st.binding :
        pl[2] \in Known /\ Exists(pl[1]) => VisibleNow(pl) \/ pl \in stale

\* At every instant, in the middle of a move too, a scope of the store has one parent at
\* most and the scopes that the consumer has hang from the root; once quiet the two trees
\* are one.
TreeWhole ==
    /\ \A s \in Scope : Cardinality(Parents(st, s)) <= 1
    /\ \A s \in Scope : Exists(s) => Rooted(st, s)
    /\ Settled => st.parent = tree

\* A grant that nobody raced on its holder, role and scope reports the expiry that the
\* store has: a renewal replaces the condition and never leaves the old one.
OutcomeTrue ==
    [][\A c \in Client : call[c].pc \in InGrant /\ call'[c].pc = "done" /\ ~call[c].raced
          => st'.held[KeyOf(c)] = call'[c].exp]_vars

\* A write that fails and is not marked as partial left nothing behind: a call has written
\* nothing, and a purge has cut off no assignment that is still there ("preferir
\* sobre-notificar a sub-notificar", openfga_driver.ts:2115).
UnmarkedWroteNothing ==
    [][/\ \A c \in Client : Ongoing(c) /\ call'[c].pc = "failed" => ~call'[c].wrote
       /\ relay.pc \in InPurge /\ relay' = AtRest /\ queue' = queue
             /\ ~relay.deleted /\ ~relay.unconfirmed
          => \A h \in Holder, pl \in relay.cut : st.held[<<h, pl>>] # Absent => pl \in st.binding]_vars

\* What the facts of s alone say yes to.
OwnYes(x, s, now) ==
    {hp \in Holder \X Perm :
        /\ \E pl \in x.binding : pl[1] = s /\ Carries(x, hp[1], hp[2], pl, now)
        /\ <<hp[1], s, hp[2]>> \notin x.denied}

\* A purge, at whatever step it dies, gives nobody a permission by the facts of the scope
\* it is taking away: denies go last, and once they go nobody's write opens anything either.
\* Only one who is granted there meanwhile gains any.  Before that a late grant may hang a
\* binding again with whom it still has, and his denies.
PurgeNeverOpens ==
    [][relay'.pc \in InPurge /\ (relay' # relay \/ relay.pc \in {"denies", "cutDenies", "residue", "detach"}) =>
          \A hp \in OwnYes(st', Child, clock') \ OwnYes(st, Child, clock) : hp[1] \in late']_vars

\* listScopes reads denies, assignments and chains one after the other.  What it lists was
\* permitted at some instant, as of the time it began, unless the tree moved under it or a
\* deny landed after it had read the denies.
ListedHeld ==
    [][\A c \in Client : call[c].pc = "listChain" /\ call'[c].pc = "done" /\ call'[c].answer
          => open'[c] \/ crossed'[c] \/ call[c].moved]_vars

\* A purge finds a residue only if somebody wrote in the scope meanwhile: what hangs from a
\* retired role does not hold up the detachment of a scope for ever (openfga_driver.ts:2179).
PurgeIncompleteMeansRaced ==
    [][relay.pc = "residue" /\ relay' = AtRest /\ left' = left => late # {}]_vars

\* The store is whole: of its type, with one tree, and no assignment without its edges.
StoreWhole == TypeOK /\ TreeWhole /\ NothingInert

\* What a call or a pass tells its caller is true, of what it wrote and of what it did not.
WritesTellTrue == OutcomeTrue /\ UnmarkedWroteNothing

\* A purge is safe wherever it dies, and fails only for a reason.
PurgeSafe == PurgeNeverOpens /\ PurgeIncompleteMeansRaced
=============================================================================
