----------------------------- MODULE ScopeRelay -----------------------------
(***************************************************************************)
(* The outbox of the tree of scopes and the relay that drains it (src/src/ *)
(* scope_outbox.ts, src/src/manager.ts).  The consumer notifies a change   *)
(* of its tree inside its own transaction: the change commits with it as   *)
(* an entry of a queue.  A pass of the relay takes a lease, reads pending  *)
(* entries in order of id and applies each to the backend, which keeps a   *)
(* tree of its own.  An entry that fails too often is parked; an operator  *)
(* may return it to the queue.                                             *)
(*                                                                         *)
(* Every read and write of the queue, the lease and the backend is a step  *)
(* of its own; passes, operators and transactions interleave between them. *)
(* The backend has no compare-and-set: an edge is checked against the tree *)
(* of the consumer, read, checked against the chain above it, read hop by  *)
(* hop, and replaced by a strict Write, in as many requests.               *)
(***************************************************************************)
EXTENDS Integers, Sequences, FiniteSets

CONSTANTS
    Scope,          \* scopes of the consumer
    Root,           \* the scope `app`
    NoScope,        \* where a scope that is in no tree hangs
    FirstTree,      \* the tree of the consumer and of the backend at the start
    Relay,          \* processes that run passes
    NoRelay,
    BatchSize,      \* entries read at a time
    Plans,          \* what is deployed: who relays, after how many failures an entry is parked,
                    \* whether transactions that notify overlap, how the operator requeues,
                    \* whether the connection of a lease may drop, whether a pass may be
                    \* asked for several entries, whether a Write may outlive its caller
    TreeWriteAttempts,  \* times a Write that met another writer's is tried
    MaxEntry        \* bound: notifications

\* The edges of a tree: the parents of every scope, which has one or none.
Edges(f) == [s \in Scope |-> {f[s]} \ {NoScope}]

\* No scope is above itself: no set of scopes hangs from within.
Acyclic(edges) == \A C \in SUBSET Scope : (\A s \in C : edges[s] \cap C # {}) => C = {}

\* No scope has two parents.
OneParent(parents) == \A p, q \in parents : p = q

ASSUME RelayAssumption ==
    /\ Root \notin Scope /\ NoScope \notin Scope /\ Root # NoScope
    /\ FirstTree \in [Scope -> Scope \cup {Root, NoScope}]
    /\ Acyclic(Edges(FirstTree))
    /\ NoRelay \notin Relay
    /\ BatchSize \in Nat \ {0}
    /\ TreeWriteAttempts \in Nat \ {0}
    /\ MaxEntry \in Nat
    /\ \A d \in Plans :
          /\ d.relays \subseteq Relay /\ d.attempts \in Nat \ {0}
          /\ {d.overlap, d.plain, d.apply, d.drops, d.several, d.late} \subseteq BOOLEAN
          /\ d.entries \in 0..MaxEntry /\ d.faults \in Nat

VARIABLES
    tree,       \* tree[s]: the parent of s in the database of the consumer
    queue,      \* queue[i]: the entry with id i
    store,      \* store[s]: the parents of s in the backend
    written,    \* history: the entry that last wrote the edge of s in the backend, or found it
    edge,       \* edge[r]: how far r has come with the edge of its entry, and what it read
    late,       \* Writes whose callers are gone: they may yet land
    lease,      \* who holds the lease of the relay
    pass,       \* pass[r]: the pass that r runs
    ticket,     \* the entry a requeue without { apply } has probed, or 0
    faults,     \* bound: how many crashes, freezes, 503s and requeues are left
    plan        \* the one of Plans that is deployed

vars == <<tree, queue, store, written, edge, late, lease, pass, ticket, faults, plan>>

Node == Scope \cup {Root, NoScope}

\* A row of authz_scope_outbox.  "open" is a row whose transaction has not ended.
Entry ==
    {e \in [op : {"attached", "moved", "detached"}, child : Scope, parent : Node,
            attempts : 0..plan.attempts, state : {"open", "void", "queued", "applied"}] :
        e.op = "detached" <=> e.parent = NoScope}

Ids == 1..Len(queue)

Pending(i) == queue[i].state = "queued" /\ queue[i].attempts < plan.attempts
Dead(i)    == queue[i].state = "queued" /\ queue[i].attempts >= plan.attempts

\* The scopes a change names; the root is no key.
Keys(i) == IF queue[i].op = "detached" THEN {queue[i].child}
           ELSE {queue[i].child, queue[i].parent} \ {Root}

Touch(i, j) == Keys(i) \cap Keys(j) # {}

Origin == {"none", "parked", "pending", "failed"}

\* Precedence of the reasons that block a key: failed > pending > parked.
Rank(o) == CASE o = "none" -> 0 [] o = "parked" -> 1 [] o = "pending" -> 2 [] o = "failed" -> 3

\* A pass: what it was asked for ({}: everything), the keys of what was parked
\* when it read the census, the keys it has blocked, and its place in the queue.
Pass == [pc : {"idle", "lease", "probe", "page", "item", "apply", "mark"},
         only : SUBSET (1..MaxEntry), parked : SUBSET Scope, blocked : [Scope -> Origin],
         after : 0..MaxEntry, batch : SUBSET (1..MaxEntry)]
Idle == [pc |-> "idle", only |-> {}, parked |-> {}, blocked |-> [s \in Scope |-> "none"],
         after |-> 0, batch |-> {}]

\* Where reparent() is: the edges it read of the scope, the chain it has climbed above
\* the new parent and its top, and how often its Write was in conflict.
Parents == Scope \cup {Root}
EdgeWork == [at : {"check", "read", "climb", "write"}, current : SUBSET Parents,
             chain : SUBSET Parents, top : Parents, tries : 0..(TreeWriteAttempts - 1)]
Unread(at, tries) ==
    [at |-> at, current |-> {}, chain |-> {}, top |-> Root, tries |-> tries]

\* A Write: the edge of its entry in, the ones that were read out.
Write == [entry : Ids, gone : SUBSET Parents]

Init ==
    /\ tree = FirstTree
    /\ queue = <<>>
    /\ store = Edges(FirstTree)
    /\ edge = [r \in Relay |-> Unread("check", 0)]
    /\ late = {}
    /\ written = [s \in Scope |-> 0]
    /\ lease = NoRelay
    /\ pass = [r \in Relay |-> Idle]
    /\ ticket = 0
    /\ plan \in Plans
    /\ faults = plan.faults

\* Whatever fails from outside: counted, so that it stops.
Fault == faults > 0 /\ faults' = faults - 1

-----------------------------------------------------------------------------
(* Trees.                                                                  *)

\* n and everything above it: what no set that is closed under f can leave out.
Chain(f, n) ==
    LET closed == {S \in SUBSET Node : n \in S /\ \A s \in S \cap Scope : f[s] \in S}
    IN  {t \in Node : \A S \in closed : t \in S}

Exists(f, n) == Root \in Chain(f, n)

\* What #assertEdge of the manager and assertEdge of the driver check.
EdgeIsLegal(f, child, parent) ==
    LET above == Chain(f, parent)
    IN  Root \in above /\ child \notin above

-----------------------------------------------------------------------------
(* The consumer: a transaction that notifies one change and then writes    *)
(* the row, as the README shows.                                           *)

Notify(op, child, parent) ==
    /\ Len(queue) < plan.entries
    /\ plan.overlap \/ \A i \in Ids : queue[i].state # "open"
    /\ CASE op = "attached" -> tree[child] = NoScope /\ EdgeIsLegal(tree, child, parent)
         [] op = "moved"    -> tree[child] # NoScope /\ EdgeIsLegal(tree, child, parent)
         [] op = "detached" -> tree[child] # NoScope /\ parent = NoScope
    /\ queue' = Append(queue, [op |-> op, child |-> child, parent |-> parent, attempts |-> 0,
                               state |-> "open"])
    /\ UNCHANGED <<tree, store, written, lease, pass, ticket, faults>>

\* The consumer keeps its tree a tree: no cycles, no children of what is gone.
Commit(i) ==
    /\ queue[i].state = "open"
    /\ tree' = [tree EXCEPT ![queue[i].child] = queue[i].parent]
    /\ \A s \in Scope : tree'[s] # NoScope => Exists(tree', s)
    /\ queue' = [queue EXCEPT ![i].state = "queued"]
    /\ UNCHANGED <<store, written, lease, pass, ticket, faults>>

Rollback(i) ==
    /\ queue[i].state = "open"
    /\ queue' = [queue EXCEPT ![i].state = "void"]
    /\ UNCHANGED <<tree, store, written, lease, pass, ticket, faults>>

-----------------------------------------------------------------------------
(* A pass: relayScopeChanges().                                            *)

\* #parkedKeys: a parked entry plugs the key of its child.
ParkedKeys == {queue[i].child : i \in {j \in Ids : Dead(j)}}

\* The census of what is parked is read before the lease is asked for.
StartPass(r, only) ==
    /\ pass[r].pc = "idle"
    /\ pass' = [pass EXCEPT ![r] = [Idle EXCEPT !.pc = "lease", !.only = only,
                                                !.parked = ParkedKeys]]
    /\ UNCHANGED <<tree, queue, store, written, lease, ticket, faults>>

\* Bug: the outcome of acquire() is not looked at.
TakeLeaseAnyway(r) ==
    /\ pass[r].pc = "lease"
    /\ lease' = r
    /\ pass' = [pass EXCEPT ![r].pc = "page"]
    /\ UNCHANGED <<tree, queue, store, written, ticket, faults>>

TakeLease(r) ==
    /\ pass[r].pc = "lease"
    /\ lease = NoRelay
    /\ lease' = r
    /\ pass' = [pass EXCEPT ![r].pc = "page"]
    /\ UNCHANGED <<tree, queue, store, written, ticket, faults>>

Busy(r) ==
    /\ pass[r].pc = "lease"
    /\ lease # NoRelay
    /\ pass' = [pass EXCEPT ![r] = Idle]
    /\ UNCHANGED <<tree, queue, store, written, lease, ticket, faults>>

\* pending(limit, after, { ids }): the oldest BatchSize of what is due.
Due(r) == {i \in Ids : /\ Pending(i)
                       /\ i > pass[r].after
                       /\ pass[r].only = {} \/ i \in pass[r].only}

IsBatch(r, batch) ==
    /\ \A i \in batch, j \in Due(r) \ batch : i < j
    /\ Cardinality(batch) <= BatchSize
    /\ batch = Due(r) \/ Cardinality(batch) = BatchSize

\* Bug: nobody lets go of the lease.
ReleasedNever(r) == lease

\* release(): a pass lets go of the lease it took, if it still has it.
Released(r) == IF lease = r THEN NoRelay ELSE lease

Page(r) ==
    /\ pass[r].pc = "page"
    /\ IF Due(r) = {}
       THEN /\ pass' = [pass EXCEPT ![r] = Idle]
            /\ lease' = Released(r)
       ELSE /\ \E batch \in SUBSET Due(r) :
                  /\ IsBatch(r, batch)
                  /\ pass' = [pass EXCEPT ![r].pc = "item", ![r].batch = batch]
            /\ UNCHANGED lease
    /\ UNCHANGED <<tree, queue, store, written, ticket, faults>>

\* The entry at hand.
At(r) == CHOOSE i \in pass[r].batch : \A j \in pass[r].batch : i <= j

\* The pass of r after its entry: `blocked` is what is blocked by then.
Advanced(r, blocked) ==
    [pass[r] EXCEPT !.pc = IF pass[r].batch = {At(r)} THEN "page" ELSE "item",
                    !.after = At(r), !.batch = @ \ {At(r)}, !.blocked = blocked]

\* Bug: what failed or was deferred blocks nothing.
BlockNothing(r, origin) == pass[r].blocked

\* block(): a key keeps the worst reason it was blocked for.
Block(r, origin) ==
    [s \in Scope |-> IF s \in Keys(At(r)) /\ Rank(origin) > Rank(pass[r].blocked[s])
                     THEN origin ELSE pass[r].blocked[s]]

\* A purge is held back by everything but a parked entry.
Collides(r, key) ==
    /\ pass[r].blocked[key] # "none"
    /\ ~(queue[At(r)].op = "detached" /\ pass[r].blocked[key] = "parked")

\* Bug: the probe asks for the child of the entry only.
EarlierOfChild(i) ==
    LET before == {j \in Ids : j < i /\ Pending(j) /\ queue[i].child \in Keys(j)}
    IN  IF before = {} THEN 0 ELSE CHOOSE j \in before : \A k \in before : j <= k

\* earlierPending(): the oldest entry before i that names a scope of i, or 0.
Earlier(i) ==
    LET before == {j \in Ids : j < i /\ Pending(j) /\ Touch(i, j)}
    IN  IF before = {} THEN 0 ELSE CHOOSE j \in before : \A k \in before : j <= k

\* #blockOriginOf(): why an entry that was not asked for would wait.
OriginOf(r, i) ==
    LET hit(j, o) == \E k \in Keys(j) : pass[r].blocked[k] = o
        of[j \in Ids] ==
            IF hit(j, "failed") THEN "failed"
            ELSE IF hit(j, "pending") THEN "pending"
            ELSE IF queue[j].op # "detached" /\ (hit(j, "parked") \/ Keys(j) \cap pass[r].parked # {})
                 THEN "parked"
            ELSE IF Earlier(j) = 0 THEN "pending"
            ELSE of[Earlier(j)]
    IN  of[i]

\* Why the entry at hand has to wait, "none" if it does not.
Verdict(r) ==
    LET i == At(r)
        child == queue[i].child
        parent == queue[i].parent
    IN  IF Collides(r, child) THEN pass[r].blocked[child]
        ELSE IF parent \in Keys(i) /\ Collides(r, parent) THEN pass[r].blocked[parent]
        ELSE IF queue[i].op # "detached" /\ Keys(i) \cap pass[r].parked # {} THEN "parked"
        ELSE IF pass[r].only = {} \/ Earlier(i) = 0 THEN "none"
        ELSE IF queue[i].op = "detached" /\ OriginOf(r, Earlier(i)) = "parked" THEN "none"
        ELSE OriginOf(r, Earlier(i))

Defer(r) ==
    /\ pass[r].pc = "item"
    /\ \E why \in Origin \ {"none"} :
          /\ why = Verdict(r)
          /\ pass' = [pass EXCEPT ![r] = Advanced(r, Block(r, why))]
    /\ UNCHANGED <<tree, queue, store, written, lease, ticket, faults>>

Proceed(r) ==
    /\ pass[r].pc = "item"
    /\ Verdict(r) = "none"
    /\ pass' = [pass EXCEPT ![r].pc = "apply"]
    /\ UNCHANGED <<tree, queue, store, written, lease, ticket, faults>>

\* The edge an entry leaves: none, if it purges.
Wanted(i) == {queue[i].parent} \ {NoScope}

\* assertEdge(): the edge is legal in the tree of the consumer; a purge always is.
CheckEdge(r) ==
    /\ edge[r].at = "check"
    /\ \/ queue[At(r)].op = "detached"
       \/ EdgeIsLegal(tree, queue[At(r)].child, queue[At(r)].parent)
    /\ edge' = [edge EXCEPT ![r].at = "read"]

\* The edges the backend has of the scope: a purge deletes them all, anything else
\* refuses two (assertOneParent) and climbs before it writes.
ReadEdge(r) ==
    LET current == store[queue[At(r)].child]
        parent == queue[At(r)].parent
    IN  /\ edge[r].at = "read"
        /\ current # Wanted(At(r))
        /\ \/ /\ queue[At(r)].op = "detached"
              /\ edge' = [edge EXCEPT ![r].at = "write", ![r].current = current]
           \/ /\ queue[At(r)].op # "detached"
              /\ OneParent(current)
              /\ edge' = [edge EXCEPT ![r].at = "climb", ![r].current = current,
                                       ![r].chain = {parent}, ![r].top = parent]

\* Bug: only the new parent itself is looked at.
UnmetAtFirst(r) == queue[At(r)].child # queue[At(r)].parent

\* The climb did not meet the scope.
Unmet(r) == queue[At(r)].child \notin edge[r].chain

\* storeChain(): one hop of the climb.  There is nothing above the top, and the scope was
\* not met, or one parent, which was not met before.
Climb(r) ==
    LET above == IF edge[r].top = Root THEN {} ELSE store[edge[r].top]
    IN  /\ edge[r].at = "climb"
        /\ \/ above = {} /\ Unmet(r) /\ edge' = [edge EXCEPT ![r].at = "write"]
           \/ \E p \in Parents \ edge[r].chain :
                 /\ above = {p}
                 /\ edge' = [edge EXCEPT ![r].chain = @ \cup {p}, ![r].top = p]

\* The Write is strict: what it deletes is there, what it writes is not.
Fits(i, gone) ==
    LET now == store[queue[i].child] IN gone \subseteq now /\ Wanted(i) \cap now = {}

\* Another writer was there first: read again, TREE_WRITE_ATTEMPTS times at most.
\* A purge does not.
Conflict(r) ==
    /\ edge[r].at = "write"
    /\ ~Fits(At(r), edge[r].current)
    /\ queue[At(r)].op # "detached"
    /\ edge[r].tries < TreeWriteAttempts - 1
    /\ edge' = [edge EXCEPT ![r] = Unread("read", edge[r].tries + 1)]

\* One request of r about its entry, but the last.
Reparent(r) ==
    /\ pass[r].pc = "apply"
    /\ CheckEdge(r) \/ ReadEdge(r) \/ Climb(r) \/ Conflict(r)
    /\ UNCHANGED <<tree, queue, store, written, late, lease, pass, ticket, faults>>

\* Bug: the edge there was is not taken out.
LandsBeside(i, gone) ==
    /\ Fits(i, gone)
    /\ store' = [store EXCEPT ![queue[i].child] = @ \cup Wanted(i)]
    /\ written' = [written EXCEPT ![queue[i].child] = i]

\* A Write lands, of entry i.
Lands(i, gone) ==
    /\ Fits(i, gone)
    /\ store' = [store EXCEPT ![queue[i].child] = (@ \ gone) \cup Wanted(i)]
    /\ written' = [written EXCEPT ![queue[i].child] = i]

\* The edge is in place: it was read and is the wanted one, or the Write lands.
Reach(r) ==
    \/ /\ edge[r].at = "read"
       /\ store[queue[At(r)].child] = Wanted(At(r))
       /\ written' = [written EXCEPT ![queue[At(r)].child] = At(r)]
       /\ UNCHANGED store
    \/ /\ edge[r].at = "write"
       /\ Lands(At(r), edge[r].current)

Apply(r) ==
    /\ pass[r].pc = "apply"
    /\ Reach(r)
    /\ pass' = [pass EXCEPT ![r].pc = "mark"]
    /\ UNCHANGED <<tree, queue, lease, ticket, faults>>

\* The change is refused, for one of the reasons above or for another, or the sweep
\* of local roles fails when the edge is in place (a purge writes last): markFailed()
\* counts the attempt, and what the entry names is blocked.
ApplyFails(r) ==
    /\ pass[r].pc = "apply"
    /\ \/ queue[At(r)].op # "detached" /\ Reach(r)
       \/ UNCHANGED <<store, written>>
    /\ queue' = [queue EXCEPT ![At(r)].attempts = IF @ < plan.attempts THEN @ + 1 ELSE @]
    /\ pass' = [pass EXCEPT ![r] = Advanced(r, Block(r, "failed"))]
    /\ UNCHANGED <<tree, lease, ticket, faults>>

\* The backend does not answer: 503, no attempt is counted.  The change may have
\* reached it all the same.
ApplyTransient(r) ==
    /\ pass[r].pc = "apply"
    /\ Fault
    /\ Reach(r) \/ UNCHANGED <<store, written>>
    /\ pass' = [pass EXCEPT ![r] = Advanced(r, Block(r, "failed"))]
    /\ UNCHANGED <<tree, queue, lease, ticket>>

MarkApplied(r) ==
    /\ pass[r].pc = "mark"
    /\ queue' = [queue EXCEPT ![At(r)].state = "applied"]
    /\ pass' = [pass EXCEPT ![r] = Advanced(r, pass[r].blocked)]
    /\ UNCHANGED <<tree, store, written, lease, ticket, faults>>

\* The process dies, a statement on the queue fails, or the freeze cuts the pass
\* at a batch: the lease is let go, whatever was not marked is pending.
Abort(r) ==
    /\ pass[r].pc # "idle"
    /\ Fault
    /\ pass' = [pass EXCEPT ![r] = Idle]
    /\ lease' = Released(r)
    /\ UNCHANGED <<tree, queue, store, written, ticket>>

\* The lease is a transaction on a connection of its own.  If that drops the lease is
\* free, and the pass that took it does not notice.
LeaseDrops ==
    /\ plan.drops
    /\ lease # NoRelay
    /\ Fault
    /\ lease' = NoRelay
    /\ UNCHANGED <<tree, queue, store, written, pass, ticket>>

\* A pass of r gives its Write up, at its deadline or because its process dies; the
\* request goes on without it (withDeadline).
LeaveWrite(r) ==
    /\ plan.late
    /\ pass[r].pc = "apply" /\ edge[r].at = "write"
    /\ (ApplyTransient(r) /\ UNCHANGED store) \/ Abort(r)
    /\ late' = late \cup {[entry |-> At(r), gone |-> edge[r].current]}

\* It lands, if it still fits; nobody hears of it.
LateWrite ==
    /\ \E w \in late :
          /\ late' = late \ {w}
          /\ \/ Lands(w.entry, w.gone)
             \/ ~Fits(w.entry, w.gone) /\ UNCHANGED <<store, written>>
    /\ UNCHANGED <<tree, queue, edge, lease, pass, ticket, faults>>

-----------------------------------------------------------------------------
(* The operator: requeueScopeChanges() of one entry.                       *)

\* laterApplied(): something newer on the same scopes is already applied.
Superseded(i) == \E j \in Ids : j > i /\ queue[j].state = "applied" /\ Touch(i, j)

Requeued(i) == [queue EXCEPT ![i].attempts = plan.attempts - 1]

RequeueProbe(i) ==
    /\ plan.plain
    /\ ticket = 0
    /\ Dead(i) /\ ~Superseded(i)
    /\ Fault
    /\ ticket' = i
    /\ UNCHANGED <<tree, queue, store, written, lease, pass>>

\* The UPDATE touches the row only if it is still parked.
RequeueWrite ==
    /\ ticket # 0
    /\ queue' = IF Dead(ticket) THEN Requeued(ticket) ELSE queue
    /\ ticket' = 0
    /\ UNCHANGED <<tree, store, written, lease, pass, faults>>

\* With { apply } the lease comes first, and the same pass relays the entry.
RequeueTake(r, i) ==
    /\ plan.apply
    /\ pass[r].pc = "idle"
    /\ lease = NoRelay
    /\ Fault
    /\ lease' = r
    /\ pass' = [pass EXCEPT ![r] = [Idle EXCEPT !.pc = "probe", !.only = {i}]]
    /\ UNCHANGED <<tree, queue, store, written, ticket>>

RequeueHeld(r) ==
    /\ pass[r].pc = "probe"
    /\ \E i \in pass[r].only :
          IF Dead(i) /\ ~Superseded(i)
          THEN /\ queue' = Requeued(i)
               /\ pass' = [pass EXCEPT ![r].pc = "page",
                              ![r].parked = {queue[j].child : j \in {k \in Ids : Dead(k) /\ k # i}}]
               /\ UNCHANGED lease
          ELSE /\ pass' = [pass EXCEPT ![r] = Idle]
               /\ lease' = Released(r)
               /\ UNCHANGED queue
    /\ UNCHANGED <<tree, store, written, ticket, faults>>

-----------------------------------------------------------------------------
Step(r) ==
    \/ TakeLease(r) \/ Busy(r) \/ Page(r) \/ Defer(r) \/ Proceed(r)
    \/ Apply(r) \/ ApplyFails(r) \/ MarkApplied(r) \/ RequeueHeld(r)

Work ==
    \/ \E op \in {"attached", "moved", "detached"}, child \in Scope, parent \in Node :
          Notify(op, child, parent)
    \/ \E i \in Ids : Commit(i) \/ Rollback(i)
    \/ \E r \in plan.relays :
          \/ \E only \in SUBSET {i \in Ids : queue[i].state \in {"queued", "applied"}} :
                (plan.several \/ \A i, j \in only : i = j) /\ StartPass(r, only)
          \/ Step(r) \/ ApplyTransient(r) \/ Abort(r)
          \/ \E i \in Ids : RequeueTake(r, i)
    \/ \E i \in Ids : RequeueProbe(i)
    \/ RequeueWrite
    \/ LeaseDrops

\* What was read about an entry lives no longer than the call that read it.
Forget == edge' = [r \in Relay |-> IF pass'[r].pc = "apply" THEN edge[r]
                                   ELSE Unread("check", 0)]

Next ==
    /\ \/ Work /\ Forget /\ UNCHANGED late
       \/ \E r \in plan.relays : Reparent(r) \/ (LeaveWrite(r) /\ Forget)
       \/ LateWrite
    /\ UNCHANGED plan

Spec == Init /\ [][Next]_vars

\* The relay of everything runs again and again (a cron), and a pass that has
\* begun goes on; what fails from outside fails plan.faults times at most.
Fairness ==
    \A r \in Relay : /\ SF_vars(/\ r \in plan.relays /\ StartPass(r, {})
                                   /\ Forget /\ UNCHANGED <<late, plan>>)
                     /\ WF_vars(((Step(r) /\ Forget /\ UNCHANGED late) \/ Reparent(r))
                                  /\ UNCHANGED plan)

FairSpec == Spec /\ Fairness

-----------------------------------------------------------------------------
(* What the outbox promises.                                               *)

\* One relay; no Write outlives its caller; one writer at a time, as passes are alone or
\* kept apart by a lease that lasts; entries that neither overlap nor are requeued;
\* passes of everything or of one entry.
Alone  == \E r \in Relay : plan.relays = {r}
Prompt == ~plan.late
Apart  == Prompt /\ (Alone \/ ~plan.drops)
Serial == ~plan.overlap /\ ~plan.plain /\ ~plan.apply
Singly == ~plan.several

\* An entry is waiting for a pass.
Waits(e) == e \in Ids /\ Pending(e)

\* e grants or re-hangs, and waits for a parked entry: for one that plugs a scope
\* it names, or behind an entry that waits so.
Held(e) ==
    LET plugged(j) == \E d \in Ids : Dead(d) /\ queue[d].child \in Keys(j)
        held[j \in Ids] ==
            /\ Pending(j) /\ queue[j].op # "detached"
            /\ plugged(j) \/ \E k \in 1..(j - 1) : Touch(j, k) /\ held[k]
    IN  held[e]

\* Every variable keeps its type; attempts stop at the maximum and a ticket names
\* an entry of the queue.
TypeOK ==
    /\ tree \in [Scope -> Node]
    /\ queue \in Seq(Entry) /\ Len(queue) <= MaxEntry
    /\ store \in [Scope -> SUBSET Parents]
    /\ written \in [Scope -> {0} \cup Ids]
    /\ edge \in [Relay -> EdgeWork]
    /\ late \subseteq Write
    /\ lease \in Relay \cup {NoRelay}
    /\ pass \in [Relay -> Pass]
    /\ ticket \in {0} \cup Ids
    /\ plan \in Plans
    /\ faults \in 0..plan.faults

\* The edge of a scope in the backend is never overwritten by an older change of
\* that scope that hangs it elsewhere: whatever fails, is parked, is asked for out of
\* turn or is applied twice, one relay of changes that commit in turn and are not
\* requeued keeps the order of the queue scope by scope.  All an older entry may do
\* late is purge again what a younger purge left hanging from nothing.
EdgeNeverGoesBack ==
    [][Alone /\ Prompt /\ Serial /\ Singly =>
        \A s \in Scope : written'[s] >= written[s] \/ store'[s] = store[s]]_vars

\* What attaches or moves is not applied while a parked entry plugs a scope it
\* names: #drainScopeChanges() would hang it under a parent that never moved.  One
\* relay: its census is older than what another pass parks meanwhile.
ParkedPlugs ==
    Alone => \A r \in Relay : (pass[r].pc = "mark" /\ queue[At(r)].op # "detached") =>
        \A d \in Ids : Dead(d) => queue[d].child \notin Keys(At(r))

\* Nothing is applied past an older entry that names one of its scopes and still
\* waits, but a purge past one that a parked entry holds: the order of the pass,
\* its blocked keys and the probe of { only } together.  The probe sees the oldest such
\* entry and no other: a purge that is asked for may overtake an older purge too, if
\* both come behind one that is held.
KeyOrder ==
    Serial /\ Singly /\ Apart => \A r \in Relay : pass[r].pc = "mark" =>
        \A j \in 1..(At(r) - 1) : (Pending(j) /\ Touch(j, At(r))) =>
            /\ queue[At(r)].op = "detached"
            /\ \/ Held(j)
               \/ /\ pass[r].only # {} /\ queue[j].op = "detached"
                  /\ \E k \in 1..(j - 1) : Held(k) /\ Touch(k, j)

\* The two together, at every write of the backend (manager.ts, "defer").
OrderKept == KeyOrder /\ ParkedPlugs

\* What a pass applies was not applied by another pass meanwhile: its batch is a
\* photo, and only a lease that lasts keeps it true until each entry is marked.
AtHandWaits ==
    ~plan.drops => \A r \in Relay : pass[r].pc \in {"apply", "mark"} => Pending(At(r))

\* One writer at a time keeps the backend's tree a tree, even while it lags behind the
\* tree of the consumer: no scope has two parents and none is above itself, although what
\* reparent() read and climbed is several requests older than its Write.  Of two writers
\* the comment of reparent() says that they may leave two edges; and so they do.
StoreIsTree == Apart => Acyclic(store) /\ \A s \in Scope : OneParent(store[s])

\* Whatever is deployed, and whoever races: every variable keeps its type, one writer at a
\* time keeps the backend a tree and, while leases last, an entry is in the hands of one pass.
StoreWhole == TypeOK /\ StoreIsTree /\ AtHandWaits

\* Once every change that committed has been applied, the backend has the tree of
\* the consumer: the queue loses no change and applies each where it belongs, as long as
\* transactions that notify do not overlap and nothing is requeued.
StoreFollowsTree ==
    Serial /\ Apart /\ (\A i \in Ids : queue[i].state \in {"void", "applied"}) => store = Edges(tree)

\* Every change that committed is in the end applied or parked, or waits for a
\* parked entry of its own scopes; a purge never waits for one.  One that fails
\* for ever holds back nobody else in relayScopeChanges().  One relay: another one that is
\* asked for a blocked entry, { only }, may hold the lease whenever the cron comes.
EntrySettles == Alone => \A e \in 1..MaxEntry : <>[](~Waits(e) \/ Held(e))

=============================================================================
