# Verification of @jantstack/adonis-authz

TLA+ modules, TLC configurations and TLAPS proofs about the authorization engine of
this repository. Paths below are relative to the root of the repository: `src/manager.ts`
is the file `src/manager.ts` of the package, `tests/` its tests. The comments of the code
are in Spanish; where a property is about what a comment promises, the comment is quoted.

## 1 The system

An application calls an `AuthorizationManager`. The manager keeps a *catalog* (which
permissions exist, which roles, which role grants which permission) in SQL, and *facts*
(who holds which role or permission in which scope, and who is denied what) in a driver,
on SQL or on OpenFGA. Scopes form a tree that belongs to the application ("the consumer"):
a fact in a scope holds in every scope below it, a deny anywhere above wins, and what is
not granted is denied.

Several processes run the same code against the same database, and each has caches and
timers of its own. Almost no operation takes a database lock: the engine relies on
conditional `UPDATE`s, on version rows and on re-reading. That is where the hard
behaviour is, and what the modules are about.

### 1.1 Inventory

**Durable freeze** — `src/freeze.ts`, `src/manager.ts` 600-980, `commands/authz_freeze.ts`,
`commands/authz_unfreeze.ts`, `src/shared/backend_guard.ts`.
*State:* row `id = 2` of `authz_catalog_version` (reason, holder, until, fence); per manager
the freeze it holds, its renewal timer and its `lapsed` flag.
*Operations:* `acquireFreezeOutcome`, `renewFreeze`, `releaseFreeze`, `withFrozenWrites`,
`freezeStatus`, the barrier `#assertNotFrozen`, and the two commands.
*Interacts with:* every write of the manager (barrier), reconcile and migration (they certify
only if the window did not lapse), the relay (503 between batches).
*Hard:* leases against a clock, statements that land late or after their caller died,
nested windows, a window of the operator adopted by a pass, crashes.
*Correct when:* a pass that says "not lapsed" was never interleaved with another pass or
with a write; no one lowers the barrier of another; a dead process does not freeze the
fleet for ever; the operator's window is never taken over.

**Catalog memo** — `src/catalog/catalog_cache.ts`.
*State:* the photo (`#view`) with its version label, two generations (instance and process),
`#checkedAt`, one comparison in flight (`#checking`) and one load in flight (`#loading`).
*Operations:* `view()`, `#revalidate()`, `#reload()`/`#load()`, `invalidate()`,
`invalidateAuthzCatalog()`; on the write side `withAuthzCatalogWrite`,
`bumpAuthzCatalogVersion`.
*Hard:* four reads with no transaction, questions that share flights, an invalidation in the
middle of a load, a comparison overtaken by a load, deadlines.
*Correct when:* the label never claims more than the data; a photo torn over two catalogs
only restricts; nothing invalidated is served unchecked; every question ends.

**Tree outbox and relay** — `src/scope_outbox.ts`, `src/manager.ts` 1150-2060 and 2540-2570,
`commands/authz_scopes_relay.ts`, `commands/authz_scopes_requeue.ts`.
*State:* table `authz_scope_outbox` (change, attempts, applied), an advisory lease, the tree
the backend keeps; in a pass, the census of parked entries and the blocked keys.
*Operations:* `notifyScopeChange(s)`, `relayScopeChanges`, `requeueScopeChanges`,
`pruneApplied`.
*Hard:* passes that overlap, changes of one scope that must keep their order although
others fail, entries that are parked and come back, crashes between applying and marking.
*Correct when:* no edge is ever taken back to an older one; the backend ends with the tree of
the consumer; a change that fails for ever holds up only its own scopes.

**Facts on SQL** — `src/drivers/database_driver.ts`, `src/shared/sql_expiry.ts`,
`src/expiry.ts`. *State:* tables of assignments and denies. *Operations:* grant (find, then
refresh or insert, with retries), revoke, deny, removeDeny, purgeScope, purgeRole,
authorize, the list queries. *Hard:* every operation but the purges is a sequence of
statements without a transaction; `authorize` reads denies and assignments in two
statements. *Correct when:* the rows of one holder/role/scope stay unique, the last expiry
wins or is reported, and what `authorize` says held at some instant.

**Facts on OpenFGA** — `src/drivers/openfga_driver.ts`, `src/drivers/openfga_facts.ts`,
`src/openfga.ts`. *State:* tuples of a store. *Operations:* as above, with 409s and no
transactions over several calls; `replaceAssignment` is a delete and then a write; a moved
scope writes its edge and then sweeps the bindings of local roles that are no longer
visible. *Hard:* partial writes, the gap of a replacement, sweeps that race with grants.

**Manager facade** — `src/manager.ts`, `src/types.ts`, `src/errors.ts`, `src/identity.ts`.
*State:* none of its own beyond the above. *Operations:* validation, `authorize` with its
three outcomes (false, 422, 503), hooks around writes (a failing hook is swallowed), the
list queries.

**Delegation and scoped roles** — `src/manager.ts` 3126-3560. *State:* roles with an owner
scope, ranks. *Operations:* `defineScopedRole`, `updateScopedRole`, `deleteScopedRole`,
delegated grants and denies. *Hard:* authority, rank and collisions are checked on reads
made before the transaction that writes; only homonyms are read again inside it.
*Correct when:* nobody delegates what they do not hold, and no two visible roles collide.

**Catalog sync, diff, prune, projection** — `src/catalog/catalog.ts`, `commands/authz_catalog_*`.
*Operations:* one transaction that makes the tables equal to the declared catalog, then,
after the commit, the projection of roles onto OpenFGA; the prune of local roles whose owner
is gone. *Hard:* two syncs may project in the opposite order of their commits; a role is
purged from a store that is being written. *Correct when:* the store grants what the tables
say, and nothing is pruned that the tree still knows.

**Reconcile and migration** — `src/manager.ts` 2085-2490, `src/reconcile.ts`,
`commands/authz_reconcile.ts`. *Operations:* copies facts between stores under a freeze,
refuses a stale source, reports the queue of the relay. *Hard:* the verdict is only as good
as the window it was computed in; it writes request by request over a store that may be
answering; deaths half-way. *Correct when:* the copy answers as its origin did at one
instant, nothing revoked comes back, and no step on the way opens what neither end opens.

**Scope resolvers** — `src/hierarchical_resolver.ts`, `src/memoize_ancestors.ts`,
`src/sql_descendants.ts`, and the lists built on them (`authorizedScopes`,
`expandExcludedSubtrees`, `isWithin`): climbing with cycle and depth guards, memoised per
request; a recursive query down, with caps; the whole tree by pages. *Hard:* a row per query,
over a table that nothing holds still. *Correct when:* a chain is one that was, a subtree
comes whole or not at all, a list is what `authorize` would have said.

**Relations** — `src/relations/manager.ts`, `src/relations/define_relations_config.ts`,
`src/relations_config_store.ts`, the two relation drivers, `src/relation_partition_trigger.ts`:
a second, typed graph of tuples with its own evaluation. On SQL `relate` is a transaction
(delete, insert); on OpenFGA the renewal of a tuple is a delete and a write with a check
before and after of the denies its group carries. *Correct when:* both drivers answer the
same over the same tuples, and what failed and may have been written is told.

**Relations reconcile and order of transition** — `src/relations/reconcile.ts`,
`src/relations/tuple_order.ts`, `src/relations_reconcile.ts`: takes a store from one set of
tuples to another in an order such that no intermediate set grants what neither end grants.

**The rest** — configuration (`src/define_config.ts`, `configure.ts`, stubs), HTTP
middlewares and traits, Lucid models and migrations, provider and services, provisioning of
OpenFGA, the contract test suites of `src/testing` and the repository's scripts. None of
them has steps of its own.

### 1.2 How the parts interact

    consumer ──transaction──> scope outbox ──relay pass──> backend tree (driver)
       │                          ▲    │ lease                 ▲
       ├── authorize / grant ──> manager ── catalog memo ──> authz_catalog_version id 1
       │                          │  └── barrier ──────────> authz_catalog_version id 2
       └── reconcile / freeze ────┘        ▲ renewals, releases, operator

The memo and the freeze share a table and nothing else. The relay asks the barrier once a
batch. The freeze is read by every write and by `reconcile`.


## 2 Modules

| module | component | checked and proved in |
|---|---|---|
| `Freeze` | durable freeze | `MCFreeze`, 2 runs; `FreezeProofs`, 5 theorems |
| `CatalogCache` | catalog memo | `MCCatalogCache`, 2 runs; `CatalogProofs`, 6 theorems |
| `ScopeRelay` | tree outbox and relay | `MCScopeRelay`; `RelayProofs`, 4 theorems |
| `Facts` | what the port of facts promises: the abstract store | implemented by `SqlFacts` |
| `SqlFacts` | facts on SQL | `MCSqlFacts`; `SqlFactsProofs`, 5 theorems |
| `FgaStore` | a store of OpenFGA: its tuples and what they grant | extended by `FgaFacts`, `Reconcile` |
| `FgaFacts` | facts on OpenFGA, and the relay's work on them | `MCFga`; `FgaProofs`, 5 theorems |
| `CatalogRows` | rows of the catalog; sync and diff as functions | extended by `Roles` |
| `Roles` | delegation, sync, projection, purge and prune of roles | `MCRoles`; `RolesProofs`, 5 theorems |
| `Reconcile` | migration and maintenance of facts | `MCReconcile`, 2 runs; `ReconcileProofs`, 4 theorems |
| `RelationTuples` | tuples of relations; the answers of both drivers | extended by `RelationOrder` |
| `RelationOrder` | the order of transition, as operators | extended by `RelationPlan` |
| `RelationPlan` | the plan of a partition | extended by `Relations` |
| `Relations` | writes of relations on both drivers, and the pass | `MCRelations`; `RelationsProofs`, 7 theorems |
| `ScopeReads` | resolvers, and the lists built on them | `MCScopeReads` |

`FgaFacts` and `Reconcile` compose the facts with the consumer's tree and the relay's work on
them; `Roles` composes the catalog's tables with the store they are projected onto and with
the facts that others write; `Relations` composes the clients of a store with the pass that
rewrites it.

Conventions. One action per statement, request or callback: whatever an `await` separates is
two actions. Operators named "Bug: …" are mutations of the operator that follows them; no
specification uses them. They document what each property is sensitive to: with the bug in
place of the code, TLC finds the property violated. Variables and fields marked *history*
record what happened so that a property can speak of it; no guard reads them.

A run asks several related questions of one state space, so some properties are conjunctions
of named parts, and each part has its own comment. Where instances would be too large
together, a run starts in any of several *plans* or *scenes*: a record, chosen by `Init`, of
the inputs and bounds of one situation. `CHECK_DEADLOCK FALSE` where the counters that bound
a run end and an idle system may stop; `MCRelay` leaves the check on.

## 3 Freeze

One row, a set `sql` of statements in flight, and per call of `withFrozenWrites` or
`reconcile` a record `win[c]` with its program counter. The reading of the clock and the
execution of the `UPDATE` are two actions: between them the row may change, the caller may
die or reach its deadline. A renewal may take `RenewLag` ticks; an acquire or a release may
take for ever or be lost (`Drop`).

| code | model |
|---|---|
| `withFrozenWrites`, the three shapes of a window | `RunInside`, `OpenAsContext` + `AdoptOperator`/`FallBack`, `OpenOwn` |
| `acquireFreezeOutcome`: UPDATE, re-read of the fence, explanation, one retry | `SendAcquire`, `ExecAcquire`, `ConfirmAcquire`, `ExplainRefusal` |
| the timer | `SendRenew`, `ExecRenew` |
| the verdict | `TokenLapsed`, `Certify` |
| `finally` | `Abort`, `LeaveOuter`, `CloseOwn`, `ExecRelease`, `DeadlineRelease` |
| the barrier of a write | `StartWrite`, `PassBarrier` |
| `authz:freeze`, `authz:unfreeze` | `AuthzFreeze`, `AuthzUnfreezeRead`, `AuthzUnfreezeLift` |
| SIGKILL, deadline, wall clock | `Kill`, `DeadlineAcquire`, `Tick` |

*Properties.* `CertifiedMeansFrozen`: no write passed the barrier of a pass that certifies,
but where the row had expired with a renewal of that window, sent before it did, still on its
way (`RenewalInFlight`). That hole is the code's own (§12); the property says there is no other.
`CertifiedMeansAlone`: no other window took the row meanwhile. `BarrierStands`: only a
takeover after expiry or the operator lowers the barrier of a running window.
`OperatorWindowIsEvidence`: no pass takes, renews or lifts a window of the operator.
`FleetThaws`: what a dead process held stops being live.

*Runs.* `MCFreezeApart` (two processes, a writer) checks the two properties of a certificate;
`MCFreezeNested` (both windows in one process, one inside the other) checks the barrier, the
operator's window and, under fairness, that the fleet thaws. In both a renewal may land a tick
after its caller read the clock, which is when one sent in time finds its lease run out.

*Bounds.* Two calls: all the races of the code are of a window with another one; a third
party is the operator. A lease of two ticks has a tick at which a renewal can matter and one
at which it is too late. `MaxClock = 4` lets a window expire, be taken over and expire again;
`MaxFence = 2` is one takeover (the theorems hold for any fence).

*Fairness* (`FairSpec`). Time passes and the database executes or loses a renewal within its
timeout. Nothing is assumed of processes: `FleetThaws` is about a dead one. It holds because
a statement of the dead process can extend the lease once, at most, and then there is no
timer. The clock is bounded: the leases a process may take are those that end before it.

*Abstractions.* One wall clock for the fleet (the code compares milliseconds of different
machines and documents that their skew must be below the lease). The holder `?` of a row
written by hand is left out. A call is used once. Statuses of 423 and 503 are one outcome,
`Finish`. If two calls of one manager take the row one after the other the second overwrites
`#heldFreeze`; the first was overtaken then, and its timer, which the code leaves running,
can only fail.

## 4 CatalogCache

The catalog is a history of versions, `history[v+1]`, each with the rows it holds. A photo
is four numbers: its label and the version at which each table was read. So "torn" is a photo
whose numbers differ, and what it grants is computed from the history.

| code | model |
|---|---|
| `view()`: memo, join or start the comparison, join or start the load | `AskMemo`, `AskCheck`, `AskLoad` |
| `#revalidate()` | `CheckRead`, then `CheckServes`, `CheckReloads` or `CheckSuperseded`; `CheckFails` |
| `#load()`: version, permissions, roles, links | `LoadVersion`, `LoadPermissions`, `LoadRoles`, `LoadLinks`, `LoadLands`; `LoadFails` |
| the generations of this instance and of the process | `fresh`, and `load.fresh` for the load in flight |
| `withAuthzCatalogWrite` of any process | `Commit` |
| `invalidate()`, `invalidateAuthzCatalog()` | `Invalidate` |

*Properties.* `CurrentMeansWhole`: if the label is the version of the database, the data is
too. `MixedIsRestrictive`: a torn photo grants nothing that the last catalog it touched does
not. `FlightSees`: an answer is never older than the flight it came from. `InvalidationHolds`,
`WindowBounds`: with `{ everyMs }` no answer is older than the window. `QuestionsEndOrHang`:
under fairness a question ends, unless its comparison has come to wait for itself.

*Runs.* `MCCatalog`: two questions, a write of this process or of another, an invalidation and
a window of two ticks, with a comparison before every answer or one per window. `MCCatalogHang`
is a violation: the comparison that waits for itself (§12).

*Bounds.* Two questions: one that starts a flight and one that joins it. One write falls between
any two reads of a load, and before or after it; `MixedIsRestrictive` needs a row that appears
and one that goes, over one permission and one role, whose links are all the catalogs with at
most one link. `MaxClock = 3` lets a window of two ticks pass and one more begin. (The theorems
hold for any number of writes and any window.)

*Fairness.* `WF` of the comparison's steps and of the load's: a query answers or reaches its
deadline (`#sql`), and the event loop runs what follows. No caller has to ask, no writer has
to write.

*A limit without a run.* A question may join a comparison whose `SELECT` left before the
question was asked, and then does not see what was committed in between. `FlightSees` states
what does hold: an answer is never older than its flight.

*Abstractions.* `Tick` waits for the flights: their deadline is far below the window.
Without that, what `{ everyMs }` really bounds is the window plus the duration of a flight.
The indices of the photo and the questions asked of it are pure and left out. `Commit` is one
step because rows and version commit in one transaction after locking the row; what the
transactions write is in `Roles`.

## 5 ScopeRelay

The consumer's tree, the queue, the backend's edges (`store[s]`, the set of parents it has of a
scope), the lease, a record per pass, and how far a pass has come with the edge of its entry. A
pass reads the census of parked entries, asks for the lease, and reads pages; for each entry it
decides (`Verdict`), applies, and marks. To apply is several requests to a store that has no
compare-and-set, each a step of its own: the edge is checked against the tree of the consumer
(`CheckEdge`), the one that is there is read (`ReadEdge`), the chain above the new parent is climbed
hop by hop (`Climb`), and a strict Write takes the one out and puts the other in (`Reach`,
`Lands`); if what it takes out is gone, or what it puts in is there, the call reads again
(`Conflict`), `TreeWriteAttempts` times.

| code | model |
|---|---|
| `notifyScopeChange` inside the consumer's transaction | `Notify`, `Commit`, `Rollback` |
| `relayScopeChanges`: inputs, lease, drain | `StartPass`, `TakeLease`, `Busy`, `Page` |
| collisions, parked keys, the probe of `{ only }` | `Verdict`, `Collides`, `Earlier`, `OriginOf`, `Block`; `Defer`, `Proceed` |
| `#applyScopeChange` and how it ends | `Apply`, `ApplyFails`, `ApplyTransient` |
| `assertEdge`, `reparent`, `storeChain`, `onScopeDetached` of the driver | `CheckEdge`, `ReadEdge`, `Climb`, `Conflict`, `Reach` |
| a Write whose caller reached its deadline or died (`backend_guard.ts` 167-171) | `LeaveWrite`, `LateWrite` |
| `markApplied`, attempts | `MarkApplied`, `Dead` |
| `requeueScopeChanges` without and with `{ apply }` | `RequeueProbe` + `RequeueWrite`; `RequeueTake` + `RequeueHeld` |
| a crash, a failing statement, a freeze between batches | `Abort` |
| the connection that holds the lease drops (`scope_outbox.ts` 494) | `LeaseDrops` |

*Properties.* `EdgeNeverGoesBack`: the edge of a scope in the backend is never overwritten by
an older change that hangs it elsewhere; all an older entry may do late is purge again what hangs
from nothing. `OrderKept`: nothing overtakes an older pending entry of one of its scopes, but a
purge one that is held by a parked entry (and, if it was asked for, an older purge that waits
behind such an entry); and nothing is hung on or moved past a scope whose own change is parked.
`StoreFollowsTree`: an empty queue means that the backend has the tree of the consumer.
`StoreWhole`: one writer at a time leaves the backend a tree, no scope with two parents and none
above itself (`StoreIsTree`), and the entry a pass applies has not been applied by another since its
page was read. `EntrySettles`: in the end every entry is applied, parked, or
waits for a parked entry of its own scopes; one that fails for ever holds back nobody else.

*Run.* `MCRelay` starts in any of six plans:

| plan | relays | entries | attempts | also |
|---|---|---|---|---|
| `InOrder` | 1 | 3 | 2 | a fault from outside |
| `Racing` | 2 | 2 | 1 | transactions that overlap, both ways of requeueing |
| `Meeting` | 2 | 2 | 1 | a fault from outside, passes asked for several entries |
| `Requeueing` | 1 | 2 | 1 | as `Racing`, the lease may drop, passes asked for several entries |
| `Late` | 1 | 5, all committed and waiting | 1 | a fault from outside |
| `Crossing` | 2 | 2 | 1 | a fault from outside, the lease may drop, a Write may outlive its caller |

`Late` starts where a cron that comes late would: `MCInit` gives it a queue of five changes that
committed before any pass ran, the shortest in which a purge overtakes a purge.

The climb is what keeps cycles out: with `UnmetAtFirst` in place of `Unmet`, TLC ends in a minute
and a half with a scope above itself.

`Crossing` is there for two writers: none of the properties of the tree is stated of it, but the
conflicts of two Writes and what comes of them happen in it.

*What the properties assume of a plan, and why.* Each premise is a named operator (`Alone`,
`Prompt`, `Serial`, `Apart`, `Singly`) and each was found to be needed with TLC; the hazards of
`PROJECT.json` name the lines. `Alone`, one relay: a pass reads the census of parked entries
before it waits for the lease, so it does not know what the pass before it parked; with a second
relay a change may be hung on a parked one, and with three entries an edge may go back. Passes
limited to one entry by two relays can hold the lease whenever the cron comes, so `EntrySettles`
is of one relay too. `Serial`: a requeue without `{ apply }` holds no lease between its probe and
its `UPDATE`, and with transactions that overlap the queue has the order of the `INSERT`s and the
consumer's table that of its own updates; `EdgeNeverGoesBack`, `KeyOrder` and `StoreFollowsTree`
are of plans without either. `Apart`, one writer at a time: a pass whose lease has dropped goes on, and nothing fences its
writes; with another relay the order is lost, an entry may be in two pairs of hands, and two
Writes that were both checked before either landed leave a scope two parents or close a cycle.
`reparent()` says so of itself (`openfga_driver.ts` 1776-1779). `Prompt`, a part of `Apart`: a Write
that its caller gave up may land later, a second writer even of one relay (§12).
`Singly`: a pass asked for several entries may take an older entry for held by the block of a
younger one (§12).

*Bounds.* Two scopes and the root have the moves, swaps and cycles of a tree of depth two. Three
entries are the shortest queue with one that fails, one that waits behind it and one that waits
behind the second; two are enough for two passes to meet on one; five are a parked
entry, what it holds, and two purges of one scope that it holds in turn. `BatchSize = 2` puts a page
boundary inside a queue of three. `faults` counts crashes, 503s, drops of the lease and requeues.
`TreeWriteAttempts = 2` (3 in the code) has a Write that is tried again and one that is not.

*Fairness* (`FairSpec`). A cron starts passes of everything again and again (strong fairness of
`StartPass(r, {})`: it is not always enabled), and a pass that has begun goes on. Failures of
a change are not bounded: `EntrySettles` says that the others do not pay for them. What fails
from outside fails at most `plan.faults` times.

*Abstractions.* `limit` is left out (it only ends a pass early). `notifyScopeChanges` of several
changes and requeues of several ids are sequences of single ones; `{ only }` names
several entries where `plan.several`, one elsewhere. The memo of origins that a pass keeps while it
probes (`manager.ts` 1507) is left out: it is forgotten at every block that is not of a parked
entry, so what it remembers differs from what the model computes afresh only in a pass of several
and, where transactions do not overlap, only by making a purge wait that need not.
The probe of `{ only }`, several `SELECT`s under the lease, is one step. `assertEdge` asks the
consumer for the chains of both ends in one step. A Write that has failed a conflict for the last
time is one of the refusals of `ApplyFails`. A `detached` deletes the edge and purges the facts of
the scope; the facts, and the sweep of local roles after a move, are in `FgaFacts`. The consumer keeps its tree a tree (guard of `Commit`).

## 6 Facts and SqlFacts

`Facts` is what the port promises of one holder and one permission: for each role and scope
until when the holder has it, the scopes where it is denied, and what the calls under way ask
for; every operation acts in one step, as its own request says at that instant. `SqlFacts` is
the driver: the two tables, and a program counter per call.

| code | model |
|---|---|
| `grant`: find, refresh or insert, the race, three turns | `StartGrant`, `Find`, `Refresh`, `Insert`, `Race`, `Update` |
| `resolveGrantExpiry`, `isActiveExpiry` | `Resolve`, `Fresh`, `Live` |
| `deny` | `StartDeny`, `DenyFind`, `DenyInsert`, `DenyRace` |
| `revoke`, `removeDeny`, `purgeScope`, `purgeRole` | `Revoke`, `RemoveDeny`, `PurgeScope`, `PurgeRole` |
| `authorize`: denies, then assignments | `ReadDenies`, `ReadAssignments` |
| `listScopes`: assignments, then denies | `ListAssignments`, `ListDenies` |
| a failing statement, its deadline, SIGKILL | `GiveUp`; an `INSERT` may land and its answer be lost |

*Properties.* `OutcomeIsWritten`: when a grant returns an expiry or a deny returns, the fact is
in the table at that instant with that expiry, whatever was inserted, updated or purged since
the call read. `AnswerHeld`: a `no` holds when it is given; a `yes` held at some instant of the
call, unless a deny of the chain landed (authorize) or was lifted (a listing) between its two
reads. The two readers read in opposite orders, so they err on opposite sides: authorize may
say yes to a permission whose deny has just landed on a scope above, a listing may say yes
after a deny was lifted from a grant that was gone by then. `ImplementsPort`: the whole module
implements `Facts`, with `facts` read off the table and `asks` off the program counters, but for
one race that it names. A grant that names no expiry, and has read the row when it had expired,
writes "no expiry" by uuid over the date that another grant has given it since
(`RevivesRenewed`): the port would keep that date (§12). It is excused only over a row that was read
expired, is the same row still, and is live now; whatever else a grant overwrites must be what the
port would write over it at that instant, and an expiry that is live when it is read is kept.

*Run.* `MCSqlFacts`, with grants that name tomorrow, that take the expiry away, and that name none.

*Bounds.* Two clients, one role, a scope and the root: the races are of two statements on one
row or on the two scopes of a chain. `MaxTries = 2` reaches both the second turn and the error
(the code has 3; the theorems hold for any). `MaxRow = 2` is the first row and one that replaces
it. Rows of the start end on day 1: live at 0, expired at 1; a grant may name day 2. Clients are
interchangeable (`SYMMETRY`).

*Abstractions.* The clock of a statement is read when it executes. The tree, and so the chain
of a scope, does not change; the composition of a role is the constant `Granting`, and the
visibility of local roles is in `FgaFacts`, `Roles` and `Reconcile`. A listing is one scope's share of
`listScopes`. Calls within a transaction of the caller are left out. `purgeRole` looks up its
role before its transaction, but the transaction fails if the role is gone by then, so both
are one step.


## 7 FgaStore and FgaFacts

`FgaStore` is a store of OpenFGA as the package uses it: tuples by relation, and the
authorization model (`Answers`) that gives them meaning. An assignment takes three tuples: the
edge that makes a binding reachable from its scope, what its role grants, and who holds it,
with an expiry that is a condition and no part of the key. `FgaFacts` is the driver, a step per
request, and the relay's work on the facts.

| code | model |
|---|---|
| `grant`: read, write, the 409 and its retries | `StartGrant`, `Read`, `Write`, `BlindWrite` |
| `replaceAssignment`, a delete and a write | `Renew`, `ReplaceDelete`, `ReplaceWrite` |
| `deny`, `revoke`, `removeDeny` | `StartDeny`, `Deny`, `Revoke`, `RemoveDeny` |
| `listScopes`: denies, bindings, chains | `StartList`, `ListDenies`, `ListBindings`, `ListChain` |
| `reparent`: the edge, then the sweep of local roles | `TakeMove`, `WriteEdge`, `SweepRead`, `SweepApply` |
| `purgeScope`: structure, facts, strays, denies, what is left | `TakeDetached`, `PurgeStructure`, `PurgeReadFacts`, `PurgeFacts`, `PurgeStrays`, `PurgeReadDenies`, `PurgeDenies`, `PurgeResidue` |
| the detachment after it | `CutEdge` |
| a request that fails, a lost answer, a relay that dies | `GiveUp`, `Land`, `RelayFail` |

*Properties.* `StoreWhole`: each scope has one parent at most and hangs from the root, once all
is quiet the two trees are one, and an assignment of a visible role has its edges whatever
sweeps and purges ran with it, failed ones too. `OnlyStaleGrantsReach`: a local role stops
granting where a move takes its owner out of the chain, also when the pass that moved it died
half-way; what may still grant was hung by a grant whose check is older than the move.
`WritesTellTrue`: a grant that nobody raced reports the expiry the store has, and a failure not
marked as partial left nothing behind. `PurgeSafe`: no step of a purge, wherever it dies, gives
anybody a permission by the facts of the scope, and it finds a residue only if somebody wrote
meanwhile. Before the denies go, the one exception is a binding that a late grant hangs again:
whoever else still has that role has it back, with his denies, until the denies are due.
`ListedHeld`: what is listed was permitted at some instant.

*Run and bounds.* `MCFga`: two clients, one holder, a chain of three scopes whose middle one
moves out of the organization that owns a local role and back, or whose leaf is detached, with an edge
of a retired role in it. Two calls, two changes of the tree, one failure of the relay, two turns
of the grant's loop (the code has 3), one tick. Clients are interchangeable (`SYMMETRY`).

*Abstractions.* The relay takes its queue in order; parked entries and leases are in
`ScopeRelay`. The consumer keeps its tree a tree (guard of `Move`). Page cursors and read limits, the checks of the model at boot, and tuples the
package did not write are left out.

## 8 CatalogRows and Roles

`CatalogRows` has the rows and what is computed from them as functions: what a sync makes of
them, what the diff reports, which names shadow which. `Roles` has the callers: each reads tree,
catalog and facts one after another, then commits, then projects.

| code | model |
|---|---|
| `defineScopedRole`, `updateScopedRole`, `deleteScopedRole`: chain, view, roles, denies, transaction | `StartDefine`, `StartUpdate`, `StartDelete`, `ReadChain`, `View`, `ReadRoles`, `ReadDenies`, `Define`, `Update` |
| `syncAuthzCatalog` | `StartSync`, `Sync` |
| the projection: what there is, the strict write, the check after it | `Project`, `Current`, `Write` |
| `purgeRole` and the removal of the row | `Collect`, `Erase`, `Residue`, `Drop` |
| the prune of orphans, role by role, and its guard of volume | `StartPrune`, `ListLocals`, `ResolveOwner`, `Decide`, `Turn` |
| a failure or deadline | `GiveUp`; a commit may land and its answer be lost |
| grants, revokes and denies of others; moves, lapses and a blind resolver | `Ask`, `Land`, `Revoke`, `Deny`, `Move`, `Lapse`, `Blind` |

*Properties.* `PermitsFollow`: once no call has it in hand the store grants for a role what the
catalog says, but after a projection that failed or that another write of the role crossed.
`NamesApart`: no role is defined where its name is taken, whatever others defined or synced
since it was checked, and homonyms that the tree brings together are told by the diff.
`DelegationBacked`: each permission that a local role gains was, during the call, one its actor
had and was not denied. `PruneSafe`: a role that goes leaves nothing behind but what landed
after the last read; only roles whose owner was gone go; never more than half, and none when the
resolver sees nothing. `SyncedTogether`: after all the configs of a list are synced none of
them has anything to sync.

*Run and bounds.* `MCRoles`: an organization and a unit in it; two global roles and a local role
of each scope; an actor with the role of the whole application and one with that of the
organization; two permissions. Two calls of two clients and one change around them: the races of
the code are between the reads of one call and one write of another. Of the two lists of configs
one brings a global role with the name of a local one, and in the other two configs declare the
same role, which is refused.

*Assumptions* (`RolesAssumption`). Two global roles of the first catalog differ in their name, as
the unique index of `stubs/migration.stub` 55 has it; every local role has an owner that is not
the root and a uuid that no config names.

*Abstractions.* A name is a slug with its level. The diff is what it would change, not its
text. Denies are of a permission in a scope; expiries of assignments are left out.

## 9 Reconcile

One pass at a time: what it was asked, what it has read, its plan as a set of tuples to delete
and to write, in the order of the code. Meanwhile the engine serves from one of the backends.

| code | model |
|---|---|
| `reconcile()`: stale direction, origin, window | `Begin`, `Stale`, `Origin`, `Gives`, `SameDriver`, `Maintenance`, `BackendOf` |
| the tree by pages; the source; the photo of the destination | `ReadTree`, `ReadTables`, `ReadPage`, `Plan` |
| what is wanted: `wantAssignment`, `wantDeny`, the rows of canonical scopes | `WantStore`, `WantTables`, `Fold` |
| deletes, updates and writes, one at a time | `Delete`, `Write`, `DeleteRank`, `WriteRank` |
| the report; a death; the lease lost | `Finish`, `Die`, `Lapse` |
| writes that had passed the barrier; the relay; moves; the cutover of `config.default` | `Call`, `Land`, `CallRelay`, `Relay`, `Move`, `Cutover` |

*Properties.* `MigrationIsFaithful`: a store filled from the tables answers as they did at one
instant of the pass; on the way back a row lives exactly as long as the facts it stands for; a
second pass finds nothing to do. `RevokedStaysRevoked`: what was revoked in the backend that
serves does not come back, in whatever order passes, cutovers and revocations come, and under
whatever key of its factory the driver is named; under a key of another factory it may (see
below), and what comes back so is not counted. `MaintenanceNeverOpens`: a pass over the
store that is answering says yes, at none of its steps, to what neither end does.
`StoreRebuilt`: a role that is not visible grants nothing afterwards, no driver is left empty,
and moves made under the pass are not lost. `DeadPassFailsClosed` is refuted (§12).

*Runs and bounds.* `MCReconcile`: three starts (facts in the tables; facts in the store that
expire, with its tree behind; a retired role and two spellings of one scope), six passes an
operator may ask for, two keys of one factory for the tables, two factories for the store: with
those `--to=database` must name its origin, and the branch of `Origin` that finds it is in the
proofs alone. `MaxEvents = 4` is a pass, what races it, the
cutover and the next pass. `MCReconcileDies` needs one event, a pass that dies.

*Assumptions* (`ReconcileAssumption`). The consumer keeps its tree with one parent per scope and
none for the root, and files a scope under the name its resolver gives it (`Canon`): the resolver
of the package reads one row per scope and canonicalises before it climbs. The rest of it types
the constants. `sound`, the history variable of `StoreFollowsTree`, starts when a pass that
rebuilt the tree ends with the consumer having told of its last moves (`Told`), and is lost with a
move that would close a cycle, with a pass that dies, and while the tables serve, whose relay
leaves the store alone.

*Abstractions.* `--allow-stale-source`, `--allow-mass-delete` and `--dry-run` (a pass that stops
at its plan) are left out, and so are the guards of volume, tuples that nobody claims, the
denies of an older format, the report of what is too deep, and types of holders. A page of the
store is one relation. Freeze and lease are one flag, `lapsed`: `Freeze` has them.

*What follows from the code and is declared in it.* `#sameDriver` compares the references of the
factories (`SameDriver`), not what they build (`BackendOf`), and its comment declares the limit
(`manager.ts` 2354-2358): a second factory of the store that serves passes the guard of the stale
direction, and so a pass by it from the tables gives back what was revoked since the cutover. The
model lets the operator ask for such passes, from the tables and from the store itself under its
other key. `Begin` empties `gone` at the first kind (`ByAlias`) and not at the second; with
`gone' = gone` in its place `MCReconcile` finds the cutover, the revocation, the pass and the fact
back in the store. A revocation that had passed the barrier and
lands while a pass reads may be written again by a maintenance pass; after a cycle of the
consumer's tree is mended another pass is needed.

## 10 Relations

`RelationTuples` has the two ways to answer over a set of tuples: the recursive query of SQL
(principals, then decisions) and the model of OpenFGA. `RelationOrder` is `tuple_order.ts`:
phases, precedences among the memberships that enter and leave, components and priorities, as
operators over sets. `RelationPlan` is what a pass decides for a partition: what it writes,
renews, deletes, leaves and refuses. `Relations` runs it all.

| code | model |
|---|---|
| the manager's gate and the beginning of a call | `Begin` |
| SQL: `#upsert`; `#deleteTuple`, `purgeObject`, `purgeSubject` | `SqlUpsert`, `SqlDelete` |
| OpenFGA: `relate` and its guarded renewal | `ReadKey`, `WriteNew`, `Walk`, `Walked`, `Cut`, `Put`, `PutClashes` |
| `unrelate`, `removeDeny`, `deny` | `Drop`, `WriteDeny` |
| `#purgeByFilters`, `purgeWrites` | `PurgeRead`, `PurgeBatch`, `PurgeEnd`, `Chunks` |
| a request that fails: refused, or landed with its answer lost; `#write`, `#partialIfDeleted`, `isTimeoutLike` | `Fails`, `LosesAnswer`, `Sent`, `Failed` |
| `reconcileRelations`: plan of all the partitions, refusals | `PassBegin`, `Steps`, `Refused`, `MassDelete`, `DenyRefused` |
| `applyPartition` | `PassSweep`, `PassStep`, `PassPut`, `PassEnd`, `PassDies` |

*Properties.* `DriversAgree`: over every store at rest the two drivers give the same answers.
`PassNeverOpens`: wherever a pass is cut, and as long as it stays cut, the store grants on what it
declares no more than it would had the pass not begun or had it ended, at that same instant.
Excused are a pass that reported a cycle, one that another writer raced, and, where the pass knew
the config, an instant at which something that its order counted on has lapsed (`Lapsed`: a
membership that the pass leaves, or a deny that it does not make last; §12 shows why).
`PassLeaves`: a refused partition is untouched, a pass that ends has written what it planned, and
the next one has nothing to do. `CallsTellTrue`: no write of a call that fails unmarked was
answered, so that all it may have left is the one request that failed (`wrote` is of answered
writes, `lost` of the other); and while a membership is renewed no deny stops reaching whom it
brings without the caller being told, once its delete is answered. That such a call wrote nothing
at all, as the documentation says, is refuted (§12).
`PurgeIsWhole`: a purge, cut anywhere, opens nothing, when its memberships fit in one write (the
code declares that limit).

*Run and bounds.* `MCRelations` starts in any of these scenes: every store and every source of six
tuples with nested groups (`Tangled`), of three tuples with expiries, a death, a second pass and
ticks (`Fading`), and of four tuples in two partitions whose destination may not declare or take
what it is sent (`Parted`); a pass that brings a holder into a group that grants and into one that
denies, while the first is in the second for an instant more (`Lapsing`); and clients that renew
and deny (`Renewals`), that purge in chunks of two (`Purges`), and a pass that begins with a call,
a purge too, under way (`Straggler`).

*Assumptions.* No relation includes itself, through others or not, as `findIncludesCycle` sees to:
there are ranks that go down from a relation to what it includes. Holders, groups, relations and
the tuples in play are finitely many, no name is of a group and of an object both, and a group
nests in groups of its own partition.

*Abstractions.* In the scenes nesting has no cycle (the depth of a group assumes so; no proof looks
at it). What is refused for an unsupported kind or an unknown identity is one case, `Undeclared`. A
request fails with a timeout or without, having landed or not, each in any combination; one that
lands only after its caller was told, transactions of the caller, cursors, wildcards as subjects, drift of the model and
the gate of a store that is not marked are left out. Names, the last tie-break, are left open.

## 11 ScopeReads

The consumer's table of scopes, which anybody may write, and its readers. A row is read per
step; the queries of SQL are one step each.

| code | model |
|---|---|
| `resolveChain` of the hierarchical resolver, a row at a time | `StartClimb`, `ClimbStep`, `Climbed` |
| the memo of a request | `memo`, `Known`, `ChainOf` |
| `isWithin` | `IsWithin` |
| the recursive query: existence, depth, `LIMIT` | `Exists`, `DescendantsOf`, `Walk` |
| `sqlScopeEdges`, by pages | `EnumerateEdges`, `Page` |
| `authorizedScopes`: assignments, denies, chains, subtrees, each candidate | `AuthorizedScopes`, `ListAssignments`, `ListDenies`, `Direct`, `ReadDenies`, `Placing`, `Answer`, `Each`, `NextSubtree` |
| `expandExcludedSubtrees` | `ExpandExcludedSubtrees`, `Return` |
| a query that throws | `Fail` |

*Properties.* `ReadsTrue`: while one row at most is written under a climb, what it answers, an
error too, is the answer of one instant; a subtree comes whole or not at all, and an error is
for a reason; no page skips a row that was there all along. `ListsTrue`: what is listed was
permitted at some instant of the request (one write at most); what was permitted all along is
listed, if the tree stood still; what stayed under an exclusion is in its expansion.

*Run and bounds.* `MCScopeReads`: every table of three scopes, cycles and missing parents
included, climbed with a write, walked with caps of 1 to 3, and paged with two writes and pages
of 1 to 3; and two trees, a chain and a fork, whose rows, grants and denies change twice under
the lists of two calls. The premises are tight: with one more write each of the three fails
(§12).

*Abstractions.* The age of a view, concurrent questions of a request that share a climb,
aliases of a uuid, the roles' visibility and scopes of fixed types are left out; a malformed
answer of the consumer's functions is `Fail`.

## 12 Where code and documentation disagree

Two runs of `PROJECT.json` must end with a counterexample; the lines are quoted there.

- `MCCatalogHang` — a comparison overtaken by a load asks `view()`, which hands it the
  promise of that very comparison. It waits for itself, and so does everybody else.
- `MCReconcileDies` — "deletes first: if it dies half-way, the destination has less". A pass
  writes assignments before denies, so one that dies between two batches leaves the new
  assignments without the denies that restrict them.

Others were found in the same way and have no run of their own; each can be seen by changing
a line or two of a configuration.

- A renewal of the freeze compares the lease with the clock its caller read before the query
  left. Executed late, it extends a lease that has already run out; a write has passed the
  barrier in between, and the pass certifies (`MCFreezeApart` with `RenewalInFlight == FALSE`,
  the property without its exception: `CertifiedMeansFrozen`).
- `unfreeze()` throws before it stops its timer; `release()` swallows the error and says that
  the lease will run out alone. It is renewed for ever (`ClosedWindowThaws` under `FairSpec`).
- A purge may overtake a move that waits for a parked entry. When the operator requeues the
  parked one, the older move is applied after the purge (`MCRelay` without the premise
  `~plan.plain` of `Serial`: `StoreFollowsTree`).
- `src/manager.ts` 1623 and `src/README.md` 142 say that what a pass was not asked for is waited
  for, "deferred, never out of order". A pass asked for several entries may apply a purge past an
  older pending move of its scope. Entry 1, a move of `a`, is parked; 2 moves `b` under the root;
  3 moves `b` under `a`; 4 purges `b`. Asked for 3 and 4, the pass blocks `b` as held by a parked
  entry when it comes to 3; the probe of 4 finds 2, which nothing holds, but `#blockOriginOf`
  (1857) sees the block that 3 left on `b`, takes 2 for held as well, and lets the purge pass. The
  next pass applies 2 and hangs the purged scope again (`MCRelay` with `SPECIFICATION Spec`,
  `Plans <- Receipts` and `MaxEntry = 4`: `OrderKept` without its premise `Singly`).
- `reparent()` says that it is a check and then a write, and that the single writer of the relay is
  what prevents two edges (`openfga_driver.ts` 1776-1779). One relay is not yet one writer: a
  request goes on when its caller has reached its deadline (`backend_guard.ts` 167-171), or has died.
  The Write of an entry that was counted as a 503 may land after the next pass has applied it
  again, and younger ones after it: then a scope has two parents, or is above itself, or hangs again
  where an older change said (`MCRelay` with `MaxEntry = 4` and, as the plan, `InOrder` with
  `late`, one attempt and four entries: `StoreIsTree` and `EdgeNeverGoesBack` without `Prompt`).
- Two grants read the same expired row; one sets a new date, the other, which names none, then
  writes "no expiry" by uuid over it. A temporary access becomes permanent, the defect that
  `src/expiry.ts` 13-14 says it closes (`MCSqlFacts` with `OmittedKeepsLive`, or with `ImplementsPort`
  without `RevivesRenewed`).
- `src/catalog/catalog.ts` 275 says that a failed projection leaves drift, "never a concession
  that the tables do not back". A sync with `--prune` takes a link away, commits, and its
  projection fails: the store goes on granting it (`MCRoles`: `FailedSyncNeverGrants`).
- `README.md` 932 and `tests/relations_order_exhaustive.spec.ts` 191 say that at no instant of the
  horizon a prefix of the order grants more than the ends without a declared residue. An allow that
  a group reaches does not count for the precedences if a deny that it reaches over what does not
  change cuts it (`effective`, `src/relations/tuple_order.ts` 380–403), whatever the expiries of
  that deny and of the memberships on the way to it. A source brings `u` into `g`, which grants,
  and into `h`, which denies; `g` is in `h` for one instant more, so its allow does not count and
  the two memberships are not ordered. The pass writes `u` in `g`, is cut there, `g` leaves `h`, and
  `u` is granted what neither end grants at that instant; no residue was declared (`MCRelations` with
  `INVARIANT HorizonHolds`).
- `README.md` 284 says that a 503 that is not a timeout "means the write did not happen and emits
  nothing", 1073 that on `relate` and `unrelate` it arrives before the first write, and the comment of
  `#purgeByFilters` (1467) that a chunk that fails deleted nothing. A connection may be reset after
  the request landed. What fails is then marked only by the writes answered before it
  (`backend_guard.ts` 156-161, `relations/manager.ts` 249-257, `progress.deleted` at
  `openfga_relations_driver.ts` 1492): a single write, the delete of a renewal (774), the first chunk
  of a purge and a commit of SQL leave a write that nobody is told of (`MCRelations` with `INVARIANT
  UnmarkedMeansUnwritten`). After such a delete nothing walks the groups either: a deny that landed
  since the first walk does not reach the member who was being renewed, and the error does not name
  it, though the window is said to be no longer mute (788-791; `CallsTellTrue` without `wrote` in its
  last part).

And what the models showed of the code where no documentation says otherwise:

- Two updates of one role that cross may lose the rank that the first wrote
  (`src/manager.ts` 3302); a retry of an update whose projection failed finds nothing to write
  and does not project again (3332).
- The probe of a pass asked for one entry looks at the oldest entry in its way and at no other.
  A purge that is asked for goes past that one, if a parked entry holds it, and with it past
  another purge of the same scope that waits behind. It does no harm: what is purged late hangs
  from nothing.
- Two writes under one climb of the tree may give a chain that never was, without an ancestor
  that denies. A scope that moves from an excluded subtree not yet walked into one already
  walked is missing from `expandExcludedSubtrees` (4223).

## 13 Proofs

`FreezeProofs`, `CatalogProofs`, `RelayProofs`, `SqlFactsProofs`, `FgaProofs`, `RolesProofs`,
`ReconcileProofs` and `RelationsProofs` prove, for every value of the constants that satisfies the
assumption of their component (`FreezeAssumption`, `CatalogAssumption`, `RelayAssumption`,
`SqlFactsAssumption`, `FgaFactsAssumption`, `RolesAssumption`, `ReconcileAssumption`; and
`RelationTuplesAssumption`, `RelationPlanAssumption`, `RelationsAssumption`), what the runs check on
small instances.

`FreezeTyped`, `CatalogTyped`, `Typing` and `TypesHold` are `Spec => []TypeOK`; the types of the relay and of
the facts on OpenFGA are a part of their `StoreWhole`, and that of reconcile of `StoreRebuilt`.

*Freeze.* `FreezeInv` joins to the type that fences never pass the row's, that a window's
token is one the row had, that a manager's held freeze is of a call of that manager
(`HeldOwn`), and that a release in flight belongs to a call that no longer runs
(`ReleasesAreLate`). The last is what makes `BarrierStands` inductive: a release can only
match the token of its own window. From it follow `CertificatesExclude`, `BarrierHolds` and
`OperatorKeepsWindow`, for any lag of the renewals. So does `CertificatesHold`: `SlipInv` says
that a window which a write slipped through is `Lost`, taken from its token or expired with
nothing on its way that could renew it. A renewal sent later reads a clock past the expiry, so
what is lost stays lost (`LostStays`), and `#tokenLapsed` sees it.

*Catalog.* `CatalogInv`: the tables of a photo were read in the order label, permissions,
roles, links (`ReadsInOrder`), flights carry a version that existed when they left
(`CheckLeft`, `LoadLeft`), a waiting question joined the flight there is (`Joined`), and a photo
that is still fresh was read after the last invalidation (`FloorHolds`). `LabelNeverClaimsMore`
is arithmetic over `ReadsInOrder`. `MixedPhotoRestricts` needs the order too: links are read
last, and a link is there only if its role and its permission are. `WindowInv` is of time: the
clock stands still while a flight is out, so what was committed after the version that a photo
carries landed at the instant its version was confirmed or later (`SinceChecked`), and a photo
served before its window ends lacks only what is younger than the window (`MemoAnswers`).

*Relay.* All four safety properties of `MCRelay` are proved, for any number of relays, scopes and
entries. `StaysWhole` (`StoreWhole`) holds whatever overlaps, is requeued or drops. Two arguments
meet in `RelayInv`. One is of the lease: while it lasts, a relay that has a page holds it
(`LeaseHeld`), so nobody else marks what is in the page (`BatchWaits`), and what it applies still
waits. It does not survive `LeaseDrops`, and is assumed only of plans without it. The other is of
the tree, and of one writer at a time (`Apart`): what a pass has read of its scope, and the chain it
has climbed so far, hold until it writes (`Climbed`): the chain has the new parent and all that is
above what is in it, but above its top. A Write is then of an edge whose parent is in a closed set
without the child, and such an edge closes no cycle (`EdgeKeepsAcyclic`); it takes out the one
parent there was. "No cycle" is stated over sets: no set of scopes hangs from within. That nobody
else writes between the climb and the Write needs all of `Apart`: `Forgotten` says that who is
between them has an entry in hand, `LeaseHeld` that there is one such pass, `Prompt` that no
Write of a pass that is gone is under way.

`KeepsOrder` (`OrderKept`) is an invariant of each pass that drains, `Ready`: it has passed
nothing that waits without blocking the scopes of it, or without leaving it out because it was not
asked for (`Seen`, `Passed`); what it blocked as parked is held (`BlockedTrue`); and what it asks
for by name is decided by a probe whose answer is true (`InTurn`). What is held stays
held: an entry is parked for good where nobody requeues. `ParkedPlugs`
needs the census instead: it is of one relay, and there it lists every parked entry but the ones
this pass parked and blocked itself (`CensusTrue`, `CensusCovers`). A lone relay needs no lease for
any of this: whatever its lease does, nobody else writes. `EdgesKept` (`EdgeNeverGoesBack`) says what may still wait
when something younger has been written on an edge (`Overtaken`): an entry that a parked one
holds, or a purge of a scope that hangs from nothing. `StoreFollows` (`StoreFollowsTree`) says where
the backend's edge of each scope comes from (`StoreIs`: the change last written there) and the
consumer's likewise (`TreeIs`: the newest that committed; the newest entry alone may be open,
`LastOpen`). What is parked stays parked where nobody requeues, so in an empty queue nothing ever
was; then no entry was passed by a younger one of its scopes (`NoneBefore`), the change last written
is the newest (`Newest`), and the two edges are of the same change. This holds of passes asked for
several entries too: they overtake only where something is parked.

`Held` and `OriginOf` are recursive over the queue. Neither needs an induction: what is held is
the least set closed under waiting for what is held (`HeldUnfolds`), and an origin that differed
from its reason would have a least place where it does (`OriginUnfolds`).

Proving corrected two properties that every run had passed. TLC then reached both counterexamples,
in queues that no plan had been long enough for: the purge that overtakes a purge, which `Late` now
shows and `OrderKept` and `EdgeNeverGoesBack` allow; and the pass of several entries, which is the
disagreement of §12 and the premise `Singly`.

*SQL facts.* `TypeOK` is inductive only with `Known`: uuids are below the next one, and an
`UPDATE` is of a row that was read. From it follows `Outcomes`: the row that the `UPDATE`
counts is the one the call read, or another of the same uuid. `Readers` says what the two
readers know between their reads, and gives `Answers`. `Port` is the refinement, for whatever
grants ask: `Resolving` says that an `UPDATE` writes what its call asked for, or no expiry over a
row that had expired when it was read, and what has expired stays expired. So it writes what the
port would at that instant, unless the row has been given a date since: `RevivesRenewed`. `GrantMaps`, `DenyMaps`, `QuietStep`, `ReadMaps` and
`WholeMaps` map each step to one of `Facts` or to none.

*OpenFGA facts.* All five properties of `MCFga` are proved, on two inductive invariants. `Sound` is
of the calls and of a purge. A call that nobody raced knows what the store has of its key
(`Kept`); a listing that has read something remembers whether what it saw was once permitted
(`Listing`); and a purge knows of each phase it has passed that nothing is left of it, except by
those who wrote meanwhile (`Purged`, `Counted`). `Hangs` is of the trees and the edges of
bindings. The store's tree is behind the consumer's by the changes in the queue: `Run` is the
list of trees in between, each one whole, each made of the one before by the next change.
`Holds` says that an assignment without its edge is of a local role that the store's tree does not
show there, unless the sweep of the change at hand has still to come to it (`Awaits`); `Reaching`
that an edge is visible by the tree of the store or by one it is going to have, unless a stale
grant hung it or that sweep has still to hide it. Once the queue is empty there is one tree and
nothing to await, and `StoreWhole` and `OnlyStaleGrantsReach` are what is left. The step that
needs it all is a relay that dies between the edge of a move and its sweep: the next pass finds the
edge written, and `Awaits` still holds of the whole subtree only because it sweeps all the same.

*Roles.* `Base` is the type, the path of each call (which fields are set at which step) and that
the rows of the catalog stay apart. On it stand four arguments. Names: the unique index of a name
in its scope, and the check of what is visible, made again under the commit's condition on the
version of the catalog. Delegation: `Knowing` says that what a call has read of a tree that has
not moved since still holds or is remembered as once true (`InformedBy`), so that the permissions
it commits were granted and not denied in the course of the call. Purge and prune: `Purging` says
that at the last step no fact of the role is left but those that landed since the last read
(`EmptyOrLate`), and what an orphan is (`PruneBy`). Projection: `Following` says that what a
projection has read of a role which nobody has written under it is what the store and the catalog
hold (`Tracked`), and that a role which no projection has in hand is projected (`Followed`); a
purge that finds the role already purged has nothing to project, which is why the invariant is
about `Settled` roles and not about those without calls. And a list of configs: `Syncing` says
that the configs a sync is done with are in the catalog as they are written (`InSync`) unless
another wrote what is global (`SyncBy`), and that two global roles differ in name
(`GlobalsApart`). That is what makes it inductive: with one row for a name, a sync leaves one row
for each name of its config and touches no row or permission of another (`SyncWrites`,
`OneOfEach`, `SyncLeaves`), and no two configs of a list share any (`Disjoint`). Nothing but a
sync writes a global role, except the drop of one (`GlobalsKept`).

*Reconcile.* All four properties of `MCReconcile` are proved, for any number of passes, keys and
writes in flight. For `RevokedStaysRevoked` it is enough to know where a pass goes (`Aimed`: towards
the backend that serves only from itself, unless an alias named it and nothing is `gone`) and that what is gone is neither
in what the pass has read nor in what it will write (`GoneInv`). The others stand on `Half`, which
says what a destination is in the middle of a plan: what it was, less what has been deleted, with
what has been written, and nothing written while anything is left to delete; it holds of a pass
that nobody else writes under (`Alone`). When the plan is done `Half` gives what was wanted
(`DoneIs`, `DoneWhole`), and from there each property needs to know one thing more. `StoreRebuilt`:
that what a pass read of the tree is still there but for what waits in the queue (`EdgesInv`), and
that the store differs from the tree only there (`SoundInv`). `MaintenanceNeverOpens`: that the
facts wanted are among those there were (`ReadInv`), so that until something is written the store
has less of everything but its denies than it had, and once nothing is left to delete less than it
will have; and that less of everything but the denies is less said yes to (`FewerAnswers`), which
needs one parent per scope and none above the root (`RootInv`): with fewer edges a scope either
keeps its whole chain or no longer resolves. `MigrationIsFaithful`: that what was read of the tables
is what they had at one instant since the pass began (`WereInv`); that a scope which resolves is in
no cycle, and so has in the store the chain it has in the tree (`ChainWhole`, `StoreAnswers`); that
the longest of the expiries that fold into one row is alive when any of them is (`FoldIs`, over a
finite set of numbers, whose greatest is found by a least counterexample, without induction); and
that what a pass leaves asks for what it wanted (`NothingLeft`, `SelfAsksSame`).

*Relations.* `CallsInv` is of the clients. `Honest` says at which steps a write of a call may have
been answered, so that its failure is marked. A write whose answer is lost leaves the call as a
refused one does and the store as an answered one does (`FailedIs`, `UnheardIs`; for a chunk of a
purge, `ChunkGone`). `OnRenewal` is of a renewal. Until it writes, what its walk has seen
carries no deny (`WalkClear`). Between its two writes it learns of a deny that lands on a group
above only afterwards, and then the walk that follows has to find it: a deny is in reach from what
the walk has still to see, by a path that what it has seen does not cut (`WalkFinds`), for as long
as nobody takes anything away; the walk can end only by finding it, and the caller is told. A pass
enters only as one who writes. `PurgesInv` is of a purge: there is a store that it read, and the
store is now that one less the keys it has deleted (`Midway`). Its chunks are of one class, and a
class goes before the next (`ChunkInClasses`): if the memberships fit in one write, then either only
allows have gone, or no allow and no membership is left (`InClasses`). In the first case the store
grants no more than it did, in the second no more than it will (`GrantsLess`): memberships alike,
fewer allows, more denies. The walks over groups and the chunks of a write are functions over
numbers and would need an induction; `UpTo` gives one without an operator for a parameter: in a
finite set of numbers there is a least one outside.

`PassesInv` is of the pass. It joins to `CallsInv` that a group nests in groups of its own
partition (`Together`), and that a pass which nobody raced has steps, context and precedences that
are those of the store it began with (`Recorded`), and has led the store where the steps done lead
it and no further, with at most one renewal between its two writes (`Halfway`). The order among
the steps done and those left is all that is needed of the order: whatever is left comes after, by
phase and by precedence (`NextGoesFirst`; with no residue a component is a single step,
`OneStepEach`). The argument of `PassesNeverOpen` is of that cut. Before the memberships and after
them one of the ends grants as much, by the phases (`MidstGrants`). Among them: what the store
brings a subject into, the memberships it shares with one end do (`OneEndReaches`, from C3). So an
allow that counts in the store counts in that end, unless a deny stops it there that a membership
brings which is in that end and not in the store (`StopsAt`). Of that membership, the one that
brings the allow, and the one that brings such a deny at the other end, two are in an order that
the cut does not keep (`MiddleCounts`, by C1, C2 and C4). The self-cut is where expiries enter: it
looks at memberships that no step changes, and they must be alive still (`StaysEffective`, which
is why `Lapsed` is there). Between the two writes of a renewal a membership is missing, of a group
that carries no deny (`WithoutGrants`). `PassesLeave` reads off the same `Halfway`, with nothing
left: the store is the planned `Outcome`, a plan over it is empty (`LeavesNothing`), and a pruned
one is at every later instant what the source is (`LeavesPruned`).

`DriversAlwaysAgree` is of the answers, for every set of tuples, not only those of a run. Walks of
bounded length are least closed sets (`SpreadCloses`, by counting what each round adds:
`GroupsAre`, `DownIs`, `UpIs`). The model of OpenFGA is two recursive functions over the
relations, and what they give is found by the least or the greatest rank at which it would differ
(`ByRank`): `denied_X` is a deny on something that `X` gives (`FgaDeniedIs`), and a relation is
had by an allow below it that no such deny cuts (`FgaCheckIs`). A deny that `decideMany` tells of
on SQL reaches a relation below that includes none (`LeafBelow`), which is where OpenFGA is asked.

Proving changed the model of relations. A purge that has ended and whose keys are still compared
now remembers the writes of a pass, as it did those of a client; the second write of a pass's
renewal can be refused by a tuple that came between, and a guarded one walks again (`PassPut`, as
`relate` does); what clients may ask and the scenes start with are assumptions (`Fits`,
`RelationsAssumption`); sets of pairs are filtered by components; and `Phase`, whose cases
overlapped, decides in the order of the code. `PassNeverOpens` itself had passed every run and was
not true: it spoke of objects that the destination does not declare, where the pass judges
nothing, and of instants at which what the order counts on is gone. TLC reaches both once a scene
has them; the second is the disagreement of §12.

*Only model-checked:* all of `ScopeReads` (`ReadsTrue`, `ListsTrue`), whose climbs and expansions
read the tree one scope at a time, so that what was read is of no one instant; and the liveness
properties `FleetThaws`, `QuestionsEndOrHang` and `EntrySettles`, which the prover does not reach.

## 14 What is not modelled

Components with status `not_modelled` in `PROJECT.json`, with the reason: configuration, entry
points, HTTP, provisioning and test code have no steps to model. What each module leaves out
of its component is said in its section and in the component's note. Everywhere: wording and
status of errors, logging, metrics of a pass, dialects of SQL, the shape of identifiers, and
calls within a transaction of the caller.

## 15 Plan

Done, in this order: `Freeze`, `CatalogCache`, `ScopeRelay`, `Facts` with `SqlFacts`, their
proofs, `FgaFacts`, `Roles`, `Reconcile`, `Relations`, `ScopeReads`, and the proofs of the
relay, of `Roles`, of `FgaFacts`, of `Reconcile` and of `Relations`, its pass and its answers too.
What would add most next:

1. `SqlFacts` within a transaction of the caller: 409 instead of a second read.
2. Proofs about `ScopeReads`: what a climb knows of a tree that moves under it.
3. An abstract store that both `SqlFacts` and `FgaFacts` implement. It is not `Facts`: on OpenFGA
   a renewal has an instant with no assignment, which the port does not promise away.

## 16 Running

    tlc -workers 2 -config MCFreezeApart.cfg MCFreeze
    tlapm FreezeProofs.tla

| run | seconds on two workers | | run | seconds |
|---|---|---|---|---|
| `MCFreezeApart` | 100 | | `MCFga` | 150 |
| `MCFreezeNested` | 105 | | `MCRoles` | 60 |
| `MCCatalog` | 105 | | `MCReconcile` | 95 |
| `MCRelay` | 190 | | `MCRelations` | 100 |
| `MCSqlFacts` | 185 | | `MCScopeReads` | 50 |

`MCCatalogHang` and `MCReconcileDies` end in seconds with their counterexamples.
