----------------------------- MODULE Relations -----------------------------
(***************************************************************************)
(* Writes of relations in one store: clients that call the driver through  *)
(* its manager (src/src/relations/manager.ts), and the pass of             *)
(* authz:relations:reconcile that brings the store to a source             *)
(* (src/src/relations/reconcile.ts).  On OpenFGA each request is a step,   *)
(* a renewal is two and a purge one per chunk, and any of them may fail;   *)
(* on SQL each call is one transaction.  The pass runs in a window of      *)
(* frozen writes (Freeze has the window), which a call that passed its     *)
(* gate before may still cross.                                            *)
(***************************************************************************)
EXTENDS RelationPlan

CONSTANTS
    Client,
    Scenes,     \* the sets from which each field of the request, the store, what clients may
                \* ask and the bounds (calls, passes, failures, instants) start
    WriteMax,   \* RELATIONS_PURGE_WRITE_MAX
    MaxClock    \* bound: the clock stops there

\* What a client asks: a tuple, or an object or a subject to purge, and an expiry.
Ask == [op : {"relate", "unrelate", "deny", "removeDeny", "purgeObject", "purgeSubject"},
        t : Tuple, e : Expiry \cup {Omitted}]

\* relate and unrelate are of what allows, deny and removeDeny of denies.
Fits(a, U) ==
    /\ a \in Ask
    /\ a.op \in {"relate", "unrelate", "deny", "removeDeny"} =>
           a.t \in U /\ (a.t.deny <=> a.op \in {"deny", "removeDeny"})

ASSUME RelationsAssumption ==
    /\ WriteMax \in Nat \ {0} /\ MaxClock \in Nat
    /\ \A s \in Scenes : \A d \in s.dst :
           /\ DOMAIN d \subseteq Tuple /\ IsFiniteSet(DOMAIN d)
           /\ \A t \in DOMAIN d : t.user \in Group => PartOf[t.user] = PartOf[t.object]
           /\ s.src \cup {d} \subseteq [DOMAIN d -> Expiry \cup {Absent}]
           /\ \A a \in s.asks : Fits(a, DOMAIN d)
    /\ \A s \in Scenes :
           /\ s.knows \cup s.prune \cup s.atomic \subseteq BOOLEAN
           /\ s.phase \subseteq [Object -> Phases]
           /\ {s.calls, s.passes, s.fails, s.ticks} \subseteq Nat

VARIABLES
    clock,
    q,          \* the request of the pass; q.atomic tells the drivers apart
    dst,        \* the store: dst[t] is until when, or Absent
    asks,
    pass,
    call,       \* call[c]: the call of client c
    left        \* what is left of each bound

vars == <<clock, q, dst, asks, pass, call, left>>

Now == LiveIn(dst, clock)

\* A pass: the steps left of each partition, the expired rows to delete first, the tuples of
\* both ends and the order among them; the renewal it is in the middle of and whether that is
\* guarded.  As history: its
\* start, what it may let the store grant at each instant, and whether another wrote since
\* or its order has a cycle.
NoPass == [pc |-> "idle", todo |-> [k \in Partition |-> {}], old |-> [k \in Partition |-> {}],
           begun |-> {}, context |-> [k \in Partition |-> {}], prec |-> {}, mid |-> {},
           guarded |-> FALSE, start |-> <<>>, now |-> 0, may |-> <<>>, raced |-> FALSE, cyclic |-> FALSE]

\* A call: its request to come and what it asked for; the instant it took, the expiry to
\* write, whether its renewal is guarded, what its walk has to see and has seen; the purge's
\* filters and steps; its outcome: whether the failure is marked as partial or unknown, and
\* what it says of a deny.  As history: whether a write of it was answered, one landed whose
\* answer was lost, it cut a live membership, others wrote under way, a group lost its hold
\* of a deny meanwhile, or a deny did not reach who was being renewed.
NoCall == [pc |-> "idle", ask |-> [op |-> "none"], now |-> 0, e |-> Forever, guarded |-> FALSE,
           queue |-> {}, seen |-> {}, filters |-> {}, keys |-> {}, rest |-> {}, batched |-> FALSE,
           marked |-> FALSE, note |-> "none",
           wrote |-> FALSE, lost |-> FALSE, held |-> FALSE, touched |-> FALSE,
           eased |-> FALSE, window |-> FALSE, may |-> {}]

Ongoing(c) == call[c].pc \notin {"idle", "done", "failed"}
Frozen     == pass.pc \in {"going", "put"}

Init ==
    /\ clock = 0
    /\ \E s \in Scenes :
           /\ \E src \in s.src, phase \in s.phase, k \in s.knows, p \in s.prune, a \in s.atomic :
                  q = [src |-> src, phase |-> phase, knows |-> k, prune |-> p, atomic |-> a]
           /\ dst \in s.dst /\ asks = s.asks
           /\ left = [calls |-> s.calls, passes |-> s.passes, fails |-> s.fails, ticks |-> s.ticks]
    /\ pass = NoPass
    /\ call = [c \in Client |-> NoCall]

-----------------------------------------------------------------------------
(* What a write of one actor means for the others.                         *)

\* Between the two writes of the renewal of a live membership its group carries a deny.
Exposed(x, d) ==
    /\ x.pc = "put" /\ x.held
    /\ CarriedDenies(LiveIn(d, clock), x.ask.t.object) # {}

Loses(d) == \E t \in DOMAIN d : d[t] = Absent /\ dst[t] # Absent

\* The store becomes d: by a request of a call, which is now x, or by another's, as call k
\* remembers it.
Made(x, d) == [x EXCEPT !.window = @ \/ Exposed(x, d), !.wrote = @ \/ d # dst]

Saw(k, d) ==
    IF d = dst \/ (~Ongoing(k) /\ call[k].may = {}) THEN call[k]
    ELSE [call[k] EXCEPT !.touched = TRUE, !.eased = @ \/ (Ongoing(k) /\ Loses(d)),
                         !.window = @ \/ Exposed(call[k], d)]

Effect(c, x, d) ==
    /\ dst' = d
    /\ call' = [k \in Client |-> IF k = c THEN x ELSE Saw(k, d)]
    /\ pass' = [pass EXCEPT !.raced = @ \/ (d # dst /\ pass.pc # "idle")]
    /\ UNCHANGED <<clock, q, asks>>

Land(c, x, d) == Effect(c, Made(x, d), d) /\ UNCHANGED left

\* A read of client c.
Reads(c, x) ==
    /\ call' = [call EXCEPT ![c] = x]
    /\ UNCHANGED <<clock, q, dst, asks, pass, left>>

Failing(x, marked) == [x EXCEPT !.pc = "failed", !.marked = marked]

Set(t, e) == [dst EXCEPT ![t] = e]

-----------------------------------------------------------------------------
(* The manager.  It refuses a write in a frozen window, which it checks    *)
(* before the driver's call and not during it, and a deny on what does not *)
(* take denies.                                                            *)

Begin(c) ==
    /\ ~Ongoing(c) /\ left.calls > 0 /\ ~Frozen
    /\ \E a \in asks :
           /\ a.op \in {"relate", "deny", "unrelate", "removeDeny"} => ~Undeclared(q, a.t)
           /\ a.op = "deny" => a.t.deny /\ q.phase[a.t.object] = "write"
           /\ call' = [call EXCEPT ![c] = [NoCall EXCEPT !.pc = IF q.atomic THEN "sql" ELSE a.op,
                                                         !.ask = a, !.now = clock]]
    /\ left' = [left EXCEPT !.calls = @ - 1]
    /\ UNCHANGED <<clock, q, dst, asks, pass>>

-----------------------------------------------------------------------------
(* SQL (src/src/drivers/database_relations_driver.ts).                     *)

Filters(a) == IF a.op = "purgeObject" THEN {{a.t.object}} ELSE {Group, Object}

\* The rows of a partition that a filter of a purge finds.
Matches(a, f, d) ==
    {t \in DOMAIN d : /\ d[t] # Absent /\ t.object \in f
                      /\ PartOf[t.object] = PartOf[a.t.object]
                      /\ a.op = "purgeSubject" => t.user = a.t.user}

Without(d, gone) == [t \in DOMAIN d |-> IF t \in gone THEN Absent ELSE d[t]]

Purged(a, d) == Without(d, UNION {Matches(a, f, d) : f \in Filters(a)})

\* #upsert: in one transaction it reads the row, deletes it and inserts the new one.
SqlUpsert(c) ==
    LET a == call[c].ask
    IN /\ call[c].pc = "sql" /\ a.op \in {"relate", "deny"}
       /\ Land(c, [call[c] EXCEPT !.pc = "done"],
               Set(a.t, IF a.op = "deny" THEN Forever ELSE Resolve(dst[a.t], a.e, call[c].now)))

\* #deleteTuple, purgeObject and purgeSubject: one DELETE.
SqlDelete(c) ==
    LET a == call[c].ask
    IN /\ call[c].pc = "sql" /\ a.op \notin {"relate", "deny"}
       /\ Land(c, [call[c] EXCEPT !.pc = "done"],
               IF a.op \in {"unrelate", "removeDeny"} THEN Set(a.t, Absent) ELSE Purged(a, dst))

-----------------------------------------------------------------------------
(* OpenFGA (src/src/drivers/openfga_relations_driver.ts).                  *)

\* relate reads the key.  A renewal of a live membership is guarded: it walks the groups
\* above for a deny they carry.
ReadKey(c) ==
    LET x == call[c]
        t == x.ask.t
        e == Resolve(dst[t], x.ask.e, x.now)
    IN /\ x.pc = "relate"
       /\ Reads(c, IF dst[t] = e THEN [x EXCEPT !.pc = "done"]
                   ELSE IF dst[t] = Absent THEN [x EXCEPT !.pc = "blind", !.e = e]
                   ELSE IF t.object \in Group /\ Live(dst[t], x.now)
                   THEN [x EXCEPT !.pc = "walk", !.e = e, !.guarded = TRUE,
                                  !.queue = {t.object}, !.seen = {t.object}]
                   ELSE [x EXCEPT !.pc = "cut", !.e = e])

\* A tuple that was not there is one write, which fails if it now is with another expiry.
WriteNew(c) ==
    LET x == call[c] IN
    /\ x.pc = "blind"
    /\ IF dst[x.ask.t] \in {Absent, x.e}
       THEN Land(c, [x EXCEPT !.pc = "done"], Set(x.ask.t, x.e))
       ELSE Reads(c, Failing(x, FALSE))

\* #carriedDeny at a group: its denies, and else the groups it is in.  The walk before the
\* writes refuses the renewal; the ones after only say what they find.
Walk(c) ==
    LET x == call[c]
        live == LiveIn(dst, x.now)
    IN /\ x.pc \in {"walk", "recheck", "salvage"} /\ x.queue # {}
       /\ \E g \in x.queue :
              LET found == {d \in Denies(live) : d.user = g}
                  above == {t.object : t \in {y \in Nesting(live) : y.user = g}} \ x.seen
              IN Reads(c, IF found = {}
                          THEN [x EXCEPT !.queue = (@ \cup above) \ {g}, !.seen = @ \cup above]
                          ELSE IF x.pc = "walk" THEN Failing(x, FALSE)
                          ELSE [Failing(x, TRUE) EXCEPT !.note = "deny"])

Walked(c) ==
    LET x == call[c] IN
    /\ x.pc \in {"walk", "recheck", "salvage"} /\ x.queue = {}
    /\ Reads(c, CASE x.pc = "walk"    -> [x EXCEPT !.pc = "cut"]
                  [] x.pc = "recheck" -> [x EXCEPT !.pc = "done"]
                  [] OTHER            -> Failing(x, TRUE))

\* The two writes of a renewal.
Halved(x) == [x EXCEPT !.pc = "put", !.held = x.ask.t.object \in Group /\ x.ask.t \in Now]

Cut(c) ==
    /\ call[c].pc = "cut"
    /\ Land(c, Halved(call[c]), Set(call[c].ask.t, Absent))

\* Bug: nothing is read again once both writes are in.
PutAndGo(c) ==
    LET x == call[c] IN
    /\ x.pc = "put" /\ dst[x.ask.t] \in {Absent, x.e}
    /\ Land(c, [x EXCEPT !.pc = "done"], Set(x.ask.t, x.e))

\* After it, and after its failure, a guarded renewal walks again.
Again(x, pc) == [x EXCEPT !.pc = pc, !.queue = {x.ask.t.object}, !.seen = {x.ask.t.object}]

Put(c) ==
    LET x == call[c] IN
    /\ x.pc = "put" /\ dst[x.ask.t] \in {Absent, x.e}
    /\ Land(c, IF x.guarded THEN Again(x, "recheck") ELSE [x EXCEPT !.pc = "done"],
            Set(x.ask.t, x.e))

\* It is refused, by a tuple that came between with another expiry.
PutClashes(c) ==
    LET x == call[c] IN
    /\ x.pc = "put" /\ dst[x.ask.t] \notin {Absent, x.e}
    /\ Reads(c, IF x.guarded THEN Again(x, "salvage") ELSE Failing(x, TRUE))

\* unrelate and removeDeny; a tuple that is not there is ignored.
Drop(c) ==
    /\ call[c].pc \in {"unrelate", "removeDeny"}
    /\ Land(c, [call[c] EXCEPT !.pc = "done"], Set(call[c].ask.t, Absent))

\* deny: one write; a deny that is there with an expiry is an error of the store's config.
WriteDeny(c) ==
    LET x == call[c] IN
    /\ x.pc = "deny"
    /\ IF dst[x.ask.t] \in {Absent, Forever}
       THEN Land(c, [x EXCEPT !.pc = "done"], Set(x.ask.t, Forever))
       ELSE Reads(c, Failing(x, FALSE))

\* #purgeByFilters reads one filter after another.
PurgeRead(c) ==
    LET x == call[c] IN
    /\ x.pc \in {"purgeObject", "purgeSubject"}
    /\ \E f \in Filters(x.ask) \ x.filters :
           LET keys == x.keys \cup Matches(x.ask, f, dst)
               all  == x.filters \cup {f} = Filters(x.ask)
           IN Reads(c, [x EXCEPT
                  !.filters = @ \cup {f}, !.keys = keys, !.pc = IF all THEN "purge" ELSE @,
                  !.rest = {[do |-> "delete", as |-> "delete", t |-> t] : t \in keys},
                  !.may = IF all THEN Grants(Now) \cup Grants(LiveIn(Purged(x.ask, dst), clock))
                          ELSE @])

\* Bug: the keys go as they were read, a chunk at a time.
ChunksAsRead(x) ==
    {s \in SUBSET x.rest : Cardinality(s) = Min({WriteMax, Cardinality(x.rest)})}

\* purgeWrites: all in one write if they fit; else by class and in the order of deletes.
Chunks(x) ==
    LET all == {[do |-> "delete", as |-> "delete", t |-> t] : t \in x.keys}
    IN IF Cardinality(all) <= WriteMax THEN {all}
       ELSE DeleteChunks(all, Precedences(all, x.keys, FALSE), x.rest, WriteMax)

PurgeBatch(c) ==
    LET x == call[c] IN
    /\ x.pc = "purge" /\ x.rest # {}
    /\ \E s \in Chunks(x) :
           Land(c, [x EXCEPT !.rest = @ \ s, !.batched = TRUE],
                Without(dst, {y.t : y \in s}))

\* The filters that found something are read again: the purge is not confirmed if any
\* still does.
PurgeEnd(c) ==
    LET x == call[c]
        again == {f \in Filters(x.ask) : \E t \in x.keys : t.object \in f}
    IN /\ x.pc = "purge" /\ x.rest = {}
       /\ Reads(c, IF \A f \in again : Matches(x.ask, f, dst) = {}
                   THEN [x EXCEPT !.pc = "done"]
                   ELSE [Failing(x, x.batched) EXCEPT !.note = "residue"])

\* How a call goes on from a request, or a transaction, that failed, by a timeout or not.  A
\* timeout, and what was answered before, make the error that of a write that may be there;
\* a guarded renewal that failed in the middle still walks, and a walk after the writes that
\* fails says that it does not know.
Failed(x, late) ==
    IF x.pc = "put" /\ x.guarded THEN Again(x, "salvage")
    ELSE IF x.pc \in {"recheck", "salvage"} THEN [Failing(x, TRUE) EXCEPT !.note = "unknown"]
    ELSE Failing(x, late \/ x.pc = "put" \/ x.batched)

Failure == left.fails > 0 /\ left' = [left EXCEPT !.fails = @ - 1]

\* It did nothing.
Fails(c) ==
    /\ Ongoing(c) /\ Failure
    /\ \E late \in BOOLEAN : call' = [call EXCEPT ![c] = Failed(call[c], late)]
    /\ UNCHANGED <<clock, q, dst, asks, pass>>

\* The stores that the write at hand, if it is one, leaves when it lands.
Sent(x) ==
    LET a == x.ask
        unless(e) == IF dst[a.t] \in {Absent, e} THEN {Set(a.t, e)} ELSE {}
    IN CASE x.pc = "sql" ->
               {IF a.op = "relate" THEN Set(a.t, Resolve(dst[a.t], a.e, x.now))
                ELSE IF a.op = "deny" THEN Set(a.t, Forever)
                ELSE IF a.op \in {"unrelate", "removeDeny"} THEN Set(a.t, Absent)
                ELSE Purged(a, dst)}
         [] x.pc \in {"unrelate", "removeDeny", "cut"} -> {Set(a.t, Absent)}
         [] x.pc \in {"blind", "put"} -> unless(x.e)
         [] x.pc = "deny" -> unless(Forever)
         [] OTHER -> {}

\* It landed, as y leaves the call, and its answer was lost.
Unheard(c, y, d) ==
    LET x == call[c]
    IN Effect(c, [y EXCEPT !.lost = @ \/ d # dst,
                           !.window = @ \/ (x.pc = "cut" /\ Exposed(Halved(x), d))], d)

LosesAnswer(c) ==
    LET x == call[c] IN
    /\ Ongoing(c) /\ Failure
    /\ \E late \in BOOLEAN :
           \/ \E d \in Sent(x) : Unheard(c, Failed(x, late), d)
           \/ /\ x.pc = "purge" /\ x.rest # {}
              /\ \E s \in Chunks(x) :
                     Unheard(c, [Failed(x, late) EXCEPT !.rest = @ \ s], Without(dst, {y.t : y \in s}))

-----------------------------------------------------------------------------
(* The pass.                                                               *)

\* reconcileRelations reads both stores, plans every partition, and refuses the whole pass
\* before any write for a mass delete or for a deny it cannot carry over.
PassBegin ==
    LET refuse == \E k \in Partition : MassDelete(q, dst, clock, k) \/ DenyRefused(q, dst, clock, k)
        go(k)  == ~refuse /\ ~Refused(q, dst, clock, k)
        steps  == [k \in Partition |-> IF go(k) THEN Steps(q, dst, clock, k) ELSE {}]
        context == [k \in Partition |-> Context(q, dst, clock, k)]
        prec   == UNION {Precedences(steps[k], context[k], q.knows) : k \in Partition}
        ends   == {dst, Outcome(q, dst, clock)}
    IN /\ ~Frozen /\ left.passes > 0
       /\ pass' = [NoPass EXCEPT
              !.pc = IF refuse THEN "refused" ELSE "going", !.todo = steps, !.context = context,
              !.old = [k \in Partition |-> IF go(k) THEN Expired(q, dst, clock, k) ELSE {}],
              !.prec = prec, !.start = dst, !.now = clock,
              !.may = [n \in clock .. MaxClock |-> UNION {Grants(LiveIn(d, n)) : d \in ends}],
              !.raced = \E c \in Client : Ongoing(c), !.cyclic = Residue(prec) # {}]
       /\ left' = [left EXCEPT !.passes = @ - 1]
       /\ UNCHANGED <<clock, q, dst, asks, call>>

\* A write of the pass.
PassWrites(p, d) ==
    /\ dst' = d
    /\ call' = [k \in Client |-> Saw(k, d)]
    /\ pass' = p
    /\ UNCHANGED <<clock, q, asks, left>>

\* Partitions go one after another, in an order left open.
Undone(k) == pass.old[k] \cup {s.t : s \in pass.todo[k]} # {}

AtHand(k) ==
    /\ pass.pc = "going" /\ Undone(k)
    /\ \A j \in pass.begun \ {k} : ~Undone(j)

\* The expired rows, before anything else.
PassSweep(k) ==
    /\ AtHand(k)
    /\ \E t \in pass.old[k] :
           PassWrites([pass EXCEPT !.old[k] = @ \ {t}, !.begun = @ \cup {k}],
                      IF Undeclared(q, t) THEN dst ELSE Set(t, Absent))

NextOf(k) ==
    IF pass.old[k] # {} THEN {}
    ELSE NextSteps(pass.context[k], pass.prec, pass.todo[k])

\* One step.  What the destination does not declare is refused by it and skipped; a relate
\* of a tuple that is there is, on OpenFGA, a renewal in two writes.
PassStep(k) ==
    /\ AtHand(k)
    /\ \E s \in NextOf(k) :
           LET p == [pass EXCEPT !.todo[k] = @ \ {s}, !.begun = @ \cup {k}]
           IN IF Undeclared(q, s.t) THEN PassWrites(p, dst)
              ELSE IF s.do = "delete" THEN PassWrites(p, Set(s.t, Absent))
              ELSE IF s.t.deny THEN PassWrites(p, Set(s.t, Forever))
              ELSE IF q.atomic \/ dst[s.t] \in {Absent, q.src[s.t]}
              THEN PassWrites(p, Set(s.t, q.src[s.t]))
              ELSE IF /\ s.t.object \in Group /\ s.t \in Now
                      /\ CarriedDenies(Now, s.t.object) # {}
              THEN PassWrites([pass EXCEPT !.pc = "dead"], dst)
              ELSE PassWrites([p EXCEPT !.pc = "put", !.mid = {s.t},
                                        !.guarded = s.t.object \in Group /\ s.t \in Now],
                              Set(s.t, Absent))

\* It is refused by a tuple that came between with another expiry, and a guarded one walks
\* again: either ends the pass.
PassPut ==
    /\ pass.pc = "put"
    /\ \E t \in pass.mid :
           LET d == IF dst[t] \in {Absent, q.src[t]} THEN Set(t, q.src[t]) ELSE dst
               fine == /\ d[t] = q.src[t]
                       /\ pass.guarded => CarriedDenies(LiveIn(d, clock), t.object) = {}
           IN PassWrites([pass EXCEPT !.pc = IF fine THEN "going" ELSE "dead", !.mid = {}], d)

PassEnd ==
    /\ pass.pc = "going"
    /\ \A k \in Partition : ~Undone(k)
    /\ pass' = [pass EXCEPT !.pc = "done"]
    /\ UNCHANGED <<clock, q, dst, asks, call, left>>

\* A write of the pass fails, or the process dies.
PassDies ==
    /\ Frozen /\ left.fails > 0
    /\ pass' = [pass EXCEPT !.pc = "dead", !.mid = {}]
    /\ left' = [left EXCEPT !.fails = @ - 1]
    /\ UNCHANGED <<clock, q, dst, asks, call>>

Tick ==
    /\ left.ticks > 0 /\ clock < MaxClock
    /\ clock' = clock + 1
    /\ call' = [c \in Client |->
           IF Ongoing(c) \/ call[c].may # {} THEN [call[c] EXCEPT !.touched = TRUE, !.eased = TRUE]
           ELSE call[c]]
    /\ left' = [left EXCEPT !.ticks = @ - 1]
    /\ UNCHANGED <<q, dst, asks, pass>>

Next ==
    \/ Tick
    \/ PassBegin \/ PassPut \/ PassEnd \/ PassDies
    \/ \E k \in Partition : PassSweep(k) \/ PassStep(k)
    \/ \E c \in Client :
           \/ Begin(c) \/ Fails(c) \/ LosesAnswer(c)
           \/ SqlUpsert(c) \/ SqlDelete(c)
           \/ ReadKey(c) \/ WriteNew(c) \/ Walk(c) \/ Walked(c) \/ Cut(c) \/ Put(c) \/ PutClashes(c)
           \/ Drop(c) \/ WriteDeny(c) \/ PurgeRead(c) \/ PurgeBatch(c) \/ PurgeEnd(c)

Spec == Init /\ [][Next]_vars

-----------------------------------------------------------------------------
(* Properties.                                                             *)

TypeOK ==
    /\ clock \in 0 .. MaxClock /\ DOMAIN q.src = DOMAIN dst
    /\ DOMAIN dst \subseteq Tuple /\ \A t \in DOMAIN dst : dst[t] \in Expiry \cup {Absent}
    /\ pass.pc \in {"idle", "going", "put", "done", "dead", "refused"}
    /\ \A k \in Partition : pass.todo[k] \subseteq Step
    /\ \A c \in Client : call[c].note \in {"none", "deny", "unknown", "residue"}
    /\ DOMAIN left = {"calls", "passes", "fails", "ticks"}

\* Over every content the store is left with, the recursive query of SQL and the model of
\* OpenFGA give the same answers to check and decideMany, and the listings of SQL are those
\* of check (repository README: "both drivers answer the same").
DriversAgree ==
    TypeOK /\ (pass.pc = "idle" /\ (\A c \in Client : ~Ongoing(c)) => AnswersAgree(Now))

\* What the order of the pass rests on besides the steps it orders has expired since: a
\* membership that it leaves, or a deny that it does not make last.
Lapsed ==
    LET outcome == Outcome(q, pass.start, pass.now)
    IN \E t \in LiveIn(pass.start, pass.now) \ LiveIn(pass.start, clock) :
           \/ t.object \in Group /\ outcome[t] = pass.start[t]
           \/ t.deny /\ outcome[t] # Forever

\* While a pass goes, wherever it is cut and as long as it stays cut, the store grants on
\* what it declares no more than it would had the pass not begun or had it ended, at that
\* same instant, unless the pass reported a cycle or another wrote (tuple_order.ts:50, "no
\* intermediate state grants what neither end granted"), or the pass, which took the config
\* into account, counted on what has lapsed.
PassNeverOpens ==
    pass.pc # "idle" /\ ~pass.raced /\ ~pass.cyclic /\ ~(q.knows /\ Lapsed) =>
        \A x \in Grants(Now) :
            (x[3] \in Object => q.phase[x[3]] # "undeclared") => x \in pass.may[clock]

\* "At no instant of the horizon does a prefix grant outside initial ∪ source ... without a
\* declared order residue" (README.md:932 of the repository): the same with nothing said of
\* what lapses.  It does not hold.
HorizonHolds ==
    pass.pc # "idle" /\ ~pass.raced /\ ~pass.cyclic =>
        \A x \in Grants(Now) :
            (x[3] \in Object => q.phase[x[3]] # "undeclared") => x \in pass.may[clock]

\* A refused pass, and a refused partition, are as they were; a pass that ends has written
\* what it planned, a pruned one leaves what the source allows and at least what it denies,
\* from then on, and another pass has nothing to do.
PassLeaves ==
    LET declared(S) == {t \in S : ~Undeclared(q, t)}
        kept(k) == \A t \in Of(k, DOMAIN dst) : dst[t] = pass.start[t]
    IN pass.pc # "idle" /\ ~pass.raced =>
        /\ pass.pc = "refused" => \A k \in Partition : kept(k)
        /\ \A k \in Partition : Refused(q, pass.start, pass.now, k) => kept(k)
        /\ pass.pc = "done" => \A k \in Partition : ~Refused(q, pass.start, pass.now, k) =>
               /\ \A t \in Of(k, DOMAIN dst) : dst[t] = Outcome(q, pass.start, pass.now)[t]
               /\ \A s \in Steps(q, dst, pass.now, k) : Undeclared(q, s.t)
               /\ q.prune => \A n \in pass.now .. MaxClock :
                      LET here  == declared(Of(k, LiveIn(dst, n)))
                          there == declared(Of(k, LiveIn(q.src, n)))
                      IN there \ Denies(there) = here \ Denies(here)
                             /\ Denies(there) \subseteq Denies(here)

\* No write of a call that fails unmarked was answered: what it may have left is the one
\* request that failed.  While a membership is renewed no deny stops reaching who it brings,
\* but for the write of another, and then the caller is told, unless another also took
\* something away meanwhile, or the delete itself was never answered
\* (openfga_relations_driver.ts:787).
CallsTellTrue ==
    \A c \in Client :
        /\ call[c].pc = "failed" /\ ~call[c].marked => ~call[c].wrote
        /\ call[c].window => call[c].touched
        /\ call[c].window /\ ~call[c].eased /\ call[c].wrote /\ call[c].pc \in {"done", "failed"}
               => call[c].note \in {"deny", "unknown"}

\* "A 503 that is not a timeout (connection refused) means the write did not happen and emits
\* nothing" (README.md:284 of the repository).  It does not hold of a request that landed.
UnmarkedMeansUnwritten ==
    \A c \in Client : call[c].pc = "failed" /\ ~call[c].marked => ~call[c].wrote /\ ~call[c].lost

\* A purge, wherever it is cut, leaves the store granting no more than before it or after it,
\* if its memberships fit in one write; and it finds something left only if another wrote
\* (openfga_relations_driver.ts:1627).
PurgeIsWhole ==
    \A c \in Client :
        /\ call[c].may # {} /\ ~call[c].touched /\ Cardinality(Memberships(call[c].keys)) <= WriteMax
               => Grants(Now) \subseteq call[c].may
        /\ call[c].note = "residue" => call[c].touched
=============================================================================
