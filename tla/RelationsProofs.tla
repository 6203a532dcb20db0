--------------------------- MODULE RelationsProofs ---------------------------
(* What holds of the relations for any groups, stores, clients and passes.  *)
EXTENDS Relations, TLAPS, FiniteSetTheorems

\* Induction up to n, for a set of numbers: a least one outside would move all those
\* outside down by one, and n would be left without one to come from.
LEMMA UpTo ==
  ASSUME NEW n \in Nat, NEW X \in SUBSET (0 .. n), 0 \in X,
         \A k \in 1 .. n : k - 1 \in X => k \in X
  PROVE  X = 0 .. n
  <1> SUFFICES ASSUME NEW m \in 0 .. n, m \notin X PROVE FALSE
    OBVIOUS
  <1> DEFINE Y == {k \in 0 .. m : k \notin X}
             f == [k \in Y |-> k - 1]
  <1>1. \A k \in Y : k - 1 \in Y
    OBVIOUS
  <1>2. f \in Injection(Y, Y)
    BY <1>1 DEF Injection, IsInjective
  <1>3. IsFiniteSet(Y)
    <2>1. IsFiniteSet(0 .. m)
      BY FS_Interval
    <2> QED
      BY <2>1, FS_Subset
  <1> HIDE DEF f
  <1>4. f \in Surjection(Y, Y)
    BY <1>2, <1>3, FS_Injection
  <1>5. m \in Y
    OBVIOUS
  <1>6. PICK k \in Y : f[k] = m
    BY <1>4, <1>5 DEF Surjection
  <1>7. k - 1 = m
    BY <1>6 DEF f
  <1> QED
    BY <1>7

-----------------------------------------------------------------------------
(* Walks.                                                                  *)

\* What the arcs lead to from one round of a walk.
Further(arcs, had) == had \cup {a[2] : a \in {b \in arcs : b[1] \in had}}

\* The rounds of a walk.
Rounds(g, arcs, from, n) ==
    g = [k \in 0 .. n |-> IF k = 0 THEN from ELSE Further(arcs, g[k - 1])]

\* A walk has its rounds, as many as it is asked for.
LEMMA RoundsExist ==
  ASSUME NEW arcs, NEW from, NEW n \in Nat
  PROVE  \E g : Rounds(g, arcs, from, n)
  <1> DEFINE X == {k \in 0 .. n : \E g : Rounds(g, arcs, from, k)}
  <1>1. 0 \in X
    <2> DEFINE g == [k \in 0 .. 0 |-> from]
    <2>1. Rounds(g, arcs, from, 0)
      BY DEF Rounds
    <2> QED
      BY <2>1
  <1>2. ASSUME NEW m \in 1 .. n, m - 1 \in X PROVE m \in X
    <2>1. PICK g : Rounds(g, arcs, from, m - 1)
      BY <1>2
    <2> DEFINE h == [k \in 0 .. m |-> IF k = 0 THEN from ELSE Further(arcs, g[k - 1])]
    <2>2. \A k \in 0 .. m - 1 : g[k] = IF k = 0 THEN from ELSE Further(arcs, g[k - 1])
      BY <2>1 DEF Rounds
    <2>3. \A k \in 0 .. m - 1 : h[k] = g[k]
      BY <2>2
    <2>4. \A k \in 0 .. m : h[k] = IF k = 0 THEN from ELSE Further(arcs, h[k - 1])
      BY <2>3
    <2> HIDE DEF h
    <2>5. Rounds(h, arcs, from, m)
      <3>1. h = [k \in 0 .. m |-> h[k]]
        BY DEF h
      <3> QED
        BY <2>4, <3>1 DEF Rounds
    <2> QED
      BY <2>5
  <1> HIDE DEF X
  <1>3. X = 0 .. n
    <2>1. X \in SUBSET (0 .. n)
      BY DEF X
    <2> QED
      BY <1>1, <1>2, <2>1, UpTo
  <1> QED
    BY <1>3 DEF X

LEMMA SpreadIs ==
  ASSUME NEW arcs, NEW from, NEW n \in Nat
  PROVE  \E g : Rounds(g, arcs, from, n) /\ Spread(arcs, from, n) = g[n]
  <1> DEFINE grown == CHOOSE g : Rounds(g, arcs, from, n)
  <1>1. Rounds(grown, arcs, from, n)
    BY RoundsExist
  <1>2. Spread(arcs, from, n) = grown[n]
    BY DEF Spread, Rounds, Further
  <1> QED
    BY <1>1, <1>2

\* A set that holds where a walk begins, and all that the arcs lead to from it.
Closed(arcs, S) == \A a \in arcs : a[1] \in S => a[2] \in S

LEMMA SpreadLeast ==
  ASSUME NEW arcs, NEW from, NEW n \in Nat, NEW S, from \subseteq S, Closed(arcs, S)
  PROVE  Spread(arcs, from, n) \subseteq S
  <1>1. PICK g : Rounds(g, arcs, from, n) /\ Spread(arcs, from, n) = g[n]
    BY SpreadIs
  <1> DEFINE X == {k \in 0 .. n : g[k] \subseteq S}
  <1>2. \A k \in 0 .. n : g[k] = IF k = 0 THEN from ELSE Further(arcs, g[k - 1])
    BY <1>1 DEF Rounds
  <1>3. 0 \in X
    BY <1>2
  <1>4. ASSUME NEW k \in 1 .. n, k - 1 \in X PROVE k \in X
    <2>1. g[k] = Further(arcs, g[k - 1]) /\ g[k - 1] \subseteq S
      BY <1>2, <1>4
    <2> QED
      BY <2>1 DEF Further, Closed
  <1> HIDE DEF X
  <1>5. X = 0 .. n
    <2>1. X \in SUBSET (0 .. n)
      BY DEF X
    <2> QED
      BY <1>3, <1>4, <2>1, UpTo
  <1> QED
    BY <1>1, <1>5 DEF X

\* The walk keeps where it begins.
LEMMA SpreadFrom ==
  ASSUME NEW arcs, NEW from, NEW n \in Nat
  PROVE  from \subseteq Spread(arcs, from, n)
  <1>1. PICK g : Rounds(g, arcs, from, n) /\ Spread(arcs, from, n) = g[n]
    BY SpreadIs
  <1> DEFINE X == {k \in 0 .. n : from \subseteq g[k]}
  <1>2. \A k \in 0 .. n : g[k] = IF k = 0 THEN from ELSE Further(arcs, g[k - 1])
    BY <1>1 DEF Rounds
  <1>3. 0 \in X
    BY <1>2
  <1>4. ASSUME NEW k \in 1 .. n, k - 1 \in X PROVE k \in X
    <2>1. g[k] = Further(arcs, g[k - 1]) /\ from \subseteq g[k - 1]
      BY <1>2, <1>4
    <2> QED
      BY <2>1 DEF Further
  <1> HIDE DEF X
  <1>5. X = 0 .. n
    <2>1. X \in SUBSET (0 .. n)
      BY DEF X
    <2> QED
      BY <1>3, <1>4, <2>1, UpTo
  <1> QED
    BY <1>1, <1>5 DEF X

-----------------------------------------------------------------------------
(* Groups that carry a deny, by the sets that are closed under nesting.     *)

ClosedUp(V, S) == \A t \in Nesting(V) : t.user \in S => t.object \in S

Carries(V, gr) ==
    \A S \in SUBSET Group : gr \in S /\ ClosedUp(V, S) => \E d \in Denies(V) : d.user \in S

\* A walk with this queue, which has been past these groups, is to find a deny.
WalkFinds(V, queue, past) ==
    \A S \in SUBSET Group :
        queue \subseteq S /\ (\A t \in Nesting(V) : t.user \in S \ past => t.object \in S)
            => \E d \in Denies(V) : d.user \in S \ past

\* A walk has found nothing where it has been.
WalkClear(V, seen, queue) ==
    /\ \A d \in Denies(V) : d.user \notin seen \ queue
    /\ \A t \in Nesting(V) : t.user \in seen \ queue => t.object \in seen

-----------------------------------------------------------------------------
(* The invariant of the calls.                                             *)

Pcs == {"idle", "sql", "relate", "unrelate", "deny", "removeDeny", "purgeObject", "purgeSubject",
        "blind", "walk", "cut", "put", "recheck", "salvage", "purge", "done", "failed"}

Said == (Subject \X Rel \X Object) \cup (Holder \X {Member} \X Group)

Call == [pc : Pcs, ask : Ask \cup {NoCall.ask}, now : Nat, e : Expiry, guarded : BOOLEAN,
         queue : SUBSET Group, seen : SUBSET Group, filters : SUBSET SUBSET (Group \cup Object),
         keys : SUBSET Tuple, rest : SUBSET Step, batched : BOOLEAN, marked : BOOLEAN,
         note : {"none", "deny", "unknown", "residue"}, wrote : BOOLEAN, lost : BOOLEAN, held : BOOLEAN,
         touched : BOOLEAN, eased : BOOLEAN, window : BOOLEAN, may : SUBSET Said]

\* No write of a call that fails without a mark was answered.
Honest(x) ==
    x.wrote => \/ x.pc \in {"put", "recheck", "salvage", "done"}
               \/ x.pc = "purge" /\ x.batched
               \/ x.pc = "failed" /\ x.marked

Ends == {"idle", "done", "failed"}

\* What a call is about, by its step.
OnCourse(x, d) ==
    /\ x.pc \notin Ends => Fits(x.ask, DOMAIN d)
    /\ x.pc \in {"relate", "unrelate", "deny", "removeDeny", "purgeObject", "purgeSubject"} => x.ask.op = x.pc
    /\ x.pc = "purge" => x.ask.op \in {"purgeObject", "purgeSubject"}
    /\ x.pc \in {"blind", "walk", "cut", "put", "recheck", "salvage"} => x.ask.op = "relate"
    /\ x.guarded /\ x.pc \notin Ends => x.ask.op = "relate" /\ x.ask.t.object \in Group
    /\ x.pc \in {"walk", "recheck", "salvage"} =>
           x.guarded /\ x.queue \subseteq x.seen /\ x.ask.t.object \in x.seen
    /\ x.pc = "relate" => ~x.guarded
    /\ x.eased => x.touched
    /\ x.window => x.touched /\ x.pc \in {"put", "recheck", "salvage", "done", "failed"}

\* What a renewal knows of the denies its group carries, in the store d at instant n.
OnRenewal(x, d, n) ==
    LET V == LiveIn(d, n)
        t == x.ask.t
    IN /\ x.pc \notin Ends /\ ~x.eased => x.now = n
       /\ x.pc = "walk" /\ ~x.touched => WalkClear(V, x.seen, x.queue)
       /\ x.pc = "cut" /\ x.guarded /\ ~x.touched => ~Carries(V, t.object)
       /\ x.pc = "cut" /\ ~x.guarded /\ ~x.eased /\ t.object \in Group => d[t] # Absent /\ ~Live(d[t], n)
       /\ x.pc = "put" => /\ x.held => t.object \in Group
                          /\ x.window => x.held
                          /\ x.held /\ ~x.eased => x.guarded
                          /\ x.window /\ ~x.eased => Carries(V, t.object)
       /\ x.pc \in {"recheck", "salvage"} /\ x.window /\ ~x.eased
              => WalkFinds(V, x.queue, x.seen \ x.queue)
       /\ x.pc \in {"done", "failed"} /\ x.window /\ ~x.eased /\ x.wrote => x.note \in {"deny", "unknown"}

CallInv(x, d, n) == Honest(x) /\ OnCourse(x, d) /\ OnRenewal(x, d, n)

\* SQL and OpenFGA calls do not mix.
Modes == \A c \in Client : IF q.atomic THEN call[c].pc \in Ends \cup {"sql"} ELSE call[c].pc # "sql"

\* The steps of a pass are of tuples in play, and what it writes is in the source.
PassWell ==
    /\ \A k \in Partition : /\ pass.old[k] \subseteq DOMAIN dst
                            /\ \A s \in pass.todo[k] :
                                   s.t \in DOMAIN dst /\ (s.do # "delete" => q.src[s.t] # Absent)
    /\ \A t \in pass.mid : t \in DOMAIN dst /\ q.src[t] # Absent

Typed ==
    /\ clock \in 0 .. MaxClock
    /\ DOMAIN dst \subseteq Tuple /\ IsFiniteSet(DOMAIN dst)
    /\ dst \in [DOMAIN dst -> Expiry \cup {Absent}]
    /\ q.src \in [DOMAIN dst -> Expiry \cup {Absent}]
    /\ q.atomic \in BOOLEAN /\ q.prune \in BOOLEAN /\ q.knows \in BOOLEAN
    /\ q.phase \in [Object -> Phases]
    /\ \A a \in asks : Fits(a, DOMAIN dst)
    /\ call \in [Client -> Call]
    /\ left \in [{"calls", "passes", "fails", "ticks"} -> Nat]

\* The records of a pass; where it began and what it may grant are functions of some kind.
Pass(p) ==
    [pc : {"idle", "going", "put", "done", "dead", "refused"},
     todo : [Partition -> SUBSET Step], old : [Partition -> SUBSET Tuple], begun : SUBSET Partition,
     context : [Partition -> SUBSET Tuple], prec : SUBSET (Step \X Step), mid : SUBSET Tuple,
     guarded : BOOLEAN, start : {p.start}, now : Nat, may : {p.may}, raced : BOOLEAN, cyclic : BOOLEAN]

CallsInv ==
    /\ Typed
    /\ pass \in Pass(pass)
    /\ Modes
    /\ PassWell
    /\ \A c \in Client : CallInv(call[c], dst, clock)

-----------------------------------------------------------------------------
(* Groups that carry a deny.                                               *)

LEMMA GroupsTyped ==
  /\ Cardinality(Group) \in Nat
  /\ Group \cap Object = {} /\ Group \cap Holder = {}
  BY RelationTuplesAssumption, FS_CardinalityType

\* What a group carries it carries in every set closed under nesting.
LEMMA CarriedMeans ==
  ASSUME NEW V \in SUBSET Tuple, NEW gr \in Group, CarriedDenies(V, gr) # {}
  PROVE  Carries(V, gr)
  <1> SUFFICES ASSUME NEW S \in SUBSET Group, gr \in S, ClosedUp(V, S)
               PROVE  \E d \in Denies(V) : d.user \in S
    BY DEF Carries
  <1> DEFINE arcs == {<<t.user, t.object>> : t \in Nesting(V)}
  <1>1. Closed(arcs, S)
    BY DEF Closed, ClosedUp
  <1>2. GroupsOf(Nesting(V), gr) = Spread(arcs, {gr}, Cardinality(Group))
    BY DEF GroupsOf
  <1> HIDE DEF arcs
  <1>3. Spread(arcs, {gr}, Cardinality(Group)) \subseteq S
    BY <1>1, GroupsTyped, SpreadLeast
  <1>4. PICK d \in Denies(V) : d.user \in GroupsOf(Nesting(V), gr)
    BY DEF CarriedDenies
  <1> QED
    BY <1>2, <1>3, <1>4, ZenonT(40)

LEMMA CarriesMore ==
  ASSUME NEW V, NEW W, V \subseteq W, NEW gr, Carries(V, gr)
  PROVE  Carries(W, gr)
  BY DEF Carries, ClosedUp, Nesting, Memberships, Denies

LEMMA WalkFindsMore ==
  ASSUME NEW V, NEW W, V \subseteq W, NEW queue, NEW past, WalkFinds(V, queue, past)
  PROVE  WalkFinds(W, queue, past)
  BY DEF WalkFinds, Nesting, Memberships, Denies

\* A walk that begins at a group that carries a deny is to find one.
LEMMA WalkBegins ==
  ASSUME NEW V, NEW gr, Carries(V, gr)
  PROVE  WalkFinds(V, {gr}, {gr} \ {gr})
  BY DEF WalkFinds, Carries, ClosedUp

\* A round of it that finds nothing leaves it so.
LEMMA WalkGoesOn ==
  ASSUME NEW V \in SUBSET Tuple, NEW seen \in SUBSET Group, NEW queue \in SUBSET seen, NEW gr \in queue,
         WalkFinds(V, queue, seen \ queue),
         \A d \in Denies(V) : d.user # gr,
         NEW above, above = {t.object : t \in {y \in Nesting(V) : y.user = gr}} \ seen
  PROVE  WalkFinds(V, (queue \cup above) \ {gr}, (seen \cup above) \ ((queue \cup above) \ {gr}))
  <1> DEFINE past == seen \ queue
  <1>1. (seen \cup above) \ ((queue \cup above) \ {gr}) = past \cup {gr}
    OBVIOUS
  <1>2. \A t \in Nesting(V) : t.user = gr => t.object \in seen \cup above
    OBVIOUS
  <1> SUFFICES ASSUME NEW S \in SUBSET Group, (queue \cup above) \ {gr} \subseteq S,
                      \A t \in Nesting(V) : t.user \in S \ (past \cup {gr}) => t.object \in S
               PROVE  \E d \in Denies(V) : d.user \in S \ (past \cup {gr})
    BY <1>1 DEF WalkFinds
  <1> DEFINE R == S \cup {gr} \cup past
  <1>3. R \in SUBSET Group /\ queue \subseteq R /\ seen \cup above \subseteq R
    OBVIOUS
  <1>4. \A t \in Nesting(V) : t.user \in R \ past => t.object \in R
    BY <1>2, <1>3
  <1>5. PICK d \in Denies(V) : d.user \in R \ past
    BY <1>3, <1>4 DEF WalkFinds
  <1> QED
    BY <1>5

\* The groups a clear walk has seen, once it ends, carry no deny.
LEMMA WalkEnds ==
  ASSUME NEW V \in SUBSET Tuple, NEW seen \in SUBSET Group, NEW gr \in seen, WalkClear(V, seen, {})
  PROVE  ~Carries(V, gr)
  BY DEF WalkClear, Carries, ClosedUp

\* A round of a walk that finds nothing keeps it clear.
LEMMA WalkStaysClear ==
  ASSUME NEW V \in SUBSET Tuple, NEW seen \in SUBSET Group, NEW queue \in SUBSET seen, NEW gr \in queue,
         WalkClear(V, seen, queue), \A d \in Denies(V) : d.user # gr,
         NEW above, above = {t.object : t \in {y \in Nesting(V) : y.user = gr}} \ seen
  PROVE  WalkClear(V, seen \cup above, (queue \cup above) \ {gr})
  <1>1. (seen \cup above) \ ((queue \cup above) \ {gr}) = (seen \ queue) \cup {gr}
    OBVIOUS
  <1>2. \A t \in Nesting(V) : t.user = gr => t.object \in seen \cup above
    OBVIOUS
  <1> QED
    BY <1>1, <1>2 DEF WalkClear

-----------------------------------------------------------------------------
(* What a write means for the others.                                      *)

\* Clients and passes of OpenFGA write what is not there, take away what is, and make a deny
\* last for ever: none of them changes the expiry of an allow in place.
Mild(d) ==
    \A t \in DOMAIN dst : dst[t] # Absent => d[t] \in {dst[t], Absent} \/ (t.deny /\ d[t] = Forever)

LEMMA LiveTyped ==
  ASSUME NEW U \in SUBSET Tuple, NEW d \in [U -> Expiry \cup {Absent}], NEW n
  PROVE  LiveIn(d, n) \in SUBSET Tuple
  BY DEF LiveIn

\* Where nothing was lost, nothing that was alive is dead.
LEMMA MildKeeps ==
  ASSUME Typed, NEW d \in [DOMAIN dst -> Expiry \cup {Absent}], Mild(d), ~Loses(d), NEW n
  PROVE  LiveIn(dst, n) \subseteq LiveIn(d, n)
  <1> SUFFICES ASSUME NEW t \in DOMAIN dst, dst[t] # Absent, Live(dst[t], n)
               PROVE  d[t] # Absent /\ Live(d[t], n)
    BY DEF LiveIn
  <1>1. d[t] # Absent
    BY DEF Loses
  <1>2. d[t] = dst[t] \/ d[t] = Forever
    BY <1>1 DEF Mild
  <1> QED
    BY <1>1, <1>2 DEF Live

\* What a call remembers of the write of another.
LEMMA SawIs ==
  ASSUME Typed, NEW k \in Client, NEW d
  PROVE  LET y == Saw(k, d)
             x == call[k]
         IN /\ y \in Call
            /\ y.pc = x.pc /\ y.ask = x.ask /\ y.now = x.now /\ y.e = x.e /\ y.guarded = x.guarded
            /\ y.queue = x.queue /\ y.seen = x.seen /\ y.filters = x.filters /\ y.keys = x.keys
            /\ y.rest = x.rest /\ y.batched = x.batched /\ y.marked = x.marked /\ y.note = x.note
            /\ y.wrote = x.wrote /\ y.held = x.held /\ y.may = x.may
            /\ \/ y = x /\ (d = dst \/ (~Ongoing(k) /\ x.may = {}))
               \/ /\ y.touched
                  /\ y.eased <=> x.eased \/ (Ongoing(k) /\ Loses(d))
                  /\ y.window <=> x.window \/ Exposed(x, d)
  <1> DEFINE x == call[k]
  <1>1. x \in Call
    BY DEF Typed
  <1>2. CASE d = dst \/ (~Ongoing(k) /\ call[k].may = {})
    BY <1>1, <1>2 DEF Saw
  <1>3. CASE ~(d = dst \/ (~Ongoing(k) /\ call[k].may = {}))
    <2> DEFINE eased == x.eased \/ (Ongoing(k) /\ Loses(d))
               window == x.window \/ Exposed(x, d)
               y == [x EXCEPT !.touched = TRUE, !.eased = eased, !.window = window]
    <2>1. Saw(k, d) = y
      BY <1>3, Zenon DEF Saw
    <2>2. eased \in BOOLEAN /\ window \in BOOLEAN
      BY <1>1 DEF Call, Exposed, Loses, Ongoing
    <2>3. /\ eased <=> x.eased \/ (Ongoing(k) /\ Loses(d))
          /\ window <=> x.window \/ Exposed(x, d)
      OBVIOUS
    <2> HIDE DEF eased, window
    <2>4. /\ y \in Call
          /\ y.pc = x.pc /\ y.ask = x.ask /\ y.now = x.now /\ y.e = x.e /\ y.guarded = x.guarded
          /\ y.queue = x.queue /\ y.seen = x.seen /\ y.filters = x.filters /\ y.keys = x.keys
          /\ y.rest = x.rest /\ y.batched = x.batched /\ y.marked = x.marked /\ y.note = x.note
          /\ y.wrote = x.wrote /\ y.held = x.held /\ y.may = x.may
          /\ y.touched = TRUE /\ y.eased = eased /\ y.window = window
      BY <1>1, <2>2 DEF Call
    <2> HIDE DEF y
    <2> QED
      BY <2>1, <2>3, <2>4
  <1> QED
    BY <1>2, <1>3

\* A write of another leaves what a call knows true, or the call remembers the write.
LEMMA Bystander ==
  ASSUME CallsInv, NEW k \in Client, NEW d \in [DOMAIN dst -> Expiry \cup {Absent}], Mild(d) \/ q.atomic
  PROVE  CallInv(Saw(k, d), d, clock)
  <1> DEFINE x == call[k]
             y == Saw(k, d)
  <1>t. Typed /\ x \in Call /\ CallInv(x, dst, clock)
    BY DEF CallsInv, Typed
  <1>d. DOMAIN d = DOMAIN dst
    OBVIOUS
  <1>s. /\ y.pc = x.pc /\ y.ask = x.ask /\ y.now = x.now /\ y.guarded = x.guarded
        /\ y.queue = x.queue /\ y.seen = x.seen
        /\ y.batched = x.batched /\ y.marked = x.marked /\ y.note = x.note
        /\ y.wrote = x.wrote /\ y.held = x.held
        /\ \/ y = x /\ (d = dst \/ (~Ongoing(k) /\ x.may = {}))
           \/ /\ y.touched
              /\ y.eased <=> x.eased \/ (Ongoing(k) /\ Loses(d))
              /\ y.window <=> x.window \/ Exposed(x, d)
    BY <1>t, SawIs
  <1>o. Ongoing(k) <=> x.pc \notin Ends
    BY DEF Ongoing, Ends
  <1> HIDE DEF x, y
  <1>1. Honest(y)
    BY <1>s, <1>t DEF CallInv, Honest
  <1>2. OnCourse(y, d)
    <2>1. CASE y = x
      BY <1>d, <1>t, <2>1 DEF CallInv, OnCourse
    <2>2. CASE y.touched /\ (y.window <=> x.window \/ Exposed(x, d))
      BY <1>d, <1>s, <1>t, <2>2 DEF CallInv, OnCourse, Exposed
    <2> QED
      BY <1>s, <2>1, <2>2
  <1>3. CASE d = dst /\ y = x
    BY <1>3, <1>t DEF y
  <1>4. CASE x.pc \in Ends \cup {"sql"}
    <2>1. y.window <=> x.window
      BY <1>4, <1>s DEF Exposed, Ends
    <2>2. x.pc \in Ends => (y.eased <=> x.eased)
      BY <1>4, <1>o, <1>s
    <2>3. x.pc = "sql" => ~x.window
      BY <1>t DEF CallInv, OnCourse
    <2>4. x.eased => y.eased
      BY <1>s
    <2>5. OnRenewal(y, d, clock)
      BY <1>4, <1>s, <1>t, <2>1, <2>2, <2>3, <2>4 DEF CallInv, OnRenewal, Ends
    <2> QED
      BY <1>1, <1>2, <2>5 DEF CallInv, y
  <1>5. CASE x.pc \notin Ends \cup {"sql"} /\ ~(d = dst /\ y = x)
    <2>1. Mild(d)
      BY <1>5, <1>t DEF CallsInv, Modes, x
    <2>2. /\ y.touched
          /\ y.eased <=> x.eased \/ Loses(d)
          /\ y.window <=> x.window \/ Exposed(x, d)
      BY <1>5, <1>o, <1>s
    <2> DEFINE V == LiveIn(dst, clock)
               W == LiveIn(d, clock)
    <2>3. ~y.eased => ~x.eased /\ V \subseteq W
      BY <1>t, <2>1, <2>2, MildKeeps
    <2>4. V \in SUBSET Tuple /\ W \in SUBSET Tuple
      BY <1>t, LiveTyped DEF Typed
    <2>c. OnCourse(x, dst) /\ OnRenewal(x, dst, clock)
      BY <1>t DEF CallInv
    <2> DEFINE t == x.ask.t
    <2>5. x.pc = "cut" /\ ~x.guarded /\ ~y.eased /\ t.object \in Group => d[t] # Absent /\ ~Live(d[t], clock)
      <3> SUFFICES ASSUME x.pc = "cut", ~x.guarded, ~y.eased, t.object \in Group
                   PROVE  d[t] # Absent /\ ~Live(d[t], clock)
        OBVIOUS
      <3>1. dst[t] # Absent /\ ~Live(dst[t], clock)
        BY <2>3, <2>c DEF OnRenewal
      <3>2. t \in DOMAIN dst /\ ~t.deny
        BY <2>c DEF OnCourse, Fits, Ends
      <3>3. d[t] # Absent
        BY <2>2, <3>1, <3>2 DEF Loses
      <3> QED
        BY <2>1, <3>1, <3>2, <3>3 DEF Mild
    <2>6. x.pc = "put" => /\ x.held => t.object \in Group
                          /\ y.window => x.held
                          /\ x.held /\ ~y.eased => x.guarded
                          /\ y.window /\ ~y.eased => Carries(W, t.object)
      <3> SUFFICES ASSUME x.pc = "put"
                   PROVE  /\ x.held => t.object \in Group
                          /\ y.window => x.held
                          /\ x.held /\ ~y.eased => x.guarded
                          /\ y.window /\ ~y.eased => Carries(W, t.object)
        OBVIOUS
      <3>1. /\ x.held => t.object \in Group
            /\ y.window => x.held
            /\ x.held /\ ~y.eased => x.guarded
        BY <2>2, <2>c DEF OnRenewal, Exposed
      <3>2. ASSUME y.window, ~y.eased PROVE Carries(W, t.object)
        <4>1. CASE x.window
          <5>1. Carries(V, t.object)
            BY <2>3, <2>c, <3>2, <4>1 DEF OnRenewal
          <5> QED
            BY <2>3, <3>2, <5>1, CarriesMore
        <4>2. CASE Exposed(x, d)
          <5>1. t.object \in Group /\ CarriedDenies(W, t.object) # {}
            BY <3>1, <3>2, <4>2 DEF Exposed
          <5> QED
            BY <2>4, <5>1, CarriedMeans
        <4> QED
          BY <2>2, <3>2, <4>1, <4>2
      <3> QED
        BY <3>1, <3>2
    <2>7. x.pc \in {"recheck", "salvage"} /\ y.window /\ ~y.eased => WalkFinds(W, x.queue, x.seen \ x.queue)
      <3> SUFFICES ASSUME x.pc \in {"recheck", "salvage"}, y.window, ~y.eased
                   PROVE  WalkFinds(W, x.queue, x.seen \ x.queue)
        OBVIOUS
      <3>1. x.window /\ ~x.eased
        BY <2>2 DEF Exposed
      <3>2. WalkFinds(V, x.queue, x.seen \ x.queue)
        BY <2>c, <3>1 DEF OnRenewal
      <3> QED
        BY <2>3, <3>2, WalkFindsMore
    <2>8. ~y.eased => x.now = clock
      BY <1>5, <2>3, <2>c DEF OnRenewal
    <2>9. OnRenewal(y, d, clock)
      BY <1>5, <1>s, <2>2, <2>5, <2>6, <2>7, <2>8 DEF OnRenewal, Ends
    <2> QED
      BY <1>1, <1>2, <2>9 DEF CallInv, y
  <1> QED
    BY <1>3, <1>4, <1>5, <1>o, <1>s

-----------------------------------------------------------------------------
(* Steps of the calls.                                                     *)

\* What a call becomes by its own write.
LEMMA MadeIs ==
  ASSUME NEW x \in Call, NEW d
  PROVE  LET y == Made(x, d)
         IN /\ y \in Call
            /\ y.pc = x.pc /\ y.ask = x.ask /\ y.now = x.now /\ y.e = x.e /\ y.guarded = x.guarded
            /\ y.queue = x.queue /\ y.seen = x.seen /\ y.filters = x.filters /\ y.keys = x.keys
            /\ y.rest = x.rest /\ y.batched = x.batched /\ y.marked = x.marked /\ y.note = x.note
            /\ y.held = x.held /\ y.may = x.may /\ y.touched = x.touched /\ y.eased = x.eased
            /\ y.window <=> x.window \/ Exposed(x, d)
            /\ y.wrote <=> x.wrote \/ d # dst
  <1> DEFINE window == x.window \/ Exposed(x, d)
             wrote == x.wrote \/ d # dst
             y == [x EXCEPT !.window = window, !.wrote = wrote]
  <1>1. Made(x, d) = y
    BY Zenon DEF Made
  <1>2. window \in BOOLEAN /\ wrote \in BOOLEAN
    BY DEF Call, Exposed
  <1>3. /\ window <=> x.window \/ Exposed(x, d)
        /\ wrote <=> x.wrote \/ d # dst
    OBVIOUS
  <1> HIDE DEF window, wrote
  <1>4. /\ y \in Call
        /\ y.pc = x.pc /\ y.ask = x.ask /\ y.now = x.now /\ y.e = x.e /\ y.guarded = x.guarded
        /\ y.queue = x.queue /\ y.seen = x.seen /\ y.filters = x.filters /\ y.keys = x.keys
        /\ y.rest = x.rest /\ y.batched = x.batched /\ y.marked = x.marked /\ y.note = x.note
        /\ y.held = x.held /\ y.may = x.may /\ y.touched = x.touched /\ y.eased = x.eased
        /\ y.window = window /\ y.wrote = wrote
    BY <1>2 DEF Call
  <1> HIDE DEF y
  <1> QED
    BY <1>1, <1>3, <1>4

LEMMA SetIs ==
  ASSUME Typed, NEW t \in DOMAIN dst, NEW e \in Expiry \cup {Absent}
  PROVE  /\ Set(t, e) \in [DOMAIN dst -> Expiry \cup {Absent}]
         /\ Set(t, e)[t] = e
         /\ \A y \in DOMAIN dst \ {t} : Set(t, e)[y] = dst[y]
         /\ e = Absent \/ dst[t] \in {Absent, e} \/ (t.deny /\ e = Forever) => Mild(Set(t, e))
  BY DEF Typed, Set, Mild

LEMMA WithoutIs ==
  ASSUME Typed, NEW gone
  PROVE  /\ Without(dst, gone) \in [DOMAIN dst -> Expiry \cup {Absent}]
         /\ Mild(Without(dst, gone))
  BY DEF Typed, Without, Mild

\* The pass, but for what it knows of others.
LEMMA RacedPass ==
  ASSUME pass \in Pass(pass), NEW b \in BOOLEAN, pass' = [pass EXCEPT !.raced = b]
  PROVE  /\ pass' \in Pass(pass')
         /\ pass'.todo = pass.todo /\ pass'.old = pass.old /\ pass'.mid = pass.mid
         /\ pass'.pc = pass.pc
  BY DEF Pass

\* A write of a call lands.
LEMMA Takes ==
  ASSUME CallsInv, NEW c \in Client, NEW x \in Call, NEW d \in [DOMAIN dst -> Expiry \cup {Absent}],
         Mild(d) \/ q.atomic, IF q.atomic THEN x.pc \in Ends \cup {"sql"} ELSE x.pc # "sql",
         CallInv(x, d, clock), Effect(c, x, d),
         left' \in [{"calls", "passes", "fails", "ticks"} -> Nat]
  PROVE  CallsInv'
  <1>t. Typed /\ Modes /\ PassWell /\ pass \in Pass(pass)
    BY DEF CallsInv
  <1>1. /\ dst' = d /\ UNCHANGED <<clock, q, asks>>
        /\ call' = [k \in Client |-> IF k = c THEN x ELSE Saw(k, d)]
    BY DEF Effect
  <1>2. \A k \in Client : call'[k] = IF k = c THEN x ELSE Saw(k, d)
    BY <1>1
  <1>3. \A k \in Client : call'[k] \in Call
    BY <1>2, <1>t, SawIs
  <1>4. DOMAIN d = DOMAIN dst
    OBVIOUS
  <1>5. Typed'
    <2>1. call' \in [Client -> Call]
      BY <1>1, <1>3
    <2> QED
      BY <1>1, <1>4, <1>t, <2>1 DEF Typed
  <1>6. Modes'
    <2>1. ASSUME NEW k \in Client PROVE IF q.atomic THEN call'[k].pc \in Ends \cup {"sql"} ELSE call'[k].pc # "sql"
      <3>1. CASE k = c
        <4>1. call'[k].pc = x.pc
          BY <1>2, <3>1
        <4> QED
          BY <4>1
      <3>2. CASE k # c
        <4>1. call'[k].pc = call[k].pc
          BY <1>2, <1>t, <3>2, SawIs
        <4> QED
          BY <1>t, <4>1 DEF Modes
      <3> QED
        BY <3>1, <3>2
    <2> QED
      BY <1>1, <2>1 DEF Modes
  <1>7. pass' \in Pass(pass') /\ PassWell'
    <2>1. PICK b \in BOOLEAN : pass' = [pass EXCEPT !.raced = b]
      <3> DEFINE b == pass.raced \/ (d # dst /\ pass.pc # "idle")
      <3>1. b \in BOOLEAN
        BY <1>t DEF Pass
      <3>2. pass' = [pass EXCEPT !.raced = b]
        BY Zenon DEF Effect
      <3> HIDE DEF b
      <3> QED
        BY <3>1, <3>2
    <2>2. /\ pass' \in Pass(pass')
          /\ pass'.todo = pass.todo /\ pass'.old = pass.old /\ pass'.mid = pass.mid
      BY <1>t, <2>1, RacedPass
    <2> QED
      BY <1>1, <1>4, <1>t, <2>2 DEF PassWell
  <1>8. \A k \in Client : CallInv(call'[k], d, clock)
    BY <1>2, Bystander
  <1> QED
    BY <1>1, <1>5, <1>6, <1>7, <1>8 DEF CallsInv

\* A call of its own client writes the store, and is answered.
LEMMA Lands ==
  ASSUME CallsInv, NEW c \in Client, NEW x \in Call, NEW d \in [DOMAIN dst -> Expiry \cup {Absent}],
         Mild(d) \/ q.atomic, IF q.atomic THEN x.pc \in Ends \cup {"sql"} ELSE x.pc # "sql",
         CallInv(Made(x, d), d, clock), Land(c, x, d)
  PROVE  CallsInv'
  <1>1. Made(x, d) \in Call /\ Made(x, d).pc = x.pc
    BY MadeIs
  <1>2. Effect(c, Made(x, d), d) /\ left' = left
    BY DEF Land
  <1>3. left' \in [{"calls", "passes", "fails", "ticks"} -> Nat]
    BY <1>2 DEF CallsInv, Typed
  <1> QED
    BY <1>1, <1>2, <1>3, Takes

\* A call of its own client reads.
LEMMA Turns ==
  ASSUME CallsInv, NEW c \in Client, NEW x \in Call,
         IF q.atomic THEN x.pc \in Ends \cup {"sql"} ELSE x.pc # "sql",
         CallInv(x, dst, clock), call' = [call EXCEPT ![c] = x],
         UNCHANGED <<clock, q, dst, asks, pass>>,
         left' \in [{"calls", "passes", "fails", "ticks"} -> Nat]
  PROVE  CallsInv'
  <1>t. Typed /\ Modes /\ PassWell /\ pass \in Pass(pass)
    BY DEF CallsInv
  <1>1. call' \in [Client -> Call] /\ \A k \in Client : call'[k] = IF k = c THEN x ELSE call[k]
    BY <1>t DEF Typed
  <1>2. Typed'
    BY <1>1, <1>t DEF Typed
  <1>3. Modes'
    BY <1>1, <1>t DEF Modes
  <1>4. PassWell' /\ pass' \in Pass(pass')
    BY <1>t DEF PassWell
  <1>5. \A k \in Client : CallInv(call[k], dst, clock)
    BY DEF CallsInv
  <1>6. \A k \in Client : CallInv(call'[k], dst', clock')
    BY <1>1, <1>5
  <1> QED
    BY <1>2, <1>3, <1>4, <1>6 DEF CallsInv

LEMMA BeginOK == ASSUME CallsInv, NEW c \in Client, Begin(c) PROVE CallsInv'
  <1>1. PICK a \in asks : /\ a.op = "deny" => a.t.deny /\ q.phase[a.t.object] = "write"
                          /\ call' = [call EXCEPT ![c] = [NoCall EXCEPT !.pc = IF q.atomic THEN "sql" ELSE a.op,
                                                         !.ask = a, !.now = clock]]
    BY DEF Begin
  <1>t. Typed
    BY DEF CallsInv
  <1>2. Fits(a, DOMAIN dst) /\ a \in Ask
    BY <1>t DEF Typed, Fits
  <1> DEFINE pc == IF q.atomic THEN "sql" ELSE a.op
             x == [NoCall EXCEPT !.pc = pc, !.ask = a, !.now = clock]
  <1>3. pc \in {"sql", "relate", "unrelate", "deny", "removeDeny", "purgeObject", "purgeSubject"}
        /\ (pc # "sql" => a.op = pc)
    BY <1>2 DEF Ask
  <1>4. clock \in Nat
    BY <1>t DEF Typed
  <1> HIDE DEF pc
  <1>5. /\ x \in Call /\ x.pc = pc /\ x.ask = a /\ x.now = clock /\ ~x.wrote /\ ~x.guarded /\ ~x.window
        /\ ~x.eased /\ ~x.touched
    BY <1>2, <1>3, <1>4 DEF NoCall, Call, Pcs, Expiry, Forever
  <1> HIDE DEF x
  <1>6. CallInv(x, dst, clock)
    BY <1>2, <1>3, <1>5 DEF CallInv, Honest, OnCourse, OnRenewal, Ends
  <1>7. left' \in [{"calls", "passes", "fails", "ticks"} -> Nat]
    BY <1>t DEF Begin, Typed
  <1>8. IF q.atomic THEN x.pc \in Ends \cup {"sql"} ELSE x.pc # "sql"
    BY <1>2, <1>5 DEF pc, Ask
  <1>9. call' = [call EXCEPT ![c] = x] /\ UNCHANGED <<clock, q, dst, asks, pass>>
    BY <1>1 DEF Begin, x, pc
  <1> QED
    BY <1>5, <1>6, <1>7, <1>8, <1>9, Turns

\* What is known of a call by its step.
LEMMA CallIs ==
  ASSUME CallsInv, NEW c \in Client
  PROVE  /\ Typed /\ call[c] \in Call /\ CallInv(call[c], dst, clock)
         /\ Ongoing(c) <=> call[c].pc \notin Ends
         /\ IF q.atomic THEN call[c].pc \in Ends \cup {"sql"} ELSE call[c].pc # "sql"
         /\ LiveIn(dst, clock) \in SUBSET Tuple
  BY LiveTyped DEF CallsInv, Typed, Modes, Ongoing, Ends

LEMMA ReadKeyOK == ASSUME CallsInv, NEW c \in Client, ReadKey(c) PROVE CallsInv'
  <1> DEFINE x == call[c]
             t == x.ask.t
             e == Resolve(dst[t], x.ask.e, x.now)
  <1>t. Typed /\ x \in Call /\ CallInv(x, dst, clock) /\ x.pc = "relate" /\ ~q.atomic
    BY CallIs DEF ReadKey, Ends
  <1>1. /\ x.ask \in Ask /\ t \in DOMAIN dst /\ ~t.deny /\ x.ask.op = "relate"
        /\ ~x.wrote /\ ~x.window /\ ~x.guarded /\ t \in Tuple
        /\ ~x.eased => x.now = clock
    BY <1>t DEF CallInv, OnCourse, OnRenewal, Honest, Fits, Ends, Typed
  <1>2. e \in Expiry
    BY <1>1, <1>t DEF Resolve, Typed, Ask, Expiry, Forever, Absent, Omitted
  <1>3. Reads(c, IF dst[t] = e THEN [x EXCEPT !.pc = "done"]
                 ELSE IF dst[t] = Absent THEN [x EXCEPT !.pc = "blind", !.e = e]
                 ELSE IF t.object \in Group /\ Live(dst[t], x.now)
                 THEN [x EXCEPT !.pc = "walk", !.e = e, !.guarded = TRUE,
                                !.queue = {t.object}, !.seen = {t.object}]
                 ELSE [x EXCEPT !.pc = "cut", !.e = e])
    BY DEF ReadKey
  <1>l. left' \in [{"calls", "passes", "fails", "ticks"} -> Nat] /\ UNCHANGED <<clock, q, dst, asks, pass>>
    BY <1>t, <1>3 DEF Reads, Typed
  <1> HIDE DEF e
  <1>4. CASE dst[t] = e
    <2> DEFINE y == [x EXCEPT !.pc = "done"]
    <2>1. y \in Call /\ y.pc = "done" /\ y.window = x.window /\ y.eased = x.eased /\ y.touched = x.touched
      BY <1>t DEF Call, Pcs
    <2>2. call' = [call EXCEPT ![c] = y]
      BY <1>3, <1>4 DEF Reads
    <2> HIDE DEF y
    <2>3. CallInv(y, dst, clock)
      BY <1>1, <1>t, <2>1 DEF CallInv, Honest, OnCourse, OnRenewal, Ends
    <2> QED
      BY <1>l, <1>t, <2>1, <2>2, <2>3, Turns
  <1>5. CASE dst[t] # e /\ dst[t] = Absent
    <2> DEFINE y == [x EXCEPT !.pc = "blind", !.e = e]
    <2>1. /\ y \in Call /\ y.pc = "blind" /\ y.window = x.window /\ y.eased = x.eased /\ y.touched = x.touched
          /\ y.wrote = x.wrote /\ y.guarded = x.guarded /\ y.ask = x.ask /\ y.now = x.now
      BY <1>2, <1>t DEF Call, Pcs
    <2>2. call' = [call EXCEPT ![c] = y]
      BY <1>3, <1>5 DEF Reads
    <2> HIDE DEF y
    <2>3. CallInv(y, dst, clock)
      BY <1>1, <1>t, <2>1 DEF CallInv, Honest, OnCourse, OnRenewal, Ends
    <2> QED
      BY <1>l, <1>t, <2>1, <2>2, <2>3, Turns
  <1>6. CASE dst[t] # e /\ dst[t] # Absent /\ t.object \in Group /\ Live(dst[t], x.now)
    <2> DEFINE y == [x EXCEPT !.pc = "walk", !.e = e, !.guarded = TRUE, !.queue = {t.object}, !.seen = {t.object}]
    <2>2. call' = [call EXCEPT ![c] = y]
      BY <1>3, <1>6 DEF Reads
    <2> DEFINE own == {t.object}
    <2>4. own \in SUBSET Group
      BY <1>6
    <2>5. y = [x EXCEPT !.pc = "walk", !.e = e, !.guarded = TRUE, !.queue = own, !.seen = own]
      OBVIOUS
    <2>6. t.object \in own /\ own \ own = {}
      OBVIOUS
    <2> HIDE DEF y, own
    <2>1. /\ y \in Call /\ y.pc = "walk" /\ y.window = x.window /\ y.eased = x.eased /\ y.touched = x.touched
          /\ y.wrote = x.wrote /\ y.guarded /\ y.ask = x.ask /\ y.now = x.now
          /\ y.queue = own /\ y.seen = own
      BY <1>2, <1>t, <2>4, <2>5 DEF Call, Pcs
    <2>3. CallInv(y, dst, clock)
      BY <1>1, <1>6, <1>t, <2>1, <2>6 DEF CallInv, Honest, OnCourse, OnRenewal, Ends, WalkClear
    <2> QED
      BY <1>l, <1>t, <2>1, <2>2, <2>3, Turns
  <1>7. CASE dst[t] # e /\ dst[t] # Absent /\ ~(t.object \in Group /\ Live(dst[t], x.now))
    <2> DEFINE y == [x EXCEPT !.pc = "cut", !.e = e]
    <2>1. /\ y \in Call /\ y.pc = "cut" /\ y.window = x.window /\ y.eased = x.eased /\ y.touched = x.touched
          /\ y.wrote = x.wrote /\ y.guarded = x.guarded /\ y.ask = x.ask /\ y.now = x.now
      BY <1>2, <1>t DEF Call, Pcs
    <2>2. call' = [call EXCEPT ![c] = y]
      BY <1>3, <1>7 DEF Reads
    <2> HIDE DEF y
    <2>3. CallInv(y, dst, clock)
      BY <1>1, <1>7, <1>t, <2>1 DEF CallInv, Honest, OnCourse, OnRenewal, Ends
    <2> QED
      BY <1>l, <1>t, <2>1, <2>2, <2>3, Turns
  <1> QED
    BY <1>4, <1>5, <1>6, <1>7

\* A call that ends without having met a window ends well.
LEMMA EndsQuiet ==
  ASSUME NEW x \in Call, NEW d, NEW n, x.pc \in {"done", "failed"}, ~x.window,
         x.pc = "failed" /\ x.wrote => x.marked, x.eased => x.touched
  PROVE  CallInv(x, d, n)
  BY DEF CallInv, Honest, OnCourse, OnRenewal, Ends

LEMMA WriteNewOK == ASSUME CallsInv, NEW c \in Client, WriteNew(c) PROVE CallsInv'
  <1> DEFINE x == call[c]
             t == x.ask.t
  <1>t. Typed /\ x \in Call /\ CallInv(x, dst, clock) /\ x.pc = "blind" /\ ~q.atomic
    BY CallIs DEF WriteNew, Ends
  <1>1. /\ t \in DOMAIN dst /\ ~x.wrote /\ ~x.window /\ x.e \in Expiry /\ (x.eased => x.touched)
    BY <1>t DEF CallInv, OnCourse, Honest, Fits, Ends, Call
  <1>2. CASE dst[t] \in {Absent, x.e}
    <2> DEFINE y == [x EXCEPT !.pc = "done"]
               d == Set(t, x.e)
    <2>1. /\ y \in Call /\ y.pc = "done" /\ y.window = x.window /\ y.eased = x.eased /\ y.touched = x.touched
      BY <1>t DEF Call, Pcs
    <2>2. Land(c, y, d)
      BY <1>2 DEF WriteNew
    <2>3. d \in [DOMAIN dst -> Expiry \cup {Absent}] /\ Mild(d)
      BY <1>1, <1>2, <1>t, SetIs
    <2> HIDE DEF y, d
    <2>4. /\ Made(y, d) \in Call /\ Made(y, d).pc = "done" /\ ~Made(y, d).window
          /\ Made(y, d).eased = x.eased /\ Made(y, d).touched = x.touched
      BY <1>1, <2>1, MadeIs DEF Exposed
    <2>5. CallInv(Made(y, d), d, clock)
      BY <1>1, <2>4, EndsQuiet
    <2> QED
      BY <1>t, <2>1, <2>2, <2>3, <2>5, Lands
  <1>3. CASE dst[t] \notin {Absent, x.e}
    <2> DEFINE y == Failing(x, FALSE)
    <2>1. /\ y \in Call /\ y.pc = "failed" /\ y.window = x.window /\ y.eased = x.eased /\ y.touched = x.touched
          /\ y.wrote = x.wrote
      BY <1>t DEF Call, Pcs, Failing
    <2>2. Reads(c, y)
      BY <1>3 DEF WriteNew
    <2> HIDE DEF y
    <2>3. CallInv(y, dst, clock)
      BY <1>1, <2>1, EndsQuiet
    <2>4. left' \in [{"calls", "passes", "fails", "ticks"} -> Nat]
      BY <1>t, <2>2 DEF Reads, Typed
    <2> QED
      BY <1>t, <2>1, <2>2, <2>3, <2>4, Turns DEF Reads
  <1> QED
    BY <1>2, <1>3

LEMMA WalkOK == ASSUME CallsInv, NEW c \in Client, Walk(c) PROVE CallsInv'
  <1> DEFINE x == call[c]
             V == LiveIn(dst, clock)
             live == LiveIn(dst, x.now)
  <1>t. /\ Typed /\ x \in Call /\ CallInv(x, dst, clock) /\ x.pc \in {"walk", "recheck", "salvage"}
        /\ ~q.atomic /\ V \in SUBSET Tuple
    BY CallIs DEF Walk, Ends
  <1>1. PICK gr \in x.queue :
          LET found == {d \in Denies(live) : d.user = gr}
              above == {t.object : t \in {y \in Nesting(live) : y.user = gr}} \ x.seen
          IN Reads(c, IF found = {}
                      THEN [x EXCEPT !.queue = (@ \cup above) \ {gr}, !.seen = @ \cup above]
                      ELSE IF x.pc = "walk" THEN Failing(x, FALSE)
                      ELSE [Failing(x, TRUE) EXCEPT !.note = "deny"])
    BY DEF Walk
  <1> DEFINE found == {d \in Denies(live) : d.user = gr}
             above == {t.object : t \in {y \in Nesting(live) : y.user = gr}} \ x.seen
  <1>2. /\ x.guarded /\ x.queue \subseteq x.seen /\ x.seen \in SUBSET Group /\ x.ask.t.object \in x.seen
        /\ x.eased => x.touched
        /\ ~x.eased => x.now = clock
        /\ Fits(x.ask, DOMAIN dst) /\ x.ask.op = "relate" /\ x.ask.t.object \in Group
        /\ x.pc = "walk" => ~x.window /\ ~x.wrote
        /\ x.window => x.touched
        /\ x.pc = "walk" /\ ~x.touched => WalkClear(V, x.seen, x.queue)
        /\ x.pc \in {"recheck", "salvage"} /\ x.window /\ ~x.eased => WalkFinds(V, x.queue, x.seen \ x.queue)
    BY <1>t DEF CallInv, OnCourse, OnRenewal, Honest, Ends, Call
  <1>3. above \in SUBSET Group
    BY DEF Nesting, Memberships
  <1>4. CASE found = {}
    <2> DEFINE y == [x EXCEPT !.queue = (@ \cup above) \ {gr}, !.seen = @ \cup above]
               queue == (x.queue \cup above) \ {gr}
               seen == x.seen \cup above
    <2>1. queue \in SUBSET Group /\ seen \in SUBSET Group /\ queue \subseteq seen
      BY <1>2, <1>3
    <2>2. ASSUME x.now = clock PROVE /\ \A d \in Denies(V) : d.user # gr
                                     /\ above = {t.object : t \in {z \in Nesting(V) : z.user = gr}} \ x.seen
      BY <1>4, <2>2
    <2> HIDE DEF found, above
    <2>3. x.pc = "walk" /\ ~x.touched => WalkClear(V, seen, queue)
      <3> SUFFICES ASSUME x.pc = "walk", ~x.touched PROVE WalkClear(V, seen, queue)
        OBVIOUS
      <3> HIDE DEF V
      <3> QED
        BY <1>1, <1>2, <1>t, <2>2, WalkStaysClear
    <2>4. x.pc \in {"recheck", "salvage"} /\ x.window /\ ~x.eased => WalkFinds(V, queue, seen \ queue)
      <3> SUFFICES ASSUME x.pc \in {"recheck", "salvage"}, x.window, ~x.eased
                   PROVE WalkFinds(V, queue, seen \ queue)
        OBVIOUS
      <3> HIDE DEF V
      <3> QED
        BY <1>1, <1>2, <1>t, <2>2, WalkGoesOn
    <2>5. Reads(c, y)
      BY <1>1, <1>4 DEF found, above
    <2>6. y = [x EXCEPT !.queue = queue, !.seen = seen]
      OBVIOUS
    <2> HIDE DEF queue, seen, y
    <2>7. /\ y \in Call /\ y.pc = x.pc /\ y.window = x.window /\ y.eased = x.eased /\ y.touched = x.touched
          /\ y.wrote = x.wrote /\ y.guarded = x.guarded /\ y.ask = x.ask /\ y.now = x.now
          /\ y.queue = queue /\ y.seen = seen /\ y.batched = x.batched /\ y.marked = x.marked
      BY <1>t, <2>1, <2>6 DEF Call
    <2>8. x.ask.t.object \in seen
      BY <1>2 DEF seen
    <2>9. CallInv(y, dst, clock)
      BY <1>2, <1>t, <2>1, <2>3, <2>4, <2>7, <2>8 DEF CallInv, Honest, OnCourse, OnRenewal, Ends
    <2>10. left' \in [{"calls", "passes", "fails", "ticks"} -> Nat]
      BY <1>t, <2>5 DEF Reads, Typed
    <2> QED
      BY <1>t, <2>5, <2>7, <2>9, <2>10, Turns DEF Reads
  <1>5. CASE found # {} /\ x.pc = "walk"
    <2> DEFINE y == Failing(x, FALSE)
    <2>1. /\ y \in Call /\ y.pc = "failed" /\ y.window = x.window /\ y.eased = x.eased /\ y.touched = x.touched
          /\ y.wrote = x.wrote
      BY <1>t DEF Call, Pcs, Failing
    <2>2. Reads(c, y)
      BY <1>1, <1>5
    <2> HIDE DEF y
    <2>3. CallInv(y, dst, clock)
      BY <1>2, <1>5, <2>1, EndsQuiet
    <2>4. left' \in [{"calls", "passes", "fails", "ticks"} -> Nat]
      BY <1>t, <2>2 DEF Reads, Typed
    <2> QED
      BY <1>t, <2>1, <2>2, <2>3, <2>4, Turns DEF Reads
  <1>6. CASE found # {} /\ x.pc # "walk"
    <2> DEFINE y == [Failing(x, TRUE) EXCEPT !.note = "deny"]
    <2>1. /\ y \in Call /\ y.pc = "failed" /\ y.window = x.window /\ y.eased = x.eased /\ y.touched = x.touched
          /\ y.marked /\ y.note = "deny"
      BY <1>t DEF Call, Pcs, Failing
    <2>2. Reads(c, y)
      BY <1>1, <1>6
    <2> HIDE DEF y
    <2>3. CallInv(y, dst, clock)
      BY <1>2, <2>1 DEF CallInv, Honest, OnCourse, OnRenewal, Ends
    <2>4. left' \in [{"calls", "passes", "fails", "ticks"} -> Nat]
      BY <1>t, <2>2 DEF Reads, Typed
    <2> QED
      BY <1>t, <2>1, <2>2, <2>3, <2>4, Turns DEF Reads
  <1> QED
    BY <1>4, <1>5, <1>6

LEMMA WalkedOK == ASSUME CallsInv, NEW c \in Client, Walked(c) PROVE CallsInv'
  <1> DEFINE x == call[c]
             V == LiveIn(dst, clock)
  <1>t. /\ Typed /\ x \in Call /\ CallInv(x, dst, clock) /\ x.pc \in {"walk", "recheck", "salvage"}
        /\ ~q.atomic /\ V \in SUBSET Tuple
    BY CallIs DEF Walked, Ends
  <1>0. x.queue = {}
    BY DEF Walked
  <1>1. /\ x.guarded /\ x.seen \in SUBSET Group /\ x.ask.t.object \in x.seen
        /\ x.eased => x.touched
        /\ ~x.eased => x.now = clock
        /\ Fits(x.ask, DOMAIN dst) /\ x.ask.op = "relate" /\ x.ask.t.object \in Group
        /\ x.pc = "walk" => ~x.window /\ ~x.wrote
        /\ x.window => x.touched
        /\ x.pc = "walk" /\ ~x.touched => WalkClear(V, x.seen, {})
        /\ x.pc \in {"recheck", "salvage"} /\ x.window /\ ~x.eased => WalkFinds(V, {}, x.seen)
    <2>1. x.seen \ {} = x.seen
      OBVIOUS
    <2> QED
      BY <1>0, <1>t, <2>1 DEF CallInv, OnCourse, OnRenewal, Honest, Ends, Call
  \* A walk with nothing left to see finds nothing.
  <1>2. ~WalkFinds(V, {}, x.seen)
    BY GroupsTyped DEF WalkFinds
  <1>3. x.pc = "walk" /\ ~x.touched => ~Carries(V, x.ask.t.object)
    BY <1>1, <1>t, WalkEnds
  <1> HIDE DEF V
  <1>4. Reads(c, CASE x.pc = "walk"    -> [x EXCEPT !.pc = "cut"]
                   [] x.pc = "recheck" -> [x EXCEPT !.pc = "done"]
                   [] OTHER            -> Failing(x, TRUE))
    BY DEF Walked
  <1>l. left' \in [{"calls", "passes", "fails", "ticks"} -> Nat] /\ UNCHANGED <<clock, q, dst, asks, pass>>
    BY <1>t, <1>4 DEF Reads, Typed
  <1>5. CASE x.pc = "walk"
    <2> DEFINE y == [x EXCEPT !.pc = "cut"]
    <2>1. /\ y \in Call /\ y.pc = "cut" /\ y.window = x.window /\ y.eased = x.eased /\ y.touched = x.touched
          /\ y.wrote = x.wrote /\ y.guarded = x.guarded /\ y.ask = x.ask /\ y.now = x.now
      BY <1>t DEF Call, Pcs
    <2>2. call' = [call EXCEPT ![c] = y]
      BY <1>4, <1>5 DEF Reads
    <2> HIDE DEF y
    <2>3. CallInv(y, dst, clock)
      BY <1>1, <1>3, <1>5, <2>1 DEF CallInv, Honest, OnCourse, OnRenewal, Ends, V
    <2> QED
      BY <1>l, <1>t, <2>1, <2>2, <2>3, Turns
  <1>6. CASE x.pc = "recheck"
    <2> DEFINE y == [x EXCEPT !.pc = "done"]
    <2>1. /\ y \in Call /\ y.pc = "done" /\ y.window = x.window /\ y.eased = x.eased /\ y.touched = x.touched
          /\ y.wrote = x.wrote
      BY <1>t DEF Call, Pcs
    <2>2. call' = [call EXCEPT ![c] = y]
      BY <1>4, <1>6 DEF Reads
    <2> HIDE DEF y
    <2>3. CallInv(y, dst, clock)
      BY <1>1, <1>2, <1>6, <2>1 DEF CallInv, Honest, OnCourse, OnRenewal, Ends
    <2> QED
      BY <1>l, <1>t, <2>1, <2>2, <2>3, Turns
  <1>7. CASE x.pc = "salvage"
    <2> DEFINE y == Failing(x, TRUE)
    <2>1. /\ y \in Call /\ y.pc = "failed" /\ y.window = x.window /\ y.eased = x.eased /\ y.touched = x.touched
          /\ y.wrote = x.wrote /\ y.marked
      BY <1>t DEF Call, Pcs, Failing
    <2>2. call' = [call EXCEPT ![c] = y]
      BY <1>4, <1>7 DEF Reads
    <2> HIDE DEF y
    <2>3. CallInv(y, dst, clock)
      BY <1>1, <1>2, <1>7, <2>1 DEF CallInv, Honest, OnCourse, OnRenewal, Ends
    <2> QED
      BY <1>l, <1>t, <2>1, <2>2, <2>3, Turns
  <1> QED
    BY <1>t, <1>5, <1>6, <1>7

LEMMA CutOK == ASSUME CallsInv, NEW c \in Client, Cut(c) PROVE CallsInv'
  <1> DEFINE x == call[c]
             t == x.ask.t
             V == LiveIn(dst, clock)
             d == Set(t, Absent)
             W == LiveIn(d, clock)
             held == t.object \in Group /\ t \in Now
             z == Halved(x)
             y == Made(z, d)
  <1>t. Typed /\ x \in Call /\ CallInv(x, dst, clock) /\ x.pc = "cut" /\ ~q.atomic /\ V \in SUBSET Tuple
    BY CallIs DEF Cut, Ends
  <1>1. /\ x.ask \in Ask /\ t \in DOMAIN dst /\ Fits(x.ask, DOMAIN dst) /\ x.ask.op = "relate"
        /\ ~x.window /\ (x.eased => x.touched) /\ (~x.eased => x.now = clock)
        /\ x.guarded => t.object \in Group
        /\ x.guarded /\ ~x.touched => ~Carries(V, t.object)
        /\ ~x.guarded /\ ~x.eased /\ t.object \in Group => dst[t] # Absent /\ ~Live(dst[t], clock)
    BY <1>t DEF CallInv, OnCourse, OnRenewal, Fits, Ends
  <1>2. Land(c, z, d)
    BY DEF Cut
  <1>3. d \in [DOMAIN dst -> Expiry \cup {Absent}] /\ Mild(d) /\ W \subseteq V
    <2>1. d \in [DOMAIN dst -> Expiry \cup {Absent}] /\ Mild(d)
      BY <1>1, <1>t, SetIs
    <2>2. W \subseteq V
      BY <1>1 DEF LiveIn, Set
    <2> QED
      BY <2>1, <2>2
  <1>4. /\ held \in BOOLEAN
        /\ held => t.object \in Group
        /\ held /\ ~x.eased => x.guarded
    BY <1>1 DEF Now, LiveIn
  <1>5. ASSUME held, CarriedDenies(W, t.object) # {} PROVE Carries(W, t.object) /\ Carries(V, t.object)
    BY <1>3, <1>4, <1>5, <1>t, CarriedMeans, CarriesMore
  <1>h. z = [x EXCEPT !.pc = "put", !.held = held]
    BY Zenon DEF Halved
  <1> HIDE DEF held, z
  <1>6. /\ z \in Call /\ z.pc = "put" /\ z.ask = x.ask /\ z.now = x.now /\ z.guarded = x.guarded
        /\ z.window = x.window /\ z.touched = x.touched /\ z.eased = x.eased /\ z.held = held
    BY <1>4, <1>h, <1>t DEF Call, Pcs
  <1> HIDE DEF d
  <1>7. /\ y \in Call /\ y.pc = "put" /\ y.ask = x.ask /\ y.now = x.now /\ y.guarded = x.guarded
        /\ y.held = held /\ y.touched = x.touched /\ y.eased = x.eased
        /\ y.window <=> Exposed(z, d)
    BY <1>1, <1>6, MadeIs
  <1>8. Exposed(z, d) <=> held /\ CarriedDenies(W, t.object) # {}
    BY <1>6 DEF Exposed
  <1> HIDE DEF y
  <1>9. DOMAIN d = DOMAIN dst
    BY <1>3
  <1>10. Exposed(z, d) => held /\ x.touched /\ Carries(W, t.object)
    BY <1>1, <1>4, <1>5, <1>8
  <1> HIDE DEF V, W
  <1>11. CallInv(y, d, clock)
    BY <1>1, <1>4, <1>7, <1>9, <1>10 DEF CallInv, Honest, OnCourse, OnRenewal, Ends, W
  <1> QED
    BY <1>2, <1>3, <1>6, <1>11, <1>t, Lands DEF y, z

\* What a renewal that walks again is to find.
LEMMA AgainIs ==
  ASSUME NEW x \in Call, NEW d \in [DOMAIN dst -> Expiry \cup {Absent}], Typed, OnCourse(x, dst), OnRenewal(x, dst, clock),
         x.pc = "put", x.guarded, x.window /\ ~x.eased => LiveIn(dst, clock) \subseteq LiveIn(d, clock),
         NEW pc \in {"recheck", "salvage"}
  PROVE  LET y == Again(x, pc)
         IN /\ y \in Call /\ y.pc = pc /\ y.window = x.window /\ y.eased = x.eased
            /\ \A z \in Call : /\ z.pc = pc /\ z.ask = y.ask /\ z.now = y.now /\ z.guarded = y.guarded
                               /\ z.queue = y.queue /\ z.seen = y.seen /\ z.touched = y.touched
                               /\ z.eased = y.eased /\ (z.window <=> y.window)
                   => CallInv(z, d, clock)
  <1> DEFINE t == x.ask.t
             own == {t.object}
             y == Again(x, pc)
             W == LiveIn(d, clock)
  <1>1. /\ Fits(x.ask, DOMAIN dst) /\ x.ask.op = "relate" /\ t.object \in Group
        /\ x.eased => x.touched
        /\ x.window => x.touched
        /\ ~x.eased => x.now = clock
        /\ x.window /\ ~x.eased => Carries(LiveIn(dst, clock), t.object)
    BY DEF OnCourse, OnRenewal, Ends
  <1>2. x.window /\ ~x.eased => WalkFinds(W, own, own \ own)
    <2> SUFFICES ASSUME x.window, ~x.eased PROVE WalkFinds(W, own, own \ own)
      OBVIOUS
    <2>1. Carries(W, t.object)
      BY <1>1, CarriesMore
    <2> QED
      BY <2>1, WalkBegins
  <1>3. own \in SUBSET Group /\ t.object \in own
    BY <1>1
  <1>4. y = [x EXCEPT !.pc = pc, !.queue = own, !.seen = own]
    BY DEF Again
  <1> HIDE DEF own, y, W
  <1>5. /\ y \in Call /\ y.pc = pc /\ y.ask = x.ask /\ y.now = x.now /\ y.guarded = x.guarded
        /\ y.queue = own /\ y.seen = own /\ y.touched = x.touched /\ y.eased = x.eased /\ y.window = x.window
    BY <1>3, <1>4 DEF Call, Pcs
  <1>6. DOMAIN d = DOMAIN dst
    OBVIOUS
  <1>7. ASSUME NEW z \in Call, z.pc = pc, z.ask = y.ask, z.now = y.now, z.guarded = y.guarded,
               z.queue = y.queue, z.seen = y.seen, z.touched = y.touched, z.eased = y.eased, z.window <=> y.window
        PROVE  CallInv(z, d, clock)
    BY <1>1, <1>2, <1>3, <1>5, <1>6, <1>7 DEF CallInv, Honest, OnCourse, OnRenewal, Ends, W
  <1> QED
    BY <1>5, <1>7 DEF y

\* A call that writes, and is done.
LEMMA LandsDone ==
  ASSUME CallsInv, NEW c \in Client, NEW d \in [DOMAIN dst -> Expiry \cup {Absent}], Mild(d) \/ q.atomic,
         call[c].window => call[c].eased, call[c].eased => call[c].touched,
         Land(c, [call[c] EXCEPT !.pc = "done"], d)
  PROVE  CallsInv'
  <1> DEFINE x == call[c]
             y == [x EXCEPT !.pc = "done"]
  <1>t. Typed /\ x \in Call
    BY CallIs
  <1>1. /\ y \in Call /\ y.pc = "done" /\ y.window = x.window /\ y.eased = x.eased /\ y.touched = x.touched
    BY <1>t DEF Call, Pcs
  <1> HIDE DEF y
  <1>2. /\ Made(y, d) \in Call /\ Made(y, d).pc = "done" /\ (Made(y, d).window <=> x.window)
        /\ Made(y, d).eased = x.eased /\ Made(y, d).touched = x.touched
    BY <1>1, MadeIs DEF Exposed
  <1>3. CallInv(Made(y, d), d, clock)
    BY <1>2 DEF CallInv, Honest, OnCourse, OnRenewal, Ends
  <1> QED
    BY <1>1, <1>3, Lands DEF y, Ends

\* A call that reads and fails.
LEMMA ReadsFails ==
  ASSUME CallsInv, NEW c \in Client, NEW marked \in BOOLEAN,
         call[c].window => call[c].eased, call[c].eased => call[c].touched,
         call[c].wrote => marked, Reads(c, Failing(call[c], marked))
  PROVE  CallsInv'
  <1> DEFINE x == call[c]
             y == Failing(x, marked)
  <1>t. Typed /\ x \in Call
    BY CallIs
  <1>1. /\ y \in Call /\ y.pc = "failed" /\ y.window = x.window /\ y.eased = x.eased /\ y.touched = x.touched
        /\ y.wrote = x.wrote /\ y.marked = marked
    BY <1>t DEF Call, Pcs, Failing
  <1> HIDE DEF y
  <1>2. CallInv(y, dst, clock)
    BY <1>1 DEF CallInv, Honest, OnCourse, OnRenewal, Ends
  <1>3. left' \in [{"calls", "passes", "fails", "ticks"} -> Nat]
    BY <1>t DEF Reads, Typed
  <1>4. call' = [call EXCEPT ![c] = y] /\ UNCHANGED <<clock, q, dst, asks, pass>>
    BY DEF Reads, y
  <1> QED
    BY <1>1, <1>2, <1>3, <1>4, Turns DEF Ends

LEMMA PutOK == ASSUME CallsInv, NEW c \in Client, Put(c) PROVE CallsInv'
  <1> DEFINE x == call[c]
             t == x.ask.t
             d == Set(t, x.e)
  <1>t. Typed /\ x \in Call /\ CallInv(x, dst, clock) /\ x.pc = "put" /\ ~q.atomic
    BY CallIs DEF Put, Ends
  <1>1. /\ t \in DOMAIN dst /\ x.e \in Expiry /\ dst[t] \in {Absent, x.e}
        /\ OnCourse(x, dst) /\ OnRenewal(x, dst, clock)
        /\ x.window => x.touched
        /\ x.eased => x.touched
        /\ x.window /\ ~x.eased => x.guarded
    BY <1>t DEF Put, CallInv, OnCourse, OnRenewal, Fits, Ends, Call
  <1>2. d \in [DOMAIN dst -> Expiry \cup {Absent}] /\ Mild(d) /\ ~Loses(d)
    <2>1. d \in [DOMAIN dst -> Expiry \cup {Absent}] /\ Mild(d)
      BY <1>1, <1>t, SetIs
    <2>2. ~Loses(d)
      BY <1>1 DEF Loses, Set, Expiry, Forever, Absent
    <2> QED
      BY <2>1, <2>2
  <1>3. LiveIn(dst, clock) \subseteq LiveIn(d, clock)
    BY <1>2, <1>t, MildKeeps
  <1>4. Land(c, IF x.guarded THEN Again(x, "recheck") ELSE [x EXCEPT !.pc = "done"], d)
    BY DEF Put
  <1> HIDE DEF d
  <1>5. CASE x.guarded
    <2> DEFINE y == Again(x, "recheck")
    <2>1. /\ y \in Call /\ y.pc = "recheck"
          /\ \A z \in Call : /\ z.pc = "recheck" /\ z.ask = y.ask /\ z.now = y.now /\ z.guarded = y.guarded
                             /\ z.queue = y.queue /\ z.seen = y.seen /\ z.touched = y.touched
                             /\ z.eased = y.eased /\ (z.window <=> y.window)
                 => CallInv(z, d, clock)
      BY <1>1, <1>2, <1>3, <1>5, <1>t, AgainIs
    <2>2. Land(c, y, d)
      BY <1>4, <1>5
    <2> HIDE DEF y
    <2>3. CallInv(Made(y, d), d, clock)
      BY <2>1, MadeIs DEF Exposed
    <2> QED
      BY <1>2, <1>t, <2>1, <2>2, <2>3, Lands
  <1>6. CASE ~x.guarded
    BY <1>1, <1>2, <1>4, <1>6, LandsDone
  <1> QED
    BY <1>5, <1>6

LEMMA PutClashesOK == ASSUME CallsInv, NEW c \in Client, PutClashes(c) PROVE CallsInv'
  <1> DEFINE x == call[c]
  <1>t. Typed /\ x \in Call /\ CallInv(x, dst, clock) /\ x.pc = "put" /\ ~q.atomic
    BY CallIs DEF PutClashes, Ends
  <1>1. /\ OnCourse(x, dst) /\ OnRenewal(x, dst, clock)
        /\ x.window => x.touched
        /\ x.eased => x.touched
        /\ x.window /\ ~x.eased => x.guarded
    BY <1>t DEF CallInv, OnCourse, OnRenewal, Fits, Ends, Call
  <1>2. Reads(c, IF x.guarded THEN Again(x, "salvage") ELSE Failing(x, TRUE))
    BY DEF PutClashes
  <1>3. CASE x.guarded
    <2> DEFINE y == Again(x, "salvage")
    <2>1. y \in Call /\ y.pc = "salvage" /\ CallInv(y, dst, clock)
      <3>1. dst \in [DOMAIN dst -> Expiry \cup {Absent}]
        BY <1>t DEF Typed
      <3>2. /\ y \in Call /\ y.pc = "salvage"
            /\ \A z \in Call : /\ z.pc = "salvage" /\ z.ask = y.ask /\ z.now = y.now /\ z.guarded = y.guarded
                               /\ z.queue = y.queue /\ z.seen = y.seen /\ z.touched = y.touched
                               /\ z.eased = y.eased /\ (z.window <=> y.window)
                   => CallInv(z, dst, clock)
        BY <1>1, <1>3, <1>t, <3>1, AgainIs
      <3> HIDE DEF y
      <3> QED
        BY <3>2
    <2>2. left' \in [{"calls", "passes", "fails", "ticks"} -> Nat]
      BY <1>2, <1>t DEF Reads, Typed
    <2>3. Reads(c, y)
      BY <1>2, <1>3
    <2> HIDE DEF y
    <2> QED
      BY <1>t, <2>1, <2>2, <2>3, Turns DEF Reads
  <1>4. CASE ~x.guarded
    BY <1>1, <1>2, <1>4, ReadsFails
  <1> QED
    BY <1>3, <1>4

LEMMA DropOK == ASSUME CallsInv, NEW c \in Client, Drop(c) PROVE CallsInv'
  <1> DEFINE x == call[c]
             d == Set(x.ask.t, Absent)
  <1>t. Typed /\ x \in Call /\ CallInv(x, dst, clock) /\ x.pc \in {"unrelate", "removeDeny"}
    BY CallIs DEF Drop, Ends
  <1>1. x.ask.t \in DOMAIN dst /\ ~x.window /\ (x.eased => x.touched)
    BY <1>t DEF CallInv, OnCourse, Fits, Ends
  <1>2. d \in [DOMAIN dst -> Expiry \cup {Absent}] /\ Mild(d)
    BY <1>1, <1>t, SetIs
  <1>3. Land(c, [call[c] EXCEPT !.pc = "done"], d)
    BY DEF Drop
  <1> QED
    BY <1>1, <1>2, <1>3, LandsDone

LEMMA WriteDenyOK == ASSUME CallsInv, NEW c \in Client, WriteDeny(c) PROVE CallsInv'
  <1> DEFINE x == call[c]
             d == Set(x.ask.t, Forever)
  <1>t. Typed /\ x \in Call /\ CallInv(x, dst, clock) /\ x.pc = "deny"
    BY CallIs DEF WriteDeny, Ends
  <1>1. x.ask.t \in DOMAIN dst /\ ~x.window /\ ~x.wrote /\ (x.eased => x.touched)
    BY <1>t DEF CallInv, OnCourse, Honest, Fits, Ends
  <1>2. CASE dst[x.ask.t] \in {Absent, Forever}
    <2>1. Forever \in Expiry
      BY DEF Expiry
    <2>2. d \in [DOMAIN dst -> Expiry \cup {Absent}] /\ Mild(d)
      BY <1>1, <1>2, <1>t, <2>1, SetIs
    <2>3. Land(c, [call[c] EXCEPT !.pc = "done"], d)
      BY <1>2 DEF WriteDeny
    <2> QED
      BY <1>1, <2>2, <2>3, LandsDone
  <1>3. CASE dst[x.ask.t] \notin {Absent, Forever}
    BY <1>1, <1>3, ReadsFails DEF WriteDeny
  <1> QED
    BY <1>2, <1>3

LEMMA SqlUpsertOK == ASSUME CallsInv, NEW c \in Client, SqlUpsert(c) PROVE CallsInv'
  <1> DEFINE x == call[c]
             t == x.ask.t
             e == IF x.ask.op = "deny" THEN Forever ELSE Resolve(dst[t], x.ask.e, x.now)
             d == Set(t, e)
  <1>t. Typed /\ x \in Call /\ CallInv(x, dst, clock) /\ x.pc = "sql" /\ q.atomic
    BY CallIs DEF SqlUpsert, Ends
  <1>1. t \in DOMAIN dst /\ x.ask \in Ask /\ ~x.window /\ (x.eased => x.touched)
    BY <1>t DEF SqlUpsert, CallInv, OnCourse, Fits, Ends
  <1>2. e \in Expiry \cup {Absent}
    BY <1>1, <1>t DEF Resolve, Typed, Ask, Expiry, Forever, Absent, Omitted
  <1>3. Land(c, [call[c] EXCEPT !.pc = "done"], d)
    BY DEF SqlUpsert
  <1> HIDE DEF e
  <1>4. d \in [DOMAIN dst -> Expiry \cup {Absent}]
    BY <1>1, <1>2, <1>t, SetIs
  <1> QED
    BY <1>1, <1>3, <1>4, <1>t, LandsDone

LEMMA SqlDeleteOK == ASSUME CallsInv, NEW c \in Client, SqlDelete(c) PROVE CallsInv'
  <1> DEFINE x == call[c]
             t == x.ask.t
             d == IF x.ask.op \in {"unrelate", "removeDeny"} THEN Set(t, Absent) ELSE Purged(x.ask, dst)
  <1>t. Typed /\ x \in Call /\ CallInv(x, dst, clock) /\ x.pc = "sql" /\ q.atomic
    BY CallIs DEF SqlDelete, Ends
  <1>1. /\ x.ask.op \in {"unrelate", "removeDeny"} => t \in DOMAIN dst
        /\ ~x.window /\ (x.eased => x.touched)
    BY <1>t DEF CallInv, OnCourse, Fits, Ends
  <1>2. d \in [DOMAIN dst -> Expiry \cup {Absent}]
    BY <1>1, <1>t, SetIs, WithoutIs DEF Purged
  <1>3. Land(c, [call[c] EXCEPT !.pc = "done"], d)
    BY DEF SqlDelete
  <1> HIDE DEF d
  <1> QED
    BY <1>1, <1>2, <1>3, <1>t, LandsDone

LEMMA PurgeReadOK == ASSUME CallsInv, NEW c \in Client, PurgeRead(c) PROVE CallsInv'
  <1> DEFINE x == call[c]
  <1>t. Typed /\ x \in Call /\ CallInv(x, dst, clock) /\ x.pc \in {"purgeObject", "purgeSubject"} /\ ~q.atomic
    BY CallIs DEF PurgeRead, Ends
  <1>1. PICK f \in Filters(x.ask) \ x.filters :
           LET keys == x.keys \cup Matches(x.ask, f, dst)
               all  == x.filters \cup {f} = Filters(x.ask)
           IN Reads(c, [x EXCEPT
                  !.filters = @ \cup {f}, !.keys = keys, !.pc = IF all THEN "purge" ELSE @,
                  !.rest = {[do |-> "delete", as |-> "delete", t |-> t] : t \in keys},
                  !.may = IF all THEN Grants(Now) \cup Grants(LiveIn(Purged(x.ask, dst), clock))
                          ELSE @])
    BY DEF PurgeRead
  <1> DEFINE keys == x.keys \cup Matches(x.ask, f, dst)
             all  == x.filters \cup {f} = Filters(x.ask)
             filters == x.filters \cup {f}
             pc == IF all THEN "purge" ELSE x.pc
             rest == {[do |-> "delete", as |-> "delete", t |-> t] : t \in keys}
             may == IF all THEN Grants(Now) \cup Grants(LiveIn(Purged(x.ask, dst), clock)) ELSE x.may
             y == [x EXCEPT !.filters = filters, !.keys = keys, !.pc = pc, !.rest = rest, !.may = may]
  <1>2. /\ Fits(x.ask, DOMAIN dst) /\ x.ask \in Ask /\ x.ask.op = x.pc /\ ~x.wrote /\ ~x.window /\ ~x.guarded
        /\ x.eased => x.touched
        /\ ~x.eased => x.now = clock
    BY <1>t DEF CallInv, OnCourse, OnRenewal, Honest, Fits, Ends
  <1>3. Reads(c, y)
    BY <1>1
  <1>4. keys \in SUBSET Tuple
    BY <1>t DEF Matches, Call, Typed
  <1>5. filters \in SUBSET SUBSET (Group \cup Object)
    <2>1. x.ask.t.object \in Group \cup Object
      BY <1>2 DEF Ask, Tuple
    <2> QED
      BY <1>t, <2>1 DEF Filters, Call
  <1> HIDE DEF keys
  <1>6. rest \in SUBSET Step
    BY <1>4 DEF Step
  <1>7. may \in SUBSET Said
    BY <1>t DEF Grants, Said, Call
  <1>8. pc \in {"purge", x.pc}
    OBVIOUS
  <1> HIDE DEF filters, pc, rest, may
  <1>9. /\ y \in Call /\ y.pc = pc /\ y.window = x.window /\ y.eased = x.eased /\ y.touched = x.touched
        /\ y.wrote = x.wrote /\ y.guarded = x.guarded /\ y.ask = x.ask /\ y.now = x.now
    BY <1>4, <1>5, <1>6, <1>7, <1>8, <1>t DEF Call, Pcs
  <1> HIDE DEF y
  <1>10. CallInv(y, dst, clock)
    BY <1>2, <1>8, <1>9, <1>t DEF CallInv, Honest, OnCourse, OnRenewal, Ends
  <1>11. left' \in [{"calls", "passes", "fails", "ticks"} -> Nat]
    BY <1>3, <1>t DEF Reads, Typed
  <1> QED
    BY <1>3, <1>8, <1>9, <1>10, <1>11, <1>t, Turns DEF Reads

LEMMA PurgeBatchOK == ASSUME CallsInv, NEW c \in Client, PurgeBatch(c) PROVE CallsInv'
  <1> DEFINE x == call[c]
  <1>t. Typed /\ x \in Call /\ CallInv(x, dst, clock) /\ x.pc = "purge" /\ ~q.atomic
    BY CallIs DEF PurgeBatch, Ends
  <1>1. PICK s \in Chunks(x) :
           Land(c, [x EXCEPT !.rest = @ \ s, !.batched = TRUE], Without(dst, {y.t : y \in s}))
    BY DEF PurgeBatch
  <1> DEFINE d == Without(dst, {y.t : y \in s})
             rest == x.rest \ s
             y == [x EXCEPT !.rest = rest, !.batched = TRUE]
  <1>2. d \in [DOMAIN dst -> Expiry \cup {Absent}] /\ Mild(d)
    BY <1>t, WithoutIs
  <1>3. /\ Fits(x.ask, DOMAIN dst) /\ x.ask.op \in {"purgeObject", "purgeSubject"} /\ ~x.window /\ ~x.guarded
        /\ x.eased => x.touched
        /\ ~x.eased => x.now = clock
    BY <1>t DEF CallInv, OnCourse, OnRenewal, Ends
  <1>4. rest \in SUBSET Step
    BY <1>t DEF Call
  <1>5. Land(c, y, d)
    BY <1>1
  <1> HIDE DEF d, rest
  <1>6. /\ y \in Call /\ y.pc = x.pc /\ y.window = x.window /\ y.eased = x.eased /\ y.touched = x.touched
        /\ y.wrote = x.wrote /\ y.guarded = x.guarded /\ y.ask = x.ask /\ y.now = x.now /\ y.batched
    BY <1>4, <1>t DEF Call
  <1> HIDE DEF y
  <1> DEFINE z == Made(y, d)
  <1>7. /\ z \in Call /\ z.pc = "purge" /\ ~z.window /\ z.eased = x.eased /\ z.touched = x.touched
        /\ z.guarded = x.guarded /\ z.ask = x.ask /\ z.now = x.now /\ z.batched
    BY <1>3, <1>6, <1>t, MadeIs DEF Exposed
  <1>8. DOMAIN d = DOMAIN dst
    BY <1>2
  <1> HIDE DEF z
  <1>9. CallInv(z, d, clock)
    BY <1>3, <1>7, <1>8 DEF CallInv, Honest, OnCourse, OnRenewal, Ends
  <1> QED
    BY <1>2, <1>5, <1>6, <1>9, <1>t, Lands DEF z

LEMMA PurgeEndOK == ASSUME CallsInv, NEW c \in Client, PurgeEnd(c) PROVE CallsInv'
  <1> DEFINE x == call[c]
             again == {f \in Filters(x.ask) : \E t \in x.keys : t.object \in f}
             fine == \A f \in again : Matches(x.ask, f, dst) = {}
  <1>t. Typed /\ x \in Call /\ CallInv(x, dst, clock) /\ x.pc = "purge" /\ ~q.atomic
    BY CallIs DEF PurgeEnd, Ends
  <1>1. Reads(c, IF fine THEN [x EXCEPT !.pc = "done"]
                 ELSE [Failing(x, x.batched) EXCEPT !.note = "residue"])
    BY DEF PurgeEnd
  <1> HIDE DEF fine
  <1>2. /\ ~x.window
        /\ x.eased => x.touched
        /\ x.wrote => x.batched
    BY <1>t DEF CallInv, OnCourse, Honest, Ends
  <1>3. left' \in [{"calls", "passes", "fails", "ticks"} -> Nat]
    BY <1>1, <1>t DEF Reads, Typed
  <1>4. CASE fine
    <2> DEFINE y == [x EXCEPT !.pc = "done"]
    <2>1. /\ y \in Call /\ y.pc = "done" /\ y.window = x.window /\ y.eased = x.eased /\ y.touched = x.touched
      BY <1>t DEF Call, Pcs
    <2>2. Reads(c, y)
      BY <1>1, <1>4
    <2> HIDE DEF y
    <2>3. CallInv(y, dst, clock)
      BY <1>2, <2>1, EndsQuiet
    <2> QED
      BY <1>3, <1>t, <2>1, <2>2, <2>3, Turns DEF Reads
  <1>5. CASE ~fine
    <2> DEFINE y == [Failing(x, x.batched) EXCEPT !.note = "residue"]
    <2>1. /\ y \in Call /\ y.pc = "failed" /\ y.window = x.window /\ y.eased = x.eased /\ y.touched = x.touched
          /\ y.wrote = x.wrote /\ y.marked = x.batched
      BY <1>t DEF Call, Pcs, Failing
    <2>2. Reads(c, y)
      BY <1>1, <1>5
    <2> HIDE DEF y
    <2>3. CallInv(y, dst, clock)
      BY <1>2, <2>1, EndsQuiet
    <2> QED
      BY <1>3, <1>t, <2>1, <2>2, <2>3, Turns DEF Reads
  <1> QED
    BY <1>4, <1>5

\* What a request that failed leaves of a call, in the store d.
LEMMA FailedIs ==
  ASSUME CallsInv, NEW c \in Client, Ongoing(c), NEW late \in BOOLEAN,
         NEW d \in [DOMAIN dst -> Expiry \cup {Absent}],
         call[c].pc = "put" => LiveIn(dst, clock) \subseteq LiveIn(d, clock)
  PROVE  LET x == call[c]
             y == Failed(x, late)
         IN /\ y \in Call /\ y.pc \in {"salvage", "failed"} /\ (y.pc = "salvage" => ~q.atomic)
            /\ y.window = x.window
            /\ \A z \in Call :
                  /\ z.pc = y.pc /\ z.ask = y.ask /\ z.now = y.now /\ z.guarded = y.guarded
                  /\ z.queue = y.queue /\ z.seen = y.seen /\ z.touched = y.touched /\ z.eased = y.eased
                  /\ z.marked = y.marked /\ z.note = y.note /\ z.wrote = y.wrote
                  /\ (z.window <=> y.window) \/ (x.pc = "cut" /\ (z.window => x.touched))
                  => CallInv(z, d, clock)
  <1> DEFINE x == call[c]
             y == Failed(x, late)
  <1>t. Typed /\ x \in Call /\ CallInv(x, dst, clock) /\ x.pc \notin Ends
        /\ IF q.atomic THEN x.pc \in Ends \cup {"sql"} ELSE x.pc # "sql"
    BY CallIs
  <1>1. /\ OnCourse(x, dst) /\ OnRenewal(x, dst, clock)
        /\ x.window => x.touched
        /\ x.eased => x.touched
        /\ x.window => x.pc \in {"put", "recheck", "salvage"}
        /\ x.pc = "put" /\ x.window /\ ~x.eased => x.guarded
        /\ x.wrote => x.pc \in {"put", "recheck", "salvage"} \/ x.batched
    BY <1>t DEF CallInv, Honest, OnCourse, OnRenewal, Ends
  <1>3. CASE x.pc = "put" /\ x.guarded
    <2>1. y = Again(x, "salvage") /\ ~q.atomic
      BY <1>3, <1>t DEF Failed, Ends
    <2>2. /\ y \in Call /\ y.pc = "salvage" /\ y.window = x.window
          /\ \A z \in Call : /\ z.pc = "salvage" /\ z.ask = y.ask /\ z.now = y.now /\ z.guarded = y.guarded
                             /\ z.queue = y.queue /\ z.seen = y.seen /\ z.touched = y.touched
                             /\ z.eased = y.eased /\ (z.window <=> y.window)
                 => CallInv(z, d, clock)
      BY <1>1, <1>3, <1>t, <2>1, AgainIs
    <2> HIDE DEF y
    <2> QED
      BY <1>3, <2>1, <2>2 DEF y
  <1>4. CASE x.pc \in {"recheck", "salvage"}
    <2>1. y = [Failing(x, TRUE) EXCEPT !.note = "unknown"]
      BY <1>4 DEF Failed
    <2> HIDE DEF y
    <2>2. /\ y \in Call /\ y.pc = "failed" /\ y.window = x.window /\ y.eased = x.eased /\ y.touched = x.touched
          /\ y.marked /\ y.note = "unknown"
      BY <1>t, <2>1 DEF Call, Pcs, Failing
    <2>3. ASSUME NEW z \in Call, z.pc = y.pc, z.touched = y.touched, z.eased = y.eased,
                 z.marked = y.marked, z.note = y.note, z.window <=> y.window
          PROVE  CallInv(z, d, clock)
      BY <1>1, <2>2, <2>3 DEF CallInv, Honest, OnCourse, OnRenewal, Ends
    <2> HIDE DEF x
    <2> QED
      BY <1>4, <2>2, <2>3 DEF x, y
  <1>5. CASE ~(x.pc = "put" /\ x.guarded) /\ x.pc \notin {"recheck", "salvage"}
    <2> DEFINE marked == late \/ x.pc = "put" \/ x.batched
    <2>1. marked \in BOOLEAN /\ (x.wrote => marked)
      BY <1>1, <1>5, <1>t DEF Call
    <2>2. y = Failing(x, marked)
      BY <1>5, Zenon DEF Failed
    <2> HIDE DEF marked, y
    <2>3. /\ y \in Call /\ y.pc = "failed" /\ y.window = x.window /\ y.eased = x.eased /\ y.touched = x.touched
          /\ y.wrote = x.wrote /\ y.marked = marked
      BY <1>t, <2>1, <2>2 DEF Call, Pcs, Failing
    <2>4. ASSUME NEW z \in Call, z.pc = y.pc, z.touched = y.touched, z.eased = y.eased,
                 z.marked = y.marked, z.wrote = y.wrote,
                 (z.window <=> y.window) \/ (x.pc = "cut" /\ (z.window => x.touched))
          PROVE  CallInv(z, d, clock)
      <3>1. Honest(z)
        BY <2>1, <2>3, <2>4 DEF Honest
      <3>2. OnCourse(z, d)
        BY <1>1, <2>3, <2>4 DEF OnCourse, Ends
      <3>3. z.window /\ ~z.eased => ~z.wrote
        BY <1>1, <1>5, <1>t, <2>3, <2>4 DEF CallInv, Honest
      <3>4. OnRenewal(z, d, clock)
        BY <2>3, <2>4, <3>3 DEF OnRenewal, Ends
      <3> QED
        BY <3>1, <3>2, <3>4 DEF CallInv
    <2> HIDE DEF x
    <2> QED
      BY <1>5, <2>3, <2>4 DEF x, y
  <1> QED
    BY <1>3, <1>4, <1>5

LEMMA FailsOK == ASSUME CallsInv, NEW c \in Client, Fails(c) PROVE CallsInv'
  <1>1. PICK late \in BOOLEAN : call' = [call EXCEPT ![c] = Failed(call[c], late)]
    BY Zenon DEF Fails
  <1> DEFINE y == Failed(call[c], late)
  <1>2. Typed /\ Ongoing(c) /\ dst \in [DOMAIN dst -> Expiry \cup {Absent}]
    BY CallIs DEF Fails, Typed
  <1>3. /\ y \in Call /\ y.pc \in {"salvage", "failed"} /\ (y.pc = "salvage" => ~q.atomic)
        /\ CallInv(y, dst, clock)
    <2>1. \A z \in Call :
             /\ z.pc = y.pc /\ z.ask = y.ask /\ z.now = y.now /\ z.guarded = y.guarded
             /\ z.queue = y.queue /\ z.seen = y.seen /\ z.touched = y.touched /\ z.eased = y.eased
             /\ z.marked = y.marked /\ z.note = y.note /\ z.wrote = y.wrote
             /\ (z.window <=> y.window)
             => CallInv(z, dst, clock)
      BY <1>2, FailedIs
    <2>2. y \in Call /\ y.pc \in {"salvage", "failed"} /\ (y.pc = "salvage" => ~q.atomic)
      BY <1>2, FailedIs
    <2> HIDE DEF y
    <2> QED
      BY <2>1, <2>2
  <1>4. left' \in [{"calls", "passes", "fails", "ticks"} -> Nat] /\ UNCHANGED <<clock, q, dst, asks, pass>>
    BY <1>2 DEF Fails, Failure, Typed
  <1>5. IF q.atomic THEN y.pc \in Ends \cup {"sql"} ELSE y.pc # "sql"
    BY <1>3 DEF Ends
  <1> HIDE DEF y
  <1> QED
    BY <1>1, <1>3, <1>4, <1>5, Turns DEF y

\* What the write at hand leaves.
LEMMA SentIs ==
  ASSUME CallsInv, NEW c \in Client, Ongoing(c), NEW d \in Sent(call[c])
  PROVE  /\ d \in [DOMAIN dst -> Expiry \cup {Absent}]
         /\ Mild(d) \/ q.atomic
         /\ call[c].pc = "put" => LiveIn(dst, clock) \subseteq LiveIn(d, clock)
         /\ call[c].pc = "cut" => d = Set(call[c].ask.t, Absent)
  <1> DEFINE x == call[c]
             a == x.ask
             unless(e) == IF dst[a.t] \in {Absent, e} THEN {Set(a.t, e)} ELSE {}
  <1>t. Typed /\ x \in Call /\ CallInv(x, dst, clock) /\ x.pc \notin Ends
        /\ IF q.atomic THEN x.pc \in Ends \cup {"sql"} ELSE x.pc # "sql"
    BY CallIs
  <1>1. /\ a \in Ask /\ Fits(a, DOMAIN dst) /\ x.e \in Expiry /\ Forever \in Expiry
        /\ x.pc \in {"unrelate", "deny", "removeDeny"} => a.op = x.pc
        /\ x.pc \in {"blind", "cut", "put"} => a.op = "relate"
    BY <1>t DEF CallInv, OnCourse, Fits, Ends, Call, Expiry
  <1>2. a.op \in {"relate", "unrelate", "deny", "removeDeny"} => a.t \in DOMAIN dst
    BY <1>1 DEF Fits
  <1>3. CASE x.pc = "sql"
    <2>1. d = IF a.op = "relate" THEN Set(a.t, Resolve(dst[a.t], a.e, x.now))
              ELSE IF a.op = "deny" THEN Set(a.t, Forever)
              ELSE IF a.op \in {"unrelate", "removeDeny"} THEN Set(a.t, Absent)
              ELSE Purged(a, dst)
      BY <1>3 DEF Sent
    <2>2. q.atomic
      BY <1>3, <1>t
    <2>3. CASE a.op = "relate"
      <3>1. Resolve(dst[a.t], a.e, x.now) \in Expiry \cup {Absent}
        BY <1>1, <1>2, <1>t, <2>3 DEF Resolve, Typed, Ask, Expiry, Forever, Absent, Omitted
      <3> QED
        BY <1>2, <1>3, <1>t, <2>1, <2>2, <2>3, <3>1, SetIs
    <2>4. CASE a.op \in {"deny", "unrelate", "removeDeny"}
      <3>1. d \in {Set(a.t, Forever), Set(a.t, Absent)}
        BY <2>1, <2>4
      <3> QED
        BY <1>1, <1>2, <1>3, <1>t, <2>2, <2>4, <3>1, SetIs
    <2>5. CASE a.op \notin {"relate", "deny", "unrelate", "removeDeny"}
      BY <1>3, <1>t, <2>1, <2>2, <2>5, WithoutIs DEF Purged
    <2> QED
      BY <2>3, <2>4, <2>5
  <1>4. CASE x.pc \in {"unrelate", "removeDeny", "cut"}
    <2>1. d = Set(a.t, Absent) /\ a.t \in DOMAIN dst
      BY <1>1, <1>2, <1>4 DEF Sent
    <2> QED
      BY <1>4, <1>t, <2>1, SetIs
  <1>5. ASSUME NEW e \in Expiry, d \in unless(e), a.t \in DOMAIN dst
        PROVE  /\ d \in [DOMAIN dst -> Expiry \cup {Absent}] /\ Mild(d)
               /\ LiveIn(dst, clock) \subseteq LiveIn(d, clock)
    <2>1. d = Set(a.t, e) /\ dst[a.t] \in {Absent, e}
      BY <1>5
    <2>2. d \in [DOMAIN dst -> Expiry \cup {Absent}] /\ Mild(d)
      BY <1>5, <1>t, <2>1, SetIs
    <2>3. ~Loses(d)
      BY <1>5, <2>1 DEF Loses, Set, Expiry, Forever, Absent
    <2> QED
      BY <1>t, <2>2, <2>3, MildKeeps
  <1>6. CASE x.pc \in {"blind", "put"}
    <2>1. d \in unless(x.e) /\ a.t \in DOMAIN dst
      BY <1>1, <1>2, <1>6 DEF Sent
    <2> HIDE DEF unless, a
    <2> QED
      BY <1>1, <1>5, <1>6, <2>1
  <1>7. CASE x.pc = "deny"
    <2>1. d \in unless(Forever) /\ a.t \in DOMAIN dst
      BY <1>1, <1>2, <1>7 DEF Sent
    <2> HIDE DEF unless, a
    <2> QED
      BY <1>1, <1>5, <1>7, <2>1
  <1>8. CASE x.pc \notin {"sql", "unrelate", "removeDeny", "cut", "blind", "put", "deny"}
    BY <1>8 DEF Sent
  <1> QED
    BY <1>3, <1>4, <1>6, <1>7, <1>8

\* The delete of a renewal exposes its group only after another wrote.
LEMMA HalvedIs ==
  ASSUME CallsInv, NEW c \in Client, call[c].pc = "cut",
         Exposed(Halved(call[c]), Set(call[c].ask.t, Absent))
  PROVE  call[c].touched
  <1> DEFINE x == call[c]
             t == x.ask.t
             V == LiveIn(dst, clock)
             d == Set(t, Absent)
             W == LiveIn(d, clock)
             held == t.object \in Group /\ t \in Now
  <1>t. Typed /\ x \in Call /\ CallInv(x, dst, clock) /\ V \in SUBSET Tuple
    BY CallIs
  <1>1. /\ t \in DOMAIN dst /\ (x.eased => x.touched)
        /\ x.guarded /\ ~x.touched => ~Carries(V, t.object)
        /\ ~x.guarded /\ ~x.eased /\ t.object \in Group => ~Live(dst[t], clock)
    BY <1>t DEF CallInv, OnCourse, OnRenewal, Fits, Ends
  <1>2. W \subseteq V
    BY <1>1 DEF LiveIn, Set
  <1>h. Halved(x) = [x EXCEPT !.pc = "put", !.held = held]
    BY Zenon DEF Halved
  <1>3. held /\ CarriedDenies(W, t.object) # {}
    <2> DEFINE z == [x EXCEPT !.pc = "put", !.held = held]
    <2>1. Exposed(z, d)
      BY <1>h
    <2> HIDE DEF held, d, W
    <2>2. z.held = held /\ z.ask = x.ask
      BY <1>t DEF Call
    <2> HIDE DEF z
    <2> QED
      BY <2>1, <2>2 DEF Exposed, W
  <1>4. t.object \in Group /\ Live(dst[t], clock)
    BY <1>3 DEF Now, LiveIn
  <1>5. Carries(V, t.object)
    <2> HIDE DEF W
    <2> QED
      BY <1>2, <1>3, <1>4, <1>t, CarriedMeans, CarriesMore
  <1> QED
    BY <1>1, <1>4, <1>5

\* A request of a call landed, and its answer was lost.
LEMMA UnheardIs ==
  ASSUME CallsInv, NEW c \in Client, Ongoing(c), NEW late \in BOOLEAN, NEW rest \in SUBSET Step,
         NEW d \in [DOMAIN dst -> Expiry \cup {Absent}],
         Mild(d) \/ q.atomic,
         call[c].pc = "put" => LiveIn(dst, clock) \subseteq LiveIn(d, clock),
         call[c].pc = "cut" => d = Set(call[c].ask.t, Absent),
         Unheard(c, [Failed(call[c], late) EXCEPT !.rest = rest], d), Failure
  PROVE  CallsInv'
  <1> DEFINE x == call[c]
             y == Failed(x, late)
             lost == y.lost \/ d # dst
             window == y.window \/ (x.pc = "cut" /\ Exposed(Halved(x), d))
             z == [y EXCEPT !.rest = rest, !.lost = lost, !.window = window]
  <1>1. /\ y \in Call /\ y.pc \in {"salvage", "failed"} /\ (y.pc = "salvage" => ~q.atomic)
        /\ \A w \in Call :
              /\ w.pc = y.pc /\ w.ask = y.ask /\ w.now = y.now /\ w.guarded = y.guarded
              /\ w.queue = y.queue /\ w.seen = y.seen /\ w.touched = y.touched /\ w.eased = y.eased
              /\ w.marked = y.marked /\ w.note = y.note /\ w.wrote = y.wrote
              /\ (w.window <=> y.window) \/ (x.pc = "cut" /\ (w.window => x.touched))
              => CallInv(w, d, clock)
        /\ y.window = x.window
    BY FailedIs
  <1>2. Typed /\ CallInv(x, dst, clock)
    BY CallIs
  <1>3. Effect(c, z, d)
    <2>1. Effect(c, [[y EXCEPT !.rest = rest] EXCEPT !.lost = [y EXCEPT !.rest = rest].lost \/ d # dst,
                           !.window = [y EXCEPT !.rest = rest].window \/ (x.pc = "cut" /\ Exposed(Halved(x), d))], d)
      BY Zenon DEF Unheard
    <2> HIDE DEF y
    <2>2. [y EXCEPT !.rest = rest].lost = y.lost /\ [y EXCEPT !.rest = rest].window = y.window
      BY <1>1 DEF Call
    <2>3. Effect(c, [[y EXCEPT !.rest = rest] EXCEPT !.lost = lost, !.window = window], d)
      BY <2>1, <2>2, Zenon
    <2> HIDE DEF lost, window
    <2>4. [[y EXCEPT !.rest = rest] EXCEPT !.lost = lost, !.window = window] = z
      BY <1>1 DEF Call
    <2> QED
      BY <2>3, <2>4, Zenon
  <1>4. lost \in BOOLEAN /\ window \in BOOLEAN
    BY <1>1 DEF Call, Exposed
  <1>5. (window <=> y.window) \/ (x.pc = "cut" /\ (window => x.touched))
    <2>1. x.window => x.pc # "cut"
      BY <1>2 DEF CallInv, OnCourse
    <2>2. x.pc = "cut" /\ Exposed(Halved(x), d) => x.touched
      BY HalvedIs
    <2> QED
      BY <1>1, <2>1, <2>2
  <1> HIDE DEF y, lost, window
  <1>6. /\ z \in Call /\ z.pc = y.pc /\ z.ask = y.ask /\ z.now = y.now /\ z.guarded = y.guarded
        /\ z.queue = y.queue /\ z.seen = y.seen /\ z.touched = y.touched /\ z.eased = y.eased
        /\ z.marked = y.marked /\ z.note = y.note /\ z.wrote = y.wrote /\ z.window = window
    BY <1>1, <1>4 DEF Call
  <1> HIDE DEF z
  <1>7. CallInv(z, d, clock)
    BY <1>1, <1>5, <1>6
  <1>8. left' \in [{"calls", "passes", "fails", "ticks"} -> Nat]
    BY <1>2 DEF Failure, Typed
  <1>9. IF q.atomic THEN z.pc \in Ends \cup {"sql"} ELSE z.pc # "sql"
    BY <1>1, <1>6 DEF Ends
  <1> QED
    BY <1>3, <1>6, <1>7, <1>8, <1>9, Takes

LEMMA LosesAnswerOK == ASSUME CallsInv, NEW c \in Client, LosesAnswer(c) PROVE CallsInv'
  <1> DEFINE x == call[c]
  <1>t. Typed /\ x \in Call /\ Ongoing(c) /\ Failure
    BY CallIs DEF LosesAnswer
  <1>1. PICK late \in BOOLEAN :
           \/ \E d \in Sent(x) : Unheard(c, Failed(x, late), d)
           \/ /\ x.pc = "purge" /\ x.rest # {}
              /\ \E s \in Chunks(x) :
                     Unheard(c, [Failed(x, late) EXCEPT !.rest = @ \ s], Without(dst, {y.t : y \in s}))
    BY Zenon DEF LosesAnswer
  <1> DEFINE y == Failed(x, late)
  <1>2. y \in Call
    <2>1. dst \in [DOMAIN dst -> Expiry \cup {Absent}]
      BY <1>t DEF Typed
    <2> QED
      BY <1>t, <2>1, FailedIs
  <1>3. ASSUME NEW d \in Sent(x), Unheard(c, y, d) PROVE CallsInv'
    <2> DEFINE rest == y.rest
    <2>1. rest \in SUBSET Step /\ y = [y EXCEPT !.rest = rest]
      <3> HIDE DEF y
      <3> QED
        BY <1>2 DEF Call
    <2>2. Unheard(c, [y EXCEPT !.rest = rest], d)
      <3> HIDE DEF y
      <3> QED
        BY <1>3, <2>1, Zenon
    <2>3. /\ d \in [DOMAIN dst -> Expiry \cup {Absent}]
          /\ Mild(d) \/ q.atomic
          /\ x.pc = "put" => LiveIn(dst, clock) \subseteq LiveIn(d, clock)
          /\ x.pc = "cut" => d = Set(x.ask.t, Absent)
      BY <1>3, <1>t, SentIs
    <2> HIDE DEF rest
    <2> QED
      BY <1>t, <2>1, <2>2, <2>3, UnheardIs
  <1>4. ASSUME x.pc = "purge", NEW s, Unheard(c, [y EXCEPT !.rest = @ \ s], Without(dst, {w.t : w \in s}))
        PROVE  CallsInv'
    <2> DEFINE rest == y.rest \ s
               d == Without(dst, {w.t : w \in s})
    <2>1. rest \in SUBSET Step
      <3> HIDE DEF y
      <3> QED
        BY <1>2 DEF Call
    <2>2. Unheard(c, [y EXCEPT !.rest = rest], d)
      BY <1>4, Zenon
    <2>3. d \in [DOMAIN dst -> Expiry \cup {Absent}] /\ Mild(d)
      BY <1>t, WithoutIs
    <2> HIDE DEF rest, d
    <2> QED
      BY <1>4, <1>t, <2>1, <2>2, <2>3, UnheardIs
  <1> QED
    BY <1>1, <1>3, <1>4

-----------------------------------------------------------------------------
(* Steps of the pass, and of time.                                         *)

\* PassWell, of a pass p.
Planned(p) ==
    /\ \A k \in Partition : /\ p.old[k] \subseteq DOMAIN dst
                            /\ \A s \in p.todo[k] :
                                   s.t \in DOMAIN dst /\ (s.do # "delete" => q.src[s.t] # Absent)
    /\ \A t \in p.mid : t \in DOMAIN dst /\ q.src[t] # Absent

LEMMA PassLands ==
  ASSUME CallsInv, NEW p, p \in Pass(p), Planned(p), NEW d \in [DOMAIN dst -> Expiry \cup {Absent}],
         Mild(d) \/ q.atomic, PassWrites(p, d)
  PROVE  CallsInv'
  <1>t. Typed /\ Modes
    BY DEF CallsInv
  <1>1. /\ dst' = d /\ UNCHANGED <<clock, q, asks, left>> /\ pass' = p
        /\ call' = [k \in Client |-> Saw(k, d)]
    BY DEF PassWrites
  <1>2. \A k \in Client : call'[k] = Saw(k, d)
    BY <1>1
  <1>3. \A k \in Client : call'[k] \in Call /\ call'[k].pc = call[k].pc
    BY <1>2, <1>t, SawIs
  <1>4. DOMAIN d = DOMAIN dst
    OBVIOUS
  <1>5. Typed'
    <2>1. call' \in [Client -> Call]
      BY <1>1, <1>3
    <2> QED
      BY <1>1, <1>4, <1>t, <2>1 DEF Typed
  <1>6. Modes'
    BY <1>1, <1>3, <1>t DEF Modes
  <1>7. PassWell'
    BY <1>1, <1>4 DEF PassWell, Planned
  <1>8. pass' \in Pass(pass')
    BY <1>1
  <1>9. \A k \in Client : CallInv(call'[k], d, clock)
    BY <1>2, Bystander
  <1> QED
    BY <1>1, <1>5, <1>6, <1>7, <1>8, <1>9 DEF CallsInv

\* The pass changes, the store and the calls do not.
LEMMA PassTurns ==
  ASSUME CallsInv, NEW p, p \in Pass(p), Planned(p), pass' = p, UNCHANGED <<clock, q, dst, asks, call>>,
         left' \in [{"calls", "passes", "fails", "ticks"} -> Nat]
  PROVE  CallsInv'
  <1>t. Typed /\ Modes
    BY DEF CallsInv
  <1>1. Typed' /\ Modes' /\ PassWell'
    BY <1>t DEF Typed, Modes, PassWell, Planned
  <1>2. \A k \in Client : CallInv(call'[k], dst', clock')
    BY DEF CallsInv
  <1> QED
    BY <1>1, <1>2 DEF CallsInv

LEMMA PassIs ==
  ASSUME CallsInv
  PROVE  Typed /\ Planned(pass) /\ pass \in Pass(pass)
  BY DEF CallsInv, PassWell, Planned

LEMMA PassSweepOK == ASSUME CallsInv, NEW k \in Partition, PassSweep(k) PROVE CallsInv'
  <1>1. PICK t \in pass.old[k] :
           PassWrites([pass EXCEPT !.old[k] = @ \ {t}, !.begun = @ \cup {k}],
                      IF Undeclared(q, t) THEN dst ELSE Set(t, Absent))
    BY DEF PassSweep
  <1> DEFINE old == [pass.old EXCEPT ![k] = @ \ {t}]
             begun == pass.begun \cup {k}
             p == [pass EXCEPT !.old = old, !.begun = begun]
             d == IF Undeclared(q, t) THEN dst ELSE Set(t, Absent)
  <1>t. Typed /\ Planned(pass) /\ pass \in Pass(pass)
    BY PassIs
  <1>2. t \in DOMAIN dst
    BY <1>t DEF Planned
  <1>3. d \in [DOMAIN dst -> Expiry \cup {Absent}] /\ Mild(d)
    <2>1. dst \in [DOMAIN dst -> Expiry \cup {Absent}] /\ Mild(dst)
      BY <1>t DEF Typed, Mild
    <2> QED
      BY <1>2, <1>t, <2>1, SetIs
  <1>4. p = [pass EXCEPT !.old[k] = @ \ {t}, !.begun = @ \cup {k}]
    BY <1>t DEF Pass
  <1>5. PassWrites(p, d)
    BY <1>1, <1>4
  <1>6. old \in [Partition -> SUBSET Tuple] /\ begun \in SUBSET Partition
        /\ \A j \in Partition : old[j] \subseteq pass.old[j]
    BY <1>t DEF Pass
  <1> HIDE DEF old, begun, d
  <1>7. p \in Pass(p) /\ p.old = old /\ p.todo = pass.todo /\ p.mid = pass.mid
    BY <1>6, <1>t DEF Pass
  <1> HIDE DEF p
  <1>8. Planned(p)
    BY <1>6, <1>7, <1>t DEF Planned
  <1> QED
    BY <1>3, <1>5, <1>7, <1>8, PassLands

\* The next steps are of those left.
LEMMA NextOfIs ==
  ASSUME NEW k
  PROVE  NextOf(k) \subseteq pass.todo[k]
  <1>1. ASSUME NEW prec, NEW V, NEW left0 PROVE NextMembership(V, prec, left0) \subseteq left0
    BY DEF NextMembership, Foremost
  <1> QED
    BY <1>1 DEF NextOf, NextSteps

LEMMA PassStepOK == ASSUME CallsInv, NEW k \in Partition, PassStep(k) PROVE CallsInv'
  <1> DEFINE Then(s, p) ==
               IF Undeclared(q, s.t) THEN PassWrites(p, dst)
               ELSE IF s.do = "delete" THEN PassWrites(p, Set(s.t, Absent))
               ELSE IF s.t.deny THEN PassWrites(p, Set(s.t, Forever))
               ELSE IF q.atomic \/ dst[s.t] \in {Absent, q.src[s.t]}
               THEN PassWrites(p, Set(s.t, q.src[s.t]))
               ELSE IF /\ s.t.object \in Group /\ s.t \in Now
                       /\ CarriedDenies(Now, s.t.object) # {}
               THEN PassWrites([pass EXCEPT !.pc = "dead"], dst)
               ELSE PassWrites([p EXCEPT !.pc = "put", !.mid = {s.t},
                                         !.guarded = s.t.object \in Group /\ s.t \in Now],
                               Set(s.t, Absent))
  <1>1. PICK s \in NextOf(k) : Then(s, [pass EXCEPT !.todo[k] = @ \ {s}, !.begun = @ \cup {k}])
    BY DEF PassStep
  <1>t. Typed /\ Planned(pass) /\ pass \in Pass(pass)
    BY PassIs
  <1>n. s \in pass.todo[k]
    BY NextOfIs
  <1> DEFINE todo == [pass.todo EXCEPT ![k] = @ \ {s}]
             begun == pass.begun \cup {k}
             p == [pass EXCEPT !.todo = todo, !.begun = begun]
             t == s.t
  <1>2. t \in DOMAIN dst /\ (s.do # "delete" => q.src[t] # Absent /\ q.src[t] \in Expiry) /\ t \in Tuple
    BY <1>n, <1>t DEF Planned, Typed
  <1>3. Then(s, p)
    <2>1. p = [pass EXCEPT !.todo[k] = @ \ {s}, !.begun = @ \cup {k}]
      BY <1>t DEF Pass
    <2> HIDE DEF p, Then
    <2> QED
      BY <1>1, <2>1
  <1>4. todo \in [Partition -> SUBSET Step] /\ begun \in SUBSET Partition
        /\ \A j \in Partition : todo[j] \subseteq pass.todo[j]
    BY <1>t DEF Pass
  <1> HIDE DEF todo, begun
  <1>5. p \in Pass(p) /\ p.old = pass.old /\ p.todo = todo /\ p.mid = pass.mid
    BY <1>4, <1>t DEF Pass
  <1>6. Planned(p)
    <2> HIDE DEF p
    <2> QED
      BY <1>4, <1>5, <1>t DEF Planned
  <1>7. dst \in [DOMAIN dst -> Expiry \cup {Absent}] /\ Mild(dst)
    BY <1>t DEF Typed, Mild
  <1>8. Forever \in Expiry
    BY DEF Expiry
  <1> HIDE DEF p
  <1>9. CASE PassWrites(p, dst)
    BY <1>5, <1>6, <1>7, <1>9, PassLands
  <1>10. CASE PassWrites(p, Set(t, Absent))
    BY <1>2, <1>5, <1>6, <1>10, <1>t, SetIs, PassLands
  <1>11. CASE t.deny /\ PassWrites(p, Set(t, Forever))
    BY <1>2, <1>5, <1>6, <1>8, <1>11, <1>t, SetIs, PassLands
  <1>12. CASE s.do # "delete" /\ (q.atomic \/ dst[t] \in {Absent, q.src[t]}) /\ PassWrites(p, Set(t, q.src[t]))
    BY <1>2, <1>5, <1>6, <1>12, <1>t, SetIs, PassLands
  <1>13. CASE PassWrites([pass EXCEPT !.pc = "dead"], dst)
    <2> DEFINE r == [pass EXCEPT !.pc = "dead"]
    <2>1. r \in Pass(r) /\ r.old = pass.old /\ r.todo = pass.todo /\ r.mid = pass.mid
      BY <1>t DEF Pass
    <2>2. PassWrites(r, dst)
      BY <1>13
    <2> HIDE DEF r
    <2>3. Planned(r)
      BY <1>t, <2>1 DEF Planned
    <2> QED
      BY <1>7, <2>1, <2>2, <2>3, PassLands
  <1>14. CASE s.do # "delete" /\ PassWrites([p EXCEPT !.pc = "put", !.mid = {s.t},
                                         !.guarded = s.t.object \in Group /\ s.t \in Now], Set(s.t, Absent))
    <2> DEFINE guarded == s.t.object \in Group /\ s.t \in Now
               mid == {s.t}
               r == [p EXCEPT !.pc = "put", !.mid = mid, !.guarded = guarded]
    <2>1. guarded \in BOOLEAN /\ mid \in SUBSET Tuple /\ \A y \in mid : y = t
      BY <1>2
    <2>2. PassWrites(r, Set(t, Absent))
      BY <1>14
    <2> HIDE DEF guarded, mid
    <2>3. r \in Pass(r) /\ r.old = p.old /\ r.todo = p.todo /\ r.mid = mid
      BY <1>5, <2>1 DEF Pass
    <2> HIDE DEF r
    <2>4. Planned(r)
      BY <1>2, <1>6, <1>14, <2>1, <2>3 DEF Planned
    <2> QED
      BY <1>2, <1>t, <2>2, <2>3, <2>4, SetIs, PassLands
  <1> QED
    BY <1>3, <1>9, <1>10, <1>11, <1>12, <1>13, <1>14

LEMMA PassPutOK == ASSUME CallsInv, PassPut PROVE CallsInv'
  <1> DEFINE D(t) == IF dst[t] \in {Absent, q.src[t]} THEN Set(t, q.src[t]) ELSE dst
             Fine(t) == /\ D(t)[t] = q.src[t]
                        /\ pass.guarded => CarriedDenies(LiveIn(D(t), clock), t.object) = {}
  <1>1. PICK t \in pass.mid :
           PassWrites([pass EXCEPT !.pc = IF Fine(t) THEN "going" ELSE "dead", !.mid = {}], D(t))
    BY Zenon DEF PassPut
  <1> DEFINE pc == IF Fine(t) THEN "going" ELSE "dead"
             p == [pass EXCEPT !.pc = pc, !.mid = {}]
             d == D(t)
  <1>t. Typed /\ Planned(pass) /\ pass \in Pass(pass)
    BY PassIs
  <1>2. t \in DOMAIN dst /\ q.src[t] \in Expiry
    BY <1>t DEF Planned, Typed
  <1>3. d \in [DOMAIN dst -> Expiry \cup {Absent}] /\ Mild(d)
    <2>1. dst \in [DOMAIN dst -> Expiry \cup {Absent}] /\ Mild(dst)
      BY <1>t DEF Typed, Mild
    <2> QED
      BY <1>2, <1>t, <2>1, SetIs
  <1>4. pc \in {"going", "dead"}
    OBVIOUS
  <1>5. PassWrites(p, d)
    BY <1>1
  <1> HIDE DEF pc, d
  <1>6. p \in Pass(p) /\ p.old = pass.old /\ p.todo = pass.todo /\ p.mid = {}
    BY <1>4, <1>t DEF Pass
  <1> HIDE DEF p
  <1>7. Planned(p)
    BY <1>6, <1>t DEF Planned
  <1> QED
    BY <1>3, <1>5, <1>6, <1>7, PassLands

LEMMA PassEndOK == ASSUME CallsInv, PassEnd PROVE CallsInv'
  <1> DEFINE p == [pass EXCEPT !.pc = "done"]
  <1>t. Typed /\ Planned(pass) /\ pass \in Pass(pass)
    BY PassIs
  <1>1. p \in Pass(p) /\ p.old = pass.old /\ p.todo = pass.todo /\ p.mid = pass.mid
    BY <1>t DEF Pass
  <1>2. pass' = p /\ left' \in [{"calls", "passes", "fails", "ticks"} -> Nat]
    BY <1>t DEF PassEnd, Typed
  <1> HIDE DEF p
  <1>3. Planned(p)
    BY <1>1, <1>t DEF Planned
  <1> QED
    BY <1>1, <1>2, <1>3, PassTurns DEF PassEnd

LEMMA PassDiesOK == ASSUME CallsInv, PassDies PROVE CallsInv'
  <1> DEFINE p == [pass EXCEPT !.pc = "dead", !.mid = {}]
  <1>t. Typed /\ Planned(pass) /\ pass \in Pass(pass)
    BY PassIs
  <1>1. p \in Pass(p) /\ p.old = pass.old /\ p.todo = pass.todo /\ p.mid = {}
    BY <1>t DEF Pass
  <1>2. pass' = p /\ left' \in [{"calls", "passes", "fails", "ticks"} -> Nat]
    BY <1>t DEF PassDies, Typed
  <1> HIDE DEF p
  <1>3. Planned(p)
    BY <1>1, <1>t DEF Planned
  <1> QED
    BY <1>1, <1>2, <1>3, PassTurns DEF PassDies

\* What a pass plans is of tuples in play, and what it writes is in the source.
LEMMA PlanIs ==
  ASSUME Typed, NEW k \in Partition, NEW now
  PROVE  /\ Steps(q, dst, now, k) \in SUBSET Step
         /\ \A s \in Steps(q, dst, now, k) : s.t \in DOMAIN dst /\ (s.do # "delete" => q.src[s.t] # Absent)
         /\ Expired(q, dst, now, k) \in SUBSET Tuple /\ Expired(q, dst, now, k) \subseteq DOMAIN dst
         /\ Context(q, dst, now, k) \in SUBSET Tuple
  <1>1. DOMAIN dst \subseteq Tuple /\ DOMAIN q.src = DOMAIN dst
    BY DEF Typed
  <1>2. \A t \in Usable(q, now, k) : t \in DOMAIN dst /\ q.src[t] # Absent
    BY <1>1 DEF Usable, Of, LiveIn
  <1>3. \A t \in Rows(q, dst, k) : t \in DOMAIN dst
    BY DEF Rows, Of
  <1>4. /\ Writes(q, dst, now, k) \subseteq Usable(q, now, k)
        /\ Updates(q, dst, now, k) \subseteq Usable(q, now, k)
        /\ Deletes(q, dst, now, k) \subseteq Rows(q, dst, k)
        /\ Present(q, dst, now, k) \subseteq Rows(q, dst, k)
    BY DEF Writes, Updates, Deletes, Pending, Present
  <1>5. Expired(q, dst, now, k) \in SUBSET Tuple /\ Expired(q, dst, now, k) \subseteq DOMAIN dst
    BY <1>1, <1>3, <1>4 DEF Expired
  <1>6. Context(q, dst, now, k) \in SUBSET Tuple
    BY <1>1, <1>2, <1>3, <1>4 DEF Context
  <1>7. ASSUME NEW s \in Steps(q, dst, now, k)
        PROVE  s \in Step /\ s.t \in DOMAIN dst /\ (s.do # "delete" => q.src[s.t] # Absent)
    <2>1. CASE \E t \in Writes(q, dst, now, k) : s = [do |-> "write", as |-> "write", t |-> t]
      BY <1>1, <1>2, <1>4, <2>1 DEF Step
    <2>2. CASE \E t \in Deletes(q, dst, now, k) : s = [do |-> "delete", as |-> "delete", t |-> t]
      BY <1>1, <1>3, <1>4, <2>2 DEF Step
    <2>3. CASE \E t \in Updates(q, dst, now, k) :
                  \/ s = [do |-> "renew", as |-> "write", t |-> t]
                  \/ s = [do |-> "renew", as |-> "delete", t |-> t]
      BY <1>1, <1>2, <1>4, <2>3 DEF Step
    <2>4. \/ s \in {[do |-> "write", as |-> "write", t |-> t] : t \in Writes(q, dst, now, k)}
          \/ \E t \in Deletes(q, dst, now, k) : s = [do |-> "delete", as |-> "delete", t |-> t]
          \/ s \in {[do |-> "renew", t |-> t,
                     as |-> IF t.deny \/ Extends(q, dst, t) THEN "write" ELSE "delete"]
                       : t \in Updates(q, dst, now, k)}
      BY DEF Steps
    <2> QED
      BY <2>1, <2>2, <2>3, <2>4
  <1> QED
    BY <1>5, <1>6, <1>7

LEMMA PrecedencesIn ==
  ASSUME NEW steps \in SUBSET Step, NEW V, NEW cuts
  PROVE  Precedences(steps, V, cuts) \in SUBSET (Step \X Step)
  BY DEF Precedences

LEMMA PassBeginOK == ASSUME CallsInv, PassBegin PROVE CallsInv'
  <1>t. Typed
    BY DEF CallsInv
  <1> DEFINE refuse == \E k \in Partition : MassDelete(q, dst, clock, k) \/ DenyRefused(q, dst, clock, k)
             go(k)  == ~refuse /\ ~Refused(q, dst, clock, k)
             steps  == [k \in Partition |-> IF go(k) THEN Steps(q, dst, clock, k) ELSE {}]
             context == [k \in Partition |-> Context(q, dst, clock, k)]
             prec   == UNION {Precedences(steps[k], context[k], q.knows) : k \in Partition}
             ends   == {dst, Outcome(q, dst, clock)}
             pc == IF refuse THEN "refused" ELSE "going"
             old == [k \in Partition |-> IF go(k) THEN Expired(q, dst, clock, k) ELSE {}]
             may == [n \in clock .. MaxClock |-> UNION {Grants(LiveIn(d, n)) : d \in ends}]
             raced == \E c \in Client : Ongoing(c)
             cyclic == Residue(prec) # {}
             p == [NoPass EXCEPT !.pc = pc, !.todo = steps, !.context = context, !.old = old, !.prec = prec,
                                 !.start = dst, !.now = clock, !.may = may, !.raced = raced, !.cyclic = cyclic]
  <1>1. pass' = p
    BY Zenon DEF PassBegin
  <1>2. pc \in {"refused", "going"} /\ raced \in BOOLEAN /\ cyclic \in BOOLEAN
    OBVIOUS
  <1>3. \A k \in Partition :
            /\ steps[k] \in SUBSET Step
            /\ \A s \in steps[k] : s.t \in DOMAIN dst /\ (s.do # "delete" => q.src[s.t] # Absent)
            /\ old[k] \in SUBSET Tuple /\ old[k] \subseteq DOMAIN dst
            /\ context[k] \in SUBSET Tuple
    BY <1>t, PlanIs
  <1>4. prec \in SUBSET (Step \X Step)
    <2>1. \A k \in Partition : Precedences(steps[k], context[k], q.knows) \in SUBSET (Step \X Step)
      BY <1>3, PrecedencesIn
    <2> QED
      BY <2>1
  <1>5. /\ steps \in [Partition -> SUBSET Step] /\ old \in [Partition -> SUBSET Tuple]
        /\ context \in [Partition -> SUBSET Tuple]
    BY <1>3
  <1>6. clock \in Nat
    BY <1>t DEF Typed
  <1> HIDE DEF pc, steps, context, old, prec, may, raced, cyclic
  <1>7. p \in Pass(p) /\ p.old = old /\ p.todo = steps /\ p.mid = {}
    <2> DEFINE starts == {<<>>, dst}
               mays == {<<>>, may}
               Some == [pc : {"idle", "going", "put", "done", "dead", "refused"},
                        todo : [Partition -> SUBSET Step], old : [Partition -> SUBSET Tuple],
                        begun : SUBSET Partition, context : [Partition -> SUBSET Tuple],
                        prec : SUBSET (Step \X Step), mid : SUBSET Tuple, guarded : BOOLEAN,
                        start : starts, now : Nat, may : mays, raced : BOOLEAN, cyclic : BOOLEAN]
               p1 == [NoPass EXCEPT !.pc = pc, !.todo = steps, !.context = context]
               p2 == [p1 EXCEPT !.old = old, !.prec = prec, !.start = dst]
               p3 == [p2 EXCEPT !.now = clock, !.may = may]
    <2>1. p = [p3 EXCEPT !.raced = raced, !.cyclic = cyclic]
      OBVIOUS
    <2>2. NoPass \in Some /\ NoPass.mid = {}
      <3> DEFINE none == {}
                 empty == [k \in Partition |-> none]
      <3>1. /\ none \in SUBSET Partition /\ none \in SUBSET Tuple /\ none \in SUBSET (Step \X Step)
            /\ empty \in [Partition -> SUBSET Tuple] /\ empty \in [Partition -> SUBSET Step]
            /\ none = {}
        OBVIOUS
      <3>2. NoPass = [pc |-> "idle", todo |-> empty, old |-> empty, begun |-> none, context |-> empty,
                      prec |-> none, mid |-> none, guarded |-> FALSE, start |-> <<>>, now |-> 0,
                      may |-> <<>>, raced |-> FALSE, cyclic |-> FALSE]
        BY DEF NoPass
      <3> HIDE DEF empty, none
      <3>3. <<>> \in starts /\ <<>> \in mays /\ 0 \in Nat
        OBVIOUS
      <3> HIDE DEF starts, mays
      <3> QED
        BY <3>1, <3>2, <3>3
    <2>3. dst \in starts /\ may \in mays
      OBVIOUS
    <2> HIDE DEF p, p2, p3, starts, mays
    <2>4. p1 \in Some /\ p1.mid = {} /\ p1.todo = steps
      BY <1>2, <1>5, <2>2
    <2> HIDE DEF p1
    <2>5. p2 \in Some /\ p2.mid = {} /\ p2.todo = steps /\ p2.old = old
      BY <1>4, <1>5, <2>3, <2>4 DEF p2
    <2>6. p3 \in Some /\ p3.mid = {} /\ p3.todo = steps /\ p3.old = old
      BY <1>6, <2>3, <2>5 DEF p3
    <2>7. p \in Some /\ p.mid = {} /\ p.todo = steps /\ p.old = old
      BY <1>2, <2>1, <2>6
    <2>8. p.start \in {p.start} /\ p.may \in {p.may}
      OBVIOUS
    <2> QED
      BY <2>7, <2>8 DEF Pass
  <1> HIDE DEF p
  <1>8. Planned(p)
    BY <1>3, <1>7 DEF Planned
  <1>9. left' \in [{"calls", "passes", "fails", "ticks"} -> Nat] /\ UNCHANGED <<clock, q, dst, asks, call>>
    BY <1>t DEF PassBegin, Typed
  <1> QED
    BY <1>1, <1>7, <1>8, <1>9, PassTurns

LEMMA TickedIs ==
  ASSUME NEW x \in Call
  PROVE  LET y == [x EXCEPT !.touched = TRUE, !.eased = TRUE]
         IN /\ y \in Call /\ y.pc = x.pc /\ y.ask = x.ask /\ y.now = x.now /\ y.guarded = x.guarded
            /\ y.queue = x.queue /\ y.seen = x.seen /\ y.touched = TRUE /\ y.eased = TRUE
            /\ y.window = x.window /\ y.wrote = x.wrote /\ y.batched = x.batched
            /\ y.marked = x.marked /\ y.held = x.held
  BY DEF Call

LEMMA TickOK == ASSUME CallsInv, Tick PROVE CallsInv'
  <1>t. Typed /\ Modes /\ PassWell /\ pass \in Pass(pass)
    BY DEF CallsInv
  <1>1. /\ clock' = clock + 1 /\ clock < MaxClock /\ UNCHANGED <<q, dst, asks, pass>>
        /\ \A c \in Client : call'[c] = IF Ongoing(c) \/ call[c].may # {} THEN [call[c] EXCEPT !.touched = TRUE, !.eased = TRUE]
                                        ELSE call[c]
        /\ call' = [c \in Client |-> call'[c]]
    <2> DEFINE y(c) == IF Ongoing(c) \/ call[c].may # {} THEN [call[c] EXCEPT !.touched = TRUE, !.eased = TRUE]
                       ELSE call[c]
    <2>1. call' = [c \in Client |-> y(c)]
      BY DEF Tick
    <2> HIDE DEF y
    <2>2. (\A c \in Client : call'[c] = y(c)) /\ call' = [c \in Client |-> call'[c]]
      BY <2>1
    <2> QED
      BY <2>2 DEF y, Tick
  <1>2. clock' \in 0 .. MaxClock
    <2>1. clock' = clock + 1 /\ clock < MaxClock /\ clock \in 0 .. MaxClock
      BY <1>t DEF Tick, Typed
    <2> QED
      BY RelationsAssumption, <2>1
  <1>3. ASSUME NEW c \in Client
        PROVE  /\ call'[c] \in Call /\ CallInv(call'[c], dst, clock')
               /\ call'[c].pc = call[c].pc
    <2> DEFINE x == call[c]
               y == call'[c]
    <2>1. x \in Call /\ CallInv(x, dst, clock) /\ (Ongoing(c) <=> x.pc \notin Ends)
      BY CallIs
    <2>2. CASE Ongoing(c) \/ call[c].may # {}
      <3>1. y = [x EXCEPT !.touched = TRUE, !.eased = TRUE]
        BY <1>1, <2>2
      <3>2. /\ y \in Call /\ y.pc = x.pc /\ y.ask = x.ask /\ y.now = x.now /\ y.guarded = x.guarded
            /\ y.queue = x.queue /\ y.seen = x.seen /\ y.touched /\ y.eased /\ y.window = x.window
            /\ y.wrote = x.wrote /\ y.batched = x.batched /\ y.marked = x.marked /\ y.held = x.held
        <4> DEFINE z == [x EXCEPT !.touched = TRUE, !.eased = TRUE]
        <4>1. /\ z \in Call /\ z.pc = x.pc /\ z.ask = x.ask /\ z.now = x.now /\ z.guarded = x.guarded
              /\ z.queue = x.queue /\ z.seen = x.seen /\ z.touched = TRUE /\ z.eased = TRUE
              /\ z.window = x.window /\ z.wrote = x.wrote /\ z.batched = x.batched
              /\ z.marked = x.marked /\ z.held = x.held
          <5> HIDE DEF x
          <5> QED
            BY <2>1, TickedIs
        <4>2. y = z
          BY <3>1
        <4> HIDE DEF x, y, z
        <4> QED
          BY <4>1, <4>2
      <3> HIDE DEF x, y
      <3>3. CallInv(y, dst, clock')
        BY <2>1, <3>2 DEF CallInv, Honest, OnCourse, OnRenewal, Ends
      <3> QED
        BY <3>2, <3>3 DEF x, y
    <2>3. CASE ~(Ongoing(c) \/ call[c].may # {})
      <3>1. y = x
        BY <1>1, <2>3
      <3>2. x.pc \in Ends
        BY <2>1, <2>3
      <3> HIDE DEF x, y
      <3>3. CallInv(y, dst, clock')
        BY <2>1, <3>1, <3>2 DEF CallInv, Honest, OnCourse, OnRenewal, Ends
      <3> QED
        BY <2>1, <3>1, <3>3 DEF x, y
    <2> QED
      BY <2>2, <2>3
  <1>4. Typed'
    <2>1. call' \in [Client -> Call]
      BY <1>1, <1>3
    <2>2. left' \in [{"calls", "passes", "fails", "ticks"} -> Nat]
      <3> DEFINE ticks == left.ticks - 1
      <3>1. left' = [left EXCEPT !.ticks = ticks] /\ left.ticks > 0
        BY DEF Tick
      <3>2. ticks \in Nat
        BY <1>t, <3>1 DEF Typed
      <3> HIDE DEF ticks
      <3> QED
        BY <1>t, <3>1, <3>2 DEF Typed
    <2> QED
      BY <1>1, <1>2, <1>t, <2>1, <2>2 DEF Typed
  <1>5. Modes'
    BY <1>1, <1>3, <1>t DEF Modes
  <1>6. PassWell' /\ pass' \in Pass(pass')
    BY <1>1, <1>t DEF PassWell
  <1> QED
    BY <1>1, <1>3, <1>4, <1>5, <1>6 DEF CallsInv

LEMMA CallsInvInit == Init => CallsInv
  <1> SUFFICES ASSUME Init PROVE CallsInv
    OBVIOUS
  <1>1. PICK s \in Scenes :
           /\ \E src \in s.src, phase \in s.phase, k \in s.knows, p \in s.prune, a \in s.atomic :
                  q = [src |-> src, phase |-> phase, knows |-> k, prune |-> p, atomic |-> a]
           /\ dst \in s.dst /\ asks = s.asks
           /\ left = [calls |-> s.calls, passes |-> s.passes, fails |-> s.fails, ticks |-> s.ticks]
    BY DEF Init
  <1>2. /\ clock = 0 /\ pass = NoPass /\ call = [c \in Client |-> NoCall]
    BY DEF Init
  <1>3. /\ DOMAIN dst \subseteq Tuple /\ IsFiniteSet(DOMAIN dst)
        /\ s.src \cup {dst} \subseteq [DOMAIN dst -> Expiry \cup {Absent}]
        /\ \A a \in s.asks : Fits(a, DOMAIN dst)
        /\ s.knows \cup s.prune \cup s.atomic \subseteq BOOLEAN
        /\ s.phase \subseteq [Object -> Phases]
        /\ {s.calls, s.passes, s.fails, s.ticks} \subseteq Nat
    BY RelationsAssumption, <1>1
  <1>4. NoCall \in Call
    BY DEF NoCall, Call, Pcs, Expiry, Forever, Ask
  <1>5. /\ q.src \in s.src /\ q.phase \in s.phase /\ q.knows \in s.knows /\ q.prune \in s.prune /\ q.atomic \in s.atomic
    BY <1>1
  <1>6. left \in [{"calls", "passes", "fails", "ticks"} -> Nat]
    BY <1>1, <1>3
  <1>7. Typed
    BY RelationsAssumption, <1>1, <1>2, <1>3, <1>4, <1>5, <1>6 DEF Typed
  <1>8. Modes
    BY <1>2 DEF Modes, NoCall, Ends
  <1>9. pass \in Pass(pass) /\ PassWell
    BY <1>2 DEF Pass, NoPass, PassWell
  <1>10. \A c \in Client : CallInv(call[c], dst, clock)
    BY <1>2 DEF CallInv, Honest, OnCourse, OnRenewal, Ends, NoCall
  <1> QED
    BY <1>7, <1>8, <1>9, <1>10 DEF CallsInv

LEMMA CallsInvNext == CallsInv /\ [Next]_vars => CallsInv'
  <1> SUFFICES ASSUME CallsInv, [Next]_vars PROVE CallsInv'
    OBVIOUS
  <1>1. ASSUME NEW c \in Client, Begin(c) \/ Fails(c) \/ LosesAnswer(c) \/ SqlUpsert(c) \/ SqlDelete(c) PROVE CallsInv'
    BY <1>1, BeginOK, FailsOK, LosesAnswerOK, SqlUpsertOK, SqlDeleteOK
  <1>2. ASSUME NEW c \in Client,
               ReadKey(c) \/ WriteNew(c) \/ Walk(c) \/ Walked(c) \/ Cut(c) \/ Put(c) \/ PutClashes(c)
        PROVE  CallsInv'
    BY <1>2, ReadKeyOK, WriteNewOK, WalkOK, WalkedOK, CutOK, PutOK, PutClashesOK
  <1>3. ASSUME NEW c \in Client, Drop(c) \/ WriteDeny(c) \/ PurgeRead(c) \/ PurgeBatch(c) \/ PurgeEnd(c)
        PROVE  CallsInv'
    BY <1>3, DropOK, WriteDenyOK, PurgeReadOK, PurgeBatchOK, PurgeEndOK
  <1>4. ASSUME NEW k \in Partition, PassSweep(k) \/ PassStep(k) PROVE CallsInv'
    BY <1>4, PassSweepOK, PassStepOK
  <1>5. ASSUME Tick \/ PassBegin \/ PassPut \/ PassEnd \/ PassDies PROVE CallsInv'
    BY <1>5, TickOK, PassBeginOK, PassPutOK, PassEndOK, PassDiesOK
  <1>6. CASE Next
    BY <1>1, <1>2, <1>3, <1>4, <1>5, <1>6 DEF Next
  <1>7. CASE UNCHANGED vars
    <2>1. UNCHANGED <<clock, q, dst, asks, pass, call, left>>
      BY <1>7 DEF vars
    <2>2. Typed' /\ Modes' /\ PassWell' /\ pass' \in Pass(pass')
      BY <2>1 DEF CallsInv, Typed, Modes, PassWell
    <2>3. \A c \in Client : CallInv(call'[c], dst', clock')
      BY <2>1 DEF CallsInv
    <2> QED
      BY <2>2, <2>3 DEF CallsInv
  <1> QED
    BY <1>6, <1>7

\* What a call knows of what it has read and written, at every step of it
\* (openfga_relations_driver.ts, relate, deny and the purges).
THEOREM CallsInvHolds == Spec => []CallsInv
  BY CallsInvInit, CallsInvNext, PTL DEF Spec

\* The variables have their types (Relations.tla).
THEOREM TypesHold == Spec => []TypeOK
  <1>1. CallsInv => TypeOK
    <2> SUFFICES ASSUME CallsInv PROVE TypeOK
      OBVIOUS
    <2>1. Typed /\ pass \in Pass(pass)
      BY DEF CallsInv
    <2>2. /\ clock \in 0 .. MaxClock /\ DOMAIN q.src = DOMAIN dst
          /\ DOMAIN dst \subseteq Tuple /\ \A t \in DOMAIN dst : dst[t] \in Expiry \cup {Absent}
      BY <2>1 DEF Typed
    <2>3. /\ pass.pc \in {"idle", "going", "put", "done", "dead", "refused"}
          /\ \A k \in Partition : pass.todo[k] \subseteq Step
      BY <2>1 DEF Pass
    <2>4. \A c \in Client : call[c].note \in {"none", "deny", "unknown", "residue"}
      BY <2>1 DEF Typed, Call
    <2>5. DOMAIN left = {"calls", "passes", "fails", "ticks"}
      BY <2>1 DEF Typed
    <2> QED
      BY <2>2, <2>3, <2>4, <2>5 DEF TypeOK
  <1> QED
    BY <1>1, CallsInvHolds, PTL

\* A call of a client tells what it knows: no write of one that fails and says nothing was
\* answered, and while a membership is renewed a deny stops reaching whom it brings only by
\* the write of another, which the caller whose delete was answered is told of (Relations.tla,
\* for the renewals of openfga_relations_driver.ts).
THEOREM CallsTell == Spec => []CallsTellTrue
  <1>1. CallsInv => CallsTellTrue
    <2> SUFFICES ASSUME CallsInv, NEW c \in Client
                 PROVE  /\ call[c].pc = "failed" /\ ~call[c].marked => ~call[c].wrote
                        /\ call[c].window => call[c].touched
                        /\ call[c].window /\ ~call[c].eased /\ call[c].wrote /\ call[c].pc \in {"done", "failed"}
                               => call[c].note \in {"deny", "unknown"}
      BY DEF CallsTellTrue
    <2>1. CallInv(call[c], dst, clock)
      BY DEF CallsInv
    <2> QED
      BY <2>1 DEF CallInv, Honest, OnCourse, OnRenewal
  <1> QED
    BY <1>1, CallsInvHolds, PTL

-----------------------------------------------------------------------------
(* Chunks of deletes.                                                      *)

FirstClass(rest) == {s \in rest : \A x \in rest : Phase(s) <= Phase(x)}

NoChunk == {{}}

\* A chunk grows by the steps that may come next.
Grow(V, prec, rest, T) == UNION {{c \cup {s} : s \in NextSteps(V, prec, rest \ c)} : c \in T}

Growing(g, V, prec, rest, n) ==
    g = [k \in 0 .. n |-> IF k = 0 THEN NoChunk ELSE Grow(V, prec, rest, g[k - 1])]

LEMMA GrowingExists ==
  ASSUME NEW V, NEW prec, NEW rest, NEW n \in Nat
  PROVE  \E g : Growing(g, V, prec, rest, n)
  <1> DEFINE X == {k \in 0 .. n : \E g : Growing(g, V, prec, rest, k)}
  <1>1. 0 \in X
    <2> DEFINE g == [k \in 0 .. 0 |-> NoChunk]
    <2>1. Growing(g, V, prec, rest, 0)
      BY DEF Growing
    <2> QED
      BY <2>1
  <1>2. ASSUME NEW m \in 1 .. n, m - 1 \in X PROVE m \in X
    <2>1. PICK g : Growing(g, V, prec, rest, m - 1)
      BY <1>2
    <2> DEFINE h == [k \in 0 .. m |-> IF k = 0 THEN NoChunk ELSE Grow(V, prec, rest, g[k - 1])]
    <2>2. \A k \in 0 .. m - 1 : g[k] = IF k = 0 THEN NoChunk ELSE Grow(V, prec, rest, g[k - 1])
      BY <2>1 DEF Growing
    <2>0. \A k \in 0 .. m : h[k] = IF k = 0 THEN NoChunk ELSE Grow(V, prec, rest, g[k - 1])
      OBVIOUS
    <2>i. h = [k \in 0 .. m |-> h[k]]
      OBVIOUS
    <2> HIDE DEF h
    <2>3. \A k \in 0 .. m - 1 : h[k] = g[k]
      BY <2>0, <2>2
    <2>4. \A k \in 0 .. m : h[k] = IF k = 0 THEN NoChunk ELSE Grow(V, prec, rest, h[k - 1])
      <3> SUFFICES ASSUME NEW k \in 0 .. m, k # 0 PROVE h[k - 1] = g[k - 1]
        BY <2>0
      <3> QED
        BY <2>3
    <2>5. Growing(h, V, prec, rest, m)
      BY <2>4, <2>i DEF Growing
    <2> QED
      BY <2>5
  <1> HIDE DEF X
  <1>3. X = 0 .. n
    <2>1. X \in SUBSET (0 .. n)
      BY DEF X
    <2> QED
      BY <1>1, <1>2, <2>1, UpTo
  <1> QED
    BY <1>3 DEF X

LEMMA NextStepsAre ==
  ASSUME NEW V, NEW prec, NEW rest
  PROVE  NextSteps(V, prec, rest) \subseteq FirstClass(rest)
  <1>1. ASSUME NEW now PROVE NextMembership(V, prec, now) \subseteq now
    BY DEF NextMembership, Foremost
  <1> QED
    BY <1>1 DEF NextSteps, FirstClass

\* A chunk takes only of the steps of the first class left, and all of them if they fit.
LEMMA ChunkIs ==
  ASSUME NEW steps, NEW prec, NEW rest, IsFiniteSet(rest), \A s \in rest : Phase(s) \in Int,
         NEW n \in Nat, NEW chunk \in DeleteChunks(steps, prec, rest, n)
  PROVE  /\ chunk \subseteq FirstClass(rest)
         /\ Cardinality(FirstClass(rest)) <= n => chunk = FirstClass(rest)
  <1> DEFINE V == {s.t : s \in steps}
             now == FirstClass(rest)
             size == Min({n, Cardinality(now)})
             take == CHOOSE g : Growing(g, V, prec, rest, size)
  <1>1. IsFiniteSet(now) /\ Cardinality(now) \in Nat
    <2>1. now \in SUBSET rest
      BY DEF FirstClass
    <2> QED
      BY <2>1, FS_Subset, FS_CardinalityType
  <1>2. size \in Nat /\ size <= Cardinality(now) /\ (Cardinality(now) <= n => size = Cardinality(now))
    <2> DEFINE m == Cardinality(now)
    <2>1. m \in Nat
      BY <1>1
    <2> HIDE DEF m
    <2>2. \E k \in {n, m} : \A y \in {n, m} : k <= y
      BY <2>1
    <2>3. Min({n, m}) \in {n, m} /\ \A y \in {n, m} : Min({n, m}) <= y
      BY <2>2 DEF Min
    <2>4. size = Min({n, m})
      BY DEF m
    <2> HIDE DEF size
    <2> QED
      BY <2>1, <2>3, <2>4 DEF m
  <1>3. DeleteChunks(steps, prec, rest, n) = take[size]
    BY DEF DeleteChunks, Growing, Grow, FirstClass, NoChunk
  <1> HIDE DEF now, size
  <1>4. Growing(take, V, prec, rest, size)
    BY <1>2, GrowingExists
  <1> HIDE DEF take, V
  <1>5. \A k \in 0 .. size : take[k] = IF k = 0 THEN NoChunk ELSE Grow(V, prec, rest, take[k - 1])
    BY <1>4 DEF Growing
  <1> DEFINE X == {k \in 0 .. size : \A c \in take[k] : c \subseteq now /\ Cardinality(c) = k}
  <1>6. 0 \in X
    <2> SUFFICES ASSUME NEW c \in take[0] PROVE c \subseteq now /\ Cardinality(c) = 0
      BY <1>2
    <2>1. take[0] = NoChunk
      BY <1>2, <1>5
    <2>2. c = {}
      BY <2>1 DEF NoChunk
    <2> QED
      BY <2>2, FS_EmptySet
  <1>7. ASSUME NEW k \in 1 .. size, k - 1 \in X PROVE k \in X
    <2> SUFFICES ASSUME NEW c \in take[k] PROVE c \subseteq now /\ Cardinality(c) = k
      OBVIOUS
    <2>1. take[k] = Grow(V, prec, rest, take[k - 1])
      BY <1>2, <1>5
    <2>2. PICK b \in take[k - 1] : \E s \in NextSteps(V, prec, rest \ b) : c = b \cup {s}
      <3>1. c \in UNION {{b \cup {s} : s \in NextSteps(V, prec, rest \ b)} : b \in take[k - 1]}
        BY <2>1 DEF Grow
      <3> QED
        BY <3>1
    <2>3. PICK s \in NextSteps(V, prec, rest \ b) : c = b \cup {s}
      BY <2>2
    <2>4. b \subseteq now /\ Cardinality(b) = k - 1
      BY <1>7
    <2>5. IsFiniteSet(b)
      BY <1>1, <2>4, FS_Subset
    <2>6. PICK w \in now : w \notin b
      <3>1. k - 1 < Cardinality(now)
        BY <1>1, <1>2
      <3>2. k - 1 # Cardinality(now)
        BY <1>1, <3>1
      <3>3. b # now
        BY <2>4, <3>2
      <3> QED
        BY <2>4, <3>3
    <2>7. s \in rest \ b /\ \A x \in rest \ b : Phase(s) <= Phase(x)
      BY NextStepsAre DEF FirstClass
    <2>8. s \in now
      <3>1. w \in rest \ b /\ \A x \in rest : Phase(w) <= Phase(x)
        BY <2>6 DEF now, FirstClass
      <3>2. Phase(s) <= Phase(w) /\ s \in rest
        BY <2>7, <3>1
      <3>3. \A x \in rest : Phase(s) <= Phase(x)
        BY <3>1, <3>2
      <3> QED
        BY <3>2, <3>3 DEF now, FirstClass
    <2>9. Cardinality(c) = k
      <3>1. Cardinality(b \cup {s}) = Cardinality(b) + 1
        BY <2>5, <2>7, FS_AddElement
      <3> QED
        BY <2>3, <2>4, <3>1
    <2> QED
      BY <2>3, <2>4, <2>8, <2>9
  <1> HIDE DEF X
  <1>8. X = 0 .. size
    <2>1. X \in SUBSET (0 .. size)
      BY DEF X
    <2> QED
      BY <1>2, <1>6, <1>7, <2>1, UpTo
  <1>9. chunk \subseteq now /\ Cardinality(chunk) = size
    <2>1. size \in X /\ chunk \in take[size]
      BY <1>2, <1>3, <1>8
    <2> QED
      BY <2>1 DEF X
  <1>10. Cardinality(now) <= n => chunk = now
    BY <1>1, <1>2, <1>9, FS_Subset
  <1> QED
    BY <1>9, <1>10 DEF now

Deletion(t) == [do |-> "delete", as |-> "delete", t |-> t]

Deletions(keys) == {Deletion(t) : t \in keys}

\* The keys a purge has deleted, of those it found.
Gone(keys, rest) == {t \in keys : Deletion(t) \notin rest}

\* Allows go first; then the memberships, all at once; then the denies.
InClasses(keys, gone) ==
    gone \subseteq Allows(keys) \/ Allows(keys) \cup Memberships(keys) \subseteq gone

LEMMA DeletionsAre ==
  ASSUME NEW keys \in SUBSET Tuple
  PROVE  /\ \A t \in keys : Deletion(t).t = t
         /\ \A t \in keys : Phase(Deletion(t)) = IF t.deny THEN 8 ELSE IF t.object \in Group THEN 5 ELSE 3
         /\ \A t \in keys : t.deny => t.object \notin Group
         /\ IsFiniteSet(keys) => IsFiniteSet(Deletions(keys))
  <1>1. \A t \in keys : Deletion(t).t = t
    BY DEF Deletion
  <1>2. \A t \in keys : t.deny \in BOOLEAN /\ (t.deny => t.object \notin Group)
    BY GroupsTyped DEF Tuple
  <1>3. \A t \in keys : Phase(Deletion(t)) = IF t.deny THEN 8 ELSE IF t.object \in Group THEN 5 ELSE 3
    <2> SUFFICES ASSUME NEW t \in keys
                 PROVE  Phase(Deletion(t)) = IF t.deny THEN 8 ELSE IF t.object \in Group THEN 5 ELSE 3
      OBVIOUS
    <2> DEFINE s == Deletion(t)
    <2>1. s.do = "delete" /\ s.t = t /\ t.deny \in BOOLEAN
      BY <1>2 DEF Deletion
    <2> HIDE DEF s
    <2>2. CASE t.deny
      BY <2>1, <2>2 DEF Phase, s
    <2>3. CASE ~t.deny /\ t.object \in Group
      BY <2>1, <2>3 DEF Phase, s
    <2>4. CASE ~t.deny /\ t.object \notin Group
      BY <2>1, <2>4 DEF Phase, s
    <2> QED
      BY <2>1, <2>2, <2>3, <2>4 DEF s
  <1>4. ASSUME IsFiniteSet(keys) PROVE IsFiniteSet(Deletions(keys))
    <2> DEFINE f == [t \in keys |-> Deletion(t)]
    <2>1. f \in Surjection(keys, Deletions(keys))
      BY DEF Surjection, Deletions
    <2> HIDE DEF f
    <2> QED
      BY <1>4, <2>1, FS_Surjection
  <1> QED
    BY <1>1, <1>2, <1>3, <1>4

\* A chunk of a purge keeps to the classes, if the memberships fit in one.
LEMMA ChunkInClasses ==
  ASSUME NEW keys \in SUBSET Tuple, IsFiniteSet(keys), NEW rest \in SUBSET Deletions(keys),
         NEW steps, NEW prec, NEW chunk \in DeleteChunks(steps, prec, rest, WriteMax),
         Cardinality(Memberships(keys)) <= WriteMax, InClasses(keys, Gone(keys, rest))
  PROVE  InClasses(keys, Gone(keys, rest \ chunk))
  <1> DEFINE gone == Gone(keys, rest)
             then == Gone(keys, rest \ chunk)
             now == FirstClass(rest)
  <1>1. /\ \A t \in keys : Deletion(t).t = t
        /\ \A t \in keys : Phase(Deletion(t)) = IF t.deny THEN 8 ELSE IF t.object \in Group THEN 5 ELSE 3
        /\ \A t \in keys : t.deny => t.object \notin Group
        /\ IsFiniteSet(rest)
        /\ \A t \in keys : t.deny \in BOOLEAN
    <2>1. IsFiniteSet(Deletions(keys)) => IsFiniteSet(rest)
      BY FS_Subset
    <2>2. \A t \in keys : t.deny \in BOOLEAN
      BY DEF Tuple
    <2> QED
      BY <2>1, <2>2, DeletionsAre
  <1>2. \A s \in rest : s.t \in keys /\ s = Deletion(s.t)
    BY <1>1 DEF Deletions
  <1>3. \A s \in rest : Phase(s) \in Int
    BY <1>1, <1>2
  <1>4. chunk \subseteq now /\ (Cardinality(now) <= WriteMax => chunk = now)
    BY RelationsAssumption, <1>1, <1>3, ChunkIs
  <1>5. gone \subseteq then /\ then \subseteq keys
    BY DEF Gone
  <1>6. CASE Allows(keys) \cup Memberships(keys) \subseteq gone
    BY <1>5, <1>6 DEF InClasses
  <1>7. CASE gone \subseteq Allows(keys)
    <2>1. CASE \E s \in rest : Phase(s) = 3
      <3>1. \A s \in now : Phase(s) = 3
        <4>1. \A s \in now : Phase(s) <= 3 /\ s \in rest
          BY <2>1 DEF FirstClass
        <4> QED
          BY <1>1, <1>2, <4>1
      <3>2. \A t \in then : t \in Allows(keys)
        <4> SUFFICES ASSUME NEW t \in then, t \notin gone PROVE t \in Allows(keys)
          BY <1>7
        <4>1. t \in keys /\ Deletion(t) \in chunk
          BY DEF Gone
        <4>2. Phase(Deletion(t)) = 3
          BY <1>4, <3>1, <4>1
        <4> QED
          BY <1>1, <4>1, <4>2 DEF Allows
      <3> QED
        BY <3>2 DEF InClasses
    <2>2. CASE ~\E s \in rest : Phase(s) = 3
      <3>1. Allows(keys) \subseteq gone
        <4> SUFFICES ASSUME NEW t \in Allows(keys), t \notin gone PROVE FALSE
          OBVIOUS
        <4>1. t \in keys /\ ~t.deny /\ t.object \notin Group /\ Deletion(t) \in rest
          BY DEF Allows, Gone
        <4>2. Phase(Deletion(t)) = 3
          BY <1>1, <4>1
        <4> QED
          BY <2>2, <4>1, <4>2
      <3>2. \A t \in Memberships(keys) : Deletion(t) \in rest /\ Phase(Deletion(t)) = 5
        <4> SUFFICES ASSUME NEW t \in Memberships(keys) PROVE Deletion(t) \in rest /\ Phase(Deletion(t)) = 5
          OBVIOUS
        <4>1. t \in keys /\ t.object \in Group /\ ~t.deny
          BY <1>1 DEF Memberships
        <4>2. t \notin gone
          BY <1>7, <4>1 DEF Allows
        <4> QED
          BY <1>1, <4>1, <4>2 DEF Gone
      <3>3. \A t \in Memberships(keys) : Deletion(t) \in now
        <4>1. \A s \in rest : Phase(s) >= 5
          BY <1>1, <1>2, <2>2
        <4> QED
          BY <3>2, <4>1 DEF FirstClass
      <3>4. CASE Memberships(keys) = {}
        BY <1>5, <3>1, <3>4 DEF InClasses
      <3>5. CASE Memberships(keys) # {}
        <4>1. \A s \in now : s.t \in Memberships(keys) /\ s = Deletion(s.t)
          <5>1. PICK t \in Memberships(keys) : TRUE
            BY <3>5
          <5>2. \A s \in now : s \in rest /\ Phase(s) <= 5
            BY <3>2, <5>1 DEF FirstClass
          <5>3. \A s \in now : s.t \in keys /\ s = Deletion(s.t) /\ Phase(s) # 3
            BY <1>2, <2>2, <5>2
          <5> QED
            BY <1>1, <5>2, <5>3 DEF Memberships
        <4>2. Cardinality(now) <= WriteMax
          <5> DEFINE f == [t \in Memberships(keys) |-> Deletion(t)]
          <5>1. f \in Surjection(Memberships(keys), now)
            BY <3>3, <4>1 DEF Surjection
          <5>2. IsFiniteSet(Memberships(keys)) /\ Cardinality(Memberships(keys)) \in Nat
            <6>1. Memberships(keys) \in SUBSET keys
              BY DEF Memberships
            <6> QED
              BY <6>1, FS_Subset, FS_CardinalityType
          <5> HIDE DEF f
          <5>3. IsFiniteSet(now) /\ Cardinality(now) <= Cardinality(Memberships(keys))
            BY <5>1, <5>2, FS_Surjection
          <5>4. Cardinality(now) \in Nat
            BY <5>3, FS_CardinalityType
          <5> QED
            BY RelationsAssumption, <5>2, <5>3, <5>4
        <4>3. chunk = now
          BY <1>4, <4>2
        <4>4. Memberships(keys) \subseteq then
          BY <3>3, <4>3 DEF Gone, Memberships
        <4> QED
          BY <1>5, <3>1, <4>4 DEF InClasses
      <3> QED
        BY <3>4, <3>5
    <2> QED
      BY <2>1, <2>2
  <1> QED
    BY <1>6, <1>7 DEF InClasses

\* With the same memberships, fewer allows and more denies a store grants no more.
LEMMA GrantsLess ==
  ASSUME NEW V \in SUBSET Tuple, NEW W \in SUBSET Tuple, Memberships(W) = Memberships(V),
         Allows(W) \subseteq Allows(V), Denies(V) \subseteq Denies(W)
  PROVE  Grants(W) \subseteq Grants(V)
  <1> SUFFICES ASSUME NEW u \in Subject, NEW r, NEW o, (r \in Rel /\ o \in Object) \/ o \in Group,
                      SqlCheck(W, u, r, o)
               PROVE  SqlCheck(V, u, r, o)
    <2>1. ASSUME NEW x \in Grants(W) PROVE x \in Grants(V)
      <3>1. /\ x[1] \in Subject
            /\ (x[2] \in Rel /\ x[3] \in Object) \/ x[3] \in Group
            /\ SqlCheck(W, x[1], x[2], x[3])
            /\ x \in (Subject \X Rel \X Object) \cup (Holder \X {Member} \X Group)
        BY DEF Grants, Subject
      <3>2. SqlCheck(V, x[1], x[2], x[3])
        BY <3>1
      <3> QED
        BY <3>1, <3>2 DEF Grants
    <2> QED
      BY <2>1
  <1>1. Principals(W, u) = Principals(V, u)
    BY DEF Principals
  <1>2. CASE o \in Group
    BY <1>1, <1>2 DEF SqlCheck
  <1>3. CASE o \in Object /\ o \notin Group
    <2>1. Found(W, u, o, FALSE) \subseteq Found(V, u, o, FALSE)
      <3> SUFFICES ASSUME NEW t \in W, t.object = o, t.user \in Principals(W, u), t.deny = FALSE
                   PROVE  t \in V /\ t.user \in Principals(V, u)
        BY DEF Found
      <3>1. t \in Allows(W)
        BY <1>3 DEF Allows
      <3> QED
        BY <1>1, <3>1 DEF Allows
    <2>2. Found(V, u, o, TRUE) \subseteq Found(W, u, o, TRUE)
      <3> SUFFICES ASSUME NEW t \in V, t.object = o, t.user \in Principals(V, u), t.deny = TRUE
                   PROVE  t \in W /\ t.user \in Principals(W, u)
        BY DEF Found
      <3>1. t \in Denies(V)
        BY DEF Denies
      <3> QED
        BY <1>1, <3>1 DEF Denies
    <2> QED
      <3> DEFINE allowed(S) == Found(S, u, o, FALSE)
                 denied(S) == Found(S, u, o, TRUE)
      <3>1. /\ CutPathAllows(r, allowed(W), denied(W))
            /\ SqlCheck(V, u, r, o) <=> CutPathAllows(r, allowed(V), denied(V))
        BY <1>3 DEF SqlCheck
      <3>2. allowed(W) \subseteq allowed(V) /\ denied(V) \subseteq denied(W)
        BY <2>1, <2>2
      <3> HIDE DEF allowed, denied
      <3>3. CutPathAllows(r, allowed(V), denied(V))
        BY <3>1, <3>2 DEF CutPathAllows
      <3> QED
        BY <3>1, <3>3
  <1> QED
    BY <1>2, <1>3

-----------------------------------------------------------------------------
(* Purges.                                                                 *)

\* What a purge a found in the store was: the keys, and what it may let the store grant.
ReadFrom(a, was, keys, may, n) ==
    /\ keys = UNION {Matches(a, f, was) : f \in Filters(a)}
    /\ may = Grants(LiveIn(was, n)) \cup Grants(LiveIn(Purged(a, was), n))

\* A purge that has read its keys, in the store d: it has deleted those that are not left.
Midway(a, keys, rest, may, d, n) ==
    /\ rest \subseteq Deletions(keys)
    /\ \E was \in [DOMAIN d -> Expiry \cup {Absent}] :
           ReadFrom(a, was, keys, may, n) /\ d = Without(was, Gone(keys, rest))
    /\ Cardinality(Memberships(keys)) <= WriteMax => InClasses(keys, Gone(keys, rest))

Purging(x, d, n) == Midway(x.ask, x.keys, x.rest, x.may, d, n)

PurgeInv(x, d, n) ==
    /\ x.note = "residue" => x.touched /\ x.pc = "failed"
    /\ x.pc \notin {"purgeObject", "purgeSubject", "purge", "done", "failed"} => x.may = {}
    /\ x.pc \in {"purgeObject", "purgeSubject"} =>
           /\ x.may = {}
           /\ ~x.touched => x.keys = UNION {Matches(x.ask, f, d) : f \in x.filters}
    /\ (x.pc = "purge" \/ x.may # {}) /\ ~x.touched => Purging(x, d, n)

PurgesInv == CallsInv /\ \A c \in Client : PurgeInv(call[c], dst, clock)

\* A call that is no purge.
Plain(y) ==
    /\ DOMAIN y = DOMAIN NoCall
    /\ y.may = {} /\ y.note # "residue" /\ y.pc \notin {"purgeObject", "purgeSubject", "purge"}

LEMMA PlainIs ==
  ASSUME NEW y, Plain(y), NEW d, NEW n
  PROVE  PurgeInv(y, d, n)
  BY DEF Plain, PurgeInv

LEMMA PlainMade ==
  ASSUME NEW y, Plain(y), NEW d
  PROVE  Plain(Made(y, d))
  BY DEF Plain, Made, NoCall

LEMMA PlainShapes ==
  ASSUME NEW x, Plain(x), NEW pc, pc \notin {"purgeObject", "purgeSubject", "purge"}
  PROVE  /\ Plain([x EXCEPT !.pc = pc])
         /\ \A e : Plain([x EXCEPT !.pc = pc, !.e = e])
         /\ \A held : Plain([x EXCEPT !.pc = pc, !.held = held])
         /\ \A queue, seen : Plain([x EXCEPT !.queue = queue, !.seen = seen])
         /\ \A e, queue, seen : Plain([x EXCEPT !.pc = pc, !.e = e, !.guarded = TRUE, !.queue = queue, !.seen = seen])
         /\ Plain(Again(x, pc))
         /\ \A marked : /\ Plain(Failing(x, marked))
                        /\ \A note : note # "residue" => Plain([Failing(x, marked) EXCEPT !.note = note])
  <1>1. Plain([x EXCEPT !.pc = pc])
    BY DEF Plain, NoCall
  <1>2. ASSUME NEW e PROVE Plain([x EXCEPT !.pc = pc, !.e = e])
    BY DEF Plain, NoCall
  <1>3. ASSUME NEW held PROVE Plain([x EXCEPT !.pc = pc, !.held = held])
    BY DEF Plain, NoCall
  <1>4. ASSUME NEW queue, NEW seen PROVE Plain([x EXCEPT !.queue = queue, !.seen = seen])
    BY DEF Plain, NoCall
  <1>5. ASSUME NEW e, NEW queue, NEW seen
        PROVE  Plain([x EXCEPT !.pc = pc, !.e = e, !.guarded = TRUE, !.queue = queue, !.seen = seen])
    BY DEF Plain, NoCall
  <1>6. Plain(Again(x, pc))
    <2> DEFINE own == {x.ask.t.object}
    <2>1. Again(x, pc) = [x EXCEPT !.pc = pc, !.queue = own, !.seen = own]
      BY DEF Again
    <2> HIDE DEF own
    <2> QED
      BY <2>1 DEF Plain, NoCall
  <1>7. ASSUME NEW marked PROVE Plain(Failing(x, marked))
    BY DEF Plain, NoCall, Failing
  <1>8. ASSUME NEW marked, NEW note, note # "residue" PROVE Plain([Failing(x, marked) EXCEPT !.note = note])
    BY <1>8 DEF Plain, NoCall, Failing
  <1> QED
    BY <1>1, <1>2, <1>3, <1>4, <1>5, <1>6, <1>7, <1>8

\* A write of another leaves what a purge knows true, or the purge remembers the write.
LEMMA PurgeBystander ==
  ASSUME CallsInv, NEW k \in Client, PurgeInv(call[k], dst, clock), NEW d
  PROVE  PurgeInv(Saw(k, d), d, clock)
  <1> DEFINE x == call[k]
             y == Saw(k, d)
  <1>t. Typed
    BY DEF CallsInv
  <1>s. /\ y.pc = x.pc /\ y.note = x.note /\ y.may = x.may
        /\ \/ y = x /\ (d = dst \/ (~Ongoing(k) /\ x.may = {}))
           \/ y.touched
    BY <1>t, SawIs
  <1>1. CASE y = x /\ d = dst
    BY <1>1
  <1>2. CASE y = x /\ ~Ongoing(k) /\ x.may = {}
    BY <1>2 DEF PurgeInv, Ongoing
  <1>3. CASE y.touched
    <2> HIDE DEF x, y
    <2> QED
      BY <1>3, <1>s DEF PurgeInv, x, y
  <1> QED
    BY <1>s, <1>1, <1>2, <1>3

\* A step of one call.
LEMMA OneStep ==
  ASSUME PurgesInv, CallsInv', NEW c \in Client, clock' = clock, PurgeInv(call'[c], dst', clock),
         \A k \in Client \ {c} : call'[k] = Saw(k, dst')
  PROVE  PurgesInv'
  <1>1. ASSUME NEW k \in Client PROVE PurgeInv(call'[k], dst', clock')
    <2>1. CASE k = c
      BY <2>1
    <2>2. CASE k # c
      BY <2>2, PurgeBystander DEF PurgesInv
    <2> QED
      BY <2>1, <2>2
  <1> QED
    BY <1>1 DEF PurgesInv

LEMMA PlainLands ==
  ASSUME PurgesInv, CallsInv', NEW c \in Client, NEW x, Plain(x), NEW d, Land(c, x, d)
  PROVE  PurgesInv'
  <1>1. /\ clock' = clock /\ dst' = d
        /\ \A k \in Client : call'[k] = IF k = c THEN Made(x, d) ELSE Saw(k, d)
    BY DEF Land, Effect
  <1>2. PurgeInv(call'[c], dst', clock)
    BY <1>1, PlainMade, PlainIs
  <1> QED
    BY <1>1, <1>2, OneStep

LEMMA PurgeReads ==
  ASSUME PurgesInv, CallsInv', NEW c \in Client, NEW x, PurgeInv(x, dst, clock),
         call' = [call EXCEPT ![c] = x], UNCHANGED <<clock, dst>>
  PROVE  PurgesInv'
  <1>1. Typed
    BY DEF PurgesInv, CallsInv
  <1>2. \A k \in Client : call'[k] = IF k = c THEN x ELSE call[k]
    BY <1>1 DEF Typed
  <1>3. \A k \in Client \ {c} : call'[k] = Saw(k, dst')
    BY <1>2 DEF Saw
  <1> QED
    BY <1>2, <1>3, OneStep

LEMMA PlainCall ==
  ASSUME PurgesInv, NEW c \in Client, Ongoing(c), call[c].pc \notin {"purgeObject", "purgeSubject", "purge"}
  PROVE  Plain(call[c])
  <1>1. call[c] \in Call /\ PurgeInv(call[c], dst, clock)
    BY DEF PurgesInv, CallsInv, Typed
  <1>2. call[c].pc \notin Ends
    BY DEF Ongoing, Ends
  <1>3. DOMAIN call[c] = DOMAIN NoCall
    BY <1>1 DEF Call, NoCall
  <1> QED
    BY <1>1, <1>2, <1>3 DEF Plain, PurgeInv, Ends

LEMMA PlainSteps ==
  ASSUME PurgesInv, CallsInv', NEW c \in Client,
         \/ SqlUpsert(c) \/ SqlDelete(c) \/ Cut(c) \/ Put(c) \/ Drop(c)
         \/ WriteNew(c) \/ WriteDeny(c) \/ ReadKey(c) \/ Walk(c) \/ Walked(c) \/ PutClashes(c)
  PROVE  PurgesInv'
  <1> DEFINE x == call[c]
  <1>1. Plain(x)
    <2>1. Ongoing(c) /\ x.pc \notin {"purgeObject", "purgeSubject", "purge"}
      BY DEF Ongoing, SqlUpsert, SqlDelete, Cut, Put, Drop, WriteNew, WriteDeny, ReadKey, Walk, Walked, PutClashes
    <2> QED
      BY <2>1, PlainCall
  <1>2. \A d : /\ Land(c, [x EXCEPT !.pc = "done"], d) => PurgesInv'
               /\ Land(c, Again(x, "recheck"), d) => PurgesInv'
               /\ \A held : Land(c, [x EXCEPT !.pc = "put", !.held = held], d) => PurgesInv'
    <2>1. Plain([x EXCEPT !.pc = "done"]) /\ Plain(Again(x, "recheck"))
      BY <1>1, PlainShapes
    <2>2. \A held : Plain([x EXCEPT !.pc = "put", !.held = held])
      BY <1>1, PlainShapes
    <2> HIDE DEF x
    <2> QED
      BY <2>1, <2>2, PlainLands
  <1>3. ASSUME NEW y, Plain(y), Reads(c, y) PROVE PurgesInv'
    <2>1. PurgeInv(y, dst, clock)
      BY <1>3, PlainIs
    <2> QED
      BY <1>3, <2>1, PurgeReads DEF Reads
  <1>4. CASE SqlUpsert(c) \/ SqlDelete(c) \/ Cut(c) \/ Put(c) \/ Drop(c)
    <2> DEFINE lands(y) == \E d : Land(c, y, d)
    <2>1. \/ \E d : Land(c, [x EXCEPT !.pc = "done"], d)
          \/ \E d : Land(c, Again(x, "recheck"), d)
          \/ \E held, d : Land(c, [x EXCEPT !.pc = "put", !.held = held], d)
      <3>1. CASE SqlUpsert(c)
        BY <3>1, Zenon DEF SqlUpsert
      <3>2. CASE SqlDelete(c)
        BY <3>2, Zenon DEF SqlDelete
      <3>3. CASE Cut(c)
        <4>1. Land(c, Halved(x), Set(x.ask.t, Absent))
          BY <3>3, Zenon DEF Cut
        <4> QED
          BY <4>1, Zenon DEF Halved
      <3>4. CASE Put(c)
        BY <3>4 DEF Put
      <3>5. CASE Drop(c)
        BY <3>5, Zenon DEF Drop
      <3> QED
        BY <1>4, <3>1, <3>2, <3>3, <3>4, <3>5
    <2> QED
      BY <1>2, <2>1
  <1>5. CASE WriteNew(c) \/ WriteDeny(c)
    <2>1. \/ \E d : Land(c, [x EXCEPT !.pc = "done"], d)
          \/ Reads(c, Failing(x, FALSE))
      BY <1>5 DEF WriteNew, WriteDeny
    <2>2. Plain(Failing(x, FALSE))
      <3>1. "done" \notin {"purgeObject", "purgeSubject", "purge"}
        OBVIOUS
      <3> QED
        BY <1>1, <3>1, PlainShapes
    <2> QED
      BY <1>2, <1>3, <2>1, <2>2
  <1>6. CASE ReadKey(c)
    <2>1. /\ Plain([x EXCEPT !.pc = "done"])
          /\ \A e : Plain([x EXCEPT !.pc = "blind", !.e = e]) /\ Plain([x EXCEPT !.pc = "cut", !.e = e])
          /\ \A e, queue, seen : Plain([x EXCEPT !.pc = "walk", !.e = e, !.guarded = TRUE, !.queue = queue, !.seen = seen])
      BY <1>1, PlainShapes
    <2>2. \/ Reads(c, [x EXCEPT !.pc = "done"])
          \/ \E e : Reads(c, [x EXCEPT !.pc = "blind", !.e = e])
          \/ \E e : Reads(c, [x EXCEPT !.pc = "cut", !.e = e])
          \/ \E e, queue, seen : Reads(c, [x EXCEPT !.pc = "walk", !.e = e, !.guarded = TRUE, !.queue = queue, !.seen = seen])
      BY <1>6, Zenon DEF ReadKey
    <2> HIDE DEF x
    <2> QED
      BY <1>3, <2>1, <2>2
  <1>7. CASE Walk(c)
    <2>1. /\ \A queue, seen : Plain([x EXCEPT !.queue = queue, !.seen = seen])
          /\ Plain(Failing(x, FALSE))
          /\ Plain([Failing(x, TRUE) EXCEPT !.note = "deny"])
      <3>1. "done" \notin {"purgeObject", "purgeSubject", "purge"}
        OBVIOUS
      <3> QED
        BY <1>1, <3>1, PlainShapes
    <2>2. \/ \E queue, seen : Reads(c, [x EXCEPT !.queue = queue, !.seen = seen])
          \/ Reads(c, Failing(x, FALSE))
          \/ Reads(c, [Failing(x, TRUE) EXCEPT !.note = "deny"])
      BY <1>7, Zenon DEF Walk
    <2> HIDE DEF x
    <2> QED
      BY <1>3, <2>1, <2>2
  <1>8. CASE Walked(c) \/ PutClashes(c)
    <2>1. /\ Plain([x EXCEPT !.pc = "cut"]) /\ Plain([x EXCEPT !.pc = "done"])
          /\ Plain(Failing(x, TRUE)) /\ Plain(Again(x, "salvage"))
      <3>i. {"cut", "done", "salvage"} \cap {"purgeObject", "purgeSubject", "purge"} = {}
        OBVIOUS
      <3> HIDE DEF x
      <3>1. Plain([x EXCEPT !.pc = "cut"])
        <4>1. "cut" \notin {"purgeObject", "purgeSubject", "purge"}
          BY <3>i
        <4> QED
          BY <1>1, <4>1, PlainShapes
      <3>2. Plain([x EXCEPT !.pc = "done"]) /\ Plain(Failing(x, TRUE))
        <4>1. "done" \notin {"purgeObject", "purgeSubject", "purge"}
          BY <3>i
        <4> QED
          BY <1>1, <4>1, PlainShapes
      <3>3. Plain(Again(x, "salvage"))
        <4>1. "salvage" \notin {"purgeObject", "purgeSubject", "purge"}
          BY <3>i
        <4> QED
          BY <1>1, <4>1, PlainShapes
      <3> QED
        BY <3>1, <3>2, <3>3
    <2>2. \/ Reads(c, [x EXCEPT !.pc = "cut"]) \/ Reads(c, [x EXCEPT !.pc = "done"])
          \/ Reads(c, Failing(x, TRUE)) \/ Reads(c, Again(x, "salvage"))
      <3>1. CASE PutClashes(c)
        BY <3>1 DEF PutClashes
      <3>2. CASE Walked(c)
        <4>1. Reads(c, CASE x.pc = "walk"    -> [x EXCEPT !.pc = "cut"]
                         [] x.pc = "recheck" -> [x EXCEPT !.pc = "done"]
                         [] OTHER            -> Failing(x, TRUE))
          BY <3>2 DEF Walked
        <4> QED
          BY <4>1
      <3> QED
        BY <1>8, <3>1, <3>2
    <2> HIDE DEF x
    <2> QED
      BY <1>3, <2>1, <2>2
  <1> QED
    BY <1>4, <1>5, <1>6, <1>7, <1>8

LEMMA PurgingSame ==
  ASSUME NEW x, NEW y, NEW d, NEW n, Purging(x, d, n),
         y.rest = x.rest, y.keys = x.keys, y.ask = x.ask, y.may = x.may
  PROVE  Purging(y, d, n)
  BY DEF Purging

LEMMA DeletionsWritten ==
  ASSUME NEW keys
  PROVE  {[do |-> "delete", as |-> "delete", t |-> t] : t \in keys} = Deletions(keys)
  BY DEF Deletions, Deletion

LEMMA PurgeCall ==
  ASSUME PurgesInv, NEW c \in Client
  PROVE  Typed /\ call[c] \in Call /\ PurgeInv(call[c], dst, clock)
  BY DEF PurgesInv, CallsInv, Typed

LEMMA PurgeReadKeeps ==
  ASSUME PurgesInv, CallsInv', NEW c \in Client, PurgeRead(c)
  PROVE  PurgesInv'
  <1> DEFINE x == call[c]
  <1>t. /\ Typed /\ x \in Call /\ PurgeInv(x, dst, clock) /\ x.pc \in {"purgeObject", "purgeSubject"}
    BY PurgeCall DEF PurgeRead
  <1>1. PICK f \in Filters(x.ask) \ x.filters :
           LET keys == x.keys \cup Matches(x.ask, f, dst)
               all  == x.filters \cup {f} = Filters(x.ask)
           IN Reads(c, [x EXCEPT
                  !.filters = @ \cup {f}, !.keys = keys, !.pc = IF all THEN "purge" ELSE @,
                  !.rest = {[do |-> "delete", as |-> "delete", t |-> t] : t \in keys},
                  !.may = IF all THEN Grants(Now) \cup Grants(LiveIn(Purged(x.ask, dst), clock))
                          ELSE @])
    BY DEF PurgeRead
  <1> DEFINE keys == x.keys \cup Matches(x.ask, f, dst)
             all  == x.filters \cup {f} = Filters(x.ask)
             filters == x.filters \cup {f}
             pc == IF all THEN "purge" ELSE x.pc
             rest == {[do |-> "delete", as |-> "delete", t |-> t] : t \in keys}
             may == IF all THEN Grants(Now) \cup Grants(LiveIn(Purged(x.ask, dst), clock)) ELSE x.may
             y == [x EXCEPT !.filters = filters, !.keys = keys, !.pc = pc, !.rest = rest, !.may = may]
  <1>2. Reads(c, y)
    BY <1>1
  <1>3. x.note # "residue" /\ x.may = {}
        /\ (~x.touched => x.keys = UNION {Matches(x.ask, g, dst) : g \in x.filters})
    BY <1>t DEF PurgeInv
  <1>4. ~x.touched => keys = UNION {Matches(x.ask, g, dst) : g \in filters}
    BY <1>3
  <1>5. rest = Deletions(keys)
    BY DeletionsWritten
  <1>6. IF all THEN /\ pc = "purge" /\ filters = Filters(x.ask)
                    /\ may = Grants(Now) \cup Grants(LiveIn(Purged(x.ask, dst), clock))
        ELSE pc = x.pc /\ may = {}
    BY <1>3
  <1> HIDE DEF keys, all, filters, pc, rest, may
  <1>7. /\ y.pc = pc /\ y.note = x.note /\ y.touched = x.touched /\ y.ask = x.ask
        /\ y.filters = filters /\ y.keys = keys /\ y.rest = rest /\ y.may = may
    BY <1>t DEF Call
  <1> HIDE DEF y
  <1>8. CASE all
    <2>1. ASSUME ~x.touched PROVE Purging(y, dst, clock)
      <3>1. Gone(keys, rest) = {} /\ rest \subseteq Deletions(keys)
        BY <1>5 DEF Gone, Deletions
      <3>2. dst = Without(dst, {}) /\ dst \in [DOMAIN dst -> Expiry \cup {Absent}]
        BY <1>t DEF Without, Typed
      <3>3. keys = UNION {Matches(x.ask, g, dst) : g \in Filters(x.ask)}
        BY <1>4, <1>6, <1>8, <2>1
      <3>4. may = Grants(LiveIn(dst, clock)) \cup Grants(LiveIn(Purged(x.ask, dst), clock))
        BY <1>6, <1>8 DEF Now
      <3>5. InClasses(keys, Gone(keys, rest))
        BY <3>1 DEF InClasses
      <3>6. ReadFrom(x.ask, dst, keys, may, clock)
        BY <3>3, <3>4 DEF ReadFrom
      <3>7. Midway(x.ask, keys, rest, may, dst, clock)
        <4>1. dst = Without(dst, Gone(keys, rest))
          BY <3>1, <3>2
        <4> HIDE DEF x
        <4> QED
          BY <3>1, <3>2, <3>5, <3>6, <4>1 DEF Midway
      <3> QED
        BY <1>7, <3>7 DEF Purging
    <2>2. PurgeInv(y, dst, clock)
      BY <1>3, <1>6, <1>7, <1>8, <2>1 DEF PurgeInv
    <2> QED
      BY <1>2, <2>2, PurgeReads DEF Reads
  <1>9. CASE ~all
    <2>1. PurgeInv(y, dst, clock)
      BY <1>t, <1>3, <1>4, <1>6, <1>7, <1>9 DEF PurgeInv
    <2> QED
      BY <1>2, <2>1, PurgeReads DEF Reads
  <1> QED
    BY <1>8, <1>9

LEMMA WithoutMore ==
  ASSUME NEW was, NEW gone, NEW more
  PROVE  Without(Without(was, gone), more) = Without(was, gone \cup more)
  BY DEF Without

\* A chunk of a purge, in the store it found.
LEMMA ChunkGone ==
  ASSUME PurgesInv, NEW c \in Client, call[c].pc = "purge", ~call[c].touched, NEW s \in Chunks(call[c])
  PROVE  Midway(call[c].ask, call[c].keys, call[c].rest \ s, call[c].may,
                Without(dst, {w.t : w \in s}), clock)
  <1> DEFINE x == call[c]
             d == Without(dst, {w.t : w \in s})
             rest == x.rest \ s
  <1>t. Typed /\ x \in Call /\ PurgeInv(x, dst, clock) /\ x.pc = "purge" /\ ~x.touched
    BY PurgeCall
  <1> DEFINE keys == x.keys
             gone == Gone(keys, x.rest)
             then == Gone(keys, rest)
             written == {w.t : w \in s}
  <1>1. /\ x.rest \subseteq Deletions(keys)
        /\ \E was \in [DOMAIN dst -> Expiry \cup {Absent}] :
               ReadFrom(x.ask, was, keys, x.may, clock) /\ dst = Without(was, gone)
        /\ Cardinality(Memberships(keys)) <= WriteMax => InClasses(keys, gone)
    BY <1>t DEF PurgeInv, Purging, Midway
  <1>2. keys \in SUBSET Tuple /\ IsFiniteSet(keys)
    <2>1. PICK was \in [DOMAIN dst -> Expiry \cup {Absent}] : ReadFrom(x.ask, was, keys, x.may, clock)
      BY <1>1
    <2>2. \A f : Matches(x.ask, f, was) \subseteq DOMAIN was
      BY DEF Matches
    <2>3. keys \subseteq DOMAIN dst
      BY <2>1, <2>2 DEF ReadFrom
    <2> QED
      BY <1>t, <2>3, FS_Subset DEF Typed
  <1>3. /\ \A t \in keys : Deletion(t).t = t
        /\ IsFiniteSet(x.rest) /\ \A r \in x.rest : Phase(r) \in Int
    <2>1. /\ \A t \in keys : Deletion(t).t = t
          /\ \A t \in keys : Phase(Deletion(t)) = IF t.deny THEN 8 ELSE IF t.object \in Group THEN 5 ELSE 3
          /\ IsFiniteSet(Deletions(keys))
      BY <1>2, DeletionsAre
    <2>2. IsFiniteSet(x.rest)
      BY <1>1, <2>1, FS_Subset
    <2>3. \A t \in keys : Phase(Deletion(t)) \in Int
      BY <2>1
    <2> QED
      BY <1>1, <2>1, <2>2, <2>3 DEF Deletions
  <1>4. \/ s = Deletions(keys)
        \/ s \in DeleteChunks(Deletions(keys), Precedences(Deletions(keys), keys, FALSE), x.rest, WriteMax)
    BY DeletionsWritten DEF Chunks
  <1>5. s \subseteq Deletions(keys)
    <2>1. CASE s = Deletions(keys)
      BY <2>1
    <2>2. CASE s \in DeleteChunks(Deletions(keys), Precedences(Deletions(keys), keys, FALSE), x.rest, WriteMax)
      <3> DEFINE all == Deletions(keys)
                 prec == Precedences(all, keys, FALSE)
      <3>i. s \in DeleteChunks(all, prec, x.rest, WriteMax) /\ WriteMax \in Nat
        BY RelationsAssumption, <2>2
      <3> HIDE DEF all, prec, x
      <3>1. s \subseteq FirstClass(x.rest)
        BY <1>3, <3>i, ChunkIs
      <3> QED
        BY <1>1, <3>1 DEF FirstClass
    <2> QED
      BY <1>4, <2>1, <2>2
  <1>6. gone \cup written = then
    BY <1>3, <1>5 DEF Gone, Deletions
  <1>7. Cardinality(Memberships(keys)) <= WriteMax => InClasses(keys, then)
    <2>1. CASE s = Deletions(keys)
      <3>1. keys \subseteq then
        BY <2>1 DEF Gone, Deletions
      <3> QED
        BY <3>1 DEF InClasses, Allows, Memberships
    <2>2. CASE s \in DeleteChunks(Deletions(keys), Precedences(Deletions(keys), keys, FALSE), x.rest, WriteMax)
      BY <1>1, <1>2, <2>2, ChunkInClasses
    <2> QED
      BY <1>4, <2>1, <2>2
  <1>8. rest \subseteq Deletions(keys)
    BY <1>1
  <1>9. PICK was \in [DOMAIN dst -> Expiry \cup {Absent}] :
               ReadFrom(x.ask, was, keys, x.may, clock) /\ dst = Without(was, gone)
    BY <1>1
  <1>10. DOMAIN d = DOMAIN dst /\ d = Without(was, then)
    <2>1. d = Without(Without(was, gone), written)
      BY <1>9
    <2> HIDE DEF gone, written, then, d
    <2>2. d = Without(was, then)
      BY <1>6, <2>1, WithoutMore
    <2> QED
      BY <1>9, <2>2 DEF Without
  <1> HIDE DEF x, d, rest, keys
  <1>11. Midway(x.ask, keys, rest, x.may, d, clock)
    BY <1>7, <1>8, <1>9, <1>10 DEF Midway
  <1> QED
    BY <1>11 DEF keys, x, rest, d

LEMMA PurgeBatchKeeps ==
  ASSUME PurgesInv, CallsInv', NEW c \in Client, PurgeBatch(c)
  PROVE  PurgesInv'
  <1> DEFINE x == call[c]
  <1>t. Typed /\ x \in Call /\ PurgeInv(x, dst, clock) /\ x.pc = "purge"
    BY PurgeCall DEF PurgeBatch
  <1>1. PICK s \in Chunks(x) :
           Land(c, [x EXCEPT !.rest = @ \ s, !.batched = TRUE], Without(dst, {y.t : y \in s}))
    BY DEF PurgeBatch
  <1> DEFINE d == Without(dst, {w.t : w \in s})
             rest == x.rest \ s
             y == [x EXCEPT !.rest = rest, !.batched = TRUE]
             z == Made(y, d)
  <1>2. Land(c, y, d)
    BY <1>1
  <1>3. z.pc = "purge" /\ z.note = x.note /\ z.touched = x.touched /\ z.ask = x.ask
        /\ z.keys = x.keys /\ z.rest = rest /\ z.may = x.may
    <2>1. rest \in SUBSET Step
      BY <1>t DEF Call
    <2> HIDE DEF d, rest
    <2>2. /\ y \in Call /\ y.pc = "purge" /\ y.note = x.note /\ y.touched = x.touched /\ y.ask = x.ask
          /\ y.keys = x.keys /\ y.rest = rest /\ y.may = x.may
      BY <1>t, <2>1 DEF Call
    <2> HIDE DEF x, y
    <2> QED
      BY <2>2, MadeIs
  <1>4. ~x.touched => Purging(z, d, clock)
    <2>1. ~x.touched => Midway(x.ask, x.keys, rest, x.may, d, clock)
      BY <1>t, ChunkGone
    <2> HIDE DEF x, d, rest, z
    <2> QED
      BY <1>3, <2>1 DEF Purging
  <1>5. PurgeInv(z, d, clock)
    <2>1. x.note # "residue"
      BY <1>t DEF PurgeInv
    <2> HIDE DEF x, d, z
    <2> QED
      BY <1>3, <1>4, <2>1 DEF PurgeInv
  <1>6. /\ clock' = clock /\ dst' = d
        /\ \A k \in Client : call'[k] = IF k = c THEN z ELSE Saw(k, d)
    BY <1>2 DEF Land, Effect
  <1> HIDE DEF z, d
  <1> QED
    BY <1>5, <1>6, OneStep

LEMMA PurgeEndKeeps ==
  ASSUME PurgesInv, CallsInv', NEW c \in Client, PurgeEnd(c)
  PROVE  PurgesInv'
  <1> DEFINE x == call[c]
             again == {f \in Filters(x.ask) : \E t \in x.keys : t.object \in f}
             fine == \A f \in again : Matches(x.ask, f, dst) = {}
  <1>t. Typed /\ x \in Call /\ PurgeInv(x, dst, clock) /\ x.pc = "purge" /\ x.rest = {} /\ x.note # "residue"
    BY PurgeCall DEF PurgeEnd, PurgeInv
  <1>1. Reads(c, IF fine THEN [x EXCEPT !.pc = "done"]
                 ELSE [Failing(x, x.batched) EXCEPT !.note = "residue"])
    BY DEF PurgeEnd
  <1>2. ~x.touched => Purging(x, dst, clock)
    BY <1>t DEF PurgeInv
  <1>3. CASE fine
    <2> DEFINE y == [x EXCEPT !.pc = "done"]
    <2>1. Reads(c, y)
      BY <1>1, <1>3
    <2>2. /\ y.pc = "done" /\ y.note = x.note /\ y.touched = x.touched
          /\ y.rest = x.rest /\ y.keys = x.keys /\ y.ask = x.ask /\ y.may = x.may
      BY <1>t DEF Call
    <2> HIDE DEF y, x
    <2>3. PurgeInv(y, dst, clock)
      BY <1>t, <1>2, <2>2, PurgingSame DEF PurgeInv
    <2> QED
      BY <2>1, <2>3, PurgeReads DEF Reads
  <1>4. CASE ~fine
    <2> DEFINE y == [Failing(x, x.batched) EXCEPT !.note = "residue"]
    <2>1. Reads(c, y)
      BY <1>1, <1>4
    <2>2. y.pc = "failed" /\ y.touched = x.touched
      BY <1>t DEF Call, Failing
    <2>3. x.touched
      <3> SUFFICES ASSUME ~x.touched PROVE FALSE
        OBVIOUS
      <3>1. PICK was \in [DOMAIN dst -> Expiry \cup {Absent}] :
               ReadFrom(x.ask, was, x.keys, x.may, clock) /\ dst = Without(was, Gone(x.keys, x.rest))
        BY <1>2 DEF Purging, Midway
      <3>2. dst = Without(was, x.keys)
        <4>1. Gone(x.keys, x.rest) = x.keys
          BY <1>t DEF Gone
        <4> QED
          BY <3>1, <4>1
      <3>3. PICK f \in Filters(x.ask) : Matches(x.ask, f, dst) # {}
        BY <1>4
      <3>4. PICK t \in DOMAIN dst : t \in Matches(x.ask, f, dst)
        BY <3>3 DEF Matches
      <3>5. dst[t] # Absent
        BY <3>4 DEF Matches
      <3>6. dst[t] = IF t \in x.keys THEN Absent ELSE was[t]
        BY <3>1, <3>2 DEF Without
      <3>7. t \in Matches(x.ask, f, was)
        BY <3>1, <3>4, <3>5, <3>6 DEF Matches
      <3>8. t \in x.keys
        BY <3>1, <3>7 DEF ReadFrom
      <3> QED
        BY <3>5, <3>6, <3>8
    <2> HIDE DEF y, x
    <2>4. PurgeInv(y, dst, clock)
      BY <2>2, <2>3 DEF PurgeInv
    <2> QED
      BY <2>1, <2>4, PurgeReads DEF Reads
  <1> QED
    BY <1>3, <1>4

\* What a request that failed leaves of a purge, and of a call that is none.
LEMMA FailedPurge ==
  ASSUME NEW x \in Call, x.pc \in {"purgeObject", "purgeSubject", "purge"}, NEW late \in BOOLEAN
  PROVE  LET y == Failed(x, late)
         IN /\ y \in Call /\ y.pc = "failed" /\ y.note = x.note /\ y.touched = x.touched
            /\ y.rest = x.rest /\ y.keys = x.keys /\ y.ask = x.ask /\ y.may = x.may
  <1> DEFINE marked == late \/ x.pc = "put" \/ x.batched
  <1>1. Failed(x, late) = Failing(x, marked)
    BY Zenon DEF Failed
  <1>2. marked \in BOOLEAN
    BY DEF Call
  <1> HIDE DEF marked
  <1> QED
    BY <1>1, <1>2 DEF Call, Pcs, Failing

LEMMA FailedPlain ==
  ASSUME NEW x, Plain(x), NEW late
  PROVE  Plain(Failed(x, late))
  <1> DEFINE y == Failed(x, late)
  <1>1. /\ Plain(Again(x, "salvage"))
        /\ \A marked : Plain(Failing(x, marked))
        /\ Plain([Failing(x, TRUE) EXCEPT !.note = "unknown"])
    <2>1. "salvage" \notin {"purgeObject", "purgeSubject", "purge"} /\ "unknown" # "residue"
      OBVIOUS
    <2> QED
      BY <2>1, PlainShapes
  <1>2. CASE x.pc = "put" /\ x.guarded
    BY <1>1, <1>2 DEF Failed
  <1>3. CASE ~(x.pc = "put" /\ x.guarded) /\ x.pc \in {"recheck", "salvage"}
    BY <1>1, <1>3 DEF Failed
  <1>4. CASE ~(x.pc = "put" /\ x.guarded) /\ x.pc \notin {"recheck", "salvage"}
    <2> DEFINE marked == late \/ x.pc = "put" \/ x.batched
    <2>1. y = Failing(x, marked)
      BY <1>4, Zenon DEF Failed
    <2> HIDE DEF marked, y
    <2> QED
      BY <1>1, <2>1 DEF y
  <1> QED
    BY <1>2, <1>3, <1>4

LEMMA PurgeFailsKeeps ==
  ASSUME PurgesInv, CallsInv', NEW c \in Client, Fails(c)
  PROVE  PurgesInv'
  <1> DEFINE x == call[c]
  <1>t. Typed /\ x \in Call /\ PurgeInv(x, dst, clock) /\ Ongoing(c)
    BY PurgeCall DEF Fails
  <1>1. PICK late \in BOOLEAN : call' = [call EXCEPT ![c] = Failed(x, late)]
    BY Zenon DEF Fails
  <1> DEFINE y == Failed(x, late)
  <1>2. UNCHANGED <<clock, dst>>
    BY DEF Fails
  <1>3. CASE x.pc \in {"purgeObject", "purgeSubject", "purge"}
    <2>1. /\ y.pc = "failed" /\ y.note = x.note /\ y.touched = x.touched
          /\ y.rest = x.rest /\ y.keys = x.keys /\ y.ask = x.ask /\ y.may = x.may
      BY <1>3, <1>t, FailedPurge
    <2>2. x.note # "residue" /\ ((x.pc = "purge" \/ x.may # {}) /\ ~x.touched => Purging(x, dst, clock))
      BY <1>t, <1>3 DEF PurgeInv
    <2> HIDE DEF y, x
    <2>3. PurgeInv(y, dst, clock)
      BY <2>1, <2>2, PurgingSame DEF PurgeInv
    <2> QED
      BY <1>1, <1>2, <2>3, PurgeReads DEF y
  <1>4. CASE x.pc \notin {"purgeObject", "purgeSubject", "purge"}
    <2>1. Plain(y)
      BY <1>t, <1>4, PlainCall, FailedPlain
    <2> HIDE DEF y
    <2> QED
      BY <1>1, <1>2, <2>1, PlainIs, PurgeReads DEF y
  <1> QED
    BY <1>3, <1>4

LEMMA PurgeLosesKeeps ==
  ASSUME PurgesInv, CallsInv', NEW c \in Client, LosesAnswer(c)
  PROVE  PurgesInv'
  <1> DEFINE x == call[c]
  <1>t. Typed /\ x \in Call /\ PurgeInv(x, dst, clock) /\ Ongoing(c)
    BY PurgeCall DEF LosesAnswer
  <1>1. PICK late \in BOOLEAN :
           \/ \E d \in Sent(x) : Unheard(c, Failed(x, late), d)
           \/ /\ x.pc = "purge" /\ x.rest # {}
              /\ \E s \in Chunks(x) :
                     Unheard(c, [Failed(x, late) EXCEPT !.rest = @ \ s], Without(dst, {y.t : y \in s}))
    BY Zenon DEF LosesAnswer
  <1> DEFINE y == Failed(x, late)
             Ended(w, d) == [w EXCEPT !.lost = @ \/ d # dst,
                                     !.window = @ \/ (x.pc = "cut" /\ Exposed(Halved(x), d))]
  <1>2. ASSUME NEW w, NEW d, Unheard(c, w, d), PurgeInv(Ended(w, d), d, clock) PROVE PurgesInv'
    <2>1. Effect(c, Ended(w, d), d)
      BY <1>2, Zenon DEF Unheard
    <2> HIDE DEF Ended
    <2>2. /\ clock' = clock /\ dst' = d
          /\ \A k \in Client : call'[k] = IF k = c THEN Ended(w, d) ELSE Saw(k, d)
      BY <2>1 DEF Effect
    <2> QED
      BY <1>2, <2>2, OneStep
  <1>3. ASSUME NEW d \in Sent(x), Unheard(c, y, d) PROVE PurgesInv'
    <2>1. x.pc \notin {"purgeObject", "purgeSubject", "purge"}
      BY <1>3 DEF Sent
    <2>2. Plain(y)
      BY <1>t, <2>1, PlainCall, FailedPlain
    <2>3. Plain(Ended(y, d))
      <3> DEFINE lost == y.lost \/ d # dst
                 window == y.window \/ (x.pc = "cut" /\ Exposed(Halved(x), d))
      <3>1. Ended(y, d) = [y EXCEPT !.lost = lost, !.window = window]
        BY Zenon
      <3> HIDE DEF y, lost, window, Ended
      <3> QED
        BY <2>2, <3>1 DEF Plain, NoCall
    <2> HIDE DEF y, Ended
    <2> QED
      BY <1>2, <1>3, <2>3, PlainIs
  <1>4. ASSUME x.pc = "purge", NEW s \in Chunks(x),
               Unheard(c, [y EXCEPT !.rest = @ \ s], Without(dst, {w.t : w \in s}))
        PROVE  PurgesInv'
    <2> DEFINE d == Without(dst, {w.t : w \in s})
               rest == y.rest \ s
               v == [y EXCEPT !.rest = rest]
               z == Ended(v, d)
    <2>1. /\ y \in Call /\ y.pc = "failed" /\ y.note = x.note /\ y.touched = x.touched
          /\ y.rest = x.rest /\ y.keys = x.keys /\ y.ask = x.ask /\ y.may = x.may
      BY <1>4, <1>t, FailedPurge
    <2>2. x.note # "residue" /\ (~x.touched => Midway(x.ask, x.keys, x.rest \ s, x.may, d, clock))
      BY <1>4, <1>t, ChunkGone DEF PurgeInv
    <2>3. Unheard(c, v, d)
      BY <1>4
    <2>4. rest = x.rest \ s
      BY <2>1
    <2>5. /\ z.pc = y.pc /\ z.note = y.note /\ z.touched = y.touched
          /\ z.rest = rest /\ z.keys = y.keys /\ z.ask = y.ask /\ z.may = y.may
      <3> DEFINE lost == v.lost \/ d # dst
                 window == v.window \/ (x.pc = "cut" /\ Exposed(Halved(x), d))
      <3>1. z = [v EXCEPT !.lost = lost, !.window = window]
        BY Zenon
      <3> HIDE DEF y, rest, lost, window, z
      <3> QED
        BY <2>1, <3>1 DEF Call
    <2> HIDE DEF x, y, rest, d, v, z
    <2>6. PurgeInv(z, d, clock)
      BY <2>1, <2>2, <2>4, <2>5 DEF PurgeInv, Purging
    <2> QED
      BY <1>2, <2>3, <2>6 DEF z
  <1> QED
    BY <1>1, <1>3, <1>4

LEMMA PurgeBeginKeeps ==
  ASSUME PurgesInv, CallsInv', NEW c \in Client, Begin(c)
  PROVE  PurgesInv'
  <1>1. PICK a \in asks :
           call' = [call EXCEPT ![c] = [NoCall EXCEPT !.pc = IF q.atomic THEN "sql" ELSE a.op,
                                                      !.ask = a, !.now = clock]]
    BY DEF Begin
  <1> DEFINE pc == IF q.atomic THEN "sql" ELSE a.op
             y == [NoCall EXCEPT !.pc = pc, !.ask = a, !.now = clock]
  <1>2. call' = [call EXCEPT ![c] = y] /\ UNCHANGED <<clock, dst>>
    BY <1>1 DEF Begin
  <1>3. pc \notin {"purge", "done", "failed"}
    BY PurgeCall DEF Typed, Fits, Ask
  <1> HIDE DEF pc
  <1>4. y.pc = pc /\ y.note = "none" /\ y.may = {} /\ y.filters = {} /\ y.keys = {}
    BY DEF NoCall
  <1> HIDE DEF y
  <1>5. PurgeInv(y, dst, clock)
    BY <1>3, <1>4 DEF PurgeInv
  <1> QED
    BY <1>2, <1>5, PurgeReads

LEMMA PurgeTickKeeps ==
  ASSUME PurgesInv, CallsInv', Tick
  PROVE  PurgesInv'
  <1> SUFFICES ASSUME NEW c \in Client PROVE PurgeInv(call'[c], dst', clock')
    BY DEF PurgesInv
  <1> DEFINE x == call[c]
             y == [x EXCEPT !.touched = TRUE, !.eased = TRUE]
  <1>t. x \in Call /\ PurgeInv(x, dst, clock)
    BY PurgeCall
  <1>1. dst' = dst /\ call'[c] = IF Ongoing(c) \/ x.may # {} THEN y ELSE x
    BY DEF Tick
  <1>2. CASE Ongoing(c) \/ x.may # {}
    <2>1. y.touched /\ y.pc = x.pc /\ y.may = x.may /\ y.note = x.note
      BY <1>t DEF Call
    <2>2. call'[c] = y
      BY <1>1, <1>2
    <2> HIDE DEF x, y
    <2> QED
      BY <1>t, <2>1, <2>2 DEF PurgeInv
  <1>3. CASE ~(Ongoing(c) \/ x.may # {})
    <2>1. call'[c] = x /\ x.may = {} /\ x.pc \in Ends
      BY <1>1, <1>3 DEF Ongoing, Ends
    <2> HIDE DEF x
    <2> QED
      BY <1>t, <2>1 DEF PurgeInv, Ends
  <1> QED
    BY <1>2, <1>3

LEMMA PurgePassKeeps ==
  ASSUME PurgesInv, CallsInv', NEW p, NEW d, PassWrites(p, d)
  PROVE  PurgesInv'
  <1>1. dst' = d /\ clock' = clock /\ call' = [k \in Client |-> Saw(k, d)]
    BY DEF PassWrites
  <1>2. \A k \in Client : PurgeInv(Saw(k, d), d, clock)
    BY PurgeBystander DEF PurgesInv
  <1> QED
    BY <1>1, <1>2 DEF PurgesInv

LEMMA PassStillKeeps ==
  ASSUME PurgesInv, CallsInv', UNCHANGED <<call, dst, clock>>
  PROVE  PurgesInv'
  BY DEF PurgesInv

LEMMA PurgesInvInit == Init => PurgesInv
  <1> SUFFICES ASSUME Init PROVE PurgesInv
    OBVIOUS
  <1>1. CallsInv
    BY CallsInvInit
  <1>2. ASSUME NEW c \in Client PROVE PurgeInv(call[c], dst, clock)
    <2>1. call[c] = NoCall
      BY DEF Init
    <2>2. NoCall.pc = "idle" /\ NoCall.note = "none" /\ NoCall.may = {}
      BY DEF NoCall
    <2> QED
      BY <2>1, <2>2 DEF PurgeInv
  <1> QED
    BY <1>1, <1>2 DEF PurgesInv

LEMMA PurgesInvNext == PurgesInv /\ [Next]_vars => PurgesInv'
  <1> SUFFICES ASSUME PurgesInv, [Next]_vars PROVE PurgesInv'
    OBVIOUS
  <1>i. CallsInv'
    BY CallsInvNext DEF PurgesInv
  <1>1. ASSUME NEW c \in Client,
               \/ SqlUpsert(c) \/ SqlDelete(c) \/ Cut(c) \/ Put(c) \/ Drop(c)
               \/ WriteNew(c) \/ WriteDeny(c) \/ ReadKey(c) \/ Walk(c) \/ Walked(c) \/ PutClashes(c)
        PROVE  PurgesInv'
    BY <1>i, <1>1, PlainSteps
  <1>2. ASSUME NEW c \in Client,
               Begin(c) \/ Fails(c) \/ LosesAnswer(c) \/ PurgeRead(c) \/ PurgeBatch(c) \/ PurgeEnd(c)
        PROVE  PurgesInv'
    BY <1>i, <1>2, PurgeBeginKeeps, PurgeFailsKeeps, PurgeLosesKeeps, PurgeReadKeeps, PurgeBatchKeeps, PurgeEndKeeps
  <1>3. ASSUME NEW k \in Partition, PassSweep(k) PROVE PurgesInv'
    <2>1. \E p, d : PassWrites(p, d)
      BY <1>3 DEF PassSweep
    <2> QED
      BY <1>i, <2>1, PurgePassKeeps
  <1>4. ASSUME NEW k \in Partition, PassStep(k) PROVE PurgesInv'
    <2>1. \E p, d : PassWrites(p, d)
      BY <1>4, Zenon DEF PassStep
    <2> QED
      BY <1>i, <2>1, PurgePassKeeps
  <1>5. CASE PassPut
    <2>1. \E p, d : PassWrites(p, d)
      BY <1>5 DEF PassPut
    <2> QED
      BY <1>i, <2>1, PurgePassKeeps
  <1>6. CASE PassBegin \/ PassEnd \/ PassDies \/ UNCHANGED vars
    <2>1. UNCHANGED <<call, dst, clock>>
      BY <1>6 DEF PassBegin, PassEnd, PassDies, vars
    <2> QED
      BY <1>i, <2>1, PassStillKeeps
  <1>7. CASE Tick
    BY <1>i, <1>7, PurgeTickKeeps
  <1> QED
    BY <1>1, <1>2, <1>3, <1>4, <1>5, <1>6, <1>7 DEF Next

\* A purge cut anywhere.  Before its memberships go it has taken away only allows, and the
\* store grants no more than before it; once they have gone with the allows, what is left of
\* it denies, and the store grants no more than after it.
LEMMA PurgingGrants ==
  ASSUME Typed, NEW x, Purging(x, dst, clock), Cardinality(Memberships(x.keys)) <= WriteMax
  PROVE  Grants(Now) \subseteq x.may
  <1> DEFINE gone == Gone(x.keys, x.rest)
             V == LiveIn(dst, clock)
  <1>1. PICK was \in [DOMAIN dst -> Expiry \cup {Absent}] :
           ReadFrom(x.ask, was, x.keys, x.may, clock) /\ dst = Without(was, gone)
    BY DEF Purging, Midway
  <1>2. InClasses(x.keys, gone) /\ gone \subseteq x.keys
    BY DEF Purging, Midway, Gone
  <1> DEFINE V0 == LiveIn(was, clock)
             V1 == LiveIn(Purged(x.ask, was), clock)
  <1>3. x.may = Grants(V0) \cup Grants(V1)
    BY <1>1 DEF ReadFrom
  <1>4. Purged(x.ask, was) = Without(was, x.keys)
    BY <1>1 DEF ReadFrom, Purged
  <1>5. DOMAIN dst \subseteq Tuple /\ DOMAIN was = DOMAIN dst
    BY <1>1 DEF Typed
  <1>6. V0 \in SUBSET Tuple /\ V \in SUBSET Tuple /\ V1 \in SUBSET Tuple
    BY <1>4, <1>5 DEF LiveIn, Without
  <1>7. V = V0 \ gone /\ V1 = V0 \ x.keys
    <2> HIDE DEF gone
    <2>1. ASSUME NEW k PROVE LiveIn(Without(was, k), clock) = V0 \ k
      BY DEF LiveIn, Without
    <2> QED
      BY <1>1, <1>4, <2>1
  <1> HIDE DEF V, V0, V1, gone
  <1>8. CASE gone \subseteq Allows(x.keys)
    <2>1. Memberships(V) = Memberships(V0) /\ Allows(V) \subseteq Allows(V0) /\ Denies(V0) \subseteq Denies(V)
      BY <1>5, <1>6, <1>7, <1>8 DEF Memberships, Allows, Denies
    <2> QED
      BY <1>3, <1>6, <2>1, GrantsLess DEF V, Now
  <1>9. CASE Allows(x.keys) \cup Memberships(x.keys) \subseteq gone
    <2>1. Memberships(V) = Memberships(V1) /\ Allows(V) \subseteq Allows(V1) /\ Denies(V1) \subseteq Denies(V)
      BY <1>2, <1>5, <1>6, <1>7, <1>9 DEF Memberships, Allows, Denies
    <2> QED
      BY <1>3, <1>6, <2>1, GrantsLess DEF V, Now
  <1> QED
    BY <1>2, <1>8, <1>9 DEF InClasses

\* A purge, wherever it is cut by a failure or by another, leaves the store granting no more
\* than before it or after it, and a residue is another's doing
\* (openfga_relations_driver.ts:1627), for any number of clients and any content.
THEOREM PurgesWhole == Spec => []PurgeIsWhole
  <1>1. Init => PurgesInv
    BY PurgesInvInit
  <1>2. PurgesInv /\ [Next]_vars => PurgesInv'
    BY PurgesInvNext
  <1>3. PurgesInv => PurgeIsWhole
    <2> SUFFICES ASSUME PurgesInv, NEW c \in Client
                 PROVE  /\ call[c].may # {} /\ ~call[c].touched /\ Cardinality(Memberships(call[c].keys)) <= WriteMax
                               => Grants(Now) \subseteq call[c].may
                        /\ call[c].note = "residue" => call[c].touched
      BY DEF PurgeIsWhole
    <2>1. Typed /\ PurgeInv(call[c], dst, clock)
      BY PurgeCall
    <2> QED
      BY <2>1, PurgingGrants DEF PurgeInv
  <1> QED
    BY <1>1, <1>2, <1>3, PTL DEF Spec



-----------------------------------------------------------------------------
(* Walks that have had rounds enough.                                      *)

\* A walk with a round for each node that leads on ends closed under its arcs: until then
\* each round finds a node more.
LEMMA SpreadCloses ==
  ASSUME NEW arcs, NEW from, NEW n \in Nat, NEW G, IsFiniteSet(G), Cardinality(G) <= n,
         \A a \in arcs, b \in arcs : b[1] = a[2] => a[2] \in G
  PROVE  \A a \in arcs : a[1] \in Spread(arcs, from, n) /\ a[2] \in G => a[2] \in Spread(arcs, from, n)
  <1>1. PICK g : Rounds(g, arcs, from, n) /\ Spread(arcs, from, n) = g[n]
    BY SpreadIs
  <1>2. \A k \in 0 .. n : g[k] = IF k = 0 THEN from ELSE Further(arcs, g[k - 1])
    BY <1>1 DEF Rounds
  <1>3. Cardinality(G) \in Nat
    BY FS_CardinalityType
  <1>4. \A k \in 0 .. n : IsFiniteSet(g[k] \cap G) /\ Cardinality(g[k] \cap G) \in Nat
                          /\ Cardinality(g[k] \cap G) <= Cardinality(G)
    <2> SUFFICES ASSUME NEW k \in 0 .. n
                 PROVE  IsFiniteSet(g[k] \cap G) /\ Cardinality(g[k] \cap G) \in Nat
                        /\ Cardinality(g[k] \cap G) <= Cardinality(G)
      OBVIOUS
    <2>1. g[k] \cap G \in SUBSET G
      OBVIOUS
    <2> QED
      BY <2>1, FS_Subset, FS_CardinalityType
  <1> DEFINE Shut(k) == \A a \in arcs : a[1] \in g[k] /\ a[2] \in G => a[2] \in g[k]
             X == {k \in 0 .. n : Shut(k) \/ Cardinality(g[k] \cap G) >= k}
  <1>5. 0 \in X
    BY <1>4
  <1>6. ASSUME NEW k \in 1 .. n, k - 1 \in X PROVE k \in X
    <2>1. g[k] = Further(arcs, g[k - 1]) /\ k - 1 \in 0 .. n /\ k \in 0 .. n
      BY <1>2
    <2>2. CASE Shut(k - 1)
      <3>1. Shut(k)
        <4> SUFFICES ASSUME NEW a \in arcs, a[1] \in g[k], a[2] \in G PROVE a[2] \in g[k - 1]
          BY <2>1 DEF Further
        <4>1. a[1] \in g[k - 1]
          BY <2>1, <2>2 DEF Further
        <4> QED
          BY <2>2, <4>1
      <3> QED
        BY <2>1, <3>1
    <2>3. CASE ~Shut(k - 1)
      <3>1. PICK a \in arcs : a[1] \in g[k - 1] /\ a[2] \in G /\ a[2] \notin g[k - 1]
        BY <2>3
      <3>2. (g[k - 1] \cap G) \cup {a[2]} \subseteq g[k] \cap G
        BY <2>1, <3>1 DEF Further
      <3> DEFINE had == g[k - 1] \cap G
                 more == had \cup {a[2]}
      <3>3. Cardinality(had) >= k - 1
        BY <1>6, <2>3
      <3>4. Cardinality(more) = Cardinality(had) + 1
        BY <1>4, <2>1, <3>1, FS_AddElement
      <3>5. Cardinality(more) <= Cardinality(g[k] \cap G)
        <4>1. IsFiniteSet(g[k] \cap G)
          BY <1>4, <2>1
        <4> HIDE DEF more
        <4> QED
          BY <3>2, <4>1, FS_Subset DEF more
      <3>6. Cardinality(had) \in Nat /\ Cardinality(g[k] \cap G) \in Nat
        BY <1>4, <2>1
      <3> HIDE DEF had, more
      <3>7. Cardinality(g[k] \cap G) >= k
        BY <3>3, <3>4, <3>5, <3>6
      <3> QED
        BY <2>1, <3>7
    <2> QED
      BY <2>2, <2>3
  <1> HIDE DEF X
  <1>7. X = 0 .. n
    <2>1. X \in SUBSET (0 .. n)
      BY DEF X
    <2> QED
      BY <1>5, <1>6, <2>1, UpTo
  <1>8. n \in X /\ n \in 0 .. n
    BY <1>7
  <1>9. CASE Shut(n)
    BY <1>1, <1>9
  <1>10. CASE Cardinality(g[n] \cap G) >= n
    <2>1. Cardinality(g[n] \cap G) = Cardinality(G)
      BY <1>3, <1>4, <1>8, <1>10
    <2>2. g[n] \cap G = G
      BY <2>1, FS_Subset
    <2> QED
      BY <1>1, <2>2
  <1> QED
    BY <1>8, <1>9, <1>10 DEF X


\* The groups a subject is in: the least set with it that the memberships do not lead out of.
LEMMA GroupsAre ==
  ASSUME NEW edges, \A t \in edges : t.object \in Group, NEW u
  PROVE  /\ u \in GroupsOf(edges, u)
         /\ \A t \in edges : t.user \in GroupsOf(edges, u) => t.object \in GroupsOf(edges, u)
         /\ \A X : u \in X /\ (\A t \in edges : t.user \in X => t.object \in X)
                => GroupsOf(edges, u) \subseteq X
         /\ GroupsOf(edges, u) \subseteq {u} \cup Group
  <1> DEFINE arcs == {<<t.user, t.object>> : t \in edges}
             n == Cardinality(Group)
  <1>1. GroupsOf(edges, u) = Spread(arcs, {u}, n)
    BY DEF GroupsOf
  <1>2. n \in Nat
    BY RelationTuplesAssumption, FS_CardinalityType
  <1>3. \A a \in arcs : a[2] \in Group
    OBVIOUS
  <1>4. \A t \in edges : <<t.user, t.object>> \in arcs
    OBVIOUS
  <1>c. ASSUME NEW X, \A t \in edges : t.user \in X => t.object \in X PROVE Closed(arcs, X)
    BY <1>c DEF Closed
  <1>0. IsFiniteSet(Group) /\ n <= n
    BY <1>2, RelationTuplesAssumption
  <1>a. Cardinality(Group) <= n
    BY <1>0
  <1> HIDE DEF arcs, n
  <1>5. u \in Spread(arcs, {u}, n)
    BY <1>2, SpreadFrom
  <1>6. \A a \in arcs : a[1] \in Spread(arcs, {u}, n) /\ a[2] \in Group => a[2] \in Spread(arcs, {u}, n)
    BY <1>a, <1>2, <1>3, <1>0, SpreadCloses
  <1>7. \A t \in edges : t.user \in Spread(arcs, {u}, n) => t.object \in Spread(arcs, {u}, n)
    <2> SUFFICES ASSUME NEW t \in edges, t.user \in Spread(arcs, {u}, n)
                 PROVE  t.object \in Spread(arcs, {u}, n)
      OBVIOUS
    <2> DEFINE a == <<t.user, t.object>>
    <2>1. a \in arcs /\ a[1] = t.user /\ a[2] = t.object
      BY <1>4
    <2> QED
      BY <1>3, <1>6, <2>1
  <1>8. ASSUME NEW X, u \in X, \A t \in edges : t.user \in X => t.object \in X
        PROVE  Spread(arcs, {u}, n) \subseteq X
    <2>1. {u} \subseteq X /\ Closed(arcs, X)
      BY <1>8, <1>c
    <2> QED
      BY <1>2, <2>1, SpreadLeast
  <1>9. Spread(arcs, {u}, n) \subseteq {u} \cup Group
    BY <1>8
  <1> QED
    BY <1>1, <1>5, <1>7, <1>8, <1>9

LEMMA PrincipalsAre ==
  ASSUME NEW S, NEW u
  PROVE  /\ u \in Principals(S, u)
         /\ \A t \in Memberships(S) : t.user \in Principals(S, u) => t.object \in Principals(S, u)
         /\ \A X : u \in X /\ (\A t \in Memberships(S) : t.user \in X => t.object \in X)
                => Principals(S, u) \subseteq X
         /\ Principals(S, u) \subseteq {u} \cup Group
  <1>1. \A t \in Memberships(S) : t.object \in Group
    BY DEF Memberships
  <1> QED
    BY <1>1, GroupsAre DEF Principals

\* The groups above a group, over the memberships of both ends.
LEMMA UpFromIs ==
  ASSUME NEW V, NEW g \in Group
  PROVE  /\ g \in UpFrom(Memberships(V), g)
         /\ \A t \in Memberships(V) : t.user \in UpFrom(Memberships(V), g) => t.object \in UpFrom(Memberships(V), g)
         /\ \A X : g \in X /\ (\A t \in Memberships(V) : t.user \in X /\ t.user \in Group => t.object \in X)
                => UpFrom(Memberships(V), g) \subseteq X
         /\ UpFrom(Memberships(V), g) \subseteq Group
  <1> DEFINE up == UpFrom(Memberships(V), g)
             edges == Nesting(Memberships(V))
  <1>1. up = GroupsOf(edges, g)
    BY DEF UpFrom
  <1>2. \A t : t \in edges <=> t \in Memberships(V) /\ t.user \in Group
    BY DEF Nesting, Memberships
  <1>3. \A t \in Memberships(V) : t.object \in Group
    BY DEF Memberships
  <1>4. /\ g \in up
        /\ \A t \in edges : t.user \in up => t.object \in up
        /\ \A X : g \in X /\ (\A t \in edges : t.user \in X => t.object \in X) => up \subseteq X
        /\ up \subseteq {g} \cup Group
    <2>1. \A t \in edges : t.object \in Group
      BY <1>2, <1>3
    <2> HIDE DEF edges, up
    <2> QED
      BY <1>1, <2>1, GroupsAre
  <1>5. up \subseteq Group
    BY <1>4
  <1> HIDE DEF up, edges
  <1> QED
    BY <1>2, <1>4, <1>5 DEF up

\* Who is in a group is among those the group brings.
LEMMA BelowReaches ==
  ASSUME NEW edges \in SUBSET Memberships(Tuple), NEW u \in Subject,
         NEW x \in Principals(edges, u)
  PROVE  u \in Below(edges, x)
  <1> DEFINE arcs == {<<t.object, t.user>> : t \in edges}
             n == Cardinality(Subject)
             down(y) == Spread(arcs, {y}, n)
             X == {y \in Subject : (y \in Holder => y = u) /\ (y \in Group => u \in down(y))}
  <1>1. n \in Nat /\ IsFiniteSet(Subject) /\ Cardinality(Subject) <= n
    <2>1. IsFiniteSet(Subject)
      BY RelationTuplesAssumption, FS_Union DEF Subject
    <2>2. n \in Nat
      BY <2>1, FS_CardinalityType
    <2> QED
      BY <2>1, <2>2
  <1>2. \A t \in edges : t.user \in Subject /\ t.object \in Group /\ <<t.object, t.user>> \in arcs
    BY DEF Memberships, Tuple
  <1>3. \A a \in arcs : a[2] \in Subject
    BY <1>2
  <1>4. \A y : y \in down(y)
    BY <1>1, SpreadFrom
  <1>5. ASSUME NEW y, NEW t \in edges, t.object \in down(y) PROVE t.user \in down(y)
    <2> DEFINE a == <<t.object, t.user>>
    <2>1. a \in arcs /\ a[1] = t.object /\ a[2] = t.user
      BY <1>2
    <2> HIDE DEF arcs, n
    <2>2. \A b \in arcs : b[1] \in Spread(arcs, {y}, n) /\ b[2] \in Subject => b[2] \in Spread(arcs, {y}, n)
      BY <1>1, <1>3, SpreadCloses
    <2> QED
      BY <1>3, <1>5, <2>1, <2>2
  <1>6. ASSUME NEW y, NEW z \in down(y) PROVE down(z) \subseteq down(y)
    <2>1. Closed(arcs, down(y))
      <3> DEFINE D == down(y)
      <3>1. \A t \in edges : t.object \in D => t.user \in D
        BY <1>5
      <3> HIDE DEF D
      <3>2. Closed(arcs, D)
        BY <3>1 DEF Closed
      <3> QED
        BY <3>2 DEF D
    <2> HIDE DEF arcs, n
    <2>2. {z} \subseteq Spread(arcs, {y}, n)
      BY <1>6
    <2> QED
      BY <1>1, <2>1, <2>2, SpreadLeast
  <1>7. u \in X
    BY <1>4
  <1>8. ASSUME NEW t \in edges, t.user \in X PROVE t.object \in X
    <2>1. t.object \in Subject /\ t.object \notin Holder
      BY <1>2, GroupsTyped DEF Subject
    <2>2. t.user \in down(t.object)
      BY <1>4, <1>5
    <2>3. u \in down(t.object)
      <3>1. CASE t.user \in Holder
        BY <1>8, <2>2, <3>1
      <3>2. CASE t.user \in Group
        BY <1>6, <1>8, <2>2, <3>2
      <3> QED
        BY <1>2, <3>1, <3>2 DEF Subject
    <2> QED
      BY <2>1, <2>3
  <1>9. x \in X
    <2>1. Memberships(edges) = edges
      BY <1>2 DEF Memberships
    <2> HIDE DEF X
    <2>2. Principals(edges, u) \subseteq X
      BY <1>7, <1>8, <2>1, PrincipalsAre
    <2> QED
      BY <2>2
  <1>10. Below(edges, x) = IF x \in Holder THEN {x} ELSE down(x)
    BY DEF Below
  <1> QED
    BY <1>9, <1>10 DEF Subject


\* More memberships bring a subject into more.
LEMMA PrincipalsMore ==
  ASSUME NEW S, NEW T, S \subseteq T, NEW u
  PROVE  Principals(S, u) \subseteq Principals(T, u)
  <1>1. \A t \in Memberships(S) : t \in Memberships(T)
    BY DEF Memberships
  <1>2. u \in Principals(T, u) /\ \A t \in Memberships(S) :
            t.user \in Principals(T, u) => t.object \in Principals(T, u)
    BY <1>1, PrincipalsAre
  <1> QED
    BY <1>2, PrincipalsAre

\* What S brings a subject into and T does not, S does by a membership that T has not, of one
\* that both bring it into.
LEMMA Diverges ==
  ASSUME NEW V, NEW S \in SUBSET V, NEW T, NEW u, NEW x \in Principals(S, u), x \notin Principals(T, u)
  PROVE  \E d \in Memberships(S) :
             /\ d \notin T
             /\ d.user \in Principals(S, u) /\ d.user \in Principals(T, u)
             /\ x \in UpFrom(Memberships(V), d.object)
  <1> DEFINE ps == Principals(S, u)
             pt == Principals(T, u)
             By(y) == \E d \in Memberships(S) : d \notin T /\ d.user \in ps /\ d.user \in pt
                                                /\ y \in UpFrom(Memberships(V), d.object)
             X == {y \in ps : y \in pt \/ By(y)}
  <1>1. u \in X
    BY PrincipalsAre
  <1>2. ASSUME NEW e \in Memberships(S), e.user \in X PROVE e.object \in X
    <2>1. e.object \in ps /\ e.object \in Group /\ e.user \in ps /\ e \in S
      BY <1>2, PrincipalsAre DEF Memberships
    <2>2. CASE e.user \in pt /\ e \in T
      <3>1. e \in Memberships(T)
        BY <2>1, <2>2 DEF Memberships
      <3>2. e.object \in pt
        BY <2>2, <3>1, PrincipalsAre
      <3> QED
        BY <2>1, <3>2
    <2>3. CASE e.user \in pt /\ e \notin T
      <3>1. e.object \in UpFrom(Memberships(V), e.object)
        BY <2>1, UpFromIs
      <3>2. By(e.object)
        BY <2>1, <2>3, <3>1
      <3> QED
        BY <2>1, <3>2
    <2>4. CASE By(e.user)
      <3>1. PICK d \in Memberships(S) : d \notin T /\ d.user \in ps /\ d.user \in pt
                                        /\ e.user \in UpFrom(Memberships(V), d.object)
        BY <2>4
      <3>2. d.object \in Group /\ e \in Memberships(V)
        BY <2>1 DEF Memberships
      <3>3. e.object \in UpFrom(Memberships(V), d.object)
        BY <3>1, <3>2, UpFromIs
      <3>4. By(e.object)
        BY <3>1, <3>3
      <3> QED
        BY <2>1, <3>4
    <2> QED
      BY <1>2, <2>2, <2>3, <2>4
  <1> HIDE DEF X
  <1>3. ps \subseteq X
    BY <1>1, <1>2, PrincipalsAre
  <1> QED
    BY <1>3 DEF X

-----------------------------------------------------------------------------
(* The middle of a change.                                                 *)

\* A change from A to B is under way and the store is M: V are the tuples of both ends, and
\* what is left of the steps has come after what is done.
Midst(V, steps, rest, A, B, M, cuts) ==
    /\ A \cup B \cup M \subseteq V /\ rest \subseteq steps
    /\ \A s \in steps :
           /\ s.as = "write" => (s.t \in A => s.t \in B)
           /\ s.as = "delete" => (s.t \in B => s.t \in A)
           /\ s.do = "write" => s.as = "write" /\ s.t \notin A
           /\ s.do = "delete" => s.as = "delete" /\ s.t \notin B
           /\ s.do = "renew" /\ s.t.deny => s.as = "write"
    /\ \A s \in rest : s.t \in M <=> s.t \in A
    /\ \A s \in steps \ rest : s.t \in M <=> s.t \in B
    /\ \A t \in V : (\A s \in steps : s.t # t) => (t \in A <=> t \in M) /\ (t \in B <=> t \in M)
    /\ \A s \in steps \ rest, x \in rest :
           /\ Phase(s) <= Phase(x)
           /\ s.t.object \in Group /\ x.t.object \in Group => ~Before(steps, V, cuts, x, s)
    /\ cuts => Denies(V) \subseteq A \cup B /\ Memberships(V) \ Changed(steps) \subseteq M

\* Where the store differs from an end there is a step, done or left, that makes it so.
LEMMA Differs ==
  ASSUME NEW V \in SUBSET Tuple, NEW steps \in SUBSET Step, NEW rest, NEW A, NEW B, NEW M, NEW cuts,
         Midst(V, steps, rest, A, B, M, cuts), NEW t
  PROVE  /\ t \in A /\ t \notin M => t \notin B /\ \E s \in steps \ rest : s.t = t /\ s.as = "delete"
         /\ t \in B /\ t \notin M => t \notin A /\ \E s \in rest : s.t = t /\ s.as = "write"
         /\ t \in M /\ t \notin B => t \in A /\ \E s \in rest : s.t = t /\ s.as = "delete"
         /\ t \in M /\ t \notin A => t \in B /\ \E s \in steps \ rest : s.t = t /\ s.as = "write"
  <1>1. /\ t \in A \/ t \in B \/ t \in M => t \in V
        /\ \A s \in steps : s.as \in {"write", "delete"}
        /\ rest \subseteq steps
    BY DEF Midst, Step
  <1>2. /\ (\A s \in steps : s.t # t) /\ t \in V => (t \in A <=> t \in M) /\ (t \in B <=> t \in M)
        /\ \A s \in rest : s.t = t => (t \in M <=> t \in A)
        /\ \A s \in steps \ rest : s.t = t => (t \in M <=> t \in B)
        /\ \A s \in steps : s.t = t => (s.as = "write" => (t \in A => t \in B))
                                       /\ (s.as = "delete" => (t \in B => t \in A))
    BY DEF Midst
  <1>3. CASE \A s \in steps : s.t # t
    BY <1>1, <1>2, <1>3
  <1>4. ASSUME NEW s \in steps, s.t = t, s \in rest
        PROVE  /\ ~(t \in A /\ t \notin M)
               /\ t \in B /\ t \notin M => t \notin A /\ s.as = "write"
               /\ t \in M /\ t \notin B => t \in A /\ s.as = "delete"
               /\ ~(t \in M /\ t \notin A)
    BY <1>1, <1>2, <1>4
  <1>5. ASSUME NEW s \in steps, s.t = t, s \notin rest
        PROVE  /\ t \in A /\ t \notin M => t \notin B /\ s.as = "delete"
               /\ ~(t \in B /\ t \notin M)
               /\ ~(t \in M /\ t \notin B)
               /\ t \in M /\ t \notin A => t \in B /\ s.as = "write"
    BY <1>1, <1>2, <1>5
  <1> QED
    BY <1>3, <1>4, <1>5

\* In the middle of a change the store brings a subject only into what the memberships it
\* shares with one end do (C3).
LEMMA OneEndReaches ==
  ASSUME NEW V \in SUBSET Tuple, NEW steps \in SUBSET Step, NEW rest, NEW A, NEW B, NEW M, NEW cuts,
         Midst(V, steps, rest, A, B, M, cuts), NEW u
  PROVE  /\ Principals(M, u) \subseteq Principals(M \cap A, u) \cup Principals(M \cap B, u)
         /\ \A t \in Memberships(M) : t.user \in Principals(M, u) =>
                \/ t \in A /\ t.user \in Principals(M \cap A, u)
                \/ t \in B /\ t.user \in Principals(M \cap B, u)
  <1> DEFINE pa == Principals(M \cap A, u)
             pb == Principals(M \cap B, u)
  <1>v. M \cap A \in SUBSET V /\ M \cap B \in SUBSET V /\ rest \subseteq steps
    BY DEF Midst
  <1>g. \A t \in Memberships(M) : t.object \in Group /\ t \in M
    BY DEF Memberships
  <1>3. \A s \in steps \ rest, x \in rest :
            s.t.object \in Group /\ x.t.object \in Group => ~Before(steps, V, cuts, x, s)
    BY DEF Midst
  <1>1. ASSUME NEW t \in Memberships(M), t.user \in pa, t \notin A PROVE t \in B /\ t.user \in pb
    <2>1. PICK s \in steps \ rest : s.t = t /\ s.as = "write"
      BY <1>1, <1>g, Differs
    <2>2. t \in B
      BY <1>1, <1>g, Differs
    <2>3. ASSUME t.user \notin pb PROVE FALSE
      <3>1. PICK d \in Memberships(M \cap A) :
                /\ d \notin M \cap B
                /\ d.user \in pa /\ d.user \in pb
                /\ t.user \in UpFrom(Memberships(V), d.object)
        BY <1>1, <1>v, <2>3, Diverges
      <3>2. d \in M /\ d \notin B /\ d.object \in Group
        BY <3>1 DEF Memberships
      <3>3. PICK x \in rest : x.t = d /\ x.as = "delete"
        BY <3>2, Differs
      <3>4. t.user \in Group
        BY <3>1, <3>2, UpFromIs
      <3>5. Before(steps, V, cuts, x, s)
        BY <2>1, <3>1, <3>3, <3>4 DEF Before
      <3> QED
        BY <1>3, <1>g, <2>1, <3>2, <3>3, <3>5
    <2> QED
      BY <2>2, <2>3
  <1>2. ASSUME NEW t \in Memberships(M), t.user \in pb, t \notin B PROVE t \in A /\ t.user \in pa
    <2>1. PICK x \in rest : x.t = t /\ x.as = "delete"
      BY <1>2, <1>g, Differs
    <2>2. t \in A
      BY <1>2, <1>g, Differs
    <2>3. ASSUME t.user \notin pa PROVE FALSE
      <3>1. PICK e \in Memberships(M \cap B) :
                /\ e \notin M \cap A
                /\ e.user \in pb /\ e.user \in pa
                /\ t.user \in UpFrom(Memberships(V), e.object)
        BY <1>2, <1>v, <2>3, Diverges
      <3>2. e \in M /\ e \notin A /\ e.object \in Group
        BY <3>1 DEF Memberships
      <3>3. PICK s \in steps \ rest : s.t = e /\ s.as = "write"
        BY <3>2, Differs
      <3>4. t.user \in Group
        BY <3>1, <3>2, UpFromIs
      <3>5. Before(steps, V, cuts, x, s)
        BY <2>1, <3>1, <3>3, <3>4 DEF Before
      <3> QED
        BY <1>3, <1>g, <2>1, <3>2, <3>3, <3>5
    <2> QED
      BY <2>2, <2>3
  <1>4. \A t \in Memberships(M) : t.user \in pa \cup pb =>
            (t \in A /\ t.user \in pa) \/ (t \in B /\ t.user \in pb)
    BY <1>1, <1>2
  <1>5. ASSUME NEW t \in Memberships(M), t.user \in pa \cup pb PROVE t.object \in pa \cup pb
    <2>1. CASE t \in A /\ t.user \in pa
      <3>1. t \in Memberships(M \cap A)
        BY <2>1 DEF Memberships
      <3> QED
        BY <2>1, <3>1, PrincipalsAre
    <2>2. CASE t \in B /\ t.user \in pb
      <3>1. t \in Memberships(M \cap B)
        BY <2>2 DEF Memberships
      <3> QED
        BY <2>2, <3>1, PrincipalsAre
    <2> QED
      BY <1>4, <1>5, <2>1, <2>2
  <1>6. u \in pa \cup pb
    BY PrincipalsAre
  <1> HIDE DEF pa, pb
  <1>7. Principals(M, u) \subseteq pa \cup pb
    BY <1>5, <1>6, PrincipalsAre
  <1> QED
    BY <1>4, <1>7 DEF pa, pb


\* An allow counts for a subject that it reaches and that no deny of what it gives does.
Counts(S, u, a) ==
    /\ a \in Allows(S) /\ a.user \in Principals(S, u)
    /\ \A d \in Denies(S) : d.object = a.object /\ d.rel \in Up[a.rel] => d.user \notin Principals(S, u)

LEMMA CheckIs ==
  ASSUME NEW S \in SUBSET Tuple, NEW u, NEW r, NEW o, o \notin Group
  PROVE  SqlCheck(S, u, r, o) <=> \E a \in Allows(S) : a.object = o /\ a.rel \in Down[r] /\ Counts(S, u, a)
  <1> DEFINE allowed == Found(S, u, o, FALSE)
             denied == Found(S, u, o, TRUE)
  <1>1. SqlCheck(S, u, r, o) <=> \E g \in Down[r] \cap allowed : Up[g] \cap denied = {}
    BY DEF SqlCheck, CutPathAllows
  <1>2. \A t \in S : t.deny \in BOOLEAN
    BY DEF Tuple
  <1>3. \A g : g \in allowed <=> \E a \in Allows(S) : a.object = o /\ a.user \in Principals(S, u) /\ a.rel = g
    BY <1>2 DEF Found, Allows
  <1>4. \A g : g \in denied <=> \E d \in Denies(S) : d.object = o /\ d.user \in Principals(S, u) /\ d.rel = g
    BY <1>2 DEF Found, Denies
  <1> HIDE DEF allowed, denied
  <1>5. ASSUME SqlCheck(S, u, r, o)
        PROVE  \E a \in Allows(S) : a.object = o /\ a.rel \in Down[r] /\ Counts(S, u, a)
    <2>1. PICK g \in Down[r] \cap allowed : Up[g] \cap denied = {}
      BY <1>1, <1>5
    <2>2. PICK a \in Allows(S) : a.object = o /\ a.user \in Principals(S, u) /\ a.rel = g
      BY <1>3, <2>1
    <2>3. Counts(S, u, a)
      BY <1>4, <2>1, <2>2 DEF Counts
    <2> QED
      BY <2>1, <2>2, <2>3
  <1>6. ASSUME NEW a \in Allows(S), a.object = o, a.rel \in Down[r], Counts(S, u, a)
        PROVE  SqlCheck(S, u, r, o)
    <2>1. a.rel \in Down[r] \cap allowed
      BY <1>3, <1>6 DEF Counts
    <2>2. Up[a.rel] \cap denied = {}
      BY <1>4, <1>6 DEF Counts
    <2> QED
      BY <1>1, <2>1, <2>2
  <1> QED
    BY <1>5, <1>6

\* What a subject is in, it is in by its first membership.
LEMMA FirstMembership ==
  ASSUME NEW V, NEW u, NEW y \in Principals(V, u)
  PROVE  y = u \/ \E e \in Memberships(V) : e.user = u /\ y \in UpFrom(Memberships(V), e.object)
  <1> DEFINE By(z) == \E e \in Memberships(V) : e.user = u /\ z \in UpFrom(Memberships(V), e.object)
             X == {z \in {u} \cup Group : z = u \/ By(z)}
  <1>1. u \in X
    OBVIOUS
  <1>2. ASSUME NEW t \in Memberships(V), t.user \in X PROVE t.object \in X
    <2>1. t.object \in Group
      BY DEF Memberships
    <2>2. CASE t.user = u
      <3>1. t.object \in UpFrom(Memberships(V), t.object)
        BY <2>1, UpFromIs
      <3> QED
        BY <2>1, <2>2, <3>1
    <2>3. CASE By(t.user)
      <3>1. PICK e \in Memberships(V) : e.user = u /\ t.user \in UpFrom(Memberships(V), e.object)
        BY <2>3
      <3>2. e.object \in Group
        BY DEF Memberships
      <3>3. t.object \in UpFrom(Memberships(V), e.object)
        BY <3>1, <3>2, UpFromIs
      <3> QED
        BY <2>1, <3>1, <3>3
    <2> QED
      BY <1>2, <2>2, <2>3
  <1> HIDE DEF X
  <1>3. y \in X
    BY <1>1, <1>2, PrincipalsAre
  <1> QED
    BY <1>3 DEF X

\* Who is in a group in the store is among those it brings, over all that has not gone from
\* the store.
LEMMA Brings ==
  ASSUME NEW V \in SUBSET Tuple, NEW M \in SUBSET V, NEW but, but \cap M = {},
         NEW u \in Subject, NEW y \in Principals(M, u)
  PROVE  u \in Below(Memberships(V) \ but, y)
  <1> DEFINE edges == Memberships(V) \ but
  <1>1. edges \in SUBSET Memberships(Tuple)
    BY DEF Memberships
  <1>2. Memberships(M) \subseteq Memberships(edges)
    BY DEF Memberships
  <1> HIDE DEF edges
  <1>3. y \in Principals(edges, u)
    <2>1. /\ u \in Principals(edges, u)
          /\ \A t \in Memberships(M) : t.user \in Principals(edges, u) => t.object \in Principals(edges, u)
      BY <1>2, PrincipalsAre
    <2> QED
      BY <2>1, PrincipalsAre
  <1> QED
    BY <1>1, <1>3, BelowReaches DEF edges

\* An allow that counts in the store is effective for the group that brings it: a deny that
\* cut it there would cut it in the store, where what does not change is.
LEMMA StaysEffective ==
  ASSUME NEW V \in SUBSET Tuple, NEW steps \in SUBSET Step, NEW rest, NEW A, NEW B, NEW M, NEW cuts,
         Midst(V, steps, rest, A, B, M, cuts), Denies(A) \cup Denies(B) \subseteq M,
         NEW u, NEW a \in KeptAllows(steps, V), Counts(M, u, a),
         NEW g \in Group, g \in Principals(M, u), a.user \in UpFrom(Memberships(V), g)
  PROVE  a.object \in Effective(steps, V, cuts, g)
  <1> DEFINE K == Memberships(V) \ Changed(steps)
             allows == ReachedBy(Memberships(V), KeptAllows(steps, V), g)
             kept == ReachedBy(K, Denies(V), g)
  <1>1. a \in allows
    BY DEF ReachedBy
  <1>2. ASSUME cuts, NEW d \in kept, d.object = a.object, d.rel \in Up[a.rel] PROVE FALSE
    <2>1. d \in Denies(V) /\ d.user \in UpFrom(K, g)
      BY <1>2 DEF ReachedBy
    <2>2. K \subseteq M /\ d \in A \cup B
      BY <1>2, <2>1 DEF Midst
    <2>3. d \in Denies(M)
      BY <2>1, <2>2 DEF Denies
    <2>4. Memberships(K) = K
      BY DEF Memberships
    <2>5. \A t \in K : t \in Memberships(M)
      BY <2>2 DEF Memberships
    <2> HIDE DEF K
    <2>6. \A t \in Memberships(K) : t.user \in Principals(M, u) /\ t.user \in Group => t.object \in Principals(M, u)
      BY <2>4, <2>5, PrincipalsAre
    <2>7. UpFrom(K, g) \subseteq Principals(M, u)
      BY <2>4, <2>6, UpFromIs
    <2> QED
      BY <1>2, <2>1, <2>3, <2>7 DEF Counts
  <1>3. a \in {x \in allows : ~(cuts /\ \E d \in kept : d.object = x.object /\ d.rel \in Up[x.rel])}
    BY <1>1, <1>2
  <1> HIDE DEF allows, kept
  <1> QED
    BY <1>3 DEF Effective, allows, kept, K


\* A subject whom a deny of one end S stops, and no deny of the store M does: the membership
\* that brings it the deny is in that end and not in the store.
LEMMA StopsAt ==
  ASSUME NEW V, NEW S \in SUBSET V, NEW M, Denies(S) \subseteq M,
         NEW u, NEW a, Counts(M, u, a), a \in S, a.user \in Principals(S, u), ~Counts(S, u, a)
  PROVE  \E e \in Memberships(S) : /\ e \notin M /\ e.user \in Principals(M, u)
                                   /\ a.object \in DeniedObjects(V, e.object)
  <1>1. a \in Allows(S)
    BY DEF Counts, Allows
  <1>2. PICK d \in Denies(S) : d.object = a.object /\ d.rel \in Up[a.rel] /\ d.user \in Principals(S, u)
    BY <1>1 DEF Counts
  <1>3. d \in Denies(M) /\ d \in Denies(V)
    BY DEF Denies
  <1>4. d.user \notin Principals(M, u)
    BY <1>2, <1>3 DEF Counts
  <1>5. PICK e \in Memberships(S) : e \notin M /\ e.user \in Principals(M, u)
                                    /\ d.user \in UpFrom(Memberships(V), e.object)
    BY <1>2, <1>4, Diverges
  <1>6. a.object \in DeniedObjects(V, e.object)
    BY <1>2, <1>3, <1>5 DEF DeniedObjects, ReachedBy
  <1> QED
    BY <1>5, <1>6

\* In the middle, once the denies of both ends are there and no allow is but what both have,
\* what counts for a subject counts for it at one end: by C1, C2 and C4.
LEMMA MiddleCounts ==
  ASSUME NEW V \in SUBSET Tuple, NEW steps \in SUBSET Step, NEW rest, NEW A, NEW B, NEW M, NEW cuts,
         Midst(V, steps, rest, A, B, M, cuts),
         Denies(A) \cup Denies(B) \subseteq M, Allows(M) \subseteq A \cap B,
         NEW u \in Subject, NEW a, Counts(M, u, a)
  PROVE  Counts(A, u, a) \/ Counts(B, u, a)
  <1> SUFFICES ASSUME ~Counts(A, u, a), ~Counts(B, u, a) PROVE FALSE
    OBVIOUS
  <1> DEFINE edges == Memberships(V)
             o == a.object
             pa == Principals(M \cap A, u)
             pb == Principals(M \cap B, u)
  <1>v. A \in SUBSET V /\ B \in SUBSET V /\ M \in SUBSET V /\ rest \subseteq steps
        /\ M \cap A \in SUBSET V /\ M \cap B \in SUBSET V
    BY DEF Midst
  <1>a. a \in M /\ a \in A /\ a \in B /\ a \in V /\ a.object \notin Group /\ ~a.deny
    BY <1>v DEF Counts, Allows
  <1>k. a \in KeptAllows(steps, V)
    <2>1. a \in Allows(V)
      BY <1>a DEF Allows
    <2>2. \A s \in steps : s.do \in {"write", "delete", "renew"}
      BY DEF Step
    <2>3. \A s \in steps : s.t = a => s.do = "renew" /\ s.t.object \notin Group
      BY <1>a, <2>2 DEF Midst
    <2>4. a \notin Changed(steps)
      BY <2>3 DEF Changed
    <2> QED
      BY <2>1, <2>4 DEF KeptAllows
  <1>o. \A s \in steps \ rest, x \in rest :
            s.t.object \in Group /\ x.t.object \in Group => ~Before(steps, V, cuts, x, s)
    BY DEF Midst
  <1>m. Principals(M \cap A, u) \subseteq Principals(A, u) /\ Principals(M \cap B, u) \subseteq Principals(B, u)
        /\ Principals(M \cap A, u) \subseteq Principals(M, u) /\ Principals(M \cap B, u) \subseteq Principals(M, u)
        /\ Principals(A, u) \subseteq Principals(V, u) /\ Principals(B, u) \subseteq Principals(V, u)
    BY <1>v, PrincipalsMore
  <1>d. Denies(A) \subseteq M /\ Denies(B) \subseteq M
    OBVIOUS
  \* What brings it a deny at either end and has gone, or is still to come.
  <1>1. ASSUME a.user \in Principals(A, u)
        PROVE  \E s \in steps \ rest : /\ s.as = "delete" /\ s.t \notin M /\ s.t.object \in Group
                                       /\ s.t.user \in Principals(M, u) /\ o \in DeniedObjects(V, s.t.object)
    <2>1. PICK e \in Memberships(A) : /\ e \notin M /\ e.user \in Principals(M, u)
                                      /\ o \in DeniedObjects(V, e.object)
      BY <1>1, <1>a, <1>d, <1>v, StopsAt
    <2>2. e \in A /\ e.object \in Group
      BY DEF Memberships
    <2>3. PICK s \in steps \ rest : s.t = e /\ s.as = "delete"
      BY <2>1, <2>2, Differs
    <2> QED
      BY <2>1, <2>2, <2>3
  <1>2. ASSUME a.user \in Principals(B, u)
        PROVE  \E x \in rest : /\ x.as = "write" /\ x.t \notin M /\ x.t.object \in Group
                               /\ x.t.user \in Principals(M, u) /\ o \in DeniedObjects(V, x.t.object)
    <2>1. PICK e \in Memberships(B) : /\ e \notin M /\ e.user \in Principals(M, u)
                                      /\ o \in DeniedObjects(V, e.object)
      BY <1>2, <1>a, <1>d, <1>v, StopsAt
    <2>2. e \in B /\ e.object \in Group
      BY DEF Memberships
    <2>3. PICK x \in rest : x.t = e /\ x.as = "write"
      BY <2>1, <2>2, Differs
    <2> QED
      BY <2>1, <2>2, <2>3
  <1>b. ASSUME NEW y \in Principals(M, u), NEW t, t \notin M
        PROVE  u \in Below(edges \ {t}, y)
    <2>1. {t} \cap M = {}
      BY <1>b
    <2> QED
      BY <1>v, <2>1, Brings
  <1>e. ASSUME NEW y \in Principals(M, u) PROVE u \in Below(edges, y) /\ u \in Below(edges \ {}, y)
    <2>1. u \in Below(edges \ {}, y) /\ edges \ {} = edges
      BY <1>v, Brings
    <2> QED
      BY <2>1
  <1>3. CASE a.user \in Principals(A, u) /\ a.user \in Principals(B, u)
    <2>1. PICK s \in steps \ rest : /\ s.as = "delete" /\ s.t \notin M /\ s.t.object \in Group
                                    /\ s.t.user \in Principals(M, u) /\ o \in DeniedObjects(V, s.t.object)
      BY <1>1, <1>3
    <2>2. PICK x \in rest : /\ x.as = "write" /\ x.t \notin M /\ x.t.object \in Group
                            /\ x.t.user \in Principals(M, u) /\ o \in DeniedObjects(V, x.t.object)
      BY <1>2, <1>3
    <2>3. u \in Below(edges \ {s.t}, x.t.user) /\ u \in Below(edges \ {x.t}, s.t.user)
      BY <1>b, <2>1, <2>2
    <2>4. o \in AllowsOf(steps, V, u)
      <3>1. a.user = u \/ \E e \in Memberships(V) : e.user = u /\ a.user \in UpFrom(Memberships(V), e.object)
        BY <1>3, <1>m, FirstMembership
      <3> QED
        BY <1>k, <3>1 DEF AllowsOf
    <2>5. Before(steps, V, cuts, x, s)
      BY <2>1, <2>2, <2>3, <2>4 DEF Before
    <2> QED
      BY <1>o, <2>1, <2>2, <2>5
  <1>4. CASE a.user \in pa /\ a.user \notin Principals(B, u)
    <2>1. PICK s \in steps \ rest : /\ s.as = "delete" /\ s.t \notin M /\ s.t.object \in Group
                                    /\ s.t.user \in Principals(M, u) /\ o \in DeniedObjects(V, s.t.object)
      BY <1>1, <1>4, <1>m
    <2>2. PICK f \in Memberships(M \cap A) : /\ f \notin B /\ f.user \in pa
                                             /\ a.user \in UpFrom(edges, f.object)
      BY <1>4, <1>v, Diverges
    <2>3. f \in M /\ f.object \in Group /\ f \in Memberships(M)
      BY DEF Memberships
    <2>4. PICK x \in rest : x.t = f /\ x.as = "delete"
      BY <2>2, <2>3, Differs
    <2>5. f.user \in Principals(M, u) /\ f.object \in Principals(M, u)
      BY <1>m, <2>2, <2>3, PrincipalsAre
    <2>6. o \in Effective(steps, V, cuts, f.object)
      BY <1>k, <2>2, <2>3, <2>5, StaysEffective
    <2>7. u \in Below(edges \ {s.t}, x.t.user) /\ u \in Below(edges \ {}, s.t.user)
      BY <1>b, <1>e, <2>1, <2>4, <2>5
    <2>8. Before(steps, V, cuts, x, s)
      BY <2>1, <2>4, <2>6, <2>7 DEF Before
    <2> QED
      BY <1>o, <2>1, <2>3, <2>4, <2>8
  <1>5. CASE a.user \in pb /\ a.user \notin Principals(A, u)
    <2>1. PICK x \in rest : /\ x.as = "write" /\ x.t \notin M /\ x.t.object \in Group
                            /\ x.t.user \in Principals(M, u) /\ o \in DeniedObjects(V, x.t.object)
      BY <1>2, <1>5, <1>m
    <2>2. PICK f \in Memberships(M \cap B) : /\ f \notin A /\ f.user \in pb
                                             /\ a.user \in UpFrom(edges, f.object)
      BY <1>5, <1>v, Diverges
    <2>3. f \in M /\ f.object \in Group /\ f \in Memberships(M)
      BY DEF Memberships
    <2>4. PICK s \in steps \ rest : s.t = f /\ s.as = "write"
      BY <2>2, <2>3, Differs
    <2>5. f.user \in Principals(M, u) /\ f.object \in Principals(M, u)
      BY <1>m, <2>2, <2>3, PrincipalsAre
    <2>6. o \in Effective(steps, V, cuts, f.object)
      BY <1>k, <2>2, <2>3, <2>5, StaysEffective
    <2>7. u \in Below(edges \ {}, x.t.user) /\ u \in Below(edges \ {}, s.t.user)
      BY <1>e, <2>1, <2>4, <2>5
    <2>8. Before(steps, V, cuts, x, s)
      BY <2>1, <2>4, <2>6, <2>7 DEF Before
    <2> QED
      BY <1>o, <2>1, <2>3, <2>4, <2>8
  <1>6. a.user \in pa \/ a.user \in pb
    <2>1. a.user \in Principals(M, u)
      BY DEF Counts
    <2> QED
      BY <2>1, OneEndReaches
  <1> QED
    BY <1>3, <1>4, <1>5, <1>6, <1>m

\* A change in its middle grants what one of its ends does.
LEMMA MiddleGrants ==
  ASSUME NEW V \in SUBSET Tuple, NEW steps \in SUBSET Step, NEW rest, NEW A, NEW B, NEW M, NEW cuts,
         Midst(V, steps, rest, A, B, M, cuts),
         Denies(A) \cup Denies(B) \subseteq M, Allows(M) \subseteq A \cap B
  PROVE  Grants(M) \subseteq Grants(A) \cup Grants(B)
  <1>v. A \in SUBSET Tuple /\ B \in SUBSET Tuple /\ M \in SUBSET Tuple
    BY DEF Midst
  <1>1. ASSUME NEW u \in Subject, NEW r, NEW o, SqlCheck(M, u, r, o)
        PROVE  SqlCheck(A, u, r, o) \/ SqlCheck(B, u, r, o)
    <2>1. CASE o \in Group
      <3>1. PICK t \in Memberships(M) : t.object = o /\ t.user \in Principals(M, u)
        BY <1>1, <2>1 DEF SqlCheck
      <3>2. \/ t \in A /\ t.user \in Principals(M \cap A, u)
            \/ t \in B /\ t.user \in Principals(M \cap B, u)
        BY <3>1, OneEndReaches
      <3>3. Principals(M \cap A, u) \subseteq Principals(A, u) /\ Principals(M \cap B, u) \subseteq Principals(B, u)
        BY PrincipalsMore
      <3>4. (t \in A => t \in Memberships(A)) /\ (t \in B => t \in Memberships(B))
        BY DEF Memberships
      <3> QED
        BY <2>1, <3>1, <3>2, <3>3, <3>4 DEF SqlCheck
    <2>2. CASE o \notin Group
      <3>1. PICK a \in Allows(M) : a.object = o /\ a.rel \in Down[r] /\ Counts(M, u, a)
        BY <1>1, <1>v, <2>2, CheckIs
      <3>2. Counts(A, u, a) \/ Counts(B, u, a)
        BY <3>1, MiddleCounts
      <3>3. (Counts(A, u, a) => a \in Allows(A)) /\ (Counts(B, u, a) => a \in Allows(B))
        BY DEF Counts
      <3>4. /\ Counts(A, u, a) => SqlCheck(A, u, r, o)
            /\ Counts(B, u, a) => SqlCheck(B, u, r, o)
        BY <1>v, <2>2, <3>1, <3>3, CheckIs
      <3> QED
        BY <3>2, <3>4
    <2> QED
      BY <2>1, <2>2
  <1> QED
    BY <1>1 DEF Grants, Subject


\* Where a step goes: the writes of denies first, then what takes allows away, the
\* memberships, what gives allows, and the deletes of denies.
LEMMA PhaseIs ==
  ASSUME NEW s \in Step
  PROVE  /\ Phase(s) \in 1 .. 8
         /\ s.t.object \in Group => Phase(s) = 5
         /\ s.t.object \notin Group => Phase(s) # 5
         /\ s.t.deny => Phase(s) = IF s.do = "write" THEN 1 ELSE IF s.do = "renew" THEN 2 ELSE 8
         /\ ~s.t.deny /\ s.t.object \notin Group =>
                /\ s.as = "write" /\ s.do # "delete" => Phase(s) \in {6, 7}
                /\ s.as = "delete" /\ s.do # "write" => Phase(s) \in {3, 4}
  <1>1. s.do \in {"write", "delete", "renew"} /\ s.as \in {"write", "delete"} /\ s.t \in Tuple
    BY DEF Step
  <1>2. s.t.deny \in BOOLEAN /\ (s.t.object \in Group => ~s.t.deny)
    BY <1>1, RelationTuplesAssumption DEF Tuple
  <1>3. CASE s.t.deny
    BY <1>1, <1>2, <1>3 DEF Phase
  <1>4. CASE ~s.t.deny /\ s.t.object \in Group
    BY <1>1, <1>4 DEF Phase
  <1>5. CASE ~s.t.deny /\ s.t.object \notin Group
    BY <1>1, <1>5 DEF Phase
  <1> QED
    BY <1>2, <1>3, <1>4, <1>5

\* A change under way grants what one of its ends does.
LEMMA MidstGrants ==
  ASSUME NEW V \in SUBSET Tuple, NEW steps \in SUBSET Step, NEW rest, NEW A, NEW B, NEW M, NEW cuts,
         Midst(V, steps, rest, A, B, M, cuts)
  PROVE  Grants(M) \subseteq Grants(A) \cup Grants(B)
  <1>v. A \in SUBSET Tuple /\ B \in SUBSET Tuple /\ M \in SUBSET Tuple /\ rest \subseteq steps
    BY DEF Midst
  <1>p. \A s \in steps :
           /\ Phase(s) \in 1 .. 8 /\ s \in Step
           /\ s.t.object \in Group => Phase(s) = 5
           /\ s.t.deny => s.t.object \notin Group
           /\ s.t.deny /\ s.as = "write" => Phase(s) <= 2
           /\ s.t.deny /\ s.as = "delete" => Phase(s) = 8
           /\ ~s.t.deny /\ s.t.object \notin Group =>
                  /\ s.as = "write" => Phase(s) \in {6, 7}
                  /\ s.as = "delete" => Phase(s) \in {3, 4}
    <2> SUFFICES ASSUME NEW s \in steps
                 PROVE  /\ Phase(s) \in 1 .. 8 /\ s \in Step
                        /\ s.t.object \in Group => Phase(s) = 5
                        /\ s.t.deny => s.t.object \notin Group
                        /\ s.t.deny /\ s.as = "write" => Phase(s) <= 2
                        /\ s.t.deny /\ s.as = "delete" => Phase(s) = 8
                        /\ ~s.t.deny /\ s.t.object \notin Group =>
                               /\ s.as = "write" => Phase(s) \in {6, 7}
                               /\ s.as = "delete" => Phase(s) \in {3, 4}
      OBVIOUS
    <2>1. s \in Step /\ s.do \in {"write", "delete", "renew"} /\ s.as \in {"write", "delete"}
      BY DEF Step
    <2>2. /\ s.do = "write" => s.as = "write"
          /\ s.do = "delete" => s.as = "delete"
          /\ s.do = "renew" /\ s.t.deny => s.as = "write"
      BY DEF Midst
    <2>3. s.t.deny => s.t.object \notin Group
      BY <2>1, RelationTuplesAssumption DEF Step, Tuple
    <2> QED
      BY <2>1, <2>2, <2>3, PhaseIs
  <1>o. \A s \in steps \ rest, x \in rest : Phase(s) <= Phase(x)
    BY DEF Midst
  <1>1. CASE \E x \in rest : Phase(x) <= 4
    <2>1. \A s \in steps \ rest : Phase(s) <= 4
      BY <1>1, <1>o, <1>p, <1>v
    <2>2. Memberships(M) = Memberships(A)
      <3>1. ASSUME NEW t, t.object \in Group PROVE t \in M <=> t \in A
        <4>1. (t \in M) # (t \in A) => \E s \in steps \ rest : s.t = t
          BY Differs
        <4> QED
          BY <1>p, <2>1, <3>1, <4>1
      <3> QED
        BY <3>1 DEF Memberships
    <2>3. Allows(M) \subseteq Allows(A)
      <3> SUFFICES ASSUME NEW t \in Allows(M), t \notin A PROVE FALSE
        BY DEF Allows
      <3>1. t \in M /\ ~t.deny /\ t.object \notin Group
        BY DEF Allows
      <3>2. PICK s \in steps \ rest : s.t = t /\ s.as = "write"
        BY <3>1, Differs
      <3> QED
        BY <1>p, <2>1, <3>1, <3>2
    <2>4. Denies(A) \subseteq Denies(M)
      <3> SUFFICES ASSUME NEW t \in Denies(A), t \notin M PROVE FALSE
        BY DEF Denies
      <3>1. t \in A /\ t.deny
        BY DEF Denies
      <3>2. PICK s \in steps \ rest : s.t = t /\ s.as = "delete"
        BY <3>1, Differs
      <3> QED
        BY <1>p, <2>1, <3>1, <3>2
    <2> QED
      BY <1>v, <2>2, <2>3, <2>4, GrantsLess
  <1>2. CASE \E s \in steps \ rest : Phase(s) >= 6
    <2>1. \A x \in rest : Phase(x) >= 6
      BY <1>2, <1>o, <1>p, <1>v
    <2>2. Memberships(M) = Memberships(B)
      <3>1. ASSUME NEW t, t.object \in Group PROVE t \in M <=> t \in B
        <4>1. (t \in M) # (t \in B) => \E x \in rest : x.t = t
          BY Differs
        <4> QED
          BY <1>p, <1>v, <2>1, <3>1, <4>1
      <3> QED
        BY <3>1 DEF Memberships
    <2>3. Allows(M) \subseteq Allows(B)
      <3> SUFFICES ASSUME NEW t \in Allows(M), t \notin B PROVE FALSE
        BY DEF Allows
      <3>1. t \in M /\ ~t.deny /\ t.object \notin Group
        BY DEF Allows
      <3>2. PICK x \in rest : x.t = t /\ x.as = "delete"
        BY <3>1, Differs
      <3> QED
        BY <1>p, <1>v, <2>1, <3>1, <3>2
    <2>4. Denies(B) \subseteq Denies(M)
      <3> SUFFICES ASSUME NEW t \in Denies(B), t \notin M PROVE FALSE
        BY DEF Denies
      <3>1. t \in B /\ t.deny
        BY DEF Denies
      <3>2. PICK x \in rest : x.t = t /\ x.as = "write"
        BY <3>1, Differs
      <3> QED
        BY <1>p, <1>v, <2>1, <3>1, <3>2
    <2> QED
      BY <1>v, <2>2, <2>3, <2>4, GrantsLess
  <1>3. CASE (\A x \in rest : Phase(x) >= 5) /\ (\A s \in steps \ rest : Phase(s) <= 5)
    <2>1. ASSUME NEW t, t.deny, t \in A \/ t \in B PROVE t \in M
      <3> SUFFICES ASSUME t \notin M PROVE FALSE
        OBVIOUS
      <3>1. \/ \E s \in steps \ rest : s.t = t /\ s.as = "delete"
            \/ \E x \in rest : x.t = t /\ x.as = "write"
        BY <2>1, Differs
      <3> QED
        BY <1>3, <1>p, <1>v, <2>1, <3>1
    <2>2. ASSUME NEW t \in M, ~t.deny, t.object \notin Group PROVE t \in A /\ t \in B
      <3>1. /\ t \notin A => \E s \in steps \ rest : s.t = t /\ s.as = "write"
            /\ t \notin B => \E x \in rest : x.t = t /\ x.as = "delete"
        BY Differs
      <3> QED
        BY <1>3, <1>p, <1>v, <2>2, <3>1
    <2>3. Denies(A) \cup Denies(B) \subseteq M /\ Allows(M) \subseteq A \cap B
      BY <2>1, <2>2 DEF Denies, Allows
    <2> QED
      BY <2>3, MiddleGrants
  <1> QED
    BY <1>1, <1>2, <1>3, <1>p, <1>v


-----------------------------------------------------------------------------
(* Partitions, and what a destination does not declare.                    *)

\* What bears on the answers of a partition over what it declares.
Slice(r, S, k) == {t \in S : PartOf[t.object] = k /\ ~Undeclared(r, t)}

\* The tuples of a group are of its partition.
Together(S) == \A t \in S : t.user \in Group => PartOf[t.user] = PartOf[t.object]

LEMMA SliceChecks ==
  ASSUME NEW r, NEW S \in SUBSET Tuple, Together(S), NEW u, NEW rel, NEW o,
         o \in Object => r.phase[o] # "undeclared"
  PROVE  SqlCheck(S, u, rel, o) <=> SqlCheck(Slice(r, S, PartOf[o]), u, rel, o)
  <1> DEFINE k == PartOf[o]
             D == Slice(r, S, k)
             ps == Principals(S, u)
             pd == Principals(D, u)
  <1>1. \A t \in S : t.object = o => t \in D
    BY DEF Slice, Undeclared
  <1>2. D \subseteq S /\ pd \subseteq ps
    <2>1. D \subseteq S
      BY DEF Slice
    <2> QED
      BY <2>1, PrincipalsMore
  <1>3. \A t \in S : t.object \in Group /\ PartOf[t.object] = k => t \in D
    BY RelationTuplesAssumption DEF Slice, Undeclared
  <1>4. \A x \in ps : x \in pd \/ (x \in Group /\ PartOf[x] # k)
    <2> DEFINE X == {x \in ps : x \in pd \/ (x \in Group /\ PartOf[x] # k)}
    <2>1. u \in X
      BY PrincipalsAre
    <2>2. ASSUME NEW e \in Memberships(S), e.user \in X PROVE e.object \in X
      <3>1. e \in S /\ e.object \in Group /\ e.object \in ps
        BY <2>2, PrincipalsAre DEF Memberships
      <3>2. CASE PartOf[e.object] = k
        <4>1. e \in Memberships(D)
          BY <1>3, <3>1, <3>2 DEF Memberships
        <4>2. e.user \in pd
          BY <2>2, <3>1, <3>2 DEF Together
        <4>3. e.object \in pd
          BY <4>1, <4>2, PrincipalsAre
        <4> QED
          BY <3>1, <4>3
      <3> QED
        BY <3>1, <3>2
    <2> HIDE DEF X
    <2>3. ps \subseteq X
      BY <2>1, <2>2, PrincipalsAre
    <2> QED
      BY <2>3 DEF X
  <1>5. \A t \in S : PartOf[t.object] = k => (t.user \in ps <=> t.user \in pd)
    BY <1>2, <1>4 DEF Together
  <1> HIDE DEF D, ps, pd
  <1>6. CASE o \in Group
    <2>1. \A t \in S : t \in Memberships(S) /\ t.object = o <=> t \in Memberships(D) /\ t.object = o
      BY <1>1, <1>2 DEF Memberships
    <2>2. (\E t \in Memberships(S) : t.object = o /\ t.user \in ps)
             <=> (\E t \in Memberships(D) : t.object = o /\ t.user \in pd)
      BY <1>2, <1>5, <2>1 DEF Memberships
    <2> QED
      BY <1>6, <2>2 DEF SqlCheck, ps, pd, D
  <1>7. CASE o \notin Group
    <2>1. ASSUME NEW deny PROVE Found(S, u, o, deny) = Found(D, u, o, deny)
      <3>1. \A t : t \in S /\ t.object = o /\ t.user \in ps /\ t.deny = deny
                      <=> t \in D /\ t.object = o /\ t.user \in pd /\ t.deny = deny
        BY <1>1, <1>2, <1>5
      <3>2. {x \in S : x.object = o /\ x.user \in ps /\ x.deny = deny}
               = {x \in D : x.object = o /\ x.user \in pd /\ x.deny = deny}
        BY <3>1
      <3> QED
        BY <3>2 DEF Found, ps, pd
    <2>2. Found(S, u, o, TRUE) = Found(D, u, o, TRUE) /\ Found(S, u, o, FALSE) = Found(D, u, o, FALSE)
      BY <2>1
    <2> QED
      BY <1>7, <2>2 DEF SqlCheck, D
  <1> QED
    BY <1>6, <1>7

\* Without a membership of a group that carries no deny a store grants no more.
LEMMA WithoutGrants ==
  ASSUME NEW S \in SUBSET Tuple, NEW t \in Tuple, t.object \in Group, ~Carries(S \ {t}, t.object)
  PROVE  Grants(S \ {t}) \subseteq Grants(S)
  <1> DEFINE T == S \ {t}
  <1>0. T \in SUBSET Tuple /\ T \subseteq S
    OBVIOUS
  <1>1. ASSUME NEW u, NEW rel, NEW o, SqlCheck(T, u, rel, o) PROVE SqlCheck(S, u, rel, o)
    <2>m. Principals(T, u) \subseteq Principals(S, u)
      BY PrincipalsMore
    <2>1. CASE o \in Group
      <3>1. PICK e \in Memberships(T) : e.object = o /\ e.user \in Principals(T, u)
        BY <1>1, <2>1 DEF SqlCheck
      <3>2. e \in Memberships(S)
        BY DEF Memberships
      <3> QED
        BY <2>1, <2>m, <3>1, <3>2 DEF SqlCheck
    <2>2. CASE o \notin Group
      <3>1. PICK a \in Allows(T) : a.object = o /\ a.rel \in Down[rel] /\ Counts(T, u, a)
        BY <1>0, <1>1, <2>2, CheckIs
      <3>2. ASSUME NEW d \in Denies(S), d.object = a.object, d.rel \in Up[a.rel], d.user \in Principals(S, u)
            PROVE  FALSE
        <4>1. d \in Denies(T)
          BY RelationTuplesAssumption DEF Denies, Tuple
        <4>2. d.user \notin Principals(T, u)
          BY <3>1, <3>2, <4>1 DEF Counts
        <4> DEFINE C == UpFrom(Memberships(T), t.object)
        <4>3. \A x \in Principals(S, u) : x \in Principals(T, u) \/ x \in C
          <5> DEFINE Y == {x \in {u} \cup Group : x \in Principals(T, u) \/ x \in C}
          <5>1. u \in Y
            BY PrincipalsAre
          <5>2. ASSUME NEW e \in Memberships(S), e.user \in Y PROVE e.object \in Y
            <6>1. e.object \in Group
              BY DEF Memberships
            <6>2. CASE e = t
              <7>1. e.object \in C
                BY <6>2, UpFromIs
              <7> QED
                BY <6>1, <7>1
            <6>3. CASE e # t
              <7>1. e \in Memberships(T)
                BY <6>3 DEF Memberships
              <7>2. e.object \in Principals(T, u) \/ e.object \in C
                BY <5>2, <7>1, PrincipalsAre, UpFromIs
              <7> QED
                BY <6>1, <7>2
            <6> QED
              BY <6>2, <6>3
          <5> HIDE DEF Y
          <5>3. Principals(S, u) \subseteq Y
            BY <5>1, <5>2, PrincipalsAre
          <5> QED
            BY <5>3 DEF Y
        <4>4. d.user \in C
          BY <3>2, <4>2, <4>3
        <4>5. Nesting(Memberships(T)) = Nesting(T)
          BY DEF Nesting, Memberships
        <4>6. CarriedDenies(T, t.object) # {}
          BY <4>1, <4>4, <4>5 DEF CarriedDenies, UpFrom
        <4> QED
          BY <1>0, <4>6, CarriedMeans
      <3>3. a \in Allows(S) /\ a.user \in Principals(S, u)
        BY <2>m, <3>1 DEF Counts, Allows
      <3>4. Counts(S, u, a)
        BY <3>2, <3>3 DEF Counts
      <3> QED
        BY <2>2, <3>1, <3>3, <3>4, CheckIs
    <2> QED
      BY <2>1, <2>2
  <1> QED
    BY <1>1 DEF Grants


\* A group that carries a deny has it among its carried denies.
LEMMA CarriedIs ==
  ASSUME NEW V \in SUBSET Tuple, NEW g \in Group, Carries(V, g)
  PROVE  CarriedDenies(V, g) # {}
  <1> DEFINE up == GroupsOf(Nesting(V), g)
  <1>1. \A t \in Nesting(V) : t.object \in Group
    BY DEF Nesting, Memberships
  <1>2. /\ g \in up /\ \A t \in Nesting(V) : t.user \in up => t.object \in up
        /\ up \subseteq {g} \cup Group
    BY <1>1, GroupsAre
  <1>3. up \in SUBSET Group /\ ClosedUp(V, up)
    BY <1>2 DEF ClosedUp
  <1>4. PICK d \in Denies(V) : d.user \in up
    BY <1>2, <1>3 DEF Carries
  <1> QED
    BY <1>4 DEF CarriedDenies

-----------------------------------------------------------------------------
(* The order of the memberships, where it has no cycle.                    *)

\* With no residue each component is of one step.
LEMMA OneStepEach ==
  ASSUME NEW prec \in SUBSET (Step \X Step), IsFiniteSet(prec), Residue(prec) = {}, NEW s
  PROVE  Component(prec, s) = {s}
  <1> DEFINE n == Cardinality(prec)
             rev == {<<p[2], p[1]>> : p \in prec}
             on(z) == Spread(prec, {z}, n)
             back == Spread(rev, {s}, n)
  <1>1. n \in Nat
    BY FS_CardinalityType
  <1>2. Component(prec, s) = on(s) \cap back
    BY DEF Component
  <1>3. \A z : z \in on(z) /\ \A p \in prec : p[1] \in on(z) => p[2] \in on(z)
    <2> SUFFICES ASSUME NEW z PROVE z \in on(z) /\ \A p \in prec : p[1] \in on(z) => p[2] \in on(z)
      OBVIOUS
    <2> DEFINE G == {p[2] : p \in prec}
               f == [p \in prec |-> p[2]]
    <2>1. f \in Surjection(prec, G)
      BY DEF Surjection
    <2> HIDE DEF f
    <2>2. IsFiniteSet(G) /\ Cardinality(G) <= n
      BY <2>1, FS_Surjection
    <2>3. \A p \in prec : p[2] \in G
      OBVIOUS
    <2> HIDE DEF G, n
    <2>4. \A p \in prec : p[1] \in Spread(prec, {z}, n) /\ p[2] \in G => p[2] \in Spread(prec, {z}, n)
      BY <1>1, <2>2, <2>3, SpreadCloses
    <2>5. {z} \subseteq Spread(prec, {z}, n)
      BY <1>1, SpreadFrom
    <2> QED
      BY <2>3, <2>4, <2>5
  <1>4. s \in back /\ \A p \in prec : p[2] \in back => p[1] \in back
    <2> DEFINE G == {p[1] : p \in prec}
               f == [p \in prec |-> p[1]]
    <2>1. f \in Surjection(prec, G)
      BY DEF Surjection
    <2> HIDE DEF f
    <2>2. IsFiniteSet(G) /\ Cardinality(G) <= n
      BY <2>1, FS_Surjection
    <2>3. \A p \in prec : p[1] \in G /\ <<p[2], p[1]>> \in rev
      OBVIOUS
    <2>4. \A a \in rev : a[2] \in G
      OBVIOUS
    <2> HIDE DEF G, n, rev
    <2>5. \A a \in rev : a[1] \in Spread(rev, {s}, n) /\ a[2] \in G => a[2] \in Spread(rev, {s}, n)
      BY <1>1, <2>2, <2>4, SpreadCloses
    <2>6. {s} \subseteq Spread(rev, {s}, n)
      BY <1>1, SpreadFrom
    <2>7. ASSUME NEW p \in prec, p[2] \in Spread(rev, {s}, n) PROVE p[1] \in Spread(rev, {s}, n)
      <3> DEFINE a == <<p[2], p[1]>>
      <3>1. a \in rev /\ a[1] = p[2] /\ a[2] = p[1]
        BY <2>3
      <3> QED
        BY <2>4, <2>5, <2>7, <3>1
    <2> QED
      BY <2>6, <2>7
  <1>5. ASSUME NEW y \in Component(prec, s), y # s PROVE FALSE
    <2>1. y \in on(s) /\ y \in back
      BY <1>2, <1>5
    <2> DEFINE By(z) == \E p \in prec : p[1] = s /\ p[2] # s /\ z \in on(p[2])
               X == {z \in on(s) : z = s \/ By(z)}
    <2>2. Closed(prec, X) /\ s \in X
      <3>1. ASSUME NEW a \in prec, a[1] \in X PROVE a[2] \in X
        <4>1. a[2] \in on(s)
          BY <1>3, <3>1
        <4>2. CASE a[1] = s
          <5>1. a[2] = s \/ By(a[2])
            BY <1>3, <4>2
          <5> QED
            BY <4>1, <5>1
        <4>3. CASE By(a[1])
          <5>1. By(a[2])
            BY <1>3, <4>3
          <5> QED
            BY <4>1, <5>1
        <4> QED
          BY <3>1, <4>2, <4>3
      <3>2. s \in X
        BY <1>3
      <3> QED
        BY <3>1, <3>2 DEF Closed
    <2> HIDE DEF X, n
    <2>3. on(s) \subseteq X
      BY <1>1, <2>2, SpreadLeast
    <2>4. By(y)
      BY <1>5, <2>1, <2>3 DEF X
    <2>5. PICK p \in prec : p[1] = s /\ p[2] # s /\ y \in on(p[2])
      BY <2>4
    <2>6. p[2] \in back
      <3> SUFFICES ASSUME p[2] \notin back PROVE FALSE
        OBVIOUS
      <3> DEFINE Out == on(p[2]) \ back
      <3>1. Closed(prec, Out)
        BY <1>3, <1>4 DEF Closed
      <3>2. {p[2]} \subseteq Out
        BY <1>3
      <3> HIDE DEF Out
      <3>3. on(p[2]) \subseteq Out
        BY <1>1, <3>1, <3>2, SpreadLeast
      <3> QED
        BY <2>1, <2>5, <3>3 DEF Out
    <2>7. p[2] \in Component(prec, p[1])
      BY <1>2, <1>3, <2>5, <2>6
    <2>8. p[1] \in Residue(prec)
      BY <2>5, <2>7 DEF Residue
    <2> QED
      BY <2>8
  <1>6. s \in Component(prec, s)
    BY <1>2, <1>3, <1>4
  <1> QED
    BY <1>5, <1>6

\* The next membership is one that no other left goes before.
LEMMA NextIsReady ==
  ASSUME NEW prec \in SUBSET (Step \X Step), IsFiniteSet(prec), Residue(prec) = {},
         \A p \in prec : p[1] # p[2], NEW V, NEW rest, NEW s \in NextMembership(V, prec, rest)
  PROVE  s \in rest /\ \A x \in rest : <<x, s>> \notin prec
  <1>1. \A x : Component(prec, x) = {x}
    BY OneStepEach
  <1> DEFINE edges == Memberships(V)
             open  == {x \in rest : Component(prec, x) \ rest # {}}
             ready == {x \in rest : \A p \in prec : p[2] \in Component(prec, x) /\ p[1] \in rest
                                       => p[1] \in Component(prec, x)}
             first == Foremost(edges, IF open # {} THEN open ELSE ready)
             part(x) == Component(prec, x) \cap rest
             free(x) == {y \in part(x) : ~\E p \in prec : p[2] = y /\ p[1] \in part(x)}
             fore(x) == Foremost(edges, IF free(x) # {} THEN free(x) ELSE part(x))
  <1>2. NextMembership(V, prec, rest) = UNION {fore(x) : x \in first}
    BY DEF NextMembership
  <1>3. open = {}
    BY <1>1
  <1>4. PICK x \in first : s \in fore(x)
    <2>1. s \in UNION {fore(x) : x \in first}
      BY <1>2
    <2> HIDE DEF first, fore
    <2> QED
      BY <2>1
  <1>5. \A S : Foremost(edges, S) \subseteq S
    BY DEF Foremost
  <1>6. x \in ready
    BY <1>3, <1>5
  <1>7. s \in part(x)
    <2>1. s \in IF free(x) # {} THEN free(x) ELSE part(x)
      BY <1>4, <1>5
    <2>2. free(x) \subseteq part(x)
      OBVIOUS
    <2> HIDE DEF free, part, first
    <2> QED
      BY <2>1, <2>2
  <1>8. s = x
    BY <1>1, <1>7
  <1>9. ASSUME NEW y \in rest, <<y, s>> \in prec PROVE FALSE
    <2> DEFINE p == <<y, s>>
    <2>1. p \in prec /\ p[1] = y /\ p[2] = s /\ y # s
      BY <1>9
    <2>2. y \in Component(prec, x)
      BY <1>1, <1>6, <1>8, <2>1
    <2> QED
      BY <1>1, <1>8, <2>1, <2>2
  <1> QED
    BY <1>7, <1>9


-----------------------------------------------------------------------------
(* What a pass plans.                                                      *)

\* A request and a store over the same tuples in play.
Stores(r, st) ==
    /\ DOMAIN st \subseteq Tuple /\ IsFiniteSet(DOMAIN st) /\ Together(DOMAIN st)
    /\ st \in [DOMAIN st -> Expiry \cup {Absent}]
    /\ r.src \in [DOMAIN st -> Expiry \cup {Absent}]
    /\ r.atomic \in BOOLEAN /\ r.prune \in BOOLEAN /\ r.knows \in BOOLEAN
    /\ r.phase \in [Object -> Phases]

\* What a step is to leave.
Result(r, s) == IF s.do = "delete" THEN Absent ELSE IF s.t.deny THEN Forever ELSE r.src[s.t]

LEMMA Lives ==
  /\ \A n \in Nat : ~Live(Absent, n) /\ Live(Forever, n)
  /\ \A e \in Expiry \cup {Absent}, n \in Nat, m \in Nat : n <= m /\ Live(e, m) => Live(e, n)
  /\ Forever # Absent /\ Forever \in Expiry /\ Absent \notin Expiry
  BY DEF Live, Absent, Forever, Expiry

\* The parts of a plan.
LEMMA PartsAre ==
  ASSUME NEW r, NEW st, Stores(r, st), NEW now \in Nat, NEW k \in Partition
  PROVE  /\ \A t : t \in Usable(r, now, k) <=>
                t \in DOMAIN st /\ PartOf[t.object] = k /\ Live(r.src[t], now) /\ ~(r.knows /\ Undeclared(r, t))
         /\ \A t : t \in Rows(r, st, k) <=>
                t \in DOMAIN st /\ PartOf[t.object] = k /\ st[t] # Absent /\ ~(r.knows /\ Undeclared(r, t))
         /\ \A t : t \in Present(r, st, now, k) <=>
                t \in DOMAIN st /\ PartOf[t.object] = k /\ Live(st[t], now) /\ ~(r.knows /\ Undeclared(r, t))
         /\ Writes(r, st, now, k) \subseteq Usable(r, now, k) \ Present(r, st, now, k)
         /\ \A t \in Updates(r, st, now, k) :
                /\ t \in Usable(r, now, k) /\ t \in Present(r, st, now, k)
                /\ st[t] # r.src[t] /\ ~(t.deny /\ st[t] = Forever)
         /\ Deletes(r, st, now, k) = Rows(r, st, k) \ Usable(r, now, k)
         /\ ~Refused(r, st, now, k) =>
                /\ Writes(r, st, now, k) = Usable(r, now, k) \ Present(r, st, now, k)
                /\ \A t \in Usable(r, now, k) \cap Present(r, st, now, k) :
                       st[t] # r.src[t] /\ ~(t.deny /\ st[t] = Forever) => t \in Updates(r, st, now, k)
  <1>1. \A t \in DOMAIN st : (Live(st[t], now) => st[t] # Absent) /\ (Live(r.src[t], now) => r.src[t] # Absent)
    BY Lives
  <1>2. DOMAIN r.src = DOMAIN st
    BY DEF Stores
  <1>3. \A t : t \in Usable(r, now, k) <=>
                t \in DOMAIN st /\ PartOf[t.object] = k /\ Live(r.src[t], now) /\ ~(r.knows /\ Undeclared(r, t))
    BY <1>1, <1>2 DEF Usable, Of, LiveIn
  <1>4. \A t : t \in Rows(r, st, k) <=>
                t \in DOMAIN st /\ PartOf[t.object] = k /\ st[t] # Absent /\ ~(r.knows /\ Undeclared(r, t))
    BY DEF Rows, Leftover, Of
  <1>5. \A t : t \in Present(r, st, now, k) <=>
                t \in DOMAIN st /\ PartOf[t.object] = k /\ Live(st[t], now) /\ ~(r.knows /\ Undeclared(r, t))
    BY <1>1, <1>4 DEF Present
  <1>6. ~Refused(r, st, now, k) => Pending(r, st, now, k) = Usable(r, now, k)
    BY DEF Refused, Pending
  <1>7. Pending(r, st, now, k) \subseteq Usable(r, now, k)
    BY DEF Pending
  <1> QED
    BY <1>3, <1>4, <1>5, <1>6, <1>7 DEF Writes, Updates, Deletes

LEMMA StepsAre ==
  ASSUME NEW r, NEW st, Stores(r, st), NEW now \in Nat, NEW k \in Partition
  PROVE  /\ \A s \in Steps(r, st, now, k) :
                /\ s \in Step /\ s.t \in DOMAIN st /\ PartOf[s.t.object] = k
                /\ ~(r.knows /\ Undeclared(r, s.t))
                /\ s.do = "write" => s.as = "write" /\ s.t \in Writes(r, st, now, k)
                /\ s.do = "delete" => /\ s.as = "delete" /\ s.t \in Deletes(r, st, now, k)
                                      /\ r.prune /\ Live(st[s.t], now)
                /\ s.do = "renew" =>
                       /\ s.t \in Updates(r, st, now, k)
                       /\ s.as = IF s.t.deny \/ Extends(r, st, s.t) THEN "write" ELSE "delete"
         /\ \A t \in Writes(r, st, now, k) : \E s \in Steps(r, st, now, k) : s.t = t /\ s.do = "write"
         /\ \A t \in Updates(r, st, now, k) : \E s \in Steps(r, st, now, k) : s.t = t /\ s.do = "renew"
         /\ \A t \in Deletes(r, st, now, k) : r.prune /\ Live(st[t], now) =>
                \E s \in Steps(r, st, now, k) : s.t = t /\ s.do = "delete"
  <1> DEFINE W(t) == [do |-> "write", as |-> "write", t |-> t]
             D(t) == [do |-> "delete", as |-> "delete", t |-> t]
             R(t) == [do |-> "renew", t |-> t,
                      as |-> IF t.deny \/ Extends(r, st, t) THEN "write" ELSE "delete"]
             gone == IF r.prune THEN {t \in Deletes(r, st, now, k) : Live(st[t], now)} ELSE {}
             ws == Writes(r, st, now, k)
             us == Updates(r, st, now, k)
             steps == Steps(r, st, now, k)
  <1>1. steps = {W(t) : t \in ws} \cup {D(t) : t \in gone} \cup {R(t) : t \in us}
    BY DEF Steps
  <1>2. \A t \in ws \cup us \cup gone : t \in DOMAIN st /\ t \in Tuple /\ PartOf[t.object] = k
                                        /\ ~(r.knows /\ Undeclared(r, t))
    BY PartsAre DEF Stores
  <1>3. \A t \in gone : t \in Deletes(r, st, now, k) /\ r.prune /\ Live(st[t], now)
    OBVIOUS
  <1>4. \A t \in Deletes(r, st, now, k) : r.prune /\ Live(st[t], now) => t \in gone
    OBVIOUS
  <1>5. \A t : /\ W(t).do = "write" /\ W(t).as = "write" /\ W(t).t = t
               /\ D(t).do = "delete" /\ D(t).as = "delete" /\ D(t).t = t
               /\ R(t).do = "renew" /\ R(t).t = t
               /\ R(t).as = IF t.deny \/ Extends(r, st, t) THEN "write" ELSE "delete"
    OBVIOUS
  <1>6. \A t \in Tuple : W(t) \in Step /\ D(t) \in Step /\ R(t) \in Step
    BY DEF Step
  <1>7. \A s \in steps : \/ \E t \in ws : s = W(t)
                         \/ \E t \in gone : s = D(t)
                         \/ \E t \in us : s = R(t)
    BY <1>1
  <1>8. /\ \A t \in ws : W(t) \in steps
        /\ \A t \in gone : D(t) \in steps
        /\ \A t \in us : R(t) \in steps
    BY <1>1
  <1> HIDE DEF W, D, R, ws, us, gone, steps
  <1>9. \A s \in steps :
                /\ s \in Step /\ s.t \in DOMAIN st /\ PartOf[s.t.object] = k
                /\ ~(r.knows /\ Undeclared(r, s.t))
                /\ s.do = "write" => s.as = "write" /\ s.t \in ws
                /\ s.do = "delete" => s.as = "delete" /\ s.t \in gone
                /\ s.do = "renew" =>
                       /\ s.t \in us
                       /\ s.as = IF s.t.deny \/ Extends(r, st, s.t) THEN "write" ELSE "delete"
    <2> SUFFICES ASSUME NEW s \in steps
                 PROVE  /\ s \in Step /\ s.t \in DOMAIN st /\ PartOf[s.t.object] = k
                        /\ ~(r.knows /\ Undeclared(r, s.t))
                        /\ s.do = "write" => s.as = "write" /\ s.t \in ws
                        /\ s.do = "delete" => s.as = "delete" /\ s.t \in gone
                        /\ s.do = "renew" =>
                               /\ s.t \in us
                               /\ s.as = IF s.t.deny \/ Extends(r, st, s.t) THEN "write" ELSE "delete"
      OBVIOUS
    <2>1. CASE \E t \in ws : s = W(t)
      BY <1>2, <1>5, <1>6, <2>1
    <2>2. CASE \E t \in gone : s = D(t)
      BY <1>2, <1>5, <1>6, <2>2
    <2>3. CASE \E t \in us : s = R(t)
      BY <1>2, <1>5, <1>6, <2>3
    <2> QED
      BY <1>7, <2>1, <2>2, <2>3
  <1>10. /\ \A t \in ws : \E s \in steps : s.t = t /\ s.do = "write"
         /\ \A t \in us : \E s \in steps : s.t = t /\ s.do = "renew"
         /\ \A t \in gone : \E s \in steps : s.t = t /\ s.do = "delete"
    BY <1>5, <1>8
  <1> QED
    BY <1>3, <1>4, <1>9, <1>10 DEF ws, us, steps

\* No tuple has two steps.
LEMMA StepsApart ==
  ASSUME NEW r, NEW st, Stores(r, st), NEW now \in Nat, NEW k \in Partition, NEW j \in Partition,
         NEW s \in Steps(r, st, now, k), NEW x \in Steps(r, st, now, j), s.t = x.t
  PROVE  s = x
  <1>1. k = j
    BY StepsAre
  <1>2. /\ s \in Step /\ x \in Step
        /\ s.do = "write" => s.as = "write" /\ s.t \in Writes(r, st, now, k)
        /\ s.do = "delete" => s.as = "delete" /\ s.t \in Deletes(r, st, now, k)
        /\ s.do = "renew" => /\ s.t \in Updates(r, st, now, k)
                             /\ s.as = IF s.t.deny \/ Extends(r, st, s.t) THEN "write" ELSE "delete"
        /\ x.do = "write" => x.as = "write" /\ s.t \in Writes(r, st, now, k)
        /\ x.do = "delete" => x.as = "delete" /\ s.t \in Deletes(r, st, now, k)
        /\ x.do = "renew" => /\ s.t \in Updates(r, st, now, k)
                             /\ x.as = IF s.t.deny \/ Extends(r, st, s.t) THEN "write" ELSE "delete"
    BY <1>1, StepsAre
  <1>3. /\ s.t \in Writes(r, st, now, k) => s.t \notin Updates(r, st, now, k) /\ s.t \notin Deletes(r, st, now, k)
        /\ s.t \in Updates(r, st, now, k) => s.t \notin Deletes(r, st, now, k)
    BY PartsAre
  <1>4. s.do \in {"write", "delete", "renew"} /\ x.do \in {"write", "delete", "renew"}
    BY <1>2 DEF Step
  <1>5. s.do = x.do /\ s.as = x.as
    BY <1>2, <1>3, <1>4
  <1> QED
    BY <1>2, <1>5 DEF Step

\* What a step does to who is alive.
LEMMA StepMoves ==
  ASSUME NEW r, NEW st, Stores(r, st), NEW now \in Nat, NEW k \in Partition,
         NEW s \in Steps(r, st, now, k), NEW n \in Nat, now <= n
  PROVE  /\ s.as = "write" => (Live(st[s.t], n) => Live(Result(r, s), n))
         /\ s.as = "delete" => (Live(Result(r, s), n) => Live(st[s.t], n))
         /\ s.do = "write" => s.as = "write" /\ ~Live(st[s.t], n)
         /\ s.do = "delete" => s.as = "delete" /\ ~Live(Result(r, s), n)
         /\ s.do = "renew" /\ s.t.deny => s.as = "write"
  <1> DEFINE t == s.t
  <1>1. /\ s \in Step /\ t \in DOMAIN st /\ PartOf[t.object] = k /\ ~(r.knows /\ Undeclared(r, t))
        /\ s.do = "write" => s.as = "write" /\ t \in Writes(r, st, now, k)
        /\ s.do = "delete" => s.as = "delete"
        /\ s.do = "renew" => t \in Updates(r, st, now, k)
                             /\ s.as = IF t.deny \/ Extends(r, st, t) THEN "write" ELSE "delete"
    BY StepsAre
  <1>2. s.do \in {"write", "delete", "renew"} /\ st[t] \in Expiry \cup {Absent} /\ r.src[t] \in Expiry \cup {Absent}
    BY <1>1 DEF Step, Stores
  <1>3. CASE s.do = "write"
    <2>1. ~Live(st[t], now)
      BY <1>1, <1>3, PartsAre
    <2>2. ~Live(st[t], n)
      BY <1>2, <2>1, Lives
    <2> QED
      BY <1>1, <1>3, <2>2
  <1>4. CASE s.do = "delete"
    <2>1. ~Live(Result(r, s), n)
      BY <1>4, Lives DEF Result
    <2> QED
      BY <1>1, <1>4, <2>1
  <1>5. CASE s.do = "renew" /\ t.deny
    <2>1. Live(Result(r, s), n)
      BY <1>5, Lives DEF Result
    <2> QED
      BY <1>1, <1>5, <2>1
  <1>6. CASE s.do = "renew" /\ ~t.deny
    <2>1. Result(r, s) = r.src[t]
      BY <1>6 DEF Result
    <2>2. Live(st[t], now) /\ Live(r.src[t], now)
      BY <1>1, <1>6, PartsAre
    <2>3. st[t] \in Expiry /\ r.src[t] \in Expiry
      BY <1>2, <2>2, Lives
    <2>4. CASE Extends(r, st, t)
      <3>1. Live(st[t], n) => Live(r.src[t], n)
        BY <2>3, <2>4 DEF Extends, Live, Expiry, Forever
      <3> QED
        BY <1>1, <1>6, <2>1, <2>4, <3>1
    <2>5. CASE ~Extends(r, st, t)
      <3>1. Live(r.src[t], n) => Live(st[t], n)
        BY <2>3, <2>5 DEF Extends, Live, Expiry, Forever
      <3> QED
        BY <1>1, <1>6, <2>1, <2>5, <3>1
    <2> QED
      BY <2>4, <2>5
  <1> QED
    BY <1>2, <1>3, <1>4, <1>5, <1>6


\* What the pass is to leave, tuple by tuple.
LEMMA OutcomeIs ==
  ASSUME NEW r, NEW st, Stores(r, st), NEW now \in Nat, NEW t \in DOMAIN st, NEW k, k = PartOf[t.object]
  PROVE  /\ Outcome(r, st, now)[t] \in Expiry \cup {Absent}
         /\ Refused(r, st, now, k) \/ Undeclared(r, t) => Outcome(r, st, now)[t] = st[t]
         /\ ~Refused(r, st, now, k) /\ ~Undeclared(r, t) =>
                /\ \A s \in Steps(r, st, now, k) : s.t = t => Outcome(r, st, now)[t] = Result(r, s)
                /\ (\A s \in Steps(r, st, now, k) : s.t # t) =>
                       Outcome(r, st, now)[t] = IF t \in Expired(r, st, now, k) THEN Absent ELSE st[t]
  <1> DEFINE o == Outcome(r, st, now)
             ws == UNION {Writes(r, st, now, j) : j \in Partition}
             us == UNION {Updates(r, st, now, j) : j \in Partition}
             ds == UNION {Deletes(r, st, now, j) : j \in Partition}
             refused == {j \in Partition : Refused(r, st, now, j)}
             gone == IF r.prune THEN ds ELSE {}
  <1>1. o[t] = IF PartOf[t.object] \in refused \/ Undeclared(r, t) THEN st[t]
               ELSE IF t \in ws \cup us THEN IF t.deny THEN Forever ELSE r.src[t]
               ELSE IF t \in gone THEN Absent ELSE st[t]
    BY DEF Outcome
  <1>2. k \in Partition
    BY RelationTuplesAssumption, RelationPlanAssumption DEF Stores, Tuple
  <1>3. /\ t \in ws <=> t \in Writes(r, st, now, k)
        /\ t \in us <=> t \in Updates(r, st, now, k)
        /\ t \in ds <=> t \in Deletes(r, st, now, k)
    <2>1. ASSUME NEW j \in Partition,
                 t \in Writes(r, st, now, j) \/ t \in Updates(r, st, now, j) \/ t \in Deletes(r, st, now, j)
          PROVE  j = k
      BY <2>1, PartsAre
    <2> QED
      BY <1>2, <2>1
  <1>4. st[t] \in Expiry \cup {Absent} /\ r.src[t] \in Expiry \cup {Absent} /\ Forever \in Expiry
    BY DEF Stores, Expiry, Forever
  <1> HIDE DEF o, ws, us, ds
  <1>5. o[t] \in Expiry \cup {Absent}
    BY <1>1, <1>4
  <1>6. Refused(r, st, now, k) \/ Undeclared(r, t) => o[t] = st[t]
    BY <1>1, <1>2
  <1>7. ASSUME ~Refused(r, st, now, k), ~Undeclared(r, t), NEW s \in Steps(r, st, now, k), s.t = t
        PROVE  o[t] = Result(r, s)
    <2>0. /\ s \in Step
          /\ s.do = "write" => s.t \in Writes(r, st, now, k)
          /\ s.do = "delete" => s.t \in Deletes(r, st, now, k) /\ r.prune
          /\ s.do = "renew" => s.t \in Updates(r, st, now, k)
      BY <1>2, StepsAre
    <2>1. /\ s.do \in {"write", "delete", "renew"}
          /\ s.do = "write" => t \in ws
          /\ s.do = "delete" => t \in ds /\ r.prune
          /\ s.do = "renew" => t \in us
      BY <1>3, <1>7, <2>0 DEF Step
    <2>2. s.do = "delete" => t \notin ws \cup us
      BY <1>2, <1>3, <2>1, PartsAre
    <2> QED
      BY <1>1, <1>7, <2>1, <2>2 DEF Result
  <1>8. ASSUME ~Refused(r, st, now, k), ~Undeclared(r, t), \A s \in Steps(r, st, now, k) : s.t # t
        PROVE  o[t] = IF t \in Expired(r, st, now, k) THEN Absent ELSE st[t]
    <2>1. t \notin ws \cup us
      BY <1>2, <1>3, <1>8, StepsAre
    <2>2. t \in ds /\ r.prune => ~Live(st[t], now)
      BY <1>2, <1>3, <1>8, StepsAre
    <2>3. t \in Expired(r, st, now, k) <=> t \in ds /\ r.prune /\ ~Live(st[t], now)
      BY <1>3 DEF Expired
    <2> QED
      BY <1>1, <1>2, <1>8, <2>1, <2>2, <2>3
  <1> QED
    BY <1>5, <1>6, <1>7, <1>8 DEF o

-----------------------------------------------------------------------------
(* A pass under way.                                                       *)

\* The pass is refused.
Refuses(r, st, now) == \E j \in Partition : MassDelete(r, st, now, j) \/ DenyRefused(r, st, now, j)

\* Neither the pass nor the partition is refused.
Goes(r, st, now, k) ==
    /\ ~Refuses(r, st, now) /\ ~Refused(r, st, now, k)

\* The steps and the expired rows that a pass began with.
Plan(r, st, now, k)  == IF Goes(r, st, now, k) THEN Steps(r, st, now, k) ELSE {}
Stale(r, st, now, k) == IF Goes(r, st, now, k) THEN Expired(r, st, now, k) ELSE {}

\* What was done came before what is left.
InOrder(p, steps, rest) ==
    \A s \in steps \ rest, x \in rest :
        Phase(s) <= Phase(x) /\ (~p.cyclic => <<x, s>> \notin p.prec)

\* What the pass remembers of its beginning.
Begun(r, st, now, context, prec, may, n) ==
    /\ Stores(r, st) /\ now \in 0 .. n
    /\ context = [k \in Partition |-> Context(r, st, now, k)]
    /\ prec = UNION {Precedences(Plan(r, st, now, k), context[k], r.knows) : k \in Partition}
    /\ may = [m \in now .. MaxClock |-> UNION {Grants(LiveIn(d, m)) : d \in {st, Outcome(r, st, now)}}]

Recorded(r, p, n) ==
    /\ Begun(r, p.start, p.now, p.context, p.prec, p.may, n)
    /\ (p.pc = "refused") <=> Refuses(r, p.start, p.now)
    /\ p.cyclic <=> Residue(p.prec) # {}

\* Between the two writes of the renewal of s: it is of what allows, and if it is of a
\* membership that was alive its group carries no deny.
Gap(r, p, d, n, s) ==
    /\ s.do # "delete" /\ ~s.t.deny /\ ~Undeclared(r, s.t) /\ d[s.t] = Absent
    /\ s.t.object \in Group /\ Live(p.start[s.t], n) => ~Carries(LiveIn(d, n), s.t.object)

\* The store is where the steps that are done, and the one that is half done, have led it.
Halfway(r, p, d, n, gap) ==
    LET plan(k) == Plan(r, p.start, p.now, k)
    IN /\ DOMAIN d = DOMAIN p.start
       /\ p.pc = "put" => p.mid = {s.t : s \in gap}
       /\ p.pc \notin {"put", "dead"} => gap = {}
       /\ p.pc = "done" => \A k \in Partition : p.todo[k] = {} /\ p.old[k] = {}
       /\ \A s \in gap, x \in gap : s = x
       /\ \A s \in gap : Gap(r, p, d, n, s) /\ \E k \in Partition : s \in plan(k) \ p.todo[k]
       /\ \A k \in Partition :
              /\ p.todo[k] \subseteq plan(k) /\ p.old[k] \subseteq Stale(r, p.start, p.now, k)
              /\ InOrder(p, plan(k), p.todo[k])
              /\ InOrder(p, plan(k), p.todo[k] \cup (gap \cap plan(k)))
              /\ \A s \in p.todo[k] : d[s.t] = p.start[s.t]
              /\ \A s \in plan(k) \ (p.todo[k] \cup gap) : Undeclared(r, s.t) \/ d[s.t] = Result(r, s)
              /\ \A t \in DOMAIN d : PartOf[t.object] = k /\ (\A s \in plan(k) : s.t # t) =>
                     d[t] = IF t \in Stale(r, p.start, p.now, k) \ p.old[k] /\ ~Undeclared(r, t)
                            THEN Absent ELSE p.start[t]
       /\ \A t \in DOMAIN d : Undeclared(r, t) => d[t] = p.start[t]

PassInv(r, p, d, n) ==
    p.pc # "idle" /\ ~p.raced => Recorded(r, p, n) /\ \E gap : Halfway(r, p, d, n, gap)

\* The store of a pass under way, with the tuple that it is renewing as it was.
Reached(p, d, n, gap) == LiveIn(d, n) \cup {s.t : s \in {x \in gap : Live(p.start[x.t], n)}}

LEMMA LiveInIs ==
  ASSUME NEW d, NEW n \in Nat, NEW t
  PROVE  t \in LiveIn(d, n) <=> t \in DOMAIN d /\ Live(d[t], n)
  BY Lives DEF LiveIn

\* The ends and the middle of a pass in a partition that it brings up to date.
Amid(r, p, n, k, A, B, M, steps, rest) ==
    /\ \A t : t \in A <=> t \in DOMAIN p.start /\ PartOf[t.object] = k /\ ~Undeclared(r, t)
                          /\ Live(p.start[t], n)
    /\ \A t : t \in B <=> t \in DOMAIN p.start /\ PartOf[t.object] = k /\ ~Undeclared(r, t)
                          /\ Live(Outcome(r, p.start, p.now)[t], n)
    /\ M \subseteq DOMAIN p.start
    /\ \A s \in steps : s.t \in B <=> ~Undeclared(r, s.t) /\ Live(Result(r, s), n)
    /\ rest \subseteq steps
    /\ \A s \in rest : s.t \in M <=> s.t \in A
    /\ \A s \in steps \ rest : s.t \in M <=> s.t \in B
    /\ \A t \in DOMAIN p.start : PartOf[t.object] = k /\ (\A s \in steps : s.t # t) =>
           (t \in A <=> t \in M) /\ (t \in B <=> t \in M)

LEMMA HalfwayIs ==
  ASSUME NEW r, NEW p, NEW d, NEW n \in Nat, Recorded(r, p, n), NEW gap, Halfway(r, p, d, n, gap),
         NEW k \in Partition, Goes(r, p.start, p.now, k),
         NEW A, A = Slice(r, LiveIn(p.start, n), k),
         NEW B, B = Slice(r, LiveIn(Outcome(r, p.start, p.now), n), k),
         NEW M, M = Slice(r, Reached(p, d, n, gap), k),
         NEW steps, steps = Steps(r, p.start, p.now, k),
         NEW rest, rest = p.todo[k] \cup (gap \cap steps)
  PROVE  Amid(r, p, n, k, A, B, M, steps, rest)
  <1> DEFINE st == p.start
             now == p.now
             o == Outcome(r, st, now)
             Mine(t) == t \in DOMAIN st /\ PartOf[t.object] = k /\ ~Undeclared(r, t)
             Held(t) == \E s \in gap : s.t = t /\ Live(st[s.t], n)
  <1>1. Stores(r, st) /\ now \in Nat /\ now <= n /\ DOMAIN d = DOMAIN st /\ DOMAIN o = DOMAIN st
    BY DEF Recorded, Begun, Halfway, Outcome
  <1>2. /\ Plan(r, st, now, k) = steps /\ Stale(r, st, now, k) = Expired(r, st, now, k)
        /\ ~Refused(r, st, now, k)
    BY DEF Plan, Stale, Goes
  <1>3. \A s \in gap : s.t \in DOMAIN st
    <2>1. ASSUME NEW s \in gap PROVE s.t \in DOMAIN st
      <3>1. PICK j \in Partition : s \in Plan(r, st, now, j)
        BY DEF Halfway
      <3>2. s \in Steps(r, st, now, j)
        BY <3>1 DEF Plan
      <3> QED
        BY <1>1, <3>2, StepsAre
    <2> QED
      BY <2>1
  <1>4. \A s \in steps : s.t \in DOMAIN st /\ PartOf[s.t.object] = k
    BY <1>1, StepsAre
  <1>5. \A t : t \in A <=> Mine(t) /\ Live(st[t], n)
    BY LiveInIs DEF Slice
  <1>6. \A t : t \in B <=> Mine(t) /\ Live(o[t], n)
    BY <1>1, LiveInIs DEF Slice
  <1>7. \A t : t \in M <=> Mine(t) /\ (Live(d[t], n) \/ Held(t))
    <2>1. \A t : t \in Reached(p, d, n, gap) <=> t \in DOMAIN st /\ (Live(d[t], n) \/ Held(t))
      <3>1. \A t : t \in LiveIn(d, n) <=> t \in DOMAIN st /\ Live(d[t], n)
        BY <1>1, LiveInIs
      <3>2. \A t : t \in {s.t : s \in {x \in gap : Live(p.start[x.t], n)}} <=> Held(t)
        OBVIOUS
      <3> QED
        BY <1>3, <3>1, <3>2 DEF Reached
    <2> QED
      BY <2>1 DEF Slice
  <1>8. \A s \in steps : s.t \in B <=> ~Undeclared(r, s.t) /\ Live(Result(r, s), n)
    <2>1. ASSUME NEW s \in steps PROVE s.t \in B <=> ~Undeclared(r, s.t) /\ Live(Result(r, s), n)
      <3>1. ~Undeclared(r, s.t) => o[s.t] = Result(r, s)
        BY <1>1, <1>2, <1>4, OutcomeIs
      <3> QED
        BY <1>4, <1>6, <3>1
    <2> QED
      BY <2>1
  <1>9. rest \subseteq steps
    BY <1>2 DEF Halfway
  <1>10. \A s \in gap, x \in steps : s.t = x.t => s = x
    <2>1. ASSUME NEW s \in gap, NEW x \in steps, s.t = x.t PROVE s = x
      <3>1. PICK j \in Partition : s \in Plan(r, st, now, j)
        BY DEF Halfway
      <3>2. s \in Steps(r, st, now, j)
        BY <3>1 DEF Plan
      <3> QED
        BY <1>1, <2>1, <3>2, StepsApart
    <2> QED
      BY <2>1
  <1>11. ASSUME NEW s \in rest PROVE s.t \in M <=> s.t \in A
    <2>1. CASE s \in gap
      <3>1. d[s.t] = Absent
        BY <2>1 DEF Halfway, Gap
      <3>2. ~Live(d[s.t], n)
        BY <3>1, Lives
      <3>3. Held(s.t) <=> Live(st[s.t], n)
        BY <2>1
      <3> QED
        BY <1>5, <1>7, <3>2, <3>3
    <2>2. CASE s \notin gap
      <3>1. s \in p.todo[k]
        BY <2>2
      <3>2. d[s.t] = st[s.t]
        BY <3>1 DEF Halfway
      <3>3. ~Held(s.t)
        BY <1>9, <1>10, <2>2
      <3> QED
        BY <1>5, <1>7, <3>2, <3>3
    <2> QED
      BY <2>1, <2>2
  <1>12. ASSUME NEW s \in steps \ rest PROVE s.t \in M <=> s.t \in B
    <2>1. s \in Plan(r, st, now, k) \ (p.todo[k] \cup gap)
      BY <1>2, <1>12
    <2>2. Undeclared(r, s.t) \/ d[s.t] = Result(r, s)
      BY <2>1 DEF Halfway
    <2>3. ~Held(s.t)
      BY <1>10, <2>1
    <2> QED
      BY <1>4, <1>7, <1>8, <2>2, <2>3
  <1>13. ASSUME NEW t \in DOMAIN st, PartOf[t.object] = k, \A s \in steps : s.t # t
         PROVE  (t \in A <=> t \in M) /\ (t \in B <=> t \in M)
    <2>1. d[t] = IF t \in Stale(r, st, now, k) \ p.old[k] /\ ~Undeclared(r, t) THEN Absent ELSE st[t]
      BY <1>1, <1>2, <1>13 DEF Halfway
    <2>2. ~Undeclared(r, t) => o[t] = IF t \in Expired(r, st, now, k) THEN Absent ELSE st[t]
      BY <1>1, <1>2, <1>13, OutcomeIs
    <2>3. t \in Expired(r, st, now, k) => ~Live(st[t], now)
      BY DEF Expired
    <2>4. ~Live(Absent, n) /\ (~Live(st[t], now) => ~Live(st[t], n))
      <3>1. st[t] \in Expiry \cup {Absent}
        BY <1>1 DEF Stores
      <3> QED
        BY <1>1, <3>1, Lives
    <2>5. ~Held(t)
      <3>1. ASSUME NEW s \in gap, s.t = t PROVE FALSE
        <4>1. PICK j \in Partition : s \in Plan(r, st, now, j)
          BY DEF Halfway
        <4>2. s \in Steps(r, st, now, j)
          BY <4>1 DEF Plan
        <4>3. j = k
          BY <1>1, <1>13, <3>1, <4>2, StepsAre
        <4> QED
          BY <1>13, <3>1, <4>2, <4>3
      <3> QED
        BY <3>1
    <2> QED
      BY <1>2, <1>5, <1>6, <1>7, <2>1, <2>2, <2>3, <2>4, <2>5
  <1> HIDE DEF Mine
  <1>14. M \subseteq DOMAIN st
    BY <1>7 DEF Mine
  <1> QED
    BY <1>5, <1>6, <1>8, <1>9, <1>11, <1>12, <1>13, <1>14 DEF Mine, Amid

\* What the order rests on has not lapsed at n.
Unlapsed(p, o, n) ==
    \A t \in LiveIn(p.start, p.now) \ LiveIn(p.start, n) :
        /\ t.object \in Group => o[t] # p.start[t]
        /\ t.deny => o[t] = Forever

\* A pass under way is in the middle of the change of each partition that it brings up to date.
LEMMA HalfwayMidst ==
  ASSUME NEW r, NEW p, NEW d, NEW n \in Nat, Recorded(r, p, n), NEW gap, Halfway(r, p, d, n, gap),
         NEW k \in Partition, Goes(r, p.start, p.now, k), ~p.cyclic,
         r.knows => Unlapsed(p, Outcome(r, p.start, p.now), n),
         NEW A, A = Slice(r, LiveIn(p.start, n), k),
         NEW B, B = Slice(r, LiveIn(Outcome(r, p.start, p.now), n), k),
         NEW M, M = Slice(r, Reached(p, d, n, gap), k),
         NEW steps, steps = Steps(r, p.start, p.now, k),
         NEW rest, rest = p.todo[k] \cup (gap \cap steps),
         NEW V, V = Context(r, p.start, p.now, k)
  PROVE  /\ V \in SUBSET Tuple /\ steps \in SUBSET Step
         /\ Midst(V, steps, rest, A, B, M, r.knows)
  <1> DEFINE st == p.start
             now == p.now
             o == Outcome(r, st, now)
             Mine(t) == t \in DOMAIN st /\ PartOf[t.object] = k /\ ~Undeclared(r, t)
             us == Usable(r, now, k)
             ps == Present(r, st, now, k)
  <1>1. Stores(r, st) /\ now \in Nat /\ now <= n
    BY DEF Recorded, Begun
  <1>2. /\ Plan(r, st, now, k) = steps /\ Stale(r, st, now, k) = Expired(r, st, now, k)
        /\ ~Refused(r, st, now, k)
    BY DEF Plan, Stale, Goes
  <1>0. Amid(r, p, n, k, A, B, M, steps, rest)
    BY HalfwayIs
  <1>3. /\ \A t : t \in A <=> Mine(t) /\ Live(st[t], n)
        /\ \A t : t \in B <=> Mine(t) /\ Live(o[t], n)
        /\ M \subseteq DOMAIN st
        /\ \A s \in steps : s.t \in B <=> ~Undeclared(r, s.t) /\ Live(Result(r, s), n)
        /\ rest \subseteq steps
        /\ \A s \in rest : s.t \in M <=> s.t \in A
        /\ \A s \in steps \ rest : s.t \in M <=> s.t \in B
        /\ \A t \in DOMAIN st : PartOf[t.object] = k /\ (\A s \in steps : s.t # t) =>
               (t \in A <=> t \in M) /\ (t \in B <=> t \in M)
    BY <1>0 DEF Amid
  <1>m. \A t \in M : PartOf[t.object] = k /\ ~Undeclared(r, t)
    BY DEF Slice
  <1>4. \A s \in steps : s \in Step /\ s.t \in DOMAIN st /\ PartOf[s.t.object] = k /\ ~(r.knows /\ Undeclared(r, s.t))
    BY <1>1, StepsAre
  <1>5. V = us \cup ps
    BY DEF Context
  <1>6. /\ \A t : t \in us <=>
                t \in DOMAIN st /\ PartOf[t.object] = k /\ Live(r.src[t], now) /\ ~(r.knows /\ Undeclared(r, t))
        /\ \A t : t \in ps <=>
                t \in DOMAIN st /\ PartOf[t.object] = k /\ Live(st[t], now) /\ ~(r.knows /\ Undeclared(r, t))
        /\ Writes(r, st, now, k) = us \ ps
    BY <1>1, <1>2, PartsAre
  <1>7. \A s \in steps : Live(Result(r, s), n) => s.t \in us
    <2>1. ASSUME NEW s \in steps, Live(Result(r, s), n) PROVE s.t \in us
      <3>1. s.do # "delete"
        BY <2>1, Lives DEF Result
      <3>2. s.do \in {"write", "delete", "renew"}
        BY <1>4 DEF Step
      <3>3. s.t \in Writes(r, st, now, k) \/ s.t \in Updates(r, st, now, k)
        BY <1>1, <3>1, <3>2, StepsAre
      <3> QED
        BY <1>1, <3>3, PartsAre
    <2> QED
      BY <2>1
  <1>8. \A t \in DOMAIN st : Live(st[t], n) => Live(st[t], now)
    BY <1>1, Lives DEF Stores
  <1>9. A \subseteq V
    BY <1>3, <1>5, <1>6, <1>8
  <1>10. B \subseteq V /\ M \subseteq V
    <2>1. ASSUME NEW t \in DOMAIN st, t \in B \cup M PROVE t \in V
      <3>1. PartOf[t.object] = k /\ ~Undeclared(r, t)
        BY <1>3, <1>m, <2>1
      <3>2. CASE \E s \in steps : s.t = t
        <4>1. PICK s \in steps : s.t = t
          BY <3>2
        <4>2. t \in A \/ t \in B
          BY <1>3, <2>1, <4>1
        <4>3. t \in A \/ t \in us
          BY <1>3, <1>7, <4>1, <4>2
        <4> QED
          BY <1>5, <1>9, <4>3
      <3>3. CASE \A s \in steps : s.t # t
        <4>1. t \in A
          BY <1>3, <2>1, <3>1, <3>3
        <4> QED
          BY <1>9, <4>1
      <3> QED
        BY <3>2, <3>3
    <2> QED
      BY <1>3, <2>1
  <1>11. V \in SUBSET Tuple
    BY <1>1, <1>5, <1>6 DEF Stores
  <1>12. ASSUME NEW s \in steps
         PROVE  /\ s.as = "write" => (s.t \in A => s.t \in B)
                /\ s.as = "delete" => (s.t \in B => s.t \in A)
                /\ s.do = "write" => s.as = "write" /\ s.t \notin A
                /\ s.do = "delete" => s.as = "delete" /\ s.t \notin B
                /\ s.do = "renew" /\ s.t.deny => s.as = "write"
    <2>1. /\ s.as = "write" => (Live(st[s.t], n) => Live(Result(r, s), n))
          /\ s.as = "delete" => (Live(Result(r, s), n) => Live(st[s.t], n))
          /\ s.do = "write" => s.as = "write" /\ ~Live(st[s.t], n)
          /\ s.do = "delete" => s.as = "delete" /\ ~Live(Result(r, s), n)
          /\ s.do = "renew" /\ s.t.deny => s.as = "write"
      BY <1>1, StepMoves
    <2> QED
      BY <1>3, <1>4, <2>1
  <1>13. \A t \in V : (\A s \in steps : s.t # t) => (t \in A <=> t \in M) /\ (t \in B <=> t \in M)
    BY <1>3, <1>5, <1>6
  <1>14. ASSUME NEW s \in steps \ rest, NEW x \in rest
         PROVE  /\ Phase(s) <= Phase(x)
                /\ s.t.object \in Group /\ x.t.object \in Group => ~Before(steps, V, r.knows, x, s)
    <2>1. InOrder(p, Plan(r, st, now, k), p.todo[k] \cup (gap \cap Plan(r, st, now, k)))
      BY DEF Halfway
    <2>2. Phase(s) <= Phase(x) /\ <<x, s>> \notin p.prec
      BY <1>2, <2>1, <1>14 DEF InOrder
    <2>3. ASSUME s.t.object \in Group, x.t.object \in Group, Before(steps, V, r.knows, x, s) PROVE FALSE
      <3> DEFINE e == <<x, s>>
      <3>1. x \in steps /\ x # s
        BY <1>3, <1>14
      <3>2. e \in Precedences(steps, V, r.knows)
        BY <2>3, <3>1 DEF Precedences
      <3>3. p.prec = UNION {Precedences(Plan(r, st, now, j), p.context[j], r.knows) : j \in Partition}
            /\ p.context[k] = V
        BY DEF Recorded, Begun
      <3>4. e \in p.prec
        BY <1>2, <3>2, <3>3
      <3> QED
        BY <2>2, <3>4
    <2> QED
      BY <2>2, <2>3
  <1>15. ASSUME r.knows PROVE Denies(V) \subseteq A \cup B
    <2>1. ASSUME NEW t \in V, t.deny PROVE t \in A \cup B
      <3>1. Mine(t)
        BY <1>5, <1>6, <1>15, <2>1
      <3>2. CASE t \in ps
        <4>1. CASE Live(st[t], n)
          BY <1>3, <3>1, <4>1
        <4>2. CASE ~Live(st[t], n)
          <5>1. t \in LiveIn(st, now) \ LiveIn(st, n)
            BY <1>1, <1>6, <3>2, <4>2, LiveInIs
          <5>2. o[t] = Forever
            BY <1>15, <2>1, <5>1 DEF Unlapsed
          <5> QED
            BY <1>3, <3>1, <5>2, Lives
        <4> QED
          BY <4>1, <4>2
      <3>3. CASE t \notin ps
        <4>1. t \in Writes(r, st, now, k)
          BY <1>5, <1>6, <2>1, <3>3
        <4>2. PICK s \in steps : s.t = t /\ s.do = "write"
          BY <1>1, <4>1, StepsAre
        <4>3. Result(r, s) = Forever
          BY <2>1, <4>2 DEF Result
        <4>4. Live(Result(r, s), n)
          BY <4>3, Lives
        <4> QED
          BY <1>3, <3>1, <4>2, <4>4
      <3> QED
        BY <3>2, <3>3
    <2> QED
      BY <2>1 DEF Denies
  <1>16. ASSUME r.knows PROVE Memberships(V) \ Changed(steps) \subseteq M
    <2>1. ASSUME NEW t \in V, t.object \in Group, t \notin Changed(steps) PROVE t \in M
      <3>1. Mine(t)
        BY <1>5, <1>6, <1>16, <2>1
      <3>2. \A s \in steps : s.t # t
        BY <2>1 DEF Changed
      <3>3. t \in ps
        <4>1. t \notin Writes(r, st, now, k)
          BY <1>1, <3>2, StepsAre
        <4> QED
          BY <1>5, <1>6, <2>1, <4>1
      <3>4. o[t] = st[t]
        <4>1. t \notin Expired(r, st, now, k)
          BY <1>6, <3>3 DEF Expired
        <4> QED
          BY <1>1, <1>2, <3>1, <3>2, <4>1, OutcomeIs
      <3>5. Live(st[t], n)
        <4>1. t \in LiveIn(st, now)
          BY <1>1, <1>6, <3>3, LiveInIs
        <4>2. t \in LiveIn(st, n)
          BY <1>16, <2>1, <3>4, <4>1 DEF Unlapsed
        <4> QED
          BY <4>2, LiveInIs
      <3> QED
        BY <1>3, <3>1, <3>2, <3>5
    <2> QED
      BY <2>1 DEF Memberships
  <1>17. steps \in SUBSET Step
    BY <1>4
  <1>18. Midst(V, steps, rest, A, B, M, r.knows)
    BY <1>3, <1>9, <1>10, <1>12, <1>13, <1>14, <1>15, <1>16 DEF Midst
  <1> QED
    BY <1>11, <1>17, <1>18

\* Where a pass leaves a partition alone the store is as it was.
LEMMA HalfwayStill ==
  ASSUME NEW r, NEW p, NEW d, NEW n \in Nat, Recorded(r, p, n), NEW gap, Halfway(r, p, d, n, gap),
         NEW k \in Partition, ~Goes(r, p.start, p.now, k)
  PROVE  Slice(r, Reached(p, d, n, gap), k) = Slice(r, LiveIn(p.start, n), k)
  <1>1. Plan(r, p.start, p.now, k) = {} /\ Stale(r, p.start, p.now, k) = {}
    BY DEF Plan, Stale
  <1>2. \A t \in DOMAIN d : PartOf[t.object] = k => d[t] = p.start[t]
    BY <1>1 DEF Halfway
  <1>3. \A s \in gap : PartOf[s.t.object] # k
    <2>1. ASSUME NEW s \in gap, PartOf[s.t.object] = k PROVE FALSE
      <3>1. PICK j \in Partition : s \in Plan(r, p.start, p.now, j)
        BY DEF Halfway
      <3>2. s \in Steps(r, p.start, p.now, j)
        BY <3>1 DEF Plan
      <3>3. j = k
        BY <2>1, <3>2, StepsAre DEF Recorded, Begun
      <3> QED
        BY <1>1, <3>1, <3>3
    <2> QED
      BY <2>1
  <1>4. DOMAIN d = DOMAIN p.start
    BY DEF Halfway
  <1>5. \A t : PartOf[t.object] = k => (t \in Reached(p, d, n, gap) <=> t \in LiveIn(p.start, n))
    BY <1>2, <1>3, <1>4, LiveInIs DEF Reached
  <1> QED
    BY <1>2, <1>5 DEF Slice

\* Between the two writes of a renewal the store grants no more than before them.
LEMMA ReachedGrants ==
  ASSUME NEW r, NEW p, NEW d, NEW n \in Nat, Recorded(r, p, n), NEW gap, Halfway(r, p, d, n, gap)
  PROVE  /\ Reached(p, d, n, gap) \in SUBSET DOMAIN p.start
         /\ LiveIn(d, n) \in SUBSET Tuple
         /\ Grants(LiveIn(d, n)) \subseteq Grants(Reached(p, d, n, gap))
  <1> DEFINE D == LiveIn(d, n)
             S == Reached(p, d, n, gap)
  <1>1. Stores(r, p.start) /\ DOMAIN d = DOMAIN p.start
    BY DEF Recorded, Begun, Halfway
  <1>2. \A s \in gap : s.t \in DOMAIN p.start
    <2>1. ASSUME NEW s \in gap PROVE s.t \in DOMAIN p.start
      <3>1. PICK j \in Partition : s \in Plan(r, p.start, p.now, j)
        BY DEF Halfway
      <3>2. s \in Steps(r, p.start, p.now, j)
        BY <3>1 DEF Plan
      <3> QED
        BY <3>2, StepsAre DEF Recorded, Begun
    <2> QED
      BY <2>1
  <1>3. D \in SUBSET DOMAIN p.start /\ S \in SUBSET DOMAIN p.start
    BY <1>1, <1>2 DEF LiveIn, Reached
  <1>4. D \in SUBSET Tuple /\ S \in SUBSET Tuple
    BY <1>1, <1>3 DEF Stores
  <1>5. CASE S = D
    BY <1>3, <1>4, <1>5
  <1>6. CASE S # D
    <2>1. PICK s \in gap : Live(p.start[s.t], n)
      BY <1>6 DEF Reached
    <2> DEFINE t == s.t
    <2>2. \A x \in gap : x = s
      BY DEF Halfway
    <2>3. S = D \cup {t}
      BY <2>1, <2>2 DEF Reached
    <2>4. Gap(r, p, d, n, s)
      BY DEF Halfway
    <2>5. t \notin D
      BY <2>4 DEF Gap, LiveIn
    <2>6. S \ {t} = D /\ t \in Tuple /\ ~t.deny
      BY <1>1, <1>2, <2>3, <2>4, <2>5 DEF Stores, Gap
    <2>7. CASE t.object \in Group
      <3>1. ~Carries(D, t.object)
        BY <2>1, <2>4, <2>7 DEF Gap
      <3>2. Grants(S \ {t}) \subseteq Grants(S)
        BY <1>4, <2>6, <2>7, <3>1, WithoutGrants
      <3> QED
        BY <1>3, <1>4, <2>6, <3>2
    <2>8. CASE t.object \notin Group
      <3>1. Memberships(D) = Memberships(S)
        BY <2>3, <2>8 DEF Memberships
      <3>2. Allows(D) \subseteq Allows(S)
        BY <2>3 DEF Allows
      <3>3. Denies(S) \subseteq Denies(D)
        BY <2>3, <2>6 DEF Denies
      <3>4. Grants(D) \subseteq Grants(S)
        BY <1>4, <3>1, <3>2, <3>3, GrantsLess
      <3> QED
        BY <1>3, <1>4, <3>4
    <2> QED
      BY <2>7, <2>8
  <1> QED
    BY <1>5, <1>6

\* A pass under way, on what the destination declares, grants what one of its ends does.
LEMMA HalfwayGrants ==
  ASSUME NEW r, NEW p, NEW d, NEW n \in Nat, Recorded(r, p, n), NEW gap, Halfway(r, p, d, n, gap),
         ~p.cyclic, r.knows => Unlapsed(p, Outcome(r, p.start, p.now), n),
         NEW x \in Grants(LiveIn(d, n)), x[3] \in Object => r.phase[x[3]] # "undeclared"
  PROVE  x \in Grants(LiveIn(p.start, n)) \cup Grants(LiveIn(Outcome(r, p.start, p.now), n))
  <1> DEFINE st == p.start
             o == Outcome(r, st, p.now)
             k == PartOf[x[3]]
             SA == LiveIn(st, n)
             SB == LiveIn(o, n)
             SM == Reached(p, d, n, gap)
             A == Slice(r, SA, k)
             B == Slice(r, SB, k)
             M == Slice(r, SM, k)
  <1>1. Stores(r, st) /\ DOMAIN o = DOMAIN st
    BY DEF Recorded, Begun, Outcome
  <1>2. SA \in SUBSET DOMAIN st /\ SB \in SUBSET DOMAIN st /\ SM \in SUBSET DOMAIN st
    BY <1>1, ReachedGrants DEF LiveIn
  <1>3. /\ SA \in SUBSET Tuple /\ Together(SA)
        /\ SB \in SUBSET Tuple /\ Together(SB)
        /\ SM \in SUBSET Tuple /\ Together(SM)
    BY <1>1, <1>2 DEF Stores, Together
  <1>4. x \in Grants(SM)
    BY ReachedGrants
  <1> DEFINE Says == (Subject \X Rel \X Object) \cup (Holder \X {Member} \X Group)
  <1>5. x \in Says /\ \A S : x \in Grants(S) <=> SqlCheck(S, x[1], x[2], x[3])
    BY <1>4 DEF Grants
  <1>6. k \in Partition
    BY <1>5, RelationTuplesAssumption, RelationPlanAssumption
  <1> HIDE DEF SA, SB, SM, Says
  <1>7. /\ SqlCheck(SA, x[1], x[2], x[3]) <=> SqlCheck(A, x[1], x[2], x[3])
        /\ SqlCheck(SB, x[1], x[2], x[3]) <=> SqlCheck(B, x[1], x[2], x[3])
        /\ SqlCheck(SM, x[1], x[2], x[3]) <=> SqlCheck(M, x[1], x[2], x[3])
    BY <1>3, SliceChecks
  <1>8. x \in Grants(M)
    BY <1>4, <1>5, <1>7
  <1>9. x \in Grants(A) \cup Grants(B)
    <2>1. CASE Goes(r, st, p.now, k)
      <3> DEFINE steps == Steps(r, st, p.now, k)
                 rest == p.todo[k] \cup (gap \cap steps)
                 V == Context(r, st, p.now, k)
      <3>1. /\ V \in SUBSET Tuple /\ steps \in SUBSET Step
            /\ Midst(V, steps, rest, A, B, M, r.knows)
        BY <1>6, <2>1, HalfwayMidst DEF SA, SB, SM
      <3> HIDE DEF A, B, M, V, steps, rest
      <3>2. Grants(M) \subseteq Grants(A) \cup Grants(B)
        BY <3>1, MidstGrants
      <3> QED
        BY <1>8, <3>2
    <2>2. CASE ~Goes(r, st, p.now, k)
      <3>1. Slice(r, Reached(p, d, n, gap), k) = Slice(r, LiveIn(p.start, n), k)
        <4> HIDE DEF k
        <4> QED
          BY <1>6, <2>2, HalfwayStill
      <3>2. M = A
        BY <3>1 DEF SA, SM
      <3> QED
        BY <1>8, <3>2
    <2> QED
      BY <2>1, <2>2
  <1> QED
    BY <1>5, <1>7, <1>9 DEF SA, SB

\* What a pass under way is to be keeps it from opening.
LEMMA PassInvOpensNot ==
  ASSUME clock \in 0 .. MaxClock, PassInv(q, pass, dst, clock)
  PROVE  PassNeverOpens
  <1> SUFFICES ASSUME pass.pc # "idle", ~pass.raced, ~pass.cyclic, ~(q.knows /\ Lapsed),
                      NEW x \in Grants(Now), x[3] \in Object => q.phase[x[3]] # "undeclared"
               PROVE  x \in pass.may[clock]
    BY DEF PassNeverOpens
  <1>1. Recorded(q, pass, clock) /\ \E gap : Halfway(q, pass, dst, clock, gap)
    BY DEF PassInv
  <1>2. PICK gap : Halfway(q, pass, dst, clock, gap)
    BY <1>1
  <1> DEFINE o == Outcome(q, pass.start, pass.now)
  <1>3. clock \in Nat
    BY RelationsAssumption
  <1>4. q.knows => Unlapsed(pass, o, clock)
    BY DEF Lapsed, Unlapsed
  <1>5. x \in Grants(LiveIn(pass.start, clock)) \cup Grants(LiveIn(o, clock))
    BY <1>1, <1>2, <1>3, <1>4, HalfwayGrants DEF Now
  <1>6. pass.may = [m \in pass.now .. MaxClock |->
                   UNION {Grants(LiveIn(e, m)) : e \in {pass.start, o}}]
    BY <1>1 DEF Recorded, Begun
  <1>7. clock \in pass.now .. MaxClock
    BY <1>1, <1>3, RelationsAssumption DEF Recorded, Begun
  <1>8. pass.may[clock] = UNION {Grants(LiveIn(e, clock)) : e \in {pass.start, o}}
    BY <1>6, <1>7
  <1> QED
    BY <1>5, <1>8

-----------------------------------------------------------------------------
(* The steps of a pass keep it so.                                         *)

\* The pass goes on: of its beginning it forgets nothing.
GoesOn(p, p2) ==
    /\ p2.start = p.start /\ p2.now = p.now /\ p2.context = p.context /\ p2.prec = p.prec
    /\ p2.may = p.may /\ p2.raced = p.raced /\ p2.cyclic = p.cyclic
    /\ p2.pc = "refused" <=> p.pc = "refused"

LEMMA StillRecorded ==
  ASSUME NEW r, NEW p, NEW p2, GoesOn(p, p2), NEW n, Recorded(r, p, n)
  PROVE  Recorded(r, p2, n)
  BY DEF GoesOn, Recorded

\* Nothing is done but for how the pass stands.
LEMMA StillHalfway ==
  ASSUME NEW r, NEW p, NEW p2, GoesOn(p, p2), NEW d, NEW n, NEW gap, Halfway(r, p, d, n, gap),
         p2.todo = p.todo, p2.old = p.old, p2.pc = "put" => p2.mid = {s.t : s \in gap},
         p2.pc \notin {"put", "dead"} => gap = {},
         p2.pc = "done" => \A k \in Partition : p.todo[k] = {} /\ p.old[k] = {}
  PROVE  Halfway(r, p2, d, n, gap)
  BY DEF GoesOn, Halfway, Gap, InOrder

\* What has expired has no step.
LEMMA StaleApart ==
  ASSUME NEW r, NEW st, Stores(r, st), NEW now \in Nat, NEW k \in Partition, NEW j \in Partition,
         NEW t \in Stale(r, st, now, k), NEW s \in Plan(r, st, now, j)
  PROVE  s.t # t
  <1> SUFFICES ASSUME s.t = t PROVE FALSE
    OBVIOUS
  <1>1. t \in Deletes(r, st, now, k) /\ ~Live(st[t], now) /\ s \in Steps(r, st, now, j)
    BY DEF Stale, Plan, Expired
  <1>2. j = k
    BY <1>1, PartsAre, StepsAre
  <1>3. s.do \in {"write", "delete", "renew"}
    BY <1>1, StepsAre DEF Step
  <1>4. t \notin Usable(r, now, k)
    BY <1>1, PartsAre
  <1>5. s.do # "delete"
    BY <1>1, <1>2, StepsAre
  <1>6. t \in Writes(r, st, now, k) \/ t \in Updates(r, st, now, k)
    BY <1>1, <1>2, <1>3, <1>5, StepsAre
  <1> QED
    BY <1>4, <1>6, PartsAre

\* Of an expired row.
Sweeps(r, p, p2, d, e, k, t) ==
    /\ GoesOn(p, p2) /\ p.pc = "going" /\ p2.pc = "going" /\ p2.todo = p.todo /\ t \in p.old[k]
    /\ \A j \in Partition : p2.old[j] = IF j = k THEN p.old[j] \ {t} ELSE p.old[j]
    /\ DOMAIN e = DOMAIN d /\ \A x \in DOMAIN d : x # t => e[x] = d[x]
    /\ e[t] = IF Undeclared(r, t) THEN d[t] ELSE Absent

LEMMA SweptHalfway ==
  ASSUME NEW r, NEW p, NEW p2, NEW d, NEW n \in Nat, Recorded(r, p, n), Halfway(r, p, d, n, {}),
         NEW k \in Partition, NEW t, NEW e, Sweeps(r, p, p2, d, e, k, t)
  PROVE  Halfway(r, p2, e, n, {})
  <1>0. /\ GoesOn(p, p2) /\ p.pc = "going" /\ p2.pc = "going" /\ p2.todo = p.todo /\ t \in p.old[k]
        /\ \A j \in Partition : p2.old[j] = IF j = k THEN p.old[j] \ {t} ELSE p.old[j]
        /\ DOMAIN e = DOMAIN d /\ \A x \in DOMAIN d : x # t => e[x] = d[x]
        /\ e[t] = IF Undeclared(r, t) THEN d[t] ELSE Absent
    BY DEF Sweeps
  <1> DEFINE st == p.start
             now == p.now
             plan(j) == Plan(r, st, now, j)
             stale(j) == Stale(r, st, now, j)
  <1>1. Stores(r, st) /\ now \in Nat
    BY DEF Recorded, Begun
  <1>2. t \in stale(k) /\ t \in DOMAIN st /\ PartOf[t.object] = k
    <2>1. t \in stale(k)
      BY <1>0 DEF Halfway
    <2>2. t \in Deletes(r, st, now, k)
      BY <2>1 DEF Stale, Expired
    <2> QED
      BY <1>1, <2>1, <2>2, PartsAre
  <1>3. \A j \in Partition : \A s \in plan(j) : s.t # t
    BY <1>1, <1>2, StaleApart
  <1>4. \A j \in Partition : \A s \in plan(j) : s.t \in DOMAIN st
    BY <1>1, StepsAre DEF Plan
  <1>5. DOMAIN e = DOMAIN st /\ DOMAIN d = DOMAIN st
    BY <1>0 DEF Halfway
  <1>6. \A j \in Partition : \A s \in plan(j) : e[s.t] = d[s.t]
    BY <1>0, <1>3, <1>4, <1>5
  <1>7. ASSUME NEW j \in Partition
        PROVE  /\ p2.todo[j] \subseteq plan(j) /\ p2.old[j] \subseteq stale(j)
               /\ InOrder(p2, plan(j), p2.todo[j])
               /\ InOrder(p2, plan(j), p2.todo[j] \cup ({} \cap plan(j)))
               /\ \A s \in p2.todo[j] : e[s.t] = st[s.t]
               /\ \A s \in plan(j) \ (p2.todo[j] \cup {}) : Undeclared(r, s.t) \/ e[s.t] = Result(r, s)
    <2>1. p2.todo[j] \subseteq plan(j) /\ p2.old[j] \subseteq stale(j)
      BY <1>0 DEF Halfway
    <2>2. InOrder(p2, plan(j), p2.todo[j]) /\ InOrder(p2, plan(j), p2.todo[j] \cup ({} \cap plan(j)))
      <3>1. InOrder(p, plan(j), p.todo[j])
        BY DEF Halfway
      <3>2. InOrder(p2, plan(j), p2.todo[j])
        BY <1>0, <3>1 DEF InOrder, GoesOn
      <3>3. p2.todo[j] \cup ({} \cap plan(j)) = p2.todo[j]
        OBVIOUS
      <3> QED
        BY <3>2, <3>3
    <2>3. \A s \in p2.todo[j] : e[s.t] = st[s.t]
      BY <1>0, <1>6, <2>1 DEF Halfway
    <2>4. \A s \in plan(j) \ (p2.todo[j] \cup {}) : Undeclared(r, s.t) \/ e[s.t] = Result(r, s)
      BY <1>0, <1>6 DEF Halfway
    <2> QED
      BY <2>1, <2>2, <2>3, <2>4
  <1>8. ASSUME NEW j \in Partition, NEW x \in DOMAIN e, PartOf[x.object] = j, \A s \in plan(j) : s.t # x
        PROVE  e[x] = IF x \in stale(j) \ p2.old[j] /\ ~Undeclared(r, x) THEN Absent ELSE st[x]
    <2>1. d[x] = IF x \in stale(j) \ p.old[j] /\ ~Undeclared(r, x) THEN Absent ELSE st[x]
      BY <1>0, <1>8 DEF Halfway
    <2>2. CASE x = t
      <3>1. j = k /\ x \in stale(j) \ p2.old[j]
        BY <1>0, <1>2, <1>8, <2>2
      <3> QED
        BY <1>0, <1>8, <2>1, <2>2, <3>1
    <2>3. CASE x # t
      BY <1>0, <1>8, <2>1, <2>3
    <2> QED
      BY <2>2, <2>3
  <1>9. \A x \in DOMAIN e : Undeclared(r, x) => e[x] = st[x]
    BY <1>0 DEF Halfway
  <1> QED
    BY <1>0, <1>5, <1>7, <1>8, <1>9 DEF Halfway, GoesOn

\* The order is kept by one that none left goes before.
LEMMA StepInOrder ==
  ASSUME NEW p, NEW steps, NEW rest, InOrder(p, steps, rest), NEW s \in rest,
         \A x \in rest : Phase(s) <= Phase(x) /\ (~p.cyclic => <<x, s>> \notin p.prec)
  PROVE  InOrder(p, steps, rest \ {s})
  BY DEF InOrder

\* Of a step, or of the first write of it.
Moves(r, p, p2, d, e, n, k, s, gap) ==
    /\ GoesOn(p, p2) /\ p.pc = "going" /\ p2.pc \in {"going", "put"} /\ p2.old = p.old
    /\ \A j \in Partition : p2.todo[j] = IF j = k THEN p.todo[j] \ {s} ELSE p.todo[j]
    /\ DOMAIN e = DOMAIN d /\ \A x \in DOMAIN d : x # s.t => e[x] = d[x]
    /\ Undeclared(r, s.t) => e[s.t] = d[s.t]
    /\ gap \in {{}, {s}}
    /\ gap = {} => p2.pc = "going" /\ (Undeclared(r, s.t) \/ e[s.t] = Result(r, s))
    /\ gap = {s} => Gap(r, p2, e, n, s) /\ p2.pc = "put" /\ p2.mid = {s.t}

LEMMA SteppedHalfway ==
  ASSUME NEW r, NEW p, NEW p2, NEW d, NEW n \in Nat, Recorded(r, p, n), Halfway(r, p, d, n, {}),
         NEW k \in Partition, NEW s \in p.todo[k],
         \A x \in p.todo[k] : Phase(s) <= Phase(x) /\ (~p.cyclic => <<x, s>> \notin p.prec),
         NEW e, NEW gap, Moves(r, p, p2, d, e, n, k, s, gap)
  PROVE  Halfway(r, p2, e, n, gap)
  <1>0. /\ GoesOn(p, p2) /\ p.pc = "going" /\ p2.pc \in {"going", "put"} /\ p2.old = p.old
        /\ \A j \in Partition : p2.todo[j] = IF j = k THEN p.todo[j] \ {s} ELSE p.todo[j]
        /\ DOMAIN e = DOMAIN d /\ \A x \in DOMAIN d : x # s.t => e[x] = d[x]
        /\ Undeclared(r, s.t) => e[s.t] = d[s.t]
        /\ gap \in {{}, {s}}
        /\ gap = {} => p2.pc = "going" /\ (Undeclared(r, s.t) \/ e[s.t] = Result(r, s))
        /\ gap = {s} => Gap(r, p2, e, n, s) /\ p2.pc = "put" /\ p2.mid = {s.t}
    BY DEF Moves
  <1> DEFINE st == p.start
             now == p.now
             plan(j) == Plan(r, st, now, j)
             stale(j) == Stale(r, st, now, j)
  <1>1. Stores(r, st) /\ now \in Nat /\ p2.start = st /\ p2.now = now
    BY <1>0 DEF Recorded, Begun, GoesOn
  <1>2. DOMAIN e = DOMAIN st /\ DOMAIN d = DOMAIN st
    BY <1>0 DEF Halfway
  <1>3. \A j \in Partition : /\ p.todo[j] \subseteq plan(j)
                             /\ \A x \in plan(j) : x.t \in DOMAIN st /\ PartOf[x.t.object] = j
                             /\ \A x \in plan(j) : x \in Steps(r, st, now, j)
    <2>1. \A j \in Partition : p.todo[j] \subseteq plan(j)
      BY <1>0 DEF Halfway
    <2>2. \A j \in Partition : \A x \in plan(j) : x \in Steps(r, st, now, j)
      BY <1>0 DEF Plan
    <2>3. \A j \in Partition : \A x \in plan(j) : x.t \in DOMAIN st /\ PartOf[x.t.object] = j
      BY <1>0, <1>1, <2>2, StepsAre
    <2> QED
      BY <1>0, <2>1, <2>2, <2>3
  <1>4. \A j \in Partition : \A x \in plan(j) : x.t = s.t => x = s
    BY <1>0, <1>1, <1>3, StepsApart
  <1>5. \A j \in Partition : \A x \in plan(j) : x # s => e[x.t] = d[x.t]
    BY <1>0, <1>2, <1>3, <1>4
  <1>6. \A j \in Partition : s \in plan(j) => j = k
    BY <1>0, <1>3
  <1>7. \A j \in Partition : gap \cap plan(j) = IF j = k THEN gap ELSE {}
    BY <1>0, <1>3, <1>6
  <1>8. ASSUME NEW j \in Partition
        PROVE  /\ InOrder(p2, plan(j), p2.todo[j])
               /\ InOrder(p2, plan(j), p2.todo[j] \cup (gap \cap plan(j)))
    <2>1. InOrder(p, plan(j), p.todo[j])
      BY <1>0 DEF Halfway
    <2>0. \A rest : InOrder(p, plan(j), rest) => InOrder(p2, plan(j), rest)
      BY <1>0 DEF InOrder, GoesOn
    <2>2. CASE j = k
      <3>1. InOrder(p, plan(j), p.todo[j] \ {s})
        BY <1>0, <2>1, <2>2, StepInOrder
      <3>2. \/ p2.todo[j] \cup (gap \cap plan(j)) = p.todo[j]
            \/ p2.todo[j] \cup (gap \cap plan(j)) = p.todo[j] \ {s}
        BY <1>0, <1>7, <2>2
      <3>3. p2.todo[j] = p.todo[j] \ {s}
        BY <1>0, <2>2
      <3>4. InOrder(p2, plan(j), p.todo[j]) /\ InOrder(p2, plan(j), p.todo[j] \ {s})
        BY <1>0, <2>0, <2>1, <3>1
      <3> HIDE DEF plan
      <3> QED
        BY <1>0, <3>2, <3>3, <3>4
    <2>3. CASE j # k
      <3>1. p2.todo[j] = p.todo[j] /\ p2.todo[j] \cup (gap \cap plan(j)) = p.todo[j]
        BY <1>0, <1>7, <2>3
      <3>2. InOrder(p2, plan(j), p.todo[j])
        BY <1>0, <2>0, <2>1
      <3> HIDE DEF plan
      <3> QED
        BY <1>0, <3>1, <3>2
    <2> QED
      BY <1>0, <2>2, <2>3
  <1>9. ASSUME NEW j \in Partition
        PROVE  /\ p2.todo[j] \subseteq plan(j) /\ p2.old[j] \subseteq stale(j)
               /\ \A x \in p2.todo[j] : e[x.t] = st[x.t]
               /\ \A x \in plan(j) \ (p2.todo[j] \cup gap) : Undeclared(r, x.t) \/ e[x.t] = Result(r, x)
    <2>1. p2.todo[j] \subseteq plan(j) /\ p2.old[j] \subseteq stale(j)
      <3>1. p.old[j] \subseteq stale(j)
        BY DEF Halfway
      <3>2. p2.todo[j] \subseteq p.todo[j] /\ p2.old[j] = p.old[j]
        BY <1>0
      <3> QED
        BY <1>3, <3>1, <3>2
    <2>2. \A x \in p.todo[j] : d[x.t] = st[x.t]
      BY <1>0 DEF Halfway
    <2>3. \A x \in plan(j) \ p.todo[j] : Undeclared(r, x.t) \/ d[x.t] = Result(r, x)
      BY <1>0 DEF Halfway
    <2>4. s \notin p2.todo[j]
      BY <1>0, <1>3, <1>6
    <2>5. \A x \in p2.todo[j] : e[x.t] = st[x.t]
      <3>1. \A x \in p2.todo[j] : x \in p.todo[j] /\ x # s /\ x \in plan(j)
        BY <1>0, <1>3, <2>4
      <3> QED
        BY <1>0, <1>5, <2>2, <3>1
    <2>6. ASSUME NEW x \in plan(j) \ (p2.todo[j] \cup gap) PROVE Undeclared(r, x.t) \/ e[x.t] = Result(r, x)
      <3>1. CASE x = s
        BY <1>0, <2>6, <3>1
      <3>2. CASE x # s
        <4>1. x \notin p.todo[j]
          BY <1>0, <2>6, <3>2
        <4> QED
          BY <1>0, <1>5, <2>3, <2>6, <3>2, <4>1
      <3> QED
        BY <1>0, <3>1, <3>2
    <2> QED
      BY <1>0, <2>1, <2>5, <2>6
  <1>10. ASSUME NEW j \in Partition, NEW x \in DOMAIN e, PartOf[x.object] = j, \A y \in plan(j) : y.t # x
         PROVE  e[x] = IF x \in stale(j) \ p2.old[j] /\ ~Undeclared(r, x) THEN Absent ELSE st[x]
    <2>1. d[x] = IF x \in stale(j) \ p.old[j] /\ ~Undeclared(r, x) THEN Absent ELSE st[x]
      BY <1>0, <1>10 DEF Halfway
    <2>2. x # s.t
      BY <1>0, <1>3, <1>10
    <2> QED
      BY <1>0, <1>2, <2>1, <2>2
  <1>11. \A x \in DOMAIN e : Undeclared(r, x) => e[x] = st[x]
    <2>1. \A x \in DOMAIN d : Undeclared(r, x) => d[x] = st[x]
      BY <1>0 DEF Halfway
    <2> QED
      BY <1>0, <1>2, <2>1
  <1>12. /\ p2.pc = "put" => p2.mid = {x.t : x \in gap}
         /\ p2.pc \notin {"put", "dead"} => gap = {}
         /\ p2.pc # "done"
    <2>1. CASE gap = {}
      BY <1>0, <2>1
    <2>2. CASE gap = {s}
      BY <1>0, <2>2
    <2> QED
      BY <1>0, <2>1, <2>2
  <1>13. \A x \in gap : Gap(r, p2, e, n, x) /\ \E j \in Partition : x \in plan(j) \ p2.todo[j]
    <2>1. s \in plan(k) \ p2.todo[k]
      BY <1>0, <1>3
    <2> HIDE DEF plan
    <2> QED
      BY <1>0, <2>1
  <1>14. \A x \in gap, y \in gap : x = y
    BY <1>0
  <1> QED
    BY <1>0, <1>1, <1>2, <1>8, <1>9, <1>10, <1>11, <1>12, <1>13, <1>14 DEF Halfway

\* Of the second write of a renewal.
LEMMA PutHalfway ==
  ASSUME NEW r, NEW p, NEW p2, GoesOn(p, p2), NEW d, NEW n \in Nat, Recorded(r, p, n),
         NEW gap, Halfway(r, p, d, n, gap), p.pc = "put", p2.pc \in {"going", "dead"},
         p2.todo = p.todo, p2.old = p.old, NEW t \in p.mid,
         NEW e, DOMAIN e = DOMAIN d, \A x \in DOMAIN d : x # t => e[x] = d[x], e[t] = r.src[t]
  PROVE  Halfway(r, p2, e, n, {})
  <1> DEFINE st == p.start
             now == p.now
             plan(j) == Plan(r, st, now, j)
             stale(j) == Stale(r, st, now, j)
  <1>1. Stores(r, st) /\ now \in Nat /\ p2.start = st /\ p2.now = now
    BY DEF Recorded, Begun, GoesOn
  <1>2. DOMAIN e = DOMAIN st /\ DOMAIN d = DOMAIN st
    BY DEF Halfway
  <1>3. PICK s \in gap : s.t = t
    BY DEF Halfway
  <1>4. /\ \A x \in gap : x = s
        /\ Gap(r, p, d, n, s)
    BY <1>3 DEF Halfway
  <1>5. PICK k \in Partition : s \in plan(k) \ p.todo[k]
    BY <1>3 DEF Halfway
  <1>6. \A j \in Partition : \A x \in plan(j) : x \in Steps(r, st, now, j) /\ x.t \in DOMAIN st
    <2>1. \A j \in Partition : \A x \in plan(j) : x \in Steps(r, st, now, j)
      BY DEF Plan
    <2> QED
      BY <1>1, <2>1, StepsAre
  <1>7. \A j \in Partition : \A x \in plan(j) : x.t = t => x = s
    BY <1>1, <1>3, <1>5, <1>6, StepsApart
  <1>8. e[t] = Result(r, s)
    BY <1>3, <1>4 DEF Gap, Result
  <1>9. ASSUME NEW j \in Partition
        PROVE  /\ p2.todo[j] \subseteq plan(j) /\ p2.old[j] \subseteq stale(j)
               /\ InOrder(p2, plan(j), p2.todo[j])
               /\ InOrder(p2, plan(j), p2.todo[j] \cup ({} \cap plan(j)))
               /\ \A x \in p2.todo[j] : e[x.t] = st[x.t]
               /\ \A x \in plan(j) \ (p2.todo[j] \cup {}) : Undeclared(r, x.t) \/ e[x.t] = Result(r, x)
    <2>1. p2.todo[j] \subseteq plan(j) /\ p2.old[j] \subseteq stale(j) /\ InOrder(p, plan(j), p2.todo[j])
      BY DEF Halfway
    <2>2. InOrder(p2, plan(j), p2.todo[j])
      BY <2>1 DEF InOrder, GoesOn
    <2>3. p2.todo[j] \cup ({} \cap plan(j)) = p2.todo[j]
      OBVIOUS
    <2>4. s \notin p2.todo[j]
      <3>1. s \in plan(j) => j = k
        BY <1>1, <1>5, <1>6, StepsAre
      <3> QED
        BY <1>5, <2>1, <3>1
    <2>5. \A x \in p2.todo[j] : e[x.t] = st[x.t]
      <3>1. \A x \in p2.todo[j] : x.t # t /\ x.t \in DOMAIN d /\ d[x.t] = st[x.t]
        BY <1>2, <1>6, <1>7, <2>1, <2>4 DEF Halfway
      <3> QED
        BY <3>1
    <2>6. ASSUME NEW x \in plan(j) \ p2.todo[j] PROVE Undeclared(r, x.t) \/ e[x.t] = Result(r, x)
      <3>1. CASE x = s
        BY <1>3, <1>8, <3>1
      <3>2. CASE x # s
        <4>1. x \notin gap /\ x.t # t /\ x.t \in DOMAIN d
          BY <1>2, <1>4, <1>6, <1>7, <2>6, <3>2
        <4>2. Undeclared(r, x.t) \/ d[x.t] = Result(r, x)
          BY <2>6, <4>1 DEF Halfway
        <4> QED
          BY <4>1, <4>2
      <3> QED
        BY <3>1, <3>2
    <2> QED
      BY <2>1, <2>2, <2>3, <2>5, <2>6
  <1>10. ASSUME NEW j \in Partition, NEW x \in DOMAIN e, PartOf[x.object] = j, \A y \in plan(j) : y.t # x
         PROVE  e[x] = IF x \in stale(j) \ p2.old[j] /\ ~Undeclared(r, x) THEN Absent ELSE st[x]
    <2>1. d[x] = IF x \in stale(j) \ p.old[j] /\ ~Undeclared(r, x) THEN Absent ELSE st[x]
      BY <1>10 DEF Halfway
    <2>2. x # t
      <3>1. PartOf[t.object] = k
        BY <1>1, <1>3, <1>5, <1>6, StepsAre
      <3> QED
        BY <1>3, <1>5, <1>10, <3>1
    <2> QED
      BY <1>2, <2>1, <2>2
  <1>11. \A x \in DOMAIN e : Undeclared(r, x) => e[x] = st[x]
    <2>1. \A x \in DOMAIN d : Undeclared(r, x) => d[x] = st[x]
      BY DEF Halfway
    <2>2. ~Undeclared(r, t)
      BY <1>3, <1>4 DEF Gap
    <2> QED
      BY <1>2, <2>1, <2>2
  <1> QED
    BY <1>1, <1>2, <1>9, <1>10, <1>11 DEF Halfway

\* Of time.
LEMMA TickHalfway ==
  ASSUME NEW r, NEW p, NEW d, NEW n \in Nat, Recorded(r, p, n), NEW gap, Halfway(r, p, d, n, gap),
         d \in [DOMAIN d -> Expiry \cup {Absent}]
  PROVE  Recorded(r, p, n + 1) /\ Halfway(r, p, d, n + 1, gap)
  <1>1. Recorded(r, p, n + 1)
    <2>1. \A m : m \in 0 .. n => m \in 0 .. (n + 1)
      OBVIOUS
    <2>2. Begun(r, p.start, p.now, p.context, p.prec, p.may, n)
      BY DEF Recorded
    <2>3. Begun(r, p.start, p.now, p.context, p.prec, p.may, n + 1)
      BY <2>1, <2>2, Zenon DEF Begun
    <2> QED
      BY <2>3 DEF Recorded
  <1>2. LiveIn(d, n + 1) \subseteq LiveIn(d, n)
    <2>1. \A t \in DOMAIN d : Live(d[t], n + 1) => Live(d[t], n)
      BY Lives
    <2> QED
      BY <2>1 DEF LiveIn
  <1>3. ASSUME NEW s \in gap PROVE Gap(r, p, d, n + 1, s)
    <2>1. Gap(r, p, d, n, s)
      BY DEF Halfway
    <2>2. s.t \in DOMAIN p.start
      <3>1. PICK j \in Partition : s \in Plan(r, p.start, p.now, j)
        BY DEF Halfway
      <3>2. s \in Steps(r, p.start, p.now, j)
        BY <3>1 DEF Plan
      <3> QED
        BY <3>2, StepsAre DEF Recorded, Begun
    <2>3. Live(p.start[s.t], n + 1) => Live(p.start[s.t], n)
      <3>1. p.start[s.t] \in Expiry \cup {Absent}
        BY <2>2 DEF Recorded, Begun, Stores
      <3> QED
        BY <3>1, Lives
    <2>4. Carries(LiveIn(d, n + 1), s.t.object) => Carries(LiveIn(d, n), s.t.object)
      BY <1>2, CarriesMore
    <2> QED
      BY <2>1, <2>3, <2>4 DEF Gap
  <1> QED
    BY <1>1, <1>3 DEF Halfway

\* A pass that begins.
LEMMA BeginsHalfway ==
  ASSUME NEW r, NEW p, NEW n \in Nat, Begun(r, p.start, n, p.context, p.prec, p.may, n),
         p.now = n, p.pc \in {"going", "refused"},
         p.pc = "refused" <=> Refuses(r, p.start, n),
         p.cyclic <=> Residue(p.prec) # {},
         \A k \in Partition : /\ p.todo[k] = Plan(r, p.start, n, k)
                              /\ p.old[k] = Stale(r, p.start, n, k)
  PROVE  Recorded(r, p, n) /\ Halfway(r, p, p.start, n, {})
  <1>1. Recorded(r, p, n)
    BY DEF Recorded
  <1>2. \A k \in Partition : p.todo[k] \cup ({} \cap Plan(r, p.start, n, k)) = p.todo[k]
    OBVIOUS
  <1>3. \A k \in Partition : InOrder(p, Plan(r, p.start, n, k), p.todo[k])
    BY DEF InOrder
  <1> QED
    BY <1>1, <1>2, <1>3 DEF Halfway

\* The invariant of the passes.
PassesInv == CallsInv /\ Together(DOMAIN dst) /\ PassInv(q, pass, dst, clock)

LEMMA DomainStays ==
  ASSUME CallsInv, CallsInv', q' = q, Together(DOMAIN dst)
  PROVE  DOMAIN dst' = DOMAIN dst /\ Together(DOMAIN dst')
  <1>1. DOMAIN q.src = DOMAIN dst /\ DOMAIN q'.src = DOMAIN dst'
    BY DEF CallsInv, Typed
  <1> QED
    BY <1>1

LEMMA StoresNow ==
  ASSUME CallsInv, Together(DOMAIN dst)
  PROVE  Stores(q, dst)
  BY DEF CallsInv, Typed, Stores

LEMMA StillKeeps ==
  ASSUME PassesInv, CallsInv', UNCHANGED <<clock, q, dst, pass>>
  PROVE  PassesInv'
  BY DEF PassesInv

\* The write of a call.
LEMMA EffectKeeps ==
  ASSUME PassesInv, CallsInv', NEW c, NEW x, NEW d, Effect(c, x, d)
  PROVE  PassesInv'
  <1>1. dst' = d /\ clock' = clock /\ q' = q
        /\ pass' = [pass EXCEPT !.raced = @ \/ (d # dst /\ pass.pc # "idle")]
    BY DEF Effect
  <1>2. pass \in Pass(pass) /\ CallsInv
    BY DEF PassesInv, CallsInv
  <1>3. Together(DOMAIN dst)'
    BY <1>1, <1>2, DomainStays DEF PassesInv
  <1>4. CASE d = dst
    <2>1. pass.raced \in BOOLEAN /\ pass = [pass EXCEPT !.raced = pass.raced]
      BY <1>2 DEF Pass
    <2>2. (pass.raced \/ (d # dst /\ pass.pc # "idle")) = pass.raced
      BY <1>4, <2>1
    <2>3. pass' = pass
      BY <1>1, <2>1, <2>2, Zenon
    <2> QED
      BY <1>1, <1>4, <2>3, StillKeeps
  <1>5. CASE d # dst
    <2>1. pass'.pc = "idle" \/ pass'.raced
      <3>1. pass'.pc = pass.pc /\ pass'.raced = (pass.raced \/ (d # dst /\ pass.pc # "idle"))
        BY <1>1, <1>2 DEF Pass
      <3> QED
        BY <1>5, <3>1
    <2>2. PassInv(q', pass', dst', clock')
      BY <2>1 DEF PassInv
    <2> QED
      BY <1>3, <2>2 DEF PassesInv
  <1> QED
    BY <1>4, <1>5

LEMMA LandKeeps ==
  ASSUME PassesInv, CallsInv', NEW c, NEW x, NEW d, Land(c, x, d)
  PROVE  PassesInv'
  BY EffectKeeps DEF Land

LEMMA CallKeeps ==
  ASSUME PassesInv, CallsInv', NEW c \in Client,
         \/ Begin(c) \/ Fails(c) \/ LosesAnswer(c)
         \/ SqlUpsert(c) \/ SqlDelete(c)
         \/ ReadKey(c) \/ WriteNew(c) \/ Walk(c) \/ Walked(c) \/ Cut(c) \/ Put(c) \/ PutClashes(c)
         \/ Drop(c) \/ WriteDeny(c) \/ PurgeRead(c) \/ PurgeBatch(c) \/ PurgeEnd(c)
  PROVE  PassesInv'
  <1>1. CASE Begin(c) \/ Fails(c) \/ ReadKey(c) \/ Walk(c) \/ Walked(c) \/ PutClashes(c) \/ PurgeRead(c) \/ PurgeEnd(c)
    <2>1. UNCHANGED <<clock, q, dst, pass>>
      BY <1>1 DEF Begin, Fails, ReadKey, Walk, Walked, PutClashes, PurgeRead, PurgeEnd, Reads
    <2> QED
      BY <2>1, StillKeeps
  <1>2. CASE SqlUpsert(c) \/ SqlDelete(c) \/ Cut(c) \/ Put(c) \/ Drop(c) \/ PurgeBatch(c)
    <2>1. \E x, d : Land(c, x, d)
      <3>1. CASE SqlUpsert(c)
        BY <3>1, Zenon DEF SqlUpsert
      <3>2. CASE SqlDelete(c)
        BY <3>2, Zenon DEF SqlDelete
      <3>3. CASE Cut(c)
        BY <3>3, Zenon DEF Cut
      <3>4. CASE Put(c)
        BY <3>4, Zenon DEF Put
      <3>5. CASE Drop(c)
        BY <3>5, Zenon DEF Drop
      <3>6. CASE PurgeBatch(c)
        BY <3>6, Zenon DEF PurgeBatch
      <3> QED
        BY <1>2, <3>1, <3>2, <3>3, <3>4, <3>5, <3>6
    <2> QED
      BY <2>1, LandKeeps
  <1>3. CASE WriteNew(c) \/ WriteDeny(c)
    <2>1. (\E x, d : Land(c, x, d)) \/ (\E x : Reads(c, x))
      <3>1. CASE WriteNew(c)
        BY <3>1, Zenon DEF WriteNew
      <3>2. CASE WriteDeny(c)
        BY <3>2, Zenon DEF WriteDeny
      <3> QED
        BY <1>3, <3>1, <3>2
    <2>2. (\E x : Reads(c, x)) => UNCHANGED <<clock, q, dst, pass>>
      BY DEF Reads
    <2> QED
      BY <2>1, <2>2, LandKeeps, StillKeeps
  <1>4. CASE LosesAnswer(c)
    <2>1. \E y, d : Unheard(c, y, d)
      BY <1>4, Zenon DEF LosesAnswer
    <2>2. \E x, d : Effect(c, x, d)
      BY <2>1, Zenon DEF Unheard
    <2> QED
      BY <2>2, EffectKeeps
  <1> QED
    BY <1>1, <1>2, <1>3, <1>4

\* The pass takes a step that leaves it halfway.
LEMMA PassGoesOn ==
  ASSUME PassesInv, CallsInv', q' = q, clock' = clock, NEW p, NEW d, pass' = p, dst' = d,
         p.pc # "idle" /\ ~p.raced => Recorded(q, p, clock) /\ \E gap : Halfway(q, p, d, clock, gap)
  PROVE  PassesInv'
  <1>1. Together(DOMAIN dst)'
    BY DomainStays DEF PassesInv
  <1>2. PassInv(q', pass', dst', clock')
    BY DEF PassInv
  <1> QED
    BY <1>1, <1>2 DEF PassesInv

LEMMA TickKeeps == ASSUME PassesInv, CallsInv', Tick PROVE PassesInv'
  <1>1. q' = q /\ dst' = dst /\ pass' = pass /\ clock' = clock + 1
    BY DEF Tick
  <1>2. clock \in Nat /\ dst \in [DOMAIN dst -> Expiry \cup {Absent}]
    BY RelationsAssumption DEF PassesInv, CallsInv, Typed
  <1>3. ASSUME pass.pc # "idle", ~pass.raced
        PROVE  Recorded(q, pass, clock + 1) /\ \E gap : Halfway(q, pass, dst, clock + 1, gap)
    <2>1. PICK gap : Recorded(q, pass, clock) /\ Halfway(q, pass, dst, clock, gap)
      BY <1>3 DEF PassesInv, PassInv
    <2> QED
      BY <1>2, <2>1, TickHalfway
  <1>4. PassInv(q, pass, dst, clock + 1)
    BY <1>3 DEF PassInv
  <1>5. PassInv(q', pass', dst', clock')
    BY <1>1, <1>4
  <1> QED
    BY <1>1, <1>5 DEF PassesInv

LEMMA PassEndKeeps == ASSUME PassesInv, CallsInv', PassEnd PROVE PassesInv'
  <1> DEFINE p == [pass EXCEPT !.pc = "done"]
  <1>1. /\ pass.pc = "going" /\ UNCHANGED <<clock, q, dst>> /\ pass' = p
        /\ \A k \in Partition : pass.todo[k] = {} /\ pass.old[k] = {}
    BY DEF PassEnd, Undone
  <1>2. pass \in Pass(pass)
    BY DEF PassesInv, CallsInv
  <1>3. GoesOn(pass, p) /\ p.pc = "done" /\ p.todo = pass.todo /\ p.old = pass.old
    BY <1>1, <1>2 DEF Pass, GoesOn
  <1> HIDE DEF p
  <1>4. ASSUME p.pc # "idle", ~p.raced
        PROVE  Recorded(q, p, clock) /\ \E gap : Halfway(q, p, dst, clock, gap)
    <2>1. Recorded(q, pass, clock) /\ \E gap : Halfway(q, pass, dst, clock, gap)
      BY <1>1, <1>3, <1>4 DEF PassesInv, PassInv, GoesOn
    <2>2. PICK gap : Halfway(q, pass, dst, clock, gap)
      BY <2>1
    <2>3. gap = {}
      BY <1>1, <2>2 DEF Halfway
    <2>4. Halfway(q, p, dst, clock, gap)
      BY <1>1, <1>3, <2>2, <2>3, StillHalfway
    <2> QED
      BY <1>3, <2>1, <2>4, StillRecorded
  <1> QED
    BY <1>1, <1>4, PassGoesOn

LEMMA PassDiesKeeps == ASSUME PassesInv, CallsInv', PassDies PROVE PassesInv'
  <1> DEFINE none == {}
             p == [pass EXCEPT !.pc = "dead", !.mid = none]
  <1>1. pass.pc \in {"going", "put"} /\ UNCHANGED <<clock, q, dst>> /\ pass' = p
    BY DEF PassDies, Frozen
  <1>2. pass \in Pass(pass)
    BY DEF PassesInv, CallsInv
  <1> HIDE DEF none
  <1>3. GoesOn(pass, p) /\ p.pc = "dead" /\ p.todo = pass.todo /\ p.old = pass.old
    BY <1>1, <1>2 DEF Pass, GoesOn
  <1> HIDE DEF p
  <1>4. ASSUME p.pc # "idle", ~p.raced
        PROVE  Recorded(q, p, clock) /\ \E gap : Halfway(q, p, dst, clock, gap)
    <2>1. Recorded(q, pass, clock) /\ \E gap : Halfway(q, pass, dst, clock, gap)
      BY <1>1, <1>3, <1>4 DEF PassesInv, PassInv, GoesOn
    <2>2. PICK gap : Halfway(q, pass, dst, clock, gap)
      BY <2>1
    <2>3. Halfway(q, p, dst, clock, gap)
      BY <1>3, <2>2, StillHalfway
    <2> QED
      BY <1>3, <2>1, <2>3, StillRecorded
  <1> QED
    BY <1>1, <1>4, PassGoesOn

LEMMA PassSweepKeeps == ASSUME PassesInv, CallsInv', NEW k \in Partition, PassSweep(k) PROVE PassesInv'
  <1>1. PICK t \in pass.old[k] :
           PassWrites([pass EXCEPT !.old[k] = @ \ {t}, !.begun = @ \cup {k}],
                      IF Undeclared(q, t) THEN dst ELSE Set(t, Absent))
    BY DEF PassSweep
  <1> DEFINE old == [pass.old EXCEPT ![k] = @ \ {t}]
             begun == pass.begun \cup {k}
             p == [pass EXCEPT !.old = old, !.begun = begun]
             d == IF Undeclared(q, t) THEN dst ELSE Set(t, Absent)
  <1>t. Typed /\ Planned(pass) /\ pass \in Pass(pass)
    BY PassIs DEF PassesInv
  <1>2. t \in DOMAIN dst /\ pass.pc = "going"
    BY <1>t DEF Planned, PassSweep, AtHand
  <1>3. /\ DOMAIN d = DOMAIN dst /\ \A x \in DOMAIN dst : x # t => d[x] = dst[x]
        /\ d[t] = IF Undeclared(q, t) THEN dst[t] ELSE Absent
    BY <1>2 DEF Set
  <1>4. p = [pass EXCEPT !.old[k] = @ \ {t}, !.begun = @ \cup {k}]
    BY <1>t DEF Pass
  <1>5. pass' = p /\ dst' = d /\ q' = q /\ clock' = clock
    BY <1>1, <1>4 DEF PassWrites
  <1>6. \A j \in Partition : old[j] = IF j = k THEN pass.old[j] \ {t} ELSE pass.old[j]
    BY <1>t DEF Pass
  <1> HIDE DEF old, begun, d
  <1>7. p.old = old /\ p.todo = pass.todo /\ p.pc = "going" /\ GoesOn(pass, p)
    BY <1>2, <1>t DEF Pass, GoesOn
  <1> HIDE DEF p
  <1>8. ASSUME p.pc # "idle", ~p.raced
        PROVE  Recorded(q, p, clock) /\ \E gap : Halfway(q, p, d, clock, gap)
    <2>1. Recorded(q, pass, clock) /\ \E gap : Halfway(q, pass, dst, clock, gap)
      BY <1>2, <1>7, <1>8 DEF PassesInv, PassInv, GoesOn
    <2>2. PICK gap : Halfway(q, pass, dst, clock, gap)
      BY <2>1
    <2>3. gap = {}
      BY <1>2, <2>2 DEF Halfway
    <2>4. clock \in Nat
      BY <1>t, RelationsAssumption DEF Typed
    <2>5. Recorded(q, pass, clock) /\ Halfway(q, pass, dst, clock, {})
      BY <2>1, <2>2, <2>3
    <2>6. Sweeps(q, pass, p, dst, d, k, t)
      BY <1>2, <1>3, <1>6, <1>7 DEF Sweeps
    <2>7. Halfway(q, p, d, clock, {})
      BY <2>4, <2>5, <2>6, SweptHalfway
    <2> QED
      BY <1>7, <2>1, <2>7, StillRecorded
  <1> QED
    BY <1>5, <1>8, PassGoesOn

LEMMA PassPutKeeps == ASSUME PassesInv, CallsInv', PassPut PROVE PassesInv'
  <1> DEFINE to(t) == IF dst[t] \in {Absent, q.src[t]} THEN Set(t, q.src[t]) ELSE dst
             fine(t) == /\ to(t)[t] = q.src[t]
                        /\ pass.guarded => CarriedDenies(LiveIn(to(t), clock), t.object) = {}
             next(t) == [pass EXCEPT !.pc = IF fine(t) THEN "going" ELSE "dead", !.mid = {}]
  <1>1. PICK t \in pass.mid : PassWrites(next(t), to(t))
    BY Zenon DEF PassPut
  <1> DEFINE d == to(t)
             none == {}
             pc == IF fine(t) THEN "going" ELSE "dead"
             p == [pass EXCEPT !.pc = pc, !.mid = none]
  <1>t. Typed /\ Planned(pass) /\ pass \in Pass(pass)
    BY PassIs DEF PassesInv
  <1>2. t \in DOMAIN dst /\ pass.pc = "put"
    BY <1>t DEF Planned, PassPut
  <1>3. pass' = p /\ dst' = d /\ q' = q /\ clock' = clock
    BY <1>1 DEF PassWrites
  <1>4. pc \in {"going", "dead"}
    OBVIOUS
  <1> HIDE DEF pc, none
  <1>5. p.old = pass.old /\ p.todo = pass.todo /\ p.pc = pc /\ GoesOn(pass, p)
    BY <1>2, <1>4, <1>t DEF Pass, GoesOn
  <1>6. ASSUME dst[t] = Absent
        PROVE  DOMAIN d = DOMAIN dst /\ (\A x \in DOMAIN dst : x # t => d[x] = dst[x]) /\ d[t] = q.src[t]
    BY <1>2, <1>6 DEF Set
  <1> HIDE DEF p, d
  <1>7. ASSUME p.pc # "idle", ~p.raced
        PROVE  Recorded(q, p, clock) /\ \E gap : Halfway(q, p, d, clock, gap)
    <2>1. Recorded(q, pass, clock) /\ \E gap : Halfway(q, pass, dst, clock, gap)
      BY <1>2, <1>5, <1>7 DEF PassesInv, PassInv, GoesOn
    <2>2. PICK gap : Halfway(q, pass, dst, clock, gap)
      BY <2>1
    <2>3. dst[t] = Absent
      BY <1>2, <2>2 DEF Halfway, Gap
    <2>4. clock \in Nat
      BY <1>t, RelationsAssumption DEF Typed
    <2>5. DOMAIN d = DOMAIN dst /\ (\A x \in DOMAIN dst : x # t => d[x] = dst[x]) /\ d[t] = q.src[t]
      BY <1>6, <2>3
    <2>6. Halfway(q, p, d, clock, {})
      BY <1>2, <1>4, <1>5, <2>1, <2>2, <2>4, <2>5, PutHalfway
    <2> QED
      BY <1>5, <2>1, <2>6, StillRecorded
  <1> QED
    BY <1>3, <1>7, PassGoesOn

\* There are finitely many steps over the tuples in play.
LEMMA StepsFinite ==
  ASSUME NEW U \in SUBSET Tuple, IsFiniteSet(U)
  PROVE  IsFiniteSet({s \in Step : s.t \in U})
  <1> DEFINE F == {s \in Step : s.t \in U}
             Do == {"write", "delete", "renew"}
             As == {"write", "delete"}
             T == Do \X (As \X U)
             f == [s \in F |-> <<s.do, <<s.as, s.t>>>>]
  <1>1. IsFiniteSet(As) /\ IsFiniteSet(Do)
    <2>1. IsFiniteSet({"write"}) /\ IsFiniteSet({"delete"}) /\ IsFiniteSet({"renew"})
      BY FS_Singleton
    <2>2. IsFiniteSet({"write"} \cup {"delete"})
      BY <2>1, FS_Union
    <2>3. IsFiniteSet(({"write"} \cup {"delete"}) \cup {"renew"})
      BY <2>1, <2>2, FS_Union
    <2>4. As = {"write"} \cup {"delete"} /\ Do = ({"write"} \cup {"delete"}) \cup {"renew"}
      OBVIOUS
    <2> QED
      BY <2>2, <2>3, <2>4
  <1> HIDE DEF Do, As
  <1>2. IsFiniteSet(As \X U)
    BY <1>1, FS_Product
  <1>3. IsFiniteSet(T)
    BY <1>1, <1>2, FS_Product
  <1>4. f \in [F -> T]
    BY DEF Step, Do, As
  <1>5. \A s \in F, x \in F : f[s] = f[x] => s = x
    BY DEF Step
  <1>6. f \in Injection(F, T)
    BY <1>4, <1>5 DEF Injection, IsInjective
  <1> QED
    BY <1>3, <1>6, FS_Injection

\* The precedences of a pass.
LEMMA PrecIs ==
  ASSUME NEW r, NEW p, NEW n, Recorded(r, p, n)
  PROVE  /\ p.prec \in SUBSET (Step \X Step) /\ IsFiniteSet(p.prec)
         /\ \A e \in p.prec : e[1] # e[2] /\ e[1].t.object \in Group /\ e[2].t.object \in Group
  <1> DEFINE plan(k) == Plan(r, p.start, p.now, k)
             F == {s \in Step : s.t \in DOMAIN p.start}
  <1>1. Stores(r, p.start) /\ p.now \in Nat
        /\ p.prec = UNION {Precedences(plan(k), p.context[k], r.knows) : k \in Partition}
    BY DEF Recorded, Begun
  <1>2. \A k \in Partition : plan(k) \subseteq F
    BY <1>1, StepsAre DEF Plan
  <1>3. \A e \in p.prec : \E k \in Partition : e \in Precedences(plan(k), p.context[k], r.knows)
    BY <1>1
  <1> HIDE DEF plan
  <1>4. ASSUME NEW e \in p.prec
        PROVE  /\ e \in F \X F /\ e[1] # e[2] /\ e[1].t.object \in Group /\ e[2].t.object \in Group
    BY <1>2, <1>3 DEF Precedences
  <1>5. IsFiniteSet(F)
    BY <1>1, StepsFinite DEF Stores
  <1>6. IsFiniteSet(F \X F)
    BY <1>5, FS_Product
  <1>7. p.prec \in SUBSET (F \X F)
    BY <1>4
  <1>8. IsFiniteSet(p.prec)
    BY <1>6, <1>7, FS_Subset
  <1> QED
    BY <1>4, <1>7, <1>8

\* The next step is one that no other left goes before.
LEMMA NextIsFirst ==
  ASSUME NEW r, NEW p, NEW n, Recorded(r, p, n), NEW V, NEW rest \in SUBSET Step,
         NEW s \in NextSteps(V, p.prec, rest)
  PROVE  s \in rest /\ \A x \in rest : Phase(s) <= Phase(x) /\ (~p.cyclic => <<x, s>> \notin p.prec)
  <1> DEFINE now == {y \in rest : \A x \in rest : Phase(y) <= Phase(x)}
  <1>1. s \in now
    <2>1. NextSteps(V, p.prec, rest) \subseteq FirstClass(rest)
      BY NextStepsAre
    <2> QED
      BY <2>1 DEF FirstClass
  <1>2. ASSUME NEW x \in rest, ~p.cyclic, <<x, s>> \in p.prec PROVE FALSE
    <2> DEFINE e == <<x, s>>
    <2>1. x.t.object \in Group /\ s.t.object \in Group
      <3>1. e \in p.prec /\ e[1] = x /\ e[2] = s
        BY <1>2
      <3> QED
        BY <3>1, PrecIs
    <2>2. Phase(x) = 5 /\ Phase(s) = 5
      BY <1>1, <2>1, PhaseIs
    <2>3. x \in now
      BY <1>1, <2>2
    <2>4. s \in NextMembership(V, p.prec, now)
      BY <1>1, <2>2 DEF NextSteps
    <2>5. Residue(p.prec) = {}
      BY <1>2 DEF Recorded
    <2>6. /\ p.prec \in SUBSET (Step \X Step) /\ IsFiniteSet(p.prec) /\ \A y \in p.prec : y[1] # y[2]
      BY PrecIs
    <2> HIDE DEF now
    <2>7. <<x, s>> \notin p.prec
      BY <2>3, <2>4, <2>5, <2>6, NextIsReady
    <2> QED
      BY <1>2, <2>7
  <1> QED
    BY <1>1, <1>2

\* No step of rest goes before s.
GoesFirst(p, rest, s) == \A x \in rest : Phase(s) <= Phase(x) /\ (~p.cyclic => <<x, s>> \notin p.prec)

LEMMA NextGoesFirst ==
  ASSUME NEW r, NEW p, NEW n, Recorded(r, p, n), NEW V, NEW rest, rest \in SUBSET Step,
         NEW s, s \in NextSteps(V, p.prec, rest)
  PROVE  GoesFirst(p, rest, s)
  <1>1. \A x \in rest : Phase(s) <= Phase(x) /\ (~p.cyclic => <<x, s>> \notin p.prec)
    BY NextIsFirst
  <1> QED
    BY <1>1 DEF GoesFirst

LEMMA PassStepKeeps == ASSUME PassesInv, CallsInv', NEW k \in Partition, PassStep(k) PROVE PassesInv'
  <1> DEFINE Then(s, p) ==
               IF Undeclared(q, s.t) THEN PassWrites(p, dst)
               ELSE IF s.do = "delete" THEN PassWrites(p, Set(s.t, Absent))
               ELSE IF s.t.deny THEN PassWrites(p, Set(s.t, Forever))
               ELSE IF q.atomic \/ dst[s.t] \in {Absent, q.src[s.t]}
               THEN PassWrites(p, Set(s.t, q.src[s.t]))
               ELSE IF /\ s.t.object \in Group /\ s.t \in Now
                       /\ CarriedDenies(Now, s.t.object) # {}
               THEN PassWrites([pass EXCEPT !.pc = "dead"], dst)
               ELSE PassWrites([p EXCEPT !.pc = "put", !.mid = {s.t},
                                         !.guarded = s.t.object \in Group /\ s.t \in Now],
                               Set(s.t, Absent))
  <1>1. PICK s \in NextOf(k) : Then(s, [pass EXCEPT !.todo[k] = @ \ {s}, !.begun = @ \cup {k}])
    BY DEF PassStep
  <1>t. Typed /\ Planned(pass) /\ pass \in Pass(pass) /\ pass.pc = "going"
    BY PassIs DEF PassesInv, PassStep, AtHand
  <1>n. s \in pass.todo[k]
    BY NextOfIs
  <1> DEFINE todo == [pass.todo EXCEPT ![k] = @ \ {s}]
             begun == pass.begun \cup {k}
             p == [pass EXCEPT !.todo = todo, !.begun = begun]
             t == s.t
  <1>2. t \in DOMAIN dst /\ t \in Tuple
    BY <1>n, <1>t DEF Planned, Typed
  <1>3. Then(s, p)
    <2>1. p = [pass EXCEPT !.todo[k] = @ \ {s}, !.begun = @ \cup {k}]
      BY <1>t DEF Pass
    <2> HIDE DEF p, Then
    <2> QED
      BY <1>1, <2>1
  <1>4. \A j \in Partition : todo[j] = IF j = k THEN pass.todo[j] \ {s} ELSE pass.todo[j]
    BY <1>t DEF Pass
  <1> HIDE DEF todo, begun
  <1>5. /\ p.old = pass.old /\ p.todo = todo /\ p.pc = "going" /\ GoesOn(pass, p)
        /\ DOMAIN p = DOMAIN pass
    BY <1>t DEF Pass, GoesOn
  <1>i. ASSUME pass.pc # "idle", ~pass.raced
        PROVE  /\ Recorded(q, pass, clock) /\ Halfway(q, pass, dst, clock, {})
               /\ \A x \in pass.todo[k] : Phase(s) <= Phase(x) /\ (~pass.cyclic => <<x, s>> \notin pass.prec)
    <2>1. Recorded(q, pass, clock) /\ \E gap : Halfway(q, pass, dst, clock, gap)
      BY <1>i DEF PassesInv, PassInv
    <2>2. PICK gap : Halfway(q, pass, dst, clock, gap)
      BY <2>1
    <2>3. gap = {}
      BY <1>t, <2>2 DEF Halfway
    <2>4. s \in NextSteps(pass.context[k], pass.prec, pass.todo[k])
      BY DEF NextOf
    <2>5. pass.todo[k] \in SUBSET Step
      BY <1>t DEF Pass
    <2>6. GoesFirst(pass, pass.todo[k], s)
      BY <2>1, <2>4, <2>5, NextGoesFirst
    <2> QED
      BY <2>1, <2>2, <2>3, <2>6 DEF GoesFirst
  <1>6. clock \in Nat
    BY <1>t, RelationsAssumption DEF Typed
  <1>7. ASSUME NEW p2, NEW d, NEW gap, Moves(q, pass, p2, dst, d, clock, k, s, gap), PassWrites(p2, d)
        PROVE  PassesInv'
    <2>1. ASSUME p2.pc # "idle", ~p2.raced
          PROVE  Recorded(q, p2, clock) /\ \E g : Halfway(q, p2, d, clock, g)
      <3>1. GoesOn(pass, p2)
        BY <1>7 DEF Moves
      <3>2. ~pass.raced /\ pass.pc # "idle"
        BY <1>t, <2>1, <3>1 DEF GoesOn
      <3>3. Halfway(q, p2, d, clock, gap)
        BY <1>6, <1>7, <1>i, <1>n, <3>2, SteppedHalfway
      <3> QED
        BY <1>i, <3>1, <3>2, <3>3, StillRecorded
    <2>2. pass' = p2 /\ dst' = d /\ q' = q /\ clock' = clock
      BY <1>7 DEF PassWrites
    <2> QED
      BY <2>1, <2>2, PassGoesOn
  <1> HIDE DEF p
  <1>8. ASSUME NEW e, Undeclared(q, t) \/ e = Result(q, s), Undeclared(q, t) => e = dst[t], PassWrites(p, Set(t, e))
        PROVE  PassesInv'
    <2>1. DOMAIN Set(t, e) = DOMAIN dst /\ (\A x \in DOMAIN dst : x # t => Set(t, e)[x] = dst[x]) /\ Set(t, e)[t] = e
      BY <1>2 DEF Set
    <2>2. Moves(q, pass, p, dst, Set(t, e), clock, k, s, {})
      BY <1>4, <1>5, <1>8, <1>t, <2>1 DEF Moves
    <2> QED
      BY <1>7, <1>8, <2>2
  <1>9. CASE Undeclared(q, t) /\ PassWrites(p, dst)
    <2>1. Set(t, dst[t]) = dst
      BY <1>2, <1>t DEF Set, Typed
    <2> QED
      BY <1>8, <1>9, <2>1
  <1>10. CASE ~Undeclared(q, t) /\ s.do = "delete" /\ PassWrites(p, Set(t, Absent))
    BY <1>8, <1>10 DEF Result
  <1>11. CASE ~Undeclared(q, t) /\ s.do # "delete" /\ t.deny /\ PassWrites(p, Set(t, Forever))
    BY <1>8, <1>11 DEF Result
  <1>12. CASE ~Undeclared(q, t) /\ s.do # "delete" /\ ~t.deny /\ PassWrites(p, Set(t, q.src[t]))
    BY <1>8, <1>12 DEF Result
  <1>13. CASE PassWrites([pass EXCEPT !.pc = "dead"], dst)
    <2> DEFINE p2 == [pass EXCEPT !.pc = "dead"]
    <2>1. p2.pc = "dead" /\ GoesOn(pass, p2) /\ p2.todo = pass.todo /\ p2.old = pass.old
      BY <1>t DEF Pass, GoesOn
    <2>2. pass' = p2 /\ dst' = dst /\ q' = q /\ clock' = clock
      BY <1>13 DEF PassWrites
    <2> HIDE DEF p2
    <2>3. ASSUME p2.pc # "idle", ~p2.raced
          PROVE  Recorded(q, p2, clock) /\ \E g : Halfway(q, p2, dst, clock, g)
      <3>1. ~pass.raced /\ pass.pc # "idle"
        BY <1>t, <2>1, <2>3 DEF GoesOn
      <3>2. Halfway(q, p2, dst, clock, {})
        BY <1>i, <2>1, <3>1, StillHalfway
      <3> QED
        BY <1>i, <2>1, <3>1, <3>2, StillRecorded
    <2> QED
      BY <2>2, <2>3, PassGoesOn
  <1>14. CASE /\ ~Undeclared(q, t) /\ s.do # "delete" /\ ~t.deny
              /\ ~(t.object \in Group /\ t \in Now /\ CarriedDenies(Now, t.object) # {})
              /\ PassWrites([p EXCEPT !.pc = "put", !.mid = {t}, !.guarded = t.object \in Group /\ t \in Now],
                            Set(t, Absent))
    <2> DEFINE guarded == t.object \in Group /\ t \in Now
               mid == {t}
               p2 == [p EXCEPT !.pc = "put", !.mid = mid, !.guarded = guarded]
               d == Set(t, Absent)
    <2>1. PassWrites(p2, d)
      BY <1>14
    <2>2. DOMAIN d = DOMAIN dst /\ (\A x \in DOMAIN dst : x # t => d[x] = dst[x]) /\ d[t] = Absent
      BY <1>2 DEF Set
    <2> HIDE DEF guarded, mid, d
    <2>3. p2.pc = "put" /\ p2.mid = mid /\ GoesOn(pass, p2) /\ p2.todo = todo /\ p2.old = pass.old
      BY <1>5, <1>t DEF Pass, GoesOn
    <2> HIDE DEF p2
    <2>4. ASSUME ~pass.raced PROVE Gap(q, p2, d, clock, s)
      <3>1. dst[t] = pass.start[t] /\ p2.start = pass.start
        BY <1>i, <1>n, <1>t, <2>3, <2>4 DEF Halfway, GoesOn
      <3>2. ASSUME t.object \in Group, Live(pass.start[t], clock)
            PROVE  ~Carries(LiveIn(d, clock), t.object)
        <4>1. t \in Now
          BY <1>2, <1>6, <3>1, <3>2, LiveInIs DEF Now
        <4>2. CarriedDenies(Now, t.object) = {}
          BY <1>14, <3>2, <4>1
        <4>3. Now \in SUBSET Tuple
          BY <1>t DEF Now, LiveIn, Typed
        <4>4. ~Carries(Now, t.object)
          BY <3>2, <4>2, <4>3, CarriedIs
        <4>5. LiveIn(d, clock) \subseteq Now
          <5>1. \A x : x \in LiveIn(d, clock) => x \in DOMAIN dst /\ x # t /\ Live(dst[x], clock)
            BY <1>6, <2>2, LiveInIs, Lives
          <5> QED
            BY <1>6, <5>1, LiveInIs DEF Now
        <4> QED
          BY <4>4, <4>5, CarriesMore
      <3> QED
        BY <1>14, <2>2, <3>1, <3>2 DEF Gap
    <2>5. CASE pass.raced
      <3>1. p2.raced /\ pass' = p2 /\ dst' = d /\ q' = q /\ clock' = clock
        BY <2>1, <2>3, <2>5 DEF PassWrites, GoesOn
      <3> QED
        BY <3>1, PassGoesOn
    <2>6. CASE ~pass.raced
      <3>1. Moves(q, pass, p2, dst, d, clock, k, s, {s})
        BY <1>4, <1>14, <1>t, <2>2, <2>3, <2>4, <2>6 DEF Moves, mid
      <3> QED
        BY <1>7, <2>1, <3>1
    <2> QED
      BY <2>5, <2>6
  <1> QED
    BY <1>3, <1>9, <1>10, <1>11, <1>12, <1>13, <1>14

LEMMA PassBeginKeeps == ASSUME PassesInv, CallsInv', PassBegin PROVE PassesInv'
  <1>t. Typed /\ clock \in Nat /\ Stores(q, dst)
    BY StoresNow, RelationsAssumption DEF PassesInv, CallsInv, Typed
  <1> DEFINE refuse == \E k \in Partition : MassDelete(q, dst, clock, k) \/ DenyRefused(q, dst, clock, k)
             go(k)  == ~refuse /\ ~Refused(q, dst, clock, k)
             steps  == [k \in Partition |-> IF go(k) THEN Steps(q, dst, clock, k) ELSE {}]
             context == [k \in Partition |-> Context(q, dst, clock, k)]
             prec   == UNION {Precedences(steps[k], context[k], q.knows) : k \in Partition}
             ends   == {dst, Outcome(q, dst, clock)}
             pc == IF refuse THEN "refused" ELSE "going"
             old == [k \in Partition |-> IF go(k) THEN Expired(q, dst, clock, k) ELSE {}]
             may == [n \in clock .. MaxClock |-> UNION {Grants(LiveIn(d, n)) : d \in ends}]
             raced == \E c \in Client : Ongoing(c)
             cyclic == Residue(prec) # {}
             p == [NoPass EXCEPT !.pc = pc, !.todo = steps, !.context = context, !.old = old, !.prec = prec,
                                 !.start = dst, !.now = clock, !.may = may, !.raced = raced, !.cyclic = cyclic]
  <1>1. pass' = p
    BY Zenon DEF PassBegin
  <1>2. UNCHANGED <<clock, q, dst>>
    BY DEF PassBegin
  <1>3. refuse <=> Refuses(q, dst, clock)
    BY DEF Refuses
  <1>4. \A k \in Partition : go(k) <=> Goes(q, dst, clock, k)
    BY <1>3 DEF Goes
  <1>5. \A k \in Partition : steps[k] = Plan(q, dst, clock, k) /\ old[k] = Stale(q, dst, clock, k)
    <2> HIDE DEF go
    <2> QED
      BY <1>4 DEF Plan, Stale
  <1>6. prec = UNION {Precedences(Plan(q, dst, clock, k), context[k], q.knows) : k \in Partition}
    <2> HIDE DEF steps, context
    <2> QED
      BY <1>5
  <1>7. (pc = "refused" <=> Refuses(q, dst, clock)) /\ pc \in {"going", "refused"}
    BY <1>3
  <1>8. Begun(q, dst, clock, context, prec, may, clock)
    <2>1. clock \in 0 .. clock
      BY <1>t
    <2> HIDE DEF prec, steps
    <2> QED
      BY <1>t, <1>6, <2>1 DEF Begun
  <1>9. cyclic <=> Residue(prec) # {}
    OBVIOUS
  <1> HIDE DEF pc, steps, context, prec, old, may, raced, cyclic
  <1>10. /\ p.pc = pc /\ p.todo = steps /\ p.context = context /\ p.old = old /\ p.prec = prec
         /\ p.start = dst /\ p.now = clock /\ p.may = may /\ p.raced = raced /\ p.cyclic = cyclic
    BY DEF NoPass
  <1> HIDE DEF p
  <1>11. Recorded(q, p, clock) /\ Halfway(q, p, dst, clock, {})
    <2>1. Begun(q, p.start, clock, p.context, p.prec, p.may, clock)
      BY <1>8, <1>10
    <2>2. p.pc \in {"going", "refused"} /\ (p.pc = "refused" <=> Refuses(q, p.start, clock))
      BY <1>7, <1>10
    <2>3. \A k \in Partition : p.todo[k] = Plan(q, p.start, clock, k) /\ p.old[k] = Stale(q, p.start, clock, k)
      BY <1>5, <1>10
    <2>4. (p.cyclic <=> Residue(p.prec) # {}) /\ p.now = clock /\ p.start = dst
      BY <1>9, <1>10
    <2>5. Recorded(q, p, clock) /\ Halfway(q, p, p.start, clock, {})
      BY <1>t, <2>1, <2>2, <2>3, <2>4, BeginsHalfway
    <2> QED
      BY <2>4, <2>5
  <1> QED
    BY <1>1, <1>2, <1>11, PassGoesOn

LEMMA PassesInvInit == Init => PassesInv
  <1> SUFFICES ASSUME Init PROVE PassesInv
    OBVIOUS
  <1>1. CallsInv
    BY CallsInvInit
  <1>2. pass.pc = "idle"
    BY DEF Init, NoPass
  <1>3. PICK s \in Scenes : dst \in s.dst
    BY DEF Init
  <1>4. Together(DOMAIN dst)
    BY <1>3, RelationsAssumption DEF Together
  <1> QED
    BY <1>1, <1>2, <1>4 DEF PassesInv, PassInv

LEMMA PassesInvNext == PassesInv /\ [Next]_vars => PassesInv'
  <1> SUFFICES ASSUME PassesInv, [Next]_vars PROVE PassesInv'
    OBVIOUS
  <1>i. CallsInv'
    BY CallsInvNext DEF PassesInv
  <1>1. ASSUME NEW c \in Client,
               \/ Begin(c) \/ Fails(c) \/ LosesAnswer(c)
               \/ SqlUpsert(c) \/ SqlDelete(c)
               \/ ReadKey(c) \/ WriteNew(c) \/ Walk(c) \/ Walked(c) \/ Cut(c) \/ Put(c) \/ PutClashes(c)
               \/ Drop(c) \/ WriteDeny(c) \/ PurgeRead(c) \/ PurgeBatch(c) \/ PurgeEnd(c)
        PROVE  PassesInv'
    BY <1>i, <1>1, CallKeeps
  <1>2. ASSUME NEW k \in Partition, PassSweep(k) \/ PassStep(k) PROVE PassesInv'
    BY <1>i, <1>2, PassSweepKeeps, PassStepKeeps
  <1>3. CASE PassBegin
    BY <1>i, <1>3, PassBeginKeeps
  <1>4. CASE PassPut \/ PassEnd \/ PassDies
    BY <1>i, <1>4, PassPutKeeps, PassEndKeeps, PassDiesKeeps
  <1>5. CASE Tick
    BY <1>i, <1>5, TickKeeps
  <1>6. CASE UNCHANGED vars
    BY <1>i, <1>6, StillKeeps DEF vars
  <1> QED
    BY <1>1, <1>2, <1>3, <1>4, <1>5, <1>6 DEF Next

\* Wherever a pass is cut, and at every instant from then on, the store grants no more on
\* what it declares than one of the pass's two ends would at that instant (tuple_order.ts:50,
\* "no intermediate state grants what neither end granted"), for any content, any plan and
\* any calls meanwhile.
THEOREM PassesNeverOpen == Spec => []PassNeverOpens
  <1>1. PassesInv => PassNeverOpens
    BY PassInvOpensNot DEF PassesInv, CallsInv, Typed
  <1> QED
    BY <1>1, PassesInvInit, PassesInvNext, PTL DEF Spec

\* A partition that is not gone through is as it was.
LEMMA StillIs ==
  ASSUME NEW r, NEW p, NEW d, NEW n, NEW gap, Halfway(r, p, d, n, gap),
         NEW k \in Partition, ~Goes(r, p.start, p.now, k), NEW t \in DOMAIN d, PartOf[t.object] = k
  PROVE  d[t] = p.start[t]
  <1>1. Plan(r, p.start, p.now, k) = {} /\ Stale(r, p.start, p.now, k) = {}
    BY DEF Plan, Stale
  <1> QED
    BY <1>1 DEF Halfway

\* A partition that was gone through to its end.
Left(r, st, now, k, d) ==
    \A t \in DOMAIN d : PartOf[t.object] = k => d[t] = Outcome(r, st, now)[t]

LEMMA LeftIs ==
  ASSUME NEW r, NEW p, NEW d, NEW n, NEW gap, Recorded(r, p, n), Halfway(r, p, d, n, gap), p.pc = "done",
         NEW k \in Partition, ~Refused(r, p.start, p.now, k)
  PROVE  Left(r, p.start, p.now, k, d)
  <1> DEFINE st == p.start
             now == p.now
             steps == Steps(r, st, now, k)
  <1>1. Stores(r, st) /\ now \in Nat /\ DOMAIN d = DOMAIN st
    BY DEF Recorded, Begun, Halfway
  <1>2. Plan(r, st, now, k) = steps /\ Stale(r, st, now, k) = Expired(r, st, now, k)
    BY DEF Recorded, Plan, Stale, Goes
  <1>3. p.todo[k] = {} /\ p.old[k] = {} /\ gap = {}
    BY DEF Halfway
  <1> HIDE DEF steps
  <1>4. /\ \A s \in steps : Undeclared(r, s.t) \/ d[s.t] = Result(r, s)
        /\ \A t \in DOMAIN d : PartOf[t.object] = k /\ (\A s \in steps : s.t # t) =>
               d[t] = IF t \in Expired(r, st, now, k) /\ ~Undeclared(r, t) THEN Absent ELSE st[t]
        /\ \A t \in DOMAIN d : Undeclared(r, t) => d[t] = st[t]
    BY <1>2, <1>3 DEF Halfway
  <1>5. ASSUME NEW t \in DOMAIN d, PartOf[t.object] = k PROVE d[t] = Outcome(r, st, now)[t]
    <2>1. CASE Undeclared(r, t)
      BY <1>1, <1>4, <1>5, <2>1, OutcomeIs
    <2>2. CASE ~Undeclared(r, t) /\ \E s \in steps : s.t = t
      BY <1>1, <1>4, <1>5, <2>2, OutcomeIs DEF steps
    <2>3. CASE ~Undeclared(r, t) /\ \A s \in steps : s.t # t
      BY <1>1, <1>4, <1>5, <2>3, OutcomeIs DEF steps
    <2> QED
      BY <2>1, <2>2, <2>3
  <1> QED
    BY <1>5 DEF Left

\* What a pass leaves of a tuple that the destination declares.
LEMMA LeavesIs ==
  ASSUME NEW r, NEW st, Stores(r, st), NEW now \in Nat, NEW k \in Partition, ~Refused(r, st, now, k),
         NEW d, DOMAIN d = DOMAIN st, Left(r, st, now, k, d),
         NEW t \in DOMAIN st, PartOf[t.object] = k, ~Undeclared(r, t)
  PROVE  /\ d[t] \in Expiry \cup {Absent}
         /\ Live(r.src[t], now) => IF t.deny THEN d[t] \in {Forever, r.src[t]} ELSE d[t] = r.src[t]
         /\ ~Live(r.src[t], now) /\ Live(d[t], now) => ~r.prune
  <1> DEFINE steps == Steps(r, st, now, k)
  <1>1. d[t] = Outcome(r, st, now)[t] /\ d[t] \in Expiry \cup {Absent}
    BY OutcomeIs DEF Left
  <1>2. /\ \A s \in steps : s.t = t => d[t] = Result(r, s)
        /\ (\A s \in steps : s.t # t) => d[t] = IF t \in Expired(r, st, now, k) THEN Absent ELSE st[t]
    BY <1>1, OutcomeIs
  <1>3. \A s \in steps : s.t = t =>
            /\ s.do \in {"write", "delete", "renew"}
            /\ s.do \in {"write", "renew"} => Live(r.src[t], now)
            /\ s.do = "delete" => ~Live(r.src[t], now)
    <2>1. ASSUME NEW s \in steps, s.t = t
          PROVE  /\ s.do \in {"write", "delete", "renew"}
                 /\ s.do \in {"write", "renew"} => t \in Usable(r, now, k)
                 /\ s.do = "delete" => t \notin Usable(r, now, k)
      <3>1. /\ s \in Step
            /\ s.do = "write" => s.t \in Writes(r, st, now, k)
            /\ s.do = "delete" => s.t \in Deletes(r, st, now, k)
            /\ s.do = "renew" => s.t \in Updates(r, st, now, k)
        BY StepsAre
      <3> QED
        BY <2>1, <3>1, PartsAre DEF Step
    <2> QED
      BY <2>1, PartsAre
  <1>4. CASE \E s \in steps : s.t = t
    <2>1. PICK s \in steps : s.t = t
      BY <1>4
    <2>2. d[t] = Result(r, s)
      BY <1>2, <2>1
    <2>3. CASE s.do = "delete"
      BY <1>1, <1>3, <2>1, <2>2, <2>3, Lives DEF Result
    <2>4. CASE s.do # "delete"
      BY <1>1, <1>3, <2>1, <2>2, <2>4 DEF Result
    <2> QED
      BY <2>3, <2>4
  <1>5. CASE \A s \in steps : s.t # t
    <2>1. /\ t \notin Writes(r, st, now, k) /\ t \notin Updates(r, st, now, k)
          /\ t \in Deletes(r, st, now, k) /\ r.prune => ~Live(st[t], now)
      BY <1>5, StepsAre
    <2>2. d[t] = IF t \in Expired(r, st, now, k) THEN Absent ELSE st[t]
      BY <1>2, <1>5
    <2>3. t \in Expired(r, st, now, k) => t \notin Usable(r, now, k)
      BY PartsAre DEF Expired
    <2>4. ASSUME Live(r.src[t], now)
          PROVE  d[t] = st[t] /\ (st[t] = r.src[t] \/ (t.deny /\ st[t] = Forever))
      <3>1. t \in Usable(r, now, k)
        BY <2>4, PartsAre
      <3>2. t \in Present(r, st, now, k)
        BY <2>1, <3>1, PartsAre
      <3> QED
        BY <2>1, <2>2, <2>3, <3>1, <3>2, PartsAre
    <2>5. ASSUME ~Live(r.src[t], now), Live(d[t], now) PROVE ~r.prune
      <3>1. d[t] = st[t] /\ st[t] # Absent
        BY <2>2, <2>5, Lives
      <3>2. t \in Deletes(r, st, now, k)
        BY <2>5, <3>1, PartsAre
      <3> QED
        BY <2>1, <2>5, <3>1, <3>2
    <2> QED
      BY <1>1, <2>4, <2>5
  <1> QED
    BY <1>4, <1>5

\* After a pass another has nothing to do over what the destination declares.
LEMMA LeavesNothing ==
  ASSUME NEW r, NEW st, Stores(r, st), NEW now \in Nat, NEW k \in Partition, ~Refused(r, st, now, k),
         NEW d, Stores(r, d), DOMAIN d = DOMAIN st, Left(r, st, now, k, d), NEW s \in Steps(r, d, now, k)
  PROVE  Undeclared(r, s.t)
  <1> SUFFICES ASSUME ~Undeclared(r, s.t) PROVE FALSE
    OBVIOUS
  <1> DEFINE t == s.t
  <1>1. /\ s \in Step /\ t \in DOMAIN d /\ PartOf[t.object] = k
        /\ s.do = "write" => t \in Writes(r, d, now, k)
        /\ s.do = "delete" => t \in Deletes(r, d, now, k) /\ r.prune /\ Live(d[t], now)
        /\ s.do = "renew" => t \in Updates(r, d, now, k)
    BY StepsAre
  <1>2. /\ Live(r.src[t], now) => IF t.deny THEN d[t] \in {Forever, r.src[t]} ELSE d[t] = r.src[t]
        /\ ~Live(r.src[t], now) /\ Live(d[t], now) => ~r.prune
    BY <1>1, LeavesIs
  <1>3. CASE s.do = "write"
    <2>1. Live(r.src[t], now) /\ ~Live(d[t], now)
      BY <1>1, <1>3, PartsAre
    <2> QED
      BY <1>2, <2>1, Lives
  <1>4. CASE s.do = "delete"
    <2>1. t \notin Usable(r, now, k)
      BY <1>1, <1>4, PartsAre
    <2>2. ~Live(r.src[t], now)
      BY <1>1, <2>1, PartsAre
    <2> QED
      BY <1>1, <1>2, <1>4, <2>2
  <1>5. CASE s.do = "renew"
    <2>1. Live(r.src[t], now) /\ d[t] # r.src[t] /\ ~(t.deny /\ d[t] = Forever)
      BY <1>1, <1>5, PartsAre
    <2> QED
      BY <1>2, <2>1
  <1> QED
    BY <1>1, <1>3, <1>4, <1>5 DEF Step

\* What the destination declares of a partition that is alive.
LEMMA DeclaredIs ==
  ASSUME NEW r, NEW e, NEW k, NEW n \in Nat, NEW t
  PROVE  t \in {x \in Of(k, LiveIn(e, n)) : ~Undeclared(r, x)} <=>
             t \in DOMAIN e /\ PartOf[t.object] = k /\ ~Undeclared(r, t) /\ Live(e[t], n)
  BY LiveInIs DEF Of

\* A pruned pass leaves what the source allows and at least what it denies, from then on.
LEMMA LeavesPruned ==
  ASSUME NEW r, NEW st, Stores(r, st), NEW now \in Nat, NEW k \in Partition, ~Refused(r, st, now, k),
         NEW d, DOMAIN d = DOMAIN st, Left(r, st, now, k, d), r.prune, NEW n \in Nat, now <= n
  PROVE  LET here  == {x \in Of(k, LiveIn(d, n)) : ~Undeclared(r, x)}
             there == {x \in Of(k, LiveIn(r.src, n)) : ~Undeclared(r, x)}
         IN there \ Denies(there) = here \ Denies(here) /\ Denies(there) \subseteq Denies(here)
  <1> DEFINE here  == {x \in Of(k, LiveIn(d, n)) : ~Undeclared(r, x)}
             there == {x \in Of(k, LiveIn(r.src, n)) : ~Undeclared(r, x)}
             Mine(t) == t \in DOMAIN st /\ PartOf[t.object] = k /\ ~Undeclared(r, t)
  <1>1. \A t : (t \in here <=> Mine(t) /\ Live(d[t], n)) /\ (t \in there <=> Mine(t) /\ Live(r.src[t], n))
    BY DeclaredIs DEF Stores
  <1>2. \A t \in DOMAIN st : t.deny \in BOOLEAN
    BY DEF Stores, Tuple
  <1>3. ASSUME NEW t, Mine(t)
        PROVE  /\ Live(r.src[t], n) => Live(d[t], n)
               /\ Live(d[t], n) /\ ~t.deny => Live(r.src[t], n)
    <2>1. r.src[t] \in Expiry \cup {Absent} /\ d[t] \in Expiry \cup {Absent}
      BY <1>3, LeavesIs DEF Stores
    <2>2. /\ Live(r.src[t], n) => Live(r.src[t], now)
          /\ Live(d[t], n) => Live(d[t], now)
      BY <2>1, Lives
    <2>3. /\ Live(r.src[t], now) => IF t.deny THEN d[t] \in {Forever, r.src[t]} ELSE d[t] = r.src[t]
          /\ ~Live(r.src[t], now) => ~Live(d[t], now)
      BY <1>3, LeavesIs
    <2> QED
      BY <2>2, <2>3, Lives
  <1> HIDE DEF here, there, Mine
  <1>4. \A t : t \in there => t \in here
    BY <1>1, <1>3
  <1>5. \A t : t \in here /\ ~t.deny => t \in there
    BY <1>1, <1>3
  <1>6. there \ Denies(there) = here \ Denies(here) /\ Denies(there) \subseteq Denies(here)
    BY <1>4, <1>5 DEF Denies
  <1> QED
    BY <1>6 DEF here, there

LEMMA PassInvLeaves ==
  ASSUME PassesInv
  PROVE  PassLeaves
  <1> SUFFICES ASSUME pass.pc # "idle", ~pass.raced
               PROVE  /\ pass.pc = "refused" =>
                             \A k \in Partition : \A t \in Of(k, DOMAIN dst) : dst[t] = pass.start[t]
                      /\ \A k \in Partition : Refused(q, pass.start, pass.now, k) =>
                             \A t \in Of(k, DOMAIN dst) : dst[t] = pass.start[t]
                      /\ pass.pc = "done" => \A k \in Partition : ~Refused(q, pass.start, pass.now, k) =>
                             /\ \A t \in Of(k, DOMAIN dst) : dst[t] = Outcome(q, pass.start, pass.now)[t]
                             /\ \A s \in Steps(q, dst, pass.now, k) : Undeclared(q, s.t)
                             /\ q.prune => \A n \in pass.now .. MaxClock :
                                    LET here  == {t \in Of(k, LiveIn(dst, n)) : ~Undeclared(q, t)}
                                        there == {t \in Of(k, LiveIn(q.src, n)) : ~Undeclared(q, t)}
                                    IN there \ Denies(there) = here \ Denies(here)
                                       /\ Denies(there) \subseteq Denies(here)
    BY DEF PassLeaves
  <1>1. Recorded(q, pass, clock) /\ \E gap : Halfway(q, pass, dst, clock, gap)
    BY DEF PassesInv, PassInv
  <1>2. PICK gap : Halfway(q, pass, dst, clock, gap)
    BY <1>1
  <1>3. /\ Stores(q, pass.start) /\ pass.now \in Nat /\ Stores(q, dst) /\ DOMAIN dst = DOMAIN pass.start
        /\ clock \in Nat
    BY <1>1, <1>2, StoresNow, RelationsAssumption DEF Recorded, Begun, Halfway, PassesInv, CallsInv, Typed
  <1>4. ASSUME NEW k \in Partition, ~Goes(q, pass.start, pass.now, k), NEW t \in Of(k, DOMAIN dst)
        PROVE  dst[t] = pass.start[t]
    BY <1>2, <1>4, StillIs DEF Of
  <1>5. pass.pc = "refused" => \A k \in Partition : ~Goes(q, pass.start, pass.now, k)
    BY <1>1 DEF Recorded, Goes
  <1>6. \A k \in Partition : Refused(q, pass.start, pass.now, k) => ~Goes(q, pass.start, pass.now, k)
    BY DEF Goes
  <1>7. ASSUME NEW k \in Partition, pass.pc = "done", ~Refused(q, pass.start, pass.now, k)
        PROVE  /\ \A t \in Of(k, DOMAIN dst) : dst[t] = Outcome(q, pass.start, pass.now)[t]
               /\ \A s \in Steps(q, dst, pass.now, k) : Undeclared(q, s.t)
               /\ q.prune => \A n \in pass.now .. MaxClock :
                      LET here  == {t \in Of(k, LiveIn(dst, n)) : ~Undeclared(q, t)}
                          there == {t \in Of(k, LiveIn(q.src, n)) : ~Undeclared(q, t)}
                      IN there \ Denies(there) = here \ Denies(here) /\ Denies(there) \subseteq Denies(here)
    <2>1. Left(q, pass.start, pass.now, k, dst)
      BY <1>1, <1>2, <1>7, LeftIs
    <2>2. \A t \in Of(k, DOMAIN dst) : dst[t] = Outcome(q, pass.start, pass.now)[t]
      BY <2>1 DEF Left, Of
    <2>3. \A s \in Steps(q, dst, pass.now, k) : Undeclared(q, s.t)
      BY <1>3, <1>7, <2>1, LeavesNothing
    <2>4. ASSUME q.prune, NEW n \in pass.now .. MaxClock
          PROVE  LET here  == {t \in Of(k, LiveIn(dst, n)) : ~Undeclared(q, t)}
                     there == {t \in Of(k, LiveIn(q.src, n)) : ~Undeclared(q, t)}
                 IN there \ Denies(there) = here \ Denies(here) /\ Denies(there) \subseteq Denies(here)
      <3>1. n \in Nat /\ pass.now <= n
        BY <1>3, <2>4, RelationsAssumption
      <3> QED
        BY <1>3, <1>7, <2>1, <2>4, <3>1, LeavesPruned
    <2> QED
      BY <2>2, <2>3, <2>4
  <1>8. pass.pc = "refused" => \A k \in Partition : \A t \in Of(k, DOMAIN dst) : dst[t] = pass.start[t]
    BY <1>4, <1>5
  <1>9. \A k \in Partition : Refused(q, pass.start, pass.now, k) =>
            \A t \in Of(k, DOMAIN dst) : dst[t] = pass.start[t]
    BY <1>4, <1>6
  <1> QED
    BY <1>7, <1>8, <1>9

\* A refused pass, and a refused partition, leave the store as it was; a pass that ends leaves
\* what it planned, a pruned one what the source allows and at least what it denies at every
\* instant from then on, and another pass finds nothing to write (reconcile.ts,
\* reconcileRelations), for any content and any order of the partitions.
THEOREM PassesLeave == Spec => []PassLeaves
  <1> QED
    BY PassInvLeaves, PassesInvInit, PassesInvNext, PTL DEF Spec

-----------------------------------------------------------------------------
(* The relations of a type.                                                *)

\* What gives a relation: the least set with it that what is included does not lead out of.
LEMMA DownIs ==
  ASSUME NEW r \in Rel
  PROVE  /\ r \in Down[r] /\ Down[r] \subseteq Rel
         /\ \A a \in Down[r] : \A i \in Includes[a] : i \in Down[r]
         /\ \A X : r \in X /\ (\A a \in Rel : a \in X => \A i \in Includes[a] : i \in X) => Down[r] \subseteq X
  <1> DEFINE arcs == {a \in Rel \X Rel : a[2] \in Includes[a[1]]}
             n == Cardinality(Rel)
             D == Spread(arcs, {r}, n)
  <1>1. Down[r] = D
    BY DEF Down
  <1>2. IsFiniteSet(Rel) /\ n \in Nat /\ n <= n
    BY RelationTuplesAssumption, FS_CardinalityType
  <1>3. \A a \in Rel : Includes[a] \subseteq Rel
    BY RelationTuplesAssumption
  <1>4. \A a \in Rel : \A i \in Includes[a] : <<a, i>> \in arcs
    BY <1>3
  <1>5. \A a \in arcs : a[1] \in Rel /\ a[2] \in Rel /\ a[2] \in Includes[a[1]]
    OBVIOUS
  <1>c. Cardinality(Rel) <= n
    BY <1>2
  <1> HIDE DEF arcs, n
  <1>6. ASSUME NEW X, r \in X, \A a \in Rel : a \in X => \A i \in Includes[a] : i \in X
        PROVE  D \subseteq X
    <2>1. {r} \subseteq X /\ Closed(arcs, X)
      BY <1>5, <1>6 DEF Closed
    <2> QED
      BY <1>2, <2>1, SpreadLeast
  <1>7. r \in D
    BY <1>2, SpreadFrom
  <1>8. \A a \in arcs : a[1] \in D /\ a[2] \in Rel => a[2] \in D
    BY <1>2, <1>5, <1>c, SpreadCloses
  <1>9. D \subseteq Rel
    BY <1>3, <1>6
  <1>10. \A a \in D : \A i \in Includes[a] : i \in D
    <2> HIDE DEF D
    <2> SUFFICES ASSUME NEW a \in D, NEW i \in Includes[a] PROVE i \in D
      OBVIOUS
    <2> DEFINE e == <<a, i>>
    <2>1. e \in arcs /\ e[1] = a /\ e[2] = i
      BY <1>4, <1>9
    <2> QED
      BY <1>5, <1>8, <2>1
  <1> HIDE DEF D
  <1> QED
    BY <1>1, <1>6, <1>7, <1>9, <1>10

\* What a relation gives: the least set with it that what includes does not lead out of.
LEMMA UpIs ==
  ASSUME NEW r \in Rel
  PROVE  /\ r \in Up[r] /\ Up[r] \subseteq Rel
         /\ \A a \in Up[r], p \in Rel : a \in Includes[p] => p \in Up[r]
         /\ \A X : r \in X /\ (\A a \in Rel, p \in Rel : a \in X /\ a \in Includes[p] => p \in X) => Up[r] \subseteq X
  <1> DEFINE arcs == {a \in Rel \X Rel : a[1] \in Includes[a[2]]}
             n == Cardinality(Rel)
             D == Spread(arcs, {r}, n)
  <1>1. Up[r] = D
    BY DEF Up
  <1>2. IsFiniteSet(Rel) /\ n \in Nat /\ n <= n
    BY RelationTuplesAssumption, FS_CardinalityType
  <1>4. \A a \in Rel, p \in Rel : a \in Includes[p] => <<a, p>> \in arcs
    OBVIOUS
  <1>5. \A a \in arcs : a[1] \in Rel /\ a[2] \in Rel /\ a[1] \in Includes[a[2]]
    OBVIOUS
  <1>c. Cardinality(Rel) <= n
    BY <1>2
  <1> HIDE DEF arcs, n
  <1>6. ASSUME NEW X, r \in X, \A a \in Rel, p \in Rel : a \in X /\ a \in Includes[p] => p \in X
        PROVE  D \subseteq X
    <2>1. {r} \subseteq X /\ Closed(arcs, X)
      BY <1>5, <1>6 DEF Closed
    <2> QED
      BY <1>2, <2>1, SpreadLeast
  <1>7. r \in D
    BY <1>2, SpreadFrom
  <1>8. \A a \in arcs : a[1] \in D /\ a[2] \in Rel => a[2] \in D
    BY <1>2, <1>5, <1>c, SpreadCloses
  <1>9. D \subseteq Rel
    BY <1>6
  <1>10. \A a \in D, p \in Rel : a \in Includes[p] => p \in D
    <2> HIDE DEF D
    <2> SUFFICES ASSUME NEW a \in D, NEW p \in Rel, a \in Includes[p] PROVE p \in D
      OBVIOUS
    <2> DEFINE e == <<a, p>>
    <2>1. e \in arcs /\ e[1] = a /\ e[2] = p
      BY <1>4, <1>9
    <2> QED
      BY <1>8, <2>1
  <1> HIDE DEF D
  <1> QED
    BY <1>1, <1>6, <1>7, <1>9, <1>10

\* What includes goes with what is included, and one walk is the other read backwards.
LEMMA DownIsUp ==
  ASSUME NEW r \in Rel, NEW x \in Rel
  PROVE  /\ x \in Down[r] <=> r \in Up[x]
         /\ x \in Down[r] => Up[r] \subseteq Up[x] /\ Down[x] \subseteq Down[r]
  <1>1. \A y \in Rel, z \in Rel : z \in Up[y] => Up[z] \subseteq Up[y]
    BY UpIs
  <1>2. \A y \in Rel, z \in Rel : z \in Down[y] => Down[z] \subseteq Down[y]
    BY DownIs
  <1>3. ASSUME NEW y \in Rel, NEW z \in Down[y] PROVE y \in Up[z]
    <2> DEFINE X == {w \in Rel : y \in Up[w]}
    <2>1. y \in X
      BY UpIs
    <2>2. ASSUME NEW a \in Rel, a \in X, NEW i \in Includes[a] PROVE i \in X
      <3>1. i \in Rel
        BY RelationTuplesAssumption
      <3>2. a \in Up[i]
        BY <3>1, UpIs
      <3> QED
        BY <1>1, <2>2, <3>1, <3>2
    <2>3. Down[y] \subseteq X
      BY <2>1, <2>2, DownIs
    <2> QED
      BY <2>3
  <1>4. ASSUME NEW y \in Rel, NEW z \in Up[y] PROVE y \in Down[z]
    <2> DEFINE X == {w \in Rel : y \in Down[w]}
    <2>1. y \in X
      BY DownIs
    <2>2. ASSUME NEW a \in Rel, NEW p \in Rel, a \in X, a \in Includes[p] PROVE p \in X
      <3>1. a \in Down[p]
        BY <2>2, DownIs
      <3> QED
        BY <1>2, <2>2, <3>1
    <2>3. Up[y] \subseteq X
      BY <2>1, <2>2, UpIs
    <2> QED
      BY <2>3
  <1> QED
    BY <1>1, <1>2, <1>3, <1>4

\* What a relation gives is itself and what the relations that include it give; what gives it,
\* itself and what gives the ones it includes.
LEMMA OneRound ==
  ASSUME NEW r \in Rel
  PROVE  /\ \A x : x \in Up[r] <=> x = r \/ \E p \in Rel : r \in Includes[p] /\ x \in Up[p]
         /\ \A x : x \in Down[r] <=> x = r \/ \E i \in Includes[r] : x \in Down[i]
  <1>0. Includes[r] \subseteq Rel
    BY RelationTuplesAssumption
  <1>1. \A p \in Rel : r \in Includes[p] => Up[p] \subseteq Up[r]
    <2>1. \A p \in Rel : r \in Includes[p] => r \in Down[p]
      BY DownIs
    <2> QED
      BY <2>1, DownIsUp
  <1>2. \A i \in Includes[r] : Down[i] \subseteq Down[r]
    BY <1>0, DownIs, DownIsUp
  <1> DEFINE U == {x \in Rel : x = r \/ \E p \in Rel : r \in Includes[p] /\ x \in Up[p]}
             D == {x \in Rel : x = r \/ \E i \in Includes[r] : x \in Down[i]}
  <1>3. Up[r] \subseteq U
    <2>1. r \in U
      OBVIOUS
    <2>2. ASSUME NEW a \in Rel, NEW p \in Rel, a \in U, a \in Includes[p] PROVE p \in U
      <3>1. CASE a = r
        BY <2>2, <3>1, UpIs
      <3>2. CASE \E z \in Rel : r \in Includes[z] /\ a \in Up[z]
        BY <2>2, <3>2, UpIs
      <3> QED
        BY <2>2, <3>1, <3>2
    <2> QED
      BY <2>1, <2>2, UpIs
  <1>4. Down[r] \subseteq D
    <2>1. r \in D
      OBVIOUS
    <2>2. ASSUME NEW a \in Rel, a \in D, NEW i \in Includes[a] PROVE i \in D
      <3>0. i \in Rel
        BY RelationTuplesAssumption
      <3>1. CASE a = r
        BY <2>2, <3>0, <3>1, DownIs
      <3>2. CASE \E z \in Includes[r] : a \in Down[z]
        BY <1>0, <2>2, <3>0, <3>2, DownIs
      <3> QED
        BY <2>2, <3>1, <3>2
    <2> QED
      BY <2>1, <2>2, DownIs
  <1> QED
    BY <1>1, <1>2, <1>3, <1>4, UpIs, DownIs

\* Nothing includes itself: by induction on the rank of a relation, from the least or from the
\* greatest.
LEMMA ByRank ==
  ASSUME NEW Q \in SUBSET Rel
  PROVE  /\ (\A r \in Rel : Includes[r] \subseteq Q => r \in Q) => Q = Rel
         /\ (\A r \in Rel : (\A p \in Rel : r \in Includes[p] => p \in Q) => r \in Q) => Q = Rel
  <1> DEFINE N == Cardinality(Rel)
  <1>0. N \in Nat
    BY RelationTuplesAssumption, FS_CardinalityType
  <1> HIDE DEF N
  <1>1. PICK rank \in [Rel -> 1 .. N] : \A r \in Rel : \A i \in Includes[r] : rank[i] < rank[r]
    BY RelationTuplesAssumption DEF N
  <1>i. \A r \in Rel : Includes[r] \subseteq Rel
    BY RelationTuplesAssumption
  <1>2. ASSUME \A r \in Rel : Includes[r] \subseteq Q => r \in Q PROVE Q = Rel
    <2> DEFINE X == {k \in 0 .. N : \A r \in Rel : rank[r] <= k => r \in Q}
    <2>1. 0 \in X
      BY <1>0, <1>1
    <2>2. ASSUME NEW k \in 1 .. N, k - 1 \in X PROVE k \in X
      <3>1. ASSUME NEW r \in Rel, rank[r] <= k PROVE r \in Q
        <4>1. \A i \in Includes[r] : rank[i] <= k - 1
          BY <1>0, <1>1, <1>i, <3>1
        <4> QED
          BY <1>2, <1>i, <2>2, <4>1
      <3> QED
        BY <1>0, <3>1
    <2> HIDE DEF X
    <2>3. X = 0 .. N
      <3>1. X \in SUBSET (0 .. N)
        BY DEF X
      <3> QED
        BY <1>0, <2>1, <2>2, <3>1, UpTo
    <2>4. N \in X
      BY <1>0, <2>3
    <2> QED
      BY <1>0, <1>1, <2>4 DEF X
  <1>3. ASSUME \A r \in Rel : (\A p \in Rel : r \in Includes[p] => p \in Q) => r \in Q PROVE Q = Rel
    <2> DEFINE X == {k \in 0 .. N : \A r \in Rel : rank[r] > N - k => r \in Q}
    <2>1. 0 \in X
      BY <1>0, <1>1
    <2>2. ASSUME NEW k \in 1 .. N, k - 1 \in X PROVE k \in X
      <3>1. ASSUME NEW r \in Rel, rank[r] > N - k PROVE r \in Q
        <4>1. \A p \in Rel : r \in Includes[p] => rank[p] > N - (k - 1)
          BY <1>0, <1>1, <3>1
        <4> QED
          BY <1>3, <2>2, <4>1
      <3> QED
        BY <1>0, <3>1
    <2> HIDE DEF X
    <2>3. X = 0 .. N
      <3>1. X \in SUBSET (0 .. N)
        BY DEF X
      <3> QED
        BY <1>0, <2>1, <2>2, <3>1, UpTo
    <2>4. N \in X
      BY <1>0, <2>3
    <2> QED
      BY <1>0, <1>1, <2>4 DEF X
  <1> QED
    BY <1>2, <1>3

-----------------------------------------------------------------------------
(* The two drivers.                                                        *)

\* denied_X: the denies that the model of OpenFGA sends down are those of what X gives.
LEMMA FgaDeniedIs ==
  ASSUME NEW S, NEW u, NEW o
  PROVE  FgaDenied(S, u, o) = [r \in Rel |-> Up[r] \cap Found(S, u, o, TRUE) # {}]
  <1> DEFINE found == Found(S, u, o, TRUE)
             Rule(f) == f = [r \in Rel |-> Direct(S, u, r, o, TRUE)
                                           \/ \E p \in Rel : r \in Includes[p] /\ f[p]]
             seen == [r \in Rel |-> Up[r] \cap found # {}]
  <1>1. \A r : Direct(S, u, r, o, TRUE) <=> r \in found
    BY DEF Direct, Found
  <1>2. FgaDenied(S, u, o) = CHOOSE f : Rule(f)
    BY DEF FgaDenied
  <1>3. Rule(seen)
    <2>1. ASSUME NEW r \in Rel
          PROVE  seen[r] = (Direct(S, u, r, o, TRUE) \/ \E p \in Rel : r \in Includes[p] /\ seen[p])
      <3>1. Up[r] \cap found # {} <=> r \in found \/ \E p \in Rel : r \in Includes[p] /\ Up[p] \cap found # {}
        BY OneRound
      <3> HIDE DEF found
      <3> QED
        BY <1>1, <3>1
    <2> DEFINE more == [r \in Rel |-> Direct(S, u, r, o, TRUE) \/ \E p \in Rel : r \in Includes[p] /\ seen[p]]
    <2>2. \A r \in Rel : seen[r] = more[r]
      BY <2>1
    <2>3. DOMAIN seen = Rel /\ DOMAIN more = Rel
      OBVIOUS
    <2>4. seen = [r \in Rel |-> seen[r]] /\ more = [r \in Rel |-> more[r]]
      OBVIOUS
    <2> HIDE DEF seen, more
    <2>5. seen = more
      BY <2>2, <2>4
    <2> QED
      BY <2>5 DEF more
  <1>4. ASSUME NEW f, Rule(f) PROVE f = seen
    <2>1. \A r \in Rel : f[r] = (Direct(S, u, r, o, TRUE) \/ \E p \in Rel : r \in Includes[p] /\ f[p])
      BY <1>4
    <2> DEFINE Q == {r \in Rel : f[r] = seen[r]}
    <2>2. ASSUME NEW r \in Rel, \A p \in Rel : r \in Includes[p] => p \in Q PROVE r \in Q
      <3>1. \A p \in Rel : r \in Includes[p] => f[p] = seen[p]
        BY <2>2
      <3>2. seen[r] = (Direct(S, u, r, o, TRUE) \/ \E p \in Rel : r \in Includes[p] /\ seen[p])
        BY <1>3
      <3> HIDE DEF seen
      <3>3. f[r] = seen[r]
        BY <2>1, <3>1, <3>2
      <3> QED
        BY <3>3
    <2>3. Q = Rel
      <3> HIDE DEF Q
      <3>1. Q \in SUBSET Rel
        BY DEF Q
      <3> QED
        BY <2>2, <3>1, ByRank
    <2>4. f = [r \in Rel |-> f[r]] /\ seen = [r \in Rel |-> seen[r]]
      <3>1. DOMAIN f = Rel
        BY <1>4
      <3> QED
        BY <1>4
    <2>5. \A r \in Rel : f[r] = seen[r]
      BY <2>3
    <2> HIDE DEF seen
    <2> QED
      BY <2>4, <2>5
  <1> HIDE DEF Rule, seen
  <1>5. (CHOOSE f : Rule(f)) = seen
    BY <1>3, <1>4
  <1> QED
    BY <1>2, <1>5 DEF seen

\* The check of OpenFGA on an object is the cut of SQL.
LEMMA FgaCheckIs ==
  ASSUME NEW S, NEW u, NEW r \in Rel, NEW o, o \notin Group
  PROVE  FgaCheck(S, u, r, o) = SqlCheck(S, u, r, o)
  <1> DEFINE allowed == Found(S, u, o, FALSE)
             denied == Found(S, u, o, TRUE)
             cut == FgaDenied(S, u, o)
             Rule(f) == f = [z \in Rel |-> (Direct(S, u, z, o, FALSE) \/ \E i \in Includes[z] : f[i]) /\ ~cut[z]]
             counts == [z \in Rel |-> CutPathAllows(z, allowed, denied)]
  <1>1. \A z : Direct(S, u, z, o, FALSE) <=> z \in allowed
    BY DEF Direct, Found
  <1>2. FgaCheck(S, u, r, o) = (CHOOSE f : Rule(f))[r]
    BY DEF FgaCheck
  <1>3. \A z \in Rel : cut[z] = (Up[z] \cap denied # {})
    BY FgaDeniedIs
  <1>4. \A z \in Rel : CutPathAllows(z, allowed, denied) <=> \E g \in Down[z] : g \in allowed /\ Up[g] \cap denied = {}
    BY DEF CutPathAllows
  <1>5. Rule(counts)
    <2>1. ASSUME NEW z \in Rel
          PROVE  CutPathAllows(z, allowed, denied)
                     <=> (z \in allowed \/ \E i \in Includes[z] : CutPathAllows(i, allowed, denied))
                         /\ Up[z] \cap denied = {}
      <3>0. Includes[z] \subseteq Rel
        BY RelationTuplesAssumption
      <3>1. \A g \in Down[z] : Up[z] \subseteq Up[g]
        BY DownIs, DownIsUp
      <3>2. \A g : g \in Down[z] <=> g = z \/ \E i \in Includes[z] : g \in Down[i]
        BY OneRound
      <3> HIDE DEF allowed, denied
      <3>3. ASSUME CutPathAllows(z, allowed, denied)
            PROVE  (z \in allowed \/ \E i \in Includes[z] : CutPathAllows(i, allowed, denied))
                   /\ Up[z] \cap denied = {}
        <4>1. PICK g \in Down[z] : g \in allowed /\ Up[g] \cap denied = {}
          BY <1>4, <3>3
        <4>2. Up[z] \cap denied = {}
          BY <3>1, <4>1
        <4> QED
          BY <1>4, <3>0, <3>2, <4>1, <4>2
      <3>4. ASSUME z \in allowed, Up[z] \cap denied = {} PROVE CutPathAllows(z, allowed, denied)
        BY <1>4, <3>2, <3>4
      <3>5. ASSUME NEW i \in Includes[z], CutPathAllows(i, allowed, denied) PROVE CutPathAllows(z, allowed, denied)
        BY <1>4, <3>0, <3>2, <3>5
      <3> QED
        BY <3>3, <3>4, <3>5
    <2> DEFINE more == [z \in Rel |-> (Direct(S, u, z, o, FALSE) \/ \E i \in Includes[z] : counts[i]) /\ ~cut[z]]
    <2>2. \A z \in Rel : counts[z] = more[z]
      <3> SUFFICES ASSUME NEW z \in Rel PROVE counts[z] = more[z]
        OBVIOUS
      <3>1. \A i \in Includes[z] : counts[i] = CutPathAllows(i, allowed, denied)
        BY RelationTuplesAssumption
      <3>2. more[z] = ((z \in allowed \/ \E i \in Includes[z] : CutPathAllows(i, allowed, denied))
                       /\ ~(Up[z] \cap denied # {}))
        <4> HIDE DEF counts, cut, allowed, denied
        <4> QED
          BY <1>1, <1>3, <3>1
      <3>3. counts[z] = CutPathAllows(z, allowed, denied)
        OBVIOUS
      <3>4. CutPathAllows(z, allowed, denied) \in BOOLEAN
        BY DEF CutPathAllows
      <3> HIDE DEF counts, more, allowed, denied
      <3> QED
        BY <2>1, <3>2, <3>3, <3>4
    <2>4. counts = [z \in Rel |-> counts[z]] /\ more = [z \in Rel |-> more[z]]
      OBVIOUS
    <2> HIDE DEF counts, more
    <2>5. counts = more
      BY <2>2, <2>4
    <2> QED
      BY <2>5 DEF more
  <1>6. ASSUME NEW f, Rule(f) PROVE f = counts
    <2>1. \A z \in Rel : f[z] = ((Direct(S, u, z, o, FALSE) \/ \E i \in Includes[z] : f[i]) /\ ~cut[z])
      <3> HIDE DEF cut
      <3> QED
        BY <1>6
    <2> DEFINE Q == {z \in Rel : f[z] = counts[z]}
    <2>2. ASSUME NEW z \in Rel, Includes[z] \subseteq Q PROVE z \in Q
      <3>1. \A i \in Includes[z] : f[i] = counts[i]
        BY <2>2
      <3>2. counts[z] = ((Direct(S, u, z, o, FALSE) \/ \E i \in Includes[z] : counts[i]) /\ ~cut[z])
        <4> HIDE DEF cut, counts
        <4> QED
          BY <1>5
      <3> HIDE DEF counts, cut, Rule
      <3>3. f[z] = counts[z]
        BY <2>1, <3>1, <3>2
      <3> QED
        BY <3>3
    <2>3. Q = Rel
      <3> HIDE DEF Q
      <3>1. Q \in SUBSET Rel
        BY DEF Q
      <3> QED
        BY <2>2, <3>1, ByRank
    <2>4. f = [z \in Rel |-> f[z]] /\ counts = [z \in Rel |-> counts[z]]
      <3>1. DOMAIN f = Rel
        BY <1>6
      <3> QED
        BY <1>6
    <2>5. \A z \in Rel : f[z] = counts[z]
      BY <2>3
    <2> HIDE DEF counts, cut, Rule
    <2> QED
      BY <2>4, <2>5
  <1>9. counts[r] = CutPathAllows(r, allowed, denied)
    OBVIOUS
  <1> HIDE DEF Rule, counts
  <1>7. (CHOOSE f : Rule(f)) = counts
    BY <1>5, <1>6
  <1>8. SqlCheck(S, u, r, o) = CutPathAllows(r, allowed, denied)
    BY DEF SqlCheck
  <1> QED
    BY <1>2, <1>7, <1>8, <1>9

\* Below every relation is one that includes none.
LEMMA LeafBelow ==
  ASSUME NEW r \in Rel
  PROVE  \E x \in Down[r] : Includes[x] = {}
  <1> DEFINE Q == {z \in Rel : \E x \in Down[z] : Includes[x] = {}}
  <1>1. ASSUME NEW z \in Rel, Includes[z] \subseteq Q PROVE z \in Q
    <2>1. CASE Includes[z] = {}
      BY <2>1, DownIs
    <2>2. CASE Includes[z] # {}
      <3>1. PICK i \in Includes[z] : i \in Q
        BY <1>1, <2>2
      <3>2. PICK x \in Down[i] : Includes[x] = {}
        BY <3>1
      <3>3. x \in Down[z]
        BY OneRound
      <3> QED
        BY <3>2, <3>3
    <2> QED
      BY <2>1, <2>2
  <1> HIDE DEF Q
  <1>2. Q \in SUBSET Rel
    BY DEF Q
  <1>3. Q = Rel
    BY <1>1, <1>2, ByRank
  <1> QED
    BY <1>3 DEF Q

\* decideMany: a deny on what gives a relation, or on what that gives, is seen on a relation below
\* that includes none.
LEMMA FgaDecideIs ==
  ASSUME NEW S, NEW u, NEW r \in Rel, NEW o, o \notin Group
  PROVE  FgaDecide(S, u, r, o) = SqlDecide(S, u, r, o)
  <1> DEFINE allowed == Found(S, u, o, FALSE)
             denied == Found(S, u, o, TRUE)
             seen == \E x \in Down[r] : Includes[x] = {} /\ FgaDenied(S, u, o)[x]
  <1>1. FgaCheck(S, u, r, o) = CutPathAllows(r, allowed, denied)
    BY FgaCheckIs DEF SqlCheck
  <1>2. \A x \in Rel : FgaDenied(S, u, o)[x] = (Up[x] \cap denied # {})
    BY FgaDeniedIs
  <1>3. DeniableAbove[r] = UNION {Up[g] : g \in Down[r]}
    BY DEF DeniableAbove
  <1>4. seen <=> \E x \in Down[r] : Includes[x] = {} /\ Up[x] \cap denied # {}
    BY <1>2, DownIs
  <1> HIDE DEF denied, allowed, seen
  <1>5. ASSUME NEW g \in Down[r], Up[g] \cap denied # {}
        PROVE  \E x \in Down[r] : Includes[x] = {} /\ Up[x] \cap denied # {}
    <2>0. g \in Rel
      BY DownIs
    <2>1. PICK x \in Down[g] : Includes[x] = {}
      BY <2>0, LeafBelow
    <2>2. x \in Rel
      BY <2>0, DownIs
    <2>3. Up[g] \subseteq Up[x] /\ x \in Down[r]
      BY <2>0, <2>1, <2>2, DownIsUp
    <2> QED
      BY <1>5, <2>1, <2>3
  <1>6. seen <=> DeniableAbove[r] \cap denied # {}
    BY <1>3, <1>4, <1>5
  <1>7. FgaDecide(S, u, r, o) = IF CutPathAllows(r, allowed, denied) THEN "allow"
                                ELSE IF seen THEN "deny" ELSE "none"
    BY <1>1 DEF FgaDecide, seen
  <1>8. SqlDecide(S, u, r, o) = IF CutPathAllows(r, allowed, denied) THEN "allow"
                                ELSE IF DeniableAbove[r] \cap denied # {} THEN "deny" ELSE "none"
    BY DEF SqlDecide, DecideFrom, allowed, denied
  <1> QED
    BY <1>6, <1>7, <1>8

\* listObjects finds what check allows.
LEMMA ObjectsAre ==
  ASSUME NEW S, NEW u, NEW r \in Rel, NEW o, o \notin Group
  PROVE  SqlCheck(S, u, r, o) = (o \in SqlObjects(S, u, r))
  <1> DEFINE allowed == Found(S, u, o, FALSE)
             denied == Found(S, u, o, TRUE)
             has == {t.object : t \in {x \in S : x.user \in Principals(S, u)}} \ Group
  <1>1. SqlCheck(S, u, r, o) = CutPathAllows(r, allowed, denied)
    BY DEF SqlCheck
  <1>2. o \in SqlObjects(S, u, r) <=> o \in has /\ CutPathAllows(r, allowed, denied)
    BY DEF SqlObjects
  <1>3. CutPathAllows(r, allowed, denied) \in BOOLEAN
        /\ (CutPathAllows(r, allowed, denied) => allowed # {})
    BY DEF CutPathAllows
  <1>4. allowed # {} => o \in has
    BY DEF Found
  <1> HIDE DEF allowed, denied, has
  <1> QED
    BY <1>1, <1>2, <1>3, <1>4

\* A walk down the memberships finds a subject if one up from it comes across the walk's start.
LEMMA WalkDownIs ==
  ASSUME NEW S \in SUBSET Tuple, NEW from \in SUBSET Subject, NEW h \in Holder
  PROVE  LET groups == Spread({<<t.object, t.user>> : t \in Memberships(S)},
                              from \cap Group, Cardinality(Group)) \cap Group
         IN (\E x \in from : x \in Principals(S, h))
                <=> h \in from \/ \E m \in Memberships(S) : m.user = h /\ m.object \in groups
  <1> DEFINE arcs == {<<t.object, t.user>> : t \in Memberships(S)}
             n == Cardinality(Group)
             walk == Spread(arcs, from \cap Group, n)
             groups == walk \cap Group
             Into == \E m \in Memberships(S) : m.user = h /\ m.object \in groups
  <1>1. n \in Nat /\ IsFiniteSet(Group) /\ Cardinality(Group) <= n
    <2>1. n \in Nat /\ IsFiniteSet(Group)
      BY RelationTuplesAssumption, FS_CardinalityType
    <2> QED
      BY <2>1
  <1>2. \A m \in Memberships(S) : m.user \in Subject /\ m.object \in Group /\ <<m.object, m.user>> \in arcs
    BY RelationTuplesAssumption DEF Memberships, Tuple
  <1>3. \A a \in arcs : a[1] \in Group /\ a[2] \in Subject /\ \E m \in Memberships(S) : a[1] = m.object /\ a[2] = m.user
    BY <1>2
  <1>h. h \notin Group
    BY RelationTuplesAssumption
  <1> HIDE DEF arcs, n
  <1>4. from \cap Group \subseteq walk
    BY <1>1, SpreadFrom
  <1>5. \A m \in Memberships(S) : m.object \in groups /\ m.user \in Group => m.user \in groups
    <2>1. \A a \in arcs : a[1] \in walk /\ a[2] \in Group => a[2] \in walk
      BY <1>1, <1>3, SpreadCloses
    <2> HIDE DEF walk
    <2> SUFFICES ASSUME NEW m \in Memberships(S), m.object \in groups, m.user \in Group PROVE m.user \in groups
      OBVIOUS
    <2> DEFINE a == <<m.object, m.user>>
    <2>2. a \in arcs /\ a[1] = m.object /\ a[2] = m.user
      BY <1>2
    <2> QED
      BY <2>1, <2>2
  <1>6. ASSUME NEW y \in groups PROVE \E x \in from : x \in Principals(S, y)
    <2> DEFINE X == {z \in Subject : z \in Group => \E x \in from : x \in Principals(S, z)}
    <2>1. from \cap Group \subseteq X
      BY PrincipalsAre
    <2>2. ASSUME NEW a \in arcs, a[1] \in X PROVE a[2] \in X
      <3>1. PICK m \in Memberships(S) : a[1] = m.object /\ a[2] = m.user
        BY <1>3
      <3>2. PICK x \in from : x \in Principals(S, m.object)
        BY <1>2, <2>2, <3>1
      <3>3. m.object \in Principals(S, m.user)
        BY PrincipalsAre
      <3>4. Principals(S, m.object) \subseteq Principals(S, m.user)
        BY <3>3, PrincipalsAre
      <3> QED
        BY <1>2, <3>1, <3>2, <3>4
    <2>3. walk \subseteq X
      <3>1. Closed(arcs, X)
        BY <2>2 DEF Closed
      <3> HIDE DEF X
      <3> QED
        BY <1>1, <2>1, <3>1, SpreadLeast
    <2> QED
      BY <2>3 DEF groups
  <1> HIDE DEF walk
  <1>7. ASSUME NEW x \in from, x \in Principals(S, h), h \notin from PROVE Into
    <2> DEFINE Z == {z \in {h} \cup Group : z \in groups => Into}
    <2>1. h \in Z
      BY <1>h
    <2>2. ASSUME NEW m \in Memberships(S), m.user \in Z PROVE m.object \in Z
      <3>1. m.object \in Group
        BY <1>2
      <3>2. ASSUME m.object \in groups PROVE Into
        <4>1. CASE m.user = h
          BY <3>2, <4>1
        <4>2. CASE m.user \in Group
          BY <1>5, <2>2, <3>2, <4>2
        <4> QED
          BY <2>2, <4>1, <4>2
      <3> HIDE DEF Into
      <3> QED
        BY <3>1, <3>2
    <2>3. Principals(S, h) \subseteq Z
      <3> HIDE DEF Z
      <3> QED
        BY <2>1, <2>2, PrincipalsAre
    <2>4. x \in {h} \cup Group /\ x # h
      BY <1>7, <2>3
    <2> QED
      BY <1>4, <1>7, <2>3, <2>4
  <1>8. ASSUME NEW m \in Memberships(S), m.user = h, m.object \in groups
        PROVE  \E x \in from : x \in Principals(S, h)
    <2>1. PICK x \in from : x \in Principals(S, m.object)
      BY <1>6, <1>8
    <2>2. m.object \in Principals(S, h)
      BY <1>8, PrincipalsAre
    <2>3. Principals(S, m.object) \subseteq Principals(S, h)
      BY <2>2, PrincipalsAre
    <2> QED
      BY <2>1, <2>3
  <1>9. h \in from => \E x \in from : x \in Principals(S, h)
    BY PrincipalsAre
  <1>10. (\E x \in from : x \in Principals(S, h)) <=> h \in from \/ Into
    BY <1>7, <1>8, <1>9
  <1> QED
    BY <1>10 DEF Into, groups, walk, arcs, n

\* membersOf lists the holders that check allows.
LEMMA MembersAre ==
  ASSUME NEW S \in SUBSET Tuple, NEW r \in Rel, NEW o \in Object
  PROVE  MembersOf(S, r, o) = {h \in Holder : SqlCheck(S, h, r, o)}
  <1> DEFINE given == {t \in Allows(S) : t.object = o /\ t.rel \in Down[r]}
             from == {t.user : t \in given}
             groups == Spread({<<t.object, t.user>> : t \in Memberships(S)},
                              from \cap Group, Cardinality(Group)) \cap Group
             found == (from \cup {t.user : t \in {x \in Memberships(S) : x.object \in groups}}) \cap Holder
             inPlay == \E t \in Denies(S) : t.object = o /\ t.rel \in DeniableAbove[r]
  <1>0. o \notin Group
    BY RelationTuplesAssumption
  <1>1. MembersOf(S, r, o) = IF inPlay THEN {h \in found : SqlCheck(S, h, r, o)} ELSE found
    BY DEF MembersOf
  <1>2. from \in SUBSET Subject
    BY DEF Allows, Tuple
  <1>3. \A h \in Holder : h \in found <=> \E t \in given : t.user \in Principals(S, h)
    <2>1. ASSUME NEW h \in Holder
          PROVE  h \in found <=> \E t \in given : t.user \in Principals(S, h)
      <3>1. (\E x \in from : x \in Principals(S, h))
                <=> h \in from \/ \E m \in Memberships(S) : m.user = h /\ m.object \in groups
        <4> HIDE DEF from
        <4> QED
          BY <1>2, WalkDownIs
      <3>2. (\E x \in from : x \in Principals(S, h)) <=> \E t \in given : t.user \in Principals(S, h)
        BY Zenon
      <3> HIDE DEF from, groups
      <3>3. h \in found <=> h \in from \/ \E m \in Memberships(S) : m.user = h /\ m.object \in groups
        BY DEF found
      <3> QED
        BY <3>1, <3>2, <3>3
    <2> QED
      BY <2>1
  <1>4. \A h \in Holder : SqlCheck(S, h, r, o) <=>
            \E a \in given : a.user \in Principals(S, h)
                             /\ \A d \in Denies(S) : d.object = o /\ d.rel \in Up[a.rel] => d.user \notin Principals(S, h)
    <2>1. \A h : SqlCheck(S, h, r, o) <=> \E a \in Allows(S) : a.object = o /\ a.rel \in Down[r] /\ Counts(S, h, a)
      BY <1>0, CheckIs
    <2> QED
      BY <2>1 DEF Counts
  <1>5. DeniableAbove[r] = UNION {Up[g] : g \in Down[r]}
    BY DEF DeniableAbove
  <1>6. found \subseteq Holder
    OBVIOUS
  <1>7. ~inPlay => \A a \in given : \A d \in Denies(S) : ~(d.object = o /\ d.rel \in Up[a.rel])
    BY <1>5
  <1>8. \A h \in Holder : SqlCheck(S, h, r, o) => h \in found
    BY <1>3, <1>4
  <1>9. ~inPlay => \A h \in found : SqlCheck(S, h, r, o)
    <2> HIDE DEF found, inPlay, given
    <2> QED
      BY <1>3, <1>4, <1>6, <1>7
  <1> HIDE DEF found, inPlay
  <1> QED
    BY <1>1, <1>6, <1>8, <1>9

LEMMA DriversAnswerAlike ==
  ASSUME NEW S \in SUBSET Tuple
  PROVE  AnswersAgree(S)
  <1>1. Object \cap Group = {}
    BY RelationTuplesAssumption
  <1>2. ASSUME NEW u \in Subject, NEW r \in Rel, NEW o \in Object
        PROVE  /\ SqlCheck(S, u, r, o) = FgaCheck(S, u, r, o)
               /\ SqlDecide(S, u, r, o) = FgaDecide(S, u, r, o)
               /\ SqlCheck(S, u, r, o) = (o \in SqlObjects(S, u, r))
    <2>1. o \notin Group
      BY <1>1
    <2> QED
      BY <2>1, FgaCheckIs, FgaDecideIs, ObjectsAre
  <1> QED
    BY <1>2, MembersAre DEF AnswersAgree

\* Over any set of tuples, whatever the relations include and however the groups nest, the
\* recursive query of SQL and the model of OpenFGA give one answer to check and to decideMany, and
\* listObjects and membersOf list what check allows (repository README: "both drivers answer the
\* same").
THEOREM DriversAlwaysAgree == Spec => []DriversAgree
  <1>1. CallsInv /\ TypeOK => DriversAgree
    <2> SUFFICES ASSUME CallsInv PROVE AnswersAgree(Now)
      BY DEF DriversAgree
    <2>1. Now \in SUBSET Tuple
      BY DEF CallsInv, Typed, Now, LiveIn
    <2> QED
      BY <2>1, DriversAnswerAlike
  <1> QED
    BY <1>1, CallsInvHolds, TypesHold, PTL

============================================================================
