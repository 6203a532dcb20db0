--------------------------- MODULE ReconcileProofs ---------------------------
(***************************************************************************)
(* The passes of authz:reconcile, for every tree, catalog and content of   *)
(* the backends: what is revoked stays revoked, what a pass leaves has the *)
(* tree and the facts it should, a migration answers as its origin, and a  *)
(* maintenance pass opens nothing.                                         *)
(***************************************************************************)
EXTENDS Reconcile, TLAPS, FiniteSetTheorems, SequenceTheorems, WellFoundedInduction

HeldKey == Holder \X Place
DenyKey == Holder \X Scope \X Perm

-----------------------------------------------------------------------------
(* Tuples and stores.                                                      *)

LEMMA PairIs ==
  ASSUME NEW A, NEW B, NEW t \in A \X B
  PROVE  t = <<t[1], t[2]>> /\ t[1] \in A /\ t[2] \in B
  OBVIOUS

LEMMA TupleIs ==
  ASSUME NEW t \in Tuple
  PROVE  /\ t = <<t[1], t[2]>>
         /\ \/ t[1] = "parent" /\ t[2] \in Scope \X Scope
            \/ t[1] = "binding" /\ t[2] \in Place
            \/ t[1] = "role" /\ t[2] \in Place
            \/ t[1] = "held" /\ t[2] \in HeldKey
            \/ t[1] = "denied" /\ t[2] \in DenyKey
            \/ t[1] = "permits" /\ t[2] \in Role \X Perm
            \/ t[1] = "rooted" /\ t[2] = Root
  <1>1. CASE t \in {"parent"} \X (Scope \X Scope)
    BY <1>1, PairIs
  <1>2. CASE t \in {"binding", "role"} \X Place
    BY <1>2, PairIs
  <1>3. CASE t \in {"held"} \X (Holder \X Place)
    BY <1>3, PairIs DEF HeldKey
  <1>4. CASE t \in {"denied"} \X (Holder \X Scope \X Perm)
    BY <1>4, PairIs DEF DenyKey
  <1>5. CASE t \in {"permits"} \X (Role \X Perm)
    BY <1>5, PairIs
  <1>6. CASE t \in {<<"rooted", Root>>}
    BY <1>6, PairIs
  <1> QED
    BY <1>1, <1>2, <1>3, <1>4, <1>5, <1>6 DEF Tuple

LEMMA TupleMade ==
  /\ \A v \in Scope \X Scope : <<"parent", v>> \in Tuple
  /\ \A v \in Place : <<"binding", v>> \in Tuple
  /\ \A v \in Place : <<"role", v>> \in Tuple
  /\ \A v \in HeldKey : <<"held", v>> \in Tuple
  /\ \A v \in DenyKey : <<"denied", v>> \in Tuple
  /\ \A v \in Role \X Perm : <<"permits", v>> \in Tuple
  /\ <<"rooted", Root>> \in Tuple
  BY DEF Tuple, HeldKey, DenyKey

LEMMA TuplesOf ==
  ASSUME NEW x \in Store
  PROVE  /\ \A v : <<"parent", v>> \in Tuples(x) <=> v \in x.parent
         /\ \A v : <<"binding", v>> \in Tuples(x) <=> v \in x.binding
         /\ \A v : <<"role", v>> \in Tuples(x) <=> v \in x.role
         /\ \A v : <<"held", v>> \in Tuples(x) <=> v \in HeldKey /\ x.held[v] # Absent
         /\ \A v : <<"denied", v>> \in Tuples(x) <=> v \in x.denied
         /\ \A v : <<"permits", v>> \in Tuples(x) <=> v \in x.permits
         /\ \A v : <<"rooted", v>> \in Tuples(x) <=> v = Root /\ x.rooted
         /\ Tuples(x) \in SUBSET Tuple
  <1>1. x.rooted \in BOOLEAN /\ DOMAIN x.held = HeldKey /\ x.parent \in SUBSET (Scope \X Scope)
        /\ x.binding \in SUBSET Place /\ x.role \in SUBSET Place
        /\ x.denied \in SUBSET DenyKey /\ x.permits \in SUBSET (Role \X Perm)
    BY DEF Store, HeldKey, DenyKey
  <1>2. Tuples(x) \in SUBSET Tuple
    <2> SUFFICES ASSUME NEW t \in Tuples(x) PROVE t \in Tuple
      OBVIOUS
    <2>1. CASE t \in {"parent"} \X x.parent
      BY <1>1, <2>1, PairIs, TupleMade
    <2>2. CASE t \in {"binding"} \X x.binding
      BY <1>1, <2>2, PairIs, TupleMade
    <2>3. CASE t \in {"role"} \X x.role
      BY <1>1, <2>3, PairIs, TupleMade
    <2>4. CASE t \in {"held"} \X {k \in DOMAIN x.held : x.held[k] # Absent}
      BY <1>1, <2>4, PairIs, TupleMade
    <2>5. CASE t \in {"denied"} \X x.denied
      BY <1>1, <2>5, PairIs, TupleMade
    <2>6. CASE t \in {"permits"} \X x.permits
      BY <1>1, <2>6, PairIs, TupleMade
    <2>7. CASE t \in {u \in {<<"rooted", Root>>} : x.rooted}
      BY <1>1, <2>7, PairIs, TupleMade
    <2> QED
      BY <2>1, <2>2, <2>3, <2>4, <2>5, <2>6, <2>7 DEF Tuples
  <1> QED
    BY <1>1, <1>2 DEF Tuples

LEMMA StoreEq ==
  ASSUME NEW x \in Store, NEW y \in Store, x.parent = y.parent, x.binding = y.binding, x.role = y.role,
         x.held = y.held, x.denied = y.denied, x.permits = y.permits, x.rooted = y.rooted
  PROVE  x = y
  BY DEF Store

LEMMA WithoutFields ==
  ASSUME NEW x \in Store, NEW t \in Tuple
  PROVE  /\ Without(x, t).parent = (IF t[1] = "parent" THEN x.parent \ {t[2]} ELSE x.parent)
         /\ Without(x, t).binding = (IF t[1] = "binding" THEN x.binding \ {t[2]} ELSE x.binding)
         /\ Without(x, t).role = (IF t[1] = "role" THEN x.role \ {t[2]} ELSE x.role)
         /\ Without(x, t).held = (IF t[1] = "held" THEN [x.held EXCEPT ![t[2]] = Absent] ELSE x.held)
         /\ Without(x, t).denied = (IF t[1] = "denied" THEN x.denied \ {t[2]} ELSE x.denied)
         /\ Without(x, t).permits = (IF t[1] = "permits" THEN x.permits \ {t[2]} ELSE x.permits)
         /\ Without(x, t).rooted = (IF t[1] = "rooted" THEN FALSE ELSE x.rooted)
         /\ DOMAIN Without(x, t) = DOMAIN x
  BY TupleIs DEF Without, Store

LEMMA WithFields ==
  ASSUME NEW x \in Store, NEW t \in Tuple, NEW y \in Store
  PROVE  /\ With(x, t, y).parent = (IF t[1] = "parent" THEN x.parent \cup {t[2]} ELSE x.parent)
         /\ With(x, t, y).binding = (IF t[1] = "binding" THEN x.binding \cup {t[2]} ELSE x.binding)
         /\ With(x, t, y).role = (IF t[1] = "role" THEN x.role \cup {t[2]} ELSE x.role)
         /\ With(x, t, y).held = (IF t[1] = "held" THEN [x.held EXCEPT ![t[2]] = y.held[t[2]]] ELSE x.held)
         /\ With(x, t, y).denied = (IF t[1] = "denied" THEN x.denied \cup {t[2]} ELSE x.denied)
         /\ With(x, t, y).permits = (IF t[1] = "permits" THEN x.permits \cup {t[2]} ELSE x.permits)
         /\ With(x, t, y).rooted = (IF t[1] = "rooted" THEN TRUE ELSE x.rooted)
  BY TupleIs DEF With, Store

LEMMA WithoutType ==
  ASSUME NEW x \in Store, NEW t \in Tuple
  PROVE  Without(x, t) \in Store
  <1>1. CASE t[1] = "held"
    BY <1>1, TupleIs DEF Without, Store, HeldKey
  <1>2. CASE t[1] = "rooted"
    BY <1>2 DEF Without, Store
  <1>3. CASE t[1] \in {"parent", "binding", "role", "denied", "permits"}
    BY <1>3 DEF Without, Store
  <1> QED
    BY <1>1, <1>2, <1>3, TupleIs

LEMMA WithType ==
  ASSUME NEW x \in Store, NEW t \in Tuple, NEW y \in Store
  PROVE  With(x, t, y) \in Store
  <1>1. CASE t[1] = "held"
    BY <1>1, TupleIs DEF With, Store, HeldKey
  <1>2. CASE t[1] = "rooted"
    BY <1>2 DEF With, Store
  <1>3. CASE t[1] \notin {"held", "rooted"}
    <2>1. /\ x.parent \cup {t[2]} \in SUBSET (Scope \X Scope) \/ t[1] # "parent"
          /\ x.binding \cup {t[2]} \in SUBSET Place \/ t[1] # "binding"
          /\ x.role \cup {t[2]} \in SUBSET Place \/ t[1] # "role"
          /\ x.denied \cup {t[2]} \in SUBSET (Holder \X Scope \X Perm) \/ t[1] # "denied"
          /\ x.permits \cup {t[2]} \in SUBSET (Role \X Perm) \/ t[1] # "permits"
      BY TupleIs DEF Store, DenyKey
    <2>2. With(x, t, y) = [x EXCEPT ![t[1]] = x[t[1]] \cup {t[2]}]
      BY <1>3 DEF With
    <2> QED
      BY <1>3, <2>1, <2>2, TupleIs DEF Store
  <1> QED
    BY <1>1, <1>2, <1>3

LEMMA BareType == Bare \in Store /\ Tuples(Bare) = {}
  BY DEF Bare, Store, Tuples

-----------------------------------------------------------------------------
(* What a pass wants is a store.                                           *)

\* A finite set of numbers that is not empty has a greatest one: of those that have none,
\* take one with the fewest numbers.
LEMMA Greatest ==
  ASSUME NEW S \in SUBSET Nat, IsFiniteSet(S), S # {}
  PROVE  \E m \in S : \A n \in S : m >= n
  <1> DEFINE Has(U) == \E m \in U : \A n \in U : m >= n
             Bad == {n \in Nat : \E U \in SUBSET S : U # {} /\ ~Has(U) /\ Cardinality(U) = n}
  <1>1. CASE Bad = {}
    <2>1. Cardinality(S) \in Nat
      BY FS_CardinalityType
    <2> QED
      BY <1>1, <2>1
  <1>2. CASE Bad # {}
    <2>1. \E n \in Bad : \A m \in Bad : ~(<<m, n>> \in OpToRel(<, Nat))
      <3>1. Bad \subseteq Nat
        OBVIOUS
      <3> HIDE DEF Bad
      <3> QED
        BY <1>2, <3>1, WFMin, NatLessThanWellFounded
    <2>2. PICK n \in Bad : \A m \in Bad : ~(m < n)
      BY <2>1 DEF OpToRel
    <2>3. PICK U \in SUBSET S : U # {} /\ ~Has(U) /\ Cardinality(U) = n
      BY <2>2
    <2>4. PICK a : a \in U
      BY <2>3
    <2> DEFINE V == U \ {a}
    <2>5. IsFiniteSet(U)
      BY FS_Subset
    <2>6. IsFiniteSet(V) /\ Cardinality(V) = n - 1 /\ Cardinality(V) \in Nat
      BY <2>3, <2>4, <2>5, FS_RemoveElement, FS_CardinalityType
    <2>7. Has(V) \/ V = {}
      <3>1. Cardinality(V) < n
        BY <2>6
      <3>2. V \in SUBSET S
        OBVIOUS
      <3> HIDE DEF V
      <3> QED
        BY <2>2, <2>6, <3>1, <3>2
    <2>8. CASE V = {}
      BY <2>3, <2>4, <2>8
    <2>9. CASE Has(V)
      <3>1. PICK m \in V : \A x \in V : m >= x
        BY <2>9
      <3>2. a >= m \/ m >= a
        BY <2>4, <3>1
      <3>3. CASE m >= a
        BY <2>3, <3>1, <3>3
      <3>4. CASE a >= m
        BY <2>3, <2>4, <3>1, <3>4
      <3> QED
        BY <3>2, <3>3, <3>4
    <2> QED
      BY <2>7, <2>8, <2>9
  <1> QED
    BY <1>1, <1>2

LEMMA FoldIs ==
  ASSUME NEW S \in SUBSET Expiry, IsFiniteSet(S), S # {}
  PROVE  /\ Fold(S) \in S
         /\ \A now \in Nat : Live(Fold(S), now) <=> \E e \in S : Live(e, now)
  <1>1. CASE Forever \in S
    BY <1>1 DEF Fold, Live
  <1>2. CASE Forever \notin S
    <2>1. S \in SUBSET Nat
      BY <1>2 DEF Expiry
    <2>2. \E e \in S : \A f \in S : e >= f
      BY <2>1, Greatest
    <2>3. Fold(S) \in S /\ \A f \in S : Fold(S) >= f
      <3> DEFINE m == CHOOSE e \in S : \A f \in S : e >= f
      <3>1. Fold(S) = m
        BY <1>2, Zenon DEF Fold
      <3>2. m \in S /\ \A f \in S : m >= f
        BY <2>2, Zenon
      <3> HIDE DEF m
      <3> QED
        BY <3>1, <3>2, Zenon
    <2> DEFINE g == Fold(S)
    <2>4. g \in S /\ \A f \in S : g >= f
      BY <2>3
    <2> HIDE DEF g
    <2>5. ASSUME NEW now \in Nat PROVE Live(g, now) <=> \E e \in S : Live(e, now)
      BY <1>2, <2>1, <2>4 DEF Live
    <2> QED
      BY <2>4, <2>5 DEF g
  <1> QED
    BY <1>1, <1>2

\* The facts of x that a row of the tables would stand for.
Usables(x, E, now) ==
    {k \in HeldKey : /\ x.held[k] # Absent /\ Live(x.held[k], now)
                     /\ Resolves(E, Canon[k[2][1]]) /\ k[2][2] \in Known}

RowOf(x, E, now, k) ==
    {j \in Usables(x, E, now) : j[1] = k[1] /\ <<Canon[j[2][1]], j[2][2]>> = k[2]}

LEMMA RowFinite ==
  ASSUME NEW x \in Store, NEW E, NEW now, NEW k \in HeldKey
  PROVE  LET es == {x.held[j] : j \in RowOf(x, E, now, k)}
         IN  IsFiniteSet(es) /\ es \in SUBSET Expiry
  <1> DEFINE at(s) == <<k[1], <<s, k[2][2]>>>>
             f == [s \in Scope |-> x.held[at(s)]]
             F == {f[s] : s \in Scope}
             es == {x.held[j] : j \in RowOf(x, E, now, k)}
  <1>1. f \in Surjection(Scope, F)
    BY DEF Surjection
  <1>2. IsFiniteSet(F)
    <2> HIDE DEF f, F
    <2> QED
      BY <1>1, ReconcileAssumption, FS_Surjection
  <1>3. ASSUME NEW j \in RowOf(x, E, now, k) PROVE x.held[j] \in F
    <2>1. j \in HeldKey /\ j[1] = k[1] /\ j[2][2] = k[2][2]
      BY <1>3 DEF RowOf, Usables
    <2>2. j[2] = <<j[2][1], j[2][2]>> /\ j = <<j[1], j[2]>> /\ j[2][1] \in Scope
      BY <2>1 DEF HeldKey, Place
    <2>3. j = at(j[2][1])
      BY <2>1, <2>2
    <2> HIDE DEF at
    <2> QED
      BY <2>2, <2>3
  <1>4. es \subseteq F
    <2> HIDE DEF F
    <2> QED
      BY <1>3
  <1>5. IsFiniteSet(es)
    <2> HIDE DEF es, F
    <2> QED
      BY <1>2, <1>4, FS_Subset
  <1>6. es \in SUBSET Expiry
    BY DEF RowOf, Usables, Store, HeldKey
  <1> QED
    BY <1>5, <1>6

LEMMA DerivedFields ==
  ASSUME NEW E \in SUBSET (Scope \X Scope)
  PROVE  /\ Derived(E) \in Store
         /\ Derived(E).parent = E /\ Derived(E).rooted
         /\ \A r \in Role, p \in Perm :
               <<r, p>> \in Derived(E).permits <=> r \in Known /\ p \in Catalog[r].perms \cap Published
  BY BareType DEF Derived, Store

LEMMA AssignableType ==
  ASSUME NEW x \in Store, NEW E, NEW now
  PROVE  /\ Assignable(x, E, now) \in SUBSET HeldKey
         /\ {k[2] : k \in Assignable(x, E, now)} \in SUBSET Place
         /\ DOMAIN x.held = HeldKey
  BY DEF Assignable, Store, HeldKey

\* y is what a store that derives what w has should have of the facts of x.
WantedOf(y, w, x, E, now) ==
    LET ks == Assignable(x, E, now)
    IN  /\ y \in Store
        /\ y.parent = w.parent /\ y.permits = w.permits /\ y.rooted = w.rooted
        /\ y.role = {k[2] : k \in ks}
        /\ y.binding = {pl \in y.role : Seen(pl, E)}
        /\ y.held = [k \in HeldKey |-> IF k \in ks THEN x.held[k] ELSE Absent]
        /\ y.denied = Deniable(x, E)

LEMMA WantStoreFields ==
  ASSUME NEW w \in Store, NEW x \in Store, NEW E, NEW now
  PROVE  WantedOf(WantStore(w, x, E, now), w, x, E, now)
  <1> DEFINE ks == Assignable(x, E, now)
             pls == {k[2] : k \in ks}
             hd == [k \in DOMAIN x.held |-> IF k \in ks THEN x.held[k] ELSE Absent]
             bd == {pl \in pls : Seen(pl, E)}
             dn == Deniable(x, E)
  <1>1. WantStore(w, x, E, now) = [w EXCEPT !.held = hd, !.role = pls, !.binding = bd, !.denied = dn]
    BY Zenon DEF WantStore
  <1>2. pls \in SUBSET Place /\ bd \in SUBSET Place /\ DOMAIN x.held = HeldKey
    BY AssignableType
  <1>3. hd \in [Holder \X Place -> Expiry \cup {Absent}]
    BY <1>2 DEF Store, HeldKey
  <1>4. dn \in SUBSET (Holder \X Scope \X Perm)
    BY DEF Deniable, Store
  <1>5. hd = [k \in HeldKey |-> IF k \in ks THEN x.held[k] ELSE Absent]
    BY <1>2
  <1> HIDE DEF hd, pls, bd, dn
  <1>6. LET y == [w EXCEPT !.held = hd, !.role = pls, !.binding = bd, !.denied = dn]
        IN  /\ y \in Store /\ y.parent = w.parent /\ y.permits = w.permits /\ y.rooted = w.rooted
            /\ y.role = pls /\ y.binding = bd /\ y.held = hd /\ y.denied = dn
    BY <1>2, <1>3, <1>4 DEF Store
  <1>7. WantedOf([w EXCEPT !.held = hd, !.role = pls, !.binding = bd, !.denied = dn], w, x, E, now)
    BY <1>5, <1>6 DEF pls, bd, dn, WantedOf
  <1> QED
    BY <1>1, <1>7

\* y is what the tables should have of the facts of x.
TablesOf(y, w, x, E, now) ==
    /\ y \in Store
    /\ y.parent = w.parent /\ y.permits = w.permits /\ y.rooted = w.rooted
    /\ y.role = w.role /\ y.binding = w.binding
    /\ y.held = [k \in HeldKey |->
                    IF RowOf(x, E, now, k) = {} THEN Absent
                    ELSE Fold({x.held[j] : j \in RowOf(x, E, now, k)})]
    /\ y.denied = {<<d[1], Canon[d[2]], d[3]>> : d \in {d \in x.denied : Resolves(E, Canon[d[2]])}}

LEMMA WantTablesFields ==
  ASSUME NEW w \in Store, NEW x \in Store, NEW E, NEW now
  PROVE  TablesOf(WantTables(w, x, E, now), w, x, E, now)
  <1> DEFINE hd == [k \in HeldKey |->
                      IF RowOf(x, E, now, k) = {} THEN Absent
                      ELSE Fold({x.held[j] : j \in RowOf(x, E, now, k)})]
             dn == {<<d[1], Canon[d[2]], d[3]>> : d \in {d \in x.denied : Resolves(E, Canon[d[2]])}}
  <1>1. DOMAIN x.held = HeldKey
    BY DEF Store, HeldKey
  <1>2. WantTables(w, x, E, now) = [w EXCEPT !.held = hd, !.denied = dn]
    <2> DEFINE ks == {k \in DOMAIN x.held : /\ x.held[k] # Absent /\ Live(x.held[k], now)
                                             /\ Resolves(E, Canon[k[2][1]])
                                             /\ k[2][2] \in Known}
               of(k) == {j \in ks : j[1] = k[1] /\ <<Canon[j[2][1]], j[2][2]>> = k[2]}
               ha == [k \in DOMAIN x.held |->
                         IF of(k) = {} THEN Absent ELSE Fold({x.held[j] : j \in of(k)})]
    <2>1. WantTables(w, x, E, now) = [w EXCEPT !.held = ha, !.denied = dn]
      BY Zenon DEF WantTables
    <2>2. ks = Usables(x, E, now)
      BY <1>1 DEF Usables
    <2> HIDE DEF ks
    <2>3. \A k : of(k) = RowOf(x, E, now, k)
      BY <2>2 DEF RowOf
    <2> HIDE DEF of
    <2>4. ha = hd
      BY <1>1, <2>3
    <2> QED
      BY <2>1, <2>4
  <1>3. ASSUME NEW k \in HeldKey, RowOf(x, E, now, k) # {}
        PROVE  Fold({x.held[j] : j \in RowOf(x, E, now, k)}) \in Expiry
    <2> DEFINE es == {x.held[j] : j \in RowOf(x, E, now, k)}
    <2>1. IsFiniteSet(es) /\ es \in SUBSET Expiry
      BY RowFinite
    <2>2. es # {}
      BY <1>3
    <2> HIDE DEF es
    <2>3. Fold(es) \in es
      BY <2>1, <2>2, FoldIs
    <2> QED
      BY <2>1, <2>3 DEF es
  <1>4. hd \in [Holder \X Place -> Expiry \cup {Absent}]
    BY <1>3 DEF HeldKey
  <1>5. dn \in SUBSET (Holder \X Scope \X Perm)
    BY ReconcileAssumption DEF Store
  <1> HIDE DEF hd, dn
  <1> DEFINE y == WantTables(w, x, E, now)
  <1>6. /\ y \in Store /\ y.parent = w.parent /\ y.permits = w.permits /\ y.rooted = w.rooted
        /\ y.role = w.role /\ y.binding = w.binding /\ y.held = hd /\ y.denied = dn
    BY <1>2, <1>4, <1>5 DEF Store
  <1> HIDE DEF y
  <1>7. TablesOf(y, w, x, E, now)
    BY <1>6, Zenon DEF TablesOf, hd, dn
  <1> QED
    BY <1>7 DEF y

-----------------------------------------------------------------------------
(* The fields of a pass.                                                   *)

LEMMA NoPassType == NoPass \in Pass
  BY BareType DEF NoPass, Pass, Backend

LEMMA PassTypes ==
  ASSUME NEW p \in Pass
  PROVE  /\ p.to \in Backend /\ p.origin \in Backend /\ p.prune \in BOOLEAN
         /\ p.now \in Nat /\ p.edges \in SUBSET (Scope \X Scope) /\ p.pages \in SUBSET {"held", "denied"}
         /\ p.facts \in Store /\ p.want \in Store /\ p.before \in Store /\ p.were \in SUBSET Store
         /\ p.del \in SUBSET Tuple /\ p.put \in SUBSET Tuple /\ p.update \in SUBSET Tuple
         /\ p.lapsed \in BOOLEAN /\ p.raced \in BOOLEAN /\ p.moved \in BOOLEAN
         /\ p.pc \in {"idle", "tree", "read", "plan", "apply", "done", "refused", "died"}
  BY DEF Pass

WithEdges(p, E) == [p EXCEPT !.pc = "read", !.edges = E]

LEMMA EdgesRead ==
  ASSUME NEW p \in Pass, NEW E \in SUBSET (Scope \X Scope)
  PROVE  LET q == WithEdges(p, E)
         IN  /\ q \in Pass
             /\ q.pc = "read" /\ q.edges = E
             /\ q.to = p.to /\ q.origin = p.origin /\ q.prune = p.prune /\ q.now = p.now /\ q.pages = p.pages
             /\ q.facts = p.facts /\ q.want = p.want /\ q.del = p.del /\ q.put = p.put /\ q.update = p.update
             /\ q.lapsed = p.lapsed /\ q.raced = p.raced /\ q.moved = p.moved /\ q.before = p.before /\ q.were = p.were
  BY DEF Pass, WithEdges

WithPlan(p, w, u, d, a, x) == [p EXCEPT !.pc = "apply", !.want = w, !.update = u, !.del = d, !.put = a, !.before = x]

LEMMA PlanMade ==
  ASSUME NEW p \in Pass, NEW w \in Store, NEW u \in SUBSET Tuple, NEW d \in SUBSET Tuple, NEW a \in SUBSET Tuple, NEW x \in Store
  PROVE  LET q == WithPlan(p, w, u, d, a, x)
         IN  /\ q \in Pass
             /\ q.pc = "apply" /\ q.want = w /\ q.update = u /\ q.del = d /\ q.put = a /\ q.before = x
             /\ q.to = p.to /\ q.origin = p.origin /\ q.prune = p.prune /\ q.now = p.now /\ q.edges = p.edges
             /\ q.pages = p.pages /\ q.facts = p.facts /\ q.lapsed = p.lapsed /\ q.raced = p.raced /\ q.moved = p.moved
             /\ q.were = p.were
  BY DEF Pass, WithPlan

LessDel(p, t) == [p EXCEPT !.del = @ \ {t}]

LEMMA DelLess ==
  ASSUME NEW p \in Pass, NEW t
  PROVE  LET q == LessDel(p, t)
         IN  /\ q \in Pass
             /\ q.del = p.del \ {t}
             /\ q.pc = p.pc /\ q.to = p.to /\ q.origin = p.origin /\ q.prune = p.prune /\ q.now = p.now
             /\ q.edges = p.edges /\ q.pages = p.pages /\ q.facts = p.facts /\ q.want = p.want /\ q.put = p.put
             /\ q.update = p.update /\ q.lapsed = p.lapsed /\ q.raced = p.raced /\ q.moved = p.moved /\ q.before = p.before
             /\ q.were = p.were
  BY DEF Pass, LessDel

LessPut(p, t) == [p EXCEPT !.put = @ \ {t}]

LEMMA PutLess ==
  ASSUME NEW p \in Pass, NEW t
  PROVE  LET q == LessPut(p, t)
         IN  /\ q \in Pass
             /\ q.put = p.put \ {t}
             /\ q.pc = p.pc /\ q.to = p.to /\ q.origin = p.origin /\ q.prune = p.prune /\ q.now = p.now
             /\ q.edges = p.edges /\ q.pages = p.pages /\ q.facts = p.facts /\ q.want = p.want /\ q.del = p.del
             /\ q.update = p.update /\ q.lapsed = p.lapsed /\ q.raced = p.raced /\ q.moved = p.moved /\ q.before = p.before
             /\ q.were = p.were
  BY DEF Pass, LessPut

WithLapse(p) == [p EXCEPT !.lapsed = TRUE, !.raced = TRUE]

LEMMA Lapsed ==
  ASSUME NEW p \in Pass
  PROVE  LET q == WithLapse(p)
         IN  /\ q \in Pass
             /\ q.lapsed = TRUE /\ q.raced = TRUE
             /\ q.pc = p.pc /\ q.to = p.to /\ q.origin = p.origin /\ q.prune = p.prune /\ q.now = p.now
             /\ q.edges = p.edges /\ q.pages = p.pages /\ q.facts = p.facts /\ q.want = p.want /\ q.del = p.del
             /\ q.put = p.put /\ q.update = p.update /\ q.moved = p.moved /\ q.before = p.before /\ q.were = p.were
  BY DEF Pass, WithLapse

WithWere(p, S) == [p EXCEPT !.were = S]

LEMMA WereMore ==
  ASSUME NEW p \in Pass, NEW S \in SUBSET Store
  PROVE  LET q == WithWere(p, S)
         IN  /\ q \in Pass
             /\ q.were = S
             /\ q.pc = p.pc /\ q.to = p.to /\ q.origin = p.origin /\ q.prune = p.prune /\ q.now = p.now
             /\ q.edges = p.edges /\ q.pages = p.pages /\ q.facts = p.facts /\ q.want = p.want /\ q.del = p.del
             /\ q.put = p.put /\ q.update = p.update /\ q.lapsed = p.lapsed /\ q.raced = p.raced /\ q.moved = p.moved
             /\ q.before = p.before
  BY DEF Pass, WithWere

WithMove(p, a, b) == [p EXCEPT !.moved = a, !.raced = b]

LEMMA MovedUnder ==
  ASSUME NEW p \in Pass, NEW a \in BOOLEAN, NEW b \in BOOLEAN
  PROVE  LET q == WithMove(p, a, b)
         IN  /\ q \in Pass
             /\ q.moved = a /\ q.raced = b
             /\ q.pc = p.pc /\ q.to = p.to /\ q.origin = p.origin /\ q.prune = p.prune /\ q.now = p.now
             /\ q.edges = p.edges /\ q.pages = p.pages /\ q.facts = p.facts /\ q.want = p.want /\ q.del = p.del
             /\ q.put = p.put /\ q.update = p.update /\ q.lapsed = p.lapsed /\ q.before = p.before /\ q.were = p.were
  BY ZenonT(60) DEF Pass, WithMove

FreshPass(d, o, b, n, r, S) ==
    [NoPass EXCEPT !.pc = "tree", !.to = d, !.origin = o, !.prune = b, !.now = n,
                   !.pages = {"held", "denied"}, !.raced = r, !.were = S]

FreshOf(d, o, b, n, r, S) ==
    d \in Backend /\ o \in Backend /\ b \in BOOLEAN /\ n \in Nat /\ r \in BOOLEAN /\ S \in SUBSET Store

FreshIs(q, d, o, b, n, r, S) ==
    /\ q \in Pass
    /\ q.pc = "tree" /\ q.to = d /\ q.origin = o /\ q.prune = b /\ q.now = n
    /\ q.pages = {"held", "denied"} /\ q.raced = r /\ q.were = S
    /\ q.facts = Bare /\ q.put = {} /\ q.lapsed = FALSE /\ q.moved = FALSE

LEMMA Begun ==
  ASSUME NEW d, NEW o, NEW b, NEW n, NEW r, NEW S, FreshOf(d, o, b, n, r, S)
  PROVE  FreshIs(FreshPass(d, o, b, n, r, S), d, o, b, n, r, S)
  <1> DEFINE q == FreshPass(d, o, b, n, r, S)
  <1>1. q \in Pass /\ q.facts = NoPass.facts /\ q.put = NoPass.put
        /\ q.lapsed = NoPass.lapsed /\ q.moved = NoPass.moved
    BY NoPassType, ZenonT(60) DEF Pass, FreshPass, FreshOf
  <1>2. /\ q.pc = "tree" /\ q.to = d /\ q.origin = o /\ q.prune = b /\ q.now = n
        /\ q.pages = {"held", "denied"} /\ q.raced = r /\ q.were = S
    BY NoPassType DEF Pass, FreshPass, FreshOf
  <1>3. NoPass.facts = Bare /\ NoPass.put = {} /\ NoPass.lapsed = FALSE /\ NoPass.moved = FALSE
    BY DEF NoPass
  <1> HIDE DEF q
  <1>4. FreshIs(q, d, o, b, n, r, S)
    BY <1>1, <1>2, <1>3 DEF FreshIs
  <1> QED
    BY <1>4 DEF q

BothFacts(x, h, d) == [x EXCEPT !.held = h, !.denied = d]
HeldFacts(x, h) == [x EXCEPT !.held = h]
DeniedFacts(x, d) == [x EXCEPT !.denied = d]

LEMMA FactsFields ==
  ASSUME NEW x \in Store, NEW h \in [HeldKey -> Expiry \cup {Absent}], NEW d \in SUBSET DenyKey
  PROVE  /\ BothFacts(x, h, d) \in Store /\ BothFacts(x, h, d).held = h /\ BothFacts(x, h, d).denied = d
         /\ HeldFacts(x, h) \in Store /\ HeldFacts(x, h).held = h /\ HeldFacts(x, h).denied = x.denied
         /\ DeniedFacts(x, d) \in Store /\ DeniedFacts(x, d).held = x.held /\ DeniedFacts(x, d).denied = d
  BY DEF Store, HeldKey, DenyKey, BothFacts, HeldFacts, DeniedFacts

WithFacts(p, c, g, y) == [p EXCEPT !.pc = c, !.pages = g, !.facts = y]

LEMMA FactsRead ==
  ASSUME NEW p \in Pass, NEW c \in {"plan", "read"}, NEW g \in SUBSET {"held", "denied"}, NEW y \in Store
  PROVE  LET q == WithFacts(p, c, g, y)
         IN  /\ q \in Pass
             /\ q.pc = c /\ q.pages = g /\ q.facts = y
             /\ q.to = p.to /\ q.origin = p.origin /\ q.prune = p.prune /\ q.now = p.now /\ q.edges = p.edges
             /\ q.want = p.want /\ q.del = p.del /\ q.put = p.put /\ q.update = p.update /\ q.lapsed = p.lapsed
             /\ q.raced = p.raced /\ q.moved = p.moved /\ q.before = p.before /\ q.were = p.were
  BY DEF Pass, WithFacts

-----------------------------------------------------------------------------
(* What each step of a pass does.                                          *)

LEMMA OpIs ==
  ASSUME NEW op \in Op \cup {[op |-> "relay"]}
  PROVE  \/ op.op \in {"grant", "revoke"} /\ op.key \in HeldKey /\ op.exp \in Expiry
         \/ op.op \in {"deny", "removeDeny"} /\ op.deny \in DenyKey
         \/ op.op = "relay"
  BY DEF Op, HeldKey, DenyKey

LEMMA BackendIs ==
  ASSUME NEW k \in Key
  PROVE  BackendOf(k) \in Backend
  <1>1. Factory[k] \in DOMAIN Builds /\ Builds \in [DOMAIN Builds -> Backend]
    BY ReconcileAssumption
  <1> QED
    BY <1>1 DEF BackendOf

LEMMA BackTypes ==
  ASSUME TypeOK
  PROVE  /\ back.sql \in Store /\ back.fga \in Store /\ back[Serving] \in Store /\ Dest \in Store
         /\ Serving \in Backend /\ pass.to \in Backend /\ pass.origin \in Backend
         /\ back["sql"] = back.sql /\ back["fga"] = back.fga /\ pass \in Pass
  <1>1. Serving \in Backend
    BY BackendIs DEF TypeOK, Serving
  <1> QED
    BY <1>1, PassTypes DEF TypeOK, Backend, Dest

LEMMA BeginIs ==
  ASSUME TypeOK, NEW a \in Passes, Begin(a)
  PROVE  /\ pass' \in Pass /\ pass'.pc = "tree" /\ ~Running
         /\ pass'.now = clock /\ pass'.pages = {"held", "denied"} /\ pass'.facts = Bare
         /\ pass'.put = {} /\ pass'.lapsed = FALSE /\ pass'.moved = FALSE
         /\ pass'.raced = (flight # {})
         /\ pass'.were = (IF pass'.origin = "sql" THEN {back.sql} ELSE {})
         /\ pass'.to = pass'.origin => pass'.to = "fga"
         /\ pass'.to = Serving => pass'.to = pass'.origin \/ gone' = {}
         /\ gone' \in {gone, {}}
         /\ UNCHANGED <<clock, active, back, tree, queue, flight, sound>>
         /\ left \in Nat => left' \in Nat
  <1>1. PICK o \in Origin(a) :
          /\ pass' = [NoPass EXCEPT !.pc = "tree", !.to = BackendOf(a.to), !.origin = o,
                                    !.prune = a.prune, !.now = clock,
                                    !.pages = {"held", "denied"}, !.raced = flight # {},
                                    !.were = IF o = "sql" THEN {back.sql} ELSE {}]
          /\ gone' = IF ByAlias(a) /\ o # Serving THEN {} ELSE gone
    BY Zenon DEF Begin
  <1>2. a.to \in Key /\ (a.from = None \/ a.from \in Key) /\ a.prune \in BOOLEAN /\ active \in Key
    BY ReconcileAssumption DEF Asked, TypeOK
  <1>3. ~Stale(a) /\ ~Running /\ UNCHANGED <<clock, active, back, tree, queue, flight, sound>>
    BY DEF Begin
  <1>4. o \in Backend /\ BackendOf(a.to) \in Backend
    BY <1>1, <1>2, BackendIs DEF Origin, Backend
  <1>5. o = BackendOf(a.to) => o = "fga"
    BY <1>1, <1>2, <1>4 DEF Origin, Maintenance, Gives, Backend
  <1>6. BackendOf(a.to) = Serving => o = BackendOf(a.to) \/ gone' = {}
    <2>1. CASE ByAlias(a)
      BY <1>1, <2>1
    <2>2. CASE BackendOf(a.to) = Serving /\ ~ByAlias(a)
      <3>1. SameDriver(a.to, active)
        BY <2>2 DEF ByAlias, SameDriver
      <3>2. Maintenance(a) \/ (a.from # None /\ SameDriver(a.from, a.to))
        BY <1>3, <3>1 DEF Stale
      <3> QED
        BY <1>1, <3>2 DEF Origin, Gives, Maintenance
    <2> QED
      BY <2>1, <2>2
  <1>7. clock \in Nat /\ {back.sql} \in SUBSET Store /\ (flight # {}) \in BOOLEAN
    BY BackTypes DEF TypeOK
  <1> DEFINE S == IF o = "sql" THEN {back.sql} ELSE {}
             d == BackendOf(a.to)
             r == flight # {}
  <1>8. S \in SUBSET Store /\ d \in Backend /\ r \in BOOLEAN /\ a.prune \in BOOLEAN /\ clock \in Nat
    BY <1>2, <1>4, <1>7
  <1>9. left \in Nat => left' \in Nat
    BY DEF Begin, Spend
  <1> HIDE DEF S, d, r
  <1>10. pass' = FreshPass(d, o, a.prune, clock, r, S)
    BY <1>1, Zenon DEF d, r, S, FreshPass
  <1>11. /\ pass' \in Pass
         /\ pass'.pc = "tree" /\ pass'.to = d /\ pass'.origin = o /\ pass'.now = clock
         /\ pass'.pages = {"held", "denied"} /\ pass'.raced = r /\ pass'.were = S
         /\ pass'.facts = Bare /\ pass'.put = {} /\ pass'.lapsed = FALSE /\ pass'.moved = FALSE
    <2> DEFINE b == a.prune
               n == clock
               q == FreshPass(d, o, b, n, r, S)
    <2>1. FreshOf(d, o, b, n, r, S)
      BY <1>4, <1>8 DEF FreshOf
    <2>2. pass' = q
      BY <1>10
    <2> HIDE DEF b, n
    <2>3. FreshIs(q, d, o, b, n, r, S)
      BY <2>1, Begun, Zenon
    <2> HIDE DEF q
    <2> QED
      BY <2>3, <2>2 DEF n, FreshIs
  <1>12. pass'.were = (IF pass'.origin = "sql" THEN {back.sql} ELSE {})
    BY <1>11 DEF S
  <1>13. pass'.raced = (flight # {})
    BY <1>11 DEF r
  <1>14. /\ pass'.to = pass'.origin => pass'.to = "fga"
         /\ pass'.to = Serving => pass'.to = pass'.origin \/ gone' = {}
    BY <1>5, <1>6, <1>11 DEF d
  <1>15. gone' \in {gone, {}}
    BY <1>1
  <1> QED
    BY <1>3, <1>9, <1>11, <1>12, <1>13, <1>14, <1>15

LEMMA ReadTreeIs ==
  ASSUME TypeOK, ReadTree
  PROVE  /\ pass.pc = "tree" /\ pass'.pc = "read" /\ pass' \in Pass /\ OnlyPass
         /\ pass'.edges = SourceTree(tree)
         /\ pass'.to = pass.to /\ pass'.origin = pass.origin /\ pass'.prune = pass.prune
         /\ pass'.now = pass.now /\ pass'.pages = pass.pages /\ pass'.facts = pass.facts
         /\ pass'.want = pass.want /\ pass'.del = pass.del /\ pass'.put = pass.put
         /\ pass'.update = pass.update /\ pass'.lapsed = pass.lapsed /\ pass'.raced = pass.raced
         /\ pass'.moved = pass.moved /\ pass'.before = pass.before /\ pass'.were = pass.were
  <1> DEFINE E == SourceTree(tree)
  <1>1. pass.pc = "tree" /\ pass' = WithEdges(pass, E) /\ OnlyPass
    BY DEF ReadTree, WithEdges
  <1>2. E \in SUBSET (Scope \X Scope) /\ pass \in Pass
    BY DEF SourceTree, TypeOK
  <1> HIDE DEF E
  <1>3. LET q == WithEdges(pass, E)
        IN  /\ q \in Pass
            /\ q.pc = "read" /\ q.edges = E
            /\ q.to = pass.to /\ q.origin = pass.origin /\ q.prune = pass.prune /\ q.now = pass.now
            /\ q.pages = pass.pages
            /\ q.facts = pass.facts /\ q.want = pass.want /\ q.del = pass.del /\ q.put = pass.put
            /\ q.update = pass.update
            /\ q.lapsed = pass.lapsed /\ q.raced = pass.raced /\ q.moved = pass.moved
            /\ q.before = pass.before /\ q.were = pass.were
    BY <1>2, EdgesRead
  <1> QED
    BY <1>1, <1>3 DEF E

LEMMA ReadTablesIs ==
  ASSUME TypeOK, ReadTables
  PROVE  /\ pass.pc = "read" /\ pass.origin = "sql" /\ pass'.pc = "plan" /\ pass' \in Pass /\ OnlyPass
         /\ pass'.pages = {} /\ pass'.facts.held = back.sql.held /\ pass'.facts.denied = back.sql.denied
         /\ pass'.to = pass.to /\ pass'.origin = pass.origin /\ pass'.prune = pass.prune
         /\ pass'.now = pass.now /\ pass'.edges = pass.edges
         /\ pass'.want = pass.want /\ pass'.del = pass.del /\ pass'.put = pass.put
         /\ pass'.update = pass.update /\ pass'.lapsed = pass.lapsed /\ pass'.raced = pass.raced
         /\ pass'.moved = pass.moved /\ pass'.before = pass.before /\ pass'.were = pass.were
  <1> DEFINE h == back.sql.held
             d == back.sql.denied
             y == BothFacts(pass.facts, h, d)
  <1>1. /\ pass.pc = "read" /\ pass.origin = "sql" /\ OnlyPass
        /\ pass' = [pass EXCEPT !.pc = "plan", !.pages = {}, !.facts.held = h, !.facts.denied = d]
    BY DEF ReadTables
  <1>2. h \in [HeldKey -> Expiry \cup {Absent}] /\ d \in SUBSET DenyKey /\ pass \in Pass /\ pass.facts \in Store
    BY BackTypes, PassTypes DEF Store, HeldKey, DenyKey
  <1> HIDE DEF h, d
  <1>3. pass' = WithFacts(pass, "plan", {}, y)
    <2>1. [pass.facts EXCEPT !.held = h, !.denied = d] = y
      BY DEF BothFacts
    <2>2. pass' = [pass EXCEPT !.pc = "plan", !.pages = {}, !.facts = [pass.facts EXCEPT !.held = h, !.denied = d]]
      BY <1>1, <1>2 DEF Pass
    <2> HIDE DEF y
    <2> QED
      BY <2>1, <2>2 DEF WithFacts
  <1>4. y \in Store /\ y.held = h /\ y.denied = d
    BY <1>2, FactsFields
  <1> HIDE DEF y
  <1>5. LET q == WithFacts(pass, "plan", {}, y)
        IN  /\ q \in Pass
            /\ q.pc = "plan" /\ q.pages = {} /\ q.facts = y
            /\ q.to = pass.to /\ q.origin = pass.origin /\ q.prune = pass.prune /\ q.now = pass.now
            /\ q.edges = pass.edges
            /\ q.want = pass.want /\ q.del = pass.del /\ q.put = pass.put /\ q.update = pass.update
            /\ q.lapsed = pass.lapsed
            /\ q.raced = pass.raced /\ q.moved = pass.moved /\ q.before = pass.before /\ q.were = pass.were
    BY <1>2, <1>4, FactsRead
  <1>6. pass'.facts.held = back.sql.held /\ pass'.facts.denied = back.sql.denied
    BY <1>3, <1>4, <1>5 DEF h, d
  <1> QED
    BY <1>1, <1>3, <1>5, <1>6, Zenon

LEMMA ReadPageIs ==
  ASSUME TypeOK, NEW f \in {"held", "denied"}, ReadPage(f)
  PROVE  /\ pass.pc = "read" /\ pass.origin = "fga" /\ f \in pass.pages /\ pass' \in Pass /\ OnlyPass
         /\ pass'.pc = (IF pass.pages = {f} THEN "plan" ELSE "read")
         /\ pass'.pages = pass.pages \ {f}
         /\ pass'.facts.held = (IF f = "held" THEN back.fga.held ELSE pass.facts.held)
         /\ pass'.facts.denied = (IF f = "denied" THEN back.fga.denied ELSE pass.facts.denied)
         /\ pass'.to = pass.to /\ pass'.origin = pass.origin /\ pass'.prune = pass.prune
         /\ pass'.now = pass.now /\ pass'.edges = pass.edges
         /\ pass'.want = pass.want /\ pass'.del = pass.del /\ pass'.put = pass.put
         /\ pass'.update = pass.update /\ pass'.lapsed = pass.lapsed /\ pass'.raced = pass.raced
         /\ pass'.moved = pass.moved /\ pass'.before = pass.before /\ pass'.were = pass.were
  <1> DEFINE c == IF pass.pages = {f} THEN "plan" ELSE "read"
             g == pass.pages \ {f}
             x == back.fga
             y == IF f = "held" THEN HeldFacts(pass.facts, x.held) ELSE DeniedFacts(pass.facts, x.denied)
  <1>1. /\ pass.pc = "read" /\ pass.origin = "fga" /\ f \in pass.pages /\ OnlyPass
        /\ pass' = [pass EXCEPT !.pages = @ \ {f}, !.facts[f] = x[f], !.pc = c]
    BY DEF ReadPage
  <1>2. /\ x \in Store /\ c \in {"plan", "read"} /\ pass \in Pass /\ pass.facts \in Store
        /\ g \in SUBSET {"held", "denied"}
    BY BackTypes, PassTypes
  <1>3. x.held \in [HeldKey -> Expiry \cup {Absent}] /\ x.denied \in SUBSET DenyKey
    BY <1>2 DEF Store, HeldKey, DenyKey
  <1> HIDE DEF c, x
  <1>4. pass' = WithFacts(pass, c, g, y)
    <2>1. [pass.facts EXCEPT ![f] = x[f]] = y
      BY <1>2 DEF Store, HeldFacts, DeniedFacts
    <2> HIDE DEF y
    <2>2. pass' = [pass EXCEPT !.pages = g, !.facts = y, !.pc = c]
      BY <1>1, <1>2, <2>1 DEF Pass
    <2> QED
      BY <1>2, <2>2 DEF Pass, WithFacts
  <1>5. /\ y \in Store
        /\ y.held = (IF f = "held" THEN x.held ELSE pass.facts.held)
        /\ y.denied = (IF f = "denied" THEN x.denied ELSE pass.facts.denied)
    BY <1>2, <1>3, FactsFields
  <1> HIDE DEF y, g
  <1>6. LET q == WithFacts(pass, c, g, y)
        IN  /\ q \in Pass
            /\ q.pc = c /\ q.pages = g /\ q.facts = y
            /\ q.to = pass.to /\ q.origin = pass.origin /\ q.prune = pass.prune /\ q.now = pass.now
            /\ q.edges = pass.edges
            /\ q.want = pass.want /\ q.del = pass.del /\ q.put = pass.put /\ q.update = pass.update
            /\ q.lapsed = pass.lapsed
            /\ q.raced = pass.raced /\ q.moved = pass.moved /\ q.before = pass.before /\ q.were = pass.were
    BY <1>2, <1>5, FactsRead
  <1> QED
    BY <1>1, <1>4, <1>5, <1>6, ZenonT(60) DEF c, x, g

LEMMA WantIs ==
  ASSUME NEW x \in Store, TypeOK
  PROVE  WantOf(x) \in Store
  <1>1. pass.edges \in SUBSET (Scope \X Scope)
    BY DEF TypeOK, Pass
  <1>2. Derived(pass.edges) \in Store /\ Bare \in Store
    BY <1>1, DerivedFields, BareType
  <1>3. WantStore(Derived(pass.edges), x, pass.edges, pass.now) \in Store
    BY <1>2, WantStoreFields DEF WantedOf
  <1>4. WantTables(Bare, x, pass.edges, pass.now) \in Store
    BY <1>2, WantTablesFields DEF TablesOf
  <1> QED
    BY <1>3, <1>4 DEF WantOf

LEMMA DiffFields ==
  ASSUME NEW x \in Store, NEW w \in Store, NEW to, NEW prune
  PROVE  /\ Diff(x, w, to, prune).extra = Extra(Tuples(x), Tuples(w), prune)
         /\ Diff(x, w, to, prune).update
               = {t \in Tuples(x) \cap Tuples(w) : t[1] = "held" /\ x.held[t[2]] # w.held[t[2]]}
         /\ Diff(x, w, to, prune).del
               = Diff(x, w, to, prune).extra \cup (IF to = "fga" THEN Diff(x, w, to, prune).update ELSE {})
         /\ Diff(x, w, to, prune).put
               = (Tuples(w) \ Tuples(x)) \cup Diff(x, w, to, prune).update
         /\ Diff(x, w, to, prune).extra \in SUBSET Tuple /\ Diff(x, w, to, prune).update \in SUBSET Tuple
         /\ Diff(x, w, to, prune).del \in SUBSET Tuple /\ Diff(x, w, to, prune).put \in SUBSET Tuple
  <1> DEFINE d == Diff(x, w, to, prune)
             u == {t \in Tuples(x) \cap Tuples(w) : t[1] = "held" /\ x.held[t[2]] # w.held[t[2]]}
             e == Extra(Tuples(x), Tuples(w), prune)
  <1>1. Tuples(x) \in SUBSET Tuple /\ Tuples(w) \in SUBSET Tuple
    BY TuplesOf
  <1>2. u \in SUBSET Tuple /\ e \in SUBSET Tuple
    BY <1>1 DEF Extra
  <1>3. d.extra = e /\ d.update = u /\ d.del = e \cup (IF to = "fga" THEN u ELSE {})
        /\ d.put = (Tuples(w) \ Tuples(x)) \cup u
    BY DEF Diff
  <1> HIDE DEF d, u, e
  <1>4. /\ d.extra = e
        /\ d.update = u
        /\ d.del = d.extra \cup (IF to = "fga" THEN d.update ELSE {})
        /\ d.put = (Tuples(w) \ Tuples(x)) \cup d.update
        /\ d.extra \in SUBSET Tuple /\ d.update \in SUBSET Tuple
        /\ d.del \in SUBSET Tuple /\ d.put \in SUBSET Tuple
    BY <1>1, <1>2, <1>3
  <1> QED
    BY <1>4 DEF d, u, e

\* A pass that is over has nothing of what it was.
LEMMA OverIs ==
  ASSUME NEW c \in {"done", "refused", "died"}
  PROVE  [NoPass EXCEPT !.pc = c] \in Pass /\ [NoPass EXCEPT !.pc = c].pc = c
  BY NoPassType DEF Pass

LEMMA PlanIs ==
  ASSUME TypeOK, Plan
  PROVE  LET d == Diff(Dest, Wanted, pass.to, pass.prune)
             refuse == pass.prune /\ (\E t \in d.extra : t[1] \in Facts) /\ ~Usable
         IN  /\ pass.pc = "plan" /\ OnlyPass /\ pass' \in Pass /\ Wanted \in Store
             /\ refuse => pass'.pc = "refused"
             /\ ~refuse =>
                  /\ pass'.pc = "apply" /\ pass'.want = Wanted /\ pass'.before = Dest
                  /\ pass'.update = d.update /\ pass'.del = d.del /\ pass'.put = d.put
                  /\ pass'.to = pass.to /\ pass'.origin = pass.origin /\ pass'.prune = pass.prune
                  /\ pass'.now = pass.now /\ pass'.edges = pass.edges /\ pass'.pages = pass.pages
                  /\ pass'.facts = pass.facts /\ pass'.lapsed = pass.lapsed /\ pass'.raced = pass.raced
                  /\ pass'.moved = pass.moved /\ pass'.were = pass.were
  <1> DEFINE d == Diff(Dest, Wanted, pass.to, pass.prune)
             refuse == pass.prune /\ (\E t \in d.extra : t[1] \in Facts) /\ ~Usable
             w == Wanted
             x == Dest
             u == d.update
             dl == d.del
             pt == d.put
  <1>1. /\ pass.pc = "plan" /\ OnlyPass
        /\ pass' = (IF refuse THEN [NoPass EXCEPT !.pc = "refused"]
                    ELSE WithPlan(pass, w, u, dl, pt, x))
    BY Zenon DEF Plan, WithPlan
  <1>2. w \in Store /\ x \in Store /\ pass \in Pass
    BY BackTypes, PassTypes, WantIs DEF Wanted
  <1>3. u \in SUBSET Tuple /\ dl \in SUBSET Tuple /\ pt \in SUBSET Tuple
    BY <1>2, DiffFields
  <1> HIDE DEF refuse, w, x, u, dl, pt
  <1>4. LET q == WithPlan(pass, w, u, dl, pt, x)
        IN  /\ q \in Pass
            /\ q.pc = "apply" /\ q.want = w /\ q.update = u /\ q.del = dl /\ q.put = pt /\ q.before = x
            /\ q.to = pass.to /\ q.origin = pass.origin /\ q.prune = pass.prune /\ q.now = pass.now
            /\ q.edges = pass.edges
            /\ q.pages = pass.pages /\ q.facts = pass.facts /\ q.lapsed = pass.lapsed
            /\ q.raced = pass.raced /\ q.moved = pass.moved
            /\ q.were = pass.were
    BY <1>2, <1>3, PlanMade
  <1>5. CASE refuse
    <2>1. pass' = [NoPass EXCEPT !.pc = "refused"]
      BY <1>1, <1>5
    <2>2. pass' \in Pass /\ pass'.pc = "refused"
      BY <2>1, OverIs
    <2> QED
      BY <1>1, <1>2, <1>5, <2>2, Zenon DEF refuse, w
  <1>6. CASE ~refuse
    <2>1. /\ pass' \in Pass
          /\ pass'.pc = "apply" /\ pass'.want = w /\ pass'.update = u /\ pass'.del = dl /\ pass'.put = pt
          /\ pass'.before = x
          /\ pass'.to = pass.to /\ pass'.origin = pass.origin /\ pass'.prune = pass.prune
          /\ pass'.now = pass.now /\ pass'.edges = pass.edges
          /\ pass'.pages = pass.pages /\ pass'.facts = pass.facts /\ pass'.lapsed = pass.lapsed
          /\ pass'.raced = pass.raced /\ pass'.moved = pass.moved /\ pass'.were = pass.were
      BY <1>1, <1>4, <1>6
    <2> QED
      BY <1>1, <1>2, <1>6, <2>1, Zenon DEF refuse, w, x, u, dl, pt
  <1> QED
    BY <1>5, <1>6

LEMMA BackSet ==
  ASSUME NEW f \in [Backend -> Store], NEW b \in Backend, NEW x \in Store
  PROVE  LET g == [f EXCEPT ![b] = x]
         IN  /\ g \in [Backend -> Store] /\ g[b] = x
             /\ \A c \in Backend : c # b => g[c] = f[c]
  OBVIOUS

LEMMA AppliedIs ==
  ASSUME TypeOK, NEW x \in Store, NEW p, Apply(x, p)
  PROVE  /\ back' \in [Backend -> Store] /\ back'[pass.to] = x
         /\ \A c \in Backend : c # pass.to => back'[c] = back[c]
         /\ pass' = p /\ UNCHANGED <<clock, active, tree, queue, flight, gone, sound, left>>
  <1>1. back \in [Backend -> Store] /\ pass.to \in Backend
    BY BackTypes DEF TypeOK
  <1>2. back' = [back EXCEPT ![pass.to] = x]
    BY DEF Apply
  <1>3. pass' = p /\ UNCHANGED <<clock, active, tree, queue, flight, gone, sound, left>>
    BY DEF Apply
  <1> QED
    BY <1>1, <1>2, <1>3, BackSet

LEMMA DeleteIs ==
  ASSUME TypeOK, NEW t \in pass.del, Delete(t)
  PROVE  /\ pass.pc = "apply" /\ pass' \in Pass /\ t \in Tuple /\ Without(Dest, t) \in Store
         /\ \A u \in pass.del : DeleteRank(t) <= DeleteRank(u)
         /\ back' \in [Backend -> Store] /\ back'[pass.to] = Without(Dest, t)
         /\ \A c \in Backend : c # pass.to => back'[c] = back[c]
         /\ pass'.del = pass.del \ {t}
         /\ UNCHANGED <<clock, active, tree, queue, flight, gone, sound, left>>
         /\ pass'.pc = pass.pc /\ pass'.to = pass.to /\ pass'.origin = pass.origin
         /\ pass'.prune = pass.prune /\ pass'.now = pass.now /\ pass'.edges = pass.edges
         /\ pass'.pages = pass.pages /\ pass'.facts = pass.facts /\ pass'.want = pass.want
         /\ pass'.put = pass.put /\ pass'.update = pass.update /\ pass'.lapsed = pass.lapsed
         /\ pass'.raced = pass.raced /\ pass'.moved = pass.moved /\ pass'.before = pass.before
         /\ pass'.were = pass.were
  <1>1. t \in Tuple /\ pass \in Pass /\ Dest \in Store
    BY BackTypes, PassTypes
  <1> DEFINE x == Without(Dest, t)
  <1>2. x \in Store
    BY <1>1, WithoutType
  <1>3. /\ pass.pc = "apply" /\ \A u \in pass.del : DeleteRank(t) <= DeleteRank(u)
        /\ Apply(x, LessDel(pass, t))
    BY DEF Delete, LessDel
  <1> HIDE DEF x
  <1>4. /\ back' \in [Backend -> Store] /\ back'[pass.to] = x
        /\ \A c \in Backend : c # pass.to => back'[c] = back[c]
        /\ pass' = LessDel(pass, t)
        /\ UNCHANGED <<clock, active, tree, queue, flight, gone, sound, left>>
    BY <1>2, <1>3, AppliedIs
  <1>5. LET q == LessDel(pass, t)
        IN  /\ q \in Pass /\ q.del = pass.del \ {t}
            /\ q.pc = pass.pc /\ q.to = pass.to /\ q.origin = pass.origin
            /\ q.prune = pass.prune /\ q.now = pass.now /\ q.edges = pass.edges
            /\ q.pages = pass.pages /\ q.facts = pass.facts /\ q.want = pass.want
            /\ q.put = pass.put /\ q.update = pass.update /\ q.lapsed = pass.lapsed
            /\ q.raced = pass.raced /\ q.moved = pass.moved /\ q.before = pass.before
            /\ q.were = pass.were
    BY <1>1, DelLess
  <1> QED
    BY <1>1, <1>2, <1>3, <1>4, <1>5 DEF x

LEMMA WriteIs ==
  ASSUME TypeOK, NEW t \in pass.put, Write(t)
  PROVE  LET there == t \in Tuples(Dest)
             x == IF pass.to = "fga" /\ there THEN Dest ELSE With(Dest, t, pass.want)
         IN  /\ pass.pc = "apply" /\ pass.del = {} /\ pass' \in Pass /\ t \in Tuple /\ x \in Store
             /\ \A u \in pass.put : NotAfter(t, u)
             /\ pass.to = "sql" => there = (t \in pass.update)
             /\ back' \in [Backend -> Store] /\ back'[pass.to] = x
             /\ \A c \in Backend : c # pass.to => back'[c] = back[c]
             /\ pass'.put = pass.put \ {t}
             /\ UNCHANGED <<clock, active, tree, queue, flight, gone, sound, left>>
             /\ pass'.pc = pass.pc /\ pass'.to = pass.to /\ pass'.origin = pass.origin
             /\ pass'.prune = pass.prune /\ pass'.now = pass.now /\ pass'.edges = pass.edges
             /\ pass'.pages = pass.pages /\ pass'.facts = pass.facts /\ pass'.want = pass.want
             /\ pass'.del = pass.del /\ pass'.update = pass.update /\ pass'.lapsed = pass.lapsed
             /\ pass'.raced = pass.raced /\ pass'.moved = pass.moved /\ pass'.before = pass.before
             /\ pass'.were = pass.were
  <1>1. t \in Tuple /\ pass \in Pass /\ Dest \in Store /\ pass.want \in Store
    BY BackTypes, PassTypes
  <1> DEFINE there == t \in Tuples(Dest)
             x == IF pass.to = "fga" /\ there THEN Dest ELSE With(Dest, t, pass.want)
  <1>2. x \in Store
    BY <1>1, WithType
  <1>3. /\ pass.pc = "apply" /\ pass.del = {} /\ \A u \in pass.put : NotAfter(t, u)
        /\ pass.to = "sql" => there = (t \in pass.update)
        /\ Apply(x, LessPut(pass, t))
    BY Zenon DEF Write, LessPut
  <1> HIDE DEF x, there
  <1>4. /\ back' \in [Backend -> Store] /\ back'[pass.to] = x
        /\ \A c \in Backend : c # pass.to => back'[c] = back[c]
        /\ pass' = LessPut(pass, t)
        /\ UNCHANGED <<clock, active, tree, queue, flight, gone, sound, left>>
    BY <1>2, <1>3, AppliedIs
  <1>5. LET q == LessPut(pass, t)
        IN  /\ q \in Pass /\ q.put = pass.put \ {t}
            /\ q.pc = pass.pc /\ q.to = pass.to /\ q.origin = pass.origin
            /\ q.prune = pass.prune /\ q.now = pass.now /\ q.edges = pass.edges
            /\ q.pages = pass.pages /\ q.facts = pass.facts /\ q.want = pass.want
            /\ q.del = pass.del /\ q.update = pass.update /\ q.lapsed = pass.lapsed
            /\ q.raced = pass.raced /\ q.moved = pass.moved /\ q.before = pass.before
            /\ q.were = pass.were
    BY <1>1, PutLess
  <1>6. /\ pass' \in Pass /\ pass'.put = pass.put \ {t}
        /\ pass'.pc = pass.pc /\ pass'.to = pass.to /\ pass'.origin = pass.origin
        /\ pass'.prune = pass.prune /\ pass'.now = pass.now /\ pass'.edges = pass.edges
        /\ pass'.pages = pass.pages /\ pass'.facts = pass.facts /\ pass'.want = pass.want
        /\ pass'.del = pass.del /\ pass'.update = pass.update /\ pass'.lapsed = pass.lapsed
        /\ pass'.raced = pass.raced /\ pass'.moved = pass.moved /\ pass'.before = pass.before
        /\ pass'.were = pass.were
    BY <1>4, <1>5
  <1> QED
    BY <1>1, <1>2, <1>3, <1>4, <1>6 DEF x, there

LEMMA FinishIs ==
  ASSUME TypeOK, Finish
  PROVE  /\ pass.pc = "apply" /\ pass.del = {} /\ pass.put = {}
         /\ pass' = [NoPass EXCEPT !.pc = "done"] /\ pass' \in Pass /\ pass'.pc = "done"
         /\ UNCHANGED <<clock, active, back, tree, queue, flight, gone, left>>
         /\ sound' \in BOOLEAN
  <1>1. pass' = [NoPass EXCEPT !.pc = "done"]
    BY DEF Finish
  <1>2. pass' \in Pass /\ pass'.pc = "done"
    BY <1>1, OverIs
  <1>3. sound' \in BOOLEAN
    <2> DEFINE a == /\ ~pass.raced /\ (pass.to = Serving \/ ~pass.moved) /\ Told
                    /\ \A e \in tree : \E d \in pass.edges : d[1] = e[1]
    <2>1. sound' = (IF pass.to = "fga" THEN a ELSE sound)
      BY Zenon DEF Finish
    <2>2. a \in BOOLEAN
      OBVIOUS
    <2>3. sound \in BOOLEAN
      BY DEF TypeOK
    <2> HIDE DEF a
    <2> QED
      BY <2>1, <2>2, <2>3
  <1> QED
    BY <1>1, <1>2, <1>3 DEF Finish

LEMMA DieIs ==
  ASSUME TypeOK, Die
  PROVE  /\ Running /\ pass' = [NoPass EXCEPT !.pc = "died"] /\ pass' \in Pass /\ pass'.pc = "died"
         /\ UNCHANGED <<clock, active, back, tree, queue, flight, gone, left>>
         /\ sound' = (sound /\ (pass.to = "sql" \/ pass.pc # "apply")) /\ sound' \in BOOLEAN
  <1>1. pass' = [NoPass EXCEPT !.pc = "died"]
    BY DEF Die
  <1>2. pass' \in Pass /\ pass'.pc = "died"
    BY <1>1, OverIs
  <1> QED
    BY <1>1, <1>2 DEF Die

LEMMA LapseIs ==
  ASSUME TypeOK, Lapse
  PROVE  /\ Frozen /\ pass' \in Pass /\ pass'.lapsed /\ pass'.raced /\ left' \in Nat
         /\ UNCHANGED <<clock, active, back, tree, queue, flight, gone, sound>>
         /\ pass'.pc = pass.pc /\ pass'.to = pass.to /\ pass'.origin = pass.origin
         /\ pass'.prune = pass.prune /\ pass'.now = pass.now /\ pass'.edges = pass.edges
         /\ pass'.pages = pass.pages /\ pass'.facts = pass.facts /\ pass'.want = pass.want
         /\ pass'.del = pass.del /\ pass'.put = pass.put /\ pass'.update = pass.update
         /\ pass'.moved = pass.moved /\ pass'.before = pass.before /\ pass'.were = pass.were
  <1>1. Frozen /\ UNCHANGED <<clock, active, back, tree, queue, flight, gone, sound>>
    BY DEF Lapse
  <1>2. pass' = WithLapse(pass)
    BY DEF Lapse, WithLapse
  <1>3. left' \in Nat
    BY DEF Lapse, Spend, TypeOK
  <1>4. pass \in Pass
    BY DEF TypeOK
  <1>5. LET q == WithLapse(pass)
        IN  /\ q \in Pass /\ q.lapsed = TRUE /\ q.raced = TRUE
            /\ q.pc = pass.pc /\ q.to = pass.to /\ q.origin = pass.origin
            /\ q.prune = pass.prune /\ q.now = pass.now /\ q.edges = pass.edges
            /\ q.pages = pass.pages /\ q.facts = pass.facts /\ q.want = pass.want
            /\ q.del = pass.del /\ q.put = pass.put /\ q.update = pass.update
            /\ q.moved = pass.moved /\ q.before = pass.before /\ q.were = pass.were
    BY <1>4, Lapsed
  <1> QED
    BY <1>1, <1>2, <1>3, <1>5

LEMMA MoveIs ==
  ASSUME TypeOK, NEW e \in Moves, Move(e)
  PROVE  LET cyclic == e[1] \in Reach(tree, e[2])
         IN  /\ e \notin tree /\ e \in Scope \X Scope
             /\ tree' = {d \in tree : d[1] # e[1]} \cup {e}
             /\ queue' = (IF cyclic THEN queue ELSE Append(queue, e))
             /\ sound' = (sound /\ ~cyclic /\ Serving = "fga")
             /\ pass' \in Pass
             /\ pass'.moved <=> pass.moved \/ Running
             /\ pass'.raced <=> pass.raced \/ (Running /\ cyclic)
             /\ UNCHANGED <<clock, active, back, flight, gone>> /\ left' \in Nat
             /\ pass'.pc = pass.pc /\ pass'.to = pass.to /\ pass'.origin = pass.origin
             /\ pass'.prune = pass.prune /\ pass'.now = pass.now /\ pass'.edges = pass.edges
             /\ pass'.pages = pass.pages /\ pass'.facts = pass.facts /\ pass'.want = pass.want
             /\ pass'.del = pass.del /\ pass'.put = pass.put /\ pass'.update = pass.update
             /\ pass'.lapsed = pass.lapsed /\ pass'.before = pass.before /\ pass'.were = pass.were
  <1> DEFINE cyclic == e[1] \in Reach(tree, e[2])
             a == pass.moved \/ Running
             b == pass.raced \/ (Running /\ cyclic)
  <1>1. /\ e \notin tree
        /\ tree' = {d \in tree : d[1] # e[1]} \cup {e}
        /\ queue' = (IF cyclic THEN queue ELSE Append(queue, e))
        /\ sound' = (sound /\ ~cyclic /\ Serving = "fga")
        /\ UNCHANGED <<clock, active, back, flight, gone>>
    BY Zenon DEF Move
  <1>2. e \in Scope \X Scope
    BY ReconcileAssumption
  <1>3. left' \in Nat
    BY DEF Move, Spend, TypeOK
  <1>4. pass' = WithMove(pass, a, b)
    BY Zenon DEF Move, WithMove
  <1>5. pass \in Pass /\ a \in BOOLEAN /\ b \in BOOLEAN
    BY DEF TypeOK
  <1> HIDE DEF cyclic, a, b
  <1>6. LET q == WithMove(pass, a, b)
        IN  /\ q \in Pass /\ q.moved = a /\ q.raced = b
            /\ q.pc = pass.pc /\ q.to = pass.to /\ q.origin = pass.origin
            /\ q.prune = pass.prune /\ q.now = pass.now /\ q.edges = pass.edges
            /\ q.pages = pass.pages /\ q.facts = pass.facts /\ q.want = pass.want
            /\ q.del = pass.del /\ q.put = pass.put /\ q.update = pass.update
            /\ q.lapsed = pass.lapsed /\ q.before = pass.before /\ q.were = pass.were
    BY <1>5, MovedUnder
  <1>7. /\ pass' \in Pass /\ pass'.moved = a /\ pass'.raced = b
        /\ pass'.pc = pass.pc /\ pass'.to = pass.to /\ pass'.origin = pass.origin
        /\ pass'.prune = pass.prune /\ pass'.now = pass.now /\ pass'.edges = pass.edges
        /\ pass'.pages = pass.pages /\ pass'.facts = pass.facts /\ pass'.want = pass.want
        /\ pass'.del = pass.del /\ pass'.put = pass.put /\ pass'.update = pass.update
        /\ pass'.lapsed = pass.lapsed /\ pass'.before = pass.before /\ pass'.were = pass.were
    BY <1>4, <1>6
  <1> QED
    BY <1>1, <1>2, <1>3, <1>7, Zenon DEF cyclic, a, b

GrantedHere(x, op) == [AddStructure(x, {op.key[2]}) EXCEPT !.held[op.key] = op.exp]
HeldHere(x, op) == [x EXCEPT !.held[op.key] = op.exp]
DeniedHere(x, op) == [x EXCEPT !.denied = @ \cup {op.deny}]

LEMMA HereFields ==
  ASSUME NEW x \in Store, NEW k \in HeldKey, NEW e \in Expiry, NEW op, op.key = k, op.exp = e
  PROVE  /\ GrantedHere(x, op) \in Store /\ HeldHere(x, op) \in Store
         /\ GrantedHere(x, op).held = [x.held EXCEPT ![k] = e]
         /\ GrantedHere(x, op).role = x.role \cup {k[2]} /\ GrantedHere(x, op).binding = x.binding \cup {k[2]}
         /\ GrantedHere(x, op).parent = x.parent /\ GrantedHere(x, op).denied = x.denied
         /\ GrantedHere(x, op).permits = x.permits /\ GrantedHere(x, op).rooted = x.rooted
         /\ HeldHere(x, op).held = [x.held EXCEPT ![k] = e]
         /\ HeldHere(x, op).role = x.role /\ HeldHere(x, op).binding = x.binding
         /\ HeldHere(x, op).parent = x.parent /\ HeldHere(x, op).denied = x.denied
         /\ HeldHere(x, op).permits = x.permits /\ HeldHere(x, op).rooted = x.rooted
  <1> DEFINE h == [x.held EXCEPT ![k] = e]
             r == x.role \cup {k[2]}
             b == x.binding \cup {k[2]}
  <1>1. h \in [Holder \X Place -> Expiry \cup {Absent}]
    BY DEF Store, HeldKey
  <1>2. r \in SUBSET Place /\ b \in SUBSET Place
    BY DEF Store, HeldKey
  <1>3. GrantedHere(x, op) = [x EXCEPT !.role = r, !.binding = b, !.held = h]
    BY DEF GrantedHere, AddStructure, Store
  <1>4. HeldHere(x, op) = [x EXCEPT !.held = h]
    BY DEF HeldHere, Store
  <1> HIDE DEF h, r, b
  <1>5. LET y == [x EXCEPT !.role = r, !.binding = b, !.held = h]
        IN  /\ y \in Store /\ y.held = h /\ y.role = r /\ y.binding = b
            /\ y.parent = x.parent /\ y.denied = x.denied /\ y.permits = x.permits /\ y.rooted = x.rooted
    BY <1>1, <1>2 DEF Store
  <1>6. LET y == [x EXCEPT !.held = h]
        IN  /\ y \in Store /\ y.held = h /\ y.role = x.role /\ y.binding = x.binding
            /\ y.parent = x.parent /\ y.denied = x.denied /\ y.permits = x.permits /\ y.rooted = x.rooted
    BY <1>1, <1>2 DEF Store
  <1> QED
    BY <1>3, <1>4, <1>5, <1>6 DEF h, r, b

LEMMA DenyFields ==
  ASSUME NEW x \in Store, NEW op, op.deny \in DenyKey
  PROVE  /\ DeniedHere(x, op) \in Store /\ DeniedHere(x, op).denied = x.denied \cup {op.deny}
         /\ DeniedHere(x, op).held = x.held /\ DeniedHere(x, op).role = x.role
         /\ DeniedHere(x, op).binding = x.binding /\ DeniedHere(x, op).parent = x.parent
         /\ DeniedHere(x, op).permits = x.permits /\ DeniedHere(x, op).rooted = x.rooted
  <1> DEFINE d == x.denied \cup {op.deny}
  <1>1. d \in SUBSET (Holder \X Scope \X Perm)
    BY DEF Store, DenyKey
  <1>2. DeniedHere(x, op) = [x EXCEPT !.denied = d]
    BY DEF DeniedHere
  <1> HIDE DEF d
  <1>3. LET y == [x EXCEPT !.denied = d]
        IN  /\ y \in Store /\ y.held = x.held /\ y.role = x.role /\ y.binding = x.binding /\ y.denied = d
            /\ y.parent = x.parent /\ y.permits = x.permits /\ y.rooted = x.rooted
    BY <1>1 DEF Store
  <1> QED
    BY <1>2, <1>3 DEF d

LEMMA LandedFields ==
  ASSUME TypeOK, NEW x \in Store, NEW op \in Op \cup {[op |-> "relay"]}, op.op # "relay"
  PROVE  LET y == Landed(x, op)
         IN  /\ y \in Store /\ TupleOf(op) \in Tuple
             /\ y.held = (IF op.op = "grant" THEN [x.held EXCEPT ![op.key] = op.exp]
                          ELSE IF op.op = "revoke" THEN [x.held EXCEPT ![op.key] = Absent] ELSE x.held)
             /\ y.denied = (IF op.op = "deny" THEN x.denied \cup {op.deny}
                            ELSE IF op.op = "removeDeny" THEN x.denied \ {op.deny} ELSE x.denied)
             /\ y.parent = x.parent /\ y.permits = x.permits /\ y.rooted = x.rooted
  <1>1. \/ op.op \in {"grant", "revoke"} /\ op.key \in HeldKey /\ op.exp \in Expiry
        \/ op.op \in {"deny", "removeDeny"} /\ op.deny \in DenyKey
    BY OpIs
  <1>2. CASE op.op = "grant"
    <2>1. Landed(x, op) = (IF Serving = "fga" THEN GrantedHere(x, op) ELSE HeldHere(x, op))
      BY <1>2, BackTypes DEF Landed, GrantedHere, HeldHere, Backend
    <2>2. TupleOf(op) \in Tuple
      BY <1>1, <1>2, TupleMade DEF TupleOf
    <2> QED
      BY <1>1, <1>2, <2>1, <2>2, HereFields
  <1>3. CASE op.op = "deny"
    <2>1. Landed(x, op) = DeniedHere(x, op)
      BY <1>3 DEF Landed, DeniedHere
    <2>2. TupleOf(op) \in Tuple
      BY <1>1, <1>3, TupleMade DEF TupleOf
    <2> QED
      BY <1>1, <1>3, <2>1, <2>2, DenyFields
  <1>4. CASE op.op \in {"revoke", "removeDeny"}
    <2> DEFINE t == TupleOf(op)
    <2>1. t \in Tuple
      BY <1>1, <1>4, TupleMade DEF TupleOf
    <2>2. Landed(x, op) = Without(x, t)
      BY <1>4 DEF Landed
    <2>3. /\ op.op = "revoke" => t[1] = "held" /\ t[2] = op.key
          /\ op.op = "removeDeny" => t[1] = "denied" /\ t[2] = op.deny
      BY <1>4 DEF TupleOf
    <2> HIDE DEF t
    <2>4. Without(x, t) \in Store
      BY <2>1, WithoutType
    <2>5. /\ Without(x, t).parent = (IF t[1] = "parent" THEN x.parent \ {t[2]} ELSE x.parent)
          /\ Without(x, t).held = (IF t[1] = "held" THEN [x.held EXCEPT ![t[2]] = Absent] ELSE x.held)
          /\ Without(x, t).denied = (IF t[1] = "denied" THEN x.denied \ {t[2]} ELSE x.denied)
          /\ Without(x, t).permits = (IF t[1] = "permits" THEN x.permits \ {t[2]} ELSE x.permits)
          /\ Without(x, t).rooted = (IF t[1] = "rooted" THEN FALSE ELSE x.rooted)
      BY <2>1, WithoutFields
    <2>6. CASE op.op = "revoke"
      BY <2>1, <2>2, <2>3, <2>4, <2>5, <2>6 DEF t
    <2>7. CASE op.op = "removeDeny"
      BY <2>1, <2>2, <2>3, <2>4, <2>5, <2>7 DEF t
    <2> QED
      BY <1>4, <2>6, <2>7
  <1> QED
    BY <1>1, <1>2, <1>3, <1>4

\* What a write that lands does to the facts of a store.
LEMMA LandedTuples ==
  ASSUME TypeOK, NEW x \in Store, NEW op \in Op \cup {[op |-> "relay"]}, op.op # "relay"
  PROVE  LET y == Landed(x, op)
         IN  \A t \in Tuple : t[1] \in {"held", "denied"} =>
                /\ t # TupleOf(op) => (t \in Tuples(y) <=> t \in Tuples(x))
                /\ t = TupleOf(op) /\ op.op \in {"revoke", "removeDeny"} => t \notin Tuples(y)
  <1> DEFINE y == Landed(x, op)
  <1>1. /\ y \in Store
        /\ y.held = (IF op.op = "grant" THEN [x.held EXCEPT ![op.key] = op.exp]
                     ELSE IF op.op = "revoke" THEN [x.held EXCEPT ![op.key] = Absent] ELSE x.held)
        /\ y.denied = (IF op.op = "deny" THEN x.denied \cup {op.deny}
                       ELSE IF op.op = "removeDeny" THEN x.denied \ {op.deny} ELSE x.denied)
    BY LandedFields
  <1>2. \/ op.op \in {"grant", "revoke"} /\ op.key \in HeldKey /\ op.exp \in Expiry
        \/ op.op \in {"deny", "removeDeny"} /\ op.deny \in DenyKey
    BY OpIs
  <1>3. x.held \in [HeldKey -> Expiry \cup {Absent}]
    BY DEF Store, HeldKey
  <1> HIDE DEF y
  <1> SUFFICES ASSUME NEW t \in Tuple, t[1] \in {"held", "denied"}
               PROVE  /\ t # TupleOf(op) => (t \in Tuples(y) <=> t \in Tuples(x))
                      /\ t = TupleOf(op) /\ op.op \in {"revoke", "removeDeny"} => t \notin Tuples(y)
    BY DEF y
  <1>4. t = <<t[1], t[2]>>
    BY TupleIs
  <1> DEFINE v == t[2]
  <1>5. CASE t[1] = "held"
    <2>1. t = <<"held", v>>
      BY <1>4, <1>5
    <2>2. v \in HeldKey
      BY <1>5, TupleIs
    <2>3. /\ <<"held", v>> \in Tuples(x) <=> x.held[v] # Absent
          /\ <<"held", v>> \in Tuples(y) <=> y.held[v] # Absent
      BY <1>1, <2>2, TuplesOf
    <2>4. TupleOf(op) = t <=> op.op \in {"grant", "revoke"} /\ op.key = v
      BY <1>2, <2>1 DEF TupleOf
    <2> QED
      BY <1>1, <1>2, <1>3, <2>1, <2>2, <2>3, <2>4
  <1>6. CASE t[1] = "denied"
    <2>1. t = <<"denied", v>>
      BY <1>4, <1>6
    <2>2. /\ <<"denied", v>> \in Tuples(x) <=> v \in x.denied
          /\ <<"denied", v>> \in Tuples(y) <=> v \in y.denied
      BY <1>1, TuplesOf
    <2>3. TupleOf(op) = t <=> op.op \in {"deny", "removeDeny"} /\ op.deny = v
      BY <1>2, <2>1 DEF TupleOf
    <2> QED
      BY <1>1, <1>2, <2>1, <2>2, <2>3
  <1> QED
    BY <1>5, <1>6

LEMMA LandIs ==
  ASSUME TypeOK, NEW op \in flight, Land(op)
  PROVE  LET x == Landed(back[Serving], op)
         IN  /\ op.op # "relay" /\ op \in Op \cup {[op |-> "relay"]} /\ flight' = {}
             /\ x \in Store /\ back' \in [Backend -> Store] /\ back'[Serving] = x
             /\ \A c \in Backend : c # Serving => back'[c] = back[c]
             /\ gone' = (IF op.op \in {"revoke", "removeDeny"} /\ ~(Running /\ pass.to = Serving)
                         THEN gone \cup {TupleOf(op)} ELSE gone \ {TupleOf(op)})
             /\ pass' \in Pass
             /\ pass'.were = (IF Running /\ pass.pages # {} /\ pass.origin = "sql"
                              THEN pass.were \cup {back'.sql} ELSE pass.were)
             /\ UNCHANGED <<clock, active, tree, queue, sound, left>>
             /\ pass'.pc = pass.pc /\ pass'.to = pass.to /\ pass'.origin = pass.origin
             /\ pass'.prune = pass.prune /\ pass'.now = pass.now /\ pass'.edges = pass.edges
             /\ pass'.pages = pass.pages /\ pass'.facts = pass.facts /\ pass'.want = pass.want
             /\ pass'.del = pass.del /\ pass'.put = pass.put /\ pass'.update = pass.update
             /\ pass'.lapsed = pass.lapsed /\ pass'.raced = pass.raced /\ pass'.moved = pass.moved
             /\ pass'.before = pass.before
  <1> DEFINE x == Landed(back[Serving], op)
             S == IF Running /\ pass.pages # {} /\ pass.origin = "sql"
                  THEN pass.were \cup {back'.sql} ELSE pass.were
  <1>1. /\ op.op # "relay" /\ flight' = {} /\ back' = [back EXCEPT ![Serving] = x]
        /\ UNCHANGED <<clock, active, tree, queue, sound, left>>
    BY DEF Land
  <1>2. gone' = (IF op.op \in {"revoke", "removeDeny"} /\ ~(Running /\ pass.to = Serving)
                 THEN gone \cup {TupleOf(op)} ELSE gone \ {TupleOf(op)})
    BY Zenon DEF Land
  <1>3. pass' = WithWere(pass, S)
    BY Zenon DEF Land, WithWere
  <1>4. op \in Op \cup {[op |-> "relay"]} /\ back \in [Backend -> Store] /\ Serving \in Backend
        /\ pass \in Pass
    BY BackTypes DEF TypeOK
  <1>5. x \in Store
    BY <1>1, <1>4, BackTypes, LandedFields
  <1> HIDE DEF x
  <1>6. /\ back' \in [Backend -> Store] /\ back'[Serving] = x
        /\ \A c \in Backend : c # Serving => back'[c] = back[c]
    BY <1>1, <1>4, <1>5, BackSet
  <1>7. S \in SUBSET Store
    BY <1>4, <1>6, PassTypes DEF Backend
  <1> HIDE DEF S
  <1>8. LET q == WithWere(pass, S)
        IN  /\ q \in Pass /\ q.were = S
            /\ q.pc = pass.pc /\ q.to = pass.to /\ q.origin = pass.origin
            /\ q.prune = pass.prune /\ q.now = pass.now /\ q.edges = pass.edges
            /\ q.pages = pass.pages /\ q.facts = pass.facts /\ q.want = pass.want
            /\ q.del = pass.del /\ q.put = pass.put /\ q.update = pass.update
            /\ q.lapsed = pass.lapsed /\ q.raced = pass.raced /\ q.moved = pass.moved
            /\ q.before = pass.before
    BY <1>4, <1>7, WereMore
  <1>9. /\ pass' \in Pass /\ pass'.were = S
        /\ pass'.pc = pass.pc /\ pass'.to = pass.to /\ pass'.origin = pass.origin
        /\ pass'.prune = pass.prune /\ pass'.now = pass.now /\ pass'.edges = pass.edges
        /\ pass'.pages = pass.pages /\ pass'.facts = pass.facts /\ pass'.want = pass.want
        /\ pass'.del = pass.del /\ pass'.put = pass.put /\ pass'.update = pass.update
        /\ pass'.lapsed = pass.lapsed /\ pass'.raced = pass.raced /\ pass'.moved = pass.moved
        /\ pass'.before = pass.before
    BY <1>3, <1>8
  <1> QED
    BY <1>1, <1>2, <1>4, <1>5, <1>6, <1>9 DEF x, S

LEMMA RelayedFields ==
  ASSUME NEW x \in Store, NEW e \in Scope \X Scope
  PROVE  LET y == Relayed(x, e)
         IN  /\ y \in Store /\ y.parent = {d \in x.parent : d[1] # e[1]} \cup {e}
             /\ y.role = x.role /\ y.held = x.held /\ y.denied = x.denied
             /\ y.permits = x.permits /\ y.rooted = x.rooted
  <1> DEFINE y == Reparent(x, e[1], {e[2]})
             E == {d \in x.parent : d[1] # e[1]} \cup {e}
             moved == {pl \in x.role : pl[2] \in Known /\ Catalog[pl[2]].owner # Global
                                        /\ e[1] \in Up(y, pl[1])}
             b == (y.binding \ moved) \cup {pl \in moved : Seen(pl, y.parent)}
  <1>1. Relayed(x, e) = [y EXCEPT !.binding = b]
    BY Zenon DEF Relayed
  <1>2. moved \subseteq x.role
    OBVIOUS
  <1> HIDE DEF moved
  <1>3. {e[1]} \X {e[2]} = {e}
    <2>1. e = <<e[1], e[2]>>
      BY PairIs
    <2> QED
      BY <2>1
  <1>4. y = [x EXCEPT !.parent = E]
    BY <1>3 DEF Reparent, Store
  <1>5. E \in SUBSET (Scope \X Scope)
    BY DEF Store
  <1>6. y \in Store /\ y.parent = E /\ y.binding = x.binding /\ y.role = x.role /\ y.held = x.held
        /\ y.denied = x.denied /\ y.permits = x.permits /\ y.rooted = x.rooted
    <2> HIDE DEF y, E
    <2> QED
      BY <1>4, <1>5 DEF Store
  <1>7. b \in SUBSET Place
    <2> HIDE DEF y
    <2> QED
      BY <1>2, <1>6 DEF Store
  <1> HIDE DEF y, b, E
  <1>8. LET z == [y EXCEPT !.binding = b]
        IN  /\ z \in Store /\ z.parent = y.parent /\ z.role = y.role /\ z.held = y.held
            /\ z.denied = y.denied /\ z.permits = y.permits /\ z.rooted = y.rooted
    BY <1>6, <1>7 DEF Store
  <1> QED
    BY <1>1, <1>6, <1>8 DEF E

LEMMA RelayIs ==
  ASSUME TypeOK, Relay, queue # <<>>
  PROVE  LET e == Head(queue)
         IN  /\ [op |-> "relay"] \in flight /\ flight' = {} /\ e \in Scope \X Scope
             /\ Serving = "fga" => e[1] \notin Up(back.fga, e[2])
             /\ back' \in [Backend -> Store] /\ back'.sql = back.sql
             /\ back'.fga = (IF Serving = "fga" THEN Relayed(back.fga, e) ELSE back.fga)
             /\ queue' = Tail(queue) /\ queue' \in Seq(Scope \X Scope)
             /\ sound' = (sound /\ Serving = "fga")
             /\ UNCHANGED <<clock, active, tree, pass, gone, left>>
  <1> DEFINE e == Head(queue)
             x == Relayed(back.fga, e)
  <1>1. queue \in Seq(Scope \X Scope) /\ back \in [Backend -> Store]
    BY DEF TypeOK
  <1>2. e \in Scope \X Scope /\ Tail(queue) \in Seq(Scope \X Scope)
    BY <1>1
  <1>3. /\ [op |-> "relay"] \in flight /\ flight' = {} /\ queue' = Tail(queue)
        /\ Serving = "fga" => e[1] \notin Up(back.fga, e[2])
        /\ sound' = (sound /\ Serving = "fga")
        /\ UNCHANGED <<clock, active, tree, pass, gone, left>>
    BY DEF Relay
  <1>4. back' = (IF Serving = "fga" THEN [back EXCEPT !.fga = x] ELSE back)
    BY <1>1, Zenon DEF Relay
  <1>5. x \in Store
    BY <1>2, BackTypes, RelayedFields
  <1> HIDE DEF x
  <1>6. LET g == [back EXCEPT !["fga"] = x]
        IN  /\ g \in [Backend -> Store] /\ g["fga"] = x
            /\ \A c \in Backend : c # "fga" => g[c] = back[c]
    BY <1>1, <1>5, BackSet DEF Backend
  <1>7. /\ back' \in [Backend -> Store]
        /\ back'["fga"] = (IF Serving = "fga" THEN x ELSE back["fga"]) /\ back'["sql"] = back["sql"]
    BY <1>1, <1>4, <1>6 DEF Backend
  <1>8. back["fga"] = back.fga /\ back["sql"] = back.sql
    BY BackTypes
  <1> QED
    BY <1>2, <1>3, <1>7, <1>8 DEF x

-----------------------------------------------------------------------------
(* What a request does to the tuples.                                      *)

LEMMA WithoutTuples ==
  ASSUME NEW x \in Store, NEW t \in Tuple, NEW u \in Tuple
  PROVE  u \in Tuples(Without(x, t)) <=> u \in Tuples(x) /\ u # t
  <1> DEFINE z == Without(x, t)
             v == u[2]
  <1>0. /\ z.parent = (IF t[1] = "parent" THEN x.parent \ {t[2]} ELSE x.parent)
        /\ z.binding = (IF t[1] = "binding" THEN x.binding \ {t[2]} ELSE x.binding)
        /\ z.role = (IF t[1] = "role" THEN x.role \ {t[2]} ELSE x.role)
        /\ z.held = (IF t[1] = "held" THEN [x.held EXCEPT ![t[2]] = Absent] ELSE x.held)
        /\ z.denied = (IF t[1] = "denied" THEN x.denied \ {t[2]} ELSE x.denied)
        /\ z.permits = (IF t[1] = "permits" THEN x.permits \ {t[2]} ELSE x.permits)
        /\ z.rooted = (IF t[1] = "rooted" THEN FALSE ELSE x.rooted)
    BY WithoutFields
  <1>1. z \in Store /\ x \in Store /\ x.held \in [HeldKey -> Expiry \cup {Absent}]
    BY WithoutType DEF Store, HeldKey
  <1> HIDE DEF z
  <1>2. u = <<u[1], v>>
    BY TupleIs
  <1>3. t = <<t[1], t[2]>>
    BY TupleIs
  <1> SUFFICES u \in Tuples(z) <=> u \in Tuples(x) /\ u # t
    BY DEF z
  <1>4. CASE u[1] = "parent"
    <2>1. u = <<"parent", v>>
      BY <1>2, <1>4
    <2>2. /\ u \in Tuples(x) <=> <<"parent", v>> \in Tuples(x)
          /\ u \in Tuples(z) <=> <<"parent", v>> \in Tuples(z)
      BY <2>1
    <2>3. t = u <=> t[1] = "parent" /\ t[2] = v
      BY <1>2, <1>3, <2>1
    <2>4. /\ u \in Tuples(x) <=> v \in x.parent
          /\ u \in Tuples(z) <=> v \in z.parent
      BY <1>1, <2>2, TuplesOf
    <2> QED
      BY <1>0, <1>1, <1>4, <2>1, <2>3, <2>4
  <1>5. CASE u[1] = "binding"
    <2>1. u = <<"binding", v>>
      BY <1>2, <1>5
    <2>2. /\ u \in Tuples(x) <=> <<"binding", v>> \in Tuples(x)
          /\ u \in Tuples(z) <=> <<"binding", v>> \in Tuples(z)
      BY <2>1
    <2>3. t = u <=> t[1] = "binding" /\ t[2] = v
      BY <1>2, <1>3, <2>1
    <2>4. /\ u \in Tuples(x) <=> v \in x.binding
          /\ u \in Tuples(z) <=> v \in z.binding
      BY <1>1, <2>2, TuplesOf
    <2> QED
      BY <1>0, <1>1, <1>5, <2>1, <2>3, <2>4
  <1>6. CASE u[1] = "role"
    <2>1. u = <<"role", v>>
      BY <1>2, <1>6
    <2>2. /\ u \in Tuples(x) <=> <<"role", v>> \in Tuples(x)
          /\ u \in Tuples(z) <=> <<"role", v>> \in Tuples(z)
      BY <2>1
    <2>3. t = u <=> t[1] = "role" /\ t[2] = v
      BY <1>2, <1>3, <2>1
    <2>4. /\ u \in Tuples(x) <=> v \in x.role
          /\ u \in Tuples(z) <=> v \in z.role
      BY <1>1, <2>2, TuplesOf
    <2> QED
      BY <1>0, <1>1, <1>6, <2>1, <2>3, <2>4
  <1>7. CASE u[1] = "held"
    <2>1. u = <<"held", v>>
      BY <1>2, <1>7
    <2>2. /\ u \in Tuples(x) <=> <<"held", v>> \in Tuples(x)
          /\ u \in Tuples(z) <=> <<"held", v>> \in Tuples(z)
      BY <2>1
    <2>3. t = u <=> t[1] = "held" /\ t[2] = v
      BY <1>2, <1>3, <2>1
    <2>4. v \in HeldKey
      BY <1>7, TupleIs
    <2>5. /\ u \in Tuples(x) <=> x.held[v] # Absent
          /\ u \in Tuples(z) <=> z.held[v] # Absent
      BY <1>1, <2>2, <2>4, TuplesOf
    <2> QED
      BY <1>0, <1>1, <1>7, <2>1, <2>3, <2>4, <2>5
  <1>8. CASE u[1] = "denied"
    <2>1. u = <<"denied", v>>
      BY <1>2, <1>8
    <2>2. /\ u \in Tuples(x) <=> <<"denied", v>> \in Tuples(x)
          /\ u \in Tuples(z) <=> <<"denied", v>> \in Tuples(z)
      BY <2>1
    <2>3. t = u <=> t[1] = "denied" /\ t[2] = v
      BY <1>2, <1>3, <2>1
    <2>4. /\ u \in Tuples(x) <=> v \in x.denied
          /\ u \in Tuples(z) <=> v \in z.denied
      BY <1>1, <2>2, TuplesOf
    <2> QED
      BY <1>0, <1>1, <1>8, <2>1, <2>3, <2>4
  <1>9. CASE u[1] = "permits"
    <2>1. u = <<"permits", v>>
      BY <1>2, <1>9
    <2>2. /\ u \in Tuples(x) <=> <<"permits", v>> \in Tuples(x)
          /\ u \in Tuples(z) <=> <<"permits", v>> \in Tuples(z)
      BY <2>1
    <2>3. t = u <=> t[1] = "permits" /\ t[2] = v
      BY <1>2, <1>3, <2>1
    <2>4. /\ u \in Tuples(x) <=> v \in x.permits
          /\ u \in Tuples(z) <=> v \in z.permits
      BY <1>1, <2>2, TuplesOf
    <2> QED
      BY <1>0, <1>1, <1>9, <2>1, <2>3, <2>4
  <1>10. CASE u[1] = "rooted"
    <2>1. u = <<"rooted", v>>
      BY <1>2, <1>10
    <2>2. /\ u \in Tuples(x) <=> <<"rooted", v>> \in Tuples(x)
          /\ u \in Tuples(z) <=> <<"rooted", v>> \in Tuples(z)
      BY <2>1
    <2>3. t = u <=> t[1] = "rooted" /\ t[2] = v
      BY <1>2, <1>3, <2>1
    <2>4. v = Root
      BY <1>10, TupleIs
    <2>5. t[1] = "rooted" => t[2] = Root
      BY TupleIs
    <2>6. /\ u \in Tuples(x) <=> x.rooted
          /\ u \in Tuples(z) <=> z.rooted
      BY <1>1, <2>2, <2>4, TuplesOf
    <2> QED
      BY <1>0, <1>1, <1>10, <2>1, <2>3, <2>4, <2>5, <2>6, Zenon
  <1> QED
    BY <1>2, <1>4, <1>5, <1>6, <1>7, <1>8, <1>9, <1>10, TupleIs


LEMMA WithTuples ==
  ASSUME NEW x \in Store, NEW t \in Tuple, NEW y \in Store, NEW u \in Tuple
  PROVE  /\ u \in Tuples(With(x, t, y)) => u \in Tuples(x) \/ u = t
         /\ u \in Tuples(x) /\ u # t => u \in Tuples(With(x, t, y))
         /\ t \in Tuples(y) => (u \in Tuples(With(x, t, y)) <=> u \in Tuples(x) \/ u = t)
  <1> DEFINE z == With(x, t, y)
             v == u[2]
  <1>0. /\ z.parent = (IF t[1] = "parent" THEN x.parent \cup {t[2]} ELSE x.parent)
        /\ z.binding = (IF t[1] = "binding" THEN x.binding \cup {t[2]} ELSE x.binding)
        /\ z.role = (IF t[1] = "role" THEN x.role \cup {t[2]} ELSE x.role)
        /\ z.held = (IF t[1] = "held" THEN [x.held EXCEPT ![t[2]] = y.held[t[2]]] ELSE x.held)
        /\ z.denied = (IF t[1] = "denied" THEN x.denied \cup {t[2]} ELSE x.denied)
        /\ z.permits = (IF t[1] = "permits" THEN x.permits \cup {t[2]} ELSE x.permits)
        /\ z.rooted = (IF t[1] = "rooted" THEN TRUE ELSE x.rooted)
    BY WithFields
  <1>1. z \in Store /\ x \in Store /\ x.held \in [HeldKey -> Expiry \cup {Absent}]
    BY WithType DEF Store, HeldKey
  <1> HIDE DEF z
  <1>2. u = <<u[1], v>>
    BY TupleIs
  <1>3. t = <<t[1], t[2]>>
    BY TupleIs
  <1>4. t[1] = "held" => (t \in Tuples(y) <=> y.held[t[2]] # Absent)
    <2>1. t[1] = "held" => t = <<"held", t[2]>> /\ t[2] \in HeldKey
      BY <1>3, TupleIs
    <2>2. t[2] \in HeldKey => (<<"held", t[2]>> \in Tuples(y) <=> y.held[t[2]] # Absent)
      BY TuplesOf
    <2> QED
      BY <2>1, <2>2
  <1> SUFFICES /\ u \in Tuples(z) => u \in Tuples(x) \/ u = t
               /\ u \in Tuples(x) /\ u # t => u \in Tuples(z)
               /\ t \in Tuples(y) => (u \in Tuples(z) <=> u \in Tuples(x) \/ u = t)
    BY DEF z
  <1>5. CASE u[1] = "parent"
    <2>1. u = <<"parent", v>>
      BY <1>2, <1>5
    <2>2. /\ u \in Tuples(x) <=> <<"parent", v>> \in Tuples(x)
          /\ u \in Tuples(z) <=> <<"parent", v>> \in Tuples(z)
      BY <2>1
    <2>3. t = u <=> t[1] = "parent" /\ t[2] = v
      BY <1>2, <1>3, <2>1
    <2>4. /\ u \in Tuples(x) <=> v \in x.parent
          /\ u \in Tuples(z) <=> v \in z.parent
      BY <1>1, <2>2, TuplesOf
    <2> QED
      BY <1>0, <1>1, <1>5, <2>1, <2>3, <2>4
  <1>6. CASE u[1] = "binding"
    <2>1. u = <<"binding", v>>
      BY <1>2, <1>6
    <2>2. /\ u \in Tuples(x) <=> <<"binding", v>> \in Tuples(x)
          /\ u \in Tuples(z) <=> <<"binding", v>> \in Tuples(z)
      BY <2>1
    <2>3. t = u <=> t[1] = "binding" /\ t[2] = v
      BY <1>2, <1>3, <2>1
    <2>4. /\ u \in Tuples(x) <=> v \in x.binding
          /\ u \in Tuples(z) <=> v \in z.binding
      BY <1>1, <2>2, TuplesOf
    <2> QED
      BY <1>0, <1>1, <1>6, <2>1, <2>3, <2>4
  <1>7. CASE u[1] = "role"
    <2>1. u = <<"role", v>>
      BY <1>2, <1>7
    <2>2. /\ u \in Tuples(x) <=> <<"role", v>> \in Tuples(x)
          /\ u \in Tuples(z) <=> <<"role", v>> \in Tuples(z)
      BY <2>1
    <2>3. t = u <=> t[1] = "role" /\ t[2] = v
      BY <1>2, <1>3, <2>1
    <2>4. /\ u \in Tuples(x) <=> v \in x.role
          /\ u \in Tuples(z) <=> v \in z.role
      BY <1>1, <2>2, TuplesOf
    <2> QED
      BY <1>0, <1>1, <1>7, <2>1, <2>3, <2>4
  <1>8. CASE u[1] = "held"
    <2>1. u = <<"held", v>>
      BY <1>2, <1>8
    <2>2. /\ u \in Tuples(x) <=> <<"held", v>> \in Tuples(x)
          /\ u \in Tuples(z) <=> <<"held", v>> \in Tuples(z)
      BY <2>1
    <2>3. t = u <=> t[1] = "held" /\ t[2] = v
      BY <1>2, <1>3, <2>1
    <2>4. v \in HeldKey
      BY <1>8, TupleIs
    <2>5. /\ u \in Tuples(x) <=> x.held[v] # Absent
          /\ u \in Tuples(z) <=> z.held[v] # Absent
      BY <1>1, <2>2, <2>4, TuplesOf
    <2> QED
      BY <1>0, <1>1, <1>4, <1>8, <2>1, <2>3, <2>4, <2>5
  <1>9. CASE u[1] = "denied"
    <2>1. u = <<"denied", v>>
      BY <1>2, <1>9
    <2>2. /\ u \in Tuples(x) <=> <<"denied", v>> \in Tuples(x)
          /\ u \in Tuples(z) <=> <<"denied", v>> \in Tuples(z)
      BY <2>1
    <2>3. t = u <=> t[1] = "denied" /\ t[2] = v
      BY <1>2, <1>3, <2>1
    <2>4. /\ u \in Tuples(x) <=> v \in x.denied
          /\ u \in Tuples(z) <=> v \in z.denied
      BY <1>1, <2>2, TuplesOf
    <2> QED
      BY <1>0, <1>1, <1>9, <2>1, <2>3, <2>4
  <1>10. CASE u[1] = "permits"
    <2>1. u = <<"permits", v>>
      BY <1>2, <1>10
    <2>2. /\ u \in Tuples(x) <=> <<"permits", v>> \in Tuples(x)
          /\ u \in Tuples(z) <=> <<"permits", v>> \in Tuples(z)
      BY <2>1
    <2>3. t = u <=> t[1] = "permits" /\ t[2] = v
      BY <1>2, <1>3, <2>1
    <2>4. /\ u \in Tuples(x) <=> v \in x.permits
          /\ u \in Tuples(z) <=> v \in z.permits
      BY <1>1, <2>2, TuplesOf
    <2> QED
      BY <1>0, <1>1, <1>10, <2>1, <2>3, <2>4
  <1>11. CASE u[1] = "rooted"
    <2>1. u = <<"rooted", v>>
      BY <1>2, <1>11
    <2>2. /\ u \in Tuples(x) <=> <<"rooted", v>> \in Tuples(x)
          /\ u \in Tuples(z) <=> <<"rooted", v>> \in Tuples(z)
      BY <2>1
    <2>3. t = u <=> t[1] = "rooted" /\ t[2] = v
      BY <1>2, <1>3, <2>1
    <2>4. v = Root
      BY <1>11, TupleIs
    <2>5. t[1] = "rooted" => t[2] = Root
      BY TupleIs
    <2>6. /\ u \in Tuples(x) <=> x.rooted
          /\ u \in Tuples(z) <=> z.rooted
      BY <1>1, <2>2, <2>4, TuplesOf
    <2> QED
      BY <1>0, <1>1, <1>11, <2>1, <2>3, <2>4, <2>5, <2>6, Zenon
  <1> QED
    BY <1>2, <1>5, <1>6, <1>7, <1>8, <1>9, <1>10, <1>11, TupleIs


\* Stores with the same facts, and a store with facts of two.
LEMMA SameFacts ==
  ASSUME NEW x \in Store, NEW y \in Store, NEW z \in Store,
         y.held \in {x.held, z.held}, y.denied \in {x.denied, z.denied},
         NEW t \in Tuple, t[1] \in {"held", "denied"}, t \in Tuples(y)
  PROVE  t \in Tuples(x) \/ t \in Tuples(z)
  <1>1. CASE t[1] = "held"
    <2>1. t = <<"held", t[2]>> /\ t[2] \in HeldKey
      BY <1>1, TupleIs
    <2>2. /\ <<"held", t[2]>> \in Tuples(y) <=> t[2] \in HeldKey /\ y.held[t[2]] # Absent
          /\ <<"held", t[2]>> \in Tuples(x) <=> t[2] \in HeldKey /\ x.held[t[2]] # Absent
          /\ <<"held", t[2]>> \in Tuples(z) <=> t[2] \in HeldKey /\ z.held[t[2]] # Absent
      BY TuplesOf
    <2> QED
      BY <2>1, <2>2
  <1>2. CASE t[1] = "denied"
    <2>1. t = <<"denied", t[2]>>
      BY <1>2, TupleIs
    <2>2. /\ <<"denied", t[2]>> \in Tuples(y) <=> t[2] \in y.denied
          /\ <<"denied", t[2]>> \in Tuples(x) <=> t[2] \in x.denied
          /\ <<"denied", t[2]>> \in Tuples(z) <=> t[2] \in z.denied
      BY TuplesOf
    <2> QED
      BY <2>1, <2>2
  <1> QED
    BY <1>1, <1>2

\* What the store should have are facts of the origin.
LEMMA WantedFacts ==
  ASSUME TypeOK, pass.to = "fga", NEW x \in Store, NEW t \in Tuple, t[1] \in {"held", "denied"},
         t \in Tuples(WantOf(x))
  PROVE  t \in Tuples(x)
  <1> DEFINE w == Derived(pass.edges)
             y == WantStore(w, x, pass.edges, pass.now)
             ks == Assignable(x, pass.edges, pass.now)
  <1>1. w \in Store
    BY PassTypes, DerivedFields DEF TypeOK
  <1>2. /\ y \in Store /\ y.denied = Deniable(x, pass.edges)
        /\ y.held = [k \in HeldKey |-> IF k \in ks THEN x.held[k] ELSE Absent]
    BY <1>1, WantStoreFields DEF WantedOf
  <1>3. WantOf(x) = y
    BY DEF WantOf
  <1>4. y.denied \subseteq x.denied
    BY <1>2 DEF Deniable
  <1> HIDE DEF w, y, ks
  <1>5. CASE t[1] = "held"
    <2>1. t = <<"held", t[2]>> /\ t[2] \in HeldKey
      BY <1>5, TupleIs
    <2>2. /\ <<"held", t[2]>> \in Tuples(y) <=> t[2] \in HeldKey /\ y.held[t[2]] # Absent
          /\ <<"held", t[2]>> \in Tuples(x) <=> t[2] \in HeldKey /\ x.held[t[2]] # Absent
      BY <1>2, TuplesOf
    <2> QED
      BY <1>2, <1>3, <2>1, <2>2
  <1>6. CASE t[1] = "denied"
    <2>1. t = <<"denied", t[2]>>
      BY <1>6, TupleIs
    <2>2. /\ <<"denied", t[2]>> \in Tuples(y) <=> t[2] \in y.denied
          /\ <<"denied", t[2]>> \in Tuples(x) <=> t[2] \in x.denied
      BY <1>2, TuplesOf
    <2> QED
      BY <1>3, <1>4, <2>1, <2>2
  <1> QED
    BY <1>5, <1>6

-----------------------------------------------------------------------------
(* The types.                                                              *)

\* There is one write at most under way, and the relay is called for a move that waits.
FlightTold ==
    /\ \A f, g \in flight : f = g
    /\ [op |-> "relay"] \in flight => queue # <<>>

Base == TypeOK /\ FlightTold

LEMMA BaseInit == Init => Base
  <1> SUFFICES ASSUME Init PROVE Base
    OBVIOUS
  <1>1. clock \in Nat /\ active \in Key /\ tree \subseteq Scope \X Scope /\ queue \in Seq(Scope \X Scope)
        /\ flight \subseteq Op \cup {[op |-> "relay"]} /\ gone \subseteq Tuple /\ sound \in BOOLEAN
        /\ left \in Nat /\ flight = {}
    <2>1. clock = 0 /\ active = FirstActive /\ tree = FirstTree /\ queue = <<>> /\ flight = {}
          /\ gone = {} /\ sound = FALSE /\ left = MaxEvents
      BY DEF Init
    <2>2. FirstActive \in Key /\ FirstTree \subseteq Scope \X Scope /\ MaxEvents \in Nat
      BY ReconcileAssumption
    <2>3. clock \in Nat /\ queue \in Seq(Scope \X Scope) /\ left \in Nat
      BY <2>1, <2>2
    <2>4. flight \subseteq Op \cup {[op |-> "relay"]} /\ gone \subseteq Tuple
      BY <2>1, Zenon
    <2>5. active \in Key /\ tree \subseteq Scope \X Scope /\ sound \in BOOLEAN
      BY <2>1, <2>2, Zenon
    <2> QED
      BY <2>1, <2>3, <2>4, <2>5
  <1>2. back \in [Backend -> Store]
    BY ReconcileAssumption DEF Init
  <1>3. pass \in Pass
    BY NoPassType DEF Init
  <1> QED
    BY <1>1, <1>2, <1>3 DEF Base, TypeOK, FlightTold

LEMMA QueueGrows ==
  ASSUME NEW q \in Seq(Scope \X Scope), NEW e \in Scope \X Scope
  PROVE  Append(q, e) \in Seq(Scope \X Scope) /\ Append(q, e) # <<>>
  OBVIOUS

LEMMA BaseNext == Base /\ [Next]_vars => Base'
  <1> SUFFICES ASSUME Base, [Next]_vars PROVE Base'
    OBVIOUS
  <1> USE DEF Base
  <1>0. /\ clock \in Nat /\ active \in Key /\ back \in [Backend -> Store]
        /\ tree \subseteq Scope \X Scope /\ queue \in Seq(Scope \X Scope)
        /\ flight \subseteq Op \cup {[op |-> "relay"]} /\ pass \in Pass
        /\ gone \subseteq Tuple /\ sound \in BOOLEAN /\ left \in Nat
    BY DEF TypeOK
  <1>1. ASSUME pass' \in Pass, OnlyPass PROVE Base'
    BY <1>0, <1>1 DEF OnlyPass, TypeOK, FlightTold
  <1>2. ASSUME pass' \in Pass, back' \in [Backend -> Store],
               UNCHANGED <<clock, active, tree, queue, flight, gone, sound, left>>
        PROVE  Base'
    BY <1>0, <1>2 DEF TypeOK, FlightTold
  <1>3. ASSUME pass' \in Pass, sound' \in BOOLEAN,
               UNCHANGED <<clock, active, back, tree, queue, flight, gone, left>>
        PROVE  Base'
    BY <1>0, <1>3 DEF TypeOK, FlightTold
  <1>4. ASSUME pass' \in Pass, left' \in Nat,
               UNCHANGED <<clock, active, back, tree, queue, flight, gone, sound>>
        PROVE  Base'
    BY <1>0, <1>4 DEF TypeOK, FlightTold
  <1>5. ASSUME NEW a \in Passes, Begin(a) PROVE Base'
    <2>1. /\ pass' \in Pass /\ left' \in Nat /\ gone' \in {gone, {}}
          /\ UNCHANGED <<clock, active, back, tree, queue, flight, sound>>
      BY <1>0, <1>5, BeginIs
    <2> QED
      BY <1>0, <2>1 DEF TypeOK, FlightTold
  <1>6. CASE ReadTree
    BY <1>1, <1>6, ReadTreeIs
  <1>7. CASE ReadTables
    BY <1>1, <1>7, ReadTablesIs
  <1>8. ASSUME NEW f \in {"held", "denied"}, ReadPage(f) PROVE Base'
    BY <1>1, <1>8, ReadPageIs
  <1>9. CASE Plan
    BY <1>1, <1>9, PlanIs
  <1>10. ASSUME NEW t \in pass.del, Delete(t) PROVE Base'
    BY <1>2, <1>10, DeleteIs
  <1>11. ASSUME NEW t \in pass.put, Write(t) PROVE Base'
    <2>1. pass' \in Pass /\ back' \in [Backend -> Store]
          /\ UNCHANGED <<clock, active, tree, queue, flight, gone, sound, left>>
      BY <1>11, WriteIs
    <2> QED
      BY <1>2, <2>1
  <1>12. CASE Finish
    BY <1>3, <1>12, FinishIs
  <1>13. CASE Die
    BY <1>3, <1>13, DieIs
  <1>14. CASE Lapse
    BY <1>4, <1>14, LapseIs
  <1>15. ASSUME NEW op \in Ops, Call(op) PROVE Base'
    <2>1. flight = {} /\ flight' = {op} /\ left' \in Nat
          /\ UNCHANGED <<clock, active, back, tree, queue, pass, gone, sound>>
      BY <1>0, <1>15 DEF Call, Spend
    <2>2. op \in Op /\ op # [op |-> "relay"]
      BY ReconcileAssumption DEF Op
    <2> QED
      BY <1>0, <2>1, <2>2 DEF TypeOK, FlightTold
  <1>16. CASE CallRelay
    <2>1. flight' = {[op |-> "relay"]} /\ queue # <<>>
          /\ UNCHANGED <<clock, active, back, tree, queue, pass, gone, sound, left>>
      BY <1>16 DEF CallRelay
    <2> QED
      BY <1>0, <2>1 DEF TypeOK, FlightTold
  <1>17. ASSUME NEW op \in flight, Land(op) PROVE Base'
    <2>1. /\ flight' = {} /\ back' \in [Backend -> Store] /\ pass' \in Pass
          /\ gone' \subseteq gone \cup {TupleOf(op)}
          /\ UNCHANGED <<clock, active, tree, queue, sound, left>>
      BY <1>17, LandIs
    <2>2. TupleOf(op) \in Tuple
      <3>1. op \in Op \cup {[op |-> "relay"]} /\ op.op # "relay"
        BY <1>17, LandIs
      <3> QED
        BY <3>1, BackTypes, LandedFields
    <2> QED
      BY <1>0, <2>1, <2>2 DEF TypeOK, FlightTold
  <1>18. CASE Relay
    <2>1. queue # <<>>
      BY <1>18 DEF Relay, FlightTold
    <2>2. /\ flight' = {} /\ back' \in [Backend -> Store] /\ queue' \in Seq(Scope \X Scope)
          /\ sound' = (sound /\ Serving = "fga")
          /\ UNCHANGED <<clock, active, tree, pass, gone, left>>
      BY <1>18, <2>1, RelayIs
    <2>3. sound' \in BOOLEAN
      BY <2>2
    <2> QED
      BY <1>0, <2>2, <2>3 DEF TypeOK, FlightTold
  <1>19. ASSUME NEW e \in Moves, Move(e) PROVE Base'
    <2>1. /\ e \in Scope \X Scope /\ tree' = {d \in tree : d[1] # e[1]} \cup {e}
          /\ queue' = (IF e[1] \in Reach(tree, e[2]) THEN queue ELSE Append(queue, e))
          /\ pass' \in Pass /\ UNCHANGED <<clock, active, back, flight, gone>> /\ left' \in Nat
      BY <1>19, MoveIs
    <2>2. sound' \in BOOLEAN
      BY <1>19 DEF Move
    <2>3. tree' \subseteq Scope \X Scope
      BY <1>0, <2>1
    <2>4. queue' \in Seq(Scope \X Scope) /\ (queue # <<>> => queue' # <<>>)
      BY <1>0, <2>1, QueueGrows
    <2> QED
      BY <1>0, <2>1, <2>2, <2>3, <2>4 DEF TypeOK, FlightTold
  <1>20. ASSUME NEW k \in Key, Cutover(k) PROVE Base'
    <2>1. /\ active' \in Key /\ gone' \in {gone, {}} /\ left' \in Nat
          /\ UNCHANGED <<clock, back, tree, queue, flight, pass, sound>>
      BY <1>0, <1>20 DEF Cutover, Spend
    <2> QED
      BY <1>0, <2>1 DEF TypeOK, FlightTold
  <1>21. CASE Tick
    <2>1. /\ clock' \in Nat /\ left' \in Nat
          /\ UNCHANGED <<active, back, tree, queue, flight, pass, gone, sound>>
      BY <1>0, <1>21 DEF Tick, Spend
    <2> QED
      BY <1>0, <2>1 DEF TypeOK, FlightTold
  <1>22. CASE UNCHANGED vars
    BY <1>0, <1>22 DEF vars, TypeOK, FlightTold
  <1> QED
    BY <1>5, <1>6, <1>7, <1>8, <1>9, <1>10, <1>11, <1>12, <1>13, <1>14, <1>15, <1>16, <1>17,
       <1>18, <1>19, <1>20, <1>21, <1>22 DEF Next, PassStep

-----------------------------------------------------------------------------
(* What is revoked stays revoked.                                          *)

\* Only the store is an origin for itself, and a pass towards the backend that serves reads
\* that same backend unless an alias named it; nothing that has been taken away is in what it
\* has read nor in what it will write.
Aimed ==
    Running => /\ Self => pass.to = "fga"
               /\ pass.to = Serving => Self \/ gone = {}


GoneInv ==
    /\ \A t \in gone : t[1] \in {"held", "denied"}
    /\ gone \cap Tuples(back[Serving]) = {}
    /\ Running /\ pass.to = Serving =>
          /\ gone \cap Tuples(pass.facts) = {}
          /\ pass.pc = "apply" => gone \cap pass.put = {}

LEMMA AimedNext == TypeOK /\ Aimed /\ [Next]_vars => Aimed'
  <1> SUFFICES ASSUME TypeOK, Aimed, [Next]_vars PROVE Aimed'
    OBVIOUS
  <1>1. ASSUME Running' => Running, active' = active, pass'.to = pass.to, pass'.origin = pass.origin,
               Running /\ pass.to = Serving => gone' \subseteq gone
        PROVE  Aimed'
    BY <1>1 DEF Aimed, Self, Serving
  <1>2. ASSUME ~Running' PROVE Aimed'
    BY <1>2 DEF Aimed
  <1>3. ASSUME NEW a \in Passes, Begin(a) PROVE Aimed'
    <2>1. /\ pass'.to = pass'.origin => pass'.to = "fga"
          /\ pass'.to = Serving => pass'.to = pass'.origin \/ gone' = {}
          /\ active' = active
      BY <1>3, BeginIs
    <2> QED
      BY <2>1 DEF Aimed, Self, Serving
  <1>4. CASE ReadTree
    <2>1. pass.pc = "tree" /\ UNCHANGED <<active, gone>> /\ pass'.to = pass.to /\ pass'.origin = pass.origin
      BY <1>4, ReadTreeIs DEF OnlyPass
    <2> QED
      BY <1>1, <2>1 DEF Running
  <1>5. CASE ReadTables
    <2>1. pass.pc = "read" /\ UNCHANGED <<active, gone>> /\ pass'.to = pass.to /\ pass'.origin = pass.origin
      BY <1>5, ReadTablesIs DEF OnlyPass
    <2> QED
      BY <1>1, <2>1 DEF Running
  <1>6. ASSUME NEW f \in {"held", "denied"}, ReadPage(f) PROVE Aimed'
    <2>1. pass.pc = "read" /\ UNCHANGED <<active, gone>> /\ pass'.to = pass.to /\ pass'.origin = pass.origin
      BY <1>6, ReadPageIs DEF OnlyPass
    <2> QED
      BY <1>1, <2>1 DEF Running
  <1>7. CASE Plan
    <2>1. /\ pass.pc = "plan" /\ UNCHANGED <<active, gone>>
          /\ pass'.pc = "refused" \/ (pass'.to = pass.to /\ pass'.origin = pass.origin)
      BY <1>7, PlanIs, Zenon DEF OnlyPass
    <2> QED
      BY <1>1, <1>2, <2>1 DEF Running
  <1>8. ASSUME NEW t \in pass.del, Delete(t) PROVE Aimed'
    <2>1. pass.pc = "apply" /\ UNCHANGED <<active, gone>> /\ pass'.to = pass.to /\ pass'.origin = pass.origin
      BY <1>8, DeleteIs
    <2> QED
      BY <1>1, <2>1 DEF Running
  <1>9. ASSUME NEW t \in pass.put, Write(t) PROVE Aimed'
    <2>1. pass.pc = "apply" /\ UNCHANGED <<active, gone>> /\ pass'.to = pass.to /\ pass'.origin = pass.origin
      BY <1>9, WriteIs
    <2> QED
      BY <1>1, <2>1 DEF Running
  <1>10. CASE Finish
    BY <1>2, <1>10, FinishIs DEF Running
  <1>11. CASE Die
    BY <1>2, <1>11, DieIs DEF Running
  <1>12. CASE Lapse
    BY <1>1, <1>12, LapseIs DEF Running
  <1>13. ASSUME NEW op \in Ops, Call(op) PROVE Aimed'
    BY <1>1, <1>13 DEF Call, Running
  <1>14. CASE CallRelay
    BY <1>1, <1>14 DEF CallRelay, Running
  <1>15. ASSUME NEW op \in flight, Land(op) PROVE Aimed'
    <2>1. /\ pass'.pc = pass.pc /\ active' = active /\ pass'.to = pass.to /\ pass'.origin = pass.origin
          /\ Running /\ pass.to = Serving => gone' \subseteq gone
      BY <1>15, LandIs
    <2> QED
      BY <1>1, <2>1 DEF Running
  <1>16. CASE Relay
    BY <1>1, <1>16 DEF Relay, Running
  <1>17. ASSUME NEW e \in Moves, Move(e) PROVE Aimed'
    <2>1. pass'.pc = pass.pc /\ UNCHANGED <<active, gone>> /\ pass'.to = pass.to /\ pass'.origin = pass.origin
      BY <1>17, MoveIs
    <2> QED
      BY <1>1, <2>1 DEF Running
  <1>18. ASSUME NEW k \in Key, Cutover(k) PROVE Aimed'
    BY <1>2, <1>18 DEF Cutover, Running
  <1>19. CASE Tick
    BY <1>1, <1>19 DEF Tick, Running
  <1>20. CASE UNCHANGED vars
    BY <1>1, <1>20 DEF vars, Running
  <1> QED
    BY <1>3, <1>4, <1>5, <1>6, <1>7, <1>8, <1>9, <1>10, <1>11, <1>12, <1>13, <1>14, <1>15,
       <1>16, <1>17, <1>18, <1>19, <1>20 DEF Next, PassStep

LEMMA GoneNext == Base /\ Aimed /\ GoneInv /\ [Next]_vars => GoneInv'
  <1> SUFFICES ASSUME Base, Aimed, GoneInv, [Next]_vars PROVE GoneInv'
    OBVIOUS
  <1> USE DEF Base
  <1>0. /\ \A t \in gone : t \in Tuple /\ t[1] \in {"held", "denied"}
        /\ \A t \in gone : t \notin Tuples(back[Serving])
        /\ Running /\ pass.to = Serving =>
              /\ gone = {} \/ (pass.to = "fga" /\ pass.origin = "fga")
              /\ \A t \in gone : t \notin Tuples(pass.facts)
              /\ pass.pc = "apply" => \A t \in gone : t \notin pass.put
    BY DEF GoneInv, Aimed, Self, TypeOK
  <1>1. ASSUME UNCHANGED <<active, back, gone>>,
               Running' /\ pass'.to = Serving =>
                  /\ Running /\ pass.to = Serving /\ pass'.facts = pass.facts
                  /\ pass'.pc = "apply" => pass.pc = "apply" /\ pass'.put \subseteq pass.put
        PROVE  GoneInv'
    BY <1>0, <1>1 DEF GoneInv, Serving
  <1>2. ASSUME NEW a \in Passes, Begin(a) PROVE GoneInv'
    <2>1. /\ pass'.pc = "tree" /\ pass'.facts = Bare /\ UNCHANGED <<active, back>>
          /\ gone' \in {gone, {}}
      BY <1>2, BeginIs
    <2> QED
      BY <1>0, <2>1, BareType DEF GoneInv, Serving
  <1>3. CASE ReadTree
    <2>1. pass.pc = "tree" /\ pass'.pc = "read" /\ UNCHANGED <<active, back, gone>>
          /\ pass'.to = pass.to /\ pass'.facts = pass.facts
      BY <1>3, ReadTreeIs DEF OnlyPass
    <2> QED
      BY <1>1, <2>1 DEF Running
  <1>4. CASE ReadTables
    <2>1. pass.pc = "read" /\ pass.origin = "sql" /\ UNCHANGED <<active, back, gone>> /\ pass'.to = pass.to
      BY <1>4, ReadTablesIs DEF OnlyPass
    <2>2. pass.to = Serving => gone = {}
      BY <1>0, <2>1 DEF Running
    <2> QED
      BY <1>0, <2>1, <2>2 DEF GoneInv, Serving
  <1>5. ASSUME NEW f \in {"held", "denied"}, ReadPage(f) PROVE GoneInv'
    <2>1. /\ pass.pc = "read" /\ pass'.pc \in {"plan", "read"} /\ UNCHANGED <<active, back, gone>>
          /\ pass'.to = pass.to /\ pass' \in Pass
          /\ pass'.facts.held \in {back.fga.held, pass.facts.held}
          /\ pass'.facts.denied \in {back.fga.denied, pass.facts.denied}
      BY <1>5, ReadPageIs DEF OnlyPass
    <2>2. pass'.facts \in Store /\ pass.facts \in Store /\ back.fga \in Store
      BY <2>1, BackTypes, PassTypes
    <2>3. ASSUME Running', pass'.to = Serving, NEW t \in gone PROVE t \notin Tuples(pass'.facts)
      <3>1. /\ t \in Tuple /\ t[1] \in {"held", "denied"} /\ t \notin Tuples(pass.facts)
            /\ t \notin Tuples(back.fga)
        BY <1>0, <2>1, <2>3, BackTypes DEF Running
      <3> QED
        BY <2>1, <2>2, <3>1, SameFacts
    <2> QED
      BY <1>0, <2>1, <2>3 DEF GoneInv, Serving
  <1>6. CASE Plan
    <2> DEFINE d == Diff(Dest, Wanted, pass.to, pass.prune)
    <2>1. /\ pass.pc = "plan" /\ UNCHANGED <<active, back, gone>> /\ Wanted \in Store
          /\ \/ pass'.pc = "refused"
             \/ pass'.pc = "apply" /\ pass'.put = d.put /\ pass'.to = pass.to /\ pass'.facts = pass.facts
      BY <1>6, PlanIs DEF OnlyPass
    <2>2. d.put \subseteq Tuples(Wanted)
      <3>1. d.update \subseteq Tuples(Wanted) /\ d.put = (Tuples(Wanted) \ Tuples(Dest)) \cup d.update
        BY <2>1, BackTypes, DiffFields
      <3> QED
        BY <3>1
    <2>3. CASE pass'.pc = "refused"
      BY <1>1, <2>1, <2>3 DEF Running
    <2>4. CASE pass'.pc = "apply" /\ pass'.put = d.put /\ pass'.to = pass.to /\ pass'.facts = pass.facts
      <3>1. ASSUME pass.to = Serving, NEW t \in gone
            PROVE  t \notin Tuples(pass.facts) /\ t \notin pass'.put
        <4>1. /\ t \in Tuple /\ t[1] \in {"held", "denied"} /\ t \notin Tuples(pass.facts) /\ pass.to = "fga"
          BY <1>0, <2>1, <3>1 DEF Running
        <4>2. t \notin Tuples(Wanted)
          BY <4>1, PassTypes, WantedFacts DEF Wanted, TypeOK
        <4> QED
          BY <2>2, <2>4, <4>1, <4>2
      <3> QED
        BY <1>0, <2>1, <2>4, <3>1 DEF GoneInv, Serving
    <2> QED
      BY <2>1, <2>3, <2>4
  <1>7. ASSUME NEW t \in pass.del, Delete(t) PROVE GoneInv'
    <2>1. /\ pass.pc = "apply" /\ UNCHANGED <<active, gone>> /\ t \in Tuple
          /\ back'[pass.to] = Without(Dest, t) /\ \A c \in Backend : c # pass.to => back'[c] = back[c]
          /\ pass'.to = pass.to /\ pass'.facts = pass.facts /\ pass'.put = pass.put /\ pass'.pc = "apply"
      BY <1>7, DeleteIs
    <2>2. ASSUME NEW u \in gone PROVE u \notin Tuples(back'[Serving])
      <3>1. u \in Tuple /\ u \notin Tuples(back[Serving])
        BY <1>0
      <3>2. CASE pass.to = Serving
        BY <2>1, <3>1, <3>2, BackTypes, WithoutTuples DEF Dest
      <3>3. CASE pass.to # Serving
        BY <2>1, <3>1, <3>3, BackTypes
      <3> QED
        BY <3>2, <3>3
    <2> QED
      BY <1>0, <2>1, <2>2 DEF GoneInv, Serving, Running
  <1>8. ASSUME NEW t \in pass.put, Write(t) PROVE GoneInv'
    <2>1. /\ pass.pc = "apply" /\ UNCHANGED <<active, gone>> /\ t \in Tuple
          /\ back'[pass.to] = Dest \/ back'[pass.to] = With(Dest, t, pass.want)
          /\ \A c \in Backend : c # pass.to => back'[c] = back[c]
          /\ pass'.to = pass.to /\ pass'.facts = pass.facts /\ pass'.put = pass.put \ {t} /\ pass'.pc = "apply"
      BY <1>8, WriteIs
    <2>2. ASSUME NEW u \in gone PROVE u \notin Tuples(back'[Serving])
      <3>1. u \in Tuple /\ u \notin Tuples(back[Serving])
        BY <1>0
      <3>2. CASE pass.to = Serving
        <4>1. u # t
          BY <1>0, <2>1, <3>2 DEF Running
        <4>2. pass.want \in Store /\ Dest \in Store /\ Dest = back[Serving]
          BY <3>2, BackTypes, PassTypes DEF Dest
        <4>3. u \notin Tuples(With(Dest, t, pass.want))
          BY <2>1, <3>1, <4>1, <4>2, WithTuples
        <4> QED
          BY <2>1, <3>1, <3>2, <4>2, <4>3
      <3>3. CASE pass.to # Serving
        BY <2>1, <3>1, <3>3, BackTypes
      <3> QED
        BY <3>2, <3>3
    <2> QED
      BY <1>0, <2>1, <2>2 DEF GoneInv, Serving, Running
  <1>9. CASE Finish
    BY <1>1, <1>9, FinishIs DEF Running
  <1>10. CASE Die
    BY <1>1, <1>10, DieIs DEF Running
  <1>11. CASE Lapse
    BY <1>1, <1>11, LapseIs DEF Running
  <1>12. ASSUME NEW op \in Ops, Call(op) PROVE GoneInv'
    BY <1>1, <1>12 DEF Call, Running
  <1>13. CASE CallRelay
    BY <1>1, <1>13 DEF CallRelay, Running
  <1>14. ASSUME NEW op \in flight, Land(op) PROVE GoneInv'
    <2> DEFINE y == Landed(back[Serving], op)
               t == TupleOf(op)
    <2>1. /\ op.op # "relay" /\ op \in Op \cup {[op |-> "relay"]} /\ back'[Serving] = y
          /\ gone' = (IF op.op \in {"revoke", "removeDeny"} /\ ~(Running /\ pass.to = Serving)
                      THEN gone \cup {t} ELSE gone \ {t})
          /\ active' = active /\ pass'.pc = pass.pc /\ pass'.to = pass.to /\ pass'.facts = pass.facts
          /\ pass'.put = pass.put
      BY <1>14, LandIs
    <2>2. t \in Tuple /\ t[1] \in {"held", "denied"}
      BY <2>1, BackTypes, LandedFields DEF TupleOf
    <2>3. \A u \in Tuple : u[1] \in {"held", "denied"} =>
             /\ u # t => (u \in Tuples(y) <=> u \in Tuples(back[Serving]))
             /\ u = t /\ op.op \in {"revoke", "removeDeny"} => u \notin Tuples(y)
      BY <2>1, BackTypes, LandedTuples
    <2> HIDE DEF y, t
    <2>4. ASSUME NEW u \in gone' PROVE u[1] \in {"held", "denied"} /\ u \notin Tuples(back'[Serving])
      BY <1>0, <2>1, <2>2, <2>3
    <2>5. Running /\ pass.to = Serving => gone' \subseteq gone
      BY <2>1
    <2> QED
      BY <1>0, <2>1, <2>4, <2>5 DEF GoneInv, Serving, Running
  <1>15. CASE Relay
    <2>1. queue # <<>>
      BY <1>15 DEF Relay, FlightTold
    <2> DEFINE e == Head(queue)
    <2>2. /\ e \in Scope \X Scope /\ back'.sql = back.sql /\ back' \in [Backend -> Store]
          /\ back'.fga = (IF Serving = "fga" THEN Relayed(back.fga, e) ELSE back.fga)
          /\ UNCHANGED <<active, pass, gone>>
      BY <1>15, <2>1, RelayIs
    <2>3. ASSUME NEW u \in gone PROVE u \notin Tuples(back'[Serving])
      <3>1. u \in Tuple /\ u[1] \in {"held", "denied"} /\ u \notin Tuples(back[Serving])
        BY <1>0
      <3>2. CASE Serving = "fga"
        <4>1. back.fga \in Store /\ Relayed(back.fga, e) \in Store
              /\ Relayed(back.fga, e).held = back.fga.held /\ Relayed(back.fga, e).denied = back.fga.denied
          BY <2>2, BackTypes, RelayedFields
        <4>2. u \notin Tuples(Relayed(back.fga, e))
          BY <3>1, <3>2, <4>1, BackTypes, SameFacts
        <4> QED
          BY <2>2, <3>2, <4>2
      <3>3. CASE Serving = "sql"
        BY <2>2, <3>1, <3>3
      <3> QED
        BY <3>2, <3>3, BackTypes DEF Backend
    <2> QED
      BY <1>0, <2>2, <2>3 DEF GoneInv, Serving, Running
  <1>16. ASSUME NEW e \in Moves, Move(e) PROVE GoneInv'
    <2>1. /\ pass'.pc = pass.pc /\ UNCHANGED <<active, back, gone>> /\ pass'.to = pass.to
          /\ pass'.facts = pass.facts /\ pass'.put = pass.put
      BY <1>16, MoveIs
    <2> QED
      BY <1>1, <2>1 DEF Running
  <1>17. ASSUME NEW k \in Key, Cutover(k) PROVE GoneInv'
    <2>1. /\ active' = k /\ UNCHANGED <<back, pass>> /\ ~Running
          /\ gone' = (IF BackendOf(k) = Serving THEN gone ELSE {})
      BY <1>17 DEF Cutover
    <2>2. Serving' = BackendOf(k)
      BY <2>1 DEF Serving
    <2>3. ~Running'
      BY <2>1 DEF Running
    <2>4. CASE BackendOf(k) = Serving
      BY <1>0, <2>1, <2>2, <2>3, <2>4 DEF GoneInv
    <2>5. CASE BackendOf(k) # Serving
      BY <2>1, <2>3, <2>5 DEF GoneInv
    <2> QED
      BY <2>4, <2>5
  <1>18. CASE Tick
    BY <1>1, <1>18 DEF Tick, Running
  <1>19. CASE UNCHANGED vars
    BY <1>1, <1>19 DEF vars, Running
  <1> QED
    BY <1>2, <1>3, <1>4, <1>5, <1>6, <1>7, <1>8, <1>9, <1>10, <1>11, <1>12, <1>13, <1>14,
       <1>15, <1>16, <1>17, <1>18, <1>19 DEF Next, PassStep

\* What was revoked in the backend that serves does not come back: neither by a pass, whatever
\* it was asked under any key of the factory that serves, nor by a cutover, nor by the relay
\* (3b-5; the stale direction of reconcile() in manager.ts).  A second factory of that backend
\* is the declared limit of #sameDriver: what a pass by it brings back is not counted.
THEOREM RevokedNeverBack == Spec => []RevokedStaysRevoked
  <1> DEFINE Inv == Base /\ Aimed /\ GoneInv
  <1>1. Init => Inv
    <2>1. Init => Base
      BY BaseInit
    <2>2. Init => ~Running /\ gone = {}
      BY DEF Init, Running, NoPass
    <2> QED
      BY <2>1, <2>2 DEF Aimed, GoneInv
  <1>2. Inv /\ [Next]_vars => Inv'
    BY BaseNext, AimedNext, GoneNext DEF Base
  <1>3. Inv => RevokedStaysRevoked
    BY DEF GoneInv, RevokedStaysRevoked
  <1> QED
    BY <1>1, <1>2, <1>3, PTL DEF Spec

-----------------------------------------------------------------------------
(* Trees.                                                                  *)

LEMMA ReachSelf ==
  ASSUME NEW E, NEW n \in Scope
  PROVE  n \in Reach(E, n)
  BY DEF Reach

LEMMA ReachUp ==
  ASSUME NEW E \in SUBSET (Scope \X Scope), NEW n \in Scope, NEW e \in E, e[1] \in Reach(E, n)
  PROVE  e[2] \in Reach(E, n)
  <1> SUFFICES ASSUME NEW S \in SUBSET Scope, n \in S, \A d \in E : d[1] \in S => d[2] \in S
               PROVE  e[2] \in S
    BY DEF Reach
  <1>1. e[1] \in S
    BY DEF Reach
  <1> QED
    BY <1>1

\* Edges from a scope that is not above n do not matter to n.
LEMMA ReachSame ==
  ASSUME NEW E \in SUBSET (Scope \X Scope), NEW F \in SUBSET (Scope \X Scope),
         NEW s, NEW n \in Scope, \A e \in Scope \X Scope : e[1] # s => (e \in E <=> e \in F),
         s \notin Reach(E, n)
  PROVE  Reach(F, n) = Reach(E, n)
  <1>1. ASSUME NEW S \in SUBSET Scope, n \in S
        PROVE  LET U == S \cap Reach(E, n)
               IN  /\ U \in SUBSET Scope /\ n \in U
                   /\ (\A e \in E : e[1] \in S => e[2] \in S) => \A e \in F : e[1] \in U => e[2] \in U
                   /\ (\A e \in F : e[1] \in S => e[2] \in S) => \A e \in E : e[1] \in U => e[2] \in U
    BY <1>1, ReachSelf, ReachUp
  <1>2. ASSUME NEW t \in Reach(F, n) PROVE t \in Reach(E, n)
    <2> SUFFICES ASSUME NEW S \in SUBSET Scope, n \in S, \A e \in E : e[1] \in S => e[2] \in S
                 PROVE  t \in S
      BY DEF Reach
    <2> DEFINE U == S \cap Reach(E, n)
    <2>1. U \in SUBSET Scope /\ n \in U /\ \A e \in F : e[1] \in U => e[2] \in U
      BY <1>1
    <2>2. t \in U
      BY <2>1 DEF Reach
    <2> QED
      BY <2>2
  <1>3. ASSUME NEW t \in Reach(E, n) PROVE t \in Reach(F, n)
    <2> SUFFICES ASSUME NEW S \in SUBSET Scope, n \in S, \A e \in F : e[1] \in S => e[2] \in S
                 PROVE  t \in S
      BY <1>3 DEF Reach
    <2> DEFINE U == S \cap Reach(E, n)
    <2>1. U \in SUBSET Scope /\ n \in U /\ \A e \in E : e[1] \in U => e[2] \in U
      BY <1>1
    <2>2. t \in U
      BY <2>1 DEF Reach
    <2> QED
      BY <2>2
  <1> QED
    BY <1>2, <1>3

\* Nor do they change who is below it.
LEMMA ReachBoth ==
  ASSUME NEW E \in SUBSET (Scope \X Scope), NEW F \in SUBSET (Scope \X Scope),
         NEW s, NEW n \in Scope, \A e \in Scope \X Scope : e[1] # s => (e \in E <=> e \in F)
  PROVE  s \in Reach(E, n) <=> s \in Reach(F, n)
  <1>1. s \notin Reach(E, n) => s \notin Reach(F, n)
    BY ReachSame
  <1>2. s \notin Reach(F, n) => s \notin Reach(E, n)
    BY ReachSame
  <1> QED
    BY <1>1, <1>2

LEMMA ReachOn ==
  ASSUME NEW E, NEW n, NEW m \in Reach(E, n)
  PROVE  Reach(E, m) \subseteq Reach(E, n)
  BY DEF Reach

LEMMA ReachMore ==
  ASSUME NEW E, NEW F, E \subseteq F, NEW n
  PROVE  Reach(E, n) \subseteq Reach(F, n)
  BY DEF Reach

\* A tree with no cycle has none after a move that closes none.
LEMMA StillNoCycle ==
  ASSUME NEW E \in SUBSET (Scope \X Scope), NEW e \in Scope \X Scope, SourceTree(E) = E,
         e[1] \notin Reach(E, e[2])
  PROVE  LET F == {d \in E : d[1] # e[1]} \cup {e} IN SourceTree(F) = F
  <1> DEFINE F == {d \in E : d[1] # e[1]} \cup {e}
             c == e[1]
             p == e[2]
  <1>1. F \in SUBSET (Scope \X Scope) /\ c \in Scope /\ p \in Scope
    OBVIOUS
  <1>2. \A d \in Scope \X Scope : d[1] # c => (d \in E <=> d \in F)
    OBVIOUS
  <1>3. \A d \in F : d = e \/ (d \in E /\ d[1] # c)
    OBVIOUS
  <1>4. \A d \in E : d[1] \notin Reach(E, d[2])
    BY DEF SourceTree
  <1> HIDE DEF F
  <1>5. ASSUME NEW d \in F PROVE d[1] \notin Reach(F, d[2])
    <2>1. d[1] \in Scope /\ d[2] \in Scope
      BY <1>1
    <2>2. CASE d = e
      <3>1. Reach(F, p) = Reach(E, p)
        BY <1>1, <1>2, ReachSame
      <3> QED
        BY <2>2, <3>1
    <2>3. CASE d \in E /\ d[1] # c /\ c \notin Reach(E, d[2])
      <3>1. Reach(F, d[2]) = Reach(E, d[2])
        BY <1>1, <1>2, <2>1, <2>3, ReachSame
      <3> QED
        BY <1>4, <2>3, <3>1
    <2>4. CASE d \in E /\ d[1] # c /\ c \in Reach(E, d[2])
      <3> DEFINE U == Reach(E, d[2]) \cup Reach(E, p)
      <3>1. U \in SUBSET Scope /\ d[2] \in U /\ p \in U
        BY <1>1, <2>1, ReachSelf DEF Reach
      <3>2. \A g \in E : g[1] \in U => g[2] \in U
        BY <1>1, <2>1, ReachUp
      <3>3. \A g \in F : g[1] \in U => g[2] \in U
        BY <1>3, <3>1, <3>2
      <3> HIDE DEF U
      <3>4. Reach(F, d[2]) \subseteq U
        BY <3>1, <3>3 DEF Reach
      <3>5. SUFFICES ASSUME d[1] \in Reach(F, d[2]) PROVE FALSE
        OBVIOUS
      <3>6. d[1] \in Reach(E, p)
        BY <1>4, <2>4, <3>4, <3>5 DEF U
      <3>7. d[2] \in Reach(E, p)
        BY <1>1, <2>4, <3>6, ReachUp
      <3>8. c \in Reach(E, p)
        BY <2>4, <3>7, ReachOn
      <3> QED
        BY <3>8
    <2> QED
      BY <1>3, <2>2, <2>3, <2>4
  <1> QED
    BY <1>5 DEF SourceTree, F

-----------------------------------------------------------------------------
(* The tree, and what a pass read of it.                                   *)

\* The tree of the consumer: no scope has two parents, and the root has none.
TreeInv ==
    /\ \A d, e \in tree : d[1] = e[1] => d = e
    /\ \A e \in tree : e[1] # Root /\ Canon[e[1]] = e[1]

LEMMA TreeStep == [Next]_vars => UNCHANGED tree \/ \E e \in Moves : Move(e)
  BY Zenon DEF Next, PassStep, vars, Begin, ReadTree, ReadTables, ReadPage, Plan, OnlyPass, Delete, Write,
     Apply, Finish, Die, Lapse, Call, CallRelay, Land, Relay, Cutover, Tick

LEMMA TreeNext == TypeOK /\ TreeInv /\ [Next]_vars => TreeInv'
  <1> SUFFICES ASSUME TypeOK, TreeInv, [Next]_vars PROVE TreeInv'
    OBVIOUS
  <1>1. CASE UNCHANGED tree
    BY <1>1 DEF TreeInv
  <1>2. ASSUME NEW e \in Moves, Move(e) PROVE TreeInv'
    <2>1. tree' = {d \in tree : d[1] # e[1]} \cup {e}
      BY <1>2, MoveIs
    <2>2. e[1] # Root /\ Canon[e[1]] = e[1]
      BY ReconcileAssumption
    <2> QED
      BY <2>1, <2>2 DEF TreeInv
  <1> QED
    BY <1>1, <1>2, TreeStep

\* Nothing is under way while a pass runs that nothing has raced.
QuietInv == Running /\ ~pass.raced => flight = {} /\ ~pass.lapsed

LEMMA QuietNext == TypeOK /\ QuietInv /\ [Next]_vars => QuietInv'
  <1> SUFFICES ASSUME TypeOK, QuietInv, [Next]_vars PROVE QuietInv'
    OBVIOUS
  <1>1. ASSUME Running' /\ ~pass'.raced =>
                  /\ Running /\ ~pass.raced /\ (pass'.lapsed => pass.lapsed)
                  /\ flight' \subseteq flight
        PROVE  QuietInv'
    BY <1>1 DEF QuietInv
  <1>2. ASSUME NEW a \in Passes, Begin(a) PROVE QuietInv'
    <2>1. pass'.raced = (flight # {}) /\ pass'.lapsed = FALSE /\ flight' = flight
      BY <1>2, BeginIs
    <2> QED
      BY <2>1, Zenon DEF QuietInv
  <1>3. CASE ReadTree
    <2>1. /\ pass.pc = "tree"
          /\ flight' = flight /\ pass'.lapsed = pass.lapsed /\ pass'.raced = pass.raced
      BY <1>3, ReadTreeIs DEF OnlyPass
    <2> QED
      BY <2>1, <1>1 DEF Running
  <1>4. CASE ReadTables
    <2>1. /\ pass.pc = "read"
          /\ flight' = flight /\ pass'.lapsed = pass.lapsed /\ pass'.raced = pass.raced
      BY <1>4, ReadTablesIs DEF OnlyPass
    <2> QED
      BY <2>1, <1>1 DEF Running
  <1>5. ASSUME NEW f \in {"held", "denied"}, ReadPage(f) PROVE QuietInv'
    <2>1. /\ pass.pc = "read"
          /\ flight' = flight /\ pass'.lapsed = pass.lapsed /\ pass'.raced = pass.raced
      BY <1>5, ReadPageIs DEF OnlyPass
    <2> QED
      BY <2>1, <1>1 DEF Running
  <1>6. CASE Plan
    <2>1. pass.pc = "plan" /\ flight' = flight
          /\ (pass'.pc = "refused" \/ (pass'.lapsed = pass.lapsed /\ pass'.raced = pass.raced))
      BY <1>6, PlanIs, Zenon DEF OnlyPass
    <2> QED
      BY <1>1, <2>1 DEF Running
  <1>7. ASSUME NEW t \in pass.del, Delete(t) PROVE QuietInv'
    <2>1. /\ pass.pc = "apply"
          /\ flight' = flight /\ pass'.lapsed = pass.lapsed /\ pass'.raced = pass.raced
      BY <1>7, DeleteIs
    <2> QED
      BY <2>1, <1>1 DEF Running
  <1>8. ASSUME NEW t \in pass.put, Write(t) PROVE QuietInv'
    <2>1. /\ pass.pc = "apply"
          /\ flight' = flight /\ pass'.lapsed = pass.lapsed /\ pass'.raced = pass.raced
      BY <1>8, WriteIs
    <2> QED
      BY <2>1, <1>1 DEF Running
  <1>9. CASE Finish
    <2>1. pass'.pc = "done"
      BY <1>9, FinishIs
    <2> QED
      BY <2>1, <1>1 DEF Running
  <1>10. CASE Die
    <2>1. pass'.pc = "died"
      BY <1>10, DieIs
    <2> QED
      BY <2>1, <1>1 DEF Running
  <1>11. CASE Lapse
    <2>1. pass'.raced
      BY <1>11, LapseIs
    <2> QED
      BY <2>1, <1>1
  <1>12. ASSUME NEW op \in Ops, Call(op) PROVE QuietInv'
    <2>1. ~Frozen /\ pass' = pass
      BY <1>12 DEF Call
    <2> QED
      BY <2>1 DEF QuietInv, Frozen, Running
  <1>13. CASE CallRelay
    <2>1. ~Frozen /\ pass' = pass
      BY <1>13 DEF CallRelay
    <2> QED
      BY <2>1 DEF QuietInv, Frozen, Running
  <1>14. ASSUME NEW op \in flight, Land(op) PROVE QuietInv'
    <2>1. flight' = {} /\ pass'.pc = pass.pc /\ pass'.lapsed = pass.lapsed /\ pass'.raced = pass.raced
      BY <1>14, LandIs
    <2> QED
      BY <2>1, <1>1 DEF Running
  <1>15. CASE Relay
    <2>1. flight' = {} /\ pass' = pass
      BY <1>15 DEF Relay
    <2> QED
      BY <2>1, <1>1 DEF Running
  <1>16. ASSUME NEW e \in Moves, Move(e) PROVE QuietInv'
    <2>1. flight' = flight /\ pass'.pc = pass.pc /\ pass'.lapsed = pass.lapsed /\ (pass.raced => pass'.raced)
      BY <1>16, MoveIs
    <2> QED
      BY <2>1, <1>1 DEF Running
  <1>17. ASSUME NEW k \in Key, Cutover(k) PROVE QuietInv'
    <2>1. ~Running /\ pass' = pass
      BY <1>17 DEF Cutover
    <2> QED
      BY <2>1, <1>1 DEF Running
  <1>18. CASE Tick
    <2>1. flight' = flight /\ pass' = pass
      BY <1>18 DEF Tick
    <2> QED
      BY <2>1, <1>1 DEF Running
  <1>19. CASE UNCHANGED vars
    <2>1. flight' = flight /\ pass' = pass
      BY <1>19 DEF vars
    <2> QED
      BY <2>1, <1>1 DEF Running
  <1> QED
    BY <1>2, <1>3, <1>4, <1>5, <1>6, <1>7, <1>8, <1>9, <1>10, <1>11, <1>12, <1>13,
       <1>14, <1>15, <1>16, <1>17, <1>18, <1>19 DEF Next, PassStep

\* Scope c is in the queue of the relay.
WaitsIn(q, c) == \E i \in DOMAIN q : q[i][1] = c

LEMMA WaitsMore ==
  ASSUME NEW q \in Seq(Scope \X Scope), NEW e \in Scope \X Scope, NEW c
  PROVE  WaitsIn(Append(q, e), c) <=> WaitsIn(q, c) \/ c = e[1]
  <1> DEFINE r == Append(q, e)
  <1>1. /\ DOMAIN r = 1 .. (Len(q) + 1) /\ DOMAIN q = 1 .. Len(q) /\ Len(q) \in Nat
        /\ r[Len(q) + 1] = e /\ \A i \in DOMAIN q : r[i] = q[i]
    OBVIOUS
  <1> HIDE DEF r
  <1>2. ASSUME WaitsIn(r, c) PROVE WaitsIn(q, c) \/ c = e[1]
    <2>1. PICK i \in DOMAIN r : r[i][1] = c
      BY <1>2 DEF WaitsIn
    <2>2. i \in DOMAIN q \/ i = Len(q) + 1
      BY <1>1
    <2> QED
      BY <1>1, <2>1, <2>2 DEF WaitsIn
  <1>3. ASSUME WaitsIn(q, c) PROVE WaitsIn(r, c)
    <2>1. PICK i \in DOMAIN q : q[i][1] = c
      BY <1>3 DEF WaitsIn
    <2>2. i \in DOMAIN r
      BY <1>1
    <2> QED
      BY <1>1, <2>1, <2>2 DEF WaitsIn
  <1>4. ASSUME c = e[1] PROVE WaitsIn(r, c)
    <2>1. Len(q) + 1 \in DOMAIN r
      BY <1>1
    <2> QED
      BY <1>1, <1>4, <2>1 DEF WaitsIn
  <1> QED
    BY <1>2, <1>3, <1>4 DEF r

\* While nothing moves, a pass has the tree that it read.  While nothing races it, the edges
\* it read of scopes that do not wait in the queue are still there, and if no scope was left
\* out of what it read there was no cycle and there is none.
EdgesInv ==
    pass.pc \in {"read", "plan", "apply"} =>
       /\ ~pass.moved => pass.edges = SourceTree(tree)
       /\ ~pass.raced =>
             /\ \A e \in pass.edges : ~WaitsIn(queue, e[1]) => e \in tree
             /\ (\A e \in tree : \E d \in pass.edges : d[1] = e[1]) => SourceTree(tree) = tree

LEMMA SourceWhole ==
  ASSUME NEW E, \A d, e \in E : d[1] = e[1] => d = e, \A e \in E : \E d \in SourceTree(E) : d[1] = e[1]
  PROVE  SourceTree(E) = E
  BY DEF SourceTree

LEMMA EdgesNext == TypeOK /\ TreeInv /\ QuietInv /\ EdgesInv /\ [Next]_vars => EdgesInv'
  <1> SUFFICES ASSUME TypeOK, TreeInv, QuietInv, EdgesInv, [Next]_vars PROVE EdgesInv'
    OBVIOUS
  <1>1. ASSUME pass'.pc \in {"read", "plan", "apply"} =>
                  /\ pass.pc \in {"read", "plan", "apply"}
                  /\ pass'.edges = pass.edges /\ tree' = tree /\ pass'.moved = pass.moved
                  /\ ~pass'.raced => ~pass.raced /\ queue' = queue
        PROVE  EdgesInv'
    BY <1>1 DEF EdgesInv
  <1>2. ASSUME NEW a \in Passes, Begin(a) PROVE EdgesInv'
    <2>1. pass'.pc = "tree"
      BY <1>2, BeginIs
    <2> QED
      BY <2>1, <1>1
  <1>3. CASE ReadTree
    <2>1. pass'.edges = SourceTree(tree) /\ tree' = tree
      BY <1>3, ReadTreeIs DEF OnlyPass
    <2>2. SourceTree(tree) \subseteq tree
      BY DEF SourceTree
    <2>3. (\A e \in tree : \E d \in SourceTree(tree) : d[1] = e[1]) => SourceTree(tree) = tree
      BY SourceWhole DEF TreeInv
    <2> QED
      BY <2>1, <2>2, <2>3 DEF EdgesInv
  <1>4. CASE ReadTables
    <2>1. /\ pass.pc = "read" /\ pass'.edges = pass.edges /\ tree' = tree /\ queue' = queue
          /\ pass'.moved = pass.moved /\ pass'.raced = pass.raced
      BY <1>4, ReadTablesIs DEF OnlyPass
    <2> QED
      BY <2>1, <1>1
  <1>5. ASSUME NEW f \in {"held", "denied"}, ReadPage(f) PROVE EdgesInv'
    <2>1. /\ pass.pc = "read" /\ pass'.edges = pass.edges /\ tree' = tree /\ queue' = queue
          /\ pass'.moved = pass.moved /\ pass'.raced = pass.raced
      BY <1>5, ReadPageIs DEF OnlyPass
    <2> QED
      BY <2>1, <1>1
  <1>6. CASE Plan
    <2>1. pass.pc = "plan" /\ tree' = tree /\ queue' = queue
      BY <1>6 DEF Plan, OnlyPass
    <2>2. \/ pass'.pc = "refused"
          \/ pass'.edges = pass.edges /\ pass'.moved = pass.moved /\ pass'.raced = pass.raced
      BY <1>6, PlanIs, Zenon
    <2> QED
      BY <1>1, <2>1, <2>2
  <1>7. ASSUME NEW t \in pass.del, Delete(t) PROVE EdgesInv'
    <2>1. /\ pass.pc = "apply" /\ pass'.edges = pass.edges /\ tree' = tree /\ queue' = queue
          /\ pass'.moved = pass.moved /\ pass'.raced = pass.raced
      BY <1>7, DeleteIs
    <2> QED
      BY <2>1, <1>1
  <1>8. ASSUME NEW t \in pass.put, Write(t) PROVE EdgesInv'
    <2>1. /\ pass.pc = "apply" /\ pass'.edges = pass.edges /\ tree' = tree /\ queue' = queue
          /\ pass'.moved = pass.moved /\ pass'.raced = pass.raced
      BY <1>8, WriteIs
    <2> QED
      BY <2>1, <1>1
  <1>9. CASE Finish
    <2>1. pass'.pc = "done"
      BY <1>9, FinishIs
    <2> QED
      BY <2>1, <1>1
  <1>10. CASE Die
    <2>1. pass'.pc = "died"
      BY <1>10, DieIs
    <2> QED
      BY <2>1, <1>1
  <1>11. CASE Lapse
    <2>1. pass'.pc = pass.pc /\ pass'.raced /\ pass'.moved = pass.moved /\ pass'.edges = pass.edges /\ tree' = tree
      BY <1>11, LapseIs
    <2> QED
      BY <2>1, <1>1
  <1>12. ASSUME NEW op \in Ops, Call(op) PROVE EdgesInv'
    <2>1. pass' = pass /\ tree' = tree /\ queue' = queue
      BY <1>12 DEF Call
    <2> QED
      BY <2>1, <1>1
  <1>13. CASE CallRelay
    <2>1. pass' = pass /\ tree' = tree /\ queue' = queue
      BY <1>13 DEF CallRelay
    <2> QED
      BY <2>1, <1>1
  <1>14. ASSUME NEW op \in flight, Land(op) PROVE EdgesInv'
    <2>1. /\ pass'.pc = pass.pc /\ pass'.edges = pass.edges /\ tree' = tree /\ queue' = queue
          /\ pass'.moved = pass.moved /\ pass'.raced = pass.raced
      BY <1>14, LandIs
    <2> QED
      BY <2>1, <1>1
  <1>15. CASE Relay
    <2>1. flight # {} /\ pass' = pass /\ tree' = tree
      BY <1>15 DEF Relay
    <2>2. pass.pc \in {"read", "plan", "apply"} => pass.raced
      BY <2>1 DEF QuietInv, Running
    <2> QED
      BY <1>1, <2>1, <2>2
  <1>16. ASSUME NEW e \in Moves, Move(e) PROVE EdgesInv'
    <2> DEFINE F == {d \in tree : d[1] # e[1]} \cup {e}
    <2>1. /\ tree' = F /\ e \in Scope \X Scope /\ pass'.pc = pass.pc /\ pass'.edges = pass.edges
          /\ queue' = (IF e[1] \in Reach(tree, e[2]) THEN queue ELSE Append(queue, e))
          /\ pass'.moved <=> pass.moved \/ Running
          /\ pass'.raced <=> pass.raced \/ (Running /\ e[1] \in Reach(tree, e[2]))
      BY <1>16, MoveIs
    <2>2. SUFFICES ASSUME pass.pc \in {"read", "plan", "apply"}, ~pass'.raced
                   PROVE  /\ \A d \in pass.edges : ~WaitsIn(queue', d[1]) => d \in tree'
                          /\ (\A g \in tree' : \E d \in pass.edges : d[1] = g[1])
                                => SourceTree(tree') = tree'
      BY <2>1 DEF EdgesInv, Running
    <2>3. ~pass.raced /\ queue' = Append(queue, e) /\ e[1] \notin Reach(tree, e[2])
      BY <2>1, <2>2 DEF Running
    <2>4. /\ \A d \in pass.edges : ~WaitsIn(queue, d[1]) => d \in tree
          /\ (\A g \in tree : \E d \in pass.edges : d[1] = g[1]) => SourceTree(tree) = tree
      BY <2>2, <2>3 DEF EdgesInv
    <2>5. tree \in SUBSET (Scope \X Scope) /\ queue \in Seq(Scope \X Scope)
      BY DEF TypeOK
    <2>6. ASSUME NEW d \in pass.edges, ~WaitsIn(queue', d[1]) PROVE d \in tree'
      BY <2>1, <2>3, <2>4, <2>5, <2>6, WaitsMore
    <2>7. ASSUME \A g \in tree' : \E d \in pass.edges : d[1] = g[1] PROVE SourceTree(tree') = tree'
      <3>1. \A g \in tree : \E d \in pass.edges : d[1] = g[1]
        <4> TAKE g \in tree
        <4>1. CASE g[1] = e[1]
          BY <2>1, <2>7, <4>1
        <4>2. CASE g[1] # e[1]
          BY <2>1, <2>7, <4>2
        <4> QED
          BY <4>1, <4>2
      <3>2. SourceTree(tree) = tree
        BY <2>4, <3>1
      <3>3. SourceTree(F) = F
        BY <2>1, <2>3, <2>5, <3>2, StillNoCycle
      <3> QED
        BY <2>1, <3>3
    <2> QED
      BY <2>6, <2>7
  <1>17. ASSUME NEW k \in Key, Cutover(k) PROVE EdgesInv'
    <2>1. ~Running /\ pass' = pass
      BY <1>17 DEF Cutover
    <2> QED
      BY <2>1, <1>1 DEF Running
  <1>18. CASE Tick
    <2>1. tree' = tree /\ queue' = queue /\ pass' = pass
      BY <1>18 DEF Tick
    <2> QED
      BY <2>1, <1>1 DEF Running
  <1>19. CASE UNCHANGED vars
    <2>1. tree' = tree /\ queue' = queue /\ pass' = pass
      BY <1>19 DEF vars
    <2> QED
      BY <2>1, <1>1 DEF Running
  <1> QED
    BY <1>2, <1>3, <1>4, <1>5, <1>6, <1>7, <1>8, <1>9, <1>10, <1>11, <1>12, <1>13,
       <1>14, <1>15, <1>16, <1>17, <1>18, <1>19 DEF Next, PassStep

-----------------------------------------------------------------------------
(* What a pass has applied of its plan.                                    *)

\* With part of the plan of p applied, x is what the destination was, less what has been
\* deleted, and with what has been written; nothing is written while there is anything to
\* delete.
Half(p, x) ==
    LET d == Diff(p.before, p.want, p.to, p.prune)
    IN  /\ p.update = d.update /\ p.del \subseteq d.del /\ p.put \subseteq d.put
        /\ p.del # {} => p.put = d.put
        /\ \A t \in Tuple : t \in Tuples(x) <=> \/ t \in Tuples(p.before) /\ t \notin d.del \ p.del
                                                \/ t \in d.put \ p.put
        /\ \A k \in HeldKey : x.held[k] # Absent =>
               x.held[k] = (IF <<"held", k>> \in d.put \ p.put THEN p.want.held[k] ELSE p.before.held[k])

\* The plan of p, and where it is.
SamePlan(p, q) ==
    /\ q.to = p.to /\ q.prune = p.prune /\ q.before = p.before /\ q.want = p.want
    /\ q.update = p.update

LEMMA HalfStart ==
  ASSUME NEW p \in Pass,
         LET d == Diff(p.before, p.want, p.to, p.prune)
         IN  p.update = d.update /\ p.del = d.del /\ p.put = d.put
  PROVE  Half(p, p.before)
  <1> DEFINE d == Diff(p.before, p.want, p.to, p.prune)
  <1>1. p.before \in Store /\ p.want \in Store
    BY PassTypes
  <1>2. d.put \in SUBSET Tuple /\ p.update = d.update /\ p.del = d.del /\ p.put = d.put
    BY <1>1, DiffFields
  <1> HIDE DEF d
  <1>3. /\ p.update = d.update /\ p.del \subseteq d.del /\ p.put \subseteq d.put
        /\ p.del # {} => p.put = d.put
        /\ \A t \in Tuple : t \in Tuples(p.before) <=>
              \/ t \in Tuples(p.before) /\ t \notin d.del \ p.del
              \/ t \in d.put \ p.put
        /\ \A k \in HeldKey : p.before.held[k] # Absent =>
               p.before.held[k] = (IF <<"held", k>> \in d.put \ p.put THEN p.want.held[k] ELSE p.before.held[k])
    BY <1>2
  <1> QED
    BY <1>3 DEF Half, d

LEMMA HalfDelete ==
  ASSUME NEW p \in Pass, NEW q \in Pass, NEW x \in Store, Half(p, x), SamePlan(p, q),
         NEW t \in p.del, q.del = p.del \ {t}, q.put = p.put
  PROVE  Half(q, Without(x, t))
  <1> DEFINE d == Diff(p.before, p.want, p.to, p.prune)
             y == Without(x, t)
  <1>1. /\ p.update = d.update /\ p.del \subseteq d.del /\ p.put \subseteq d.put
        /\ p.del # {} => p.put = d.put
        /\ \A u \in Tuple : u \in Tuples(x) <=>
              \/ u \in Tuples(p.before) /\ u \notin d.del \ p.del
              \/ u \in d.put \ p.put
        /\ \A k \in HeldKey : x.held[k] # Absent =>
               x.held[k] = (IF <<"held", k>> \in d.put \ p.put THEN p.want.held[k] ELSE p.before.held[k])
    BY DEF Half
  <1>2. t \in Tuple /\ x.held \in [HeldKey -> Expiry \cup {Absent}]
    BY PassTypes DEF Store, HeldKey
  <1>3. \A u \in Tuple : u \in Tuples(y) <=> u \in Tuples(x) /\ u # t
    BY <1>2, WithoutTuples
  <1>4. y.held = (IF t[1] = "held" THEN [x.held EXCEPT ![t[2]] = Absent] ELSE x.held)
    BY <1>2, WithoutFields
  <1>5. q.update = p.update /\ d = Diff(q.before, q.want, q.to, q.prune) /\ q.want = p.want /\ q.before = p.before
    BY DEF SamePlan
  <1> HIDE DEF d, y
  <1>6. /\ q.update = d.update /\ q.del \subseteq d.del /\ q.put \subseteq d.put
        /\ q.del # {} => q.put = d.put
    BY <1>1, <1>5
  <1>7. \A u \in Tuple : u \in Tuples(y) <=>
           \/ u \in Tuples(p.before) /\ u \notin d.del \ q.del
           \/ u \in d.put \ q.put
    BY <1>1, <1>3
  <1>8. \A k \in HeldKey : y.held[k] # Absent =>
           y.held[k] = (IF <<"held", k>> \in d.put \ q.put THEN p.want.held[k] ELSE p.before.held[k])
    BY <1>1, <1>2, <1>4
  <1> QED
    BY <1>5, <1>6, <1>7, <1>8 DEF Half, y

LEMMA HalfWrite ==
  ASSUME NEW p \in Pass, NEW q \in Pass, NEW x \in Store, Half(p, x), SamePlan(p, q),
         p.del = {}, NEW t \in p.put, q.put = p.put \ {t}, q.del = p.del
  PROVE  /\ Half(q, With(x, t, p.want))
         /\ p.to = "fga" => t \notin Tuples(x)
  <1> DEFINE d == Diff(p.before, p.want, p.to, p.prune)
             y == With(x, t, p.want)
  <1>1. /\ p.update = d.update /\ p.del \subseteq d.del /\ p.put \subseteq d.put
        /\ p.del # {} => p.put = d.put
        /\ \A u \in Tuple : u \in Tuples(x) <=>
              \/ u \in Tuples(p.before) /\ u \notin d.del \ p.del
              \/ u \in d.put \ p.put
        /\ \A k \in HeldKey : x.held[k] # Absent =>
               x.held[k] = (IF <<"held", k>> \in d.put \ p.put THEN p.want.held[k] ELSE p.before.held[k])
    BY DEF Half
  <1>2. t \in Tuple /\ x.held \in [HeldKey -> Expiry \cup {Absent}] /\ p.want \in Store /\ p.before \in Store
    BY PassTypes DEF Store, HeldKey
  <1>3. /\ d.put = (Tuples(p.want) \ Tuples(p.before)) \cup d.update
        /\ d.update \subseteq Tuples(p.want)
        /\ p.to = "fga" => d.update \subseteq d.del
    <2>1. /\ d.update = {u \in Tuples(p.before) \cap Tuples(p.want) :
                            u[1] = "held" /\ p.before.held[u[2]] # p.want.held[u[2]]}
          /\ d.del = d.extra \cup (IF p.to = "fga" THEN d.update ELSE {})
          /\ d.put = (Tuples(p.want) \ Tuples(p.before)) \cup d.update
      BY <1>2, DiffFields
    <2> HIDE DEF d
    <2> QED
      BY <2>1
  <1>4. q.update = p.update /\ d = Diff(q.before, q.want, q.to, q.prune) /\ q.want = p.want /\ q.before = p.before
    BY DEF SamePlan
  <1>5. t \in d.put /\ t \in Tuples(p.want)
    <2> HIDE DEF d
    <2> QED
      BY <1>1, <1>3
  <1>6. \A u \in Tuple : u \in Tuples(y) <=> u \in Tuples(x) \/ u = t
    BY <1>2, <1>5, WithTuples
  <1>7. y.held = (IF t[1] = "held" THEN [x.held EXCEPT ![t[2]] = p.want.held[t[2]]] ELSE x.held)
    BY <1>2, WithFields
  <1> HIDE DEF d, y
  <1>8. /\ q.update = d.update /\ q.del \subseteq d.del /\ q.put \subseteq d.put
        /\ q.del # {} => q.put = d.put
    BY <1>1, <1>4
  <1>9. \A u \in Tuple : u \in Tuples(y) <=>
           \/ u \in Tuples(p.before) /\ u \notin d.del \ q.del
           \/ u \in d.put \ q.put
    BY <1>1, <1>6, <1>5
  <1>10. ASSUME NEW k \in HeldKey, y.held[k] # Absent
        PROVE  y.held[k] = (IF <<"held", k>> \in d.put \ q.put THEN p.want.held[k] ELSE p.before.held[k])
    <2>1. CASE t = <<"held", k>>
      BY <1>2, <1>7, <1>5, <2>1
    <2>2. CASE t # <<"held", k>>
      <3>1. t[1] = "held" => t[2] # k
        BY <1>2, <2>2, TupleIs
      <3>2. t[1] = "held" => t[2] \in HeldKey
        BY <1>2, TupleIs
      <3>3. y.held[k] = x.held[k]
        BY <1>2, <1>7, <3>1, <3>2
      <3>4. <<"held", k>> \in d.put \ q.put <=> <<"held", k>> \in d.put \ p.put
        BY <2>2
      <3> QED
        BY <1>1, <1>10, <3>3, <3>4
    <2> QED
      BY <2>1, <2>2
  <1>11. p.to = "fga" => t \notin Tuples(x)
    BY <1>1, <1>2, <1>3
  <1> QED
    BY <1>4, <1>8, <1>9, <1>10, <1>11 DEF Half, y

\* Nobody else writes to the destination.
Alone == ~pass.raced \/ pass.to # Serving

\* A plan with facts to delete and none to write is refused.
Fruitful ==
    pass.prune /\ (\E t \in Extra(Tuples(pass.before), Tuples(pass.want), pass.prune) : t[1] \in Facts)
        => Usable

PlanInv ==
    pass.pc = "apply" =>
        /\ pass.want = Wanted
        /\ Fruitful
        /\ Alone => Half(pass, Dest)

\* What a pass wants, and which plan it has, are in what it has read.
SameAsk(p, q) ==
    /\ q.to = p.to /\ q.now = p.now /\ q.edges = p.edges /\ q.facts = p.facts /\ q.prune = p.prune
    /\ q.want = p.want /\ q.before = p.before /\ q.update = p.update

LEMMA SameWanted ==
  ASSUME pass'.to = pass.to, pass'.now = pass.now, pass'.edges = pass.edges, pass'.facts = pass.facts
  PROVE  Wanted' = Wanted /\ (Usable' <=> Usable)
  <1>1. Wanted' = Wanted
    BY Zenon DEF Wanted, WantOf
  <1> QED
    BY <1>1 DEF Usable

LEMMA PlanStays ==
  ASSUME PlanInv, pass.pc = "apply", SameAsk(pass, pass'), Alone' => Alone,
         Half(pass, Dest) /\ Alone' => Half(pass', Dest')
  PROVE  PlanInv'
  <1>0. pass'.to = pass.to /\ pass'.now = pass.now /\ pass'.edges = pass.edges /\ pass'.facts = pass.facts
        /\ pass'.prune = pass.prune /\ pass'.want = pass.want /\ pass'.before = pass.before
    BY DEF SameAsk
  <1>1. Wanted' = Wanted /\ (Usable' <=> Usable)
    BY <1>0, SameWanted
  <1>2. pass.want = Wanted /\ Fruitful /\ (Alone => Half(pass, Dest))
    BY DEF PlanInv
  <1>3. pass'.want = Wanted'
    BY <1>0, <1>1, <1>2
  <1>4. Fruitful'
    BY <1>0, <1>1, <1>2, Zenon DEF Fruitful
  <1>5. Alone' => Half(pass', Dest')
    BY <1>2
  <1> QED
    BY <1>3, <1>4, <1>5 DEF PlanInv

LEMMA HalfSame ==
  ASSUME NEW p, NEW q, NEW x, Half(p, x), SamePlan(p, q), q.del = p.del, q.put = p.put
  PROVE  Half(q, x)
  BY DEF Half, SamePlan

LEMMA PlanFrame ==
  ASSUME PlanInv, pass.pc = "apply", SameAsk(pass, pass'), pass'.del = pass.del, pass'.put = pass.put,
         active' = active, pass.raced => pass'.raced, Alone' => back'[pass.to] = back[pass.to]
  PROVE  PlanInv'
  <1>1. pass'.to = pass.to /\ Serving' = Serving
    BY DEF SameAsk, Serving
  <1>2. Alone' => Alone
    BY <1>1 DEF Alone
  <1>3. SamePlan(pass, pass')
    BY DEF SameAsk, SamePlan
  <1>4. ASSUME Half(pass, Dest), Alone' PROVE Half(pass', Dest')
    <2>1. Dest' = Dest
      BY <1>1, <1>4 DEF Dest
    <2>2. Half(pass', Dest)
      BY <1>3, <1>4, HalfSame
    <2> QED
      BY <2>1, <2>2
  <1> QED
    BY <1>2, <1>4, PlanStays

LEMMA PlanNext == Base /\ QuietInv /\ PlanInv /\ [Next]_vars => PlanInv'
  <1> SUFFICES ASSUME Base, QuietInv, PlanInv, [Next]_vars PROVE PlanInv'
    OBVIOUS
  <1> USE DEF Base
  <1>1. ASSUME pass'.pc # "apply" PROVE PlanInv'
    BY <1>1 DEF PlanInv
  <1>2. ASSUME pass'.pc = pass.pc, SameAsk(pass, pass'), pass'.del = pass.del, pass'.put = pass.put,
               active' = active, pass.raced => pass'.raced,
               Alone' /\ pass.pc = "apply" => back'[pass.to] = back[pass.to]
        PROVE  PlanInv'
    <2>1. CASE pass.pc = "apply"
      BY <1>2, <2>1, PlanFrame
    <2>2. CASE pass.pc # "apply"
      BY <1>1, <1>2, <2>2
    <2> QED
      BY <2>1, <2>2
  <1>3. ASSUME pass' = pass PROVE SameAsk(pass, pass')
    BY <1>3 DEF SameAsk
  <1>4. ASSUME NEW a \in Passes, Begin(a) PROVE PlanInv'
    <2>1. pass'.pc = "tree"
      BY <1>4, BeginIs
    <2> QED
      BY <2>1, <1>1
  <1>5. CASE ReadTree
    <2>1. pass'.pc = "read"
      BY <1>5, ReadTreeIs DEF OnlyPass
    <2> QED
      BY <2>1, <1>1
  <1>6. CASE ReadTables
    <2>1. pass'.pc = "plan"
      BY <1>6, ReadTablesIs DEF OnlyPass
    <2> QED
      BY <2>1, <1>1
  <1>7. ASSUME NEW f \in {"held", "denied"}, ReadPage(f) PROVE PlanInv'
    <2>1. pass'.pc \in {"plan", "read"}
      BY <1>7, ReadPageIs DEF OnlyPass
    <2> QED
      BY <2>1, <1>1
  <1>8. CASE Plan
    <2> DEFINE d == Diff(Dest, Wanted, pass.to, pass.prune)
               refuse == pass.prune /\ (\E t \in d.extra : t[1] \in Facts) /\ ~Usable
    <2>1. /\ refuse => pass'.pc = "refused"
          /\ ~refuse =>
               /\ pass'.pc = "apply" /\ pass'.want = Wanted /\ pass'.before = Dest
               /\ pass'.update = d.update /\ pass'.del = d.del /\ pass'.put = d.put
               /\ pass'.to = pass.to /\ pass'.prune = pass.prune
               /\ pass'.now = pass.now /\ pass'.edges = pass.edges /\ pass'.facts = pass.facts
          /\ back' = back /\ pass' \in Pass /\ Wanted \in Store
      BY <1>8, PlanIs DEF OnlyPass
    <2>2. d.extra = Extra(Tuples(Dest), Tuples(Wanted), pass.prune)
      BY <2>1, BackTypes, DiffFields
    <2> HIDE DEF d
    <2>3. CASE refuse
      BY <1>1, <2>1, <2>3
    <2>4. CASE ~refuse
      <3>1. Wanted' = Wanted /\ (Usable' <=> Usable)
        BY <2>1, <2>4, SameWanted
      <3>2. pass'.want = Wanted'
        BY <2>1, <2>4, <3>1
      <3>3. Fruitful'
        <4>1. pass'.prune = pass.prune /\ pass'.before = Dest /\ pass'.want = Wanted
          BY <2>1, <2>4
        <4> QED
          BY <2>2, <2>4, <3>1, <4>1, Zenon DEF Fruitful
      <3>4. Half(pass', Dest')
        <4>1. Dest' = Dest /\ Dest = pass'.before
          BY <2>1, <2>4 DEF Dest
        <4>2. d = Diff(pass'.before, pass'.want, pass'.to, pass'.prune)
          BY <2>1, <2>4 DEF d
        <4>3. pass'.update = d.update /\ pass'.del = d.del /\ pass'.put = d.put
          BY <2>1, <2>4
        <4>4. Half(pass', pass'.before)
          BY <2>1, <4>2, <4>3, HalfStart
        <4> QED
          BY <4>1, <4>4
      <3> QED
        BY <3>2, <3>3, <3>4 DEF PlanInv
    <2> QED
      BY <2>3, <2>4
  <1>9. ASSUME NEW t \in pass.del, Delete(t) PROVE PlanInv'
    <2>1. /\ pass.pc = "apply" /\ pass'.pc = "apply" /\ pass' \in Pass
          /\ pass'.to = pass.to /\ pass'.now = pass.now /\ pass'.edges = pass.edges
          /\ pass'.facts = pass.facts /\ pass'.prune = pass.prune /\ pass'.want = pass.want
          /\ pass'.before = pass.before /\ pass'.update = pass.update
          /\ pass'.del = pass.del \ {t} /\ pass'.put = pass.put /\ pass'.raced = pass.raced
          /\ active' = active /\ back'[pass.to] = Without(Dest, t)
      BY <1>9, DeleteIs
    <2>2. SameAsk(pass, pass') /\ SamePlan(pass, pass') /\ (Alone' <=> Alone)
      BY <2>1 DEF SameAsk, SamePlan, Alone, Serving
    <2>3. ASSUME Half(pass, Dest) PROVE Half(pass', Dest')
      <3>1. Dest' = Without(Dest, t)
        BY <2>1 DEF Dest
      <3>2. pass \in Pass /\ Dest \in Store
        BY BackTypes
      <3>3. Half(pass', Without(Dest, t))
        BY <2>1, <2>2, <2>3, <3>2, <1>9, HalfDelete
      <3> QED
        BY <3>1, <3>3
    <2> QED
      BY <2>1, <2>2, <2>3, PlanStays
  <1>10. ASSUME NEW t \in pass.put, Write(t) PROVE PlanInv'
    <2>1. /\ pass.pc = "apply" /\ pass'.pc = "apply" /\ pass' \in Pass /\ pass.del = {}
          /\ pass'.to = pass.to /\ pass'.now = pass.now /\ pass'.edges = pass.edges
          /\ pass'.facts = pass.facts /\ pass'.prune = pass.prune /\ pass'.want = pass.want
          /\ pass'.before = pass.before /\ pass'.update = pass.update
          /\ pass'.del = pass.del /\ pass'.put = pass.put \ {t} /\ pass'.raced = pass.raced
          /\ active' = active
          /\ back'[pass.to] = (IF pass.to = "fga" /\ t \in Tuples(Dest) THEN Dest
                               ELSE With(Dest, t, pass.want))
      BY <1>10, WriteIs
    <2>2. SameAsk(pass, pass') /\ SamePlan(pass, pass') /\ (Alone' <=> Alone)
      BY <2>1 DEF SameAsk, SamePlan, Alone, Serving
    <2>3. ASSUME Half(pass, Dest) PROVE Half(pass', Dest')
      <3>1. pass \in Pass /\ Dest \in Store
        BY BackTypes
      <3>2. /\ Half(pass', With(Dest, t, pass.want))
            /\ pass.to = "fga" => t \notin Tuples(Dest)
        BY <2>1, <2>2, <2>3, <3>1, <1>10, HalfWrite
      <3>3. Dest' = With(Dest, t, pass.want)
        BY <2>1, <3>2 DEF Dest
      <3> QED
        BY <3>2, <3>3
    <2> QED
      BY <2>1, <2>2, <2>3, PlanStays
  <1>11. CASE Finish
    <2>1. pass'.pc = "done"
      BY <1>11, FinishIs
    <2> QED
      BY <2>1, <1>1
  <1>12. CASE Die
    <2>1. pass'.pc = "died"
      BY <1>12, DieIs
    <2> QED
      BY <2>1, <1>1
  <1>13. CASE Lapse
    <2>1. /\ pass'.pc = pass.pc /\ pass'.raced /\ active' = active /\ back' = back
          /\ pass'.del = pass.del /\ pass'.put = pass.put
      BY <1>13, LapseIs
    <2>2. SameAsk(pass, pass')
      BY <1>13, LapseIs DEF SameAsk
    <2> QED
      BY <1>2, <2>1, <2>2
  <1>14. ASSUME NEW op \in Ops, Call(op) PROVE PlanInv'
    <2>1. pass' = pass /\ back' = back /\ active' = active
      BY <1>14 DEF Call
    <2> QED
      BY <2>1, <1>2, <1>3
  <1>15. CASE CallRelay
    <2>1. pass' = pass /\ back' = back /\ active' = active
      BY <1>15 DEF CallRelay
    <2> QED
      BY <2>1, <1>2, <1>3
  <1>16. ASSUME NEW op \in flight, Land(op) PROVE PlanInv'
    <2>1. /\ pass'.pc = pass.pc /\ pass'.raced = pass.raced /\ active' = active
          /\ pass'.del = pass.del /\ pass'.put = pass.put /\ pass'.to = pass.to
          /\ \A c \in Backend : c # Serving => back'[c] = back[c]
      BY <1>16, LandIs
    <2>2. SameAsk(pass, pass')
      <3>1. /\ pass'.to = pass.to /\ pass'.now = pass.now /\ pass'.edges = pass.edges
            /\ pass'.facts = pass.facts /\ pass'.prune = pass.prune
            /\ pass'.want = pass.want /\ pass'.before = pass.before /\ pass'.update = pass.update
        BY <1>16, LandIs
      <3> QED
        BY <3>1 DEF SameAsk
    <2>3. pass.pc = "apply" /\ Alone' => back'[pass.to] = back[pass.to]
      BY <1>16, <2>1, BackTypes DEF QuietInv, Running, Alone, Serving
    <2> QED
      BY <1>2, <2>1, <2>2, <2>3
  <1>17. CASE Relay
    <2>1. queue # <<>>
      BY <1>17 DEF Relay, FlightTold
    <2>2. /\ flight # {} /\ pass' = pass /\ active' = active /\ back' \in [Backend -> Store]
          /\ back'.sql = back.sql
          /\ Serving # "fga" => back'.fga = back.fga
      BY <1>17, <2>1, RelayIs
    <2>3. pass.pc = "apply" /\ Alone' => back'[pass.to] = back[pass.to]
      BY <2>2, BackTypes DEF QuietInv, Running, Alone, Serving, Backend
    <2> QED
      BY <1>2, <1>3, <2>2, <2>3
  <1>18. ASSUME NEW e \in Moves, Move(e) PROVE PlanInv'
    <2>1. /\ pass'.pc = pass.pc /\ (pass.raced => pass'.raced) /\ active' = active
          /\ pass'.del = pass.del /\ pass'.put = pass.put /\ back' = back
      BY <1>18, MoveIs
    <2>2. SameAsk(pass, pass')
      <3>1. /\ pass'.to = pass.to /\ pass'.now = pass.now /\ pass'.edges = pass.edges
            /\ pass'.facts = pass.facts /\ pass'.prune = pass.prune
            /\ pass'.want = pass.want /\ pass'.before = pass.before /\ pass'.update = pass.update
        BY <1>18, MoveIs
      <3> QED
        BY <3>1 DEF SameAsk
    <2> QED
      BY <1>2, <2>1, <2>2
  <1>19. ASSUME NEW k \in Key, Cutover(k) PROVE PlanInv'
    <2>1. ~Running /\ pass' = pass
      BY <1>19 DEF Cutover
    <2> QED
      BY <2>1, <1>1 DEF Running
  <1>20. CASE Tick
    <2>1. pass' = pass /\ back' = back /\ active' = active
      BY <1>20 DEF Tick
    <2> QED
      BY <2>1, <1>2, <1>3
  <1>21. CASE UNCHANGED vars
    <2>1. pass' = pass /\ back' = back /\ active' = active
      BY <1>21 DEF vars
    <2> QED
      BY <2>1, <1>2, <1>3
  <1> QED
    BY <1>4, <1>5, <1>6, <1>7, <1>8, <1>9, <1>10, <1>11, <1>12, <1>13, <1>14, <1>15,
       <1>16, <1>17, <1>18, <1>19, <1>20, <1>21 DEF Next, PassStep

-----------------------------------------------------------------------------
(* The destination when the plan is done.                                  *)

LEMMA ExtraIs ==
  ASSUME NEW cur, NEW goal, NEW prune, NEW t
  PROVE  t \in Extra(cur, goal, prune) <=>
            /\ t \in cur /\ t \notin goal
            /\ prune \/ t[1] \notin Facts \/ (t[1] = "binding" /\ <<"role", t[2]>> \in goal)
  BY DEF Extra

LEMMA DoneIs ==
  ASSUME NEW p \in Pass, NEW x \in Store, Half(p, x), p.del = {}, p.put = {}, NEW t \in Tuple
  PROVE  /\ t \in Tuples(p.want) => t \in Tuples(x)
         /\ t \in Tuples(x) /\ t \notin Tuples(p.want) =>
               t \in Tuples(p.before) /\ t \notin Extra(Tuples(p.before), Tuples(p.want), p.prune)
         /\ p.prune \/ t[1] \notin Facts => (t \in Tuples(x) <=> t \in Tuples(p.want))
  <1> DEFINE d == Diff(p.before, p.want, p.to, p.prune)
             B == Tuples(p.before)
             W == Tuples(p.want)
             X == Extra(B, W, p.prune)
  <1>1. p.before \in Store /\ p.want \in Store
    BY PassTypes
  <1>2. /\ d.extra = X /\ d.update \subseteq B \cap W
        /\ d.del = d.extra \cup (IF p.to = "fga" THEN d.update ELSE {})
        /\ d.put = (W \ B) \cup d.update
    <2>1. /\ d.extra = X
          /\ d.update = {u \in B \cap W : u[1] = "held" /\ p.before.held[u[2]] # p.want.held[u[2]]}
          /\ d.del = d.extra \cup (IF p.to = "fga" THEN d.update ELSE {})
          /\ d.put = (W \ B) \cup d.update
      BY <1>1, DiffFields
    <2> HIDE DEF d, X
    <2> QED
      BY <2>1
  <1>3. \A u \in Tuple : u \in Tuples(x) <=> \/ u \in B /\ u \notin d.del \ p.del
                                             \/ u \in d.put \ p.put
    BY DEF Half
  <1>4. t \in X <=> /\ t \in B /\ t \notin W
                    /\ p.prune \/ t[1] \notin Facts \/ (t[1] = "binding" /\ <<"role", t[2]>> \in W)
    BY ExtraIs
  <1> HIDE DEF d, B, W, X
  <1>5. t \in Tuples(x) <=> (t \in B /\ t \notin d.del) \/ t \in d.put
    BY <1>3
  <1>6. t \in W => t \in Tuples(x)
    BY <1>2, <1>4, <1>5
  <1>7. t \in Tuples(x) /\ t \notin W => t \in B /\ t \notin X
    BY <1>2, <1>5
  <1>8. p.prune \/ t[1] \notin Facts => (t \in Tuples(x) <=> t \in W)
    BY <1>4, <1>6, <1>7
  <1> QED
    BY <1>6, <1>7, <1>8 DEF B, W, X

LEMMA DoneHeld ==
  ASSUME NEW p \in Pass, NEW x \in Store, Half(p, x), p.del = {}, p.put = {}, NEW k \in HeldKey,
         x.held[k] # Absent, p.want.held[k] # Absent
  PROVE  x.held[k] = p.want.held[k]
  <1> DEFINE d == Diff(p.before, p.want, p.to, p.prune)
             B == Tuples(p.before)
             W == Tuples(p.want)
             t == <<"held", k>>
  <1>1. p.before \in Store /\ p.want \in Store /\ t \in Tuple
    BY PassTypes, TupleMade
  <1>2. /\ d.update = {u \in B \cap W : u[1] = "held" /\ p.before.held[u[2]] # p.want.held[u[2]]}
        /\ d.put = (W \ B) \cup d.update
    BY <1>1, DiffFields
  <1>3. x.held[k] = (IF t \in d.put \ p.put THEN p.want.held[k] ELSE p.before.held[k])
    BY DEF Half
  <1>4. t \in W
    BY <1>1, TuplesOf
  <1>5. t[1] = "held" /\ t[2] = k
    OBVIOUS
  <1> HIDE DEF d, B, W, t
  <1> QED
    BY <1>2, <1>3, <1>4, <1>5

\* What the store should have.
LEMMA WantedStoreIs ==
  ASSUME TypeOK, pass.to = "fga", NEW x \in Store
  PROVE  LET y == WantOf(x)
             ks == Assignable(x, pass.edges, pass.now)
         IN  /\ y \in Store /\ y.parent = pass.edges /\ y.rooted
             /\ y.role = {k[2] : k \in ks}
             /\ y.binding = {pl \in y.role : Seen(pl, pass.edges)}
             /\ y.held = [k \in HeldKey |-> IF k \in ks THEN x.held[k] ELSE Absent]
             /\ y.denied = Deniable(x, pass.edges)
             /\ \A r \in Role, p \in Perm :
                   <<r, p>> \in y.permits <=> r \in Known /\ p \in Catalog[r].perms \cap Published
  <1> DEFINE w == Derived(pass.edges)
             y == WantStore(w, x, pass.edges, pass.now)
             ks == Assignable(x, pass.edges, pass.now)
  <1>1. w \in Store /\ w.parent = pass.edges /\ w.rooted
        /\ \A r \in Role, p \in Perm :
              <<r, p>> \in w.permits <=> r \in Known /\ p \in Catalog[r].perms \cap Published
    BY PassTypes, DerivedFields DEF TypeOK
  <1> HIDE DEF w
  <1>2. /\ y \in Store
        /\ y.parent = w.parent /\ y.permits = w.permits /\ y.rooted = w.rooted
        /\ y.role = {k[2] : k \in ks}
        /\ y.binding = {pl \in y.role : Seen(pl, pass.edges)}
        /\ y.held = [k \in HeldKey |-> IF k \in ks THEN x.held[k] ELSE Absent]
        /\ y.denied = Deniable(x, pass.edges)
    <2>1. WantedOf(y, w, x, pass.edges, pass.now)
      BY <1>1, WantStoreFields
    <2> HIDE DEF y
    <2> QED
      BY <2>1, Zenon DEF WantedOf
  <1>3. WantOf(x) = y
    BY DEF WantOf, w
  <1> HIDE DEF y, ks
  <1> QED
    BY <1>1, <1>2, <1>3 DEF ks

LEMMA DoneParent ==
  ASSUME TypeOK, PlanInv, pass.pc = "apply", Alone, pass.del = {}, pass.put = {}, pass.to = "fga"
  PROVE  back.fga.parent = pass.edges
  <1>1. Half(pass, Dest) /\ pass.want = WantOf(pass.facts)
    BY DEF PlanInv, Wanted
  <1>2. pass \in Pass /\ Dest \in Store /\ Dest = back.fga /\ pass.want \in Store /\ pass.facts \in Store
    BY BackTypes, PassTypes DEF Dest
  <1>3. pass.want.parent = pass.edges
    BY <1>1, <1>2, WantedStoreIs
  <1>4. ASSUME NEW e \in Scope \X Scope PROVE e \in Dest.parent <=> e \in pass.edges
    <2>1. <<"parent", e>> \in Tuple /\ <<"parent", e>>[1] \notin Facts
      BY TupleMade DEF Facts
    <2>2. <<"parent", e>> \in Tuples(Dest) <=> <<"parent", e>> \in Tuples(pass.want)
      BY <1>1, <1>2, <2>1, DoneIs
    <2> QED
      BY <1>2, <1>3, <2>2, TuplesOf
  <1>5. Dest.parent \subseteq Scope \X Scope /\ pass.edges \subseteq Scope \X Scope
    BY <1>2, PassTypes DEF Store
  <1> QED
    BY <1>2, <1>4, <1>5

-----------------------------------------------------------------------------
(* The store follows the tree.                                             *)

ToldIn(q, T) ==
    \A i \in DOMAIN q : q[i] \in T \/ \E j \in DOMAIN q : j > i /\ q[j][1] = q[i][1]

LEMMA ToldMore ==
  ASSUME NEW q \in Seq(Scope \X Scope), NEW T, NEW e \in Scope \X Scope, ToldIn(q, T)
  PROVE  ToldIn(Append(q, e), {d \in T : d[1] # e[1]} \cup {e})
  <1> DEFINE r == Append(q, e)
             F == {d \in T : d[1] # e[1]} \cup {e}
             n == Len(q) + 1
  <1>1. /\ DOMAIN r = 1 .. n /\ DOMAIN q = 1 .. Len(q) /\ Len(q) \in Nat
        /\ r[n] = e /\ \A i \in DOMAIN q : r[i] = q[i]
    OBVIOUS
  <1>2. e \in F /\ \A d \in T : d[1] # e[1] => d \in F
    OBVIOUS
  <1> HIDE DEF r, F
  <1>3. ASSUME NEW i \in DOMAIN r PROVE r[i] \in F \/ \E j \in DOMAIN r : j > i /\ r[j][1] = r[i][1]
    <2>1. CASE i = n
      BY <1>1, <1>2, <2>1
    <2>2. CASE i \in DOMAIN q
      <3>1. n \in DOMAIN r /\ n > i /\ r[i] = q[i]
        BY <1>1, <2>2
      <3>2. CASE q[i][1] = e[1]
        BY <1>1, <3>1, <3>2
      <3>3. CASE q[i] \in T /\ q[i][1] # e[1]
        BY <1>2, <3>1, <3>3
      <3>4. CASE \E j \in DOMAIN q : j > i /\ q[j][1] = q[i][1]
        <4>1. PICK j \in DOMAIN q : j > i /\ q[j][1] = q[i][1]
          BY <3>4
        <4>2. j \in DOMAIN r /\ r[j] = q[j]
          BY <1>1
        <4> QED
          BY <3>1, <4>1, <4>2
      <3> QED
        BY <2>2, <3>2, <3>3, <3>4 DEF ToldIn
    <2> QED
      BY <1>1, <2>1, <2>2
  <1> QED
    BY <1>3 DEF ToldIn, r, F

LEMMA ToldLess ==
  ASSUME NEW q \in Seq(Scope \X Scope), q # <<>>, NEW T, ToldIn(q, T)
  PROVE  /\ ToldIn(Tail(q), T)
         /\ \A c : WaitsIn(q, c) <=> c = Head(q)[1] \/ WaitsIn(Tail(q), c)
         /\ ~WaitsIn(Tail(q), Head(q)[1]) => Head(q) \in T
  <1> DEFINE r == Tail(q)
             e == Head(q)
  <1>1. /\ Len(q) \in Nat /\ Len(q) >= 1 /\ DOMAIN q = 1 .. Len(q) /\ DOMAIN r = 1 .. (Len(q) - 1)
        /\ e = q[1] /\ \A i \in DOMAIN r : r[i] = q[i + 1]
    OBVIOUS
  <1> HIDE DEF r, e
  <1>2. ASSUME NEW i \in DOMAIN r PROVE r[i] \in T \/ \E j \in DOMAIN r : j > i /\ r[j][1] = r[i][1]
    <2>1. i + 1 \in DOMAIN q /\ r[i] = q[i + 1]
      BY <1>1
    <2>2. CASE q[i + 1] \in T
      BY <2>1, <2>2
    <2>3. CASE \E j \in DOMAIN q : j > i + 1 /\ q[j][1] = q[i + 1][1]
      <3>1. PICK j \in DOMAIN q : j > i + 1 /\ q[j][1] = q[i + 1][1]
        BY <2>3
      <3>2. j - 1 \in DOMAIN r /\ j - 1 > i /\ r[j - 1] = q[(j - 1) + 1] /\ (j - 1) + 1 = j
        BY <1>1, <3>1
      <3>3. r[j - 1][1] = r[i][1]
        BY <2>1, <3>1, <3>2
      <3> QED
        BY <3>2, <3>3
    <2> QED
      BY <2>1, <2>2, <2>3 DEF ToldIn
  <1>3. ASSUME NEW c, WaitsIn(q, c) PROVE c = e[1] \/ WaitsIn(r, c)
    <2>1. PICK i \in DOMAIN q : q[i][1] = c
      BY <1>3 DEF WaitsIn
    <2>2. CASE i = 1
      BY <1>1, <2>1, <2>2
    <2>3. CASE i # 1
      <3>1. i - 1 \in DOMAIN r /\ r[i - 1] = q[(i - 1) + 1] /\ (i - 1) + 1 = i
        BY <1>1, <2>1, <2>3
      <3>2. r[i - 1][1] = c
        BY <2>1, <3>1
      <3> QED
        BY <3>1, <3>2 DEF WaitsIn
    <2> QED
      BY <2>2, <2>3
  <1>4. ASSUME NEW c, WaitsIn(r, c) PROVE WaitsIn(q, c)
    <2>1. PICK i \in DOMAIN r : r[i][1] = c
      BY <1>4 DEF WaitsIn
    <2>2. i + 1 \in DOMAIN q /\ q[i + 1][1] = c
      BY <1>1, <2>1
    <2> QED
      BY <2>2 DEF WaitsIn
  <1>5. WaitsIn(q, e[1]) /\ 1 \in DOMAIN q
    BY <1>1 DEF WaitsIn
  <1>6. ASSUME ~WaitsIn(r, e[1]) PROVE e \in T
    <2>1. q[1] \in T \/ \E j \in DOMAIN q : j > 1 /\ q[j][1] = q[1][1]
      BY <1>5 DEF ToldIn
    <2>2. ASSUME NEW j \in DOMAIN q, j > 1, q[j][1] = q[1][1] PROVE FALSE
      <3>1. j - 1 \in DOMAIN r /\ r[j - 1] = q[(j - 1) + 1] /\ (j - 1) + 1 = j
        BY <1>1, <2>2
      <3>2. r[j - 1][1] = e[1]
        BY <1>1, <2>2, <3>1
      <3> QED
        BY <1>6, <3>1, <3>2 DEF WaitsIn
    <2> QED
      BY <1>1, <2>1, <2>2
  <1>7. ToldIn(r, T)
    BY <1>2 DEF ToldIn
  <1>8. \A c : WaitsIn(q, c) <=> c = e[1] \/ WaitsIn(r, c)
    BY <1>3, <1>4, <1>5
  <1> QED
    BY <1>6, <1>7, <1>8 DEF r, e

\* What the relay has not been told to change is in the store as the consumer has it.
Treed ==
    /\ SourceTree(tree) = tree
    /\ ToldIn(queue, tree)
    /\ \A e \in Scope \X Scope :
          ~WaitsIn(queue, e[1]) => (e \in back.fga.parent <=> e \in tree)

SoundInv == sound /\ ~(pass.pc = "apply" /\ pass.to = "fga") => Treed

LEMMA SoundNext == Base /\ TreeInv /\ EdgesInv /\ PlanInv /\ SoundInv /\ [Next]_vars => SoundInv'
  <1> SUFFICES ASSUME Base, TreeInv, EdgesInv, PlanInv, SoundInv, [Next]_vars PROVE SoundInv'
    OBVIOUS
  <1> USE DEF Base
  <1>1. ASSUME sound' /\ ~(pass'.pc = "apply" /\ pass'.to = "fga") =>
                  /\ sound /\ ~(pass.pc = "apply" /\ pass.to = "fga")
                  /\ tree' = tree /\ queue' = queue /\ back'.fga.parent = back.fga.parent
        PROVE  SoundInv'
    BY <1>1 DEF SoundInv, Treed
  <1>2. ASSUME NEW a \in Passes, Begin(a) PROVE SoundInv'
    <2>1. ~Running /\ sound' = sound /\ tree' = tree /\ queue' = queue /\ back' = back
      BY <1>2, BeginIs
    <2> QED
      BY <2>1, <1>1 DEF Running
  <1>3. CASE ReadTree
    <2>1. pass.pc = "tree" /\ sound' = sound /\ tree' = tree /\ queue' = queue /\ back' = back
      BY <1>3, ReadTreeIs DEF OnlyPass
    <2> QED
      BY <2>1, <1>1
  <1>4. CASE ReadTables
    <2>1. pass.pc = "read" /\ sound' = sound /\ tree' = tree /\ queue' = queue /\ back' = back
      BY <1>4, ReadTablesIs DEF OnlyPass
    <2> QED
      BY <2>1, <1>1
  <1>5. ASSUME NEW f \in {"held", "denied"}, ReadPage(f) PROVE SoundInv'
    <2>1. pass.pc = "read" /\ sound' = sound /\ tree' = tree /\ queue' = queue /\ back' = back
      BY <1>5, ReadPageIs DEF OnlyPass
    <2> QED
      BY <2>1, <1>1
  <1>6. CASE Plan
    <2>1. pass.pc = "plan" /\ sound' = sound /\ tree' = tree /\ queue' = queue /\ back' = back
      BY <1>6 DEF Plan, OnlyPass
    <2> QED
      BY <1>1, <2>1
  <1>7. ASSUME NEW t \in pass.del, Delete(t) PROVE SoundInv'
    <2>1. /\ pass.pc = "apply" /\ pass'.pc = "apply" /\ pass'.to = pass.to
          /\ sound' = sound /\ tree' = tree /\ queue' = queue
          /\ \A c \in Backend : c # pass.to => back'[c] = back[c]
      BY <1>7, DeleteIs
    <2>2. pass.to # "fga" => back'["fga"] = back["fga"]
      BY <2>1 DEF Backend
    <2> QED
      BY <1>1, <2>1, <2>2
  <1>8. ASSUME NEW t \in pass.put, Write(t) PROVE SoundInv'
    <2>1. /\ pass.pc = "apply" /\ pass'.pc = "apply" /\ pass'.to = pass.to
          /\ sound' = sound /\ tree' = tree /\ queue' = queue
          /\ \A c \in Backend : c # pass.to => back'[c] = back[c]
      BY <1>8, WriteIs
    <2>2. pass.to # "fga" => back'["fga"] = back["fga"]
      BY <2>1 DEF Backend
    <2> QED
      BY <1>1, <2>1, <2>2
  <1>9. CASE Finish
    <2>1. /\ pass.pc = "apply" /\ pass.del = {} /\ pass.put = {} /\ pass'.pc = "done"
          /\ tree' = tree /\ queue' = queue /\ back' = back
      BY <1>9, FinishIs
    <2>2. sound' = (IF pass.to = "fga"
                    THEN /\ ~pass.raced /\ (pass.to = Serving \/ ~pass.moved) /\ Told
                         /\ \A e \in tree : \E d \in pass.edges : d[1] = e[1]
                    ELSE sound)
      BY <1>9, Zenon DEF Finish
    <2>3. CASE pass.to # "fga"
      BY <1>1, <2>1, <2>2, <2>3
    <2>4. CASE pass.to = "fga" /\ ~sound'
      BY <2>4 DEF SoundInv
    <2>5. CASE pass.to = "fga" /\ sound'
      <3>1. ~pass.raced /\ Told /\ \A e \in tree : \E d \in pass.edges : d[1] = e[1]
        BY <2>2, <2>5
      <3>2. /\ \A e \in pass.edges : ~WaitsIn(queue, e[1]) => e \in tree
            /\ SourceTree(tree) = tree
        BY <2>1, <3>1 DEF EdgesInv
      <3>3. back.fga.parent = pass.edges
        BY <2>1, <2>5, <3>1, DoneParent DEF Alone
      <3>4. ASSUME NEW e \in Scope \X Scope, ~WaitsIn(queue, e[1])
            PROVE  e \in back.fga.parent <=> e \in tree
        <4>1. e \in pass.edges => e \in tree
          BY <3>2, <3>4
        <4>2. ASSUME e \in tree PROVE e \in pass.edges
          <5>1. PICK d \in pass.edges : d[1] = e[1]
            BY <3>1, <4>2
          <5>2. d \in tree
            BY <3>2, <3>4, <5>1
          <5>3. d = e
            BY <4>2, <5>1, <5>2 DEF TreeInv
          <5> QED
            BY <5>1, <5>3
        <4> QED
          BY <3>3, <4>1, <4>2
      <3>5. ToldIn(queue, tree)
        BY <3>1 DEF Told, ToldIn
      <3>6. Treed
        BY <3>2, <3>4, <3>5 DEF Treed
      <3> QED
        BY <2>1, <3>6 DEF SoundInv, Treed
    <2> QED
      BY <2>3, <2>4, <2>5
  <1>10. CASE Die
    <2>1. /\ tree' = tree /\ queue' = queue /\ back' = back
          /\ sound' = (sound /\ (pass.to = "sql" \/ pass.pc # "apply"))
      BY <1>10, DieIs
    <2> QED
      BY <1>1, <2>1
  <1>11. CASE Lapse
    <2>1. pass'.pc = pass.pc /\ pass'.to = pass.to /\ sound' = sound /\ tree' = tree /\ queue' = queue /\ back' = back
      BY <1>11, LapseIs
    <2> QED
      BY <2>1, <1>1
  <1>12. ASSUME NEW op \in Ops, Call(op) PROVE SoundInv'
    <2>1. pass' = pass /\ sound' = sound /\ tree' = tree /\ queue' = queue /\ back' = back
      BY <1>12 DEF Call
    <2> QED
      BY <2>1, <1>1
  <1>13. CASE CallRelay
    <2>1. pass' = pass /\ sound' = sound /\ tree' = tree /\ queue' = queue /\ back' = back
      BY <1>13 DEF CallRelay
    <2> QED
      BY <2>1, <1>1
  <1>14. ASSUME NEW op \in flight, Land(op) PROVE SoundInv'
    <2>1. /\ op.op # "relay" /\ op \in Op \cup {[op |-> "relay"]} /\ back'[Serving] = Landed(back[Serving], op)
          /\ \A c \in Backend : c # Serving => back'[c] = back[c]
          /\ pass'.pc = pass.pc /\ pass'.to = pass.to /\ sound' = sound /\ tree' = tree /\ queue' = queue
      BY <1>14, LandIs
    <2>2. Landed(back[Serving], op).parent = back[Serving].parent
      BY <2>1, BackTypes, LandedFields
    <2>3. back'["fga"].parent = back["fga"].parent
      BY <2>1, <2>2 DEF Backend
    <2> QED
      BY <1>1, <2>1, <2>3
  <1>15. CASE Relay
    <2> DEFINE h == Head(queue)
    <2>1. queue # <<>>
      BY <1>15 DEF Relay, FlightTold
    <2>2. /\ h \in Scope \X Scope
          /\ back'.fga = (IF Serving = "fga" THEN Relayed(back.fga, h) ELSE back.fga)
          /\ queue' = Tail(queue) /\ sound' = (sound /\ Serving = "fga") /\ tree' = tree /\ pass' = pass
      BY <1>15, <2>1, RelayIs
    <2>3. SUFFICES ASSUME sound, Serving = "fga", ~(pass.pc = "apply" /\ pass.to = "fga") PROVE Treed'
      BY <2>2 DEF SoundInv
    <2>4. /\ SourceTree(tree) = tree /\ ToldIn(queue, tree)
          /\ \A e \in Scope \X Scope :
                ~WaitsIn(queue, e[1]) => (e \in back.fga.parent <=> e \in tree)
      BY <2>3 DEF SoundInv, Treed
    <2>5. /\ ToldIn(queue', tree)
          /\ \A c : WaitsIn(queue, c) <=> c = h[1] \/ WaitsIn(queue', c)
          /\ ~WaitsIn(queue', h[1]) => h \in tree
      BY <2>1, <2>2, <2>4, ToldLess DEF TypeOK
    <2>6. back.fga \in Store
      BY BackTypes
    <2> HIDE DEF h
    <2>7. Relayed(back.fga, h).parent = {d \in back.fga.parent : d[1] # h[1]} \cup {h}
      BY <2>2, <2>6, RelayedFields, Zenon
    <2>8. back'.fga.parent = {d \in back.fga.parent : d[1] # h[1]} \cup {h}
      BY <2>2, <2>3, <2>7
    <2>9. ASSUME NEW e \in Scope \X Scope, ~WaitsIn(queue', e[1])
          PROVE  e \in back'.fga.parent <=> e \in tree
      <3>1. CASE e[1] = h[1]
        <4>1. h \in tree
          BY <2>5, <2>9, <3>1
        <4>2. e \in tree => e = h
          BY <3>1, <4>1 DEF TreeInv
        <4> QED
          BY <2>8, <3>1, <4>1, <4>2
      <3>2. CASE e[1] # h[1]
        <4>1. e \in back.fga.parent <=> e \in tree
          BY <2>4, <2>5, <2>9, <3>2
        <4> QED
          BY <2>8, <3>2, <4>1
      <3> QED
        BY <3>1, <3>2
    <2> QED
      BY <2>2, <2>4, <2>5, <2>9 DEF Treed
  <1>16. ASSUME NEW e \in Moves, Move(e) PROVE SoundInv'
    <2> DEFINE F == {d \in tree : d[1] # e[1]} \cup {e}
               cyclic == e[1] \in Reach(tree, e[2])
    <2>1. /\ tree' = F /\ e \in Scope \X Scope /\ pass'.pc = pass.pc /\ pass'.to = pass.to
          /\ queue' = (IF cyclic THEN queue ELSE Append(queue, e))
          /\ sound' = (sound /\ ~cyclic /\ Serving = "fga") /\ back' = back
      BY <1>16, MoveIs
    <2>2. SUFFICES ASSUME sound, ~cyclic, ~(pass.pc = "apply" /\ pass.to = "fga") PROVE Treed'
      BY <2>1 DEF SoundInv
    <2>3. /\ SourceTree(tree) = tree /\ ToldIn(queue, tree)
          /\ \A d \in Scope \X Scope :
                ~WaitsIn(queue, d[1]) => (d \in back.fga.parent <=> d \in tree)
      BY <2>2 DEF SoundInv, Treed
    <2>4. queue' = Append(queue, e) /\ queue \in Seq(Scope \X Scope) /\ tree \in SUBSET (Scope \X Scope)
      BY <2>1, <2>2 DEF TypeOK
    <2>5. SourceTree(tree') = tree'
      BY <2>1, <2>2, <2>3, <2>4, StillNoCycle
    <2>6. ToldIn(queue', tree')
      <3>1. ToldIn(Append(queue, e), F)
        BY <2>1, <2>3, <2>4, ToldMore
      <3> HIDE DEF F
      <3> QED
        BY <2>1, <2>4, <3>1
    <2>7. ASSUME NEW d \in Scope \X Scope, ~WaitsIn(queue', d[1])
          PROVE  d \in back'.fga.parent <=> d \in tree'
      <3>1. d[1] # e[1] /\ ~WaitsIn(queue, d[1])
        BY <2>1, <2>4, <2>7, WaitsMore
      <3> QED
        BY <2>1, <2>3, <3>1
    <2> QED
      BY <2>5, <2>6, <2>7 DEF Treed
  <1>17. ASSUME NEW k \in Key, Cutover(k) PROVE SoundInv'
    <2>1. pass' = pass /\ sound' = sound /\ tree' = tree /\ queue' = queue /\ back' = back
      BY <1>17 DEF Cutover
    <2> QED
      BY <2>1, <1>1
  <1>18. CASE Tick
    <2>1. pass' = pass /\ sound' = sound /\ tree' = tree /\ queue' = queue /\ back' = back
      BY <1>18 DEF Tick
    <2> QED
      BY <2>1, <1>1
  <1>19. CASE UNCHANGED vars
    <2>1. pass' = pass /\ sound' = sound /\ tree' = tree /\ queue' = queue /\ back' = back
      BY <1>19 DEF vars
    <2> QED
      BY <2>1, <1>1
  <1> QED
    BY <1>2, <1>3, <1>4, <1>5, <1>6, <1>7, <1>8, <1>9, <1>10, <1>11, <1>12, <1>13,
       <1>14, <1>15, <1>16, <1>17, <1>18, <1>19 DEF Next, PassStep

-----------------------------------------------------------------------------
(* What a pass leaves.                                                     *)

Inv == Base /\ TreeInv /\ QuietInv /\ EdgesInv /\ PlanInv /\ SoundInv

LEMMA InvInit == Init => Inv
  <1> SUFFICES ASSUME Init PROVE Inv
    OBVIOUS
  <1>1. Base
    BY BaseInit
  <1>2. tree = FirstTree /\ pass.pc = "idle" /\ sound = FALSE
    BY DEF Init, NoPass
  <1>3. TreeInv
    BY <1>2, ReconcileAssumption DEF TreeInv
  <1> QED
    BY <1>1, <1>2, <1>3 DEF Inv, QuietInv, Running, EdgesInv, PlanInv, SoundInv

LEMMA InvNext == Inv /\ [Next]_vars => Inv'
  BY BaseNext, TreeNext, QuietNext, EdgesNext, PlanNext, SoundNext DEF Inv, Base

LEMMA InvAlways == Spec => []Inv
  BY InvInit, InvNext, PTL DEF Spec

\* A pass that applies its plan is over when it finishes or when it dies.
LEMMA OverOnly ==
  ASSUME TypeOK, [Next]_vars, pass.pc = "apply", pass'.pc # "apply"
  PROVE  Finish \/ Die
  <1>1. \A a \in Passes : ~Begin(a)
    BY DEF Begin, Running
  <1>2. ~ReadTree /\ ~ReadTables /\ (\A f \in {"held", "denied"} : ~ReadPage(f)) /\ ~Plan
    BY DEF ReadTree, ReadTables, ReadPage, Plan
  <1>3. \A t \in pass.del : ~Delete(t)
    BY DeleteIs
  <1>4. \A t \in pass.put : ~Write(t)
    BY WriteIs
  <1>5. ~Lapse
    BY LapseIs
  <1>6. (\A op \in Ops : ~Call(op)) /\ ~CallRelay /\ ~(\E k \in Key : Cutover(k)) /\ ~Tick
        /\ ~UNCHANGED vars
    BY DEF Call, CallRelay, Cutover, Tick, vars
  <1>7. \A op \in flight : ~Land(op)
    BY LandIs
  <1>8. ~Relay
    BY DEF Relay
  <1>9. \A e \in Moves : ~Move(e)
    BY MoveIs
  <1> QED
    BY <1>1, <1>2, <1>3, <1>4, <1>5, <1>6, <1>7, <1>8, <1>9 DEF Next, PassStep

LEMMA FinishOnly ==
  ASSUME TypeOK, [Next]_vars, Finishes
  PROVE  /\ Finish /\ pass.pc = "apply" /\ pass.del = {} /\ pass.put = {}
         /\ back' = back /\ tree' = tree /\ clock' = clock
  <1>1. pass.pc = "apply" /\ pass'.pc = "done"
    BY DEF Finishes
  <1>2. ~Die
    BY <1>1, DieIs
  <1>3. Finish
    BY <1>1, <1>2, OverOnly
  <1> QED
    BY <1>3, FinishIs

\* A pass that nobody raced leaves what it wanted, and with --prune nothing else.
LEMMA FinishLeaves ==
  ASSUME Inv, [Next]_vars, Finishes, ~pass.raced
  PROVE  /\ pass.pc = "apply" /\ back' = back /\ tree' = tree /\ clock' = clock
         /\ pass \in Pass /\ Dest \in Store /\ pass.want \in Store /\ pass.before \in Store
         /\ pass.facts \in Store /\ pass.want = Wanted /\ Fruitful
         /\ Half(pass, Dest) /\ pass.del = {} /\ pass.put = {}
         /\ \A t \in Tuple :
               /\ t \in Tuples(pass.want) => t \in Tuples(Dest)
               /\ t \in Tuples(Dest) /\ t \notin Tuples(pass.want) =>
                     t \notin Extra(Tuples(pass.before), Tuples(pass.want), pass.prune)
                         /\ t \in Tuples(pass.before)
               /\ pass.prune \/ t[1] \notin Facts => (t \in Tuples(Dest) <=> t \in Tuples(pass.want))
  <1>1. TypeOK /\ PlanInv
    BY DEF Inv, Base
  <1>2. /\ pass.pc = "apply" /\ pass.del = {} /\ pass.put = {}
        /\ back' = back /\ tree' = tree /\ clock' = clock
    BY <1>1, FinishOnly
  <1>3. pass \in Pass /\ Dest \in Store
    BY <1>1, BackTypes
  <1>4. pass.want \in Store /\ pass.before \in Store /\ pass.facts \in Store
    BY <1>3, PassTypes
  <1>5. pass.want = Wanted /\ Fruitful /\ Half(pass, Dest)
    BY <1>1, <1>2 DEF PlanInv, Alone
  <1> QED
    BY <1>2, <1>3, <1>4, <1>5, DoneIs

LEMMA FollowsTree == Inv => TypeOK /\ StoreFollowsTree
  <1> SUFFICES ASSUME Inv PROVE TypeOK /\ StoreFollowsTree
    OBVIOUS
  <1>1. TypeOK
    BY DEF Inv, Base
  <1>2. ASSUME sound, queue = <<>>, ~Running PROVE back.fga.parent = SourceTree(tree)
    <2>1. Treed
      BY <1>2 DEF Inv, SoundInv, Running
    <2>2. \A c : ~WaitsIn(queue, c)
      BY <1>2 DEF WaitsIn
    <2>3. back.fga.parent \subseteq Scope \X Scope /\ tree \subseteq Scope \X Scope
      BY <1>1, BackTypes DEF TypeOK, Store
    <2> QED
      BY <2>1, <2>2, <2>3 DEF Treed
  <1> QED
    BY <1>1, <1>2 DEF StoreFollowsTree

\* More is visible with more edges.
LEMMA SeenMore ==
  ASSUME NEW E, NEW F, E \subseteq F, NEW pl, Seen(pl, E)
  PROVE  Seen(pl, F)
  <1>1. Reach(E, pl[1]) \subseteq Reach(F, pl[1])
    BY ReachMore
  <1> QED
    BY <1>1 DEF Seen, Visible

LEMMA Unhung ==
  ASSUME Inv, [Next]_vars, Finishes, pass.to = "fga", Quiet,
         NEW pl \in back'.fga.binding, pl \in pass.want.role
  PROVE  Seen(pl, tree)
  <1> DEFINE t == <<"binding", pl>>
  <1>1. ~pass.raced /\ ~pass.moved
    BY DEF Quiet
  <1>2. /\ pass.pc = "apply" /\ back' = back /\ pass \in Pass /\ Dest \in Store
        /\ pass.want \in Store /\ pass.before \in Store /\ pass.facts \in Store /\ pass.want = Wanted
    BY <1>1, FinishLeaves
  <1>3. TypeOK /\ EdgesInv
    BY DEF Inv, Base
  <1>4. Dest = back.fga
    BY <1>3, BackTypes DEF Dest
  <1>5. pl \in Place
    BY <1>2, <1>4 DEF Store
  <1>6. t \in Tuple /\ t \in Tuples(Dest) /\ t[1] = "binding" /\ t[2] = pl
    BY <1>2, <1>4, <1>5, TupleMade, TuplesOf
  <1>7. <<"role", t[2]>> \in Tuples(pass.want)
    BY <1>2, <1>6, TuplesOf
  <1>8. t \in Tuples(pass.want)
    <2>1. SUFFICES ASSUME t \notin Tuples(pass.want) PROVE FALSE
      OBVIOUS
    <2>2. /\ t \in Tuples(pass.before)
          /\ t \notin Extra(Tuples(pass.before), Tuples(pass.want), pass.prune)
      BY <1>1, <1>6, <2>1, FinishLeaves
    <2> QED
      BY <1>6, <1>7, <2>1, <2>2, ExtraIs
  <1>9. pl \in pass.want.binding
    BY <1>2, <1>8, TuplesOf
  <1>10. pass.want.binding = {b \in pass.want.role : Seen(b, pass.edges)}
    BY <1>2, <1>3, WantedStoreIs DEF Wanted
  <1>11. pass.edges = SourceTree(tree)
    BY <1>1, <1>2, <1>3 DEF EdgesInv
  <1>12. SourceTree(tree) \subseteq tree
    BY DEF SourceTree
  <1> QED
    BY <1>9, <1>10, <1>11, <1>12, SeenMore

LEMMA NotEmptied ==
  ASSUME Inv, [Next]_vars, Finishes, pass.prune, ~pass.raced,
         NEW t \in Tuples(pass.before), t[1] \in {"held", "denied"}
  PROVE  \E u \in Tuples(back'[pass.to]) : u[1] \in {"held", "denied"}
  <1>1. /\ back' = back /\ Dest \in Store /\ pass.want \in Store /\ pass.before \in Store
        /\ pass.want = Wanted /\ Fruitful
    BY FinishLeaves
  <1>2. \A u \in Tuple : u \in Tuples(pass.want) => u \in Tuples(Dest)
    BY FinishLeaves
  <1>3. Dest = back'[pass.to]
    BY <1>1 DEF Dest
  <1>4. CASE Usable
    <2>1. CASE pass.want.denied # {}
      <3>1. PICK d \in pass.want.denied : TRUE
        BY <2>1
      <3>2. <<"denied", d>> \in Tuples(pass.want) /\ <<"denied", d>> \in Tuple
        BY <1>1, <3>1, TuplesOf, TupleMade DEF Store, DenyKey
      <3> QED
        BY <1>2, <1>3, <3>2
    <2>2. CASE \E k \in HeldKey : pass.want.held[k] # Absent
      <3>1. PICK k \in HeldKey : pass.want.held[k] # Absent
        BY <2>2
      <3>2. <<"held", k>> \in Tuples(pass.want) /\ <<"held", k>> \in Tuple
        BY <1>1, <3>1, TuplesOf, TupleMade
      <3> QED
        BY <1>2, <1>3, <3>2
    <2>3. Wanted.denied # {} \/ \E k \in HeldKey : Wanted.held[k] # Absent
      BY <1>4, Zenon DEF Usable, HeldKey
    <2>4. pass.want.denied # {} \/ \E k \in HeldKey : pass.want.held[k] # Absent
      BY <1>1, <2>3
    <2> QED
      BY <2>1, <2>2, <2>4
  <1>5. CASE ~Usable
    <2>1. t[1] \in Facts
      BY DEF Facts
    <2>2. t \notin Extra(Tuples(pass.before), Tuples(pass.want), pass.prune)
      BY <1>1, <1>5, <2>1, Zenon DEF Fruitful
    <2>3. t \in Tuples(pass.want)
      BY <2>2, Zenon DEF Extra
    <2>4. Tuples(pass.before) \in SUBSET Tuple
      BY <1>1, TuplesOf, Zenon
    <2>5. t \in Tuples(pass.want) /\ t \in Tuple
      BY <2>3, <2>4
    <2> QED
      BY <1>2, <1>3, <2>5
  <1> QED
    BY <1>4, <1>5

\* What a pass leaves behind (reconcile() of both drivers): the state is well formed, and a
\* store that was rebuilt and whose relay has caught up has the tree of the consumer, moves
\* made under the pass included; a role that is not visible in its scope hangs nowhere; and
\* a driver that had facts is not left with none.
THEOREM RebuiltWhole == Spec => StoreRebuilt
  <1>1. Inv => TypeOK /\ StoreFollowsTree
    BY FollowsTree
  <1>2. Inv /\ [Next]_vars =>
          (Finishes /\ pass.to = "fga" /\ Quiet =>
              \A pl \in back'.fga.binding : pl \in pass.want.role => Seen(pl, tree))
    BY Unhung
  <1>3. Inv /\ [Next]_vars =>
          (Finishes /\ pass.prune /\ ~pass.raced =>
              \/ \A t \in Tuples(pass.before) : t[1] \notin {"held", "denied"}
              \/ \E t \in Tuples(back'[pass.to]) : t[1] \in {"held", "denied"})
    BY NotEmptied
  <1>4. Spec => []Inv
    BY InvAlways
  <1>5. Spec => [](TypeOK /\ StoreFollowsTree)
    BY <1>1, <1>4, PTL
  <1>6. Spec => InvisibleUnhung
    BY <1>2, <1>4, PTL DEF Spec, InvisibleUnhung
  <1>7. Spec => NeverEmptied
    BY <1>3, <1>4, PTL DEF Spec, NeverEmptied
  <1> QED
    BY <1>5, <1>6, <1>7 DEF StoreRebuilt

-----------------------------------------------------------------------------
(* Chains: what is above a scope when no scope has two parents.            *)

LEMMA ReachStep ==
  ASSUME NEW E \in SUBSET (Scope \X Scope), \A d, e \in E : d[1] = e[1] => d = e,
         NEW e \in E, NEW a \in Reach(E, e[1]), a # e[1]
  PROVE  a \in Reach(E, e[2])
  <1> DEFINE S == {e[1]} \cup Reach(E, e[2])
  <1>1. e[1] \in Scope /\ e[2] \in Scope
    OBVIOUS
  <1>2. S \in SUBSET Scope /\ e[1] \in S
    BY <1>1 DEF Reach
  <1>3. \A d \in E : d[1] \in S => d[2] \in S
    BY <1>1, ReachSelf, ReachUp
  <1> HIDE DEF S
  <1>4. Reach(E, e[1]) \subseteq S
    BY <1>2, <1>3 DEF Reach
  <1> QED
    BY <1>4 DEF S

LEMMA ReachStuck ==
  ASSUME NEW E, NEW n \in Scope, \A e \in E : e[1] # n
  PROVE  Reach(E, n) = {n}
  BY DEF Reach

LEMMA ReachScope ==
  ASSUME NEW E, NEW n
  PROVE  Reach(E, n) \subseteq Scope
  BY DEF Reach

\* Of two scopes above one, one is above the other.
LEMMA ReachLine ==
  ASSUME NEW E \in SUBSET (Scope \X Scope), \A d, e \in E : d[1] = e[1] => d = e,
         NEW n \in Scope, NEW a \in Reach(E, n), NEW b \in Reach(E, n)
  PROVE  a \in Reach(E, b) \/ b \in Reach(E, a)
  <1> DEFINE S == {m \in Scope : a \in Reach(E, m) \/ m \in Reach(E, a)}
  <1>1. a \in Scope /\ S \in SUBSET Scope /\ n \in S
    BY DEF Reach
  <1>2. ASSUME NEW e \in E, e[1] \in S PROVE e[2] \in S
    <2>1. e[1] \in Scope /\ e[2] \in Scope
      OBVIOUS
    <2>2. CASE e[1] \in Reach(E, a)
      BY <1>1, <2>1, <2>2, ReachUp
    <2>3. CASE a \in Reach(E, e[1]) /\ a = e[1]
      BY <1>1, <2>1, <2>3, ReachSelf, ReachUp
    <2>4. CASE a \in Reach(E, e[1]) /\ a # e[1]
      BY <2>1, <2>4, ReachStep
    <2> QED
      BY <1>2, <2>2, <2>3, <2>4
  <1> HIDE DEF S
  <1>3. Reach(E, n) \subseteq S
    BY <1>1, <1>2 DEF Reach
  <1> QED
    BY <1>3 DEF S

\* What is above a scope that resolves resolves too.
LEMMA RootAbove ==
  ASSUME NEW E \in SUBSET (Scope \X Scope), \A d, e \in E : d[1] = e[1] => d = e,
         \A e \in E : e[1] # Root, NEW n \in Scope, Root \in Reach(E, n), NEW c \in Reach(E, n)
  PROVE  Root \in Reach(E, c) /\ (c \in Reach(E, Root) => c = Root)
  <1>1. Root \in Scope
    BY ReachScope
  <1>2. Reach(E, Root) = {Root}
    BY <1>1, ReachStuck
  <1>3. Root \in Reach(E, c) \/ c \in Reach(E, Root)
    BY ReachLine
  <1> QED
    BY <1>1, <1>2, <1>3, ReachSelf

\* With fewer edges a scope that resolves has all that is above it.
LEMMA ChainKept ==
  ASSUME NEW E \in SUBSET (Scope \X Scope), NEW F \in SUBSET (Scope \X Scope), E \subseteq F,
         \A d, e \in F : d[1] = e[1] => d = e, \A e \in F : e[1] # Root,
         NEW n \in Scope, Root \in Reach(E, n)
  PROVE  Reach(E, n) = Reach(F, n)
  <1>1. Reach(E, n) \subseteq Reach(F, n)
    BY ReachMore
  <1>2. ASSUME NEW f \in F, f[1] \in Reach(E, n) PROVE f[2] \in Reach(E, n)
    <2>1. f[1] \in Scope /\ f[1] # Root
      OBVIOUS
    <2>2. Root \in Reach(E, f[1])
      BY <1>2, RootAbove
    <2>3. PICK e \in E : e[1] = f[1]
      BY <2>1, <2>2, ReachStuck
    <2>4. e = f
      BY <2>3
    <2> QED
      BY <1>2, <2>4, ReachUp
  <1>3. Reach(E, n) \in SUBSET Scope /\ n \in Reach(E, n)
    BY ReachScope, ReachSelf
  <1>4. Reach(F, n) \subseteq Reach(E, n)
    BY <1>2, <1>3 DEF Reach
  <1> QED
    BY <1>1, <1>4

\* What resolves is in no cycle.
LEMMA ChainWhole ==
  ASSUME NEW E \in SUBSET (Scope \X Scope), \A d, e \in E : d[1] = e[1] => d = e,
         \A e \in E : e[1] # Root, NEW n \in Scope
  PROVE  /\ Root \in Reach(SourceTree(E), n) <=> Root \in Reach(E, n)
         /\ Root \in Reach(E, n) => Reach(SourceTree(E), n) = Reach(E, n)
  <1> DEFINE F == SourceTree(E)
  <1>1. F \in SUBSET (Scope \X Scope) /\ F \subseteq E /\ \A e \in E : e \in F <=> e[1] \notin Reach(E, e[2])
    BY DEF SourceTree
  <1>2. Reach(F, n) \subseteq Reach(E, n)
    BY <1>1, ReachMore
  <1>3. ASSUME Root \in Reach(E, n), NEW e \in E, e[1] \in Reach(E, n) PROVE e \in F
    <2> DEFINE c == e[1]
               S == {m \in Scope : c \in Reach(E, m)}
    <2>1. SUFFICES ASSUME c \in Reach(E, e[2]) PROVE FALSE
      BY <1>1
    <2>2. c \in Scope /\ e[2] \in Scope /\ c # Root
      OBVIOUS
    <2>3. S \in SUBSET Scope /\ c \in S
      BY <2>2, ReachSelf
    <2>4. ASSUME NEW d \in E, d[1] \in S PROVE d[2] \in S
      <3>1. d[1] \in Scope /\ d[2] \in Scope
        OBVIOUS
      <3>2. CASE d[1] = c
        BY <2>1, <3>1, <3>2
      <3>3. CASE d[1] # c
        BY <2>4, <3>1, <3>3, ReachStep
      <3> QED
        BY <3>2, <3>3
    <2> HIDE DEF S, c
    <2>5. Reach(E, c) \subseteq S
      BY <2>3, <2>4 DEF Reach
    <2>6. Root \in Reach(E, c) /\ (c \in Reach(E, Root) => c = Root)
      BY <1>3, RootAbove DEF c
    <2> QED
      BY <2>2, <2>5, <2>6 DEF S
  <1>4. ASSUME Root \in Reach(E, n) PROVE Reach(E, n) \subseteq Reach(F, n)
    <2>1. Reach(F, n) \in SUBSET Scope /\ n \in Reach(F, n)
      BY ReachScope, ReachSelf
    <2>2. ASSUME NEW e \in E, e[1] \in Reach(F, n) PROVE e[2] \in Reach(F, n)
      <3>1. e \in F
        BY <1>2, <1>3, <1>4, <2>2
      <3> QED
        BY <1>1, <2>2, <3>1, ReachUp
    <2> QED
      BY <2>1, <2>2 DEF Reach
  <1> QED
    BY <1>2, <1>4

-----------------------------------------------------------------------------
(* A store with less of everything but the denies says yes to less.        *)

LEMMA FewerAnswers ==
  ASSUME NEW x \in Store, NEW y \in Store, NEW now,
         x.parent \subseteq y.parent, \A d, e \in y.parent : d[1] = e[1] => d = e,
         \A e \in y.parent : e[1] # Root,
         x.binding \subseteq y.binding, x.role \subseteq y.role, x.permits \subseteq y.permits,
         x.rooted => y.rooted, y.denied \subseteq x.denied,
         \A k \in HeldKey : x.held[k] # Absent => y.held[k] = x.held[k]
  PROVE  Answers(x, now) \subseteq Answers(y, now)
  <1> SUFFICES ASSUME NEW h \in Holder, NEW p \in Perm, NEW s \in Scope, Can(x, h, p, s, now)
               PROVE  Can(y, h, p, s, now)
    BY DEF Answers
  <1>1. Root \in Reach(x.parent, s) /\ x.rooted
    BY DEF Can, Rooted, Up
  <1>2. x.parent \in SUBSET (Scope \X Scope) /\ y.parent \in SUBSET (Scope \X Scope)
        /\ x.binding \in SUBSET Place
    BY DEF Store
  <1>3. Up(x, s) = Up(y, s)
    BY <1>1, <1>2, ChainKept DEF Up
  <1>4. Granted(y, h, p, s, now)
    <2>1. PICK pl \in x.binding : pl[1] \in Up(x, s) /\ Carries(x, h, p, pl, now)
      BY DEF Can, Granted
    <2>2. <<h, pl>> \in HeldKey /\ x.held[<<h, pl>>] # Absent
      BY <1>2, <2>1 DEF HeldKey, Carries
    <2>3. y.held[<<h, pl>>] = x.held[<<h, pl>>]
      BY <2>2
    <2>4. Carries(y, h, p, pl, now)
      BY <2>1, <2>2, <2>3 DEF Carries
    <2> QED
      BY <1>3, <2>1, <2>4 DEF Granted
  <1>5. ~Denied(y, h, p, s)
    BY <1>3 DEF Can, Denied
  <1>6. Rooted(y, s)
    BY <1>1, <1>3 DEF Rooted, Up
  <1> QED
    BY <1>4, <1>5, <1>6 DEF Can

\* What a store will be when there is nothing left to delete.
LEMMA GoalFields ==
  ASSUME NEW x \in Store, NEW p \in Pass, p.del = {}
  PROVE  LET y == Goal(x, p)
         IN  /\ y \in Store
             /\ y.parent = x.parent \cup {t[2] : t \in {t \in p.put : t[1] = "parent"}}
             /\ x.binding \subseteq y.binding /\ x.role \subseteq y.role /\ x.permits \subseteq y.permits
             /\ x.rooted => y.rooted
             /\ y.denied = x.denied \cup {t[2] : t \in {t \in p.put : t[1] = "denied"}}
             /\ \A k \in HeldKey : <<"held", k>> \notin p.put => y.held[k] = x.held[k]
  <1> DEFINE y == Goal(x, p)
             add(f) == {t[2] : t \in {t \in p.put : t[1] = f}}
             hd == [k \in HeldKey |-> IF k \in add("held") THEN p.want.held[k] ELSE x.held[k]]
  <1>1. p.put \in SUBSET Tuple /\ p.want \in Store
    BY PassTypes
  <1>2. DOMAIN x.held = HeldKey /\ x.held \in [HeldKey -> Expiry \cup {Absent}]
        /\ p.want.held \in [HeldKey -> Expiry \cup {Absent}]
    BY <1>1 DEF Store, HeldKey
  <1>3. y = [parent |-> x.parent \cup add("parent"), binding |-> x.binding \cup add("binding"),
             role |-> x.role \cup add("role"), denied |-> x.denied \cup add("denied"),
             permits |-> x.permits \cup add("permits"), rooted |-> x.rooted \/ add("rooted") # {},
             held |-> hd]
    <2>1. \A f : {t[2] : t \in {t \in p.del : t[1] = f}} = {}
      OBVIOUS
    <2> QED
      BY <1>2, <2>1 DEF Goal
  <1>4. /\ add("parent") \in SUBSET (Scope \X Scope) /\ add("binding") \in SUBSET Place
        /\ add("role") \in SUBSET Place /\ add("denied") \in SUBSET DenyKey
        /\ add("permits") \in SUBSET (Role \X Perm)
    BY <1>1, TupleIs
  <1>5. \A k \in HeldKey : <<"held", k>> \notin p.put => k \notin add("held")
    <2> SUFFICES ASSUME NEW k \in HeldKey, NEW t \in p.put, t[1] = "held", t[2] = k
                 PROVE  <<"held", k>> \in p.put
      OBVIOUS
    <2>1. t = <<t[1], t[2]>>
      BY <1>1, TupleIs
    <2> QED
      BY <2>1
  <1>6. hd \in [HeldKey -> Expiry \cup {Absent}]
    BY <1>2
  <1>7. \A k \in HeldKey : <<"held", k>> \notin p.put => hd[k] = x.held[k]
    BY <1>5
  <1>8. (x.rooted \/ add("rooted") # {}) \in BOOLEAN
    OBVIOUS
  <1> DEFINE P == add("parent")
             D == add("denied")
  <1>9. /\ x.parent \in SUBSET (Scope \X Scope) /\ x.binding \in SUBSET Place /\ x.role \in SUBSET Place
        /\ x.denied \in SUBSET DenyKey /\ x.permits \in SUBSET (Role \X Perm)
    BY DEF Store, DenyKey
  <1> HIDE DEF add, hd, y
  <1>10. y \in Store
    BY <1>3, <1>4, <1>6, <1>8, <1>9 DEF Store, HeldKey, DenyKey
  <1>11. /\ y.parent = x.parent \cup add("parent") /\ y.denied = x.denied \cup add("denied")
         /\ y.binding = x.binding \cup add("binding") /\ y.role = x.role \cup add("role")
         /\ y.permits = x.permits \cup add("permits") /\ y.held = hd
         /\ y.rooted = (x.rooted \/ add("rooted") # {})
    BY <1>3
  <1> QED
    BY <1>7, <1>10, <1>11 DEF y, add

\* What a store is when its plan is done, or there is none.
LEMMA GoalDone ==
  ASSUME NEW x \in Store, NEW p \in Pass, p.del = {}, p.put = {}
  PROVE  Goal(x, p) = x
  <1>1. \A f : {t[2] : t \in {t \in p.put : t[1] = f}} = {} /\ {t[2] : t \in {t \in p.del : t[1] = f}} = {}
    OBVIOUS
  <1>2. Goal(x, p) = [parent |-> x.parent, binding |-> x.binding, role |-> x.role,
                      denied |-> x.denied, permits |-> x.permits, rooted |-> x.rooted \/ FALSE,
                      held |-> [k \in DOMAIN x.held |-> x.held[k]]]
    BY <1>1 DEF Goal
  <1>3. /\ x = [parent |-> x.parent, binding |-> x.binding, role |-> x.role,
                denied |-> x.denied, permits |-> x.permits, rooted |-> x.rooted, held |-> x.held]
        /\ x.held = [k \in DOMAIN x.held |-> x.held[k]] /\ x.rooted \in BOOLEAN
    BY DEF Store
  <1>4. (x.rooted \/ FALSE) = x.rooted
    BY <1>3
  <1> QED
    BY <1>2, <1>3, <1>4, Zenon

\* Over the store that answers, with no --prune: until something is written there is less of
\* everything but the denies than before the pass, and once there is nothing to delete there
\* is less than at its end.
LEMMA HalfAnswers ==
  ASSUME NEW p \in Pass, NEW x \in Store, Half(p, x), p.to = "fga", ~p.prune, NEW now,
         \A d, e \in p.before.parent : d[1] = e[1] => d = e, \A e \in p.before.parent : e[1] # Root,
         \A d, e \in p.want.parent : d[1] = e[1] => d = e, \A e \in p.want.parent : e[1] # Root,
         \A k \in HeldKey : p.want.held[k] # Absent => p.want.held[k] = p.before.held[k],
         p.want.denied \subseteq p.before.denied
  PROVE  Answers(x, now) \subseteq Answers(p.before, now) \cup Answers(Goal(x, p), now)
  <1> DEFINE d == Diff(p.before, p.want, p.to, p.prune)
             b == p.before
             w == p.want
             y == Goal(x, p)
  <1>1. b \in Store /\ w \in Store /\ p.put \in SUBSET Tuple
    BY PassTypes
  <1>2. /\ d.extra = Extra(Tuples(b), Tuples(w), p.prune)
        /\ d.update = {u \in Tuples(b) \cap Tuples(w) : u[1] = "held" /\ b.held[u[2]] # w.held[u[2]]}
        /\ d.del = d.extra \cup (IF p.to = "fga" THEN d.update ELSE {})
        /\ d.put = (Tuples(w) \ Tuples(b)) \cup d.update
    BY <1>1, DiffFields
  <1>3. /\ p.del \subseteq d.del /\ p.put \subseteq d.put
        /\ p.del # {} => p.put = d.put
        /\ \A t \in Tuple : t \in Tuples(x) <=> \/ t \in Tuples(b) /\ t \notin d.del \ p.del
                                                \/ t \in d.put \ p.put
        /\ \A k \in HeldKey : x.held[k] # Absent =>
               x.held[k] = (IF <<"held", k>> \in d.put \ p.put THEN w.held[k] ELSE b.held[k])
    BY DEF Half
  <1> HIDE DEF d, b, w
  <1>4. ASSUME NEW u \in Tuples(w), u[1] = "held"
        PROVE  u \in Tuples(b) /\ b.held[u[2]] = w.held[u[2]]
    <2>1. u = <<"held", u[2]>> /\ u[2] \in HeldKey
      BY <1>1, <1>4, TupleIs, TuplesOf
    <2>2. w.held[u[2]] # Absent
      BY <1>1, <1>4, <2>1, TuplesOf
    <2>3. b.held[u[2]] = w.held[u[2]]
      BY <2>1, <2>2 DEF b, w
    <2> QED
      BY <1>1, <2>1, <2>2, <2>3, TuplesOf
  <1>5. d.update = {} /\ d.del = Extra(Tuples(b), Tuples(w), p.prune) /\ d.put = Tuples(w) \ Tuples(b)
    BY <1>2, <1>4
  <1>6. ASSUME NEW t \in Tuple
        PROVE  t \in d.del <=>
                  /\ t \in Tuples(b) /\ t \notin Tuples(w)
                  /\ t[1] \notin Facts \/ (t[1] = "binding" /\ <<"role", t[2]>> \in Tuples(w))
    <2> DEFINE X == Extra(Tuples(b), Tuples(w), p.prune)
    <2>1. t \in X <=>
             /\ t \in Tuples(b) /\ t \notin Tuples(w)
             /\ p.prune \/ t[1] \notin Facts \/ (t[1] = "binding" /\ <<"role", t[2]>> \in Tuples(w))
      BY Zenon DEF Extra
    <2>2. d.del = X
      BY <1>5
    <2> HIDE DEF X
    <2> QED
      BY <2>1, <2>2
  <1>7. \A k \in HeldKey : <<"held", k>> \notin d.put
    BY <1>1, <1>4, <1>5
  <1>8. \A v : <<"denied", v>> \notin d.put
    <2> SUFFICES ASSUME NEW v, <<"denied", v>> \in Tuples(w) PROVE <<"denied", v>> \in Tuples(b)
      BY <1>5
    <2>1. v \in w.denied
      BY <1>1, TuplesOf
    <2>2. v \in b.denied
      BY <2>1 DEF b, w
    <2> QED
      BY <1>1, <2>2, TuplesOf
  <1>9. \A k \in HeldKey : x.held[k] # Absent => x.held[k] = b.held[k]
    BY <1>3, <1>7
  <1>10. CASE p.del # {}
    <2>1. \A t \in Tuple : t \in Tuples(x) => t \in Tuples(b)
      BY <1>3, <1>10
    <2>2. x.parent \subseteq b.parent /\ x.binding \subseteq b.binding /\ x.role \subseteq b.role
          /\ x.permits \subseteq b.permits /\ (x.rooted => b.rooted)
      BY <1>1, <2>1, TuplesOf, ZenonT(60)
    <2>3. b.denied \subseteq x.denied
      <3> SUFFICES ASSUME NEW v \in b.denied PROVE v \in x.denied
        OBVIOUS
      <3>1. <<"denied", v>> \in Tuples(b) /\ <<"denied", v>> \in Tuple /\ <<"denied", v>>[1] = "denied"
        BY <1>1, TuplesOf
      <3>2. <<"denied", v>> \notin d.del
        BY <1>6, <3>1 DEF Facts
      <3> QED
        BY <1>3, <3>1, <3>2, TuplesOf
    <2>4. \A k \in HeldKey : x.held[k] # Absent => b.held[k] = x.held[k]
      BY <1>9
    <2>5. \A e \in b.parent : e[1] # Root
      BY DEF b
    <2>6. \A c, e \in b.parent : c[1] = e[1] => c = e
      BY DEF b
    <2>7. Answers(x, now) \subseteq Answers(b, now)
      BY <1>1, <2>2, <2>3, <2>4, <2>5, <2>6, FewerAnswers
    <2> QED
      BY <2>7 DEF b
  <1>11. CASE p.del = {}
    <2>1. /\ y \in Store
          /\ y.parent = x.parent \cup {t[2] : t \in {t \in p.put : t[1] = "parent"}}
          /\ x.binding \subseteq y.binding /\ x.role \subseteq y.role /\ x.permits \subseteq y.permits
          /\ x.rooted => y.rooted
          /\ y.denied = x.denied \cup {t[2] : t \in {t \in p.put : t[1] = "denied"}}
          /\ \A k \in HeldKey : <<"held", k>> \notin p.put => y.held[k] = x.held[k]
      BY <1>11, GoalFields
    <2> HIDE DEF y
    <2>2. y.parent \subseteq w.parent
      <3>1. ASSUME NEW e \in x.parent PROVE e \in w.parent
        <4>1. <<"parent", e>> \in Tuples(x) /\ <<"parent", e>> \in Tuple /\ <<"parent", e>>[1] = "parent"
          BY TuplesOf
        <4>2. <<"parent", e>> \in Tuples(b) => <<"parent", e>> \in Tuples(w) \/ <<"parent", e>> \in d.del
          BY <1>6, <4>1 DEF Facts
        <4>3. <<"parent", e>> \in Tuples(w)
          BY <1>3, <1>5, <1>11, <4>1, <4>2
        <4> QED
          BY <1>1, <4>3, TuplesOf
      <3>2. ASSUME NEW t \in p.put, t[1] = "parent" PROVE t[2] \in w.parent
        <4>1. t \in Tuples(w) /\ t = <<"parent", t[2]>>
          BY <1>1, <1>3, <1>5, <3>2, TupleIs
        <4> QED
          BY <1>1, <4>1, TuplesOf
      <3> QED
        BY <2>1, <3>1, <3>2
    <2>3. y.denied = x.denied
      <3>1. ASSUME NEW t \in p.put, t[1] = "denied" PROVE FALSE
        <4>1. t = <<"denied", t[2]>>
          BY <1>1, <3>1, TupleIs
        <4> QED
          BY <1>3, <1>8, <4>1
      <3> QED
        BY <2>1, <3>1
    <2>4. \A k \in HeldKey : y.held[k] = x.held[k]
      BY <1>3, <1>7, <2>1
    <2>5. x.parent \subseteq y.parent
      BY <2>1
    <2>6. \A e \in y.parent : e[1] # Root
      BY <2>2 DEF w
    <2>7. \A c, e \in y.parent : c[1] = e[1] => c = e
      BY <2>2 DEF w
    <2>8. Answers(x, now) \subseteq Answers(y, now)
      BY <2>1, <2>3, <2>4, <2>5, <2>6, <2>7, FewerAnswers
    <2> QED
      BY <2>8 DEF y
  <1> QED
    BY <1>10, <1>11

-----------------------------------------------------------------------------
(* Nothing is above the root, and what a pass has read.                    *)

OneParent(E) == \A d, e \in E : d[1] = e[1] => d = e
Free(E)      == \A e \in E : e[1] # Root

\* No edge leaves the root, in the store, in the queue and in what a pass reads and writes.
RootInv ==
    /\ Free(back.fga.parent)
    /\ \A i \in DOMAIN queue : queue[i][1] # Root
    /\ pass.pc \in {"read", "plan", "apply"} => Free(pass.edges) /\ OneParent(pass.edges)
    /\ pass.pc = "apply" /\ pass.to = "fga" =>
          /\ Free(pass.before.parent)
          /\ \A t \in pass.put : t[1] = "parent" => t[2][1] # Root

LEMMA RootNext == Base /\ TreeInv /\ RootInv /\ [Next]_vars => RootInv'
  <1> SUFFICES ASSUME Base, TreeInv, RootInv, [Next]_vars PROVE RootInv'
    OBVIOUS
  <1> USE DEF Base
  <1>1. ASSUME back'.fga.parent = back.fga.parent, queue' = queue,
               pass'.pc \in {"read", "plan", "apply"} =>
                  pass.pc \in {"read", "plan", "apply"} /\ pass'.edges = pass.edges,
               pass'.pc = "apply" =>
                  /\ pass.pc = "apply" /\ pass'.to = pass.to /\ pass'.before = pass.before
                  /\ pass'.put = pass.put
        PROVE  RootInv'
    BY <1>1 DEF RootInv
  <1>2. ASSUME NEW a \in Passes, Begin(a) PROVE RootInv'
    <2>1. pass'.pc = "tree" /\ back' = back /\ queue' = queue
      BY <1>2, BeginIs
    <2> QED
      BY <2>1, <1>1
  <1>3. CASE ReadTree
    <2>1. pass'.edges = SourceTree(tree) /\ back' = back /\ queue' = queue /\ pass'.pc = "read"
      BY <1>3, ReadTreeIs DEF OnlyPass
    <2>2. SourceTree(tree) \subseteq tree
      BY DEF SourceTree
    <2>3. Free(SourceTree(tree)) /\ OneParent(SourceTree(tree))
      BY <2>2 DEF TreeInv, Free, OneParent
    <2> QED
      BY <2>1, <2>3 DEF RootInv
  <1>4. CASE ReadTables
    <2>1. pass.pc = "read" /\ pass'.pc # "apply" /\ pass'.edges = pass.edges /\ back' = back /\ queue' = queue
      BY <1>4, ReadTablesIs DEF OnlyPass
    <2> QED
      BY <2>1, <1>1
  <1>5. ASSUME NEW f \in {"held", "denied"}, ReadPage(f) PROVE RootInv'
    <2>1. pass.pc = "read" /\ pass'.pc # "apply" /\ pass'.edges = pass.edges /\ back' = back /\ queue' = queue
      BY <1>5, ReadPageIs DEF OnlyPass
    <2> QED
      BY <2>1, <1>1
  <1>6. CASE Plan
    <2> DEFINE d == Diff(Dest, Wanted, pass.to, pass.prune)
    <2>1. /\ pass.pc = "plan" /\ back' = back /\ queue' = queue /\ Wanted \in Store
          /\ \/ pass'.pc = "refused"
             \/ /\ pass'.pc = "apply" /\ pass'.edges = pass.edges /\ pass'.to = pass.to
                /\ pass'.before = Dest /\ pass'.put = d.put
      BY <1>6, PlanIs, Zenon DEF OnlyPass
    <2>2. CASE pass'.pc = "refused"
      BY <1>1, <2>1, <2>2
    <2>3. CASE /\ pass'.pc = "apply" /\ pass'.edges = pass.edges /\ pass'.to = pass.to
               /\ pass'.before = Dest /\ pass'.put = d.put
      <3>1. Dest \in Store /\ pass.facts \in Store
        BY BackTypes, PassTypes
      <3>2. d.update \subseteq Tuples(Wanted) /\ d.put = (Tuples(Wanted) \ Tuples(Dest)) \cup d.update
        BY <2>1, <3>1, DiffFields
      <3>3. d.put \subseteq Tuples(Wanted)
        BY <3>2
      <3> HIDE DEF d
      <3>4. ASSUME pass.to = "fga" PROVE Dest = back.fga /\ Wanted.parent = pass.edges
        BY <3>1, <3>4, BackTypes, WantedStoreIs DEF Dest, Wanted
      <3>5. ASSUME pass.to = "fga", NEW t \in d.put, t[1] = "parent" PROVE t[2][1] # Root
        <4>1. t \in Tuple /\ t \in Tuples(Wanted)
          BY <2>1, <3>3, <3>5, TuplesOf
        <4>2. t = <<"parent", t[2]>>
          BY <3>5, <4>1, TupleIs
        <4>3. t[2] \in Wanted.parent
          BY <2>1, <4>1, <4>2, TuplesOf
        <4> QED
          BY <2>1, <3>4, <3>5, <4>3 DEF RootInv, Free
      <3> QED
        BY <2>1, <2>3, <3>4, <3>5 DEF RootInv
    <2> QED
      BY <2>1, <2>2, <2>3
  <1>7. ASSUME NEW t \in pass.del, Delete(t) PROVE RootInv'
    <2>1. /\ pass.pc = "apply" /\ t \in Tuple /\ back'[pass.to] = Without(Dest, t) /\ queue' = queue
          /\ \A c \in Backend : c # pass.to => back'[c] = back[c]
          /\ pass'.edges = pass.edges /\ pass'.to = pass.to /\ pass'.before = pass.before
          /\ pass'.put = pass.put /\ pass'.pc = "apply"
      BY <1>7, DeleteIs
    <2>2. Free(back'["fga"].parent)
      <3>1. CASE pass.to = "fga"
        <4>1. Dest = back.fga /\ Dest \in Store
          BY <3>1, BackTypes DEF Dest
        <4>2. Without(Dest, t).parent = (IF t[1] = "parent" THEN Dest.parent \ {t[2]} ELSE Dest.parent)
          BY <2>1, <4>1, WithoutFields, Zenon
        <4>3. Without(Dest, t).parent \subseteq back.fga.parent
          BY <4>1, <4>2
        <4> QED
          BY <2>1, <3>1, <4>3 DEF RootInv, Free
      <3>2. CASE pass.to # "fga"
        BY <2>1, <3>2 DEF RootInv, Backend
      <3> QED
        BY <3>1, <3>2
    <2> QED
      BY <2>1, <2>2 DEF RootInv
  <1>8. ASSUME NEW t \in pass.put, Write(t) PROVE RootInv'
    <2>1. /\ pass.pc = "apply" /\ t \in Tuple /\ queue' = queue
          /\ back'[pass.to] = Dest \/ back'[pass.to] = With(Dest, t, pass.want)
          /\ \A c \in Backend : c # pass.to => back'[c] = back[c]
          /\ pass'.edges = pass.edges /\ pass'.to = pass.to /\ pass'.before = pass.before
          /\ pass'.put = pass.put \ {t} /\ pass'.pc = "apply"
      BY <1>8, WriteIs
    <2>2. Free(back'["fga"].parent)
      <3>1. CASE pass.to = "fga"
        <4>1. pass.want \in Store /\ Dest \in Store /\ Dest = back.fga
          BY <3>1, BackTypes, PassTypes DEF Dest
        <4>2. With(Dest, t, pass.want).parent
                 = (IF t[1] = "parent" THEN Dest.parent \cup {t[2]} ELSE Dest.parent)
          BY <2>1, <4>1, WithFields, ZenonT(30)
        <4>3. With(Dest, t, pass.want).parent
                 = (IF t[1] = "parent" THEN back.fga.parent \cup {t[2]} ELSE back.fga.parent)
          BY <4>1, <4>2
        <4>4. t[1] = "parent" => t[2][1] # Root
          BY <2>1, <3>1 DEF RootInv
        <4>5. Free(With(Dest, t, pass.want).parent)
          BY <4>3, <4>4 DEF RootInv, Free
        <4> QED
          BY <2>1, <3>1, <4>1, <4>5 DEF RootInv
      <3>2. CASE pass.to # "fga"
        BY <2>1, <3>2 DEF RootInv, Backend
      <3> QED
        BY <3>1, <3>2
    <2> QED
      BY <2>1, <2>2 DEF RootInv
  <1>9. CASE Finish
    <2>1. pass'.pc = "done" /\ back' = back /\ queue' = queue
      BY <1>9, FinishIs
    <2> QED
      BY <2>1, <1>1
  <1>10. CASE Die
    <2>1. pass'.pc = "died" /\ back' = back /\ queue' = queue
      BY <1>10, DieIs
    <2> QED
      BY <2>1, <1>1
  <1>11. CASE Lapse
    <2>1. /\ pass'.pc = pass.pc /\ pass'.edges = pass.edges /\ pass'.to = pass.to
          /\ pass'.before = pass.before /\ pass'.put = pass.put /\ back' = back /\ queue' = queue
      BY <1>11, LapseIs
    <2> QED
      BY <2>1, <1>1
  <1>12. ASSUME NEW op \in Ops, Call(op) PROVE RootInv'
    <2>1. pass' = pass /\ back' = back /\ queue' = queue
      BY <1>12 DEF Call
    <2> QED
      BY <2>1, <1>1
  <1>13. CASE CallRelay
    <2>1. pass' = pass /\ back' = back /\ queue' = queue
      BY <1>13 DEF CallRelay
    <2> QED
      BY <2>1, <1>1
  <1>14. ASSUME NEW op \in flight, Land(op) PROVE RootInv'
    <2>1. /\ op.op # "relay" /\ op \in Op \cup {[op |-> "relay"]} /\ back'[Serving] = Landed(back[Serving], op)
          /\ \A c \in Backend : c # Serving => back'[c] = back[c]
          /\ pass'.pc = pass.pc /\ pass'.edges = pass.edges /\ pass'.to = pass.to
          /\ pass'.before = pass.before /\ pass'.put = pass.put /\ queue' = queue
      BY <1>14, LandIs
    <2>2. Landed(back[Serving], op).parent = back[Serving].parent
      BY <2>1, BackTypes, LandedFields
    <2>3. back'["fga"].parent = back["fga"].parent
      BY <2>1, <2>2 DEF Backend
    <2> QED
      BY <1>1, <2>1, <2>3
  <1>15. CASE Relay
    <2> DEFINE h == Head(queue)
    <2>1. queue # <<>> /\ queue \in Seq(Scope \X Scope)
      BY <1>15 DEF Relay, FlightTold, TypeOK
    <2>2. /\ h \in Scope \X Scope
          /\ back'.fga = (IF Serving = "fga" THEN Relayed(back.fga, h) ELSE back.fga)
          /\ queue' = Tail(queue) /\ pass' = pass
      BY <1>15, <2>1, RelayIs
    <2>3. h[1] # Root /\ \A i \in DOMAIN Tail(queue) : Tail(queue)[i][1] # Root
      <3>1. h = queue[1] /\ 1 \in DOMAIN queue
            /\ \A i \in DOMAIN Tail(queue) : i + 1 \in DOMAIN queue /\ Tail(queue)[i] = queue[i + 1]
        BY <2>1
      <3> HIDE DEF h
      <3> QED
        BY <3>1 DEF RootInv
    <2> HIDE DEF h
    <2>4. back.fga \in Store
      BY BackTypes
    <2>5. Relayed(back.fga, h).parent = {d \in back.fga.parent : d[1] # h[1]} \cup {h}
      BY <2>2, <2>4, RelayedFields, Zenon
    <2>6. Free(back'.fga.parent)
      BY <2>2, <2>3, <2>5 DEF RootInv, Free
    <2> QED
      BY <2>2, <2>3, <2>6 DEF RootInv
  <1>16. ASSUME NEW e \in Moves, Move(e) PROVE RootInv'
    <2>1. /\ pass'.pc = pass.pc /\ pass'.edges = pass.edges /\ pass'.to = pass.to
          /\ pass'.before = pass.before /\ pass'.put = pass.put /\ back' = back /\ e \in Scope \X Scope
          /\ queue' = (IF e[1] \in Reach(tree, e[2]) THEN queue ELSE Append(queue, e))
      BY <1>16, MoveIs
    <2>2. e[1] # Root /\ queue \in Seq(Scope \X Scope)
      BY ReconcileAssumption DEF TypeOK
    <2>3. \A i \in DOMAIN queue' : queue'[i][1] # Root
      BY <2>1, <2>2 DEF RootInv
    <2> QED
      BY <2>1, <2>3 DEF RootInv
  <1>17. ASSUME NEW k \in Key, Cutover(k) PROVE RootInv'
    <2>1. pass' = pass /\ back' = back /\ queue' = queue
      BY <1>17 DEF Cutover
    <2> QED
      BY <2>1, <1>1
  <1>18. CASE Tick
    <2>1. pass' = pass /\ back' = back /\ queue' = queue
      BY <1>18 DEF Tick
    <2> QED
      BY <2>1, <1>1
  <1>19. CASE UNCHANGED vars
    <2>1. pass' = pass /\ back' = back /\ queue' = queue
      BY <1>19 DEF vars
    <2> QED
      BY <2>1, <1>1
  <1> QED
    BY <1>2, <1>3, <1>4, <1>5, <1>6, <1>7, <1>8, <1>9, <1>10, <1>11, <1>12, <1>13,
       <1>14, <1>15, <1>16, <1>17, <1>18, <1>19 DEF Next, PassStep

\* What a pass that nobody races has read is what there is in its origin, and when it began to
\* write in its own origin, what there was.
ReadInv ==
    Running /\ ~pass.raced =>
        /\ pass.pc \in {"tree", "read", "plan"} =>
              /\ "held" \notin pass.pages => pass.facts.held = back[pass.origin].held
              /\ "denied" \notin pass.pages => pass.facts.denied = back[pass.origin].denied
        /\ pass.pc = "plan" => pass.pages = {}
        /\ pass.pc = "apply" =>
              LET x == IF Self THEN pass.before ELSE back[pass.origin]
              IN  pass.facts.held = x.held /\ pass.facts.denied = x.denied

LEMMA ReadNext == Base /\ QuietInv /\ ReadInv /\ [Next]_vars => ReadInv'
  <1> SUFFICES ASSUME Base, QuietInv, ReadInv, [Next]_vars PROVE ReadInv'
    OBVIOUS
  <1> USE DEF Base
  <1>1. ASSUME Running' /\ ~pass'.raced =>
                  /\ pass'.pc = pass.pc /\ ~pass.raced /\ pass'.origin = pass.origin /\ pass'.to = pass.to
                  /\ pass'.pages = pass.pages /\ pass'.facts = pass.facts /\ pass'.before = pass.before
                  /\ back' = back
        PROVE  ReadInv'
    BY <1>1 DEF ReadInv, Running, Self
  <1>2. ASSUME NEW a \in Passes, Begin(a) PROVE ReadInv'
    <2>1. pass'.pc = "tree" /\ pass'.pages = {"held", "denied"}
      BY <1>2, BeginIs
    <2> QED
      BY <2>1, Zenon DEF ReadInv
  <1>3. CASE ReadTree
    <2>1. /\ pass.pc = "tree" /\ pass'.pc = "read" /\ back' = back /\ pass'.raced = pass.raced
          /\ pass'.origin = pass.origin /\ pass'.pages = pass.pages /\ pass'.facts = pass.facts
      BY <1>3, ReadTreeIs DEF OnlyPass
    <2> QED
      BY <2>1, Zenon DEF ReadInv, Running
  <1>4. CASE ReadTables
    <2>1. /\ pass'.pc = "plan" /\ pass'.pages = {} /\ back' = back /\ pass.origin = "sql"
          /\ pass'.origin = pass.origin
          /\ pass'.facts.held = back.sql.held /\ pass'.facts.denied = back.sql.denied
      BY <1>4, ReadTablesIs DEF OnlyPass
    <2> QED
      BY <2>1, BackTypes DEF ReadInv
  <1>5. ASSUME NEW f \in {"held", "denied"}, ReadPage(f) PROVE ReadInv'
    <2>1. /\ pass.pc = "read" /\ pass.origin = "fga" /\ f \in pass.pages /\ back' = back
          /\ pass'.pc = (IF pass.pages = {f} THEN "plan" ELSE "read")
          /\ pass'.pages = pass.pages \ {f} /\ pass'.origin = pass.origin /\ pass'.raced = pass.raced
          /\ pass'.facts.held = (IF f = "held" THEN back.fga.held ELSE pass.facts.held)
          /\ pass'.facts.denied = (IF f = "denied" THEN back.fga.denied ELSE pass.facts.denied)
      BY <1>5, ReadPageIs DEF OnlyPass
    <2>2. SUFFICES ASSUME ~pass.raced PROVE ReadInv'
      BY <2>1 DEF ReadInv
    <2>3. /\ "held" \notin pass.pages => pass.facts.held = back.fga.held
          /\ "denied" \notin pass.pages => pass.facts.denied = back.fga.denied
      BY <2>1, <2>2, BackTypes DEF ReadInv, Running
    <2>4. pass'.pc = "plan" => pass'.pages = {}
      BY <2>1
    <2>5. /\ "held" \notin pass'.pages => pass'.facts.held = back.fga.held
          /\ "denied" \notin pass'.pages => pass'.facts.denied = back.fga.denied
      BY <2>1, <2>3
    <2> QED
      BY <2>1, <2>4, <2>5, BackTypes DEF ReadInv
  <1>6. CASE Plan
    <2>1. /\ pass.pc = "plan" /\ back' = back
          /\ \/ pass'.pc = "refused"
             \/ /\ pass'.pc = "apply" /\ pass'.to = pass.to /\ pass'.origin = pass.origin
                /\ pass'.before = Dest /\ pass'.facts = pass.facts /\ pass'.raced = pass.raced
      BY <1>6, PlanIs, Zenon DEF OnlyPass
    <2>2. SUFFICES ASSUME pass'.pc = "apply", ~pass'.raced PROVE ReadInv'
      BY <2>1 DEF ReadInv, Running
    <2>3. pass.facts.held = back[pass.origin].held /\ pass.facts.denied = back[pass.origin].denied
      BY <2>1, <2>2 DEF ReadInv, Running
    <2> QED
      BY <2>1, <2>2, <2>3 DEF ReadInv, Self, Dest
  <1>7. ASSUME NEW t \in pass.del, Delete(t) PROVE ReadInv'
    <2>1. /\ pass.pc = "apply" /\ pass'.pc = "apply" /\ pass'.to = pass.to /\ pass'.origin = pass.origin
          /\ pass'.facts = pass.facts /\ pass'.raced = pass.raced /\ pass'.before = pass.before
          /\ \A c \in Backend : c # pass.to => back'[c] = back[c]
      BY <1>7, DeleteIs
    <2>2. ~Self => back'[pass.origin] = back[pass.origin]
      BY <2>1, BackTypes DEF Self
    <2> QED
      BY <2>1, <2>2 DEF ReadInv, Running, Self
  <1>8. ASSUME NEW t \in pass.put, Write(t) PROVE ReadInv'
    <2>1. /\ pass.pc = "apply" /\ pass'.pc = "apply" /\ pass'.to = pass.to /\ pass'.origin = pass.origin
          /\ pass'.facts = pass.facts /\ pass'.raced = pass.raced /\ pass'.before = pass.before
          /\ \A c \in Backend : c # pass.to => back'[c] = back[c]
      BY <1>8, WriteIs
    <2>2. ~Self => back'[pass.origin] = back[pass.origin]
      BY <2>1, BackTypes DEF Self
    <2> QED
      BY <2>1, <2>2 DEF ReadInv, Running, Self
  <1>9. CASE Finish
    <2>1. pass'.pc = "done"
      BY <1>9, FinishIs
    <2> QED
      BY <2>1, <1>1 DEF Running
  <1>10. CASE Die
    <2>1. pass'.pc = "died"
      BY <1>10, DieIs
    <2> QED
      BY <2>1, <1>1 DEF Running
  <1>11. CASE Lapse
    <2>1. pass'.raced
      BY <1>11, LapseIs
    <2> QED
      BY <2>1, <1>1
  <1>12. ASSUME NEW op \in Ops, Call(op) PROVE ReadInv'
    <2>1. pass' = pass /\ back' = back
      BY <1>12 DEF Call
    <2> QED
      BY <2>1, <1>1
  <1>13. CASE CallRelay
    <2>1. pass' = pass /\ back' = back
      BY <1>13 DEF CallRelay
    <2> QED
      BY <2>1, <1>1
  <1>14. ASSUME NEW op \in flight, Land(op) PROVE ReadInv'
    <2>1. flight # {} /\ pass'.pc = pass.pc /\ pass'.raced = pass.raced
      BY <1>14, LandIs DEF Land
    <2>2. Running => pass.raced
      BY <2>1 DEF QuietInv
    <2> QED
      BY <1>1, <2>1, <2>2 DEF Running
  <1>15. CASE Relay
    <2>1. flight # {} /\ pass'.pc = pass.pc /\ pass'.raced = pass.raced
      BY <1>15 DEF Relay
    <2>2. Running => pass.raced
      BY <2>1 DEF QuietInv
    <2> QED
      BY <1>1, <2>1, <2>2 DEF Running
  <1>16. ASSUME NEW e \in Moves, Move(e) PROVE ReadInv'
    <2>1. /\ pass'.pc = pass.pc /\ (pass.raced => pass'.raced) /\ pass'.origin = pass.origin /\ pass'.to = pass.to
          /\ pass'.pages = pass.pages /\ pass'.facts = pass.facts /\ pass'.before = pass.before /\ back' = back
      BY <1>16, MoveIs
    <2> QED
      BY <2>1, <1>1
  <1>17. ASSUME NEW k \in Key, Cutover(k) PROVE ReadInv'
    <2>1. pass' = pass /\ back' = back
      BY <1>17 DEF Cutover
    <2> QED
      BY <2>1, <1>1
  <1>18. CASE Tick
    <2>1. pass' = pass /\ back' = back
      BY <1>18 DEF Tick
    <2> QED
      BY <2>1, <1>1
  <1>19. CASE UNCHANGED vars
    <2>1. pass' = pass /\ back' = back
      BY <1>19 DEF vars
    <2> QED
      BY <2>1, <1>1
  <1> QED
    BY <1>2, <1>3, <1>4, <1>5, <1>6, <1>7, <1>8, <1>9, <1>10, <1>11, <1>12, <1>13,
       <1>14, <1>15, <1>16, <1>17, <1>18, <1>19 DEF Next, PassStep

-----------------------------------------------------------------------------
(* A maintenance pass opens nothing.                                       *)

Sight == Inv /\ Aimed /\ RootInv /\ ReadInv

LEMMA SightInit == Init => Sight
  <1> SUFFICES ASSUME Init PROVE Sight
    OBVIOUS
  <1>1. Inv
    BY InvInit
  <1>2. back \in Starts /\ queue = <<>> /\ pass.pc = "idle"
    BY DEF Init, NoPass
  <1>3. \A e \in back.fga.parent : e[1] # Root
    BY <1>2, ReconcileAssumption
  <1>4. ~Running
    BY <1>2 DEF Running
  <1> QED
    BY <1>1, <1>2, <1>3, <1>4 DEF Sight, Aimed, RootInv, Free, ReadInv

LEMMA SightNext == Sight /\ [Next]_vars => Sight'
  BY InvNext, AimedNext, RootNext, ReadNext DEF Sight, Inv, Base

LEMMA SightAlways == Spec => []Sight
  BY SightInit, SightNext, PTL DEF Spec

\* What a pass over its own store wants of the facts is among what there was.
LEMMA SelfWants ==
  ASSUME Sight, pass.pc = "apply", Self, ~pass.raced
  PROVE  /\ pass.to = "fga" /\ pass.want.parent = pass.edges
         /\ \A k \in HeldKey : pass.want.held[k] # Absent => pass.want.held[k] = pass.before.held[k]
         /\ pass.want.denied \subseteq pass.before.denied
  <1>1. TypeOK /\ pass.want = WantOf(pass.facts)
    BY DEF Sight, Inv, Base, PlanInv, Wanted
  <1>2. pass.to = "fga" /\ pass.facts.held = pass.before.held /\ pass.facts.denied = pass.before.denied
    BY DEF Sight, Aimed, ReadInv, Running
  <1>3. pass.facts \in Store
    BY <1>1, BackTypes, PassTypes
  <1> DEFINE ks == Assignable(pass.facts, pass.edges, pass.now)
  <1>4. /\ pass.want.parent = pass.edges /\ pass.want.denied = Deniable(pass.facts, pass.edges)
        /\ pass.want.held = [k \in HeldKey |-> IF k \in ks THEN pass.facts.held[k] ELSE Absent]
    BY <1>1, <1>2, <1>3, WantedStoreIs
  <1>5. Deniable(pass.facts, pass.edges) \subseteq pass.facts.denied
    BY DEF Deniable
  <1> HIDE DEF ks
  <1> QED
    BY <1>2, <1>4, <1>5

\* While a pass applies its plan, what it was asked and what it read stays.
LEMMA ApplyKeeps ==
  ASSUME TypeOK, [Next]_vars, pass.pc = "apply", pass'.pc = "apply"
  PROVE  /\ pass'.to = pass.to /\ pass'.origin = pass.origin /\ pass'.prune = pass.prune
         /\ pass'.before = pass.before /\ pass'.want = pass.want /\ pass'.edges = pass.edges
         /\ (pass.raced => pass'.raced)
  <1> DEFINE Keep == /\ pass'.to = pass.to /\ pass'.origin = pass.origin /\ pass'.prune = pass.prune
                     /\ pass'.before = pass.before /\ pass'.want = pass.want /\ pass'.edges = pass.edges
                     /\ (pass.raced => pass'.raced)
  <1>1. \A a \in Passes : ~Begin(a)
    BY DEF Begin, Running
  <1>2. ~ReadTree /\ ~ReadTables /\ (\A f \in {"held", "denied"} : ~ReadPage(f)) /\ ~Plan
    BY DEF ReadTree, ReadTables, ReadPage, Plan
  <1>3. ASSUME NEW t \in pass.del, Delete(t) PROVE Keep
    BY <1>3, DeleteIs
  <1>4. ASSUME NEW t \in pass.put, Write(t) PROVE Keep
    BY <1>4, WriteIs
  <1>5. ~Finish /\ ~Die
    BY FinishIs, DieIs
  <1>6. Lapse => Keep
    BY LapseIs
  <1>7. CallRelay \/ Tick \/ Relay \/ UNCHANGED vars \/ (\E op \in Ops : Call(op)) \/ (\E k \in Key : Cutover(k))
           => Keep
    BY DEF Call, CallRelay, Cutover, Tick, Relay, vars
  <1>8. ASSUME NEW op \in flight, Land(op) PROVE Keep
    BY <1>8, LandIs
  <1>9. ASSUME NEW e \in Moves, Move(e) PROVE Keep
    BY <1>9, MoveIs
  <1> HIDE DEF Keep
  <1>10. Keep
    BY <1>1, <1>2, <1>3, <1>4, <1>5, <1>6, <1>7, <1>8, <1>9 DEF Next, PassStep
  <1> QED
    BY <1>10 DEF Keep

LEMMA HalfOpens ==
  ASSUME Sight, Sight', [Next]_vars, pass.pc = "apply", pass'.pc = "apply", Self, ~pass.prune, ~pass'.raced,
         \A d, e \in pass.before.parent : d[1] = e[1] => d = e
  PROVE  Answers(back'.fga, clock)
            \subseteq Answers(pass.before, clock) \cup Answers(Goal(back'.fga, pass'), clock)
  <1>1. /\ pass'.to = pass.to /\ pass'.origin = pass.origin /\ pass'.prune = pass.prune
        /\ pass'.before = pass.before /\ pass'.want = pass.want /\ pass'.edges = pass.edges
        /\ (pass.raced => pass'.raced)
    BY ApplyKeeps DEF Sight, Inv, Base
  <1>2. ~pass.raced /\ TypeOK /\ TypeOK'
    BY <1>1 DEF Sight, Inv, Base
  <1>3. /\ pass.to = "fga" /\ pass.want.parent = pass.edges
        /\ \A k \in HeldKey : pass.want.held[k] # Absent => pass.want.held[k] = pass.before.held[k]
        /\ pass.want.denied \subseteq pass.before.denied
    BY <1>2, SelfWants
  <1>4. Half(pass', back'.fga)
    BY <1>1, <1>3 DEF Sight, Inv, PlanInv, Alone, Dest
  <1>5. pass' \in Pass /\ back'.fga \in Store
    BY <1>2 DEF TypeOK, Backend
  <1>6. /\ \A e \in pass.before.parent : e[1] # Root
        /\ \A e \in pass.edges : e[1] # Root
        /\ \A d, e \in pass.edges : d[1] = e[1] => d = e
    BY <1>3 DEF Sight, RootInv, Free, OneParent
  <1>7. \A d, e \in pass'.before.parent : d[1] = e[1] => d = e
    BY <1>1
  <1>8. pass'.to = "fga" /\ ~pass'.prune
    BY <1>1, <1>3
  <1>9. /\ \A e \in pass'.before.parent : e[1] # Root
        /\ \A e \in pass'.want.parent : e[1] # Root
        /\ \A d, e \in pass'.want.parent : d[1] = e[1] => d = e
        /\ \A k \in HeldKey : pass'.want.held[k] # Absent => pass'.want.held[k] = pass'.before.held[k]
        /\ pass'.want.denied \subseteq pass'.before.denied
    BY <1>1, <1>3, <1>6
  <1>10. Answers(back'.fga, clock)
            \subseteq Answers(pass'.before, clock) \cup Answers(Goal(back'.fga, pass'), clock)
    BY <1>4, <1>5, <1>7, <1>8, <1>9, HalfAnswers
  <1> QED
    BY <1>1, <1>10

\* A store in which no scope has two parents.
LEMMA OneParentIs ==
  ASSUME NEW x \in Store, \A s \in Scope : Cardinality(Parents(x, s)) <= 1
  PROVE  \A d, e \in x.parent : d[1] = e[1] => d = e
  <1> SUFFICES ASSUME NEW d \in x.parent, NEW e \in x.parent, d[1] = e[1] PROVE d = e
    OBVIOUS
  <1> DEFINE P == Parents(x, d[1])
  <1>1. x.parent \in SUBSET (Scope \X Scope)
    BY DEF Store
  <1>2. d[1] \in Scope /\ d[2] \in P /\ e[2] \in P /\ P \subseteq Scope
    BY <1>1 DEF Parents
  <1>3. IsFiniteSet(P) /\ Cardinality(P) <= 1
    BY <1>2, FS_Subset, ReconcileAssumption
  <1>4. P = {} \/ \E m : P = {m}
    <2>1. Cardinality(P) \in Nat
      BY <1>3, FS_CardinalityType
    <2>2. Cardinality(P) = 0 \/ Cardinality(P) = 1
      BY <1>3, <2>1
    <2> QED
      BY <1>3, <2>2, FS_EmptySet, FS_Singleton
  <1>5. d[2] = e[2]
    BY <1>2, <1>4
  <1> QED
    BY <1>1, <1>5

LEMMA Opens ==
  ASSUME Sight, Sight', [Next]_vars, pass.pc = "apply", Self, ~pass.prune, ~pass'.raced,
         \A s \in Scope : Cardinality(Parents(pass.before, s)) <= 1
  PROVE  Answers(back'.fga, clock)
            \subseteq Answers(pass.before, clock) \cup Answers(Goal(back'.fga, pass'), clock)
  <1>1. TypeOK /\ TypeOK' /\ pass.before \in Store
    BY BackTypes, PassTypes DEF Sight, Inv, Base
  <1>2. CASE pass'.pc = "apply"
    BY <1>1, <1>2, OneParentIs, HalfOpens
  <1>3. CASE pass'.pc # "apply"
    <2>1. Finish \/ Die
      BY <1>1, <1>3, OverOnly
    <2>2. pass'.del = {} /\ pass'.put = {}
      BY <2>1 DEF Finish, Die, NoPass
    <2>3. pass' \in Pass /\ back'.fga \in Store
      BY <1>1 DEF TypeOK, Backend
    <2> QED
      BY <2>2, <2>3, GoalDone
  <1> QED
    BY <1>2, <1>3

\* A maintenance pass over the store that is answering (authz:reconcile with no --from) says
\* yes, at each of its steps and at its end, to nothing that neither the store before the pass
\* nor the one it leaves does.  What goes goes first: until something is written the store has
\* less than it had, and once nothing is left to delete it has less than it will have.
THEOREM MaintenanceOpensNothing == Spec => MaintenanceNeverOpens
  <1>1. Sight /\ Sight' /\ [Next]_vars =>
          (pass.pc = "apply" /\ Self /\ ~pass.prune /\ ~pass'.raced
              /\ (\A s \in Scope : Cardinality(Parents(pass.before, s)) <= 1)
           => Answers(back'.fga, clock) \subseteq
                 Answers(pass.before, clock) \cup Answers(Goal(back'.fga, pass'), clock))
    BY Opens
  <1> QED
    BY <1>1, SightAlways, PTL DEF Spec, MaintenanceNeverOpens

-----------------------------------------------------------------------------
(* A migration is faithful: what a pass wants depends on the facts alone.  *)

LEMMA WantedSame ==
  ASSUME NEW y, NEW z, NEW w, NEW u \in Store, NEW v \in Store, NEW E, NEW now,
         WantedOf(y, w, u, E, now), WantedOf(z, w, v, E, now),
         Assignable(u, E, now) = Assignable(v, E, now),
         \A k \in Assignable(u, E, now) : u.held[k] = v.held[k],
         Deniable(u, E) = Deniable(v, E)
  PROVE  y = z
  <1> DEFINE ks == Assignable(u, E, now)
             js == Assignable(v, E, now)
  <1>1. /\ y \in Store /\ y.parent = w.parent /\ y.permits = w.permits /\ y.rooted = w.rooted
        /\ y.role = {k[2] : k \in ks} /\ y.binding = {pl \in y.role : Seen(pl, E)}
        /\ y.held = [k \in HeldKey |-> IF k \in ks THEN u.held[k] ELSE Absent]
        /\ y.denied = Deniable(u, E)
    BY Zenon DEF WantedOf
  <1>2. /\ z \in Store /\ z.parent = w.parent /\ z.permits = w.permits /\ z.rooted = w.rooted
        /\ z.role = {k[2] : k \in js} /\ z.binding = {pl \in z.role : Seen(pl, E)}
        /\ z.held = [k \in HeldKey |-> IF k \in js THEN v.held[k] ELSE Absent]
        /\ z.denied = Deniable(v, E)
    BY Zenon DEF WantedOf
  <1>3. ks = js /\ \A k \in ks : u.held[k] = v.held[k]
    OBVIOUS
  <1> HIDE DEF ks, js
  <1>4. y.role = z.role
    BY <1>1, <1>2, <1>3
  <1>5. y.binding = z.binding
    BY <1>1, <1>2, <1>4
  <1>6. y.held = z.held
    BY <1>1, <1>2, <1>3
  <1>7. /\ y \in Store /\ z \in Store /\ y.parent = z.parent /\ y.permits = z.permits
        /\ y.rooted = z.rooted /\ y.denied = z.denied
    BY <1>1, <1>2, Zenon
  <1> QED
    BY <1>4, <1>5, <1>6, <1>7, StoreEq, Zenon

LEMMA TablesSame ==
  ASSUME NEW w \in Store, NEW u \in Store, NEW v \in Store, NEW E, NEW now,
         u.held = v.held, u.denied = v.denied
  PROVE  WantTables(w, u, E, now) = WantTables(w, v, E, now)
  <1> DEFINE y == WantTables(w, u, E, now)
             z == WantTables(w, v, E, now)
             T(x) == {<<d[1], Canon[d[2]], d[3]>> : d \in {d \in x.denied : Resolves(E, Canon[d[2]])}}
             R(x, k) == {x.held[j] : j \in RowOf(x, E, now, k)}
  <1>1. TablesOf(y, w, u, E, now) /\ TablesOf(z, w, v, E, now)
    BY WantTablesFields
  <1> HIDE DEF y, z
  <1>2. /\ y \in Store
        /\ y.parent = w.parent /\ y.permits = w.permits /\ y.rooted = w.rooted
        /\ y.role = w.role /\ y.binding = w.binding
        /\ y.held = [k \in HeldKey |-> IF RowOf(u, E, now, k) = {} THEN Absent ELSE Fold(R(u, k))]
        /\ y.denied = T(u)
    BY <1>1, Zenon DEF TablesOf
  <1>3. /\ z \in Store
        /\ z.parent = w.parent /\ z.permits = w.permits /\ z.rooted = w.rooted
        /\ z.role = w.role /\ z.binding = w.binding
        /\ z.held = [k \in HeldKey |-> IF RowOf(v, E, now, k) = {} THEN Absent ELSE Fold(R(v, k))]
        /\ z.denied = T(v)
    BY <1>1, Zenon DEF TablesOf
  <1>4. T(u) = T(v)
    OBVIOUS
  <1>5. DOMAIN u.held = DOMAIN v.held
    OBVIOUS
  <1>6. \A k : RowOf(u, E, now, k) = RowOf(v, E, now, k)
    BY DEF RowOf, Usables
  <1>7. \A k : R(u, k) = R(v, k)
    BY <1>6
  <1> HIDE DEF T, R
  <1>8. y.held = z.held
    BY <1>2, <1>3, <1>6, <1>7
  <1>9. y = z
    BY <1>2, <1>3, <1>4, <1>8, StoreEq
  <1> QED
    BY <1>9 DEF y, z

LEMMA WantSame ==
  ASSUME TypeOK, NEW u \in Store, NEW v \in Store, u.held = v.held, u.denied = v.denied
  PROVE  WantOf(u) = WantOf(v)
  <1> DEFINE w == Derived(pass.edges)
             E == pass.edges
             now == pass.now
  <1>1. w \in Store /\ Bare \in Store
    BY PassTypes, DerivedFields, BareType DEF TypeOK
  <1> HIDE DEF w, E, now
  <1>2. Assignable(u, E, now) = Assignable(v, E, now) /\ Deniable(u, E) = Deniable(v, E)
    BY DEF Assignable, Deniable
  <1>3. WantStore(w, u, E, now) = WantStore(w, v, E, now)
    <2>1. WantedOf(WantStore(w, u, E, now), w, u, E, now) /\ WantedOf(WantStore(w, v, E, now), w, v, E, now)
      BY <1>1, WantStoreFields
    <2> QED
      BY <1>2, <2>1, WantedSame
  <1>4. WantTables(Bare, u, E, now) = WantTables(Bare, v, E, now)
    BY <1>1, TablesSame
  <1> QED
    BY <1>3, <1>4 DEF WantOf, w, E, now

\* With --prune a pass that is done leaves exactly what it wanted.
LEMMA DoneWhole ==
  ASSUME NEW p \in Pass, NEW x \in Store, Half(p, x), p.del = {}, p.put = {}, p.prune
  PROVE  x = p.want
  <1> DEFINE w == p.want
  <1>1. w \in Store
    BY PassTypes
  <1>2. \A t \in Tuple : t \in Tuples(x) <=> t \in Tuples(w)
    BY DoneIs
  <1>3. Tuples(x) \in SUBSET Tuple /\ Tuples(w) \in SUBSET Tuple
    BY <1>1, TuplesOf
  <1>4. \A k \in HeldKey : x.held[k] # Absent /\ w.held[k] # Absent => x.held[k] = w.held[k]
    BY DoneHeld
  <1> HIDE DEF w
  <1>5. Tuples(x) = Tuples(w)
    BY <1>2, <1>3
  <1>6. /\ x.parent = w.parent /\ x.binding = w.binding /\ x.role = w.role /\ x.denied = w.denied
        /\ x.permits = w.permits /\ (x.rooted <=> w.rooted)
        /\ \A k \in HeldKey : x.held[k] # Absent <=> w.held[k] # Absent
    <2>1. x.parent = w.parent /\ x.binding = w.binding /\ x.role = w.role
      BY <1>1, <1>5, TuplesOf
    <2>2. x.denied = w.denied /\ x.permits = w.permits
      BY <1>1, <1>5, TuplesOf
    <2>3. x.rooted <=> w.rooted
      BY <1>1, <1>5, TuplesOf
    <2>4. \A k \in HeldKey : x.held[k] # Absent <=> w.held[k] # Absent
      BY <1>1, <1>5, TuplesOf
    <2> QED
      BY <2>1, <2>2, <2>3, <2>4
  <1>7. \A k \in HeldKey : x.held[k] = w.held[k]
    BY <1>4, <1>6
  <1>8. x.held = w.held
    <2>1. x.held \in [HeldKey -> Expiry \cup {Absent}] /\ w.held \in [HeldKey -> Expiry \cup {Absent}]
      BY <1>1 DEF Store, HeldKey
    <2> QED
      BY <1>7, <2>1
  <1>9. x.rooted = w.rooted
    BY <1>1, <1>6 DEF Store
  <1>10. x = w
    BY <1>1, <1>6, <1>8, <1>9, StoreEq
  <1> QED
    BY <1>10 DEF w

-----------------------------------------------------------------------------
(* The instants that the tables were in while a pass read them.            *)

\* The facts of a pass over the tables are those of some instant since it began.
WereInv ==
    /\ pass.now <= clock
    /\ pass.origin = "sql" =>
          /\ pass.pc \in {"tree", "read"} => back.sql \in pass.were /\ pass.pages # {}
          /\ pass.pc \in {"plan", "apply"} =>
                \E x \in pass.were : pass.facts.held = x.held /\ pass.facts.denied = x.denied

LEMMA WereNext == Base /\ WereInv /\ [Next]_vars => WereInv'
  <1> SUFFICES ASSUME Base, WereInv, [Next]_vars PROVE WereInv'
    OBVIOUS
  <1> USE DEF Base
  <1>0. pass.now \in Nat /\ clock \in Nat /\ pass.now <= clock
    BY PassTypes DEF TypeOK, WereInv
  <1>1. ASSUME pass'.now = pass.now, clock' >= clock, clock' \in Nat,
               pass'.pc \in {"tree", "read", "plan", "apply"} =>
                  /\ pass'.pc = pass.pc /\ pass'.origin = pass.origin
                  /\ pass'.pages = pass.pages /\ pass'.facts = pass.facts /\ pass'.were = pass.were
                  /\ back'.sql = back.sql \/ pass.pc = "apply"
        PROVE  WereInv'
    <2>1. pass'.now <= clock'
      BY <1>0, <1>1
    <2> QED
      BY <1>1, <2>1 DEF WereInv
  <1>2. ASSUME pass'.pc \in {"done", "refused", "died"}, clock' = clock, pass'.now = 0
        PROVE  WereInv'
    BY <1>0, <1>2 DEF WereInv
  <1>3. ASSUME NEW a \in Passes, Begin(a) PROVE WereInv'
    <2>1. /\ pass'.pc = "tree" /\ pass'.now = clock /\ pass'.pages = {"held", "denied"}
          /\ pass'.were = (IF pass'.origin = "sql" THEN {back.sql} ELSE {})
          /\ back' = back /\ clock' = clock
      BY <1>3, BeginIs
    <2>2. pass'.origin = "sql" => back'.sql \in pass'.were /\ pass'.pages # {}
      BY <2>1
    <2> QED
      BY <1>0, <2>1, <2>2 DEF WereInv
  <1>4. CASE ReadTree
    <2>1. /\ pass.pc = "tree" /\ pass'.pc = "read" /\ pass'.origin = pass.origin
          /\ pass'.now = pass.now /\ clock' = clock /\ back' = back
          /\ pass'.pages = pass.pages /\ pass'.were = pass.were
      BY <1>4, ReadTreeIs DEF OnlyPass
    <2> QED
      BY <2>1 DEF WereInv
  <1>5. CASE ReadTables
    <2>1. /\ pass.pc = "read" /\ pass.origin = "sql" /\ pass'.pc = "plan"
          /\ pass'.now = pass.now /\ clock' = clock
          /\ pass'.facts.held = back.sql.held /\ pass'.facts.denied = back.sql.denied
          /\ pass'.were = pass.were
      BY <1>5, ReadTablesIs DEF OnlyPass
    <2>2. back.sql \in pass.were
      BY <2>1 DEF WereInv
    <2> QED
      BY <1>0, <2>1, <2>2 DEF WereInv
  <1>6. ASSUME NEW f \in {"held", "denied"}, ReadPage(f) PROVE WereInv'
    <2>1. /\ pass.origin = "fga" /\ pass'.origin = pass.origin /\ pass'.now = pass.now /\ clock' = clock
      BY <1>6, ReadPageIs DEF OnlyPass
    <2> QED
      BY <1>0, <2>1 DEF WereInv
  <1>7. CASE Plan
    <2>1. /\ pass.pc = "plan" /\ clock' = clock
          /\ \/ pass' = [NoPass EXCEPT !.pc = "refused"]
             \/ /\ pass'.pc = "apply" /\ pass'.origin = pass.origin /\ pass'.now = pass.now
                /\ pass'.facts = pass.facts /\ pass'.were = pass.were
      BY <1>7, PlanIs, Zenon DEF OnlyPass, Plan
    <2>2. CASE pass' = [NoPass EXCEPT !.pc = "refused"]
      <3>1. pass'.pc = "refused" /\ pass'.now = 0
        BY <2>2 DEF NoPass
      <3> QED
        BY <1>2, <2>1, <3>1
    <2>3. CASE /\ pass'.pc = "apply" /\ pass'.origin = pass.origin /\ pass'.now = pass.now
               /\ pass'.facts = pass.facts /\ pass'.were = pass.were
      BY <2>1, <2>3 DEF WereInv
    <2> QED
      BY <2>1, <2>2, <2>3
  <1>8. ASSUME NEW t \in pass.del, Delete(t) PROVE WereInv'
    <2>1. /\ pass.pc = "apply" /\ pass'.pc = "apply" /\ pass'.origin = pass.origin
          /\ pass'.now = pass.now /\ clock' = clock
          /\ pass'.pages = pass.pages /\ pass'.facts = pass.facts /\ pass'.were = pass.were
      BY <1>8, DeleteIs
    <2> QED
      BY <1>0, <1>1, <2>1
  <1>9. ASSUME NEW t \in pass.put, Write(t) PROVE WereInv'
    <2>1. /\ pass.pc = "apply" /\ pass'.pc = "apply" /\ pass'.origin = pass.origin
          /\ pass'.now = pass.now /\ clock' = clock
          /\ pass'.pages = pass.pages /\ pass'.facts = pass.facts /\ pass'.were = pass.were
      BY <1>9, WriteIs
    <2> QED
      BY <1>0, <1>1, <2>1
  <1>10. CASE Finish
    <2>1. pass' = [NoPass EXCEPT !.pc = "done"] /\ clock' = clock
      BY <1>10, FinishIs
    <2>2. pass'.pc = "done" /\ pass'.now = 0
      BY <2>1 DEF NoPass
    <2> QED
      BY <1>2, <2>1, <2>2
  <1>11. CASE Die
    <2>1. pass' = [NoPass EXCEPT !.pc = "died"] /\ clock' = clock
      BY <1>11, DieIs
    <2>2. pass'.pc = "died" /\ pass'.now = 0
      BY <2>1 DEF NoPass
    <2> QED
      BY <1>2, <2>1, <2>2
  <1>12. CASE Lapse
    <2>1. /\ pass'.pc = pass.pc /\ pass'.origin = pass.origin /\ pass'.now = pass.now /\ clock' = clock
          /\ pass'.pages = pass.pages /\ pass'.facts = pass.facts /\ pass'.were = pass.were /\ back' = back
      BY <1>12, LapseIs
    <2> QED
      BY <1>0, <1>1, <2>1
  <1>13. ASSUME NEW op \in Ops, Call(op) PROVE WereInv'
    <2>1. pass' = pass /\ back' = back /\ clock' = clock
      BY <1>13 DEF Call
    <2> QED
      BY <2>1, <1>0, <1>1
  <1>14. CASE CallRelay
    <2>1. pass' = pass /\ back' = back /\ clock' = clock
      BY <1>14 DEF CallRelay
    <2> QED
      BY <2>1, <1>0, <1>1
  <1>15. ASSUME NEW op \in flight, Land(op) PROVE WereInv'
    <2>1. /\ pass'.were = (IF Running /\ pass.pages # {} /\ pass.origin = "sql"
                           THEN pass.were \cup {back'.sql} ELSE pass.were)
          /\ pass'.pc = pass.pc /\ pass'.origin = pass.origin /\ pass'.now = pass.now /\ clock' = clock
          /\ pass'.pages = pass.pages /\ pass'.facts = pass.facts
      BY <1>15, LandIs
    <2>2. pass.were \subseteq pass'.were
      BY <2>1
    <2>3. pass.pc \in {"tree", "read"} /\ pass.origin = "sql" => back'.sql \in pass'.were /\ pass.pages # {}
      BY <2>1 DEF WereInv, Running
    <2> QED
      BY <2>1, <2>2, <2>3 DEF WereInv
  <1>16. CASE Relay
    <2>1. queue # <<>> /\ pass' = pass /\ clock' = clock
      BY <1>16 DEF Relay, FlightTold
    <2>2. back'.sql = back.sql
      BY <1>16, <2>1, RelayIs
    <2> QED
      BY <1>0, <1>1, <2>1, <2>2
  <1>17. ASSUME NEW e \in Moves, Move(e) PROVE WereInv'
    <2>1. /\ pass'.pc = pass.pc /\ pass'.origin = pass.origin /\ pass'.now = pass.now /\ clock' = clock
          /\ pass'.pages = pass.pages /\ pass'.facts = pass.facts /\ pass'.were = pass.were /\ back' = back
      BY <1>17, MoveIs
    <2> QED
      BY <1>0, <1>1, <2>1
  <1>18. ASSUME NEW k \in Key, Cutover(k) PROVE WereInv'
    <2>1. pass' = pass /\ back' = back /\ clock' = clock
      BY <1>18 DEF Cutover
    <2> QED
      BY <2>1, <1>0, <1>1
  <1>19. CASE Tick
    <2>1. pass' = pass /\ back' = back /\ clock' = clock + 1
      BY <1>19 DEF Tick
    <2> QED
      BY <2>1, <1>0, <1>1
  <1>20. CASE UNCHANGED vars
    <2>1. pass' = pass /\ back' = back /\ clock' = clock
      BY <1>20 DEF vars
    <2> QED
      BY <2>1, <1>0, <1>1
  <1> QED
    BY <1>3, <1>4, <1>5, <1>6, <1>7, <1>8, <1>9, <1>10, <1>11, <1>12, <1>13, <1>14,
       <1>15, <1>16, <1>17, <1>18, <1>19, <1>20 DEF Next, PassStep

\* While a scope resolves the consumer took it for itself.
LEMMA CanonAbove ==
  ASSUME TypeOK, TreeInv, NEW s \in Scope, Root \in Reach(tree, s)
  PROVE  Canon[s] = s
  <1>1. CASE s = Root
    BY <1>1, ReconcileAssumption
  <1>2. CASE s # Root
    <2>1. PICK e \in tree : e[1] = s
      BY <1>2, ReachStuck
    <2> QED
      BY <2>1 DEF TreeInv
  <1> QED
    BY <1>1, <1>2

\* A store that has what it should of the facts of the tables, over the tree that the consumer
\* has, answers as they do.
LEMMA StoreAnswers ==
  ASSUME TypeOK, TreeInv, NEW x \in Store, NEW f \in Store, f.held = x.held, f.denied = x.denied,
         NEW now \in Nat, now <= clock, NEW y \in Store,
         WantedOf(y, Derived(SourceTree(tree)), f, SourceTree(tree), now)
  PROVE  Answers(y, clock) = {q \in SqlAnswers(x) : q[2] \in Published /\ Canon[q[3]] = q[3]}
  <1> DEFINE F == SourceTree(tree)
             ks == Assignable(f, F, now)
  <1>1. tree \in SUBSET (Scope \X Scope) /\ F \in SUBSET (Scope \X Scope) /\ clock \in Nat
        /\ (\A d, e \in tree : d[1] = e[1] => d = e) /\ (\A e \in tree : e[1] # Root)
    BY DEF TypeOK, TreeInv, SourceTree
  <1> HIDE DEF F
  <1>2. /\ y.parent = F /\ y.rooted
        /\ \A r \in Role, p \in Perm :
              <<r, p>> \in y.permits <=> r \in Known /\ p \in Catalog[r].perms \cap Published
        /\ y.role = {k[2] : k \in ks}
        /\ y.binding = {pl \in y.role : Seen(pl, F)}
        /\ y.held = [k \in HeldKey |-> IF k \in ks THEN f.held[k] ELSE Absent]
        /\ y.denied = Deniable(f, F)
    <2> DEFINE w == Derived(F)
    <2>1. /\ w.parent = F /\ w.rooted
          /\ \A r \in Role, p \in Perm :
                <<r, p>> \in w.permits <=> r \in Known /\ p \in Catalog[r].perms \cap Published
      BY <1>1, DerivedFields
    <2> HIDE DEF w
    <2>2. WantedOf(y, w, f, F, now)
      BY DEF w, F
    <2>3. /\ y.parent = w.parent /\ y.permits = w.permits /\ y.rooted = w.rooted
          /\ y.role = {k[2] : k \in ks}
          /\ y.binding = {pl \in y.role : Seen(pl, F)}
          /\ y.held = [k \in HeldKey |-> IF k \in ks THEN f.held[k] ELSE Absent]
          /\ y.denied = Deniable(f, F)
      BY <2>2, Zenon DEF WantedOf
    <2> HIDE DEF ks
    <2> QED
      BY <2>1, <2>3
  <1>3. \A s \in Scope : /\ Root \in Reach(F, s) <=> Root \in Reach(tree, s)
                         /\ Root \in Reach(tree, s) => Reach(F, s) = Reach(tree, s)
    BY <1>1, ChainWhole DEF F
  <1>4. ASSUME NEW s \in Scope, Root \in Reach(tree, s), NEW c \in Reach(tree, s)
        PROVE  c \in Scope /\ Root \in Reach(F, c) /\ Reach(F, c) = Reach(tree, c)
    <2>1. c \in Scope
      BY ReachScope
    <2>2. Root \in Reach(tree, c)
      BY <1>1, <1>4, RootAbove
    <2> QED
      BY <1>3, <2>1, <2>2
  <1>5. \A k \in HeldKey : k \in ks <=>
           /\ x.held[k] # Absent /\ Live(x.held[k], now)
           /\ Root \in Reach(F, k[2][1]) /\ k[2][2] \in Known
    BY DEF Assignable, Resolves, Store, HeldKey
  <1>6. \A d \in DenyKey : d \in y.denied <=> d \in x.denied /\ d[3] \in Published /\ Root \in Reach(F, d[2])
    BY <1>2 DEF Deniable, Resolves
  <1>7. \A e \in Expiry : Live(e, clock) => Live(e, now)
    BY <1>1 DEF Live, Expiry, Forever
  <1>8. ASSUME NEW h \in Holder, NEW p \in Perm, NEW s \in Scope, Root \in Reach(tree, s)
        PROVE  Denied(y, h, p, s) <=> p \in Published /\ \E c \in Reach(tree, s) : <<h, c, p>> \in x.denied
    <2>1. Up(y, s) = Reach(tree, s)
      BY <1>2, <1>3, <1>8 DEF Up
    <2>2. ASSUME NEW c \in Reach(tree, s)
          PROVE  <<h, c, p>> \in y.denied <=> p \in Published /\ <<h, c, p>> \in x.denied
      <3>1. c \in Scope /\ Root \in Reach(F, c)
        BY <1>4, <1>8
      <3>2. <<h, c, p>> \in DenyKey
        BY <3>1 DEF DenyKey
      <3> QED
        BY <1>6, <3>1, <3>2
    <2> QED
      BY <2>1, <2>2 DEF Denied
  <1>9. ASSUME NEW h \in Holder, NEW p \in Perm, NEW s \in Scope, Root \in Reach(tree, s)
        PROVE  Granted(y, h, p, s, clock) <=>
                  /\ p \in Published
                  /\ \E pl \in Place :
                        /\ pl[1] \in Reach(tree, s) /\ pl[2] \in Known /\ p \in Catalog[pl[2]].perms
                        /\ Seen(pl, tree)
                        /\ x.held[<<h, pl>>] # Absent /\ Live(x.held[<<h, pl>>], clock)
    <2>1. Up(y, s) = Reach(tree, s)
      BY <1>2, <1>3, <1>9 DEF Up
    <2>2. ASSUME NEW pl \in Place, pl[1] \in Reach(tree, s)
          PROVE  /\ Seen(pl, F) <=> Seen(pl, tree)
                 /\ Root \in Reach(F, pl[1]) /\ pl[2] \in Role
                 /\ <<h, pl>> \in HeldKey /\ <<h, pl>>[2] = pl
      <3>1. Root \in Reach(F, pl[1]) /\ Reach(F, pl[1]) = Reach(tree, pl[1])
        BY <1>4, <1>9, <2>2
      <3>2. pl[2] \in Role /\ <<h, pl>> \in HeldKey /\ <<h, pl>>[2] = pl
        BY DEF HeldKey, Place
      <3> QED
        BY <3>1, <3>2 DEF Seen
    <2>3. ASSUME NEW pl \in y.binding, pl[1] \in Up(y, s), Carries(y, h, p, pl, clock)
          PROVE  /\ p \in Published /\ pl \in Place
                 /\ pl[1] \in Reach(tree, s) /\ pl[2] \in Known /\ p \in Catalog[pl[2]].perms
                 /\ Seen(pl, tree)
                 /\ x.held[<<h, pl>>] # Absent /\ Live(x.held[<<h, pl>>], clock)
      <3>1. pl \in Place
        BY DEF Store
      <3>2. /\ Seen(pl, F) <=> Seen(pl, tree)
            /\ pl[2] \in Role /\ <<h, pl>> \in HeldKey
        BY <2>1, <2>2, <2>3, <3>1
      <3>3. y.held[<<h, pl>>] # Absent /\ Live(y.held[<<h, pl>>], clock) /\ <<pl[2], p>> \in y.permits
        BY <2>3 DEF Carries
      <3>4. <<h, pl>> \in ks /\ y.held[<<h, pl>>] = x.held[<<h, pl>>]
        BY <1>2, <3>2, <3>3
      <3>5. Seen(pl, F)
        BY <1>2
      <3>6. pl[2] \in Known /\ p \in Catalog[pl[2]].perms /\ p \in Published
        BY <1>2, <3>2, <3>3
      <3> QED
        BY <2>1, <2>3, <3>1, <3>2, <3>3, <3>4, <3>5, <3>6
    <2>4. ASSUME NEW pl \in Place, p \in Published,
                 pl[1] \in Reach(tree, s), pl[2] \in Known, p \in Catalog[pl[2]].perms, Seen(pl, tree),
                 x.held[<<h, pl>>] # Absent, Live(x.held[<<h, pl>>], clock)
          PROVE  pl \in y.binding /\ pl[1] \in Up(y, s) /\ Carries(y, h, p, pl, clock)
      <3>1. /\ Seen(pl, F) /\ Root \in Reach(F, pl[1]) /\ pl[2] \in Role
            /\ <<h, pl>> \in HeldKey /\ <<h, pl>>[2] = pl
        BY <2>2, <2>4
      <3>2. x.held[<<h, pl>>] \in Expiry
        BY <2>4, <3>1 DEF Store, HeldKey
      <3>3. <<h, pl>> \in ks
        BY <1>5, <1>7, <2>4, <3>1, <3>2
      <3>4. pl \in y.role /\ y.held[<<h, pl>>] = x.held[<<h, pl>>]
        <4> HIDE DEF ks
        <4> QED
          BY <1>2, <3>1, <3>3
      <3>5. pl \in y.binding
        BY <1>2, <3>1, <3>4
      <3>6. <<pl[2], p>> \in y.permits
        BY <1>2, <2>4, <3>1
      <3> QED
        BY <2>1, <2>4, <3>4, <3>5, <3>6 DEF Carries
    <2> QED
      BY <2>3, <2>4 DEF Granted
  <1>10. ASSUME NEW h \in Holder, NEW p \in Perm, NEW s \in Scope
         PROVE  Can(y, h, p, s, clock) <=>
                  <<h, p, s>> \in SqlAnswers(x) /\ p \in Published /\ Canon[s] = s
    <2>1. Rooted(y, s) <=> Root \in Reach(tree, s)
      BY <1>2, <1>3 DEF Rooted, Up
    <2>2. <<h, p, s>> \in SqlAnswers(x) <=>
             /\ Root \in Reach(tree, s)
             /\ \E pl \in Place :
                   /\ pl[1] \in Reach(tree, s) /\ pl[2] \in Known /\ p \in Catalog[pl[2]].perms
                   /\ Seen(pl, tree)
                   /\ x.held[<<h, pl>>] # Absent /\ Live(x.held[<<h, pl>>], clock)
             /\ \A c \in Reach(tree, s) : <<h, c, p>> \notin x.denied
      BY DEF SqlAnswers
    <2>3. CASE Root \notin Reach(tree, s)
      BY <2>1, <2>2, <2>3 DEF Can
    <2>4. CASE Root \in Reach(tree, s)
      <3>1. Canon[s] = s
        BY <2>4, CanonAbove
      <3> QED
        BY <1>8, <1>9, <2>1, <2>2, <2>4, <3>1 DEF Can
    <2> QED
      BY <2>3, <2>4
  <1>11. ASSUME NEW q
         PROVE  q \in Answers(y, clock) <=>
                   q \in SqlAnswers(x) /\ q[2] \in Published /\ Canon[q[3]] = q[3]
    <2>1. CASE q \in Holder \X Perm \X Scope
      <3>1. q = <<q[1], q[2], q[3]>> /\ q[1] \in Holder /\ q[2] \in Perm /\ q[3] \in Scope
        BY <2>1
      <3>2. q \in Answers(y, clock) <=> Can(y, q[1], q[2], q[3], clock)
        BY <2>1 DEF Answers
      <3> QED
        BY <1>10, <3>1, <3>2
    <2>2. CASE q \notin Holder \X Perm \X Scope
      BY <2>2 DEF Answers, SqlAnswers
    <2> QED
      BY <2>1, <2>2
  <1> QED
    BY <1>11

\* A store that a pass filled from the tables answers as they did at some instant of it.
LEMMA AnswersLeft ==
  ASSUME Sight, WereInv, [Next]_vars, Finishes, pass.to = "fga", pass.to # Serving, ~Self,
         pass.prune, ~pass.moved
  PROVE  \E x \in pass.were :
            Answers(back'.fga, clock) = {q \in SqlAnswers(x) : q[2] \in Published /\ Canon[q[3]] = q[3]}
  <1>1. TypeOK /\ TreeInv /\ EdgesInv /\ PlanInv /\ Aimed
    BY DEF Sight, Inv, Base
  <1>2. /\ pass.pc = "apply" /\ pass.del = {} /\ pass.put = {} /\ back' = back
    BY <1>1, FinishOnly
  <1>3. Alone
    BY <1>1, <1>2 DEF Aimed, Running, Alone
  <1>4. Half(pass, Dest) /\ pass.want = WantOf(pass.facts)
    BY <1>1, <1>2, <1>3 DEF PlanInv, Wanted
  <1>5. /\ pass \in Pass /\ Dest \in Store /\ Dest = back.fga /\ pass.facts \in Store
        /\ pass.origin = "sql" /\ pass.now \in Nat /\ pass.edges \in SUBSET (Scope \X Scope)
        /\ pass.were \in SUBSET Store
    BY <1>1, BackTypes, PassTypes DEF Dest, Self, Backend
  <1>6. back.fga = pass.want
    BY <1>2, <1>4, <1>5, DoneWhole
  <1>7. pass.edges = SourceTree(tree)
    BY <1>1, <1>2 DEF EdgesInv
  <1>8. WantedOf(back.fga, Derived(SourceTree(tree)), pass.facts, SourceTree(tree), pass.now)
    <2>1. pass.want = WantStore(Derived(pass.edges), pass.facts, pass.edges, pass.now)
      BY <1>4 DEF WantOf
    <2>2. Derived(pass.edges) \in Store
      BY <1>5, DerivedFields
    <2>3. WantedOf(pass.want, Derived(pass.edges), pass.facts, pass.edges, pass.now)
      BY <1>5, <2>1, <2>2, WantStoreFields
    <2> QED
      BY <1>6, <1>7, <2>3
  <1>9. PICK x \in pass.were : pass.facts.held = x.held /\ pass.facts.denied = x.denied
    BY <1>2, <1>5 DEF WereInv
  <1>10. pass.now <= clock /\ x \in Store /\ back.fga \in Store
    BY <1>1, <1>5, <1>9, BackTypes DEF WereInv
  <1>11. Answers(back.fga, clock) = {q \in SqlAnswers(x) : q[2] \in Published /\ Canon[q[3]] = q[3]}
    BY <1>1, <1>5, <1>8, <1>9, <1>10, StoreAnswers
  <1> QED
    BY <1>2, <1>9, <1>11

\* The expiry of a row of the tables.
RowHeld(x, E, now, k) ==
    IF RowOf(x, E, now, k) = {} THEN Absent ELSE Fold({x.held[j] : j \in RowOf(x, E, now, k)})

\* A row of the tables is alive if and only if one of the facts that it stands for is.
LEMMA RowAlive ==
  ASSUME NEW x \in Store, NEW E, NEW now \in Nat, NEW later \in Nat, now <= later, NEW k \in HeldKey,
         Canon[k[2][1]] = k[2][1], Resolves(E, k[2][1]), k[2][2] \in Known, NEW v,
         v = RowHeld(x, E, now, k)
  PROVE  v # Absent /\ Live(v, later) <=>
            \E s \in Scope : /\ Canon[s] = k[2][1]
                             /\ x.held[<<k[1], <<s, k[2][2]>>>>] # Absent
                             /\ Live(x.held[<<k[1], <<s, k[2][2]>>>>], later)
  <1> DEFINE R == RowOf(x, E, now, k)
             es == {x.held[j] : j \in R}
  <1>1. k = <<k[1], k[2]>> /\ k[1] \in Holder /\ k[2] = <<k[2][1], k[2][2]>> /\ k[2][2] \in Role
    BY DEF HeldKey, Place
  <1>2. ASSUME NEW s \in Scope, Canon[s] = k[2][1], x.held[<<k[1], <<s, k[2][2]>>>>] # Absent,
               Live(x.held[<<k[1], <<s, k[2][2]>>>>], later)
        PROVE  <<k[1], <<s, k[2][2]>>>> \in R
    <2> DEFINE j == <<k[1], <<s, k[2][2]>>>>
    <2>1. j \in HeldKey /\ j[1] = k[1] /\ j[2][1] = s /\ j[2][2] = k[2][2]
      BY <1>1 DEF HeldKey, Place
    <2>2. x.held[j] \in Expiry
      BY <1>2, <2>1 DEF Store, HeldKey
    <2> HIDE DEF j
    <2>3. Live(x.held[j], now)
      <3>1. Live(x.held[j], later)
        BY <1>2 DEF j
      <3> QED
        BY <2>2, <3>1 DEF Live, Expiry, Forever
    <2>4. x.held[j] # Absent
      BY <1>2 DEF j
    <2>5. j \in Usables(x, E, now)
      BY <1>2, <2>1, <2>3, <2>4 DEF Usables
    <2>6. <<Canon[j[2][1]], j[2][2]>> = k[2]
      BY <1>1, <1>2, <2>1
    <2>7. j \in R
      BY <2>1, <2>5, <2>6 DEF RowOf
    <2> QED
      BY <2>7 DEF j
  <1>3. ASSUME NEW j \in R
        PROVE  /\ j[2][1] \in Scope /\ Canon[j[2][1]] = k[2][1] /\ j = <<k[1], <<j[2][1], k[2][2]>>>>
               /\ x.held[j] # Absent
    <2>1. /\ j \in HeldKey /\ x.held[j] # Absent /\ j[1] = k[1]
          /\ <<Canon[j[2][1]], j[2][2]>> = k[2]
      BY DEF RowOf, Usables
    <2>2. j = <<j[1], j[2]>> /\ j[2] = <<j[2][1], j[2][2]>> /\ j[2][1] \in Scope
      BY <2>1 DEF HeldKey, Place
    <2>3. Canon[j[2][1]] = k[2][1] /\ j[2][2] = k[2][2]
      BY <1>1, <2>1
    <2> QED
      BY <2>1, <2>2, <2>3
  <1>4. IsFiniteSet(es) /\ es \in SUBSET Expiry
    BY RowFinite
  <1>5. v = (IF R = {} THEN Absent ELSE Fold(es))
    BY DEF RowHeld
  <1> HIDE DEF R
  <1>6. CASE R = {}
    BY <1>2, <1>5, <1>6
  <1>7. CASE R # {}
    <2>1. es # {} /\ v = Fold(es)
      BY <1>5, <1>7
    <2>2. \A e \in es : \E j \in R : e = x.held[j]
      OBVIOUS
    <2>3. \A j \in R : x.held[j] \in es
      OBVIOUS
    <2> HIDE DEF es
    <2>4. v \in es /\ (Live(v, later) <=> \E e \in es : Live(e, later))
      BY <1>4, <2>1, FoldIs
    <2>5. v # Absent
      BY <1>4, <2>4 DEF Expiry, Forever, Absent
    <2>6. ASSUME Live(v, later)
          PROVE  \E s \in Scope : /\ Canon[s] = k[2][1]
                                  /\ x.held[<<k[1], <<s, k[2][2]>>>>] # Absent
                                  /\ Live(x.held[<<k[1], <<s, k[2][2]>>>>], later)
      <3>1. PICK j \in R : Live(x.held[j], later)
        BY <2>2, <2>4, <2>6
      <3> QED
        BY <1>3, <3>1
    <2>7. ASSUME NEW s \in Scope, Canon[s] = k[2][1], x.held[<<k[1], <<s, k[2][2]>>>>] # Absent,
                 Live(x.held[<<k[1], <<s, k[2][2]>>>>], later)
          PROVE  Live(v, later)
      <3>1. x.held[<<k[1], <<s, k[2][2]>>>>] \in es
        BY <1>2, <2>3, <2>7
      <3> QED
        BY <2>4, <2>7, <3>1
    <2> QED
      BY <2>5, <2>6, <2>7
  <1> QED
    BY <1>6, <1>7

LEMMA FactsBack ==
  ASSUME Sight, WereInv, [Next]_vars, Finishes, pass.to = "sql", pass.prune, Quiet,
         NEW k \in HeldKey, NEW later \in Nat, pass.now <= later,
         Canon[k[2][1]] = k[2][1], Resolves(tree, k[2][1]), k[2][2] \in Known
  PROVE  back'.sql.held[k] # Absent /\ Live(back'.sql.held[k], later) <=>
            \E s \in Scope : /\ Canon[s] = k[2][1]
                             /\ back.fga.held[<<k[1], <<s, k[2][2]>>>>] # Absent
                             /\ Live(back.fga.held[<<k[1], <<s, k[2][2]>>>>], later)
  <1>1. TypeOK /\ TreeInv /\ EdgesInv /\ PlanInv /\ Aimed /\ ReadInv /\ ~pass.raced /\ ~pass.moved
    BY DEF Sight, Inv, Base, Quiet
  <1>2. pass.pc = "apply" /\ pass.del = {} /\ pass.put = {} /\ back' = back
    BY <1>1, FinishOnly
  <1>3. pass.to # pass.origin
    BY <1>2 DEF Aimed, Sight, Running, Self
  <1>4. Half(pass, Dest) /\ pass.want = WantOf(pass.facts)
    BY <1>1, <1>2 DEF PlanInv, Alone, Wanted
  <1>5. /\ pass \in Pass /\ Dest \in Store /\ Dest = back.sql /\ pass.facts \in Store
        /\ pass.origin = "fga" /\ pass.now \in Nat /\ tree \in SUBSET (Scope \X Scope)
    BY <1>1, <1>3, BackTypes, PassTypes DEF Dest, Backend, TypeOK
  <1>6. back.sql = pass.want
    BY <1>2, <1>4, <1>5, DoneWhole
  <1>7. pass.edges = SourceTree(tree)
    BY <1>1, <1>2 DEF EdgesInv
  <1>8. pass.facts.held = back.fga.held
    BY <1>1, <1>2, <1>3, <1>5 DEF ReadInv, Running, Self
  <1> DEFINE E == pass.edges
             now == pass.now
             x == pass.facts
             v == back.sql.held[k]
  <1>9. v = RowHeld(x, E, now, k)
    <2>1. pass.want = WantTables(Bare, x, E, now)
      BY <1>4 DEF WantOf
    <2>2. TablesOf(pass.want, Bare, x, E, now)
      BY <1>5, <2>1, BareType, WantTablesFields
    <2> HIDE DEF x, E, now
    <2>3. back.sql.held = [j \in HeldKey |-> RowHeld(x, E, now, j)]
      BY <1>6, <2>2, Zenon DEF TablesOf, RowHeld
    <2> QED
      BY <2>3
  <1>10. Resolves(E, k[2][1])
    <2>1. k[2][1] \in Scope
      BY DEF HeldKey, Place
    <2>2. (\A d, e \in tree : d[1] = e[1] => d = e) /\ (\A e \in tree : e[1] # Root)
      BY <1>1 DEF TreeInv
    <2>3. Root \in Reach(SourceTree(tree), k[2][1])
      BY <1>5, <2>1, <2>2, ChainWhole DEF Resolves
    <2> QED
      BY <1>7, <2>3 DEF Resolves
  <1>11. x \in Store /\ now \in Nat /\ now <= later
    BY <1>5
  <1> HIDE DEF x, E, now, v
  <1>12. v # Absent /\ Live(v, later) <=>
            \E s \in Scope : /\ Canon[s] = k[2][1]
                             /\ x.held[<<k[1], <<s, k[2][2]>>>>] # Absent
                             /\ Live(x.held[<<k[1], <<s, k[2][2]>>>>], later)
    BY <1>9, <1>10, <1>11, RowAlive, ZenonT(60)
  <1> QED
    BY <1>2, <1>8, <1>12 DEF v, x

\* Done again over what it left, a pass finds nothing to do.
LEMMA NothingLeft ==
  ASSUME NEW p \in Pass, NEW x \in Store, Half(p, x), p.del = {}, p.put = {}
  PROVE  LET d == Diff(x, p.want, p.to, p.prune) IN d.del = {} /\ d.put = {}
  <1> DEFINE d == Diff(x, p.want, p.to, p.prune)
             X == Tuples(x)
             W == Tuples(p.want)
  <1>1. p.want \in Store /\ p.before \in Store /\ X \in SUBSET Tuple /\ W \in SUBSET Tuple
    BY PassTypes, TuplesOf
  <1>2. /\ d.extra = Extra(X, W, p.prune)
        /\ d.update = {t \in X \cap W : t[1] = "held" /\ x.held[t[2]] # p.want.held[t[2]]}
        /\ d.del = d.extra \cup (IF p.to = "fga" THEN d.update ELSE {})
        /\ d.put = (W \ X) \cup d.update
    BY <1>1, DiffFields
  <1>3. ASSUME NEW t \in X, t \in W, t[1] = "held" PROVE x.held[t[2]] = p.want.held[t[2]]
    <2>1. t = <<"held", t[2]>>
      BY <1>1, <1>3, TupleIs
    <2>2. t[2] \in HeldKey /\ x.held[t[2]] # Absent /\ p.want.held[t[2]] # Absent
      BY <1>1, <1>3, <2>1, TuplesOf
    <2> QED
      BY <2>2, DoneHeld
  <1>4. ASSUME NEW t \in Extra(X, W, p.prune) PROVE FALSE
    <2>1. /\ t \in X /\ t \notin W
          /\ p.prune \/ t[1] \notin Facts \/ (t[1] = "binding" /\ <<"role", t[2]>> \in W)
      BY <1>4, ExtraIs
    <2>2. t \in Tuples(p.before) /\ t \notin Extra(Tuples(p.before), W, p.prune)
      BY <1>1, <2>1, DoneIs
    <2> QED
      BY <2>1, <2>2, ExtraIs
  <1>5. W \subseteq X
    BY <1>1, DoneIs
  <1> HIDE DEF d, X, W
  <1>6. d.update = {}
    BY <1>2, <1>3
  <1>7. d.extra = {}
    BY <1>2, <1>4
  <1>8. d.del = {} /\ d.put = {}
    BY <1>2, <1>5, <1>6, <1>7
  <1> QED
    BY <1>8 DEF d

\* What a maintenance pass leaves asks for what it wanted.
LEMMA SelfAsksSame ==
  ASSUME Sight, pass.pc = "apply", pass.del = {}, pass.put = {}, Self, ~pass.raced
  PROVE  WantOf(Dest) = pass.want
  <1> DEFINE x == Dest
             f == pass.facts
             w == Derived(pass.edges)
             E == pass.edges
             now == pass.now
             ks == Assignable(f, E, now)
  <1>1. TypeOK /\ PlanInv /\ Aimed /\ ReadInv
    BY DEF Sight, Inv, Base
  <1>2. Half(pass, x) /\ pass.want = WantOf(f)
    BY <1>1 DEF PlanInv, Alone, Wanted
  <1>3. /\ pass \in Pass /\ x \in Store /\ f \in Store /\ pass.want \in Store /\ pass.before \in Store
        /\ pass.to = "fga" /\ f.held = pass.before.held /\ f.denied = pass.before.denied
        /\ w \in Store
    BY <1>1, BackTypes, PassTypes, DerivedFields DEF Aimed, ReadInv, Running
  <1>4. /\ pass.want.held = [k \in HeldKey |-> IF k \in ks THEN f.held[k] ELSE Absent]
        /\ pass.want.denied = Deniable(f, E)
    BY <1>1, <1>2, <1>3, WantedStoreIs
  <1>5. \A y \in Store, k \in HeldKey :
           k \in Assignable(y, E, now) <=> /\ y.held[k] # Absent /\ Live(y.held[k], now)
                                           /\ Resolves(E, k[2][1]) /\ k[2][2] \in Known
    BY DEF Assignable, Store, HeldKey
  <1>6. Assignable(x, E, now) \in SUBSET HeldKey /\ ks \in SUBSET HeldKey
    BY <1>3, AssignableType
  <1>7. ASSUME NEW k \in HeldKey
        PROVE  /\ pass.want.held[k] # Absent => x.held[k] = pass.want.held[k]
               /\ pass.want.held[k] = Absent /\ x.held[k] # Absent => x.held[k] = f.held[k]
    <2> DEFINE t == <<"held", k>>
               d == Diff(pass.before, pass.want, pass.to, pass.prune)
    <2>1. t \in Tuple /\ (t \in Tuples(x) <=> x.held[k] # Absent)
          /\ (t \in Tuples(pass.want) <=> pass.want.held[k] # Absent)
      BY <1>3, TupleMade, TuplesOf
    <2>2. CASE pass.want.held[k] # Absent
      <3>1. x.held[k] # Absent
        BY <1>2, <1>3, <2>1, <2>2, DoneIs
      <3> QED
        BY <1>2, <1>3, <2>2, <3>1, DoneHeld
    <2>3. CASE pass.want.held[k] = Absent /\ x.held[k] # Absent
      <3>1. d.put = (Tuples(pass.want) \ Tuples(pass.before)) \cup d.update
            /\ d.update = {u \in Tuples(pass.before) \cap Tuples(pass.want) :
                             u[1] = "held" /\ pass.before.held[u[2]] # pass.want.held[u[2]]}
        BY <1>3, DiffFields
      <3>2. x.held[k] = (IF t \in d.put \ pass.put THEN pass.want.held[k] ELSE pass.before.held[k])
        BY <1>2, <2>3 DEF Half
      <3> HIDE DEF d, t
      <3> QED
        BY <1>3, <2>1, <2>3, <3>1, <3>2
    <2> QED
      BY <2>2, <2>3
  <1>8. ASSUME NEW e \in DenyKey
        PROVE  /\ e \in pass.want.denied => e \in x.denied
               /\ e \in x.denied /\ e \notin pass.want.denied => e \in f.denied
    <2> DEFINE t == <<"denied", e>>
    <2>1. t \in Tuple /\ (t \in Tuples(x) <=> e \in x.denied)
          /\ (t \in Tuples(pass.want) <=> e \in pass.want.denied)
          /\ (t \in Tuples(pass.before) <=> e \in pass.before.denied)
      BY <1>3, TupleMade, TuplesOf
    <2> HIDE DEF t
    <2> QED
      BY <1>2, <1>3, <2>1, DoneIs
  <1>9. \A y \in Store, e \in DenyKey :
           e \in Deniable(y, E) <=> e \in y.denied /\ e[3] \in Published /\ Resolves(E, e[2])
    BY DEF Deniable
  <1>10. \A y \in Store : Deniable(y, E) \in SUBSET DenyKey
    BY DEF Deniable, Store, DenyKey
  <1> HIDE DEF x, f, E, now, ks
  <1>11. ASSUME NEW k \in HeldKey PROVE k \in Assignable(x, E, now) <=> k \in ks
    BY <1>3, <1>4, <1>5, <1>7, <1>11 DEF ks
  <1>12. ks = Assignable(x, E, now)
    BY <1>6, <1>11
  <1>13. \A k \in ks : f.held[k] = x.held[k]
    BY <1>3, <1>4, <1>5, <1>6, <1>7 DEF ks
  <1>14. Deniable(f, E) = Deniable(x, E)
    <2>1. ASSUME NEW e \in DenyKey PROVE e \in Deniable(f, E) <=> e \in Deniable(x, E)
      BY <1>3, <1>4, <1>8, <1>9
    <2> QED
      BY <1>3, <1>10, <2>1
  <1> HIDE DEF w
  <1>15. WantStore(w, f, E, now) = WantStore(w, x, E, now)
    <2>1. WantedOf(WantStore(w, f, E, now), w, f, E, now) /\ WantedOf(WantStore(w, x, E, now), w, x, E, now)
      BY <1>3, WantStoreFields
    <2> QED
      BY <1>3, <1>12, <1>13, <1>14, <2>1, WantedSame DEF ks
  <1>16. WantOf(x) = WantStore(w, x, E, now) /\ WantOf(f) = WantStore(w, f, E, now)
    BY <1>3 DEF WantOf, w, E, now
  <1> QED
    BY <1>2, <1>15, <1>16 DEF x

LEMMA AsksSame ==
  ASSUME Sight, [Next]_vars, Finishes, Quiet
  PROVE  LET again == Diff(back'[pass.to], WantOf(back'[pass.origin]), pass.to, pass.prune)
         IN  again.del = {} /\ again.put = {}
  <1>1. TypeOK /\ PlanInv /\ Aimed /\ ReadInv /\ ~pass.raced
    BY DEF Sight, Inv, Base, Quiet
  <1>2. pass.pc = "apply" /\ pass.del = {} /\ pass.put = {} /\ back' = back
    BY <1>1, FinishOnly
  <1>3. Half(pass, Dest) /\ pass.want = WantOf(pass.facts)
    BY <1>1, <1>2 DEF PlanInv, Alone, Wanted
  <1>4. /\ pass \in Pass /\ Dest \in Store /\ pass.facts \in Store /\ Dest = back[pass.to]
        /\ back[pass.origin] \in Store
    BY <1>1, BackTypes, PassTypes DEF Dest, TypeOK
  <1>5. WantOf(back[pass.origin]) = pass.want
    <2>1. CASE Self
      <3>1. back[pass.origin] = Dest
        BY <2>1 DEF Self, Dest
      <3> QED
        BY <1>1, <1>2, <2>1, <3>1, SelfAsksSame
    <2>2. CASE ~Self
      <3>1. pass.facts.held = back[pass.origin].held /\ pass.facts.denied = back[pass.origin].denied
        BY <1>1, <1>2, <2>2 DEF ReadInv, Running
      <3> QED
        BY <1>1, <1>3, <1>4, <3>1, WantSame
    <2> QED
      BY <2>1, <2>2
  <1>6. LET d == Diff(Dest, pass.want, pass.to, pass.prune) IN d.del = {} /\ d.put = {}
    BY <1>2, <1>3, <1>4, NothingLeft
  <1>7. back'[pass.to] = Dest /\ back'[pass.origin] = back[pass.origin]
    BY <1>2, <1>4
  <1> QED
    BY <1>5, <1>6, <1>7

-----------------------------------------------------------------------------
(* A migration that ends is faithful.                                      *)

Whole == Sight /\ WereInv

LEMMA WholeInit == Init => Whole
  <1> SUFFICES ASSUME Init PROVE Whole
    OBVIOUS
  <1>1. Sight
    BY SightInit
  <1>2. clock = 0 /\ pass.pc = "idle" /\ pass.now = 0
    BY DEF Init, NoPass
  <1> QED
    BY <1>1, <1>2 DEF Whole, WereInv

LEMMA WholeNext == Whole /\ [Next]_vars => Whole'
  BY SightNext, WereNext DEF Whole, Sight, Inv

LEMMA WholeAlways == Spec => []Whole
  BY WholeInit, WholeNext, PTL DEF Spec

LEMMA FactsBackAll ==
  ASSUME Sight, WereInv, [Next]_vars, Finishes, pass.to = "sql", pass.prune, Quiet,
         NEW k \in Holder \X Place, NEW later \in pass.now .. MaxClock + 2,
         Canon[k[2][1]] = k[2][1], Resolves(tree, k[2][1]), k[2][2] \in Known
  PROVE  (back'.sql.held[k] # Absent /\ Live(back'.sql.held[k], later)) =
            (\E s \in Scope : /\ Canon[s] = k[2][1]
                              /\ LET e == back.fga.held[<<k[1], <<s, k[2][2]>>>>]
                                 IN  e # Absent /\ Live(e, later))
  <1>1. later \in Nat /\ pass.now <= later /\ k \in HeldKey
    <2>1. pass.now \in Nat /\ MaxClock \in Nat
      BY BackTypes, PassTypes, ReconcileAssumption DEF Sight, Inv, Base
    <2> QED
      BY <2>1 DEF HeldKey
  <1>2. back'.sql.held[k] # Absent /\ Live(back'.sql.held[k], later) <=>
            \E s \in Scope : /\ Canon[s] = k[2][1]
                             /\ back.fga.held[<<k[1], <<s, k[2][2]>>>>] # Absent
                             /\ Live(back.fga.held[<<k[1], <<s, k[2][2]>>>>], later)
    BY <1>1, FactsBack
  <1> QED
    BY <1>2, Zenon

\* A migration that ends is faithful, for every tree, content and order of what happens
\* meanwhile.  A store filled from the tables with --prune answers as they did at one instant
\* of the pass; a row of the tables filled from the store lives as long as the facts it stands
\* for; and a second pass over what a quiet one left writes nothing (authz:reconcile with
\* --to and --from).
THEOREM MigrationFaithful == Spec => MigrationIsFaithful
  <1>1. Whole /\ [Next]_vars =>
          (Finishes /\ pass.to = "fga" /\ pass.to # Serving /\ ~Self /\ pass.prune /\ ~pass.moved =>
              \E x \in pass.were :
                  Answers(back'.fga, clock) =
                      {q \in SqlAnswers(x) : q[2] \in Published /\ Canon[q[3]] = q[3]})
    BY AnswersLeft DEF Whole
  <1>2. Whole /\ [Next]_vars =>
          (Finishes /\ pass.to = "sql" /\ pass.prune /\ Quiet =>
              \A k \in Holder \X Place, later \in pass.now .. MaxClock + 2 :
                  Canon[k[2][1]] = k[2][1] /\ Resolves(tree, k[2][1]) /\ k[2][2] \in Known =>
                      (back'.sql.held[k] # Absent /\ Live(back'.sql.held[k], later)) =
                      (\E s \in Scope : /\ Canon[s] = k[2][1]
                                        /\ LET e == back.fga.held[<<k[1], <<s, k[2][2]>>>>]
                                           IN  e # Absent /\ Live(e, later)))
    BY FactsBackAll DEF Whole
  <1>3. Whole /\ [Next]_vars =>
          (Finishes /\ Quiet =>
              LET again == Diff(back'[pass.to], WantOf(back'[pass.origin]), pass.to, pass.prune)
              IN  again.del = {} /\ again.put = {})
    BY AsksSame DEF Whole
  <1>4. Spec => SameAnswers
    BY <1>1, WholeAlways, PTL DEF Spec, SameAnswers
  <1>5. Spec => SameFactsBack
    BY <1>2, WholeAlways, PTL DEF Spec, SameFactsBack
  <1>6. Spec => SecondPassWritesNothing
    BY <1>3, WholeAlways, PTL DEF Spec, SecondPassWritesNothing
  <1> QED
    BY <1>4, <1>5, <1>6 DEF MigrationIsFaithful
=============================================================================
