--------------------------- MODULE RelationOrder ---------------------------
(***************************************************************************)
(* The order in which a change of many tuples is written, one request at a *)
(* time (src/src/relations/tuple_order.ts, relationTransitionOrder): so    *)
(* that no state on the way grants what neither end grants.  Both the      *)
(* reconcile and the purges of OpenFGA take it.  Names of objects and      *)
(* subjects, the last tie-break, are left open: any of the tied may come.  *)
(***************************************************************************)
EXTENDS RelationTuples, FiniteSetsExt

\* A step: what is done, and as what it is ordered (a renewal that shortens goes with the
\* deletes, any other one with the writes).
Step == [do : {"write", "delete", "renew"}, as : {"write", "delete"}, t : Tuple]

\* A change: its steps, and every tuple of the two ends.
Changed(steps) == {s.t : s \in {x \in steps : x.do # "renew" \/ x.t.object \in Group}}

-----------------------------------------------------------------------------
(* Groups that carry a deny.                                               *)

Nesting(V) == {t \in Memberships(V) : t.user \in Group}

\* carriedDenies: the denies on a group or on what it is nested in.
CarriedDenies(V, g) == {d \in Denies(V) : d.user \in GroupsOf(Nesting(V), g)}

\* denyCarrierGroups.
Carriers(V) == {g \in Group : CarriedDenies(V, g) # {}}

-----------------------------------------------------------------------------
(* MembershipGraph.                                                        *)

\* up: the group and the groups it is in.
UpFrom(edges, g) == GroupsOf(Nesting(edges), g)

\* below: the subject and all it brings with it.
Below(edges, u) ==
    IF u \in Holder THEN {u}
    ELSE Spread({<<t.object, t.user>> : t \in edges}, {u}, Cardinality(Subject))

\* depth: 0 for a holder, 1 for a group with no groups inside.
Depth(edges, u) ==
    LET inside(g) == {t.user : t \in {x \in Nesting(edges) : x.object = g}}
        height[g \in Group] == 1 + Max({0} \cup {height[i] : i \in inside(g)})
    IN IF u \in Holder THEN 0 ELSE height[u]

\* reach: the tuples of a kind on the group and on the groups it is in.
ReachedBy(edges, kind, g) == {t \in kind : t.user \in UpFrom(edges, g)}

-----------------------------------------------------------------------------
(* The precedences among the memberships that enter and leave.             *)

\* Deny objects that the group brings, over both ends.
DeniedObjects(V, g) == {d.object : d \in ReachedBy(Memberships(V), Denies(V), g)}

KeptAllows(steps, V) == Allows(V) \ Changed(steps)

\* effective: objects that the group grants in both ends, save those whose every allow is
\* cut by a deny it reaches over memberships that do not change: `cuts` tells
\* whether the config, which says what cuts what, is known.
Effective(steps, V, cuts, g) ==
    LET allows == ReachedBy(Memberships(V), KeptAllows(steps, V), g)
        kept   == ReachedBy(Memberships(V) \ Changed(steps), Denies(V), g)
    IN {a.object : a \in {x \in allows :
            ~(cuts /\ \E d \in kept : d.object = x.object /\ d.rel \in Up[x.rel])}}

\* allowsOfSubject.
AllowsOf(steps, V, u) ==
    {a.object : a \in {x \in KeptAllows(steps, V) :
        \/ x.user = u
        \/ \E e \in Memberships(V) : e.user = u /\ x.user \in UpFrom(Memberships(V), e.object)}}

\* Bug: nothing is said of one that leaves and one that enters.
BeforeAlike(steps, V, cuts, a, b) ==
    LET edges == Memberships(V)
    IN a.as = b.as /\ Below(edges, a.t.user) \cap Below(edges, b.t.user) # {}
         /\ IF a.as = "write" THEN DeniedObjects(V, a.t.object) \cap Effective(steps, V, cuts, b.t.object) # {}
            ELSE Effective(steps, V, cuts, a.t.object) \cap DeniedObjects(V, b.t.object) # {}

\* before: a goes before b.
Before(steps, V, cuts, a, b) ==
    LET edges == Memberships(V)
        denies(s) == DeniedObjects(V, s.t.object)
        allows(s) == Effective(steps, V, cuts, s.t.object)
        brings(s, but) == Below(edges \ but, s.t.user)
    IN \* C1: of two that enter, the one that brings a deny
       \/ /\ a.as = "write" /\ b.as = "write"
          /\ denies(a) \cap allows(b) # {}
          /\ brings(a, {}) \cap brings(b, {}) # {}
       \* C2: of two that leave, the one that brings an allow
       \/ /\ a.as = "delete" /\ b.as = "delete"
          /\ allows(a) \cap denies(b) # {}
          /\ brings(a, {b.t}) \cap brings(b, {}) # {}
       \* C3: the one that leaves, before one that enters on the same nested path
       \/ /\ a.as = "delete" /\ b.as = "write"
          /\ \/ b.t.user \in Group /\ b.t.user \in UpFrom(edges, a.t.object)
             \/ a.t.user \in Group /\ a.t.user \in UpFrom(edges, b.t.object)
       \* C4: the one that enters, when each brings a deny that guards an allow
       \/ /\ a.as = "write" /\ b.as = "delete"
          /\ \E u \in brings(a, {b.t}) \cap brings(b, {a.t}) :
                 denies(a) \cap denies(b) \cap AllowsOf(steps, V, u) # {}

Precedences(steps, V, cuts) ==
    LET moves == {s \in steps : s.t.object \in Group}
    IN {p \in moves \X moves : p[1] # p[2] /\ Before(steps, V, cuts, p[1], p[2])}

\* The strongly connected component of s.
Component(prec, s) ==
    LET ahead(arcs) == Spread(arcs, {s}, Cardinality(prec))
    IN ahead(prec) \cap ahead({<<p[2], p[1]>> : p \in prec})

\* planMemberships' `residue`: the members of the cycles.
Residue(prec) == {p[1] : p \in {q \in prec : q[2] \in Component(prec, q[1]) /\ q[1] # q[2]}}

\* priority: writes first, from the farthest of the subject; then deletes from the nearest.
Priority(edges, s) ==
    IF s.as = "write" THEN -1 - Depth(edges, s.t.user) ELSE Depth(edges, s.t.user)

Foremost(edges, steps) ==
    {s \in steps : \A x \in steps : Priority(edges, s) <= Priority(edges, x)}

\* orderByPrecedence: component by component, the one that is begun first; of the ready
\* ones the one with the foremost step; inside, what nothing left goes before, if any.
NextMembership(V, prec, left) ==
    LET edges == Memberships(V)
        open  == {s \in left : Component(prec, s) \ left # {}}
        ready == {s \in left : \A p \in prec : p[2] \in Component(prec, s) /\ p[1] \in left
                                  => p[1] \in Component(prec, s)}
        first == Foremost(edges, IF open # {} THEN open ELSE ready)
    IN UNION {LET rest == Component(prec, s) \cap left
                  free == {x \in rest : ~\E p \in prec : p[2] = x /\ p[1] \in rest}
              IN Foremost(edges, IF free # {} THEN free ELSE rest) : s \in first}

-----------------------------------------------------------------------------
(* relationTransitionOrder: five phases.  Those at the ends only restrict  *)
(* or only widen what is granted, once the hard one in the middle is done. *)

Phase(s) ==
    IF s.t.deny THEN IF s.do = "write" THEN 1 ELSE IF s.do = "renew" THEN 2 ELSE 8
    ELSE IF s.t.object \in Group THEN 5
    ELSE IF s.do = "delete" THEN 3
    ELSE IF s.do = "renew" /\ s.as = "delete" THEN 4
    ELSE IF s.do = "renew" THEN 7 ELSE 6

\* The steps that may come now, of those left.  Inside a phase that is not of memberships
\* they come as the source and the destination list them: any order.
NextSteps(V, prec, left) ==
    LET now == {s \in left : \A x \in left : Phase(s) <= Phase(x)}
    IN IF \E s \in now : Phase(s) = 5 THEN NextMembership(V, prec, now) ELSE now

\* relationDeleteOrder, in chunks of at most n that mix no classes (purgeWrites).
DeleteChunks(steps, prec, left, n) ==
    LET V    == {s.t : s \in steps}
        now  == {s \in left : \A x \in left : Phase(s) <= Phase(x)}
        size == Min({n, Cardinality(now)})
        take[k \in 0 .. size] ==
            IF k = 0 THEN {{}}
            ELSE UNION {{c \cup {s} : s \in NextSteps(V, prec, left \ c)} : c \in take[k - 1]}
    IN take[size]
=============================================================================
