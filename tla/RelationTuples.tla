--------------------------- MODULE RelationTuples ---------------------------
(***************************************************************************)
(* The relations of the package, Zanzibar-style: tuples that allow or deny *)
(* a subject a relation on an object, where a subject is a holder or the   *)
(* members of a group and groups nest.  The answers of the two drivers     *)
(* over a set of live tuples: the one of SQL (src/src/drivers/             *)
(* database_relations_driver.ts, a recursive query and decideFrom) and the *)
(* one of the model of OpenFGA (src/src/drivers/openfga_facts.ts).         *)
(***************************************************************************)
EXTENDS Integers, FiniteSets

CONSTANTS
    Holder,
    Group,          \* as a subject a group stands for its userset, group#member
    Object,         \* objects that are no groups, all of one type
    Rel,            \* the relations of the type
    Includes        \* Includes[r]: the relations that give r to who holds them

Subject == Holder \cup Group
Member  == "member"

Allow(u, r, o) == [deny |-> FALSE, user |-> u, rel |-> r, object |-> o]
Deny(u, r, o)  == [deny |-> TRUE, user |-> u, rel |-> r, object |-> o]
In(u, g)       == [deny |-> FALSE, user |-> u, rel |-> Member, object |-> g]

Tuple == [deny : BOOLEAN, user : Subject, rel : Rel, object : Object]
             \cup [deny : {FALSE}, user : Subject, rel : {Member}, object : Group]

\* findIncludesCycle: no relation includes itself, through others or not.
ASSUME RelationTuplesAssumption ==
    /\ IsFiniteSet(Holder) /\ IsFiniteSet(Group) /\ IsFiniteSet(Rel)
    /\ Holder \cap Group = {} /\ Object \cap Group = {} /\ Member \notin Rel
    /\ Includes \in [Rel -> SUBSET Rel]
    /\ \E rank \in [Rel -> 1 .. Cardinality(Rel)] :
           \A r \in Rel : \A i \in Includes[r] : rank[i] < rank[r]

\* relationOrderClass: a deny, a membership, or an allow on what is no group.
Memberships(S) == {t \in S : t.object \in Group}
Denies(S)      == {t \in S : t.deny}
Allows(S)      == {t \in S : ~t.deny /\ t.object \notin Group}

\* What a walk along the arcs finds from a set of nodes in at most n rounds.
Spread(arcs, from, n) ==
    LET grown[k \in 0 .. n] ==
            IF k = 0 THEN from
            ELSE LET had == grown[k - 1] IN had \cup {a[2] : a \in {b \in arcs : b[1] \in had}}
    IN grown[n]

GroupsOf(edges, u) ==
    Spread({<<t.user, t.object>> : t \in edges}, {u}, Cardinality(Group))

\* #principalCte: the subject and the groups it is in, nested ones too.
Principals(S, u) == GroupsOf(Memberships(S), u)

-----------------------------------------------------------------------------
(* The relations of a type (src/src/relations/define_relations_config.ts). *)

\* relationsDown: what gives r.
Down == [r \in Rel |-> Spread({a \in Rel \X Rel : a[2] \in Includes[a[1]]}, {r}, Cardinality(Rel))]

\* relationsUp: what r gives.
Up == [r \in Rel |-> Spread({a \in Rel \X Rel : a[1] \in Includes[a[2]]}, {r}, Cardinality(Rel))]

\* cutPathAllows: an allow counts unless something it gives is denied.
CutPathAllows(r, allowed, denied) == \E g \in Down[r] \cap allowed : Up[g] \cap denied = {}

\* deniableAbove.
DeniableAbove == [r \in Rel |-> UNION {Up[g] : g \in Down[r]}]

\* decideFrom.
DecideFrom(r, allowed, denied) ==
    IF CutPathAllows(r, allowed, denied) THEN "allow"
    ELSE IF DeniableAbove[r] \cap denied # {} THEN "deny" ELSE "none"

-----------------------------------------------------------------------------
(* SQL.  #split sorts the relations of the rows that reach the subject.    *)

Found(S, u, o, deny) ==
    LET who == Principals(S, u) IN {t.rel : t \in {x \in S : x.object = o /\ x.user \in who /\ x.deny = deny}}

\* check; on a group it asks for its membership, which has no deny.
SqlCheck(S, u, r, o) ==
    IF o \in Group THEN \E t \in Memberships(S) : t.object = o /\ t.user \in Principals(S, u)
    ELSE CutPathAllows(r, Found(S, u, o, FALSE), Found(S, u, o, TRUE))

\* decideMany, for one object.
SqlDecide(S, u, r, o) == DecideFrom(r, Found(S, u, o, FALSE), Found(S, u, o, TRUE))

\* listObjects: the objects with rows that reach the subject, by the same cut.
SqlObjects(S, u, r) ==
    {o \in {t.object : t \in {x \in S : x.user \in Principals(S, u)}} \ Group :
        CutPathAllows(r, Found(S, u, o, FALSE), Found(S, u, o, TRUE))}

\* listSubjects and listDenies: the direct facts of one stored relation.
DirectSubjects(S, r, o, deny) ==
    {t.user : t \in {x \in S : x.object = o /\ x.rel = r /\ x.deny = deny}}

\* Bug: who a group brings in is not judged by the denies.
MembersUnjudged(S, r, o) ==
    {h \in Holder : \E g \in Down[r] : \E t \in Allows(S) :
        t.object = o /\ t.rel = g /\ t.user \in Principals(S, h)}

\* membersOf: the holders of the tuples of the object and of the groups that these name;
\* if the object has a deny in play each one is asked for with check.
MembersOf(S, r, o) ==
    LET given  == {t \in Allows(S) : t.object = o /\ t.rel \in Down[r]}
        groups == Spread({<<t.object, t.user>> : t \in Memberships(S)},
                         {t.user : t \in given} \cap Group, Cardinality(Group)) \cap Group
        found  == ({t.user : t \in given} \cup {t.user : t \in {x \in Memberships(S) : x.object \in groups}})
                     \cap Holder
    IN IF \E t \in Denies(S) : t.object = o /\ t.rel \in DeniableAbove[r]
       THEN {h \in found : SqlCheck(S, h, r, o)}
       ELSE found

-----------------------------------------------------------------------------
(* OpenFGA.  The model gives a relation its own rewrite (factsRelation-    *)
(* Rewrites): `X = (this or what X includes) but not denied_X`.            *)

Direct(S, u, r, o, deny) ==
    \E t \in S : t.object = o /\ t.rel = r /\ t.deny = deny /\ t.user \in Principals(S, u)

\* denied_X = this or denied_P for each P that includes X.
FgaDenied(S, u, o) ==
    LET denied[r \in Rel] == Direct(S, u, r, o, TRUE) \/ \E p \in Rel : r \in Includes[p] /\ denied[p]
    IN denied

\* check, with the model of the type.
FgaCheck(S, u, r, o) ==
    LET cut == FgaDenied(S, u, o)
        has[q \in Rel] == (Direct(S, u, q, o, FALSE) \/ \E i \in Includes[q] : has[i]) /\ ~cut[q]
    IN IF o \in Group THEN \E t \in Memberships(S) : t.object = o /\ t.user \in Principals(S, u)
       ELSE has[r]

\* decideMany: beside the check it asks denied_X of the relations below that include none.
FgaDecide(S, u, r, o) ==
    IF FgaCheck(S, u, r, o) THEN "allow"
    ELSE IF \E q \in Down[r] : Includes[q] = {} /\ FgaDenied(S, u, o)[q] THEN "deny" ELSE "none"

-----------------------------------------------------------------------------
\* What a store says yes to: relations on objects, and memberships.
Grants(S) ==
    {x \in (Subject \X Rel \X Object) \cup (Holder \X {Member} \X Group) :
        SqlCheck(S, x[1], x[2], x[3])}

\* The two drivers answer alike over the same tuples, listings included.
AnswersAgree(S) ==
    /\ \A u \in Subject, r \in Rel, o \in Object :
           /\ SqlCheck(S, u, r, o) = FgaCheck(S, u, r, o)
           /\ SqlDecide(S, u, r, o) = FgaDecide(S, u, r, o)
           /\ SqlCheck(S, u, r, o) = (o \in SqlObjects(S, u, r))
    /\ \A r \in Rel, o \in Object : MembersOf(S, r, o) = {h \in Holder : SqlCheck(S, h, r, o)}
=============================================================================
