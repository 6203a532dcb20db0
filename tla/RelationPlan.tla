---------------------------- MODULE RelationPlan ----------------------------
(***************************************************************************)
(* What a pass of authz:relations:reconcile decides before it writes       *)
(* (src/src/relations/reconcile.ts, planPartition): for one partition, the *)
(* steps that take the destination to the source, and whether the          *)
(* partition, or the whole pass, is refused.  Stores are functions from    *)
(* the tuples in play to their expiry.                                     *)
(***************************************************************************)
EXTENDS RelationOrder

CONSTANTS
    Partition,
    PartOf          \* the partition of each group and object

ASSUME RelationPlanAssumption == PartOf \in [Group \cup Object -> Partition]

Forever == -1
Absent  == -2
Omitted == -3                       \* a write that names no expiry
Expiry  == Nat \cup {Forever}

\* isActiveExpiry, strict; the storage of a tuple that is there.
Live(e, at) == e = Forever \/ e > at
LiveIn(d, at) == {t \in DOMAIN d : d[t] # Absent /\ Live(d[t], at)}

\* resolveGrantExpiry; of a tuple that is not there the previous expiry is null.
Resolve(previous, asked, at) ==
    IF asked # Omitted THEN asked
    ELSE IF previous # Absent /\ Live(previous, at) THEN previous ELSE Forever

\* The expiry of each tuple in play.
Store == UNION {[U -> Expiry \cup {Absent}] : U \in SUBSET Tuple}

\* What the destination does with denies on each object: it does not declare its type, it
\* has not opted in, it honours them, or it takes them too.
Phases == {"undeclared", "none", "read", "write"}

\* A pass: the source, with what the pass knows of the destination's config, its options,
\* and whether the destination renews in one write (capabilities.atomicRenewal).
Request == [src : Store,
            phase : [Object -> Phases], knows : BOOLEAN, prune : BOOLEAN, atomic : BOOLEAN]

Of(k, S) == {t \in S : PartOf[t.object] = k}

Undeclared(q, t) == t.object \in Object /\ q.phase[t.object] = "undeclared"

-----------------------------------------------------------------------------
\* The tuples of the source that a pass at `now` can use.
Usable(q, now, k) == {t \in Of(k, LiveIn(q.src, now)) : ~(q.knows /\ Undeclared(q, t))}

\* Rows of the destination that it does not declare: left as they are.
Leftover(q, dst, k) ==
    {t \in Of(k, DOMAIN dst) : dst[t] # Absent /\ q.knows /\ Undeclared(q, t)}

Rows(q, dst, k) == {t \in Of(k, DOMAIN dst) : dst[t] # Absent} \ Leftover(q, dst, k)

\* destByKey: an expired row is as good as absent.
Present(q, dst, now, k) == {t \in Rows(q, dst, k) : Live(dst[t], now)}

\* Denies of the source that a destination which cannot renew would have to write anew:
\* the one it has lasts until another instant, past or not.
DenyConditional(q, dst, now, k) ==
    {t \in Denies(Usable(q, now, k)) \cap Rows(q, dst, k) :
        ~q.atomic /\ dst[t] # Forever /\ dst[t] # q.src[t]}

Pending(q, dst, now, k) == Usable(q, now, k) \ DenyConditional(q, dst, now, k)

Writes(q, dst, now, k) == Pending(q, dst, now, k) \ Present(q, dst, now, k)

\* Bug: a deny that lasts for ever is brought to the expiry of the source.
UpdatesDenies(q, dst, now, k) ==
    {t \in Pending(q, dst, now, k) \cap Present(q, dst, now, k) : dst[t] # q.src[t]}

\* A deny that does not expire in the destination stays; any other difference is renewed.
Updates(q, dst, now, k) ==
    {t \in Pending(q, dst, now, k) \cap Present(q, dst, now, k) :
        dst[t] # q.src[t] /\ ~(t.deny /\ dst[t] = Forever)}

Deletes(q, dst, now, k) == Rows(q, dst, k) \ Usable(q, now, k)

Context(q, dst, now, k) == Usable(q, now, k) \cup Present(q, dst, now, k)

\* renewal-unsafe: a membership to be renewed of a group that carries a deny, where a
\* renewal is a delete and a write.
RenewalUnsafe(q, dst, now, k) ==
    {t \in Memberships(Updates(q, dst, now, k)) :
        ~q.atomic /\ t.object \in Carriers(Context(q, dst, now, k))}

\* extends_: the expiry goes away or is put off.
Extends(q, dst, t) == q.src[t] = Forever \/ (dst[t] # Forever /\ q.src[t] > dst[t])

\* The partition is refused: nothing of it is written or deleted.
Refused(q, dst, now, k) ==
    DenyConditional(q, dst, now, k) \cup RenewalUnsafe(q, dst, now, k) # {}

\* A prune with nothing usable in the source.
MassDelete(q, dst, now, k) ==
    /\ q.prune /\ Usable(q, now, k) = {} /\ Deletes(q, dst, now, k) # {}
    /\ ~Refused(q, dst, now, k)

\* denyGate: a deny to write needs a destination that takes it, one that is there a
\* destination that honours it, and one of a type it does not declare refuses the pass.
DenyRefused(q, dst, now, k) ==
    \/ \E t \in Denies(Of(k, LiveIn(q.src, now))) : q.knows /\ Undeclared(q, t)
    \/ /\ ~Refused(q, dst, now, k)
       /\ \E t \in Denies(Usable(q, now, k)) :
              IF t \in Writes(q, dst, now, k) \cup Updates(q, dst, now, k)
              THEN q.phase[t.object] # "write"
              ELSE q.phase[t.object] \in {"undeclared", "none"}

\* The transition that applyPartition asks to be ordered.
Steps(q, dst, now, k) ==
    LET gone == IF q.prune THEN {t \in Deletes(q, dst, now, k) : Live(dst[t], now)} ELSE {}
    IN {[do |-> "write", as |-> "write", t |-> t] : t \in Writes(q, dst, now, k)}
         \cup {[do |-> "delete", as |-> "delete", t |-> t] : t \in gone}
         \cup {[do |-> "renew", t |-> t,
                as |-> IF t.deny \/ Extends(q, dst, t) THEN "write" ELSE "delete"]
                  : t \in Updates(q, dst, now, k)}

\* With a prune what has expired is deleted first, outside the order: it connects nothing.
Expired(q, dst, now, k) ==
    IF q.prune THEN {t \in Deletes(q, dst, now, k) : ~Live(dst[t], now)} ELSE {}

\* What the pass is to leave: a deny it writes lasts for ever, and what the destination
\* does not declare it neither takes nor lets go.
Outcome(q, dst, now) ==
    LET all(Part(_, _, _, _)) == UNION {Part(q, dst, now, k) : k \in Partition}
        refused == {k \in Partition : Refused(q, dst, now, k)}
        put     == all(Writes) \cup all(Updates)
        gone    == IF q.prune THEN all(Deletes) ELSE {}
    IN [t \in DOMAIN dst |->
           IF PartOf[t.object] \in refused \/ Undeclared(q, t) THEN dst[t]
           ELSE IF t \in put THEN IF t.deny THEN Forever ELSE q.src[t]
           ELSE IF t \in gone THEN Absent ELSE dst[t]]
=============================================================================
