------------------------------ MODULE FgaStore ------------------------------
(***************************************************************************)
(* A store of OpenFGA as the package uses it (src/src/drivers/             *)
(* openfga_facts.ts): its tuples, by relation, and the authorization model *)
(* that gives them meaning.  A role that is assigned in a scope takes      *)
(* three tuples: scope#binding makes the binding reachable, its #role      *)
(* says what it grants, and its #assignee who holds it and until when.     *)
(***************************************************************************)
EXTENDS Integers, FiniteSets

CONSTANTS
    Holder,     \* holders of one type; the wildcard tuples are per type
    Perm,
    Role,       \* uuids of roles
    Scope,
    Root,       \* the scope `app`
    Global      \* the owner of a role that is not local

Forever == -1                       \* a tuple with no condition
Absent  == -2                       \* no such tuple
Omitted == -3                       \* a grant that names no expiry
Expiry  == Nat \cup {Forever}

Place == Scope \X Role              \* the object role_binding:<scope>|<role>

\* The tuples.  The expiry of an assignee is a condition and no part of its key.
Store == [parent  : SUBSET (Scope \X Scope),
          binding : SUBSET Place,
          role    : SUBSET Place,
          held    : [Holder \X Place -> Expiry \cup {Absent}],
          denied  : SUBSET (Holder \X Scope \X Perm),
          permits : SUBSET (Role \X Perm),
          rooted  : BOOLEAN]

\* What the catalog says of a role: its owner, its level and its permissions.
RoleRow == [owner : Scope \cup {Global}, type : {"app", "unit"}, perms : SUBSET Perm]

TypeOf(s) == IF s = Root THEN "app" ELSE "unit"

\* `current_time < valid_until`.
Live(e, now) == e = Forever \/ e > now

\* resolveGrantExpiry: what the expiry of a fact becomes when it is granted again.
Resolve(previous, asked, now) ==
    IF asked # Omitted THEN asked
    ELSE IF Live(previous, now) THEN previous ELSE Forever

Fresh(asked) == IF asked = Omitted THEN Forever ELSE asked

\* The least set that holds n and, with a scope, what `up` relates it to.
Reach(up, n) ==
    {t \in Scope : \A S \in SUBSET Scope :
        n \in S /\ (\A e \in up : e[1] \in S => e[2] \in S) => t \in S}

Parents(st, s) == {e[2] : e \in {d \in st.parent : d[1] = s}}

\* storeChain: s and what is above it in the tree of the store.
Up(st, s) == Reach(st.parent, s)

\* declaredRoleAt, the only rule of visibility: the role is of the level of the scope,
\* and global or its owner is in the chain.
Visible(row, s, chain) == row.type = TypeOf(s) /\ row.owner \in {Global} \cup chain

-----------------------------------------------------------------------------
(* The model: can_<P> = (<P> but not denied_<P>) and rooted.               *)

\* role_binding#<P> = assignee and <P> from role.
Carries(st, h, p, pl, now) ==
    /\ st.held[<<h, pl>>] # Absent /\ Live(st.held[<<h, pl>>], now)
    /\ pl \in st.role
    /\ <<pl[2], p>> \in st.permits

\* scope#<P> = <P> from binding or <P> from parent.
Granted(st, h, p, s, now) ==
    \E pl \in st.binding : pl[1] \in Up(st, s) /\ Carries(st, h, p, pl, now)

Denied(st, h, p, s) == \E t \in Up(st, s) : <<h, t, p>> \in st.denied

Rooted(st, s) == st.rooted /\ Root \in Up(st, s)

\* The one Check of authorize().
Can(st, h, p, s, now) ==
    /\ Granted(st, h, p, s, now)
    /\ ~Denied(st, h, p, s)
    /\ Rooted(st, s)

\* Everything the store says yes to.
Answers(st, now) == {q \in Holder \X Perm \X Scope : Can(st, q[1], q[2], q[3], now)}

-----------------------------------------------------------------------------
(* Writes.  Each is one request: all of it happens or none.                *)

\* The #role and #binding that hang a binding; they say nothing of who is assigned.
AddStructure(st, pls) == [st EXCEPT !.role = @ \cup pls, !.binding = @ \cup pls]

CutStructure(st, pls) == [st EXCEPT !.role = @ \ pls, !.binding = @ \ pls]

\* A write without `Ignore` is refused if one of its tuples is there.
Clashes(st, k) == k[2] \in st.role \/ k[2] \in st.binding \/ st.held[k] # Absent

\* The three tuples of an assignment; with `Ignore` the ones that are there stay as
\* they are, and so does the expiry of an assignee.
Assign(st, k, e) ==
    [AddStructure(st, {k[2]}) EXCEPT !.held[k] = IF @ = Absent THEN e ELSE @]

Unassign(st, ks) ==
    [st EXCEPT !.held = [k \in DOMAIN st.held |-> IF k \in ks THEN Absent ELSE st.held[k]]]

\* Delete what there was and write the edge, in one request.
Reparent(st, child, parents) ==
    [st EXCEPT !.parent = {e \in @ : e[1] # child} \cup ({child} \X parents)]
=============================================================================
