-------------------------------- MODULE Facts --------------------------------
(***************************************************************************)
(* What the port of facts promises about one holder and one permission     *)
(* (src/src/types.ts, AuthorizationDriver; src/src/expiry.ts): grants with *)
(* an expiry and denies are single facts, and a call that is under way     *)
(* acts on them in one step, as what it asked for says at that instant.    *)
(* A grant that does not name an expiry keeps a live one.                  *)
(***************************************************************************)
EXTENDS Integers

CONSTANTS
    Client,     \* callers, each with one call at a time
    Role,
    Scope,
    Root,       \* the scope `app`
    Asked       \* what grants ask for: an expiry, Forever or Omitted

Forever == -1                       \* expires_at IS NULL
Absent  == -2                       \* no such fact
Omitted == -3                       \* a grant that names no expiry
Expiry  == Nat \cup {Forever}
Key     == Role \X Scope

\* What a call asks to be written; a deny is of a scope alone.
Ask == [op : {"grant"}, key : Key, asked : Asked] \cup [op : {"deny"}, scope : Scope]

VARIABLES
    clock,
    facts,      \* facts[<<r, s>>]: until when the holder has role r in s, or Absent
    denies,     \* the scopes where the permission is denied to the holder
    roles,      \* the roles of the catalog
    asks        \* asks[c]: what the call of client c asks for, as a set of none or one

vars == <<clock, facts, denies, roles, asks>>

Live(e, at) == e = Forever \/ e > at

\* resolveGrantExpiry: what the expiry of a fact becomes when it is granted again.
Resolve(previous, asked, at) ==
    IF asked # Omitted THEN asked
    ELSE IF Live(previous, at) THEN previous ELSE Forever

\* The expiry of a fact that was not there.
Fresh(asked) == IF asked = Omitted THEN Forever ELSE asked

Init ==
    /\ clock = 0
    /\ facts \in [Key -> Expiry \cup {Absent}]
    /\ denies \in SUBSET Scope
    /\ roles = Role
    /\ asks = [c \in Client |-> {}]

Start(c, a) ==
    /\ asks[c] = {}
    /\ asks' = [asks EXCEPT ![c] = {a}]
    /\ UNCHANGED <<clock, facts, denies, roles>>

\* A call ends; one whose answer was lost may have acted, and may act again.
End(c)  == asks' = [asks EXCEPT ![c] = {}]
Stay(c) == asks' = asks
Stop(c) == End(c) /\ UNCHANGED <<clock, facts, denies, roles>>

Grant(c, a) ==
    /\ a \in asks[c] /\ a.op = "grant"
    /\ a.key[1] \in roles
    /\ facts' = [facts EXCEPT ![a.key] = IF @ = Absent THEN Fresh(a.asked)
                                         ELSE Resolve(@, a.asked, clock)]
    /\ End(c) \/ Stay(c)
    /\ UNCHANGED <<clock, denies, roles>>

Deny(c, a) ==
    /\ a \in asks[c] /\ a.op = "deny"
    /\ denies' = denies \cup {a.scope}
    /\ End(c) \/ Stay(c)
    /\ UNCHANGED <<clock, facts, roles>>

Revoke(k) ==
    /\ facts' = [facts EXCEPT ![k] = Absent]
    /\ UNCHANGED <<clock, denies, roles, asks>>

RemoveDeny(s) ==
    /\ denies' = denies \ {s}
    /\ UNCHANGED <<clock, facts, roles, asks>>

\* The facts of a scope go, all at once; the root is not purged.
PurgeScope(s) ==
    /\ s # Root
    /\ facts' = [k \in Key |-> IF k[2] = s THEN Absent ELSE facts[k]]
    /\ denies' = denies \ {s}
    /\ UNCHANGED <<clock, roles, asks>>

\* A role goes with its facts.
PurgeRole(r) ==
    /\ facts' = [k \in Key |-> IF k[1] = r THEN Absent ELSE facts[k]]
    /\ roles' = roles \ {r}
    /\ UNCHANGED <<clock, denies, asks>>

Tick == clock' = clock + 1 /\ UNCHANGED <<facts, denies, roles, asks>>

Next ==
    \/ \E c \in Client, a \in Ask : Start(c, a) \/ Grant(c, a) \/ Deny(c, a)
    \/ \E c \in Client : Stop(c)
    \/ \E k \in Key : Revoke(k)
    \/ \E s \in Scope : RemoveDeny(s) \/ PurgeScope(s)
    \/ \E r \in Role : PurgeRole(r)
    \/ Tick

Spec == Init /\ [][Next]_vars
=============================================================================
