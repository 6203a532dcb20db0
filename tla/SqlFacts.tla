------------------------------ MODULE SqlFacts ------------------------------
(***************************************************************************)
(* The facts of one holder and one permission in the SQL driver            *)
(* (src/src/drivers/database_driver.ts).  A grant reads the row, and then  *)
(* inserts or updates; a deny reads, and then inserts; authorize reads the *)
(* denies and then the assignments, a listing the other way round.  No     *)
(* transaction spans those statements: each is a step, and the steps of    *)
(* all clients interleave.  Deletes and purges are one step, as they are   *)
(* one statement or one transaction.                                       *)
(***************************************************************************)
EXTENDS Integers

CONSTANTS
    Client,     \* callers of any process, each with one call at a time
    Role,
    Scope,
    Root,       \* the scope `app`
    Chain,      \* Chain[s]: s and the scopes above it
    Granting,   \* the roles that carry the permission
    Asked,      \* what grants ask for: an expiry, Forever or Omitted
    FirstExpiry,\* the expiries of the rows there are at the start
    MaxTries,   \* turns of the loop of grant()
    MaxRow,     \* bound: rows inserted
    MaxClock    \* bound: the clock stops there

Forever == -1                       \* expires_at IS NULL
Absent  == -2                       \* no such row
Omitted == -3                       \* options.expiresAt === undefined
Expiry  == Nat \cup {Forever}
Key     == Role \X Scope

ASSUME SqlFactsAssumption ==
    /\ Root \in Scope
    /\ Chain \in [Scope -> SUBSET Scope] /\ \A s \in Scope : s \in Chain[s]
    /\ Granting \subseteq Role
    /\ Asked \subseteq Expiry \cup {Omitted}
    /\ FirstExpiry \subseteq Expiry
    /\ MaxTries \in Nat \ {0}
    /\ Role # {} /\ Asked # {}
    /\ MaxRow \in Nat
    /\ MaxClock \in Nat

VARIABLES
    clock,      \* this.now() of every process
    rows,       \* authz_assignments by its unique key
    nextId,     \* the uuid of the next row
    denies,     \* authz_denies: the scopes where the permission is denied
    roles,      \* authz_roles
    call,       \* call[c]: the call of client c
    open,       \* history: while c reads, the permission was granted at some instant
    crossed     \* history: between the two reads of c a deny landed or was lifted

vars == <<clock, rows, nextId, denies, roles, call, open, crossed>>

\* A row: its uuid (0: there is none) and its expiry.
Row   == [id : Nat, exp : Expiry]
NoRow == [id |-> 0, exp |-> Forever]

Writing == {"find", "insert", "race", "update", "denyFind", "denyInsert", "denyRace"}
Reading == {"readDenies", "readAssignments", "listAssignments", "listDenies"}

\* A call: its statement to come, its key (a deny and a reader use the scope only),
\* what it was asked for, the row it read, the expiry it writes or reports, the turn
\* of the loop, and what a reader answers.
Call == [pc : Writing \cup Reading \cup {"idle", "done"}, key : Key, asked : Asked,
         seen : Row, exp : Expiry, tries : Nat, answer : BOOLEAN]

\* No call, or one that failed.
NoCall == [pc |-> "idle", key |-> CHOOSE k \in Key : TRUE, asked |-> CHOOSE a \in Asked : TRUE,
           seen |-> NoRow, exp |-> Forever, tries |-> 0, answer |-> FALSE]

\* Vigente: strictly later than now.
Live(e, at) == e = Forever \/ e > at

\* Bug: a grant that names no expiry clears the one there is.
ResolveForever(previous, asked, at) == IF asked = Omitted THEN Forever ELSE asked

\* resolveGrantExpiry: the expiry of a row that is granted again.
Resolve(previous, asked, at) ==
    IF asked # Omitted THEN asked
    ELSE IF Live(previous, at) THEN previous ELSE Forever

\* The expiry of a new row.
Fresh(asked) == IF asked = Omitted THEN Forever ELSE asked

\* A live row, in one of these scopes, of a role that carries the permission.
GrantedIn(scopes) ==
    \E r \in Granting, t \in scopes : rows[<<r, t>>].id # 0 /\ Live(rows[<<r, t>>].exp, clock)

DeniedIn(scopes) == scopes \cap denies # {}

\* The scope of the call of c, and the scopes whose denies count there.
ScopeOf(c) == call[c].key[2]
ChainOf(c) == Chain[ScopeOf(c)]

Init ==
    /\ clock = 0
    /\ rows \in [Key -> {NoRow} \cup [id : {1}, exp : FirstExpiry]]
    /\ nextId = 2
    /\ denies \in SUBSET Scope
    /\ roles = Role
    /\ call = [c \in Client |-> NoCall]
    /\ open = [c \in Client |-> FALSE]
    /\ crossed = [c \in Client |-> FALSE]

-----------------------------------------------------------------------------
(* Calls begin, end and die.                                               *)

Begin(c, pc, k, asked) ==
    /\ call[c].pc \in {"idle", "done"}
    /\ call' = [call EXCEPT ![c] = [NoCall EXCEPT !.pc = pc, !.key = k, !.asked = asked]]
    /\ UNCHANGED <<clock, rows, nextId, denies, roles>>

\* The role is looked up in the memo of the catalog, which may be older than `roles`.
StartGrant(c, k, asked) == Begin(c, "find", k, asked)

StartDeny(c, s)      == Begin(c, "denyFind", <<NoCall.key[1], s>>, NoCall.asked)
StartAuthorize(c, s) == Begin(c, "readDenies", <<NoCall.key[1], s>>, NoCall.asked)
StartList(c, s)      == Begin(c, "listAssignments", <<NoCall.key[1], s>>, NoCall.asked)

Goto(c, pc) == call' = [call EXCEPT ![c].pc = pc]
Fail(c)     == call' = [call EXCEPT ![c] = NoCall]

\* The call returns: what a grant reports as expiresAt, what a reader answers.
Return(c, exp, answer) ==
    call' = [call EXCEPT ![c] = [NoCall EXCEPT !.pc = "done", !.exp = exp, !.answer = answer]]

\* A statement fails, its deadline passes (503) or the process dies.
GiveUp(c) ==
    /\ call[c].pc \in Writing \cup Reading
    /\ Fail(c)
    /\ UNCHANGED <<clock, rows, nextId, denies, roles>>

-----------------------------------------------------------------------------
(* grant().                                                                *)

\* refreshAssignment: the row is there; it is written only if its expiry changes.
Refresh(c) ==
    LET row == rows[call[c].key]
        exp == Resolve(row.exp, call[c].asked, clock)
    IN  IF exp = row.exp THEN Return(c, exp, FALSE)
        ELSE call' = [call EXCEPT ![c].pc = "update", ![c].seen = row, ![c].exp = exp]

Find(c) ==
    /\ call[c].pc = "find"
    /\ IF rows[call[c].key] = NoRow THEN Goto(c, "insert") ELSE Refresh(c)
    /\ UNCHANGED <<clock, rows, nextId, denies, roles>>

\* The INSERT: the unique key or the foreign key may refuse it, and so may the
\* backend, which may have written the row all the same.
Insert(c) ==
    LET k == call[c].key
        exp == Fresh(call[c].asked)
        lands == /\ rows[k] = NoRow /\ k[1] \in roles /\ nextId <= MaxRow
                 /\ rows' = [rows EXCEPT ![k] = [id |-> nextId, exp |-> exp]]
                 /\ nextId' = nextId + 1
    IN  /\ call[c].pc = "insert"
        /\ \/ lands /\ Return(c, exp, FALSE)
           \/ lands /\ Goto(c, "race")
           \/ Goto(c, "race") /\ UNCHANGED <<rows, nextId>>
        /\ UNCHANGED <<clock, denies, roles>>

\* The INSERT failed: read again; another grant may have won.
Race(c) ==
    /\ call[c].pc = "race"
    /\ IF rows[call[c].key] = NoRow THEN Fail(c) ELSE Refresh(c)
    /\ UNCHANGED <<clock, rows, nextId, denies, roles>>

\* Bug: the rows the UPDATE touched are not counted.
UpdateUncounted(c) ==
    LET k == call[c].key IN
    /\ call[c].pc = "update"
    /\ rows' = IF rows[k].id = call[c].seen.id THEN [rows EXCEPT ![k].exp = call[c].exp] ELSE rows
    /\ Return(c, call[c].exp, FALSE)
    /\ UNCHANGED <<clock, nextId, denies, roles>>

\* The UPDATE is by uuid: if that row is gone it touches none, and grant() starts
\* again, MaxTries times in all.
Update(c) ==
    LET k == call[c].key IN
    /\ call[c].pc = "update"
    /\ \/ /\ rows[k].id = call[c].seen.id
          /\ rows' = [rows EXCEPT ![k].exp = call[c].exp]
          /\ Return(c, call[c].exp, FALSE)
       \/ /\ rows[k].id # call[c].seen.id
          /\ IF call[c].tries + 1 = MaxTries THEN Fail(c)
             ELSE call' = [call EXCEPT ![c].pc = "find", ![c].seen = NoRow, ![c].exp = Forever,
                                       ![c].tries = @ + 1]
          /\ UNCHANGED rows
    /\ UNCHANGED <<clock, nextId, denies, roles>>

-----------------------------------------------------------------------------
(* deny(), and the operations of one statement or one transaction.         *)

DenyFind(c) ==
    /\ call[c].pc = "denyFind"
    /\ IF ScopeOf(c) \in denies THEN Return(c, Forever, FALSE) ELSE Goto(c, "denyInsert")
    /\ UNCHANGED <<clock, rows, nextId, denies, roles>>

DenyInsert(c) ==
    /\ call[c].pc = "denyInsert"
    /\ \/ /\ ScopeOf(c) \notin denies
          /\ denies' = denies \cup {ScopeOf(c)}
          /\ Return(c, Forever, FALSE) \/ Goto(c, "denyRace")
       \/ Goto(c, "denyRace") /\ UNCHANGED denies
    /\ UNCHANGED <<clock, rows, nextId, roles>>

DenyRace(c) ==
    /\ call[c].pc = "denyRace"
    /\ IF ScopeOf(c) \in denies THEN Return(c, Forever, FALSE) ELSE Fail(c)
    /\ UNCHANGED <<clock, rows, nextId, denies, roles>>

Revoke(k) ==
    /\ rows' = [rows EXCEPT ![k] = NoRow]
    /\ UNCHANGED <<clock, nextId, denies, roles, call>>

RemoveDeny(s) ==
    /\ denies' = denies \ {s}
    /\ UNCHANGED <<clock, rows, nextId, roles, call>>

\* Assignments and denies of the scope, in one transaction.
PurgeScope(s) ==
    /\ s # Root
    /\ rows' = [k \in Key |-> IF k[2] = s THEN NoRow ELSE rows[k]]
    /\ denies' = denies \ {s}
    /\ UNCHANGED <<clock, nextId, roles, call>>

PurgeRole(r) ==
    /\ r \in roles
    /\ rows' = [k \in Key |-> IF k[1] = r THEN NoRow ELSE rows[k]]
    /\ roles' = roles \ {r}
    /\ UNCHANGED <<clock, nextId, denies, call>>

Tick ==
    /\ clock < MaxClock
    /\ clock' = clock + 1
    /\ UNCHANGED <<rows, nextId, denies, roles, call>>

-----------------------------------------------------------------------------
(* authorize() and listScopes(), for one scope.                            *)

\* Bug: only the denies of the scope itself are read.
ReadOwnDenies(c) ==
    /\ call[c].pc = "readDenies"
    /\ IF DeniedIn({ScopeOf(c)}) THEN Return(c, Forever, FALSE) ELSE Goto(c, "readAssignments")
    /\ UNCHANGED <<clock, rows, nextId, denies, roles>>

ReadDenies(c) ==
    /\ call[c].pc = "readDenies"
    /\ IF DeniedIn(ChainOf(c)) THEN Return(c, Forever, FALSE) ELSE Goto(c, "readAssignments")
    /\ UNCHANGED <<clock, rows, nextId, denies, roles>>

ReadAssignments(c) ==
    /\ call[c].pc = "readAssignments"
    /\ Return(c, Forever, GrantedIn(ChainOf(c)))
    /\ UNCHANGED <<clock, rows, nextId, denies, roles>>

\* A listing reads the assignments of the scope itself, and then the denies.
ListAssignments(c) ==
    /\ call[c].pc = "listAssignments"
    /\ IF GrantedIn({ScopeOf(c)}) THEN Goto(c, "listDenies") ELSE Return(c, Forever, FALSE)
    /\ UNCHANGED <<clock, rows, nextId, denies, roles>>

ListDenies(c) ==
    /\ call[c].pc = "listDenies"
    /\ Return(c, Forever, ~DeniedIn(ChainOf(c)))
    /\ UNCHANGED <<clock, rows, nextId, denies, roles>>

\* What the reader c would be told if it read everything at this instant.
Permitted(c) ==
    /\ ~DeniedIn(ChainOf(c))
    /\ GrantedIn(IF call[c].pc \in {"listAssignments", "listDenies"}
                 THEN {ScopeOf(c)} ELSE ChainOf(c))

\* The two history variables follow every step.
Remember ==
    /\ open' = [c \in Client |-> call[c].pc \in Reading /\ (open[c] \/ Permitted(c))]
    /\ crossed' = [c \in Client |-> /\ call[c].pc \in Reading
                                    /\ \/ crossed[c]
                                       \/ /\ call[c].pc = "readAssignments"
                                          /\ ChainOf(c) \cap (denies' \ denies) # {}
                                       \/ /\ call[c].pc = "listDenies"
                                          /\ ChainOf(c) \cap (denies \ denies') # {}]

Start(c) ==
    \/ \E k \in Key, asked \in Asked : StartGrant(c, k, asked)
    \/ \E s \in Scope : StartDeny(c, s) \/ StartAuthorize(c, s) \/ StartList(c, s)

Write(c) == Find(c) \/ Insert(c) \/ Race(c) \/ Update(c) \/ DenyFind(c) \/ DenyInsert(c)
            \/ DenyRace(c) \/ GiveUp(c)

Read(c) == ReadDenies(c) \/ ReadAssignments(c) \/ ListAssignments(c) \/ ListDenies(c)

Step ==
    \/ \E c \in Client : Start(c) \/ Write(c) \/ Read(c)
    \/ \E k \in Key : Revoke(k)
    \/ \E s \in Scope : RemoveDeny(s) \/ PurgeScope(s)
    \/ \E r \in Role : PurgeRole(r)
    \/ Tick

Next == Step /\ Remember

Spec == Init /\ [][Next]_vars

-----------------------------------------------------------------------------
(* What the driver promises.                                               *)

TypeOK ==
    /\ clock \in Nat
    /\ rows \in [Key -> Row] /\ \A k \in Key : rows[k].id = 0 => rows[k] = NoRow
    /\ nextId \in Nat \ {0}
    /\ denies \subseteq Scope
    /\ roles \subseteq Role
    /\ call \in [Client -> Call]
    /\ open \in [Client -> BOOLEAN]
    /\ crossed \in [Client -> BOOLEAN]

\* What a call says it left written is written: when a grant returns an expiry the
\* row has it at that instant, when a deny returns the deny stands, whatever other
\* clients inserted, updated or purged since the call read.
OutcomeIsWritten ==
    [][\A c \in Client : call[c].pc \in Writing /\ call'[c].pc = "done" =>
          IF call[c].pc \in {"denyFind", "denyInsert", "denyRace"}
          THEN ScopeOf(c) \in denies'
          ELSE rows'[call[c].key].id # 0 /\ rows'[call[c].key].exp = call'[c].exp]_vars

\* A reader is told what held at some instant of its call.  A `no` holds when it is
\* given; a `yes` of authorize can only be wrong if a deny landed between its two
\* reads, one of a listing if a deny was lifted.
AnswerHeld ==
    [][\A c \in Client : call[c].pc \in Reading /\ call'[c].pc = "done" =>
          IF call'[c].answer THEN open'[c] \/ crossed'[c] ELSE ~Permitted(c)]_vars

\* "omitido: no tocar una caducidad VIGENTE": the UPDATE of a grant that names no
\* expiry never changes the expiry of a row that is live.
OmittedKeepsLive ==
    [][\A c \in Client :
          call[c].pc = "update" /\ call[c].asked = Omitted /\ call'[c].pc = "done" =>
              LET k == call[c].key IN rows'[k] = rows[k] \/ ~Live(rows[k].exp, clock)]_vars

\* What the call of c asks to be written.
Asking(c) ==
    CASE call[c].pc \in {"find", "insert", "race", "update"} ->
             {[op |-> "grant", key |-> call[c].key, asked |-> call[c].asked]}
      [] call[c].pc \in {"denyFind", "denyInsert", "denyRace"} ->
             {[op |-> "deny", scope |-> ScopeOf(c)]}
      [] OTHER -> {}

\* What the tables and the calls under way say to a client of the port.
StoreFacts == [k \in Key |-> IF rows[k].id = 0 THEN Absent ELSE rows[k].exp]
StoreAsks  == [c \in Client |-> Asking(c)]

\* The abstract store: grants and denies are single facts, every write is one step.
Store == INSTANCE Facts WITH facts <- StoreFacts, asks <- StoreAsks

\* The one thing the port does not promise and the driver does: c, which names no expiry,
\* read the row when it had expired; another grant has given it a date since, and c
\* revives it without one.
RevivesRenewed(c) ==
    LET k == call[c].key IN
    /\ call[c].pc = "update" /\ call[c].asked = Omitted
    /\ rows[k].id = call[c].seen.id
    /\ ~Live(call[c].seen.exp, clock)
    /\ rows[k].exp # Forever /\ Live(rows[k].exp, clock)
    /\ StoreFacts' = [StoreFacts EXCEPT ![k] = Forever]
    /\ StoreAsks' = [StoreAsks EXCEPT ![c] = {}]
    /\ UNCHANGED <<clock, denies, roles>>

\* Whatever dates grants name, the statements of all clients together do nothing the port
\* does not promise, but for that race: whatever a statement writes is what its own call
\* could have written there, at that instant, in one step.  An expiry that is live when a
\* grant that names none reads it outlives that grant, whoever else writes.
ImplementsPort ==
    Store!Init /\ [][Store!Next \/ \E c \in Client : RevivesRenewed(c)]_(Store!vars)

=============================================================================
