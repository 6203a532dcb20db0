---------------------------- MODULE CatalogCache ----------------------------
(***************************************************************************)
(* The memo of the catalog of one process (src/src/catalog/                *)
(* catalog_cache.ts).  Three tables hold permissions, roles and the links  *)
(* between them; a row of authz_catalog_version holds a version that every *)
(* writer raises in its own transaction.  A question asks the memo for a   *)
(* photo of the three tables.  The memo answers from memory, after         *)
(* comparing the version, or by reading the tables one after the other;    *)
(* concurrent questions share one comparison and one load.                 *)
(*                                                                         *)
(* Queries and writers interleave between any two reads.  A photo is       *)
(* represented by the version each of its tables was read at.              *)
(***************************************************************************)
EXTENDS Integers, Sequences, FiniteSets

CONSTANTS
    Question,   \* callers of view(), each with one question at a time
    Perm,       \* uuids of permissions
    Role,       \* uuids of roles
    First,      \* the catalogs there may be at the start
    Window,     \* everyMs in ticks; 0 is revalidate: 'always'
    LocalWriter,\* does this process call invalidateAuthzCatalog() / invalidate()?
    MaxVersion, \* bound: writes of the catalog
    MaxClock    \* bound: the monotonic clock stops there

VARIABLES
    history,    \* history[v+1]: what version v of the catalog holds, and when it landed
    clock,      \* performance.now()
    view,       \* #view, or NoPhoto
    fresh,      \* #isFresh(): nothing was invalidated since that photo began to load
    checkedAt,  \* #checkedAt
    check,      \* #checking: the comparison in flight, or NoCheck
    load,       \* #loading: the load in flight, or NoLoad
    ask,        \* ask[q]: the question of caller q and its answer
    floor       \* history: the version when the memo was last invalidated

vars == <<history, clock, view, fresh, checkedAt, check, load, ask, floor>>

Version == Len(history) - 1

Versions == 0..MaxVersion

\* The rows of the three tables; links refer to rows that exist.
Catalog == {c \in [perms : SUBSET Perm, roles : SUBSET Role, links : SUBSET (Role \X Perm)] :
               c.links \subseteq c.roles \X c.perms}

ASSUME CatalogAssumption ==
    /\ First \subseteq Catalog
    /\ Window \in Nat
    /\ LocalWriter \in BOOLEAN
    /\ MaxVersion \in Nat
    /\ MaxClock \in Nat

\* A photo: its label, and the version each table was read at.
Photo   == [label : Nat, perms : Nat, roles : Nat, links : Nat]
NoPhoto == [label |-> -1, perms |-> -1, roles |-> -1, links |-> -1]

\* The comparison: the version when its SELECT left, what it read, whether #view
\* was replaced since it began.
Check   == [phase : {"read", "resume", "reload", "self"}, from : Nat, read : Nat,
            replaced : BOOLEAN]
NoCheck == [phase |-> "none", from |-> 0, read |-> 0, replaced |-> FALSE]

\* The load: the photo so far, and whether its generation is still the current one.
Load   == [phase : {"version", "permissions", "roles", "links", "land"}, from : Nat,
           photo : Photo, fresh : BOOLEAN]
NoLoad == [phase |-> "none", from |-> 0, photo |-> NoPhoto, fresh |-> FALSE]

Blank == [label |-> 0, perms |-> 0, roles |-> 0, links |-> 0]

\* A question: what it waits for, the version when it was asked and when the
\* flight it joined left, and its answer: the photo, how and when it came.
Ask == [pc : {"idle", "check", "load", "done", "failed"}, asked : Nat, from : Nat,
        photo : Photo \cup {NoPhoto}, via : {"none", "memo", "check", "load"},
        at : Nat, floor : Nat]
NotAsked == [pc |-> "idle", asked |-> 0, from |-> 0, photo |-> NoPhoto, via |-> "none",
             at |-> 0, floor |-> 0]

Init ==
    /\ \E rows \in First : history = <<[rows |-> rows, at |-> 0]>>
    /\ clock = 0
    /\ view = NoPhoto
    /\ fresh = FALSE
    /\ checkedAt = 0
    /\ check = NoCheck
    /\ load = NoLoad
    /\ ask = [q \in Question |-> NotAsked]
    /\ floor = 0

-----------------------------------------------------------------------------
(* Asking: view().                                                         *)

IsFresh    == view # NoPhoto /\ fresh

\* Bug: the window ends one tick too late.
NeedsCheckLate == clock - checkedAt > Window

NeedsCheck == clock - checkedAt >= Window

Waiting(q) == ask[q].pc \in {"check", "load"}

Wait(q, pc, from) ==
    ask' = [ask EXCEPT ![q] = [NotAsked EXCEPT !.pc = pc, !.asked = Version, !.from = from]]

\* What every question that waits for `on` becomes when that settles.
Answered(on, photo, via) ==
    [q \in Question |->
        IF ask[q].pc \in on
        THEN [ask[q] EXCEPT !.pc = "done", !.photo = photo, !.via = via,
                            !.at = clock, !.floor = floor]
        ELSE ask[q]]

Refused(on) ==
    [q \in Question |-> IF ask[q].pc \in on THEN [ask[q] EXCEPT !.pc = "failed"] ELSE ask[q]]

\* The photo is served as it is: the window since the last check is not over.
AskMemo(q) ==
    /\ ~Waiting(q)
    /\ IsFresh
    /\ ~NeedsCheck
    /\ ask' = [ask EXCEPT ![q] = [pc |-> "done", asked |-> Version, from |-> 0, photo |-> view,
                                  via |-> "memo", at |-> clock, floor |-> floor]]
    /\ UNCHANGED <<history, clock, view, fresh, checkedAt, check, load, floor>>

\* The photo has to be compared with the row: join the comparison, or start it.
AskCheck(q) ==
    /\ ~Waiting(q)
    /\ IsFresh
    /\ NeedsCheck
    /\ check' = IF check = NoCheck
                THEN [phase |-> "read", from |-> Version, read |-> 0, replaced |-> FALSE]
                ELSE check
    /\ Wait(q, "check", check'.from)
    /\ UNCHANGED <<history, clock, view, fresh, checkedAt, load, floor>>

ColdLoad == [phase |-> "version", from |-> Version, photo |-> Blank, fresh |-> TRUE]

\* No photo, or an invalidated one: join the load, or start it.
AskLoad(q) ==
    /\ ~Waiting(q)
    /\ ~IsFresh
    /\ load' = IF load = NoLoad THEN ColdLoad ELSE load
    /\ Wait(q, "load", load'.from)
    /\ UNCHANGED <<history, clock, view, fresh, checkedAt, check, floor>>

-----------------------------------------------------------------------------
(* The comparison: #revalidate().                                          *)

\* Bug: the comparison is made with the version the memo remembers.
CheckReadRemembered ==
    /\ check.phase = "read"
    /\ check' = [check EXCEPT !.phase = "resume", !.read = view.label]
    /\ UNCHANGED <<history, clock, view, fresh, checkedAt, load, ask, floor>>

\* The database answers the SELECT of the version.
CheckRead ==
    /\ check.phase = "read"
    /\ check' = [check EXCEPT !.phase = "resume", !.read = Version]
    /\ UNCHANGED <<history, clock, view, fresh, checkedAt, load, ask, floor>>

\* Same version, nothing invalidated: the photo is current.
CheckServes ==
    /\ check.phase = "resume"
    /\ ~check.replaced
    /\ check.read = view.label
    /\ fresh
    /\ checkedAt' = clock
    /\ check' = NoCheck
    /\ ask' = Answered({"check"}, view, "check")
    /\ UNCHANGED <<history, clock, view, fresh, load, floor>>

\* The database is ahead: reload with the version just read, or join the load.
CheckReloads ==
    /\ check.phase = "resume"
    /\ ~check.replaced
    /\ check.read # view.label \/ ~fresh
    /\ check' = [check EXCEPT !.phase = "reload"]
    /\ load' = IF load = NoLoad
               THEN [phase |-> "permissions", from |-> check.from, fresh |-> TRUE,
                     photo |-> [Blank EXCEPT !.label = check.read]]
               ELSE load
    /\ UNCHANGED <<history, clock, view, fresh, checkedAt, ask, floor>>

\* Another load replaced the photo meanwhile: `return this.view()`, which finds
\* #checking still set to this very comparison and waits for it.
CheckSuperseded ==
    /\ check.phase = "resume"
    /\ check.replaced
    /\ \/ /\ IsFresh /\ NeedsCheck
          /\ check' = [check EXCEPT !.phase = "self"]
          /\ UNCHANGED <<load, ask>>
       \/ /\ IsFresh /\ ~NeedsCheck
          /\ check' = NoCheck
          /\ ask' = Answered({"check"}, view, "memo")
          /\ UNCHANGED load
       \/ /\ ~IsFresh
          /\ check' = [check EXCEPT !.phase = "reload"]
          /\ load' = IF load = NoLoad THEN ColdLoad ELSE load
          /\ UNCHANGED ask
    /\ UNCHANGED <<history, clock, view, fresh, checkedAt, floor>>

\* The SELECT fails or reaches its deadline: 503 to everybody who waits for it.
CheckFails ==
    /\ check.phase = "read"
    /\ check' = NoCheck
    /\ ask' = Refused({"check"})
    /\ UNCHANGED <<history, clock, view, fresh, checkedAt, load, floor>>

-----------------------------------------------------------------------------
(* The load: #load().                                                      *)

\* Bug: the questions of the comparison that reloads are forgotten.
OnLoadOnly == {"load"}

\* The questions a load answers: those that joined it and, if the comparison in
\* flight reloads, those that joined the comparison.
OnLoad == IF check.phase = "reload" THEN {"load", "check"} ELSE {"load"}

CheckAfterLoad ==
    IF check = NoCheck \/ check.phase = "reload" THEN NoCheck
    ELSE [check EXCEPT !.replaced = TRUE]

\* Bug: the links are read first and the permissions last.
StepReversed(from, to, table) ==
    LET read == CASE table = "perms" -> "links" [] table = "links" -> "perms" [] OTHER -> table
    IN  /\ load.phase = from
        /\ load' = [load EXCEPT !.phase = to, !.photo[read] = Version]
        /\ UNCHANGED <<history, clock, view, fresh, checkedAt, check, ask, floor>>

Step(from, to, table) ==
    /\ load.phase = from
    /\ load' = [load EXCEPT !.phase = to, !.photo[table] = Version]
    /\ UNCHANGED <<history, clock, view, fresh, checkedAt, check, ask, floor>>

\* The version is read before the tables: whatever lands later makes the photo old.
LoadVersion     == Step("version", "permissions", "label")
LoadPermissions == Step("permissions", "roles", "perms")
LoadRoles       == Step("roles", "links", "roles")
LoadLinks       == Step("links", "land", "links")

\* Bug: the photo is labelled with the version there is when it lands.
LoadLandsRelabelled ==
    /\ load.phase = "land"
    /\ view' = [load.photo EXCEPT !.label = Version]
    /\ fresh' = load.fresh
    /\ checkedAt' = clock
    /\ load' = NoLoad
    /\ check' = CheckAfterLoad
    /\ ask' = Answered(OnLoad, load.photo, "load")
    /\ UNCHANGED <<history, clock, floor>>

\* Bug: the generation is captured when the photo lands.
LoadLandsFresh ==
    /\ load.phase = "land"
    /\ view' = load.photo
    /\ fresh' = TRUE
    /\ checkedAt' = clock
    /\ load' = NoLoad
    /\ check' = CheckAfterLoad
    /\ ask' = Answered(OnLoad, load.photo, "load")
    /\ UNCHANGED <<history, clock, floor>>

\* The photo replaces the one of the memo, whole, and everybody gets it.
LoadLands ==
    /\ load.phase = "land"
    /\ view' = load.photo
    /\ fresh' = load.fresh
    /\ checkedAt' = clock
    /\ load' = NoLoad
    /\ check' = CheckAfterLoad
    /\ ask' = Answered(OnLoad, load.photo, "load")
    /\ UNCHANGED <<history, clock, floor>>

\* A query fails or reaches its deadline, or the rows are corrupt: nothing is
\* memoised and everybody gets the error.
LoadFails ==
    /\ load # NoLoad
    /\ load' = NoLoad
    /\ check' = IF check.phase = "reload" THEN NoCheck ELSE check
    /\ ask' = Refused(OnLoad)
    /\ UNCHANGED <<history, clock, view, fresh, checkedAt, floor>>

-----------------------------------------------------------------------------
(* The environment: writers, invalidations, time.                          *)

\* withAuthzCatalogWrite of any process commits: rows and version in one
\* transaction, writers one at a time (the version row is locked first).
Commit(rows) ==
    /\ Version < MaxVersion
    /\ history' = Append(history, [rows |-> rows, at |-> clock])
    /\ UNCHANGED <<clock, view, fresh, checkedAt, check, load, ask, floor>>

\* invalidateAuthzCatalog() or invalidate(): counters this photo and the load in
\* flight remember go up, so neither is fresh any more.
Invalidate ==
    /\ LocalWriter
    /\ fresh' = FALSE
    /\ load' = IF load = NoLoad THEN NoLoad ELSE [load EXCEPT !.fresh = FALSE]
    /\ floor' = Version
    /\ UNCHANGED <<history, clock, view, checkedAt, check, ask>>

\* Time passes.  A flight is short against a tick: its queries have a deadline
\* (timeoutMs) far below the window.
Tick ==
    /\ clock < MaxClock
    /\ check = NoCheck /\ load = NoLoad
    /\ clock' = clock + 1
    /\ UNCHANGED <<history, view, fresh, checkedAt, check, load, ask, floor>>

CheckStep == CheckRead \/ CheckServes \/ CheckReloads \/ CheckSuperseded \/ CheckFails
LoadStep  == LoadVersion \/ LoadPermissions \/ LoadRoles \/ LoadLinks \/ LoadLands \/ LoadFails

Next ==
    \/ \E q \in Question : AskMemo(q) \/ AskCheck(q) \/ AskLoad(q)
    \/ CheckStep
    \/ LoadStep
    \/ \E rows \in Catalog : Commit(rows)
    \/ Invalidate
    \/ Tick

Spec == Init /\ [][Next]_vars

\* Every query answers or reaches its deadline, and the event loop runs what
\* follows: nothing is assumed of callers, writers or the clock.
FairSpec == Spec /\ WF_vars(CheckStep) /\ WF_vars(LoadStep)

-----------------------------------------------------------------------------
(* Properties.                                                             *)

\* Every variable has its type.
TypeOK ==
    /\ history \in Seq([rows : Catalog, at : Nat]) /\ Version \in Versions
    /\ clock \in Nat /\ checkedAt \in Nat /\ floor \in Nat
    /\ view \in Photo \cup {NoPhoto}
    /\ fresh \in BOOLEAN
    /\ check \in Check \cup {NoCheck}
    /\ load \in Load \cup {NoLoad}
    /\ ask \in [Question -> Ask]

\* What a photo of the tables grants.
Grants(p) ==
    {l \in history[p.links + 1].rows.links :
        /\ l[1] \in history[p.roles + 1].rows.roles
        /\ l[2] \in history[p.perms + 1].rows.perms}

Rows(v) == history[v + 1].rows

\* The label never claims more than the data: a photo whose label is the version
\* of the database is whole and is the catalog of that version, so a comparison
\* can never certify a torn or an old photo for good (the reason the version is
\* read first and bumped inside the transaction).
CurrentMeansWhole ==
    view # NoPhoto /\ view.label = Version =>
        view.perms = Version /\ view.roles = Version /\ view.links = Version

\* "A mixed photo can only be more restrictive": whatever a photo read in the
\* middle of a sync grants, the last catalog it touched grants too.
MixedIsRestrictive ==
    \A q \in Question :
        LET p == ask[q].photo
            touched == {p.perms, p.roles, p.links}
            last == CHOOSE v \in touched : \A u \in touched : u <= v
        IN  ask[q].pc = "done" => Grants(p) \subseteq Rows(last).links

\* Sharing a flight costs at most that flight: the answer is never older than
\* the moment the comparison or load it came from left for the database.
FlightSees ==
    \A q \in Question : ask[q].pc = "done" /\ ask[q].via # "memo" =>
        ask[q].photo.label >= ask[q].from

\* An invalidation in this process is never lost, not even one that arrives in
\* the middle of a load: no photo is served unchecked that holds a table read
\* before it.
InvalidationHolds ==
    \A q \in Question : ask[q].pc = "done" /\ ask[q].via = "memo" =>
        ask[q].photo.perms >= ask[q].floor

\* With { everyMs } an answer served unchecked lacks only what was committed
\* less than a window before it was served.
WindowBounds ==
    \A q \in Question : ask[q].pc = "done" /\ ask[q].via = "memo" =>
        \A v \in (ask[q].photo.label + 1)..Version :
            ask[q].at - history[v + 1].at < Window

\* Every question gets an answer or an error, whatever fails, unless the comparison it is
\* in was overtaken by a load and waits for itself.
QuestionsEndOrHang ==
    \A q \in Question : Waiting(q) ~> (~Waiting(q) \/ check.phase = "self")

\* Every question gets an answer or an error.
EveryQuestionEnds == \A q \in Question : Waiting(q) ~> ~Waiting(q)

=============================================================================
