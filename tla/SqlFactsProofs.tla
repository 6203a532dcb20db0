--------------------------- MODULE SqlFactsProofs ---------------------------
(***************************************************************************)
(* The facts of the SQL driver, for every set of clients, roles and scopes *)
(* and every bound: what a call says it wrote is written, what a reader is *)
(* told held, and, where no grant names a date, the statements implement   *)
(* the one-step store of Facts.                                            *)
(***************************************************************************)
EXTENDS SqlFacts, TLAPS

-----------------------------------------------------------------------------
(* Types.                                                                  *)

\* A call that has not begun is a call.
LEMMA NoCallType == NoCall \in Call
<1>1. PICK r \in Role : TRUE
  BY SqlFactsAssumption
<1>2. <<r, Root>> \in Key
  BY <1>1, SqlFactsAssumption DEF Key
<1>3. (CHOOSE k \in Key : TRUE) \in Key
  BY <1>2
<1>4. PICK some \in Asked : TRUE
  BY SqlFactsAssumption
<1>5. (CHOOSE a \in Asked : TRUE) \in Asked
  BY <1>4
<1>6. NoRow \in Row
  BY DEF NoRow, Row, Expiry, Forever
<1>7. Forever \in Expiry
  BY DEF Expiry
<1>. QED
  BY <1>3, <1>5, <1>6, <1>7 DEF NoCall, Call

\* Absent, Omitted and Forever are not dates, and a call is in one kind of statement.
LEMMA Resolved ==
    ASSUME NEW previous \in Expiry, NEW asked \in Asked, NEW at \in Nat
    PROVE  Resolve(previous, asked, at) \in Expiry
BY SqlFactsAssumption DEF Resolve, Expiry, Forever, Omitted

LEMMA FreshType == ASSUME NEW asked \in Asked PROVE Fresh(asked) \in Expiry
BY SqlFactsAssumption DEF Fresh, Expiry, Forever, Omitted

\* What each way of moving a call on does to it.
LEMMA BeginCall ==
    ASSUME TypeOK, NEW c \in Client, NEW pc \in Writing \cup Reading, NEW k \in Key,
           NEW asked \in Asked, Begin(c, pc, k, asked)
    PROVE  call' \in [Client -> Call]
<1>1. [NoCall EXCEPT !.pc = pc, !.key = k, !.asked = asked] \in Call
  BY NoCallType DEF Call
<1>. QED
  BY <1>1 DEF TypeOK, Begin

LEMMA GotoCall ==
    ASSUME TypeOK, NEW c \in Client, NEW pc \in Writing \cup Reading, Goto(c, pc)
    PROVE  call' \in [Client -> Call]
<1>1. [call[c] EXCEPT !.pc = pc] \in Call
  BY DEF TypeOK, Call
<1>. QED
  BY <1>1 DEF TypeOK, Goto

LEMMA FailCall ==
    ASSUME TypeOK, NEW c \in Client, Fail(c)
    PROVE  call' \in [Client -> Call]
BY NoCallType DEF TypeOK, Fail

LEMMA ReturnCall ==
    ASSUME TypeOK, NEW c \in Client, NEW exp \in Expiry, NEW answer \in BOOLEAN,
           Return(c, exp, answer)
    PROVE  call' \in [Client -> Call]
<1>1. [NoCall EXCEPT !.pc = "done", !.exp = exp, !.answer = answer] \in Call
  BY NoCallType DEF Call
<1>. QED
  BY <1>1 DEF TypeOK, Return

LEMMA CallParts ==
    ASSUME TypeOK, NEW c \in Client
    PROVE  /\ call[c] \in Call /\ call[c].key \in Key /\ call[c].asked \in Asked
           /\ rows[call[c].key] \in Row /\ rows[call[c].key].exp \in Expiry
           /\ call[c].exp \in Expiry /\ call[c].tries \in Nat /\ call[c].seen \in Row
           /\ ScopeOf(c) \in Scope /\ call[c].key[1] \in Role
BY DEF TypeOK, Call, Row, Key, ScopeOf

LEMMA RefreshCall ==
    ASSUME TypeOK, NEW c \in Client, Refresh(c)
    PROVE  call' \in [Client -> Call]
<1>. DEFINE row == rows[call[c].key]
            exp == Resolve(row.exp, call[c].asked, clock)
<1>1. exp \in Expiry
  BY CallParts, Resolved DEF TypeOK
<1>2. CASE exp = row.exp
  BY <1>1, <1>2, ReturnCall DEF Refresh
<1>3. CASE exp # row.exp
  <2>1. [call[c] EXCEPT !.pc = "update", !.seen = row, !.exp = exp] \in Call
    BY <1>1, CallParts DEF Call, Writing
  <2>2. call' = [call EXCEPT ![c] = [call[c] EXCEPT !.pc = "update", !.seen = row, !.exp = exp]]
    BY <1>3 DEF Refresh, TypeOK
  <2>. QED
    BY <2>1, <2>2 DEF TypeOK
<1>. QED
  BY <1>2, <1>3

LEMMA InitTyped == Init => TypeOK
<1>. SUFFICES ASSUME Init PROVE TypeOK
  OBVIOUS
<1>1. rows \in [Key -> Row] /\ \A k \in Key : rows[k].id = 0 => rows[k] = NoRow
  <2>1. {NoRow} \cup [id : {1}, exp : FirstExpiry] \subseteq Row
    <3>1. NoRow \in Row
      BY DEF NoRow, Row, Expiry, Forever
    <3>2. ASSUME NEW row \in [id : {1}, exp : FirstExpiry]
          PROVE  row \in Row
      <4>1. row.exp \in Expiry
        BY SqlFactsAssumption
      <4>. QED
        BY <4>1 DEF Row
    <3>. QED
      BY <3>1, <3>2
  <2>2. \A row \in {NoRow} \cup [id : {1}, exp : FirstExpiry] : row.id = 0 => row = NoRow
    OBVIOUS
  <2>. QED
    BY <2>1, <2>2 DEF Init
<1>. QED
  BY <1>1, NoCallType DEF Init, TypeOK

\* Uuids are never used twice, and an UPDATE is of a row that was read.
Known ==
    /\ \A k \in Key : rows[k].id < nextId
    /\ \A c \in Client : call[c].pc = "update" =>
           call[c].seen.id # 0 /\ call[c].seen.id < nextId

\* A write of one row by the statement of a call.
LEMMA RowWritten ==
    ASSUME TypeOK, NEW k \in Key, NEW row \in Row, row.id # 0,
           rows' = [rows EXCEPT ![k] = row]
    PROVE  rows' \in [Key -> Row] /\ \A j \in Key : rows'[j].id = 0 => rows'[j] = NoRow
BY DEF TypeOK

LEMMA RowsGone ==
    ASSUME TypeOK, NEW gone \in SUBSET Key,
           rows' = [k \in Key |-> IF k \in gone THEN NoRow ELSE rows[k]]
    PROVE  rows' \in [Key -> Row] /\ \A j \in Key : rows'[j].id = 0 => rows'[j] = NoRow
BY DEF TypeOK, NoRow, Row, Expiry, Forever

\* The step of a call that only moves it on.
Kept == UNCHANGED <<clock, rows, nextId, denies, roles>>

LEMMA KeptTyped ==
    ASSUME TypeOK, Kept, Remember, call' \in [Client -> Call]
    PROVE  TypeOK'
BY DEF TypeOK, Kept, Remember

LEMMA StepTyped ==
    ASSUME TypeOK, Known, Next
    PROVE  TypeOK'
<1>. USE DEF Writing, Reading
<1>1. Remember
  BY DEF Next
<1>2. open' \in [Client -> BOOLEAN] /\ crossed' \in [Client -> BOOLEAN]
  BY <1>1 DEF Remember
<1>3. ASSUME NEW c \in Client, Start(c)
      PROVE  TypeOK'
  <2>1. NoCall.key[1] \in Role /\ NoCall.asked \in Asked
    BY NoCallType DEF Call, Key
  <2>2. call' \in [Client -> Call] /\ Kept
    <3>1. ASSUME NEW k \in Key, NEW asked \in Asked, StartGrant(c, k, asked)
          PROVE  call' \in [Client -> Call] /\ Kept
      BY <3>1, BeginCall, Zenon DEF StartGrant, Begin, Kept
    <3>2. ASSUME NEW s \in Scope, StartDeny(c, s) \/ StartAuthorize(c, s) \/ StartList(c, s)
          PROVE  call' \in [Client -> Call] /\ Kept
      <4>1. <<NoCall.key[1], s>> \in Key
        BY <2>1 DEF Key
      <4>2. PICK pc \in {"denyFind", "readDenies", "listAssignments"} :
                 Begin(c, pc, <<NoCall.key[1], s>>, NoCall.asked)
        BY <3>2 DEF StartDeny, StartAuthorize, StartList
      <4>3. call' \in [Client -> Call]
        BY <2>1, <4>1, <4>2, BeginCall
      <4>. QED
        BY <4>2, <4>3 DEF Begin, Kept
    <3>. QED
      BY <1>3, <3>1, <3>2 DEF Start
  <2>. QED
    BY <1>1, <2>2, KeptTyped
<1>4. ASSUME NEW c \in Client, Find(c) \/ Race(c) \/ GiveUp(c) \/ DenyFind(c) \/ DenyRace(c)
      PROVE  TypeOK'
  <2>1. \/ Goto(c, "insert") \/ Goto(c, "denyInsert") \/ Fail(c) \/ Refresh(c)
        \/ Return(c, Forever, FALSE)
    BY <1>4 DEF Find, Race, GiveUp, DenyFind, DenyRace
  <2>2. Kept
    BY <1>4 DEF Find, Race, GiveUp, DenyFind, DenyRace, Kept
  <2>3. Forever \in Expiry
    BY DEF Expiry
  <2>4. call' \in [Client -> Call]
    BY <2>1, <2>3, GotoCall, FailCall, RefreshCall, ReturnCall
  <2>. QED
    BY <1>1, <2>2, <2>4, KeptTyped
<1>5. ASSUME NEW c \in Client, Insert(c)
      PROVE  TypeOK'
  <2>. DEFINE k == call[c].key
              exp == Fresh(call[c].asked)
  <2>1. exp \in Expiry
    BY CallParts, FreshType
  <2>2. call' \in [Client -> Call]
    <3>1. Return(c, exp, FALSE) \/ Goto(c, "race")
      BY <1>5 DEF Insert
    <3>. QED
      BY <2>1, <3>1, GotoCall, ReturnCall
  <2>3. /\ rows' \in [Key -> Row] /\ \A j \in Key : rows'[j].id = 0 => rows'[j] = NoRow
        /\ nextId' \in Nat \ {0}
    <3>1. CASE UNCHANGED <<rows, nextId>>
      BY <3>1 DEF TypeOK
    <3>2. CASE /\ rows' = [rows EXCEPT ![k] = [id |-> nextId, exp |-> exp]]
               /\ nextId' = nextId + 1
      <4>1. [id |-> nextId, exp |-> exp] \in Row /\ nextId # 0
        BY <2>1 DEF Row, TypeOK
      <4>2. k \in Key
        BY CallParts
      <4>. QED
        BY <3>2, <4>1, <4>2, RowWritten DEF TypeOK
    <3>. QED
      BY <1>5, <3>1, <3>2 DEF Insert
  <2>. QED
    BY <1>2, <1>5, <2>2, <2>3 DEF TypeOK, Insert
<1>6. ASSUME NEW c \in Client, Update(c)
      PROVE  TypeOK'
  <2>. DEFINE k == call[c].key
  <2>1. k \in Key /\ call[c].exp \in Expiry /\ rows[k] \in Row /\ call[c].tries \in Nat
    BY CallParts
  <2>2. CASE rows[k].id = call[c].seen.id
    <3>1. /\ rows' = [rows EXCEPT ![k] = [rows[k] EXCEPT !.exp = call[c].exp]]
          /\ Return(c, call[c].exp, FALSE)
      BY <1>6, <2>2 DEF Update, TypeOK
    <3>2. call' \in [Client -> Call]
      BY <2>1, <3>1, ReturnCall
    <3>3. rows' \in [Key -> Row] /\ \A j \in Key : rows'[j].id = 0 => rows'[j] = NoRow
      <4>1. [rows[k] EXCEPT !.exp = call[c].exp] \in Row
        BY <2>1 DEF Row
      <4>2. rows[k].id # 0
        BY <1>6, <2>2 DEF Update, Known
      <4>. QED
        BY <2>1, <3>1, <4>1, <4>2, RowWritten DEF Row
    <3>. QED
      BY <1>2, <1>6, <3>2, <3>3 DEF TypeOK, Update
  <2>3. CASE rows[k].id # call[c].seen.id
    <3>1. \/ Fail(c)
          \/ call' = [call EXCEPT ![c] = [call[c] EXCEPT !.pc = "find", !.seen = NoRow,
                                            !.exp = Forever, !.tries = call[c].tries + 1]]
      BY <1>6, <2>3 DEF Update, TypeOK
    <3>2. [call[c] EXCEPT !.pc = "find", !.seen = NoRow, !.exp = Forever,
                          !.tries = call[c].tries + 1] \in Call
      <4>1. NoRow \in Row /\ Forever \in Expiry /\ call[c].tries + 1 \in Nat
        BY <2>1 DEF NoRow, Row, Expiry, Forever
      <4>2. call[c] \in Call
        BY CallParts
      <4>. QED
        BY <4>1, <4>2 DEF Call
    <3>3. call' \in [Client -> Call]
      BY <3>1, <3>2, FailCall DEF TypeOK
    <3>. QED
      BY <1>1, <1>6, <2>3, <3>3, KeptTyped DEF Update, Kept
  <2>. QED
    BY <2>2, <2>3
<1>7. ASSUME NEW c \in Client, DenyInsert(c)
      PROVE  TypeOK'
  <2>1. Goto(c, "denyRace") \/ Return(c, Forever, FALSE)
    BY <1>7 DEF DenyInsert
  <2>2. call' \in [Client -> Call]
    BY <2>1, GotoCall, ReturnCall DEF Expiry
  <2>3. denies' \subseteq Scope
    <3>1. ScopeOf(c) \in Scope /\ denies \subseteq Scope
      BY CallParts DEF TypeOK
    <3>. QED
      BY <1>7, <3>1 DEF DenyInsert
  <2>. QED
    BY <1>2, <1>7, <2>2, <2>3 DEF TypeOK, DenyInsert
<1>8. ASSUME NEW c \in Client, Read(c)
      PROVE  TypeOK'
  <2>1. \/ Goto(c, "readAssignments") \/ Goto(c, "listDenies")
        \/ \E answer \in BOOLEAN : Return(c, Forever, answer)
    BY <1>8 DEF Read, ReadDenies, ReadAssignments, ListAssignments, ListDenies, GrantedIn, DeniedIn
  <2>2. call' \in [Client -> Call]
    BY <2>1, GotoCall, ReturnCall DEF Expiry
  <2>3. Kept
    BY <1>8 DEF Read, ReadDenies, ReadAssignments, ListAssignments, ListDenies, Kept
  <2>. QED
    BY <1>1, <2>2, <2>3, KeptTyped
<1>9. ASSUME NEW k \in Key, Revoke(k)
      PROVE  TypeOK'
  <2>1. rows' = [j \in Key |-> IF j \in {k} THEN NoRow ELSE rows[j]]
    BY <1>9 DEF Revoke, TypeOK
  <2>. QED
    BY <1>2, <1>9, <2>1, RowsGone DEF TypeOK, Revoke
<1>10. ASSUME NEW s \in Scope, RemoveDeny(s)
       PROVE  TypeOK'
  BY <1>2, <1>10 DEF TypeOK, RemoveDeny
<1>11. ASSUME NEW s \in Scope, PurgeScope(s)
       PROVE  TypeOK'
  <2>1. rows' = [j \in Key |-> IF j \in {i \in Key : i[2] = s} THEN NoRow ELSE rows[j]]
    BY <1>11 DEF PurgeScope
  <2>. QED
    BY <1>2, <1>11, <2>1, RowsGone DEF TypeOK, PurgeScope
<1>12. ASSUME NEW r \in Role, PurgeRole(r)
       PROVE  TypeOK'
  <2>1. rows' = [j \in Key |-> IF j \in {i \in Key : i[1] = r} THEN NoRow ELSE rows[j]]
    BY <1>12 DEF PurgeRole
  <2>. QED
    BY <1>2, <1>12, <2>1, RowsGone DEF TypeOK, PurgeRole
<1>13. ASSUME Tick
       PROVE  TypeOK'
  BY <1>2, <1>13 DEF TypeOK, Tick
<1>. QED
  BY <1>3, <1>4, <1>5, <1>6, <1>7, <1>8, <1>9, <1>10, <1>11, <1>12, <1>13
     DEF Next, Step, Write

-----------------------------------------------------------------------------
(* Who moves, and how.                                                     *)

\* What the ways of moving a call on leave in it.
LEMMA Moved ==
    ASSUME TypeOK, NEW c \in Client
    PROVE  /\ \A exp, answer : Return(c, exp, answer) =>
                  /\ call'[c].pc = "done" /\ call'[c].exp = exp /\ call'[c].answer = answer
           /\ Fail(c) => call'[c] = NoCall /\ call'[c].pc = "idle"
           /\ \A pc : Goto(c, pc) =>
                  /\ call'[c].pc = pc /\ call'[c].key = call[c].key
                  /\ call'[c].asked = call[c].asked
           /\ \A pc, k, asked : Begin(c, pc, k, asked) =>
                  /\ call'[c].pc = pc /\ call'[c].key = k /\ call'[c].asked = asked
<1>. call \in [Client -> Call] /\ call[c] \in Call
  BY DEF TypeOK
<1>1. ASSUME NEW exp, NEW answer, Return(c, exp, answer)
      PROVE  call'[c].pc = "done" /\ call'[c].exp = exp /\ call'[c].answer = answer
  BY <1>1 DEF Return, NoCall
<1>2. ASSUME Fail(c) PROVE call'[c] = NoCall /\ call'[c].pc = "idle"
  BY <1>2 DEF Fail, NoCall
<1>3. ASSUME NEW pc, Goto(c, pc)
      PROVE  call'[c].pc = pc /\ call'[c].key = call[c].key /\ call'[c].asked = call[c].asked
  BY <1>3 DEF Goto, Call
<1>4. ASSUME NEW pc, NEW k, NEW asked, Begin(c, pc, k, asked)
      PROVE  call'[c].pc = pc /\ call'[c].key = k /\ call'[c].asked = asked
  BY <1>4 DEF Begin, NoCall
<1>. QED
  BY <1>1, <1>2, <1>3, <1>4

\* A refresh returns what the row has, or goes on to write something else.
LEMMA Refreshed ==
    ASSUME TypeOK, NEW c \in Client, Refresh(c)
    PROVE  LET row == rows[call[c].key]
               exp == Resolve(row.exp, call[c].asked, clock)
           IN  \/ exp = row.exp /\ Return(c, exp, FALSE)
               \/ /\ exp # row.exp
                  /\ call'[c].pc = "update" /\ call'[c].seen = row /\ call'[c].exp = exp
                  /\ call'[c].key = call[c].key /\ call'[c].asked = call[c].asked
<1>. DEFINE row == rows[call[c].key]
            exp == Resolve(row.exp, call[c].asked, clock)
<1>1. call \in [Client -> Call] /\ call[c] \in Call
  BY DEF TypeOK
<1>2. CASE exp = row.exp
  BY <1>2 DEF Refresh
<1>3. CASE exp # row.exp
  <2>1. call' = [call EXCEPT ![c] = [call[c] EXCEPT !.pc = "update", !.seen = row, !.exp = exp]]
    BY <1>1, <1>3 DEF Refresh
  <2>2. call'[c] = [call[c] EXCEPT !.pc = "update", !.seen = row, !.exp = exp]
    BY <1>1, <2>1
  <2>. QED
    BY <1>1, <1>3, <2>2 DEF Call
<1>. QED
  BY <1>2, <1>3

\* One client moves at a time.
LEMMA OthersRest ==
    ASSUME TypeOK, NEW c \in Client, NEW d \in Client, d # c, Start(c) \/ Write(c) \/ Read(c)
    PROVE  call'[d] = call[d]
<1>. call \in [Client -> Call]
  BY DEF TypeOK
<1>1. CASE Start(c)
  BY <1>1 DEF Start, StartGrant, StartDeny, StartAuthorize, StartList, Begin
<1>2. CASE Find(c) \/ Insert(c) \/ Race(c)
  BY <1>2 DEF Find, Insert, Race, Goto, Fail, Return, Refresh
<1>3. CASE Update(c) \/ GiveUp(c)
  BY <1>3 DEF Update, GiveUp, Fail, Return
<1>4. CASE DenyFind(c) \/ DenyInsert(c) \/ DenyRace(c)
  BY <1>4 DEF DenyFind, DenyInsert, DenyRace, Goto, Fail, Return
<1>5. CASE Read(c)
  BY <1>5 DEF Read, ReadDenies, ReadAssignments, ListAssignments, ListDenies, Goto, Return
<1>. QED
  BY <1>1, <1>2, <1>3, <1>4, <1>5 DEF Write

\* Only a refresh leads to an UPDATE.
LEMMA ToUpdate ==
    ASSUME TypeOK, NEW c \in Client, Start(c) \/ Write(c) \/ Read(c), call'[c].pc = "update"
    PROVE  /\ Refresh(c) /\ Kept /\ rows[call[c].key] # NoRow
           /\ call[c].pc \in {"find", "race"}
<1>1. CASE Start(c)
  BY <1>1, Moved DEF Start, StartGrant, StartDeny, StartAuthorize, StartList
<1>2. CASE Find(c)
  BY <1>2, Moved DEF Find, Kept
<1>3. CASE Race(c)
  BY <1>3, Moved DEF Race, Kept
<1>4. CASE Insert(c)
  <2>1. Return(c, Fresh(call[c].asked), FALSE) \/ Goto(c, "race")
    BY <1>4 DEF Insert
  <2>2. CASE Return(c, Fresh(call[c].asked), FALSE)
    <3>1. call'[c].pc = "done"
      BY <2>2, Moved
    <3>. QED
      BY <3>1
  <2>3. CASE Goto(c, "race")
    <3>1. call'[c].pc = "race"
      BY <2>3, Moved
    <3>. QED
      BY <3>1
  <2>. QED
    BY <2>1, <2>2, <2>3
<1>5. CASE Update(c)
  <2>1. \/ Return(c, call[c].exp, FALSE) \/ Fail(c)
        \/ call' = [call EXCEPT ![c] = [call[c] EXCEPT !.pc = "find", !.seen = NoRow,
                                          !.exp = Forever, !.tries = @ + 1]]
    BY <1>5 DEF Update, TypeOK
  <2>2. ASSUME call' = [call EXCEPT ![c] = [call[c] EXCEPT !.pc = "find", !.seen = NoRow,
                                             !.exp = Forever, !.tries = @ + 1]]
        PROVE  call'[c].pc = "find"
    <3>1. call[c] \in Call /\ call \in [Client -> Call]
      BY DEF TypeOK
    <3>2. call'[c] = [call[c] EXCEPT !.pc = "find", !.seen = NoRow, !.exp = Forever, !.tries = @ + 1]
      BY <2>2, <3>1
    <3>. QED
      BY <3>1, <3>2 DEF Call
  <2>. QED
    BY <2>1, <2>2, Moved
<1>6. CASE GiveUp(c) \/ DenyFind(c) \/ DenyInsert(c) \/ DenyRace(c)
  <2>1. \/ Fail(c) \/ Return(c, Forever, FALSE)
        \/ Goto(c, "denyInsert") \/ Goto(c, "denyRace")
    BY <1>6 DEF GiveUp, DenyFind, DenyInsert, DenyRace
  <2>2. Return(c, Forever, FALSE) => call'[c].pc = "done"
    BY Moved
  <2>3. call'[c].pc \in {"idle", "done", "denyInsert", "denyRace"}
    BY <2>1, <2>2, Moved
  <2>. QED
    BY <2>3
<1>7. CASE Read(c)
  <2>1. \/ Goto(c, "readAssignments") \/ Goto(c, "listDenies")
        \/ \E answer : Return(c, Forever, answer)
    BY <1>7 DEF Read, ReadDenies, ReadAssignments, ListAssignments, ListDenies
  <2>2. ASSUME NEW answer, Return(c, Forever, answer)
        PROVE  call'[c].pc = "done"
    BY <2>2, Moved
  <2>3. call'[c].pc \in {"readAssignments", "listDenies", "done"}
    BY <2>1, <2>2, Moved
  <2>. QED
    BY <2>3
<1>. QED
  BY <1>1, <1>2, <1>3, <1>4, <1>5, <1>6, <1>7 DEF Write

\* What a step does to a row: nothing, or the row goes, or a call inserts or updates it.
LEMMA RowSteps ==
    ASSUME TypeOK, Known, Next, NEW k \in Key
    PROVE  \/ rows'[k] = rows[k] \/ rows'[k] = NoRow
           \/ \E c \in Client : /\ Insert(c) /\ call[c].key = k /\ rows[k] = NoRow
                                /\ rows'[k] = [id |-> nextId, exp |-> Fresh(call[c].asked)]
                                /\ nextId' = nextId + 1
           \/ \E c \in Client : /\ Update(c) /\ call[c].key = k
                                /\ rows[k].id = call[c].seen.id
                                /\ rows'[k] = [id |-> rows[k].id, exp |-> call[c].exp]
<1>. rows \in [Key -> Row] /\ rows[k] \in Row
  BY DEF TypeOK
<1>1. ASSUME NEW c \in Client, Start(c) \/ Write(c) \/ Read(c), ~Insert(c), ~Update(c)
      PROVE  rows' = rows
  BY <1>1 DEF Start, StartGrant, StartDeny, StartAuthorize, StartList, Begin, Write, Find, Race,
              GiveUp, DenyFind, DenyInsert, DenyRace, Read, ReadDenies, ReadAssignments,
              ListAssignments, ListDenies
<1>2. ASSUME NEW c \in Client, Insert(c), rows'[k] # rows[k]
      PROVE  /\ call[c].key = k /\ rows[k] = NoRow /\ nextId' = nextId + 1
             /\ rows'[k] = [id |-> nextId, exp |-> Fresh(call[c].asked)]
  BY <1>2 DEF Insert
<1>3. ASSUME NEW c \in Client, Update(c), rows'[k] # rows[k]
      PROVE  /\ call[c].key = k /\ rows[k].id = call[c].seen.id
             /\ rows'[k] = [id |-> rows[k].id, exp |-> call[c].exp]
  <2>1. call[c].key = k /\ rows[k].id = call[c].seen.id
        /\ rows'[k] = [rows[k] EXCEPT !.exp = call[c].exp]
    BY <1>3 DEF Update
  <2>. QED
    BY <2>1 DEF Row
<1>4. ASSUME \/ \E j \in Key : Revoke(j)
             \/ \E s \in Scope : RemoveDeny(s) \/ PurgeScope(s)
             \/ \E r \in Role : PurgeRole(r)
             \/ Tick
      PROVE  rows'[k] = rows[k] \/ rows'[k] = NoRow
  BY <1>4 DEF Revoke, RemoveDeny, PurgeScope, PurgeRole, Tick
<1>. QED
  BY <1>1, <1>2, <1>3, <1>4 DEF Next, Step

\* A step is the step of a call, or leaves the calls alone.
LEMMA StepKinds ==
    ASSUME Next
    PROVE  \/ \E c \in Client : Start(c) \/ Write(c) \/ Read(c)
           \/ UNCHANGED call /\ UNCHANGED nextId
BY DEF Next, Step, Revoke, RemoveDeny, PurgeScope, PurgeRole, Tick

LEMMA KnownStep ==
    ASSUME TypeOK, Known, Next
    PROVE  Known'
<1>1. nextId \in Nat /\ 0 < nextId /\ nextId' \in Nat /\ nextId <= nextId'
  <2>1. UNCHANGED nextId \/ nextId' = nextId + 1
    BY DEF Next, Step, Start, StartGrant, StartDeny, StartAuthorize, StartList, Begin, Write,
           Find, Insert, Race, Update, GiveUp, DenyFind, DenyInsert, DenyRace, Read, ReadDenies,
           ReadAssignments, ListAssignments, ListDenies, Revoke, RemoveDeny, PurgeScope,
           PurgeRole, Tick
  <2>. QED
    BY <2>1 DEF TypeOK
<1>2. ASSUME NEW k \in Key
      PROVE  rows'[k].id < nextId'
  <2>1. rows[k].id < nextId /\ rows[k].id \in Nat
    BY DEF Known, TypeOK, Row
  <2>2. \/ rows'[k] = rows[k] \/ rows'[k] = NoRow
        \/ nextId' = nextId + 1 /\ rows'[k].id = nextId
        \/ rows'[k].id = rows[k].id
    <3>1. ASSUME NEW c \in Client, nextId' = nextId + 1,
                 rows'[k] = [id |-> nextId, exp |-> Fresh(call[c].asked)]
          PROVE  nextId' = nextId + 1 /\ rows'[k].id = nextId
      BY <3>1
    <3>2. ASSUME NEW c \in Client, rows'[k] = [id |-> rows[k].id, exp |-> call[c].exp]
          PROVE  rows'[k].id = rows[k].id
      BY <3>2
    <3>. QED
      BY <3>1, <3>2, RowSteps
  <2>. QED
    BY <1>1, <2>1, <2>2 DEF NoRow
<1>3. ASSUME NEW d \in Client, call'[d].pc = "update"
      PROVE  call'[d].seen.id # 0 /\ call'[d].seen.id < nextId'
  <2>1. CASE call'[d] = call[d]
    <3>1. call[d].seen.id # 0 /\ call[d].seen.id < nextId /\ call[d].seen.id \in Nat
      BY <1>3, <2>1, CallParts DEF Known, Row
    <3>. QED
      BY <1>1, <2>1, <3>1
  <2>2. CASE call'[d] # call[d]
    <3>1. PICK c \in Client : Start(c) \/ Write(c) \/ Read(c)
      BY <2>2, StepKinds
    <3>2. c = d
      BY <2>2, <3>1, OthersRest
    <3>3. Refresh(d) /\ rows[call[d].key] # NoRow
      BY <1>3, <3>1, <3>2, ToUpdate
    <3>4. call'[d].seen = rows[call[d].key]
      <4>. DEFINE exp == Resolve(rows[call[d].key].exp, call[d].asked, clock)
      <4>1. Return(d, exp, FALSE) => call'[d].pc = "done"
        BY Moved
      <4>. QED
        BY <1>3, <3>3, <4>1, Refreshed
    <3>5. call[d].key \in Key /\ rows[call[d].key] \in Row
      BY CallParts
    <3>6. rows[call[d].key].id # 0 /\ rows[call[d].key].id < nextId
      BY <3>3, <3>5 DEF TypeOK, Known
    <3>. QED
      BY <1>1, <3>4, <3>5, <3>6 DEF Row
  <2>. QED
    BY <2>1, <2>2
<1>. QED
  BY <1>2, <1>3 DEF Known

LEMMA InitKnown == Init => Known
<1>. SUFFICES ASSUME Init PROVE Known
  OBVIOUS
<1>1. \A row \in {NoRow} \cup [id : {1}, exp : FirstExpiry] : row.id < 2
  BY DEF NoRow
<1>2. \A k \in Key : rows[k].id < nextId
  BY <1>1 DEF Init
<1>3. \A c \in Client : call[c].pc = "idle"
  BY DEF Init, NoCall
<1>. QED
  BY <1>2, <1>3 DEF Known

\* For any clients, roles, scopes and bounds the state of the store and of every call is
\* well formed: an absent row has no expiry, and an UPDATE is of a row that was read.
THEOREM Typing == Spec => []TypeOK
<1>1. TypeOK /\ Known /\ UNCHANGED vars => TypeOK' /\ Known'
  BY DEF vars, TypeOK, Known
<1>2. TypeOK /\ Known /\ [Next]_vars => TypeOK' /\ Known'
  BY <1>1, StepTyped, KnownStep
<1>. QED
  BY <1>2, InitTyped, InitKnown, PTL DEF Spec

\* No row is given a uuid that another has had, and what a call updates it has read
\* (database_driver.ts, grant and deny), for any rows, calls and bounds.
THEOREM Uuids == Spec => []Known
<1>1. TypeOK /\ Known /\ UNCHANGED vars => TypeOK' /\ Known'
  BY DEF vars, TypeOK, Known
<1>2. TypeOK /\ Known /\ [Next]_vars => TypeOK' /\ Known'
  BY <1>1, StepTyped, KnownStep
<1>. QED
  BY <1>2, InitTyped, InitKnown, PTL DEF Spec

-----------------------------------------------------------------------------
(* A call that returns.                                                    *)

\* The step in which a call that writes returns leaves its outcome written.
LEMMA Written ==
    ASSUME TypeOK, Known, Next, NEW c \in Client, call[c].pc \in Writing, call'[c].pc = "done"
    PROVE  IF call[c].pc \in {"denyFind", "denyInsert", "denyRace"}
           THEN ScopeOf(c) \in denies'
           ELSE rows'[call[c].key].id # 0 /\ rows'[call[c].key].exp = call'[c].exp
<1>. DEFINE k == call[c].key
<1>1. k \in Key /\ rows[k] \in Row /\ (rows[k].id = 0 => rows[k] = NoRow)
  BY CallParts DEF TypeOK
<1>2. Write(c)
  <2>1. call'[c] # call[c]
    BY DEF Writing
  <2>2. PICK d \in Client : Start(d) \/ Write(d) \/ Read(d)
    BY <2>1, StepKinds
  <2>3. d = c
    BY <2>1, <2>2, OthersRest
  <2>4. ~Start(c)
    BY DEF Start, StartGrant, StartDeny, StartAuthorize, StartList, Begin, Writing
  <2>5. ~Read(c)
    BY DEF Read, ReadDenies, ReadAssignments, ListAssignments, ListDenies, Writing
  <2>. QED
    BY <2>2, <2>3, <2>4, <2>5
<1>3. ASSUME Refresh(c), rows[k] # NoRow, Kept
      PROVE  rows'[k].id # 0 /\ rows'[k].exp = call'[c].exp
  <2>. DEFINE exp == Resolve(rows[k].exp, call[c].asked, clock)
  <2>1. exp = rows[k].exp /\ Return(c, exp, FALSE)
    BY <1>3, Refreshed
  <2>2. call'[c].exp = exp
    BY <2>1, Moved
  <2>. QED
    BY <1>1, <1>3, <2>1, <2>2 DEF Kept
<1>4. CASE Find(c) \/ Race(c)
  <2>1. ~Goto(c, "insert") /\ ~Fail(c)
    BY Moved
  <2>2. Refresh(c) /\ rows[k] # NoRow /\ Kept /\ call[c].pc \in {"find", "race"}
    BY <1>4, <2>1 DEF Find, Race, Kept
  <2>. QED
    BY <1>3, <2>2
<1>5. CASE Insert(c)
  <2>1. ~Goto(c, "race")
    BY Moved
  <2>2. /\ rows' = [rows EXCEPT ![k] = [id |-> nextId, exp |-> Fresh(call[c].asked)]]
        /\ Return(c, Fresh(call[c].asked), FALSE) /\ call[c].pc = "insert"
    BY <1>5, <2>1 DEF Insert
  <2>3. call'[c].exp = Fresh(call[c].asked)
    BY <2>2, Moved
  <2>4. rows'[k] = [id |-> nextId, exp |-> Fresh(call[c].asked)] /\ nextId # 0
    BY <1>1, <2>2 DEF TypeOK
  <2>. QED
    BY <2>2, <2>3, <2>4
<1>6. CASE Update(c)
  <2>1. rows[k].id = call[c].seen.id
    <3>1. ~Fail(c)
      BY Moved
    <3>2. SUFFICES ASSUME call' = [call EXCEPT ![c] = [call[c] EXCEPT !.pc = "find", !.seen = NoRow,
                                                          !.exp = Forever, !.tries = @ + 1]]
                   PROVE  FALSE
      BY <1>6, <3>1 DEF Update, TypeOK
    <3>3. call[c] \in Call /\ call \in [Client -> Call]
      BY DEF TypeOK
    <3>4. call'[c] = [call[c] EXCEPT !.pc = "find", !.seen = NoRow, !.exp = Forever, !.tries = @ + 1]
      BY <3>2, <3>3
    <3>. QED
      BY <3>3, <3>4 DEF Call
  <2>2. /\ rows' = [rows EXCEPT ![k] = [rows[k] EXCEPT !.exp = call[c].exp]]
        /\ Return(c, call[c].exp, FALSE) /\ call[c].pc = "update"
    BY <1>6, <2>1 DEF Update, TypeOK
  <2>3. call'[c].exp = call[c].exp
    BY <2>2, Moved
  <2>4. rows'[k] = [rows[k] EXCEPT !.exp = call[c].exp] /\ rows[k].id # 0
    BY <1>1, <2>1, <2>2 DEF TypeOK, Known
  <2>. QED
    BY <1>1, <2>2, <2>3, <2>4 DEF Row
<1>7. CASE DenyFind(c) \/ DenyInsert(c) \/ DenyRace(c)
  <2>1. ~Goto(c, "denyInsert") /\ ~Goto(c, "denyRace") /\ ~Fail(c)
    BY Moved
  <2>. QED
    BY <1>7, <2>1 DEF DenyFind, DenyInsert, DenyRace
<1>8. CASE GiveUp(c)
  BY <1>8, Moved DEF GiveUp
<1>. QED
  BY <1>2, <1>4, <1>5, <1>6, <1>7, <1>8 DEF Write

\* What a call says it left written is written, whatever the other clients do.
THEOREM Outcomes == Spec => OutcomeIsWritten
<1>1. TypeOK /\ Known /\ [Next]_vars =>
          [\A c \in Client : call[c].pc \in Writing /\ call'[c].pc = "done" =>
              IF call[c].pc \in {"denyFind", "denyInsert", "denyRace"}
              THEN ScopeOf(c) \in denies'
              ELSE rows'[call[c].key].id # 0 /\ rows'[call[c].key].exp = call'[c].exp]_vars
  BY Written
<1>. QED
  BY <1>1, Typing, Uuids, PTL DEF Spec, OutcomeIsWritten

-----------------------------------------------------------------------------
(* What a reader is told.                                                  *)

\* Between its two reads authorize has seen no deny in the chain, unless one landed
\* since; a listing has seen a grant, that was good if no deny was in its way.
Readers ==
    \A c \in Client :
        /\ call[c].pc = "readAssignments" => crossed[c] \/ ~DeniedIn(ChainOf(c))
        /\ call[c].pc = "listDenies" => crossed[c] \/ open[c] \/ DeniedIn(ChainOf(c))

\* The steps of a call that reads, and those that make it read on.
LEMMA ReadSteps ==
    ASSUME TypeOK, Next, NEW c \in Client, call'[c] # call[c]
    PROVE  /\ call[c].pc \in Reading => Read(c) \/ GiveUp(c)
           /\ call'[c].pc = "readAssignments" =>
                  /\ ReadDenies(c) /\ ~DeniedIn(ChainOf(c)) /\ call'[c].key = call[c].key
           /\ call'[c].pc = "listDenies" =>
                  /\ ListAssignments(c) /\ GrantedIn({ScopeOf(c)}) /\ call'[c].key = call[c].key
<1>1. Start(c) \/ Write(c) \/ Read(c)
  <2>1. PICK d \in Client : Start(d) \/ Write(d) \/ Read(d)
    BY StepKinds
  <2>2. d = c
    BY <2>1, OthersRest
  <2>. QED
    BY <2>1, <2>2
<1>2. CASE Start(c)
  <2>1. call[c].pc \in {"idle", "done"}
    BY <1>2 DEF Start, StartGrant, StartDeny, StartAuthorize, StartList, Begin
  <2>2. call'[c].pc \in {"find", "denyFind", "readDenies", "listAssignments"}
    BY <1>2, Moved DEF Start, StartGrant, StartDeny, StartAuthorize, StartList
  <2>. QED
    BY <2>1, <2>2 DEF Reading
<1>3. CASE Write(c) /\ ~GiveUp(c)
  <2>1. call[c].pc \in Writing
    BY <1>3 DEF Write, Find, Insert, Race, Update, DenyFind, DenyInsert, DenyRace, Writing
  <2>2. call'[c].pc \notin {"readAssignments", "listDenies"}
    <3>1. ASSUME Refresh(c)
          PROVE  call'[c].pc \in {"done", "update"}
      BY <3>1, Refreshed, Moved
    <3>2. \A exp : Return(c, exp, FALSE) => call'[c].pc = "done"
      BY Moved
    <3>3. CASE Find(c) \/ Race(c)
      <4>1. Goto(c, "insert") \/ Fail(c) \/ Refresh(c)
        BY <3>3 DEF Find, Race
      <4>. QED
        BY <3>1, <4>1, Moved
    <3>4. CASE Insert(c)
      <4>1. (\E exp : Return(c, exp, FALSE)) \/ Goto(c, "race")
        BY <3>4 DEF Insert
      <4>2. Goto(c, "race") => call'[c].pc = "race"
        BY Moved
      <4>. QED
        BY <3>2, <4>1, <4>2
    <3>5. CASE Update(c)
      <4>1. \/ Return(c, call[c].exp, FALSE) \/ Fail(c)
            \/ call' = [call EXCEPT ![c] = [call[c] EXCEPT !.pc = "find", !.seen = NoRow,
                                              !.exp = Forever, !.tries = @ + 1]]
        BY <3>5 DEF Update, TypeOK
      <4>2. ASSUME call' = [call EXCEPT ![c] = [call[c] EXCEPT !.pc = "find", !.seen = NoRow,
                                                 !.exp = Forever, !.tries = @ + 1]]
            PROVE  call'[c].pc = "find"
        <5>1. call[c] \in Call /\ call \in [Client -> Call]
          BY DEF TypeOK
        <5>2. call'[c] = [call[c] EXCEPT !.pc = "find", !.seen = NoRow, !.exp = Forever,
                                         !.tries = @ + 1]
          BY <4>2, <5>1
        <5>. QED
          BY <5>1, <5>2 DEF Call
      <4>3. Fail(c) => call'[c].pc = "idle"
        BY Moved
      <4>. QED
        BY <3>2, <4>1, <4>2, <4>3
    <3>6. CASE DenyFind(c) \/ DenyInsert(c) \/ DenyRace(c)
      <4>1. \/ Fail(c) \/ Return(c, Forever, FALSE)
            \/ Goto(c, "denyInsert") \/ Goto(c, "denyRace")
        BY <3>6 DEF DenyFind, DenyInsert, DenyRace
      <4>2. /\ Fail(c) => call'[c].pc = "idle"
            /\ Goto(c, "denyInsert") => call'[c].pc = "denyInsert"
            /\ Goto(c, "denyRace") => call'[c].pc = "denyRace"
        BY Moved
      <4>. QED
        BY <3>2, <4>1, <4>2
    <3>. QED
      BY <1>3, <3>3, <3>4, <3>5, <3>6 DEF Write
  <2>. QED
    BY <2>1, <2>2 DEF Writing, Reading
<1>4. CASE GiveUp(c)
  <2>1. call'[c].pc = "idle"
    BY <1>4, Moved DEF GiveUp
  <2>. QED
    BY <1>4, <2>1
<1>5. CASE Read(c)
  <2>1. \A answer : Return(c, Forever, answer) => call'[c].pc = "done"
    BY Moved
  <2>2. CASE ReadDenies(c)
    <3>1. \/ Return(c, Forever, FALSE)
          \/ Goto(c, "readAssignments") /\ ~DeniedIn(ChainOf(c))
      BY <2>2 DEF ReadDenies
    <3>2. Goto(c, "readAssignments") =>
              call'[c].pc = "readAssignments" /\ call'[c].key = call[c].key
      BY Moved
    <3>. QED
      BY <1>5, <2>1, <2>2, <3>1, <3>2
  <2>3. CASE ListAssignments(c)
    <3>1. \/ Return(c, Forever, FALSE)
          \/ Goto(c, "listDenies") /\ GrantedIn({ScopeOf(c)})
      BY <2>3 DEF ListAssignments
    <3>2. Goto(c, "listDenies") => call'[c].pc = "listDenies" /\ call'[c].key = call[c].key
      BY Moved
    <3>. QED
      BY <1>5, <2>1, <2>3, <3>1, <3>2
  <2>4. CASE ReadAssignments(c) \/ ListDenies(c)
    <3>1. \E answer : Return(c, Forever, answer)
      BY <2>4 DEF ReadAssignments, ListDenies
    <3>. QED
      BY <1>5, <2>1, <3>1
  <2>. QED
    BY <1>5, <2>2, <2>3, <2>4 DEF Read
<1>. QED
  BY <1>1, <1>2, <1>3, <1>4, <1>5

\* What a step does to the histories of a call that reads.
LEMMA Remembered ==
    ASSUME Next, NEW c \in Client, call[c].pc \in Reading
    PROVE  /\ open'[c] <=> open[c] \/ Permitted(c)
           /\ crossed[c] => crossed'[c]
           /\ call[c].pc = "readAssignments" /\ ~crossed'[c] =>
                  ChainOf(c) \cap (denies' \ denies) = {}
           /\ call[c].pc = "listDenies" /\ ~crossed'[c] =>
                  ChainOf(c) \cap (denies \ denies') = {}
BY DEF Next, Remember

LEMMA ReadersStep ==
    ASSUME TypeOK, Readers, Next
    PROVE  Readers'
<1>. SUFFICES ASSUME NEW c \in Client
              PROVE  /\ call'[c].pc = "readAssignments" => crossed'[c] \/ ~DeniedIn(ChainOf(c))'
                     /\ call'[c].pc = "listDenies" =>
                            crossed'[c] \/ open'[c] \/ DeniedIn(ChainOf(c))'
  BY DEF Readers
<1>1. CASE call'[c] = call[c]
  <2>1. ChainOf(c)' = ChainOf(c)
    BY <1>1 DEF ChainOf, ScopeOf
  <2>2. DeniedIn(ChainOf(c))' <=> ChainOf(c) \cap denies' # {}
    BY <2>1 DEF DeniedIn
  <2>3. ASSUME call[c].pc = "readAssignments"
        PROVE  crossed'[c] \/ ~DeniedIn(ChainOf(c))'
    BY <2>2, <2>3, Remembered DEF Readers, DeniedIn, Reading
  <2>4. ASSUME call[c].pc = "listDenies"
        PROVE  crossed'[c] \/ open'[c] \/ DeniedIn(ChainOf(c))'
    BY <2>2, <2>4, Remembered DEF Readers, DeniedIn, Reading
  <2>. QED
    BY <1>1, <2>3, <2>4
<1>2. CASE call'[c] # call[c]
  <2>1. ASSUME call'[c].pc = "readAssignments"
        PROVE  ~DeniedIn(ChainOf(c))'
    <3>1. ReadDenies(c) /\ ~DeniedIn(ChainOf(c)) /\ call'[c].key = call[c].key
      BY <1>2, <2>1, ReadSteps
    <3>. QED
      BY <3>1 DEF ReadDenies, DeniedIn, ChainOf, ScopeOf
  <2>2. ASSUME call'[c].pc = "listDenies"
        PROVE  open'[c] \/ DeniedIn(ChainOf(c))'
    <3>1. ListAssignments(c) /\ GrantedIn({ScopeOf(c)}) /\ call'[c].key = call[c].key
      BY <1>2, <2>2, ReadSteps
    <3>2. CASE DeniedIn(ChainOf(c))
      BY <3>1, <3>2 DEF ListAssignments, DeniedIn, ChainOf, ScopeOf
    <3>3. CASE ~DeniedIn(ChainOf(c))
      <4>1. call[c].pc = "listAssignments"
        BY <3>1 DEF ListAssignments
      <4>2. Permitted(c)
        BY <3>1, <3>3, <4>1 DEF Permitted
      <4>. QED
        BY <4>1, <4>2, Remembered DEF Reading
    <3>. QED
      BY <3>2, <3>3
  <2>. QED
    BY <2>1, <2>2
<1>. QED
  BY <1>1, <1>2

\* What a call that reads is told when it returns.
LEMMA Told ==
    ASSUME TypeOK, Readers, Next, NEW c \in Client, call[c].pc \in Reading, call'[c].pc = "done"
    PROVE  IF call'[c].answer THEN open'[c] \/ crossed'[c] ELSE ~Permitted(c)
<1>1. Read(c)
  <2>1. call'[c] # call[c]
    BY DEF Reading
  <2>2. ~GiveUp(c)
    BY Moved DEF GiveUp
  <2>. QED
    BY <2>1, <2>2, ReadSteps
<1>2. /\ \A answer : Return(c, Forever, answer) => call'[c].answer = answer
      /\ ~Goto(c, "readAssignments") /\ ~Goto(c, "listDenies")
  BY Moved
<1>3. CASE ReadDenies(c)
  <2>1. DeniedIn(ChainOf(c)) /\ Return(c, Forever, FALSE)
    BY <1>2, <1>3 DEF ReadDenies
  <2>. QED
    BY <1>2, <2>1 DEF Permitted
<1>4. CASE ListAssignments(c)
  <2>1. ~GrantedIn({ScopeOf(c)}) /\ Return(c, Forever, FALSE) /\ call[c].pc = "listAssignments"
    BY <1>2, <1>4 DEF ListAssignments
  <2>. QED
    BY <1>2, <2>1 DEF Permitted
<1>5. CASE ReadAssignments(c)
  <2>1. /\ call'[c].answer = GrantedIn(ChainOf(c)) /\ call[c].pc = "readAssignments"
    BY <1>2, <1>5 DEF ReadAssignments
  <2>2. CASE ~GrantedIn(ChainOf(c))
    BY <2>1, <2>2 DEF Permitted
  <2>3. CASE GrantedIn(ChainOf(c))
    <3>1. crossed[c] \/ ~DeniedIn(ChainOf(c))
      BY <2>1 DEF Readers
    <3>2. crossed[c] \/ Permitted(c)
      BY <2>1, <2>3, <3>1 DEF Permitted
    <3>. QED
      BY <2>1, <2>3, <3>2, Remembered
  <2>. QED
    BY <2>2, <2>3
<1>6. CASE ListDenies(c)
  <2>1. call'[c].answer = ~DeniedIn(ChainOf(c)) /\ call[c].pc = "listDenies"
    BY <1>2, <1>6 DEF ListDenies
  <2>2. CASE DeniedIn(ChainOf(c))
    BY <2>1, <2>2 DEF Permitted
  <2>3. CASE ~DeniedIn(ChainOf(c))
    <3>1. crossed[c] \/ open[c]
      BY <2>1, <2>3 DEF Readers
    <3>. QED
      BY <2>1, <2>3, <3>1, Remembered
  <2>. QED
    BY <2>2, <2>3
<1>. QED
  BY <1>1, <1>3, <1>4, <1>5, <1>6 DEF Read

\* A `no` holds when it is given; a `yes` held at some instant of the call, unless a
\* deny of the chain landed (authorize) or was lifted (a listing) between its reads.
THEOREM Answers == Spec => AnswerHeld
<1>1. Init => Readers
  <2>1. Init => call = [c \in Client |-> NoCall]
    BY DEF Init
  <2>2. NoCall.pc = "idle"
    BY DEF NoCall
  <2>. QED
    BY <2>1, <2>2 DEF Readers
<1>2. TypeOK /\ Readers /\ [Next]_vars => Readers'
  <2>1. ASSUME Readers, UNCHANGED vars
        PROVE  Readers'
    BY <2>1 DEF vars, Readers, DeniedIn, ChainOf, ScopeOf
  <2>. QED
    BY <2>1, ReadersStep
<1>3. Spec => []Readers
  BY <1>1, <1>2, Typing, PTL DEF Spec
<1>4. TypeOK /\ Readers /\ [Next]_vars =>
          [\A c \in Client : call[c].pc \in Reading /\ call'[c].pc = "done" =>
              IF call'[c].answer THEN open'[c] \/ crossed'[c] ELSE ~Permitted(c)]_vars
  BY Told
<1>. QED
  BY <1>3, <1>4, Typing, PTL DEF Spec, AnswerHeld

-----------------------------------------------------------------------------
(* The statements implement the port.                                      *)

\* Every row is of a role that exists; an UPDATE writes what its call asked for, or no
\* expiry over a row that had expired when it was read.
Resolving ==
    /\ \A k \in Key : rows[k].id # 0 => k[1] \in roles
    /\ \A c \in Client : call[c].pc = "update" =>
           IF call[c].asked = Omitted
           THEN call[c].exp = Forever /\ ~Live(call[c].seen.exp, clock)
           ELSE call[c].exp = call[c].asked

\* Time only goes forward, so what has expired stays expired.
LEMMA Ageing ==
    ASSUME TypeOK, Next, NEW e \in Expiry, ~Live(e, clock)
    PROVE  ~Live(e, clock')
<1>1. clock' = clock \/ clock' = clock + 1
  BY DEF Next, Step, Start, StartGrant, StartDeny, StartAuthorize, StartList, Begin, Write,
         Find, Insert, Race, Update, GiveUp, DenyFind, DenyInsert, DenyRace, Read, ReadDenies,
         ReadAssignments, ListAssignments, ListDenies, Revoke, RemoveDeny, PurgeScope,
         PurgeRole, Tick
<1>2. clock \in Nat
  BY DEF TypeOK
<1>. QED
  BY <1>1, <1>2 DEF Live, Expiry, Forever

LEMMA RolesStep ==
    ASSUME TypeOK, Known, Resolving, Next, NEW k \in Key, rows'[k].id # 0
    PROVE  k[1] \in roles'
<1>1. ASSUME NEW r \in Role, PurgeRole(r)
      PROVE  k[1] \in roles'
  <2>1. k[1] # r /\ rows'[k] = rows[k]
    BY <1>1 DEF PurgeRole, NoRow
  <2>. QED
    BY <1>1, <2>1 DEF PurgeRole, Resolving
<1>2. CASE \A r \in Role : ~PurgeRole(r)
  <2>1. roles' = roles
    BY <1>2 DEF Next, Step, Start, StartGrant, StartDeny, StartAuthorize, StartList, Begin,
         Write, Find, Insert, Race, Update, GiveUp, DenyFind, DenyInsert, DenyRace, Read,
         ReadDenies, ReadAssignments, ListAssignments, ListDenies, Revoke, RemoveDeny,
         PurgeScope, Tick
  <2>2. CASE rows[k].id # 0
    BY <2>1, <2>2 DEF Resolving
  <2>3. CASE rows[k].id = 0
    <3>1. ASSUME NEW c \in Client, Insert(c), call[c].key = k, nextId' = nextId + 1
          PROVE  k[1] \in roles
      <4>1. nextId' # nextId
        BY <3>1 DEF TypeOK
      <4>. QED
        BY <3>1, <4>1 DEF Insert
    <3>2. ASSUME NEW c \in Client, rows'[k] = [id |-> rows[k].id, exp |-> call[c].exp]
          PROVE  FALSE
      BY <2>3, <3>2
    <3>3. rows'[k] # rows[k] /\ rows'[k] # NoRow
      BY <2>3 DEF NoRow
    <3>. QED
      BY <2>1, <3>1, <3>2, <3>3, RowSteps
  <2>. QED
    BY <2>2, <2>3
<1>. QED
  BY <1>1, <1>2

LEMMA ResolvingStep ==
    ASSUME TypeOK, Known, Resolving, Next
    PROVE  Resolving'
<1>1. ASSUME NEW c \in Client, call'[c].pc = "update"
      PROVE  IF call'[c].asked = Omitted
             THEN call'[c].exp = Forever /\ ~Live(call'[c].seen.exp, clock')
             ELSE call'[c].exp = call'[c].asked
  <2>. DEFINE k == call[c].key
  <2>0. /\ k \in Key /\ rows[k] \in Row /\ rows[k].exp \in Expiry
        /\ call[c].asked \in Asked /\ call[c].seen.exp \in Expiry
    BY CallParts DEF TypeOK, Row, Call
  <2>1. CASE call'[c] = call[c]
    <3>1. call[c].pc = "update"
      BY <1>1, <2>1
    <3>2. CASE call[c].asked = Omitted
      <4>1. call[c].exp = Forever /\ ~Live(call[c].seen.exp, clock)
        BY <3>1, <3>2 DEF Resolving
      <4>. QED
        BY <2>0, <2>1, <3>2, <4>1, Ageing
    <3>3. CASE call[c].asked # Omitted
      BY <2>1, <3>1, <3>3 DEF Resolving
    <3>. QED
      BY <3>2, <3>3
  <2>2. CASE call'[c] # call[c]
    <3>1. PICK d \in Client : Start(d) \/ Write(d) \/ Read(d)
      BY <2>2, StepKinds
    <3>2. d = c
      BY <2>2, <3>1, OthersRest
    <3>3. Refresh(c) /\ Kept
      BY <1>1, <3>1, <3>2, ToUpdate
    <3>4. /\ Resolve(rows[k].exp, call[c].asked, clock) # rows[k].exp
          /\ call'[c].exp = Resolve(rows[k].exp, call[c].asked, clock)
          /\ call'[c].seen = rows[k] /\ call'[c].asked = call[c].asked
      <4>. DEFINE exp == Resolve(rows[k].exp, call[c].asked, clock)
      <4>1. Return(c, exp, FALSE) => call'[c].pc = "done"
        BY Moved
      <4>. QED
        BY <1>1, <3>3, <4>1, Refreshed
    <3>5. CASE call[c].asked = Omitted
      <4>1. ~Live(rows[k].exp, clock) /\ call'[c].exp = Forever
        BY <3>4, <3>5 DEF Resolve
      <4>. QED
        BY <2>0, <3>4, <3>5, <4>1, Ageing
    <3>6. CASE call[c].asked # Omitted
      BY <3>4, <3>6 DEF Resolve
    <3>. QED
      BY <3>5, <3>6
  <2>. QED
    BY <2>1, <2>2
<1>. QED
  BY <1>1, RolesStep DEF Resolving

LEMMA InitResolving == Init => Resolving
<1>. SUFFICES ASSUME Init PROVE Resolving
  OBVIOUS
<1>1. \A c \in Client : call[c].pc = "idle"
  BY DEF Init, NoCall
<1>2. \A k \in Key : k[1] \in roles
  BY DEF Init, Key
<1>. QED
  BY <1>1, <1>2 DEF Resolving

-----------------------------------------------------------------------------
(* The step of the store that a step of the driver is.                     *)

LEMMA SameNames ==
    Store!Key = Key /\ Store!Expiry = Expiry /\ Store!Forever = Forever /\ Store!Omitted = Omitted
    /\ Store!Absent = Absent
BY DEF Key, Expiry, Forever, Omitted, Absent, Store!Key, Store!Expiry, Store!Forever,
       Store!Omitted, Store!Absent

LEMMA SameResolve ==
    ASSUME NEW previous, NEW asked, NEW at
    PROVE  /\ Store!Resolve(previous, asked, at) = Resolve(previous, asked, at)
           /\ Store!Fresh(asked) = Fresh(asked)
BY SameNames DEF Resolve, Fresh, Live, Store!Resolve, Store!Fresh, Store!Live

\* What the ask of a call depends on, and that what it asks for can be asked.
LEMMA AskingParts ==
    ASSUME TypeOK, NEW c \in Client
    PROVE  /\ call[c].pc \in {"find", "insert", "race", "update"} =>
                  Asking(c) = {[op |-> "grant", key |-> call[c].key, asked |-> call[c].asked]}
           /\ call[c].pc \in {"denyFind", "denyInsert", "denyRace"} =>
                  Asking(c) = {[op |-> "deny", scope |-> ScopeOf(c)]}
           /\ call[c].pc \notin Writing => Asking(c) = {}
           /\ [op |-> "grant", key |-> call[c].key, asked |-> call[c].asked] \in Store!Ask
           /\ [op |-> "deny", scope |-> ScopeOf(c)] \in Store!Ask
<1>1. call[c].key \in Key /\ call[c].asked \in Asked /\ ScopeOf(c) \in Scope
  BY CallParts
<1>2. /\ [op |-> "grant", key |-> call[c].key, asked |-> call[c].asked] \in Store!Ask
      /\ [op |-> "deny", scope |-> ScopeOf(c)] \in Store!Ask
  BY <1>1, SameNames DEF Store!Ask
<1>. QED
  BY <1>2 DEF Asking, Writing

\* The ask of a call that moves on with the same key and expiry.
LEMMA AskingNext ==
    ASSUME TypeOK, NEW c \in Client
    PROVE  /\ call'[c].pc \notin Writing => Asking(c)' = {}
           /\ (/\ call'[c].key = call[c].key
               /\ call'[c].asked = call[c].asked
               /\ call[c].pc \in {"find", "insert", "race", "update"}
               /\ call'[c].pc \in {"find", "insert", "race", "update"})
              => Asking(c)' = Asking(c)
           /\ (/\ call'[c].key = call[c].key
               /\ call[c].pc \in {"denyFind", "denyInsert", "denyRace"}
               /\ call'[c].pc \in {"denyFind", "denyInsert", "denyRace"})
              => Asking(c)' = Asking(c)
<1>1. ASSUME call'[c].pc \notin Writing
      PROVE  Asking(c)' = {}
  BY <1>1 DEF Asking, Writing
<1>2. ASSUME call'[c].key = call[c].key, call'[c].asked = call[c].asked,
             call[c].pc \in {"find", "insert", "race", "update"},
             call'[c].pc \in {"find", "insert", "race", "update"}
      PROVE  Asking(c)' = Asking(c)
  BY <1>2 DEF Asking
<1>3. ASSUME call'[c].key = call[c].key,
             call[c].pc \in {"denyFind", "denyInsert", "denyRace"},
             call'[c].pc \in {"denyFind", "denyInsert", "denyRace"}
      PROVE  Asking(c)' = Asking(c)
  <2>1. Asking(c) = {[op |-> "deny", scope |-> call[c].key[2]]}
    BY <1>3 DEF Asking, ScopeOf
  <2>2. Asking(c)' = {[op |-> "deny", scope |-> call'[c].key[2]]}
    BY <1>3 DEF Asking, ScopeOf
  <2>. QED
    BY <1>3, <2>1, <2>2
<1>. QED
  BY <1>1, <1>2, <1>3

\* The other calls ask for what they did.
LEMMA AsksOfOne ==
    ASSUME TypeOK, NEW c \in Client, Start(c) \/ Write(c) \/ Read(c)
    PROVE  StoreAsks' = [StoreAsks EXCEPT ![c] = Asking(c)']
<1>1. ASSUME NEW d \in Client, d # c
      PROVE  Asking(d)' = Asking(d)
  <2>1. call'[d] = call[d]
    BY <1>1, OthersRest
  <2>. QED
    BY <2>1 DEF Asking, ScopeOf
<1>. QED
  BY <1>1 DEF StoreAsks

\* While a call writes, its step keeps what it asks for or ends the call.
LEMMA AskKept ==
    ASSUME TypeOK, NEW c \in Client, Write(c)
    PROVE  Asking(c)' \in {Asking(c), {}}
<1>1. \A exp : Return(c, exp, FALSE) => Asking(c)' = {}
  <2>1. \A exp : Return(c, exp, FALSE) => call'[c].pc = "done"
    BY Moved
  <2>2. "done" \notin Writing
    BY DEF Writing
  <2>. QED
    BY <2>1, <2>2, AskingNext
<1>2. Fail(c) => Asking(c)' = {}
  <2>1. Fail(c) => call'[c].pc = "idle"
    BY Moved
  <2>2. "idle" \notin Writing
    BY DEF Writing
  <2>. QED
    BY <2>1, <2>2, AskingNext
<1>3. ASSUME NEW pc \in {"insert", "race"}, Goto(c, pc), call[c].pc \in {"find", "insert"}
      PROVE  Asking(c)' = Asking(c)
  <2>1. call'[c].pc = pc /\ call'[c].key = call[c].key /\ call'[c].asked = call[c].asked
    BY <1>3, Moved
  <2>. QED
    BY <1>3, <2>1, AskingNext
<1>4. ASSUME NEW pc \in {"denyInsert", "denyRace"}, Goto(c, pc),
             call[c].pc \in {"denyFind", "denyInsert"}
      PROVE  Asking(c)' = Asking(c)
  <2>1. call'[c].pc = pc /\ call'[c].key = call[c].key
    BY <1>4, Moved
  <2>. QED
    BY <1>4, <2>1, AskingNext
<1>5. ASSUME Refresh(c), call[c].pc \in {"find", "race"}
      PROVE  Asking(c)' \in {Asking(c), {}}
  <2>1. CASE call'[c].pc = "update" /\ call'[c].key = call[c].key /\ call'[c].asked = call[c].asked
    BY <1>5, <2>1, AskingNext
  <2>2. CASE \E exp : Return(c, exp, FALSE)
    BY <1>1, <2>2
  <2>. QED
    BY <1>5, <2>1, <2>2, Refreshed
<1>6. CASE Find(c) \/ Race(c)
  <2>1. /\ call[c].pc \in {"find", "race"}
        /\ (call[c].pc = "find" /\ Goto(c, "insert")) \/ Fail(c) \/ Refresh(c)
    BY <1>6 DEF Find, Race
  <2>. QED
    BY <1>2, <1>3, <1>5, <2>1
<1>7. CASE Insert(c)
  <2>1. call[c].pc = "insert" /\ (Goto(c, "race") \/ \E exp : Return(c, exp, FALSE))
    BY <1>7 DEF Insert
  <2>. QED
    BY <1>1, <1>3, <2>1
<1>8. CASE Update(c)
  <2>1. /\ call[c].pc = "update"
        /\ \/ Return(c, call[c].exp, FALSE) \/ Fail(c)
           \/ call' = [call EXCEPT ![c] = [call[c] EXCEPT !.pc = "find", !.seen = NoRow,
                                             !.exp = Forever, !.tries = @ + 1]]
    BY <1>8 DEF Update, TypeOK
  <2>2. ASSUME call' = [call EXCEPT ![c] = [call[c] EXCEPT !.pc = "find", !.seen = NoRow,
                                             !.exp = Forever, !.tries = @ + 1]]
        PROVE  call'[c].pc = "find" /\ call'[c].key = call[c].key /\ call'[c].asked = call[c].asked
    <3>1. call[c] \in Call /\ call \in [Client -> Call]
      BY DEF TypeOK
    <3>2. call'[c] = [call[c] EXCEPT !.pc = "find", !.seen = NoRow, !.exp = Forever, !.tries = @ + 1]
      BY <2>2, <3>1
    <3>. QED
      BY <3>1, <3>2 DEF Call
  <2>3. CASE call' = [call EXCEPT ![c] = [call[c] EXCEPT !.pc = "find", !.seen = NoRow,
                                             !.exp = Forever, !.tries = @ + 1]]
    BY <2>1, <2>2, <2>3, AskingNext
  <2>. QED
    BY <1>1, <1>2, <2>1, <2>3
<1>9. CASE DenyFind(c) \/ DenyInsert(c) \/ DenyRace(c)
  <2>1. \/ Fail(c) \/ Return(c, Forever, FALSE)
        \/ call[c].pc \in {"denyFind", "denyInsert"} /\ (Goto(c, "denyInsert") \/ Goto(c, "denyRace"))
    BY <1>9 DEF DenyFind, DenyInsert, DenyRace
  <2>. QED
    BY <1>1, <1>2, <1>4, <2>1
<1>10. CASE GiveUp(c)
  BY <1>2, <1>10 DEF GiveUp
<1>. QED
  BY <1>6, <1>7, <1>8, <1>9, <1>10 DEF Write

\* A step of a call that writes neither facts nor denies ends the call, or is none.
LEMMA QuietStep ==
    ASSUME TypeOK, NEW c \in Client, Write(c), UNCHANGED <<clock, StoreFacts, denies, roles>>
    PROVE  Store!Stop(c) \/ UNCHANGED StoreAsks
<1>1. StoreAsks' = [StoreAsks EXCEPT ![c] = Asking(c)']
  BY AsksOfOne
<1>2. CASE Asking(c)' = Asking(c)
  <2>1. StoreAsks' = StoreAsks
    BY <1>1, <1>2 DEF StoreAsks
  <2>. QED
    BY <2>1
<1>3. CASE Asking(c)' = {}
  <2>1. StoreAsks' = [StoreAsks EXCEPT ![c] = {}]
    BY <1>1, <1>3
  <2>. QED
    BY <2>1 DEF Store!Stop, Store!End, StoreAsks, StoreFacts, Key
<1>. QED
  BY <1>2, <1>3, AskKept

LEMMA StartMaps ==
    ASSUME TypeOK, NEW c \in Client, Start(c)
    PROVE  (\E a \in Store!Ask : Store!Start(c, a)) \/ UNCHANGED <<clock, StoreFacts, denies, roles, StoreAsks>>
<1>1. /\ Kept /\ call[c].pc \in {"idle", "done"}
      /\ call'[c].pc \in {"find", "denyFind", "readDenies", "listAssignments"}
  <2>1. PICK pc \in {"find", "denyFind", "readDenies", "listAssignments"} :
                 \E k, asked : Begin(c, pc, k, asked)
    BY DEF Start, StartGrant, StartDeny, StartAuthorize, StartList
  <2>2. call'[c].pc = pc
    BY <2>1, Moved
  <2>3. Kept /\ call[c].pc \in {"idle", "done"}
    BY <2>1 DEF Begin, Kept
  <2>. QED
    BY <2>2, <2>3
<1>2. Asking(c) = {} /\ StoreAsks[c] = {}
  BY <1>1, AskingParts DEF Writing, StoreAsks
<1>3. UNCHANGED <<clock, StoreFacts, denies, roles>>
  BY <1>1 DEF Kept, StoreFacts
<1>4. StoreAsks' = [StoreAsks EXCEPT ![c] = Asking(c)']
  BY AsksOfOne
<1>5. CASE call'[c].pc \in {"readDenies", "listAssignments"}
  <2>1. Asking(c)' = {}
    BY <1>5, AskingNext DEF Writing
  <2>2. StoreAsks' = StoreAsks
    BY <1>2, <1>4, <2>1 DEF StoreAsks
  <2>. QED
    BY <1>3, <2>2
<1>6. CASE call'[c].pc \in {"find", "denyFind"}
  <2>1. \E a \in Store!Ask : Asking(c)' = {a}
    <3>1. call' \in [Client -> Call]
      <4>1. NoCall.key[1] \in Role /\ NoCall.asked \in Asked
        BY NoCallType DEF Call, Key
      <4>2. \E pc \in Writing \cup Reading, k \in Key, asked \in Asked : Begin(c, pc, k, asked)
        BY <4>1 DEF Start, StartGrant, StartDeny, StartAuthorize, StartList, Writing, Reading, Key
      <4>. QED
        BY <4>2, BeginCall
    <3>2. call'[c].key \in Key /\ call'[c].asked \in Asked /\ call'[c].key[2] \in Scope
      BY <3>1 DEF Call, Key
    <3>3. CASE call'[c].pc = "find"
      <4>1. Asking(c)' = {[op |-> "grant", key |-> call'[c].key, asked |-> call'[c].asked]}
        BY <3>3 DEF Asking
      <4>. QED
        BY <3>2, <4>1, SameNames DEF Store!Ask
    <3>4. CASE call'[c].pc = "denyFind"
      <4>1. Asking(c)' = {[op |-> "deny", scope |-> call'[c].key[2]]}
        BY <3>4 DEF Asking, ScopeOf
      <4>. QED
        BY <3>2, <4>1 DEF Store!Ask
    <3>. QED
      BY <1>6, <3>3, <3>4
  <2>2. PICK a \in Store!Ask : Asking(c)' = {a}
    BY <2>1
  <2>3. Store!Start(c, a)
    BY <1>2, <1>3, <1>4, <2>2 DEF Store!Start, StoreAsks, StoreFacts, Key
  <2>. QED
    BY <2>3
<1>. QED
  BY <1>1, <1>5, <1>6

LEMMA GrantMaps ==
    ASSUME TypeOK, Known, Resolving, NEW c \in Client,
           Insert(c) \/ Update(c), rows' # rows
    PROVE  (\E a \in Store!Ask : Store!Grant(c, a)) \/ RevivesRenewed(c)
<1>. DEFINE k == call[c].key
            a == [op |-> "grant", key |-> call[c].key, asked |-> call[c].asked]
            written == IF StoreFacts[k] = Absent THEN Fresh(call[c].asked)
                       ELSE Resolve(StoreFacts[k], call[c].asked, clock)
<1>1. k \in Key /\ rows[k] \in Row /\ rows[k].exp \in Expiry /\ call[c].asked \in Asked
      /\ call[c].exp \in Expiry /\ clock \in Nat /\ rows \in [Key -> Row]
  BY CallParts DEF TypeOK
<1>2. a \in Store!Ask /\ a \in StoreAsks[c]
  <2>1. call[c].pc \in {"insert", "update"}
    BY DEF Insert, Update
  <2>. QED
    BY <2>1, AskingParts DEF StoreAsks
<1>3. StoreAsks' = [StoreAsks EXCEPT ![c] = Asking(c)']
  <2>1. Write(c)
    BY DEF Write
  <2>. QED
    BY <2>1, AsksOfOne
<1>4. StoreAsks' = StoreAsks \/ StoreAsks' = [StoreAsks EXCEPT ![c] = {}]
  <2>1. Write(c)
    BY DEF Write
  <2>2. Asking(c)' \in {Asking(c), {}}
    BY <2>1, AskKept
  <2>. QED
    BY <1>3, <2>2 DEF StoreAsks
<1>5. ASSUME UNCHANGED <<clock, denies, roles>>, k[1] \in roles,
             StoreFacts' = [StoreFacts EXCEPT ![k] = written]
      PROVE  \E e \in Store!Ask : Store!Grant(c, e)
  <2>1. PICK e \in Store!Ask : e = a
    BY <1>2
  <2>2. \A previous : /\ Store!Resolve(previous, call[c].asked, clock) = Resolve(previous, call[c].asked, clock)
                      /\ Store!Fresh(call[c].asked) = Fresh(call[c].asked)
    BY SameResolve
  <2>3. Store!End(c) \/ Store!Stay(c)
    BY <1>4 DEF Store!End, Store!Stay
  <2>4. StoreFacts' = [StoreFacts EXCEPT ![e.key] =
             IF @ = Store!Absent THEN Store!Fresh(e.asked)
             ELSE Store!Resolve(@, e.asked, clock)]
    BY <1>5, <2>1, <2>2, SameNames
  <2>5. e \in StoreAsks[c] /\ e.op = "grant" /\ e.key[1] \in roles
    BY <1>2, <1>5, <2>1
  <2>6. Store!Grant(c, e)
    BY <1>5, <2>3, <2>4, <2>5 DEF Store!Grant
  <2>. QED
    BY <2>6
<1>6. CASE Insert(c)
  <2>1. /\ rows[k] = NoRow /\ k[1] \in roles /\ UNCHANGED <<clock, denies, roles>>
        /\ rows' = [rows EXCEPT ![k] = [id |-> nextId, exp |-> Fresh(call[c].asked)]]
    BY <1>6 DEF Insert
  <2>2. nextId # 0
    BY DEF TypeOK
  <2>3. StoreFacts' = [StoreFacts EXCEPT ![k] = Fresh(call[c].asked)]
    BY <1>1, <2>1, <2>2 DEF StoreFacts
  <2>4. StoreFacts[k] = Absent
    BY <1>1, <2>1 DEF StoreFacts, NoRow
  <2>. QED
    BY <1>5, <2>1, <2>3, <2>4
<1>7. CASE Update(c)
  <2>1. /\ call[c].pc = "update" /\ rows[k].id = call[c].seen.id
        /\ UNCHANGED <<clock, denies, roles>> /\ Return(c, call[c].exp, FALSE)
        /\ rows' = [rows EXCEPT ![k] = [rows[k] EXCEPT !.exp = call[c].exp]]
    BY <1>7 DEF Update, TypeOK
  <2>2. /\ rows[k].id # 0 /\ k[1] \in roles
        /\ call[c].asked = Omitted => call[c].exp = Forever /\ ~Live(call[c].seen.exp, clock)
        /\ call[c].asked # Omitted => call[c].exp = call[c].asked
    BY <1>1, <2>1 DEF Known, Resolving
  <2>3. StoreFacts' = [StoreFacts EXCEPT ![k] = call[c].exp]
    <3>1. rows'[k].id = rows[k].id /\ rows'[k].exp = call[c].exp
      BY <1>1, <2>1 DEF Row
    <3>2. \A j \in Key : j # k => rows'[j] = rows[j]
      BY <1>1, <2>1
    <3>. QED
      BY <1>1, <2>2, <3>1, <3>2 DEF StoreFacts
  <2>4. StoreFacts[k] = rows[k].exp /\ StoreFacts[k] # Absent
    BY <1>1, <2>2 DEF StoreFacts, Expiry, Forever, Absent
  <2>5. CASE call[c].exp = Resolve(rows[k].exp, call[c].asked, clock)
    BY <1>5, <2>1, <2>2, <2>3, <2>4, <2>5
  <2>6. CASE call[c].exp # Resolve(rows[k].exp, call[c].asked, clock)
    <3>1. call[c].asked = Omitted /\ Live(rows[k].exp, clock) /\ rows[k].exp # Forever
      BY <2>2, <2>6 DEF Resolve
    <3>2. StoreAsks' = [StoreAsks EXCEPT ![c] = {}]
      <4>1. call'[c].pc = "done"
        BY <2>1, Moved
      <4>2. Asking(c)' = {}
        BY <4>1, AskingNext DEF Writing
      <4>. QED
        BY <1>3, <4>2
    <3>3. StoreFacts' = [StoreFacts EXCEPT ![k] = Forever]
      BY <2>2, <2>3, <3>1
    <3>. QED
      BY <2>1, <2>2, <3>1, <3>2, <3>3 DEF RevivesRenewed
  <2>. QED
    BY <2>5, <2>6
<1>. QED
  BY <1>6, <1>7

LEMMA DenyMaps ==
    ASSUME TypeOK, NEW c \in Client, DenyInsert(c), denies' # denies
    PROVE  \E a \in Store!Ask : Store!Deny(c, a)
<1>1. PICK a \in Store!Ask : a = [op |-> "deny", scope |-> ScopeOf(c)]
  BY AskingParts
<1>2. a \in StoreAsks[c] /\ a.op = "deny" /\ a.scope = ScopeOf(c)
  <2>1. call[c].pc = "denyInsert"
    BY DEF DenyInsert
  <2>. QED
    BY <1>1, <2>1, AskingParts DEF StoreAsks
<1>3. StoreAsks' = StoreAsks \/ StoreAsks' = [StoreAsks EXCEPT ![c] = {}]
  <2>1. Write(c)
    BY DEF Write
  <2>2. StoreAsks' = [StoreAsks EXCEPT ![c] = Asking(c)'] /\ Asking(c)' \in {Asking(c), {}}
    BY <2>1, AsksOfOne, AskKept
  <2>. QED
    BY <2>2 DEF StoreAsks
<1>4. denies' = denies \cup {ScopeOf(c)} /\ UNCHANGED <<clock, StoreFacts, roles>>
  BY DEF DenyInsert, StoreFacts
<1>5. Store!End(c) \/ Store!Stay(c)
  BY <1>3 DEF Store!End, Store!Stay, StoreAsks
<1>6. Store!Deny(c, a)
  BY <1>2, <1>4, <1>5 DEF Store!Deny, StoreAsks, StoreFacts, Key
<1>. QED
  BY <1>6

LEMMA ReadMaps ==
    ASSUME TypeOK, NEW c \in Client, call[c].pc \in Reading, Read(c) \/ GiveUp(c), Kept
    PROVE  UNCHANGED <<clock, StoreFacts, denies, roles, StoreAsks>>
<1>1. Asking(c) = {} /\ StoreAsks[c] = {}
  BY AskingParts DEF Writing, Reading, StoreAsks
<1>2. call'[c].pc \in {"idle", "done", "readAssignments", "listDenies"}
  <2>1. \/ Fail(c) \/ Goto(c, "readAssignments") \/ Goto(c, "listDenies")
        \/ \E answer : Return(c, Forever, answer)
    BY DEF Read, ReadDenies, ReadAssignments, ListAssignments, ListDenies, GiveUp
  <2>2. \A answer : Return(c, Forever, answer) => call'[c].pc = "done"
    BY Moved
  <2>3. /\ Fail(c) => call'[c].pc = "idle"
        /\ Goto(c, "readAssignments") => call'[c].pc = "readAssignments"
        /\ Goto(c, "listDenies") => call'[c].pc = "listDenies"
    BY Moved
  <2>. QED
    BY <2>1, <2>2, <2>3
<1>3. Asking(c)' = {}
  BY <1>2, AskingNext DEF Writing
<1>4. StoreAsks' = [StoreAsks EXCEPT ![c] = Asking(c)']
  <2>1. Start(c) \/ Write(c) \/ Read(c)
    BY DEF Write
  <2>. QED
    BY <2>1, AsksOfOne
<1>5. StoreAsks' = StoreAsks
  BY <1>1, <1>3, <1>4 DEF StoreAsks
<1>. QED
  BY <1>5 DEF Kept, StoreFacts

\* The operations of one statement or one transaction are steps of the store.
LEMMA WholeMaps ==
    ASSUME TypeOK, UNCHANGED call,
           \/ \E k \in Key : Revoke(k)
           \/ \E s \in Scope : RemoveDeny(s) \/ PurgeScope(s)
           \/ \E r \in Role : PurgeRole(r)
           \/ Tick
    PROVE  Store!Next
<1>1. UNCHANGED StoreAsks
  BY DEF StoreAsks, Asking, ScopeOf
<1>2. rows \in [Key -> Row] /\ NoRow.id = 0
  BY DEF TypeOK, NoRow
<1>3. ASSUME NEW k \in Key, Revoke(k)
      PROVE  Store!Revoke(k)
  <2>1. StoreFacts' = [StoreFacts EXCEPT ![k] = Absent]
    BY <1>2, <1>3 DEF Revoke, StoreFacts
  <2>. QED
    BY <1>1, <1>3, <2>1, SameNames DEF Revoke, Store!Revoke
<1>4. ASSUME NEW s \in Scope, RemoveDeny(s)
      PROVE  Store!RemoveDeny(s)
  <2>1. UNCHANGED StoreFacts
    BY <1>4 DEF RemoveDeny, StoreFacts
  <2>. QED
    BY <1>1, <1>4, <2>1 DEF RemoveDeny, Store!RemoveDeny
<1>5. ASSUME NEW s \in Scope, PurgeScope(s)
      PROVE  Store!PurgeScope(s)
  <2>1. StoreFacts' = [k \in Key |-> IF k[2] = s THEN Absent ELSE StoreFacts[k]]
    BY <1>2, <1>5 DEF PurgeScope, StoreFacts
  <2>. QED
    BY <1>1, <1>5, <2>1, SameNames DEF PurgeScope, Store!PurgeScope
<1>6. ASSUME NEW r \in Role, PurgeRole(r)
      PROVE  Store!PurgeRole(r)
  <2>1. StoreFacts' = [k \in Key |-> IF k[1] = r THEN Absent ELSE StoreFacts[k]]
    BY <1>2, <1>6 DEF PurgeRole, StoreFacts
  <2>. QED
    BY <1>1, <1>6, <2>1, SameNames DEF PurgeRole, Store!PurgeRole
<1>7. ASSUME Tick
      PROVE  Store!Tick
  <2>1. UNCHANGED StoreFacts
    BY <1>7 DEF Tick, StoreFacts
  <2>. QED
    BY <1>1, <1>7, <2>1 DEF Tick, Store!Tick
<1>. QED
  BY <1>3, <1>4, <1>5, <1>6, <1>7, SameNames DEF Store!Next

\* A step of the port, or the race that it does not promise.
PortStep == Store!Next \/ \E c \in Client : RevivesRenewed(c)

LEMMA StepMaps ==
    ASSUME TypeOK, Known, Resolving, Next
    PROVE  PortStep \/ UNCHANGED <<clock, StoreFacts, denies, roles, StoreAsks>>
<1>1. ASSUME NEW c \in Client, Start(c)
      PROVE  PortStep \/ UNCHANGED <<clock, StoreFacts, denies, roles, StoreAsks>>
  BY <1>1, StartMaps DEF PortStep, Store!Next
<1>2. ASSUME NEW c \in Client, Read(c)
      PROVE  UNCHANGED <<clock, StoreFacts, denies, roles, StoreAsks>>
  <2>1. call[c].pc \in Reading /\ Kept
    BY <1>2 DEF Read, ReadDenies, ReadAssignments, ListAssignments, ListDenies, Reading, Kept
  <2>. QED
    BY <1>2, <2>1, ReadMaps
<1>3. ASSUME NEW c \in Client, Insert(c) \/ Update(c), rows' # rows
      PROVE  PortStep
  BY <1>3, GrantMaps DEF PortStep, Store!Next
<1>4. ASSUME NEW c \in Client, DenyInsert(c), denies' # denies
      PROVE  PortStep
  BY <1>4, DenyMaps DEF PortStep, Store!Next
<1>5. ASSUME NEW c \in Client, Write(c), rows' = rows, denies' = denies
      PROVE  PortStep \/ UNCHANGED <<clock, StoreFacts, denies, roles, StoreAsks>>
  <2>1. UNCHANGED <<clock, denies, roles>>
    BY <1>5 DEF Write, Find, Insert, Race, Update, GiveUp, DenyFind, DenyInsert, DenyRace
  <2>2. UNCHANGED StoreFacts
    BY <1>5 DEF StoreFacts
  <2>3. Store!Stop(c) \/ UNCHANGED StoreAsks
    BY <1>5, <2>1, <2>2, QuietStep
  <2>. QED
    BY <2>1, <2>2, <2>3 DEF PortStep, Store!Next
<1>6. ASSUME NEW c \in Client, Write(c)
      PROVE  \/ rows' = rows /\ denies' = denies
             \/ (Insert(c) \/ Update(c)) /\ rows' # rows
             \/ DenyInsert(c) /\ denies' # denies
  BY <1>6 DEF Write, Find, Insert, Race, Update, GiveUp, DenyFind, DenyInsert, DenyRace
<1>7. ASSUME \/ \E k \in Key : Revoke(k)
             \/ \E s \in Scope : RemoveDeny(s) \/ PurgeScope(s)
             \/ \E r \in Role : PurgeRole(r)
             \/ Tick
      PROVE  PortStep
  <2>1. UNCHANGED call
    BY <1>7 DEF Revoke, RemoveDeny, PurgeScope, PurgeRole, Tick
  <2>. QED
    BY <1>7, <2>1, WholeMaps DEF PortStep
<1>. QED
  BY <1>1, <1>2, <1>3, <1>4, <1>5, <1>6, <1>7 DEF Next, Step

LEMMA InitMaps == Init => Store!Init
<1>. SUFFICES ASSUME Init PROVE Store!Init
  OBVIOUS
<1>1. TypeOK
  BY InitTyped
<1>2. StoreFacts \in [Store!Key -> Store!Expiry \cup {Store!Absent}]
  BY <1>1, SameNames DEF StoreFacts, TypeOK, Row
<1>3. StoreAsks = [c \in Client |-> {}]
  <2>1. \A c \in Client : call[c].pc = "idle"
    BY DEF Init, NoCall
  <2>2. \A c \in Client : Asking(c) = {}
    BY <1>1, <2>1, AskingParts DEF Writing
  <2>. QED
    BY <2>2 DEF StoreAsks
<1>. QED
  BY <1>2, <1>3 DEF Init, Store!Init, StoreFacts, StoreAsks

\* Whatever grants ask for, the statements of all clients together do nothing that the
\* one-step store does not, but for two grants that read one expired row: the one that names
\* no expiry revives it without the date that the other gave it meanwhile.
THEOREM Port == Spec => ImplementsPort
<1>1. TypeOK /\ Known /\ Resolving /\ [Next]_vars => Resolving'
  <2>1. ASSUME Resolving, UNCHANGED vars
        PROVE  Resolving'
    BY <2>1 DEF vars, Resolving
  <2>. QED
    BY <2>1, ResolvingStep
<1>2. Spec => []Resolving
  BY <1>1, InitResolving, Typing, Uuids, PTL DEF Spec
<1>3. TypeOK /\ Known /\ Resolving /\ [Next]_vars
      => [Store!Next \/ \E c \in Client : RevivesRenewed(c)]_(Store!vars)
  <2>1. ASSUME UNCHANGED vars
        PROVE  UNCHANGED <<clock, StoreFacts, denies, roles, StoreAsks>>
    BY <2>1 DEF vars, StoreFacts, StoreAsks, Asking, ScopeOf
  <2>2. ASSUME TypeOK, Known, Resolving, [Next]_vars
        PROVE  PortStep \/ UNCHANGED <<clock, StoreFacts, denies, roles, StoreAsks>>
    BY <2>1, <2>2, StepMaps
  <2>. QED
    BY <2>2 DEF PortStep, Store!vars
<1>. QED
  BY <1>2, <1>3, InitMaps, Typing, Uuids, PTL DEF Spec, ImplementsPort
=============================================================================
