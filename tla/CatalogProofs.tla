---------------------------- MODULE CatalogProofs ----------------------------
(* What holds of the memo of the catalog for any callers, catalogs and window. *)
EXTENDS CatalogCache, TLAPS

USE CatalogAssumption

LEMMA InitTyped == Init => TypeOK
  <1> SUFFICES ASSUME Init PROVE TypeOK
    OBVIOUS
  <1>1. PICK rows \in First : history = <<[rows |-> rows, at |-> 0]>>
    BY DEF Init
  <1>2. history \in Seq([rows : Catalog, at : Nat]) /\ Len(history) = 1
    BY <1>1
  <1>3. Version \in Versions
    BY <1>2 DEF Version, Versions
  <1>4. NotAsked \in Ask
    BY DEF NotAsked, Ask
  <1> QED
    BY <1>2, <1>3, <1>4 DEF Init, TypeOK

\* Settling what questions wait for leaves well-typed questions.
LEMMA SettleTyped ==
  ASSUME TypeOK, NEW on, NEW photo \in Photo, NEW via \in {"memo", "check", "load"}
  PROVE  /\ Answered(on, photo, via) \in [Question -> Ask]
         /\ Refused(on) \in [Question -> Ask]
  BY DEF TypeOK, Answered, Refused, Ask

\* What settling does to one question.
LEMMA AnsweredOne ==
  ASSUME TypeOK, NEW q \in Question, NEW on, NEW photo, NEW via
  PROVE  /\ ask[q].pc \notin on => Answered(on, photo, via)[q] = ask[q]
         /\ ask[q].pc \in on => /\ Answered(on, photo, via)[q].pc = "done"
                                /\ Answered(on, photo, via)[q].photo = photo
                                /\ Answered(on, photo, via)[q].via = via
                                /\ Answered(on, photo, via)[q].from = ask[q].from
                                /\ Answered(on, photo, via)[q].floor = floor
         /\ ask[q].pc \notin on => Refused(on)[q] = ask[q]
         /\ ask[q].pc \in on => Refused(on)[q].pc = "failed"
  <1>1. ask[q] \in Ask
    BY DEF TypeOK
  <1>2. CASE ask[q].pc \in on
    <2>1. Answered(on, photo, via)[q] = [ask[q] EXCEPT !.pc = "done", !.photo = photo, !.via = via,
                                                    !.at = clock, !.floor = floor]
      BY <1>2 DEF Answered
    <2>2. Refused(on)[q] = [ask[q] EXCEPT !.pc = "failed"]
      BY <1>2 DEF Refused
    <2> QED
      BY <1>1, <1>2, <2>1, <2>2 DEF Ask
  <1>3. CASE ask[q].pc \notin on
    BY <1>3 DEF Answered, Refused
  <1> QED
    BY <1>2, <1>3

LEMMA WaitTyped ==
  ASSUME TypeOK, NEW q \in Question, NEW pc \in {"check", "load"}, NEW from \in Nat,
         Wait(q, pc, from)
  PROVE  ask' \in [Question -> Ask]
  <1>1. Version \in Nat
    BY DEF TypeOK, Versions
  <1>2. [NotAsked EXCEPT !.pc = pc, !.asked = Version, !.from = from] \in Ask
    BY <1>1 DEF NotAsked, Ask
  <1> QED
    BY <1>2 DEF TypeOK, Wait

\* A read of the load fills one column of its photo.
LEMMA StepTyped ==
  ASSUME TypeOK, NEW from, NEW to \in {"permissions", "roles", "links", "land"},
         NEW table \in {"label", "perms", "roles", "links"}, from # "none",
         Step(from, to, table)
  PROVE  load' \in Load
  <1>1. load \in Load
    BY DEF Step, TypeOK, NoLoad
  <1> load.photo \in Photo
    BY <1>1 DEF Load
  <1> Version \in Nat
    BY DEF TypeOK, Versions
  <1>2. [load.photo EXCEPT ![table] = Version] \in Photo
    BY DEF Photo
  <1>3. load' = [phase |-> to, from |-> load.from, fresh |-> load.fresh,
                 photo |-> [load.photo EXCEPT ![table] = Version]]
    BY <1>1 DEF Step, Load
  <1> QED
    BY <1>1, <1>2, <1>3 DEF Load

LEMMA StepKeepsType == TypeOK /\ [Next]_vars => TypeOK'
  <1> SUFFICES ASSUME TypeOK, [Next]_vars PROVE TypeOK'
    OBVIOUS
  <1>v. Version \in Nat
    BY DEF TypeOK, Versions
  <1>1. ASSUME NEW q \in Question, AskMemo(q) PROVE TypeOK'
    BY <1>1, <1>v DEF AskMemo, IsFresh, TypeOK, Ask, Version
  <1>2. ASSUME NEW q \in Question, AskCheck(q) PROVE TypeOK'
    <2>1. check' \in Check
      BY <1>2, <1>v DEF AskCheck, TypeOK, Check, NoCheck
    <2>2. check'.from \in Nat
      BY <2>1 DEF Check
    <2>3. ask' \in [Question -> Ask]
      BY <1>2, <2>2, WaitTyped DEF AskCheck
    <2> QED
      BY <1>2, <2>1, <2>3 DEF AskCheck, TypeOK, Version
  <1>3. ASSUME NEW q \in Question, AskLoad(q) PROVE TypeOK'
    <2>1. load' \in Load
      BY <1>3, <1>v DEF AskLoad, ColdLoad, TypeOK, Load, NoLoad, Blank, Photo
    <2>2. load'.from \in Nat
      BY <2>1 DEF Load
    <2>3. ask' \in [Question -> Ask]
      BY <1>3, <2>2, WaitTyped DEF AskLoad
    <2> QED
      BY <1>3, <2>1, <2>3 DEF AskLoad, TypeOK, Version
  <1>4. CASE CheckRead
    <2>1. check \in Check
      BY <1>4 DEF CheckRead, TypeOK, NoCheck
    <2>2. check' \in Check
      BY <1>4, <1>v, <2>1 DEF CheckRead, Check
    <2> QED
      BY <1>4, <2>2 DEF CheckRead, TypeOK, Version
  <1>5. CASE CheckServes
    <2>1. view \in Photo
      BY <1>5 DEF CheckServes, TypeOK, Check, NoCheck, NoPhoto
    <2> QED
      BY <1>5, <2>1, SettleTyped DEF CheckServes, TypeOK, Version
  <1>6. CASE CheckReloads
    <2>1. check \in Check
      BY <1>6 DEF CheckReloads, TypeOK, NoCheck
    <2>2. check' \in Check
      BY <1>6, <2>1 DEF CheckReloads, Check
    <2>3. [Blank EXCEPT !.label = check.read] \in Photo
      BY <2>1 DEF Blank, Photo, Check
    <2>4. load' \in Load
      BY <1>6, <2>1, <2>3 DEF CheckReloads, TypeOK, Load, Check
    <2> QED
      BY <1>6, <2>2, <2>4 DEF CheckReloads, TypeOK, Version
  <1>7. CASE CheckSuperseded
    <2>1. check \in Check
      BY <1>7 DEF CheckSuperseded, TypeOK, NoCheck
    <2>2. check' \in Check \cup {NoCheck}
      BY <1>7, <2>1 DEF CheckSuperseded, Check
    <2>c. ColdLoad \in Load
      BY <1>v DEF ColdLoad, Load, Blank, Photo
    <2>3. load' \in Load \cup {NoLoad}
      BY <1>7, <2>c DEF CheckSuperseded, TypeOK
    <2>4. ask' \in [Question -> Ask]
      BY <1>7, SettleTyped DEF CheckSuperseded, IsFresh, TypeOK
    <2> QED
      BY <1>7, <2>2, <2>3, <2>4 DEF CheckSuperseded, TypeOK, Version
  <1>8. CASE CheckFails
    <2>1. ask' \in [Question -> Ask]
      BY <1>8 DEF CheckFails, Refused, TypeOK, Ask
    <2> QED
      BY <1>8, <2>1 DEF CheckFails, TypeOK, Version
  <1>9. CASE LoadVersion \/ LoadPermissions \/ LoadRoles \/ LoadLinks
    <2>1. load' \in Load
      BY <1>9, StepTyped DEF LoadVersion, LoadPermissions, LoadRoles, LoadLinks
    <2> QED
      BY <1>9, <2>1 DEF LoadVersion, LoadPermissions, LoadRoles, LoadLinks, Step, TypeOK, Version
  <1>10. CASE LoadLands
    <2>1. load \in Load /\ load.photo \in Photo /\ load.fresh \in BOOLEAN
      BY <1>10 DEF LoadLands, TypeOK, Load, NoLoad
    <2>2. check' \in Check \cup {NoCheck}
      BY <1>10 DEF LoadLands, CheckAfterLoad, TypeOK, Check
    <2>3. ask' \in [Question -> Ask]
      BY <1>10, <2>1, SettleTyped DEF LoadLands
    <2> QED
      BY <1>10, <2>1, <2>2, <2>3 DEF LoadLands, TypeOK, Version
  <1>11. CASE LoadFails
    <2>1. ask' \in [Question -> Ask]
      BY <1>11 DEF LoadFails, Refused, TypeOK, Ask
    <2> QED
      BY <1>11, <2>1 DEF LoadFails, TypeOK, Version
  <1>12. ASSUME NEW rows \in Catalog, Commit(rows) PROVE TypeOK'
    BY <1>12, <1>v DEF Commit, TypeOK, Version, Versions
  <1>13. CASE Invalidate
    BY <1>13, <1>v DEF Invalidate, TypeOK, Load, Version
  <1>14. CASE Tick
    BY <1>14 DEF Tick, TypeOK, Version
  <1>15. CASE UNCHANGED vars
    BY <1>15 DEF vars, TypeOK, Version
  <1> QED
    BY <1>1, <1>2, <1>3, <1>4, <1>5, <1>6, <1>7, <1>8, <1>9, <1>10, <1>11, <1>12, <1>13,
       <1>14, <1>15 DEF Next, CheckStep, LoadStep

\* The memo is always well formed, whatever lands in the middle of a load.
THEOREM CatalogTyped == Spec => []TypeOK
  BY InitTyped, StepKeepsType, PTL DEF Spec

-----------------------------------------------------------------------------
(* The invariant of the memo.  A photo is read in the order label,         *)
(* permissions, roles, links, so the versions it was read at never go      *)
(* down; a flight that a question waits for is the one it joined; and what *)
(* was invalidated is read again before it counts as fresh.                *)

\* A photo read when the catalog was at v or before.
Ordered(p, v) ==
    /\ p.label <= p.perms
    /\ p.perms <= p.roles
    /\ p.roles <= p.links
    /\ p.links <= v

OrderedSoFar(phase, p, v) ==
    /\ phase \in {"permissions", "roles", "links", "land"} => p.label <= v
    /\ phase \in {"roles", "links", "land"} => p.label <= p.perms /\ p.perms <= v
    /\ phase \in {"links", "land"} => p.perms <= p.roles /\ p.roles <= v
    /\ phase = "land" => p.roles <= p.links /\ p.links <= v

ReadsInOrder ==
    /\ view # NoPhoto => Ordered(view, Version)
    /\ OrderedSoFar(load.phase, load.photo, Version)
    /\ check.phase = "resume" => check.read <= Version
    /\ \A q \in Question :
          ask[q].pc = "done" => ask[q].photo # NoPhoto /\ Ordered(ask[q].photo, Version)

CheckLeft ==
    /\ check # NoCheck => check.from <= Version
    /\ check.phase = "resume" => check.from <= check.read
    /\ check.phase = "reload" => load # NoLoad

LoadLeft ==
    /\ load # NoLoad => load.from <= Version
    /\ load.phase \in {"permissions", "roles", "links", "land"} => load.from <= load.photo.label
    /\ load # NoLoad => ~IsFresh \/ check.phase = "reload"
    /\ check # NoCheck /\ load # NoLoad => check.from <= load.from

Joined ==
    \A q \in Question :
        /\ ask[q].pc = "check" => check # NoCheck /\ ask[q].from = check.from
        /\ ask[q].pc = "load" => load # NoLoad /\ ask[q].from = load.from

FloorHolds ==
    /\ floor <= Version
    /\ view # NoPhoto /\ fresh => floor <= view.perms
    /\ load.phase \in {"roles", "links", "land"} /\ load.fresh => floor <= load.photo.perms

CatalogInv ==
    /\ TypeOK
    /\ ReadsInOrder
    /\ CheckLeft
    /\ LoadLeft
    /\ Joined
    /\ FloorHolds
    /\ FlightSees
    /\ InvalidationHolds

LEMMA InitCatalogInv == Init => CatalogInv
  <1> SUFFICES ASSUME Init PROVE CatalogInv
    OBVIOUS
  <1>1. TypeOK
    BY InitTyped
  <1>2. Version = 0
    BY DEF Init, Version
  <1>3. ReadsInOrder
    BY DEF Init, ReadsInOrder, OrderedSoFar, NoLoad, NoCheck, NotAsked
  <1>4. CheckLeft /\ LoadLeft
    BY DEF Init, CheckLeft, LoadLeft, NoLoad, NoCheck
  <1>5. Joined /\ FlightSees /\ InvalidationHolds
    BY DEF Init, Joined, FlightSees, InvalidationHolds, NotAsked
  <1>6. FloorHolds
    BY <1>2 DEF Init, FloorHolds, NoLoad
  <1> QED
    BY <1>1, <1>3, <1>4, <1>5, <1>6 DEF CatalogInv

\* Only a commit moves the version, and it moves it forward.
LEMMA VersionGrows ==
  ASSUME TypeOK, [Next]_vars
  PROVE  /\ Version \in Nat /\ Version' \in Nat /\ Version <= Version'
         /\ (\E rows \in Catalog : Commit(rows)) \/ Version' = Version
  <1>1. Version \in Nat
    BY DEF TypeOK, Versions
  <1>2. CASE \E rows \in Catalog : Commit(rows)
    BY <1>1, <1>2 DEF Commit, TypeOK, Version
  <1>3. CASE ~ \E rows \in Catalog : Commit(rows)
    <2>1. history' = history
      BY <1>3 DEF Next, CheckStep, LoadStep, AskMemo, AskCheck, AskLoad, CheckRead, CheckServes,
         CheckReloads, CheckSuperseded, CheckFails, LoadVersion, LoadPermissions, LoadRoles,
         LoadLinks, Step, LoadLands, LoadFails, Invalidate, Tick, vars
    <2> QED
      BY <1>1, <2>1 DEF Version
  <1> QED
    BY <1>2, <1>3

\* The photo of a read stays in order: it is served, kept or extended by a read of now.
LEMMA OrderKept == CatalogInv /\ [Next]_vars => ReadsInOrder'
  <1> SUFFICES ASSUME CatalogInv, [Next]_vars PROVE ReadsInOrder'
    OBVIOUS
  <1>t. TypeOK /\ TypeOK' /\ ReadsInOrder
    BY StepKeepsType DEF CatalogInv
  <1>v. Version \in Nat /\ Version' \in Nat /\ Version <= Version'
    BY <1>t, VersionGrows
  <1>o. ASSUME NEW p \in Photo, Ordered(p, Version) PROVE Ordered(p, Version')
    BY <1>v, <1>o DEF Ordered, Photo
  <1>s. ASSUME NEW phase, NEW p \in Photo, OrderedSoFar(phase, p, Version) PROVE OrderedSoFar(phase, p, Version')
    BY <1>v, <1>s DEF OrderedSoFar, Photo
  <1>l. load = NoLoad \/ (load \in Load /\ load.photo \in Photo)
    BY <1>t DEF TypeOK, Load
  <1>c. check = NoCheck \/ check \in Check
    BY <1>t DEF TypeOK
  <1>p. load.phase = "land" => load \in Load /\ load.photo \in Photo /\ Ordered(load.photo, Version)
                               /\ load.photo # NoPhoto
    <2> SUFFICES ASSUME load.phase = "land"
                 PROVE load \in Load /\ load.photo \in Photo /\ Ordered(load.photo, Version)
                       /\ load.photo # NoPhoto
      OBVIOUS
    <2>1. load \in Load /\ load.photo \in Photo
      BY <1>l DEF NoLoad
    <2>2. Ordered(load.photo, Version)
      BY <1>t DEF ReadsInOrder, OrderedSoFar, Ordered
    <2> QED
      BY <2>1, <2>2 DEF Photo, NoPhoto
  <1>1. view' # NoPhoto => Ordered(view', Version')
    <2>1. view' = view \/ (load.phase = "land" /\ view' = load.photo)
      BY DEF Next, CheckStep, LoadStep, AskMemo, AskCheck, AskLoad, CheckRead, CheckServes,
         CheckReloads, CheckSuperseded, CheckFails, LoadVersion, LoadPermissions, LoadRoles,
         LoadLinks, Step, LoadLands, LoadFails, Commit, Invalidate, Tick, vars
    <2>2. view # NoPhoto => view \in Photo /\ Ordered(view, Version)
      BY <1>t DEF TypeOK, ReadsInOrder
    <2> QED
      BY <2>1, <2>2, <1>o, <1>p, <1>v DEF Ordered, Photo
  <1>2. OrderedSoFar(load'.phase, load'.photo, Version')
    <2> DEFINE Kept == load'.phase = load.phase /\ load'.photo = load.photo
    <2>1. CASE load' = NoLoad
      BY <2>1 DEF NoLoad, OrderedSoFar
    <2>2. CASE Kept
      <3>1. CASE load = NoLoad
        BY <2>2, <3>1 DEF NoLoad, OrderedSoFar
      <3>2. CASE load # NoLoad
        BY <1>l, <1>s, <1>t, <2>2, <3>2 DEF ReadsInOrder
      <3> QED
        BY <3>1, <3>2
    <2>3. CASE load' = ColdLoad
      BY <2>3 DEF ColdLoad, OrderedSoFar
    <2>4. CASE CheckReloads
      <3>1. check \in Check /\ check.read <= Version /\ Version' = Version
        BY <1>c, <1>t, <2>4, <1>v DEF CheckReloads, ReadsInOrder, NoCheck, Version
      <3>2. CASE load = NoLoad
        BY <2>4, <3>1, <3>2 DEF CheckReloads, OrderedSoFar, Blank, Check
      <3>3. CASE load # NoLoad
        BY <2>2, <2>4, <3>3 DEF CheckReloads
      <3> QED
        BY <3>2, <3>3
    <2>5. CASE LoadVersion \/ LoadPermissions \/ LoadRoles \/ LoadLinks
      <3>1. load \in Load /\ load.photo \in Photo
        BY <1>l, <2>5 DEF LoadVersion, LoadPermissions, LoadRoles, LoadLinks, Step, NoLoad
      <3>2. Version' = Version
        BY <2>5 DEF LoadVersion, LoadPermissions, LoadRoles, LoadLinks, Step, Version
      <3>o. OrderedSoFar(load.phase, load.photo, Version)
        BY <1>t DEF ReadsInOrder
      <3>3. CASE LoadVersion
        BY <3>1, <3>2, <3>3, <1>v DEF LoadVersion, Step, OrderedSoFar, Load, Photo
      <3>4. CASE LoadPermissions
        BY <3>1, <3>2, <3>o, <3>4, <1>v DEF LoadPermissions, Step, OrderedSoFar, Load, Photo
      <3>5. CASE LoadRoles
        BY <3>1, <3>2, <3>o, <3>5, <1>v DEF LoadRoles, Step, OrderedSoFar, Load, Photo
      <3>6. CASE LoadLinks
        BY <3>1, <3>2, <3>o, <3>6, <1>v DEF LoadLinks, Step, OrderedSoFar, Load, Photo
      <3> QED
        BY <2>5, <3>3, <3>4, <3>5, <3>6
    <2>6. CASE Invalidate
      <3>1. load # NoLoad => Kept
        BY <1>l, <2>6 DEF Invalidate, Load
      <3> QED
        BY <2>1, <2>2, <2>6, <3>1 DEF Invalidate
    <2>7. CASE load' = load
      BY <2>2, <2>7
    <2> QED
      BY <2>1, <2>3, <2>4, <2>5, <2>6, <2>7
      DEF Next, CheckStep, LoadStep, AskMemo, AskCheck, AskLoad, CheckRead, CheckServes,
          CheckSuperseded, CheckFails, LoadLands, LoadFails, Commit, Tick, vars
  <1>3. (check.phase = "resume" => check.read <= Version)'
    <2>1. CASE CheckRead
      BY <1>c, <1>v, <2>1 DEF CheckRead, NoCheck, Check, Version
    <2>2. CASE check'.phase = "resume" => check.phase = "resume" /\ check'.read = check.read
      BY <1>c, <1>t, <1>v, <2>2 DEF ReadsInOrder, NoCheck, Check
    <2>3. CASE check' = NoCheck
      BY <2>3 DEF NoCheck
    <2>4. CASE check' = check
      BY <2>2, <2>4
    <2>5. CASE CheckReloads
      BY <1>c, <2>2, <2>5 DEF CheckReloads, NoCheck, Check
    <2>6. CASE CheckSuperseded
      BY <1>c, <2>2, <2>3, <2>6 DEF CheckSuperseded, NoCheck, Check
    <2>7. CASE LoadLands
      BY <1>c, <2>2, <2>3, <2>7 DEF LoadLands, CheckAfterLoad, NoCheck, Check
    <2>8. ASSUME NEW q \in Question, AskCheck(q)
          PROVE  check'.phase = "resume" => check.phase = "resume" /\ check'.read = check.read
      BY <2>8 DEF AskCheck
    <2> QED
      BY <2>1, <2>2, <2>3, <2>4, <2>5, <2>6, <2>7, <2>8
      DEF Next, CheckStep, LoadStep, AskMemo, AskLoad, CheckServes, CheckFails, LoadVersion,
          LoadPermissions, LoadRoles, LoadLinks, Step, LoadFails, Commit, Invalidate, Tick, vars
  <1>4. ASSUME NEW q \in Question, ask'[q].pc = "done"
        PROVE  ask'[q].photo # NoPhoto /\ Ordered(ask'[q].photo, Version')
    <2>1. CASE ask'[q] = ask[q]
      <3>1. ask[q].photo \in Photo /\ Ordered(ask[q].photo, Version)
        BY <1>4, <1>t, <2>1 DEF TypeOK, Ask, ReadsInOrder
      <3> QED
        BY <1>o, <2>1, <3>1 DEF Photo, NoPhoto
    <2> DEFINE Serves(p) == \E on, via : ask' = Answered(on, p, via)
    <2>2. ASSUME NEW p \in Photo, Ordered(p, Version), Serves(p)
          PROVE  ask'[q].photo # NoPhoto /\ Ordered(ask'[q].photo, Version')
      <3> PICK on, via : ask' = Answered(on, p, via)
        BY <2>2
      <3>1. ask'[q] = ask[q] \/ ask'[q].photo = p
        BY <1>t, AnsweredOne
      <3> QED
        BY <1>o, <2>1, <2>2, <3>1 DEF Photo, NoPhoto
    <2>3. view # NoPhoto => view \in Photo /\ Ordered(view, Version)
      BY <1>t DEF TypeOK, ReadsInOrder
    <2>4. ASSUME NEW r \in Question, AskMemo(r)
          PROVE  ask'[q].photo # NoPhoto /\ Ordered(ask'[q].photo, Version')
      <3>1. ask'[q] = ask[q] \/ ask'[q].photo = view
        BY <1>t, <2>4 DEF AskMemo, TypeOK
      <3>2. view # NoPhoto
        BY <2>4 DEF AskMemo, IsFresh
      <3> QED
        BY <1>o, <2>1, <2>3, <3>1, <3>2
    <2>5. ASSUME NEW r \in Question, AskCheck(r) \/ AskLoad(r)
          PROVE  ask'[q] = ask[q]
      BY <1>t, <1>4, <2>5 DEF AskCheck, AskLoad, Wait, TypeOK, NotAsked
    <2>6. CASE CheckServes
      <3>1. view # NoPhoto
        BY <1>c, <2>6 DEF CheckServes, NoCheck, NoPhoto, Check
      <3>2. Serves(view)
        BY <2>6 DEF CheckServes
      <3> QED
        BY <2>2, <2>3, <3>1, <3>2
    <2>7. CASE CheckSuperseded
      <3>1. ask' = ask \/ (view # NoPhoto /\ Serves(view))
        BY <2>7 DEF CheckSuperseded, IsFresh
      <3> QED
        BY <2>1, <2>2, <2>3, <3>1
    <2>8. CASE LoadLands
      <3>1. Serves(load.photo) /\ load.phase = "land"
        BY <2>8 DEF LoadLands
      <3> QED
        BY <1>p, <2>2, <3>1
    <2>9. CASE CheckFails \/ LoadFails
      <3>1. ask'[q] = ask[q]
        BY <1>t, <1>4, <2>9 DEF CheckFails, LoadFails, Refused, TypeOK, Ask
      <3> QED
        BY <2>1, <3>1
    <2>10. CASE ask' = ask
      BY <2>1, <2>10
    <2> QED
      BY <2>1, <2>4, <2>5, <2>6, <2>7, <2>8, <2>9, <2>10
      DEF Next, CheckStep, LoadStep, CheckRead, CheckReloads, LoadVersion, LoadPermissions,
          LoadRoles, LoadLinks, Step, Commit, Invalidate, Tick, vars
  <1> QED
    BY <1>1, <1>2, <1>3, <1>4 DEF ReadsInOrder

\* The fields of a flight that lands, joins or advances.
LEMMA FlightsTyped ==
  ASSUME TypeOK
  PROVE  /\ check # NoCheck <=> check \in Check
         /\ load # NoLoad <=> load \in Load
         /\ check = NoCheck <=> check.phase = "none"
         /\ load = NoLoad <=> load.phase = "none"
  BY DEF TypeOK, Check, Load, NoCheck, NoLoad

\* A flight left for the database no later than now, and the load that a
\* comparison waits for left no earlier than the comparison.
LEMMA FlightsKept == CatalogInv /\ [Next]_vars => CheckLeft' /\ LoadLeft'
  <1> SUFFICES ASSUME CatalogInv, [Next]_vars PROVE CheckLeft' /\ LoadLeft'
    OBVIOUS
  <1>t. TypeOK /\ CheckLeft /\ LoadLeft /\ ReadsInOrder
    BY DEF CatalogInv
  <1>v. Version \in Nat /\ Version' \in Nat /\ Version <= Version'
    BY <1>t, VersionGrows
  <1>f. /\ check # NoCheck <=> check \in Check
        /\ load # NoLoad <=> load \in Load
        /\ check = NoCheck <=> check.phase = "none"
        /\ load = NoLoad <=> load.phase = "none"
    BY <1>t, FlightsTyped
  <1>n. NoCheck.phase = "none" /\ NoLoad.phase = "none"
    BY DEF NoCheck, NoLoad
  <1>1. ASSUME UNCHANGED <<view, fresh, check, load>>
        PROVE  CheckLeft' /\ LoadLeft'
    <2>1. check # NoCheck => check.from \in Nat
      BY <1>f DEF Check
    <2>2. load # NoLoad => load.from \in Nat
      BY <1>f DEF Load
    <2> QED
      BY <1>1, <1>t, <1>v, <2>1, <2>2 DEF CheckLeft, LoadLeft, IsFresh
  <1>2. ASSUME NEW q \in Question, AskCheck(q) PROVE CheckLeft' /\ LoadLeft'
    <2>1. CASE check # NoCheck
      BY <1>1, <1>2, <2>1 DEF AskCheck
    <2>2. CASE check = NoCheck
      <3>1. check' = [phase |-> "read", from |-> Version, read |-> 0, replaced |-> FALSE]
            /\ load = NoLoad /\ load' = load /\ Version' = Version
        BY <1>2, <1>f, <1>n, <1>t, <2>2 DEF AskCheck, LoadLeft, Version
      <3> QED
        BY <1>v, <1>f, <3>1 DEF CheckLeft, LoadLeft, NoLoad
    <2> QED
      BY <2>1, <2>2
  <1>3. ASSUME NEW q \in Question, AskLoad(q) PROVE CheckLeft' /\ LoadLeft'
    <2>1. CASE load # NoLoad
      BY <1>1, <1>3, <2>1 DEF AskLoad
    <2>2. CASE load = NoLoad
      <3>1. load' = ColdLoad /\ check' = check /\ ~IsFresh' /\ Version' = Version
        BY <1>3, <2>2 DEF AskLoad, IsFresh, Version
      <3>2. load'.phase = "version" /\ load'.from = Version
        BY <3>1 DEF ColdLoad
      <3> QED
        BY <1>v, <1>f, <1>n, <1>t, <3>1, <3>2 DEF CheckLeft, LoadLeft
    <2> QED
      BY <2>1, <2>2
  <1>4. CASE CheckRead
    <2>1. check \in Check
      BY <1>4, <1>f DEF CheckRead, NoCheck
    <2>2. check'.phase = "resume" /\ check'.from = check.from /\ check'.read = Version
          /\ check # NoCheck /\ check'.phase # "none"
      BY <1>4, <1>f, <2>1 DEF CheckRead, Check, NoCheck
    <2>3. UNCHANGED <<view, fresh, load>> /\ Version' = Version
      BY <1>4 DEF CheckRead, Version
    <2>4. load # NoLoad => ~IsFresh
      BY <1>4, <1>t DEF CheckRead, LoadLeft
    <2> QED
      BY <1>v, <1>t, <2>2, <2>3, <2>4 DEF CheckLeft, LoadLeft, IsFresh
  <1>5. CASE CheckReloads \/ CheckSuperseded
    <2>1. check \in Check /\ check.phase = "resume" /\ check # NoCheck
      BY <1>5, <1>f DEF CheckReloads, CheckSuperseded, NoCheck
    <2>2. UNCHANGED <<view, fresh>> /\ Version' = Version
      BY <1>5 DEF CheckReloads, CheckSuperseded, Version
    <2>3. load # NoLoad => ~IsFresh
      BY <1>t, <2>1 DEF LoadLeft
    <2>4. CASE check' = NoCheck /\ load' = load
      BY <1>v, <1>n, <1>t, <2>1, <2>2, <2>3, <2>4 DEF CheckLeft, LoadLeft, IsFresh
    <2>5. CASE check' = [check EXCEPT !.phase = "self"] /\ load' = load
      <3>1. check'.phase = "self" /\ check'.from = check.from
        BY <2>1, <2>5 DEF Check
      <3> QED
        BY <1>v, <1>t, <2>1, <2>2, <2>3, <2>5, <3>1 DEF CheckLeft, LoadLeft, IsFresh
    <2>6. CASE check' = [check EXCEPT !.phase = "reload"] /\ load # NoLoad /\ load' = load
      <3>1. check'.phase = "reload" /\ check'.from = check.from
        BY <2>1, <2>6 DEF Check
      <3> QED
        BY <1>v, <1>t, <2>1, <2>2, <2>6, <3>1 DEF CheckLeft, LoadLeft, IsFresh
    <2>7. CASE check' = [check EXCEPT !.phase = "reload"] /\ load' = ColdLoad
      <3>1. check'.phase = "reload" /\ check'.from = check.from
        BY <2>1, <2>7 DEF Check
      <3>2. load'.phase = "version" /\ load'.from = Version /\ load' # NoLoad
        BY <2>7 DEF ColdLoad, NoLoad
      <3> QED
        BY <1>v, <1>t, <2>1, <2>2, <3>1, <3>2 DEF CheckLeft, LoadLeft
    <2>8. CASE /\ check' = [check EXCEPT !.phase = "reload"]
               /\ load' = [phase |-> "permissions", from |-> check.from, fresh |-> TRUE,
                           photo |-> [Blank EXCEPT !.label = check.read]]
      <3>1. check'.phase = "reload" /\ check'.from = check.from
        BY <2>1, <2>8 DEF Check
      <3>2. load'.phase = "permissions" /\ load'.from = check.from /\ load' # NoLoad
            /\ load'.photo.label = check.read
        BY <2>8 DEF NoLoad, Blank
      <3>3. check.from <= check.read /\ check.from <= Version /\ check.from \in Nat
        BY <1>t, <2>1 DEF CheckLeft, Check
      <3> QED
        BY <1>v, <2>2, <3>1, <3>2, <3>3 DEF CheckLeft, LoadLeft
    <2> QED
      BY <1>5, <2>4, <2>5, <2>6, <2>7, <2>8 DEF CheckReloads, CheckSuperseded
  <1>6. CASE CheckServes \/ CheckFails
    <2>1. check' = NoCheck /\ UNCHANGED <<view, fresh, load>> /\ Version' = Version
      BY <1>6 DEF CheckServes, CheckFails, Version
    <2>2. load # NoLoad => ~IsFresh
      BY <1>6, <1>t DEF CheckServes, CheckFails, LoadLeft
    <2> QED
      BY <1>n, <1>t, <2>1, <2>2 DEF CheckLeft, LoadLeft, IsFresh
  <1>7. CASE LoadVersion \/ LoadPermissions \/ LoadRoles \/ LoadLinks
    <2>1. load \in Load /\ load # NoLoad /\ UNCHANGED <<view, fresh, check>> /\ Version' = Version
      BY <1>7, <1>f DEF LoadVersion, LoadPermissions, LoadRoles, LoadLinks, Step, NoLoad, Version
    <2>2. load'.from = load.from
      BY <1>7, <2>1 DEF LoadVersion, LoadPermissions, LoadRoles, LoadLinks, Step, Load
    <2>3. load'.phase \in {"permissions", "roles", "links", "land"}
      BY <1>7, <2>1 DEF LoadVersion, LoadPermissions, LoadRoles, LoadLinks, Step, Load
    <2>4. load.from <= load'.photo.label
      <3>1. CASE LoadVersion
        BY <1>t, <2>1, <3>1 DEF LoadVersion, Step, Load, Photo, LoadLeft
      <3>2. CASE LoadPermissions \/ LoadRoles \/ LoadLinks
        <4>1. load'.photo.label = load.photo.label
          <5>1. PICK table \in {"perms", "roles", "links"} :
                    load'.photo = [load.photo EXCEPT ![table] = Version]
            BY <2>1, <3>2 DEF LoadPermissions, LoadRoles, LoadLinks, Step, Load
          <5> QED
            BY <2>1, <5>1 DEF Load, Photo
        <4> QED
          BY <1>t, <3>2, <4>1 DEF LoadPermissions, LoadRoles, LoadLinks, Step, LoadLeft
      <3> QED
        BY <1>7, <3>1, <3>2
    <2> QED
      BY <1>n, <1>t, <1>v, <2>1, <2>2, <2>3, <2>4 DEF CheckLeft, LoadLeft, IsFresh
  <1>8. CASE LoadLands
    <2>1. load' = NoLoad /\ Version' = Version
      BY <1>8 DEF LoadLands, Version
    <2>2. check' = NoCheck \/
          (check # NoCheck /\ check.phase # "reload" /\ check' = [check EXCEPT !.replaced = TRUE])
      BY <1>8 DEF LoadLands, CheckAfterLoad
    <2>3. check # NoCheck /\ check' = [check EXCEPT !.replaced = TRUE] =>
            check'.phase = check.phase /\ check'.from = check.from /\ check'.read = check.read
      BY <1>f DEF Check
    <2> QED
      BY <1>n, <1>t, <2>1, <2>2, <2>3 DEF CheckLeft, LoadLeft
  <1>9. CASE LoadFails
    <2>1. load' = NoLoad /\ Version' = Version
      BY <1>9 DEF LoadFails, Version
    <2>2. check' = NoCheck \/ (check.phase # "reload" /\ check' = check)
      BY <1>9 DEF LoadFails
    <2> QED
      BY <1>n, <1>t, <2>1, <2>2 DEF CheckLeft, LoadLeft
  <1>10. CASE Invalidate
    <2>1. check' = check /\ ~IsFresh' /\ Version' = Version
      BY <1>10 DEF Invalidate, IsFresh, Version
    <2>2. /\ load'.phase = load.phase /\ load'.from = load.from
          /\ load'.photo = load.photo
          /\ load' # NoLoad <=> load # NoLoad
      BY <1>10, <1>f DEF Invalidate, Load, NoLoad
    <2> QED
      BY <1>t, <2>1, <2>2 DEF CheckLeft, LoadLeft
  <1> QED
    BY <1>1, <1>2, <1>3, <1>4, <1>5, <1>6, <1>7, <1>8, <1>9, <1>10
    DEF Next, CheckStep, LoadStep, AskMemo, Commit, Tick, vars

\* Everybody waits for the flight it joined.
LEMMA JoinedKept == CatalogInv /\ [Next]_vars => Joined'
  <1> SUFFICES ASSUME CatalogInv, [Next]_vars, NEW q \in Question
               PROVE  /\ ask'[q].pc = "check" => check' # NoCheck /\ ask'[q].from = check'.from
                      /\ ask'[q].pc = "load" => load' # NoLoad /\ ask'[q].from = load'.from
    BY DEF Joined
  <1>t. TypeOK /\ CheckLeft /\ LoadLeft /\ Joined
    BY DEF CatalogInv
  <1>f. /\ check # NoCheck <=> check \in Check
        /\ load # NoLoad <=> load \in Load
        /\ check = NoCheck <=> check.phase = "none"
        /\ load = NoLoad <=> load.phase = "none"
    BY <1>t, FlightsTyped
  <1>j. /\ ask[q].pc = "check" => check # NoCheck /\ ask[q].from = check.from
        /\ ask[q].pc = "load" => load # NoLoad /\ ask[q].from = load.from
    BY <1>t DEF Joined
  <1> DEFINE CheckStays == check # NoCheck => check' # NoCheck /\ check'.from = check.from
             LoadStays  == load # NoLoad => load' # NoLoad /\ load'.from = load.from
  <1>1. ASSUME ask'[q] = ask[q] \/ ask'[q].pc \notin {"check", "load"}, CheckStays, LoadStays
        PROVE  /\ ask'[q].pc = "check" => check' # NoCheck /\ ask'[q].from = check'.from
               /\ ask'[q].pc = "load" => load' # NoLoad /\ ask'[q].from = load'.from
    BY <1>1, <1>j
  <1>2. ASSUME NEW r \in Question, NEW pc, NEW from, Wait(r, pc, from)
        PROVE  IF q = r THEN ask'[q].pc = pc /\ ask'[q].from = from ELSE ask'[q] = ask[q]
    BY <1>2, <1>t DEF Wait, TypeOK, NotAsked
  <1>3. ASSUME NEW r \in Question, AskMemo(r)
        PROVE  ask'[q] = ask[q] \/ ask'[q].pc \notin {"check", "load"}
    BY <1>3, <1>t DEF AskMemo, TypeOK
  <1>4. ASSUME NEW r \in Question, AskCheck(r)
        PROVE  /\ ask'[q].pc = "check" => check' # NoCheck /\ ask'[q].from = check'.from
               /\ ask'[q].pc = "load" => load' # NoLoad /\ ask'[q].from = load'.from
    <2>1. check' # NoCheck /\ CheckStays /\ LoadStays
      BY <1>4 DEF AskCheck, NoCheck
    <2>2. IF q = r THEN ask'[q].pc = "check" /\ ask'[q].from = check'.from ELSE ask'[q] = ask[q]
      BY <1>2, <1>4 DEF AskCheck
    <2> QED
      BY <1>1, <2>1, <2>2
  <1>5. ASSUME NEW r \in Question, AskLoad(r)
        PROVE  /\ ask'[q].pc = "check" => check' # NoCheck /\ ask'[q].from = check'.from
               /\ ask'[q].pc = "load" => load' # NoLoad /\ ask'[q].from = load'.from
    <2>1. load' # NoLoad /\ CheckStays /\ LoadStays
      BY <1>5 DEF AskLoad, ColdLoad, NoLoad
    <2>2. IF q = r THEN ask'[q].pc = "load" /\ ask'[q].from = load'.from ELSE ask'[q] = ask[q]
      BY <1>2, <1>5 DEF AskLoad
    <2> QED
      BY <1>1, <2>1, <2>2
  <1>6. CASE CheckRead
    <2>1. check' # NoCheck /\ CheckStays /\ LoadStays /\ ask' = ask
      BY <1>6, <1>f DEF CheckRead, NoCheck, Check
    <2> QED
      BY <1>1, <2>1
  <1>7. CASE CheckReloads
    <2>1. CheckStays /\ LoadStays /\ ask' = ask
      BY <1>7, <1>f DEF CheckReloads, NoCheck, Check
    <2> QED
      BY <1>1, <2>1
  <1>8. CASE CheckSuperseded
    <2>1. check \in Check /\ LoadStays
      BY <1>8, <1>f DEF CheckSuperseded, NoCheck
    <2>2. CASE ask' = ask /\ check' # NoCheck
      <3>1. CheckStays
        BY <1>8, <2>1, <2>2 DEF CheckSuperseded, Check, NoCheck
      <3> QED
        BY <1>1, <2>1, <2>2, <3>1
    <2>3. CASE ask' = Answered({"check"}, view, "memo")
      <3>1. ask'[q].pc # "check" /\ (ask'[q] = ask[q] \/ ask'[q].pc = "done")
        BY <1>t, <2>3, AnsweredOne
      <3> QED
        BY <1>j, <2>1, <3>1
    <2>4. check' # NoCheck \/ ask' = Answered({"check"}, view, "memo")
      BY <1>8, <2>1 DEF CheckSuperseded, Check, NoCheck
    <2> QED
      BY <1>8, <2>2, <2>3, <2>4 DEF CheckSuperseded
  <1>9. CASE CheckServes \/ CheckFails
    <2>1. LoadStays
      BY <1>9 DEF CheckServes, CheckFails
    <2>2. ask'[q].pc # "check" /\ (ask'[q] = ask[q] \/ ask'[q].pc \in {"done", "failed"})
      BY <1>9, <1>t, AnsweredOne DEF CheckServes, CheckFails
    <2> QED
      BY <1>j, <2>1, <2>2
  <1>10. CASE LoadVersion \/ LoadPermissions \/ LoadRoles \/ LoadLinks
    <2>1. CheckStays /\ ask' = ask /\ load \in Load
      BY <1>10, <1>f DEF LoadVersion, LoadPermissions, LoadRoles, LoadLinks, Step, NoLoad
    <2>2. load'.from = load.from /\ load'.phase \in {"permissions", "roles", "links", "land"}
      BY <1>10, <2>1 DEF LoadVersion, LoadPermissions, LoadRoles, LoadLinks, Step, Load
    <2> QED
      BY <1>1, <2>1, <2>2 DEF NoLoad
  <1>11. CASE LoadLands \/ LoadFails
    <2>1. \/ ask' = Answered(OnLoad, load.photo, "load")
          \/ ask' = Refused(OnLoad)
      BY <1>11 DEF LoadLands, LoadFails
    <2>2. ask'[q].pc # "load" /\ (ask'[q] = ask[q] \/ ask'[q].pc \in {"done", "failed"})
      BY <1>t, <2>1, AnsweredOne DEF OnLoad
    <2>3. CASE check.phase = "reload"
      <3>1. ask'[q].pc # "check"
        BY <1>t, <2>1, <2>3, AnsweredOne DEF OnLoad
      <3> QED
        BY <2>2, <3>1
    <2>4. CASE check.phase # "reload"
      <3>1. CheckStays
        BY <1>11, <1>f, <2>4 DEF LoadLands, LoadFails, CheckAfterLoad, Check, NoCheck
      <3> QED
        BY <1>j, <2>2, <3>1
    <2> QED
      BY <2>3, <2>4
  <1>12. CASE Invalidate
    <2>1. CheckStays /\ LoadStays /\ ask' = ask
      BY <1>12, <1>f DEF Invalidate, Load, NoLoad
    <2> QED
      BY <1>1, <2>1
  <1>13. ASSUME UNCHANGED <<check, load>>,
                ask'[q] = ask[q] \/ ask'[q].pc \notin {"check", "load"}
         PROVE  /\ ask'[q].pc = "check" => check' # NoCheck /\ ask'[q].from = check'.from
                /\ ask'[q].pc = "load" => load' # NoLoad /\ ask'[q].from = load'.from
    BY <1>1, <1>13
  <1> QED
    BY <1>3, <1>4, <1>5, <1>6, <1>7, <1>8, <1>9, <1>10, <1>11, <1>12, <1>13
    DEF Next, CheckStep, LoadStep, AskMemo, Commit, Tick, vars

\* An invalidation is never forgotten by the load it overtakes.
LEMMA FloorKept == CatalogInv /\ [Next]_vars => FloorHolds'
  <1> SUFFICES ASSUME CatalogInv, [Next]_vars PROVE FloorHolds'
    OBVIOUS
  <1>t. TypeOK /\ FloorHolds
    BY DEF CatalogInv
  <1>v. Version \in Nat /\ Version' \in Nat /\ Version <= Version' /\ floor \in Nat
    BY <1>t, VersionGrows DEF TypeOK
  <1>f. load # NoLoad <=> load \in Load
    BY <1>t, FlightsTyped
  <1>1. ASSUME UNCHANGED <<view, fresh, floor>>,
               \/ load' = load
               \/ load'.phase \notin {"roles", "links", "land"}
        PROVE  FloorHolds'
    BY <1>1, <1>t, <1>v DEF FloorHolds
  <1>2. ASSUME NEW q \in Question, AskLoad(q) PROVE FloorHolds'
    BY <1>1, <1>2 DEF AskLoad, ColdLoad
  <1>3. CASE CheckReloads \/ CheckSuperseded
    BY <1>1, <1>3 DEF CheckReloads, CheckSuperseded, ColdLoad
  <1>4. CASE LoadVersion
    <2>1. load \in Load
      BY <1>4, <1>f DEF LoadVersion, Step, NoLoad
    <2> QED
      BY <1>1, <1>4, <2>1 DEF LoadVersion, Step, Load
  <1>5. CASE LoadPermissions
    <2>1. load \in Load
      BY <1>5, <1>f DEF LoadPermissions, Step, NoLoad
    <2>2. load'.photo.perms = Version /\ Version' = Version
      BY <1>5, <2>1 DEF LoadPermissions, Step, Load, Photo, Version
    <2> QED
      BY <1>5, <1>t, <2>2 DEF LoadPermissions, Step, FloorHolds
  <1>6. CASE LoadRoles \/ LoadLinks
    <2>1. load \in Load
      BY <1>6, <1>f DEF LoadRoles, LoadLinks, Step, NoLoad
    <2>2. load'.photo.perms = load.photo.perms /\ load'.fresh = load.fresh /\ Version' = Version
      <3>1. PICK table \in {"roles", "links"} : load'.photo = [load.photo EXCEPT ![table] = Version]
        BY <1>6, <2>1 DEF LoadRoles, LoadLinks, Step, Load
      <3> QED
        BY <1>6, <2>1, <3>1 DEF LoadRoles, LoadLinks, Step, Load, Photo, Version
    <2> QED
      BY <1>6, <1>t, <2>2 DEF LoadRoles, LoadLinks, Step, FloorHolds
  <1>7. CASE LoadLands
    <2>1. load'.phase = "none"
      BY <1>7 DEF LoadLands, NoLoad
    <2> QED
      BY <1>7, <1>t, <2>1 DEF LoadLands, FloorHolds, Version
  <1>8. CASE LoadFails
    BY <1>1, <1>8 DEF LoadFails, NoLoad
  <1>9. CASE Invalidate
    <2>1. load' = NoLoad \/ load'.fresh = FALSE
      BY <1>9, <1>f DEF Invalidate, Load
    <2> QED
      BY <1>9, <1>v, <2>1 DEF Invalidate, FloorHolds, NoLoad, Version
  <1> QED
    BY <1>1, <1>2, <1>3, <1>4, <1>5, <1>6, <1>7, <1>8, <1>9
    DEF Next, CheckStep, LoadStep, AskMemo, AskCheck, CheckRead, CheckServes, CheckFails,
        Commit, Tick, vars

\* The only answers a step gives: from memory a fresh photo, from a flight a
\* photo read after that flight left.
LEMMA AnswersKept == CatalogInv /\ [Next]_vars => FlightSees' /\ InvalidationHolds'
  <1> SUFFICES ASSUME CatalogInv, [Next]_vars, NEW q \in Question, ask'[q].pc = "done"
               PROVE  /\ ask'[q].via # "memo" => ask'[q].photo.label >= ask'[q].from
                      /\ ask'[q].via = "memo" => ask'[q].photo.perms >= ask'[q].floor
    BY DEF FlightSees, InvalidationHolds
  <1>t. TypeOK /\ CheckLeft /\ LoadLeft /\ Joined /\ FloorHolds /\ FlightSees /\ InvalidationHolds
    BY DEF CatalogInv
  <1>f. /\ check # NoCheck <=> check \in Check
        /\ load # NoLoad <=> load \in Load
        /\ check = NoCheck <=> check.phase = "none"
        /\ load = NoLoad <=> load.phase = "none"
    BY <1>t, FlightsTyped
  <1>j. /\ ask[q].pc = "check" => check # NoCheck /\ ask[q].from = check.from
        /\ ask[q].pc = "load" => load # NoLoad /\ ask[q].from = load.from
    BY <1>t DEF Joined
  <1>n. floor \in Nat /\ (view # NoPhoto => view \in Photo)
    BY <1>t DEF TypeOK
  <1>a. ASSUME NEW on, NEW photo, NEW via, ask' = Answered(on, photo, via)
        PROVE  ask'[q] = ask[q] \/ /\ ask[q].pc \in on
                                   /\ ask'[q].via = via
                                   /\ ask'[q].photo = photo
                                   /\ ask'[q].from = ask[q].from
                                   /\ ask'[q].floor = floor
    <2>1. CASE ask[q].pc \in on
      BY <1>a, <1>t, <2>1, AnsweredOne
    <2>2. CASE ask[q].pc \notin on
      BY <1>a, <1>t, <2>2, AnsweredOne
    <2> QED
      BY <2>1, <2>2
  <1>0. CASE ask'[q] = ask[q]
    BY <1>0, <1>t DEF FlightSees, InvalidationHolds
  <1>1. ASSUME NEW r \in Question, AskMemo(r)
        PROVE  /\ ask'[q].via # "memo" => ask'[q].photo.label >= ask'[q].from
               /\ ask'[q].via = "memo" => ask'[q].photo.perms >= ask'[q].floor
    <2>1. CASE r # q
      BY <1>0, <1>1, <1>t, <2>1 DEF AskMemo, TypeOK
    <2>2. CASE r = q
      <3>1. ask'[q].via = "memo" /\ ask'[q].photo = view /\ ask'[q].floor = floor
        BY <1>1, <1>t, <2>2 DEF AskMemo, TypeOK
      <3>2. floor <= view.perms /\ view.perms \in Nat
        BY <1>1, <1>n, <1>t DEF AskMemo, IsFresh, FloorHolds, Photo
      <3> QED
        BY <1>n, <3>1, <3>2
    <2> QED
      BY <2>1, <2>2
  <1>2. ASSUME NEW r \in Question, AskCheck(r) \/ AskLoad(r)
        PROVE  ask'[q] = ask[q]
    BY <1>2, <1>t DEF AskCheck, AskLoad, Wait, TypeOK, NotAsked
  <1>3. CASE CheckServes
    <2>1. ask'[q] = ask[q] \/ /\ ask[q].pc \in {"check"}
                              /\ ask'[q].via = "check"
                              /\ ask'[q].photo = view
                              /\ ask'[q].from = ask[q].from
      BY <1>3, <1>a DEF CheckServes
    <2>2. check \in Check
      BY <1>3, <1>f DEF CheckServes
    <2>3. check.from <= view.label /\ view.label \in Nat /\ check.from \in Nat
      BY <1>3, <1>t, <2>2 DEF CheckServes, CheckLeft, Check
    <2> QED
      BY <1>0, <1>j, <2>1, <2>3
  <1>4. CASE CheckSuperseded
    <2>1. CASE ask' = ask
      BY <1>0, <2>1
    <2>2. CASE ask' = Answered({"check"}, view, "memo") /\ IsFresh
      <3>1. ask'[q] = ask[q] \/ /\ ask'[q].via = "memo"
                                /\ ask'[q].photo = view
                                /\ ask'[q].floor = floor
        BY <2>2, <1>a
      <3>2. floor <= view.perms /\ view.perms \in Nat
        BY <1>n, <1>t, <2>2 DEF IsFresh, FloorHolds, Photo
      <3> QED
        BY <1>0, <1>n, <3>1, <3>2
    <2> QED
      BY <1>4, <2>1, <2>2 DEF CheckSuperseded
  <1>5. CASE LoadLands
    <2>1. ask'[q] = ask[q] \/ /\ ask[q].pc \in OnLoad
                              /\ ask'[q].via = "load"
                              /\ ask'[q].photo = load.photo
                              /\ ask'[q].from = ask[q].from
      BY <1>5, <1>a DEF LoadLands
    <2>2. load \in Load /\ load # NoLoad
      BY <1>5, <1>f DEF LoadLands
    <2>3. load.from <= load.photo.label /\ load.photo.label \in Nat /\ load.from \in Nat
      BY <1>5, <1>t, <2>2 DEF LoadLands, LoadLeft, Load, Photo
    <2>4. check # NoCheck => check.from <= load.from /\ check.from \in Nat
      BY <1>f, <1>t, <2>2 DEF LoadLeft, Check
    <2>5. ask[q].pc \in OnLoad => ask[q].pc \in {"check", "load"}
      BY DEF OnLoad
    <2> QED
      BY <1>0, <1>j, <2>1, <2>3, <2>4, <2>5
  <1>6. CASE CheckFails \/ LoadFails
    <2>1. PICK on : ask' = Refused(on)
      BY <1>6 DEF CheckFails, LoadFails
    <2>2. ask[q].pc \notin on
      BY <1>t, <2>1, AnsweredOne
    <2>3. ask'[q] = ask[q]
      BY <1>t, <2>1, <2>2, AnsweredOne
    <2> QED
      BY <1>0, <2>3
  <1>7. CASE ask' = ask
    BY <1>0, <1>7
  <1> QED
    BY <1>0, <1>1, <1>2, <1>3, <1>4, <1>5, <1>6, <1>7
    DEF Next, CheckStep, LoadStep, CheckRead, CheckReloads, LoadVersion, LoadPermissions,
        LoadRoles, LoadLinks, Step, Commit, Invalidate, Tick, vars

\* The invariant is one.
LEMMA CatalogInvariant == Spec => []CatalogInv
  <1>1. CatalogInv /\ [Next]_vars => CatalogInv'
    BY StepKeepsType, OrderKept, FlightsKept, JoinedKept, FloorKept, AnswersKept DEF CatalogInv
  <1> QED
    BY InitCatalogInv, <1>1, PTL DEF Spec

\* A photo whose label is the version of the database is the catalog of that
\* version: no comparison certifies a torn one.
THEOREM LabelNeverClaimsMore == Spec => []CurrentMeansWhole
  <1>1. CatalogInv => CurrentMeansWhole
    BY DEF CatalogInv, ReadsInOrder, Ordered, CurrentMeansWhole, TypeOK, Photo, Versions
  <1> QED
    BY <1>1, CatalogInvariant, PTL

\* Whatever a photo read in the middle of a sync grants, the last catalog it
\* touched grants too.
THEOREM MixedPhotoRestricts == Spec => []MixedIsRestrictive
  <1>1. ASSUME CatalogInv, NEW q \in Question, ask[q].pc = "done"
        PROVE  LET p == ask[q].photo
                   touched == {p.perms, p.roles, p.links}
                   last == CHOOSE v \in touched : \A u \in touched : u <= v
               IN  Grants(p) \subseteq Rows(last).links
    <2> DEFINE p == ask[q].photo
               touched == {p.perms, p.roles, p.links}
               last == CHOOSE v \in touched : \A u \in touched : u <= v
    <2>1. p \in Photo /\ p.perms <= p.roles /\ p.roles <= p.links
      BY <1>1 DEF CatalogInv, TypeOK, Ask, ReadsInOrder, Ordered
    <2>2. p.perms \in Nat /\ p.roles \in Nat /\ p.links \in Nat
      BY <2>1 DEF Photo
    <2>3. p.links \in touched /\ \A u \in touched : u <= p.links
      BY <2>1, <2>2
    <2>4. last \in touched /\ \A u \in touched : u <= last
      BY <2>3
    <2>5. last = p.links
      BY <2>2, <2>3, <2>4
    <2>6. Grants(p) \subseteq Rows(p.links).links
      BY DEF Grants, Rows
    <2> QED
      BY <2>5, <2>6
  <1>2. CatalogInv => MixedIsRestrictive
    BY <1>1 DEF MixedIsRestrictive
  <1> QED
    BY <1>2, CatalogInvariant, PTL

\* An answer is never older than the moment the flight it came from left.
THEOREM FlightCostsAFlight == Spec => []FlightSees
  <1>1. CatalogInv => FlightSees
    BY DEF CatalogInv
  <1> QED
    BY <1>1, CatalogInvariant, PTL

\* No invalidation of this process is lost, not even in the middle of a load.
THEOREM NoInvalidationIsLost == Spec => []InvalidationHolds
  <1>1. CatalogInv => InvalidationHolds
    BY DEF CatalogInv
  <1> QED
    BY <1>1, CatalogInvariant, PTL

-----------------------------------------------------------------------------
(* The window.  Time stands still while a flight is out, so what lands     *)
(* after its version was read lands at the instant it settles or later.    *)

\* What was committed after version v landed at instant t or later.
Since(h, v, t) == \A u \in (v + 1)..(Len(h) - 1) : h[u + 1].at >= t

ClockHolds ==
    /\ checkedAt <= clock
    /\ \A u \in 0..Version : history[u + 1].at <= clock

SinceChecked ==
    /\ view # NoPhoto => Since(history, view.label, checkedAt)
    /\ load.phase \in {"permissions", "roles", "links", "land"} => Since(history, load.photo.label, clock)
    /\ check.phase = "resume" => Since(history, check.read, clock)

AnswerSince ==
    \A q \in Question : ask[q].pc = "done" /\ ask[q].via = "memo" =>
        /\ ask[q].at <= clock
        /\ \A u \in (ask[q].photo.label + 1)..Version : ask[q].at - history[u + 1].at < Window
        /\ Window > 0

WindowInv == ClockHolds /\ SinceChecked /\ AnswerSince

LEMMA InitWindowInv == Init => WindowInv
  <1> SUFFICES ASSUME Init PROVE WindowInv
    OBVIOUS
  <1>1. PICK rows \in First : history = <<[rows |-> rows, at |-> 0]>>
    BY DEF Init
  <1>2. Version = 0 /\ history[1].at = 0
    BY <1>1 DEF Version
  <1>3. ClockHolds
    BY <1>2 DEF Init, ClockHolds
  <1>4. SinceChecked
    BY DEF Init, SinceChecked, NoLoad, NoCheck
  <1>5. AnswerSince
    BY DEF Init, AnswerSince, NotAsked
  <1> QED
    BY <1>3, <1>4, <1>5 DEF WindowInv

\* The instants of the history.
LEMMA InstantsTyped ==
  ASSUME TypeOK
  PROVE  /\ Version \in Nat /\ clock \in Nat /\ checkedAt \in Nat
         /\ \A u \in 0..Version : history[u + 1].at \in Nat
  <1>1. Version \in Nat /\ history \in Seq([rows : Catalog, at : Nat])
    BY DEF TypeOK, Versions
  <1>2. ASSUME NEW u \in 0..Version PROVE history[u + 1].at \in Nat
    <2>1. u + 1 \in 1..Len(history)
      BY <1>1, <1>2 DEF Version
    <2> DEFINE Entry == [rows : Catalog, at : Nat]
    <2>2. \A e \in Entry : e.at \in Nat
      OBVIOUS
    <2>3. history \in Seq(Entry)
      BY <1>1
    <2> HIDE DEF Entry
    <2>4. history[u + 1] \in Entry
      BY <2>1, <2>3
    <2> QED
      BY <2>2, <2>4
  <1> QED
    BY <1>1, <1>2 DEF TypeOK

\* A step keeps the instants of the versions there were, and a new one is of now.
LEMMA HistoryKept ==
  ASSUME TypeOK, [Next]_vars
  PROVE  /\ \A u \in 0..Version : history'[u + 1] = history[u + 1]
         /\ \A u \in (Version + 1)..Version' : history'[u + 1].at = clock
  <1>t. Version \in Nat /\ history \in Seq([rows : Catalog, at : Nat])
    BY DEF TypeOK, Versions
  <1>1. CASE \E rows \in Catalog : Commit(rows)
    <2>1. PICK rows \in Catalog : history' = Append(history, [rows |-> rows, at |-> clock])
      BY <1>1 DEF Commit
    <2>2. clock \in Nat /\ [rows |-> rows, at |-> clock] \in [rows : Catalog, at : Nat]
      BY DEF TypeOK
    <2> DEFINE row == [rows |-> rows, at |-> clock]
    <2>3. /\ Len(Append(history, row)) = Len(history) + 1
          /\ \A i \in 1..Len(history) : Append(history, row)[i] = history[i]
          /\ Append(history, row)[Len(history) + 1] = row
      BY <1>t, <2>2
    <2>4. Version' = Version + 1 /\ Len(history) = Version + 1
      BY <1>t, <2>1, <2>3 DEF Version
    <2>5. \A u \in 0..Version : history'[u + 1] = history[u + 1]
      BY <1>t, <2>1, <2>3, <2>4
    <2>6. \A u \in (Version + 1)..Version' : u = Version + 1
      BY <1>t, <2>4
    <2>7. history'[Version + 1 + 1] = row
      BY <1>t, <2>1, <2>3, <2>4
    <2>8. row.at = clock
      OBVIOUS
    <2> HIDE DEF row
    <2>9. \A u \in (Version + 1)..Version' : history'[u + 1].at = clock
      BY <2>6, <2>7, <2>8
    <2> QED
      BY <2>5, <2>9
  <1>2. CASE ~ \E rows \in Catalog : Commit(rows)
    <2>1. history' = history
      BY <1>2 DEF Next, CheckStep, LoadStep, AskMemo, AskCheck, AskLoad, CheckRead, CheckServes,
         CheckReloads, CheckSuperseded, CheckFails, LoadVersion, LoadPermissions, LoadRoles,
         LoadLinks, Step, LoadLands, LoadFails, Invalidate, Tick, vars
    <2> QED
      BY <1>t, <2>1 DEF Version
  <1> QED
    BY <1>1, <1>2

\* Time never goes back.
LEMMA ClockKept ==
  ASSUME CatalogInv, WindowInv, [Next]_vars
  PROVE  ClockHolds' /\ clock <= clock'
  <1>t. TypeOK /\ TypeOK' /\ ClockHolds
    BY StepKeepsType DEF CatalogInv, WindowInv
  <1>n. /\ Version \in Nat /\ clock \in Nat /\ checkedAt \in Nat
        /\ Version' \in Nat /\ clock' \in Nat /\ checkedAt' \in Nat
    BY <1>t DEF TypeOK, Versions
  <1>h. checkedAt <= clock
    BY <1>t DEF ClockHolds
  <1>1. clock <= clock' /\ checkedAt' <= clock'
    <2>1. CASE Tick
      BY <1>h, <1>n, <2>1 DEF Tick
    <2>2. CASE CheckServes \/ LoadLands
      BY <1>h, <1>n, <2>2 DEF CheckServes, LoadLands
    <2>3. CASE UNCHANGED <<clock, checkedAt>>
      BY <1>h, <1>n, <2>3
    <2> QED
      BY <2>1, <2>2, <2>3, Zenon
      DEF Next, CheckStep, LoadStep, AskMemo, AskCheck, AskLoad, CheckRead, CheckReloads,
          CheckSuperseded, CheckFails, LoadVersion, LoadPermissions, LoadRoles, LoadLinks, Step,
          LoadFails, Commit, Invalidate, vars
  <1>2. ASSUME NEW u \in 0..Version' PROVE history'[u + 1].at <= clock'
    <2>1. CASE u \in 0..Version
      <3>1. history'[u + 1].at = history[u + 1].at /\ history[u + 1].at \in Nat
        BY <1>t, <2>1, HistoryKept, InstantsTyped
      <3> QED
        BY <1>1, <1>n, <1>t, <2>1, <3>1 DEF ClockHolds
    <2>2. CASE u \in (Version + 1)..Version'
      BY <1>1, <1>n, <1>t, <2>2, HistoryKept
    <2> QED
      BY <1>2, <1>n, <2>1, <2>2
  <1> QED
    BY <1>1, <1>2 DEF ClockHolds

\* What was since an instant stays so: whatever is committed now is of now.
LEMMA SinceKept ==
  ASSUME TypeOK, [Next]_vars, NEW v \in Nat, NEW t \in Nat, t <= clock, Since(history, v, t)
  PROVE  Since(history', v, t)
  <1>n. Version \in Nat /\ Version' \in Nat /\ clock \in Nat
    BY VersionGrows DEF TypeOK
  <1> SUFFICES ASSUME NEW u \in (v + 1)..Version' PROVE history'[u + 1].at >= t
    BY DEF Since, Version
  <1>1. CASE u \in (v + 1)..Version
    BY <1>1, <1>n, HistoryKept DEF Since, Version
  <1>2. CASE u \in (Version + 1)..Version'
    BY <1>2, <1>n, HistoryKept
  <1> QED
    BY <1>1, <1>2, <1>n

\* Nothing was committed after the version of now.
LEMMA SinceNow ==
  ASSUME TypeOK, NEW t PROVE Since(history, Version, t)
  BY DEF Since, TypeOK, Versions, Version

LEMMA SinceCheckedKept == CatalogInv /\ WindowInv /\ [Next]_vars => SinceChecked'
  <1> SUFFICES ASSUME CatalogInv, WindowInv, [Next]_vars PROVE SinceChecked'
    OBVIOUS
  <1>t. TypeOK /\ TypeOK' /\ ClockHolds /\ SinceChecked
    BY StepKeepsType DEF CatalogInv, WindowInv
  <1>n. /\ Version \in Nat /\ clock \in Nat /\ checkedAt \in Nat /\ checkedAt <= clock
        /\ clock' \in Nat
    BY <1>t DEF TypeOK, Versions, ClockHolds
  <1>f. /\ check # NoCheck <=> check \in Check
        /\ load # NoLoad <=> load \in Load
        /\ check = NoCheck <=> check.phase = "none"
        /\ load = NoLoad <=> load.phase = "none"
    BY <1>t, FlightsTyped
  <1>p. /\ view # NoPhoto => view.label \in Nat
        /\ load # NoLoad => load.photo.label \in Nat
        /\ check # NoCheck => check.read \in Nat
    BY <1>f, <1>t DEF TypeOK, Load, Photo, Check
  <1>s. ASSUME NEW v \in Nat, Since(history, v, clock), clock' = clock PROVE Since(history', v, clock')
    BY <1>n, <1>s, <1>t, SinceKept
  <1>v. ASSUME UNCHANGED <<view, checkedAt>>, view' # NoPhoto PROVE Since(history', view'.label, checkedAt')
    <2>1. Since(history, view.label, checkedAt) /\ view.label \in Nat
      BY <1>p, <1>t, <1>v DEF SinceChecked
    <2>2. Since(history', view.label, checkedAt)
      BY <1>n, <1>t, <2>1, SinceKept
    <2> QED
      BY <1>v, <2>2
  <1>l. ASSUME load'.phase \in {"permissions", "roles", "links", "land"}, load.phase \in {"permissions", "roles", "links", "land"},
               load'.photo.label = load.photo.label, clock' = clock
        PROVE  Since(history', load'.photo.label, clock')
    <2>1. Since(history, load.photo.label, clock) /\ load.photo.label \in Nat
      BY <1>f, <1>l, <1>p, <1>t DEF SinceChecked
    <2>2. Since(history', load.photo.label, clock')
      BY <1>l, <1>s, <2>1
    <2> QED
      BY <1>l, <2>2
  <1>c. ASSUME check' = check \/ check'.phase # "resume", check'.phase = "resume", clock' = clock
        PROVE  Since(history', check'.read, clock')
    <2>1. check' = check /\ check.phase = "resume"
      BY <1>c
    <2>2. Since(history, check.read, clock) /\ check.read \in Nat
      BY <1>f, <1>p, <1>t, <2>1 DEF SinceChecked
    <2>3. Since(history', check.read, clock')
      BY <1>c, <1>s, <2>2
    <2> QED
      BY <2>1, <2>3
  <1>1. ASSUME UNCHANGED <<view, checkedAt, clock>>,
               load' = load \/ load'.phase \in {"none", "version"},
               check' = check \/ check'.phase # "resume"
        PROVE  SinceChecked'
    BY <1>1, <1>c, <1>l, <1>v DEF SinceChecked
  <1>2. ASSUME NEW q \in Question, AskMemo(q) \/ AskCheck(q) \/ AskLoad(q) PROVE SinceChecked'
    BY <1>1, <1>2 DEF AskMemo, AskCheck, AskLoad, ColdLoad, NoLoad, NoCheck
  <1>3. CASE CheckRead
    <2>1. check \in Check
      BY <1>3, <1>f DEF CheckRead, NoCheck
    <2>2. check'.phase = "resume" /\ check'.read = Version
      BY <1>3, <2>1 DEF CheckRead, Check
    <2>3. Since(history, Version, clock)
      BY <1>t, SinceNow
    <2>4. Since(history', check'.read, clock')
      BY <1>3, <1>n, <1>s, <2>2, <2>3 DEF CheckRead
    <2> QED
      BY <1>3, <1>l, <1>v, <2>4 DEF CheckRead, SinceChecked
  <1>4. CASE CheckServes
    <2>1. check # NoCheck /\ Since(history, view.label, clock) /\ view.label \in Nat
      BY <1>4, <1>f, <1>p, <1>t DEF CheckServes, SinceChecked
    <2>2. Since(history', view.label, clock)
      BY <1>4, <1>n, <1>s, <2>1 DEF CheckServes
    <2>3. check'.phase # "resume"
      BY <1>4 DEF CheckServes, NoCheck
    <2>4. Since(history', view'.label, checkedAt')
      BY <1>4, <2>2 DEF CheckServes
    <2> QED
      BY <1>4, <1>l, <2>3, <2>4 DEF CheckServes, SinceChecked
  <1>5. CASE CheckReloads
    <2>1. check \in Check /\ check.phase = "resume" /\ check.read \in Nat
      BY <1>5, <1>f, <1>p DEF CheckReloads
    <2>2. Since(history, check.read, clock)
      BY <1>t, <2>1 DEF SinceChecked
    <2>3. check'.phase # "resume"
      BY <1>5, <2>1 DEF CheckReloads, Check
    <2>4. CASE load = NoLoad
      <3>1. load'.photo.label = check.read
        BY <1>5, <2>4 DEF CheckReloads, Blank
      <3>2. Since(history', load'.photo.label, clock')
        BY <1>5, <1>s, <2>1, <2>2, <3>1 DEF CheckReloads
      <3> QED
        BY <1>5, <1>v, <2>3, <3>2 DEF CheckReloads, SinceChecked
    <2>5. CASE load # NoLoad
      BY <1>1, <1>5, <2>3, <2>5 DEF CheckReloads
    <2> QED
      BY <2>4, <2>5
  <1>6. CASE CheckSuperseded
    <2>1. check \in Check
      BY <1>6, <1>f DEF CheckSuperseded
    <2>2. check'.phase # "resume"
      BY <1>6, <2>1 DEF CheckSuperseded, Check, NoCheck
    <2>3. load' = load \/ load'.phase \in {"none", "version"}
      BY <1>6 DEF CheckSuperseded, ColdLoad
    <2> QED
      BY <1>1, <1>6, <2>2, <2>3 DEF CheckSuperseded
  <1>7. CASE CheckFails
    BY <1>1, <1>7 DEF CheckFails, NoCheck
  <1>8. CASE LoadVersion
    <2>1. load \in Load /\ load.photo \in Photo
      BY <1>8, <1>f DEF LoadVersion, Step, NoLoad, Load
    <2>2. load'.photo.label = Version
      BY <1>8, <2>1 DEF LoadVersion, Step, Load, Photo
    <2>3. Since(history, Version, clock)
      BY <1>t, SinceNow
    <2>4. Since(history', load'.photo.label, clock')
      BY <1>8, <1>n, <1>s, <2>2, <2>3 DEF LoadVersion, Step
    <2> QED
      BY <1>8, <1>c, <1>v, <2>4 DEF LoadVersion, Step, SinceChecked
  <1>9. CASE LoadPermissions \/ LoadRoles \/ LoadLinks
    <2>1. load \in Load /\ load.photo \in Photo
      BY <1>9, <1>f DEF LoadPermissions, LoadRoles, LoadLinks, Step, NoLoad, Load
    <2>2. /\ load'.photo.label = load.photo.label
          /\ load'.phase \in {"permissions", "roles", "links", "land"}
          /\ load.phase \in {"permissions", "roles", "links", "land"}
      <3>1. PICK table \in {"perms", "roles", "links"} : load'.photo = [load.photo EXCEPT ![table] = Version]
        BY <1>9, <2>1 DEF LoadPermissions, LoadRoles, LoadLinks, Step, Load
      <3>2. load'.photo.label = load.photo.label
        BY <2>1, <3>1 DEF Photo
      <3> QED
        BY <1>9, <2>1, <3>2 DEF LoadPermissions, LoadRoles, LoadLinks, Step, Load
    <2>3. UNCHANGED <<view, checkedAt, clock, check>>
      BY <1>9 DEF LoadPermissions, LoadRoles, LoadLinks, Step
    <2> QED
      BY <1>c, <1>l, <1>v, <2>2, <2>3 DEF SinceChecked
  <1>10. CASE LoadLands
    <2>1. Since(history, load.photo.label, clock) /\ load # NoLoad
      BY <1>10, <1>f, <1>t DEF LoadLands, SinceChecked
    <2>2. Since(history', load.photo.label, clock')
      BY <1>10, <1>p, <1>s, <2>1 DEF LoadLands
    <2>3. Since(history', view'.label, checkedAt')
      BY <1>10, <2>2 DEF LoadLands
    <2>4. check'.phase = "resume" => check \in Check /\ check.phase = "resume" /\ check'.read = check.read
      BY <1>10, <1>f DEF LoadLands, CheckAfterLoad, Check, NoCheck
    <2>5. ASSUME check'.phase = "resume" PROVE Since(history', check'.read, clock')
      <3>1. Since(history, check.read, clock) /\ check.read \in Nat
        BY <1>f, <1>p, <1>t, <2>4, <2>5 DEF SinceChecked
      <3>2. Since(history', check.read, clock')
        BY <1>10, <1>s, <3>1 DEF LoadLands
      <3> QED
        BY <2>4, <2>5, <3>2
    <2>6. load'.phase = "none"
      BY <1>10 DEF LoadLands, NoLoad
    <2> QED
      BY <2>3, <2>5, <2>6 DEF SinceChecked
  <1>11. CASE LoadFails
    BY <1>1, <1>11 DEF LoadFails, NoLoad, NoCheck
  <1>12. ASSUME NEW rows \in Catalog, Commit(rows) PROVE SinceChecked'
    BY <1>1, <1>12 DEF Commit
  <1>13. CASE Invalidate
    <2>1. load' = NoLoad \/ (load' # NoLoad /\ load'.phase = load.phase /\ load'.photo = load.photo)
      BY <1>13, <1>f DEF Invalidate, Load, NoLoad
    <2>2. load'.phase \in {"permissions", "roles", "links", "land"} =>
             load.phase \in {"permissions", "roles", "links", "land"} /\ load'.photo.label = load.photo.label
      BY <2>1 DEF NoLoad
    <2> QED
      BY <1>13, <1>c, <1>l, <1>v, <2>2 DEF Invalidate, SinceChecked
  <1>14. CASE Tick
    <2>1. load'.phase = "none" /\ check'.phase = "none"
      BY <1>14 DEF Tick, NoLoad, NoCheck
    <2> QED
      BY <1>14, <1>v, <2>1 DEF Tick, SinceChecked
  <1>15. CASE UNCHANGED vars
    BY <1>1, <1>15 DEF vars
  <1> QED
    BY <1>2, <1>3, <1>4, <1>5, <1>6, <1>7, <1>8, <1>9, <1>10, <1>11, <1>12, <1>13, <1>14, <1>15
    DEF Next, CheckStep, LoadStep

\* A photo served now lacks only what landed less than a window ago.
LEMMA MemoAnswers ==
  ASSUME TypeOK, WindowInv, IsFresh, ~NeedsCheck
  PROVE  /\ Window > 0
         /\ \A u \in (view.label + 1)..Version : clock - history[u + 1].at < Window
  <1>n. Version \in Nat /\ clock \in Nat /\ checkedAt \in Nat /\ Window \in Nat
        /\ \A u \in 0..Version : history[u + 1].at \in Nat
    BY InstantsTyped
  <1>1. clock - checkedAt < Window /\ checkedAt <= clock /\ Since(history, view.label, checkedAt)
        /\ view.label \in Nat
    BY <1>n DEF NeedsCheck, IsFresh, WindowInv, ClockHolds, SinceChecked, TypeOK, Photo
  <1>2. ASSUME NEW u \in (view.label + 1)..Version PROVE clock - history[u + 1].at < Window
    BY <1>1, <1>2, <1>n DEF Since, Version
  <1> QED
    BY <1>1, <1>2, <1>n

\* An answer from memory stays within its window: what lands later is younger than it.
LEMMA AnswerSinceKept == CatalogInv /\ WindowInv /\ [Next]_vars => AnswerSince'
  <1> SUFFICES ASSUME CatalogInv, WindowInv, [Next]_vars,
                      NEW q \in Question, ask'[q].pc = "done", ask'[q].via = "memo"
               PROVE  /\ ask'[q].at <= clock'
                      /\ \A u \in (ask'[q].photo.label + 1)..Version' :
                            ask'[q].at - history'[u + 1].at < Window
                      /\ Window > 0
    BY DEF AnswerSince
  <1>t. TypeOK /\ TypeOK' /\ AnswerSince
    BY StepKeepsType DEF CatalogInv, WindowInv
  <1>n. /\ Version \in Nat /\ clock \in Nat /\ checkedAt \in Nat /\ Window \in Nat
        /\ Version' \in Nat /\ clock' \in Nat /\ clock <= clock'
        /\ ask[q].at \in Nat /\ ask'[q].at \in Nat
        /\ \A u \in 0..Version : history[u + 1].at \in Nat
    <2>1. Version \in Nat /\ clock \in Nat /\ checkedAt \in Nat /\ Version' \in Nat /\ clock' \in Nat
      BY <1>t DEF TypeOK, Versions
    <2>2. ask[q].at \in Nat /\ ask'[q].at \in Nat
      BY <1>t DEF TypeOK, Ask
    <2>3. clock <= clock'
      BY ClockKept
    <2>4. \A u \in 0..Version : history[u + 1].at \in Nat
      BY <1>t, InstantsTyped
    <2> QED
      BY <2>1, <2>2, <2>3, <2>4
  <1>h. /\ \A u \in 0..Version : history'[u + 1] = history[u + 1]
        /\ \A u \in (Version + 1)..Version' : history'[u + 1].at = clock
    BY <1>t, HistoryKept
  <1>l. ask'[q].photo.label >= 0 /\ ask'[q].photo.label \in Nat
    <2>1. ask'[q].photo # NoPhoto
      BY OrderKept DEF ReadsInOrder
    <2>2. ask'[q].photo \in Photo
      BY <1>t, <2>1 DEF TypeOK, Ask
    <2> QED
      BY <2>2 DEF Photo
  <1>1. ASSUME ask'[q].at <= clock, Window > 0,
               \A u \in (ask'[q].photo.label + 1)..Version : ask'[q].at - history[u + 1].at < Window
        PROVE  /\ ask'[q].at <= clock'
               /\ \A u \in (ask'[q].photo.label + 1)..Version' :
                     ask'[q].at - history'[u + 1].at < Window
               /\ Window > 0
    <2>1. ask'[q].at <= clock'
      BY <1>1, <1>n
    <2>2. ASSUME NEW u \in (ask'[q].photo.label + 1)..Version' PROVE ask'[q].at - history'[u + 1].at < Window
      <3>1. CASE u <= Version
        BY <1>1, <1>h, <1>l, <1>n, <2>2, <3>1
      <3>2. CASE u > Version
        <4>1. history'[u + 1].at = clock
          BY <1>h, <1>l, <1>n, <2>2, <3>2
        <4> QED
          BY <1>1, <1>n, <4>1
      <3> QED
        BY <1>l, <1>n, <2>2, <3>1, <3>2
    <2> QED
      BY <1>1, <2>1, <2>2
  <1>2. ASSUME ask'[q].photo = view, ask'[q].at = clock, IsFresh, ~NeedsCheck
        PROVE  /\ ask'[q].at <= clock'
               /\ \A u \in (ask'[q].photo.label + 1)..Version' :
                     ask'[q].at - history'[u + 1].at < Window
               /\ Window > 0
    <2>1. /\ Window > 0
          /\ \A u \in (view.label + 1)..Version : clock - history[u + 1].at < Window
      BY <1>2, <1>t, MemoAnswers
    <2> QED
      BY <1>1, <1>2, <1>n, <2>1
  <1>3. CASE ask'[q] = ask[q]
    BY <1>1, <1>3, <1>t DEF AnswerSince
  <1>a. ASSUME NEW on, NEW photo, NEW via, ask' = Answered(on, photo, via)
        PROVE  ask'[q] = ask[q] \/ (ask'[q].via = via /\ ask'[q].photo = photo /\ ask'[q].at = clock)
    <2>1. CASE ask[q].pc \in on
      <3>1. ask'[q] = [ask[q] EXCEPT !.pc = "done", !.photo = photo, !.via = via,
                                     !.at = clock, !.floor = floor]
        BY <1>a, <2>1 DEF Answered
      <3>2. ask[q] \in Ask
        BY <1>t DEF TypeOK
      <3> QED
        BY <3>1, <3>2 DEF Ask
    <2>2. CASE ask[q].pc \notin on
      BY <1>a, <2>2 DEF Answered
    <2> QED
      BY <2>1, <2>2
  <1>4. ASSUME NEW r \in Question, AskMemo(r)
        PROVE  ask'[q] = ask[q] \/ (ask'[q].photo = view /\ ask'[q].at = clock /\ IsFresh /\ ~NeedsCheck)
    BY <1>4, <1>t DEF AskMemo, TypeOK
  <1>5. ASSUME NEW r \in Question, AskCheck(r) \/ AskLoad(r) PROVE ask'[q] = ask[q]
    BY <1>5, <1>t DEF AskCheck, AskLoad, Wait, TypeOK, NotAsked
  <1>6. CASE CheckServes \/ LoadLands
    <2>1. ask' = Answered({"check"}, view, "check") \/ ask' = Answered(OnLoad, load.photo, "load")
      BY <1>6 DEF CheckServes, LoadLands
    <2>2. ask'[q] = ask[q] \/ ask'[q].via \in {"check", "load"}
      BY <1>a, <2>1
    <2> QED
      BY <1>3, <2>2
  <1>7. CASE CheckSuperseded
    <2>1. CASE ask' = ask
      BY <1>3, <2>1
    <2>2. CASE ask' = Answered({"check"}, view, "memo") /\ IsFresh /\ ~NeedsCheck
      BY <1>2, <1>3, <1>a, <2>2
    <2> QED
      BY <1>7, <2>1, <2>2 DEF CheckSuperseded
  <1>8. CASE CheckFails \/ LoadFails
    <2>1. PICK on : ask' = Refused(on)
      BY <1>8 DEF CheckFails, LoadFails
    <2>2. ask[q].pc \notin on
      BY <1>t, <2>1, AnsweredOne
    <2>3. ask'[q] = ask[q]
      BY <1>t, <2>1, <2>2, AnsweredOne
    <2> QED
      BY <1>3, <2>3
  <1>9. CASE ask' = ask
    BY <1>3, <1>9
  <1> QED
    BY <1>2, <1>3, <1>4, <1>5, <1>6, <1>7, <1>8, <1>9
    DEF Next, CheckStep, LoadStep, CheckRead, CheckReloads, LoadVersion, LoadPermissions,
        LoadRoles, LoadLinks, Step, Commit, Invalidate, Tick, vars

\* With { everyMs } an answer served unchecked lacks only what was committed less
\* than a window before it was served.
THEOREM UncheckedWithinWindow == Spec => []WindowBounds
  <1>1. CatalogInv /\ WindowInv /\ [Next]_vars => WindowInv'
    BY ClockKept, SinceCheckedKept, AnswerSinceKept DEF WindowInv
  <1>2. WindowInv => WindowBounds
    BY DEF WindowInv, AnswerSince, WindowBounds
  <1>3. Spec => []WindowInv
    BY <1>1, InitWindowInv, CatalogInvariant, PTL DEF Spec
  <1> QED
    BY <1>2, <1>3, PTL

=============================================================================
