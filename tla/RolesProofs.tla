---------------------------- MODULE RolesProofs -----------------------------
(***************************************************************************)
(* The writers of the catalog, for every tree, catalog and set of clients: *)
(* types and the path of each call; that names stay apart and nobody       *)
(* delegates what he has not; that a purge and a prune take all of a role, *)
(* and only what they may; that the store follows the catalog, but where a *)
(* projection failed or was crossed; and that configs of one list, synced, *)
(* stay so together.                                                       *)
(***************************************************************************)
EXTENDS Roles, TLAPS, FiniteSetTheorems, WellFoundedInduction

LEMMA MaxOf ==
  ASSUME NEW S \in SUBSET Nat, IsFiniteSet(S), S # {}
  PROVE  \E m \in S : \A n \in S : n <= m
  <1> DEFINE Over(m) == {n \in S : n > m}
             Sizes == {Cardinality(Over(m)) : m \in S}
  <1>1. \A m \in S : IsFiniteSet(Over(m)) /\ Cardinality(Over(m)) \in Nat
    BY FS_Subset, FS_CardinalityType
  <1>2. Sizes \in SUBSET Nat /\ Sizes # {}
    BY <1>1
  <1> HIDE DEF Sizes
  <1>3. PICK i \in Sizes : \A j \in Sizes : ~(<<j, i>> \in OpToRel(<, Nat))
    BY <1>2, NatLessThanWellFounded, WFMin, Zenon
  <1>4. \A j \in Sizes : ~(j < i)
    BY <1>2, <1>3 DEF OpToRel
  <1>5. PICK m \in S : i = Cardinality(Over(m))
    BY <1>3, Zenon DEF Sizes
  <1>6. ASSUME NEW n \in S, n > m
        PROVE  FALSE
    <2>1. Over(n) \subseteq Over(m) /\ Over(n) # Over(m)
      <3>1. n \in Over(m) /\ n \notin Over(n)
        BY <1>6
      <3>2. \A k \in S : k > n => k > m
        BY <1>6
      <3> QED
        BY <3>1, <3>2, Zenon
    <2>2. Cardinality(Over(n)) < Cardinality(Over(m))
      BY <1>1, <2>1, FS_Subset
    <2> QED
      BY <1>4, <1>5, <2>2 DEF Sizes
  <1> QED
    BY <1>6

LEMMA RowsOf ==
  ASSUME NEW rows \in Catalog
  PROVE  /\ Present(rows) \subseteq Role
         /\ \A r \in Present(rows) : rows.rows[r] \in Row
         /\ Globals(rows) \subseteq Role /\ Locals(rows) \subseteq Role
         /\ \A r \in Locals(rows) : rows.rows[r].owner \in Scope
         /\ \A r \in Role : PermsOf(rows, r) \subseteq Perm
         /\ Links(rows) \subseteq Role \X Perm
         /\ \A r \in Role, p \in Perm : <<r, p>> \in Links(rows) <=> p \in PermsOf(rows, r)
  BY DEF Catalog, Present, Globals, Locals, PermsOf, Links, Row

LEMMA NoCallType ==
  NoCall \in Call /\ NoCatalog \in Catalog
  <1>1. NoCatalog \in Catalog
    <2>1. [r \in Role |-> None] \in [Role -> Row \cup {None}]
      OBVIOUS
    <2>2. [p \in Perm |-> None] \in [Perm -> (SUBSET Type) \cup {None}]
      OBVIOUS
    <2> QED
      BY <2>1, <2>2 DEF NoCatalog, Catalog
  <1>2. /\ (CHOOSE a \in Actor : TRUE) \in Actor /\ (CHOOSE r \in Role : TRUE) \in Role
        /\ (CHOOSE n \in Name : TRUE) \in Name
    BY RolesAssumption
  <1>3. [name |-> CHOOSE n \in Name : TRUE, rank |-> None, perms |-> None] \in AskSet
    BY <1>2 DEF AskSet
  <1>4. Root \in Scope
    BY RolesAssumption
  <1> QED
    BY <1>1, <1>2, <1>3, <1>4 DEF NoCall, Call, InProject, InPurge, InPrune

LEMMA UpType ==
  ASSUME NEW edges, NEW s
  PROVE  Up(edges, s) \subseteq Scope
  BY DEF Up

LEMMA PlanOf ==
  ASSUME NEW plan \in Plans, NEW i \in 1..Len(plan)
  PROVE  /\ IsConfig(plan[i])
         /\ \A n \in DOMAIN plan[i].roles : plan[i].roles[n].uuid \in Reserved
  <1>1. i \in DOMAIN plan
    BY RolesAssumption
  <1>2. IsConfig(plan[i])
    BY <1>1, RolesAssumption
  <1>3. ASSUME NEW n \in DOMAIN plan[i].roles
        PROVE  plan[i].roles[n].uuid \in Reserved
    BY <1>1, <1>3 DEF Reserved
  <1> QED
    BY <1>2, <1>3

LEMMA SyncedType ==
  ASSUME NEW rows \in Catalog, NEW config, IsConfig(config), NEW prune \in BOOLEAN
  PROVE  /\ Synced(rows, config, prune) \in Catalog
         /\ \A r \in Role :
               \/ Synced(rows, config, prune).rows[r] = rows.rows[r]
               \/ /\ r \in Globals(rows) \/ \E n \in DOMAIN config.roles : r = config.roles[n].uuid
                  /\ Synced(rows, config, prune).rows[r] \in Row
                  /\ Synced(rows, config, prune).rows[r].owner = Global
  <1> DEFINE uuid == [n \in DOMAIN config.roles |-> UuidOf(rows, config, n)]
             row(n) == [name |-> n, owner |-> Global, rank |-> config.roles[n].rank,
                        perms |-> config.roles[n].perms
                                     \cup IF prune THEN {} ELSE PermsOf(rows, uuid[n])]
             Of(r) == CHOOSE n \in DOMAIN uuid : uuid[n] = r
             New(r) == IF \E n \in DOMAIN uuid : uuid[n] = r THEN row(Of(r)) ELSE rows.rows[r]
             levels == [p \in Perm |-> IF p \in DOMAIN config.perms THEN config.perms[p]
                                                                    ELSE rows.levels[p]]
  <1>1. \A n \in DOMAIN config.roles :
           UuidOf(rows, config, n) \in Globals(rows) \cup {config.roles[n].uuid}
    BY DEF UuidOf
  <1>2. \A n \in DOMAIN config.roles :
           n \in Name /\ config.roles[n] \in [uuid : Role, rank : Nat, perms : SUBSET Perm]
    BY DEF IsConfig
  <1>3. \A n \in DOMAIN config.roles : UuidOf(rows, config, n) \in Role
    BY <1>1, <1>2, RowsOf
  <1>4. \A n \in DOMAIN config.roles : row(n) \in Row /\ row(n).owner = Global
    BY <1>2, <1>3, RowsOf DEF Row
  <1>5. \A r \in Role : (\E n \in DOMAIN uuid : uuid[n] = r) =>
           Of(r) \in DOMAIN config.roles /\ uuid[Of(r)] = r
    OBVIOUS
  <1>6. levels \in [Perm -> (SUBSET Type) \cup {None}]
    BY DEF IsConfig, Catalog
  <1>7. WithPerms(rows, config) = [rows EXCEPT !.levels = levels]
    BY DEF WithPerms, Catalog
  <1>8. Synced(rows, config, prune) = [rows |-> [r \in Role |-> New(r)], levels |-> levels]
    <2>1. rows = [rows |-> rows.rows, levels |-> rows.levels] /\ rows.rows = [r \in Role |-> rows.rows[r]]
      BY DEF Catalog
    <2>2. Synced(rows, config, prune) =
             [WithPerms(rows, config) EXCEPT !.rows =
                 [r \in Role |-> IF \E n \in DOMAIN uuid : uuid[n] = r THEN row(Of(r))
                                 ELSE WithPerms(rows, config).rows[r]]]
      BY DEF Synced
    <2>3. WithPerms(rows, config) = [rows |-> rows.rows, levels |-> levels]
      BY <1>7, <2>1
    <2>4. Synced(rows, config, prune) =
             [WithPerms(rows, config) EXCEPT !.rows = [r \in Role |-> New(r)]]
      BY <2>2, <2>3
    <2> HIDE DEF New, levels, uuid
    <2> QED
      BY <2>3, <2>4
  <1>9. \A r \in Role : \/ New(r) = rows.rows[r]
                         \/ /\ r \in Globals(rows) \/ \E n \in DOMAIN config.roles : r = config.roles[n].uuid
                            /\ New(r) \in Row /\ New(r).owner = Global
    <2> TAKE r \in Role
    <2>1. CASE \E n \in DOMAIN uuid : uuid[n] = r
      <3>1. Of(r) \in DOMAIN config.roles /\ uuid[Of(r)] = r /\ New(r) = row(Of(r))
        BY <1>5, <2>1
      <3> HIDE DEF row, Of, New
      <3>2. New(r) \in Row /\ New(r).owner = Global
        BY <1>4, <3>1
      <3>3. r \in Globals(rows) \cup {config.roles[Of(r)].uuid}
        BY <1>1, <3>1
      <3> QED
        BY <3>1, <3>2, <3>3
    <2>2. CASE ~ \E n \in DOMAIN uuid : uuid[n] = r
      BY <2>2
    <2> QED
      BY <2>1, <2>2
  <1>10. \A r \in Role : New(r) \in Row \cup {None}
    <2> HIDE DEF New
    <2> QED
      BY <1>9 DEF Catalog
  <1> HIDE DEF New, levels
  <1> QED
    BY <1>6, <1>8, <1>9, <1>10 DEF Catalog

-----------------------------------------------------------------------------
(* Types, and where in its path each call is.                              *)

Looking == {"chain", "view", "roles", "denies", "shadows"}

PathOK(k) ==
    /\ k.op = "none" <=> k.pc = "idle"
    /\ k.op \in {"define", "update"} => k.pc \in Looking \cup {"commit"} \cup InProject
    /\ k.op = "delete" => k.pc \in {"view", "chain", "roles", "collect"} \cup InPurge
    /\ k.op = "sync" => /\ k.pc \in {"sync", "current", "write"}
                        /\ k.plan \in Plans /\ k.at \in 1..Len(k.plan)
    /\ k.op = "prune" => k.pc \in InPrune \cup {"collect"} \cup InPurge

CallsOK == call \in [Client -> Call] /\ \A c \in Client : PathOK(call[c])

\* What TypeOK says of all but the history.
StateOK ==
    /\ cat \in Catalog
    /\ spare \subseteq Role
    /\ tree \subseteq Edge /\ known \subseteq Scope /\ blind \in BOOLEAN
    /\ held \subseteq Fact /\ asked \subseteq Fact /\ denied \subseteq Actor \X Scope \X Perm
    /\ permits \subseteq Role \X Perm
    /\ drift \subseteq Role
    /\ left \in [{"calls", "changes"} -> Nat]

Typed == StateOK /\ CallsOK /\ seen \in [Client -> Seen]

LEMMA NoCallPath ==
  PathOK(NoCall)
  BY DEF NoCall, PathOK, Looking, InProject, InPurge, InPrune

LEMMA AfterOf ==
  /\ After["define"]["chain"] = "view" /\ After["define"]["view"] = "roles"
  /\ After["define"]["roles"] = "denies" /\ After["define"]["denies"] = "shadows"
  /\ After["define"]["shadows"] = "commit"
  /\ After["update"]["view"] = "chain" /\ After["update"]["chain"] = "roles"
  /\ After["update"]["roles"] = "shadows" /\ After["update"]["shadows"] = "denies"
  /\ After["update"]["denies"] = "commit"
  /\ After["delete"]["view"] = "chain" /\ After["delete"]["chain"] = "roles"
  /\ After["delete"]["roles"] = "collect"
  BY DEF After

LEMMA PutOK ==
  ASSUME CallsOK, NEW c \in Client, NEW new \in Call, PathOK(new), Put(c, new)
  PROVE  CallsOK'
  BY DEF CallsOK, Put

LEMMA DirtyOK ==
  ASSUME NEW k \in Call, PathOK(k), NEW rs \in SUBSET Role
  PROVE  /\ [k EXCEPT !.dirty = @ \cup rs] \in Call
         /\ PathOK([k EXCEPT !.dirty = @ \cup rs])
  BY DEF Call, PathOK

LEMMA CrossingOK ==
  ASSUME CallsOK, NEW c \in Client, NEW new \in Call, PathOK(new), NEW rs \in SUBSET Role,
         NEW pcs, call' = Crossing(c, new, rs, pcs)
  PROVE  CallsOK'
  <1>1. ASSUME NEW d \in Client
        PROVE  /\ call'[d] \in {new, call[d], [call[d] EXCEPT !.dirty = @ \cup rs]}
               /\ call[d] \in Call /\ PathOK(call[d])
    BY DEF Crossing, CallsOK
  <1>2. \A d \in Client : call'[d] \in Call /\ PathOK(call'[d])
    BY <1>1, DirtyOK
  <1>3. call' = [d \in Client |-> call'[d]]
    BY DEF Crossing
  <1> QED
    BY <1>2, <1>3 DEF CallsOK

\* Where a check leads.
LEMMA CheckOK ==
  ASSUME CallsOK, NEW c \in Client, NEW ok, NEW new \in Call, new.op = call[c].op,
         call[c].pc \in Looking, new.plan = call[c].plan, new.at = call[c].at,
         Check(c, ok, new)
  PROVE  CallsOK'
  <1> DEFINE next == [new EXCEPT !.pc = After[call[c].op][call[c].pc]]
  <1>1. PathOK(call[c]) /\ call[c] \in Call
    BY DEF CallsOK
  <1>2. call[c].op \in {"define", "update", "delete"}
    BY <1>1 DEF PathOK, Looking, InProject, InPurge, InPrune, Call
  <1>3. next \in Call /\ PathOK(next)
    <2>1. CASE call[c].op = "define"
      <3>1. call[c].pc \in {"chain", "view", "roles", "denies", "shadows"}
        BY DEF Looking
      <3>2. After[call[c].op][call[c].pc] \in {"view", "roles", "denies", "shadows", "commit"}
        BY <2>1, <3>1, AfterOf
      <3> QED
        BY <2>1, <3>2 DEF Call, PathOK, Looking
    <2>2. CASE call[c].op = "update"
      <3>1. call[c].pc \in {"chain", "view", "roles", "denies", "shadows"}
        BY DEF Looking
      <3>2. After[call[c].op][call[c].pc] \in {"chain", "roles", "denies", "shadows", "commit"}
        BY <2>2, <3>1, AfterOf
      <3> QED
        BY <2>2, <3>2 DEF Call, PathOK, Looking
    <2>3. CASE call[c].op = "delete"
      <3>1. call[c].pc \in {"chain", "view", "roles"}
        BY <1>1, <2>3 DEF Looking, PathOK, InPurge
      <3>2. After[call[c].op][call[c].pc] \in {"chain", "roles", "collect"}
        BY <2>3, <3>1, AfterOf
      <3> QED
        BY <2>3, <3>2 DEF Call, PathOK, Looking
    <2> QED
      BY <1>2, <2>1, <2>2, <2>3
  <1>4. call' = [call EXCEPT ![c] = IF ok THEN next ELSE NoCall]
    BY DEF Check, Put
  <1>5. CASE ok
    BY <1>3, <1>4, <1>5 DEF CallsOK
  <1>6. CASE ~ok
    BY <1>4, <1>6, NoCallType, NoCallPath DEF CallsOK
  <1> QED
    BY <1>5, <1>6

-----------------------------------------------------------------------------

LEMMA RankType ==
  ASSUME NEW k \in Call
  PROVE  RankAlong(k) \in Nat
  <1> DEFINE R == RolesAlong(k.photo, k.edges, k.actor, k.owner)
             f == [r \in R |-> k.photo.rows[r].rank]
             N == {k.photo.rows[r].rank : r \in R}
             ranks == {0} \cup N
  <1>1. R \subseteq Present(k.photo)
    BY DEF RolesAlong, Counts
  <1>2. k.photo \in Catalog
    BY DEF Call
  <1>3. R \subseteq Role /\ \A r \in R : k.photo.rows[r].rank \in Nat
    BY <1>1, <1>2, RowsOf DEF Row
  <1>4. IsFiniteSet(R)
    BY <1>3, FS_Subset, RolesAssumption
  <1>5. f \in Surjection(R, N)
    BY DEF Surjection
  <1>6. IsFiniteSet(N) /\ N \in SUBSET Nat
    BY <1>3, <1>4, <1>5, FS_Surjection
  <1>7. IsFiniteSet(ranks) /\ ranks \in SUBSET Nat /\ ranks # {}
    <2> HIDE DEF N
    <2>1. IsFiniteSet({0})
      BY FS_Singleton
    <2>2. IsFiniteSet(ranks)
      BY <1>6, <2>1, FS_Union
    <2> QED
      BY <1>6, <2>2
  <1>8. \E m \in ranks : \A n \in ranks : n <= m
    BY <1>7, MaxOf
  <1>9. RankAlong(k) = CHOOSE m \in ranks : \A n \in ranks : n <= m
    BY DEF RankAlong
  <1> HIDE DEF ranks
  <1> QED
    BY <1>7, <1>8, <1>9

LEMMA InitTyped ==
  Init => Typed
  <1> SUFFICES ASSUME Init
               PROVE  Typed
    OBVIOUS
  <1>1. StateOK
    <2>1. Present(FirstCatalog) \subseteq Role /\ Links(FirstCatalog) \subseteq Role \X Perm
      BY RolesAssumption, RowsOf
    <2>2. left \in [{"calls", "changes"} -> Nat]
      BY RolesAssumption DEF Init
    <2>3. FirstCatalog \in Catalog /\ FirstTree \subseteq Edge /\ FirstHeld \subseteq Fact
          /\ FirstKnown \subseteq SUBSET Scope
      BY RolesAssumption
    <2> QED
      BY <2>1, <2>2, <2>3 DEF Init, StateOK
  <1>2. CallsOK
    BY NoCallType, NoCallPath DEF Init, CallsOK
  <1>3. seen \in [Client -> Seen]
    BY DEF Init, Nothing, Seen
  <1> QED
    BY <1>1, <1>2, <1>3 DEF Typed

\* What happens around the calls.
Around ==
    \/ \E k \in AskAt : Ask(k)
    \/ \E k \in asked : Land(k)
    \/ \E k \in held : Revoke(k)
    \/ \E d \in DenyAt : Deny(d)
    \/ \E m \in Moves : Move(m)
    \/ \E s \in Lapses : Lapse(s)
    \/ Blind

\* The steps of a call that only look: they write neither the catalog nor the store.
Quietly(c) ==
    \/ StartDefine(c) \/ StartUpdate(c) \/ StartDelete(c) \/ StartSync(c) \/ StartPrune(c)
    \/ ReadChain(c) \/ View(c) \/ ReadRoles(c) \/ ReadDenies(c) \/ Shadows(c)
    \/ Refused(c) \/ GiveUp(c) \/ Project(c) \/ Current(c) \/ Collect(c) \/ Residue(c)
    \/ ListLocals(c) \/ ResolveOwner(c) \/ Decide(c) \/ Turn(c)

Writes(c) == Define(c) \/ Update(c) \/ Sync(c) \/ Write(c) \/ Erase(c) \/ Drop(c)

LEMMA StepCases ==
  Step => Around \/ \E c \in Client : Quietly(c) \/ Writes(c)
  BY DEF Step, Around, Quietly, Writes

\* Around the calls only the history in them changes.
LEMMA AroundFrame ==
  ASSUME CallsOK, Around
  PROVE  /\ UNCHANGED <<cat, spare, permits, drift>>
         /\ \A c \in Client :
               \/ /\ call'[c] = [call[c] EXCEPT !.late = call'[c].late]
                  /\ call[c].late => call'[c].late
                  /\ UNCHANGED <<tree, known, blind>>
               \/ /\ call'[c] = [call[c] EXCEPT !.moved = call'[c].moved]
                  /\ call[c].pc # "idle" => call'[c].moved
                  /\ UNCHANGED <<held, denied>>
  <1>1. \A c \in Client : call[c] \in Call
    BY DEF CallsOK
  <1>2. ASSUME NEW k \in AskAt, Ask(k)
        PROVE  UNCHANGED <<cat, spare, permits, drift, call, tree, known, blind>>
    BY <1>2 DEF Ask, OnlyAround
  <1>3. ASSUME NEW k \in held, Revoke(k)
        PROVE  UNCHANGED <<cat, spare, permits, drift, call, tree, known, blind>>
    BY <1>3 DEF Revoke, OnlyAround
  <1>4. ASSUME NEW d \in DenyAt, Deny(d)
        PROVE  UNCHANGED <<cat, spare, permits, drift, call, tree, known, blind>>
    BY <1>4 DEF Deny, OnlyAround
  <1>5. ASSUME UNCHANGED call
        PROVE  \A c \in Client : /\ call'[c] = [call[c] EXCEPT !.late = call'[c].late]
                                 /\ call[c].late => call'[c].late
    BY <1>1, <1>5 DEF Call
  <1>6. ASSUME NEW k \in asked, Land(k)
        PROVE  /\ UNCHANGED <<cat, spare, permits, drift, tree, known, blind>>
               /\ \A c \in Client : /\ call'[c] = [call[c] EXCEPT !.late = call'[c].late]
                                    /\ call[c].late => call'[c].late
    BY <1>1, <1>6 DEF Land, OnlyAround, Landing, Call
  <1>7. ASSUME (\E m \in Moves : Move(m)) \/ (\E s \in Lapses : Lapse(s)) \/ Blind
        PROVE  /\ UNCHANGED <<cat, spare, permits, drift, held, denied>>
               /\ TreeChanges
    BY <1>7 DEF Move, Lapse, Blind, OnlyAround
  <1>8. ASSUME TreeChanges
        PROVE  \A c \in Client : /\ call'[c] = [call[c] EXCEPT !.moved = call'[c].moved]
                                 /\ call[c].pc # "idle" => call'[c].moved
    BY <1>1, <1>8 DEF TreeChanges, Idle, Call
  <1> QED
    BY <1>2, <1>3, <1>4, <1>5, <1>6, <1>7, <1>8 DEF Around

LEMMA FlagOK ==
  ASSUME NEW k \in Call, NEW b \in BOOLEAN
  PROVE  /\ [k EXCEPT !.late = b] \in Call /\ [k EXCEPT !.moved = b] \in Call
         /\ [k EXCEPT !.prune = b] \in Call
  BY DEF Call

LEMMA AroundTyped ==
  ASSUME Typed, Around
  PROVE  StateOK' /\ CallsOK'
  <1>1. StateOK'
    <2> USE DEF Typed, StateOK, OnlyAround
    <2>1. Change => left' \in [{"calls", "changes"} -> Nat]
      BY DEF Change
    <2>2. ASSUME NEW k \in AskAt, Ask(k)
          PROVE  StateOK'
      BY <2>1, <2>2, RolesAssumption DEF Ask
    <2>3. ASSUME NEW k \in asked, Land(k)
          PROVE  StateOK'
      BY <2>3 DEF Land
    <2>4. ASSUME NEW k \in held, Revoke(k)
          PROVE  StateOK'
      BY <2>1, <2>4 DEF Revoke
    <2>5. ASSUME NEW d \in DenyAt, Deny(d)
          PROVE  StateOK'
      BY <2>1, <2>5, RolesAssumption DEF Deny
    <2>6. ASSUME NEW m \in Moves, Move(m)
          PROVE  StateOK'
      BY <2>1, <2>6, RolesAssumption DEF Move
    <2>7. ASSUME NEW s \in Lapses, Lapse(s)
          PROVE  StateOK'
      BY <2>1, <2>7, RolesAssumption DEF Lapse
    <2>8. ASSUME Blind
          PROVE  StateOK'
      BY <2>1, <2>8 DEF Blind
    <2> QED
      BY <2>2, <2>3, <2>4, <2>5, <2>6, <2>7, <2>8 DEF Around
  <1>2. CallsOK'
    <2>1. call' = [c \in Client |-> call'[c]] /\ \A c \in Client : call'[c] \in Call
      <3>1. CASE UNCHANGED call
        BY <3>1 DEF Typed, CallsOK
      <3>2. CASE \E r : Landing(r)
        <4>1. PICK r : Landing(r)
          BY <3>2
        <4>2. call' = [c \in Client |-> call'[c]]
          BY <4>1 DEF Landing
        <4>3. ASSUME NEW c \in Client
              PROVE  call'[c] \in Call
          <5> DEFINE l == call[c].late \/ (call[c].pc = "drop" /\ call[c].role = r)
          <5>1. l \in BOOLEAN
            OBVIOUS
          <5>2. call'[c] = [call[c] EXCEPT !.late = l]
            BY <4>1 DEF Landing
          <5>3. call[c] \in Call
            BY DEF Typed, CallsOK
          <5> HIDE DEF l
          <5> QED
            BY <5>1, <5>2, <5>3, FlagOK
        <4> QED
          BY <4>2, <4>3
      <3>3. CASE TreeChanges
        <4>1. call' = [c \in Client |-> call'[c]]
          BY <3>3 DEF TreeChanges
        <4>2. ASSUME NEW c \in Client
              PROVE  call'[c] \in Call
          <5>1. call'[c] = [call[c] EXCEPT !.moved = ~Idle(c)]
            BY <3>3 DEF TreeChanges
          <5>2. (~Idle(c)) \in BOOLEAN
            BY DEF Idle
          <5>3. call[c] \in Call
            BY DEF Typed, CallsOK
          <5> QED
            BY <5>1, <5>2, <5>3, FlagOK
        <4> QED
          BY <4>1, <4>2
      <3> QED
        BY <3>1, <3>2, <3>3 DEF Around, Ask, Land, Revoke, Deny, Move, Lapse, Blind
    <2>2. \A c \in Client : PathOK(call'[c])
      <3> TAKE c \in Client
      <3>1. PathOK(call[c]) /\ call[c] \in Call
        BY DEF Typed, CallsOK
      <3>2. \/ call'[c] = [call[c] EXCEPT !.late = call'[c].late]
            \/ call'[c] = [call[c] EXCEPT !.moved = call'[c].moved]
        BY AroundFrame DEF Typed
      <3>3. /\ call'[c].op = call[c].op /\ call'[c].pc = call[c].pc
            /\ call'[c].plan = call[c].plan /\ call'[c].at = call[c].at
        BY <3>1, <3>2 DEF Call
      <3> QED
        BY <3>1, <3>3 DEF PathOK
    <2> QED
      BY <2>1, <2>2 DEF CallsOK
  <1> QED
    BY <1>1, <1>2

\* A call that only looks moves nothing but itself, and what had to be projected.
LEMMA QuietFrame ==
  ASSUME NEW c \in Client, Quietly(c), CallsOK
  PROVE  /\ UNCHANGED <<cat, spare, permits, tree, known, blind, held, asked, denied>>
         /\ \A d \in Client : d # c => call'[d] = call[d]
  <1> USE DEF Quiet, around
  <1>1. Quiet /\ \E new : Put(c, new)
    BY Zenon DEF Quietly, StartDefine, StartUpdate, StartDelete, StartSync, StartPrune, Begin, Check,
           ReadChain, View, ReadRoles, ReadDenies, Shadows, Refused, GiveUp, Project, Current,
           Collect, Residue, ListLocals, ResolveOwner, Decide, Turn
  <1> QED
    BY <1>1, SMTT(30) DEF Put, CallsOK

LEMMA BeginOK ==
  ASSUME Typed, NEW c \in Client, NEW new \in Call, PathOK(new), Begin(c, new)
  PROVE  StateOK' /\ CallsOK'
  <1>1. CallsOK'
    BY PutOK DEF Typed, Begin
  <1>2. StateOK'
    BY DEF Typed, StateOK, Begin, Quiet, around
  <1> QED
    BY <1>1, <1>2

LEMMA CheckTyped ==
  ASSUME Typed, NEW c \in Client, NEW ok, NEW new \in Call, new.op = call[c].op,
         call[c].pc \in Looking, new.plan = call[c].plan, new.at = call[c].at,
         Check(c, ok, new)
  PROVE  StateOK' /\ CallsOK'
  <1>1. CallsOK'
    BY CheckOK DEF Typed
  <1>2. StateOK'
    BY DEF Typed, StateOK, Check, Quiet, around
  <1> QED
    BY <1>1, <1>2

LEMMA SyncCallOK ==
  ASSUME NEW k \in Call, NEW list \in Plans, NEW b \in BOOLEAN
  PROVE  [k EXCEPT !.op = "sync", !.pc = "sync", !.plan = list, !.at = 1, !.prune = b] \in Call
  <1> DEFINE j == [k EXCEPT !.op = "sync", !.pc = "sync", !.plan = list, !.at = 1]
  <1>1. j \in Call
    BY ZenonT(40) DEF Call
  <1>2. [j EXCEPT !.prune = b] \in Call
    <2> HIDE DEF j
    <2> QED
      BY <1>1, FlagOK
  <1>3. [j EXCEPT !.prune = b]
          = [k EXCEPT !.op = "sync", !.pc = "sync", !.plan = list, !.at = 1, !.prune = b]
    BY DEF Call
  <1> QED
    BY <1>2, <1>3

LEMMA StartsTyped ==
  ASSUME Typed, NEW c \in Client,
         StartDefine(c) \/ StartUpdate(c) \/ StartDelete(c) \/ StartSync(c) \/ StartPrune(c)
  PROVE  StateOK' /\ CallsOK'
  <1> USE DEF PathOK, Looking, InProject, InPurge, InPrune
  <1>1. NoCall \in Call
    BY NoCallType
  <1>2. CASE StartDefine(c)
    <2>1. PICK d \in Defines : Begin(c, [NoCall EXCEPT !.op = "define", !.pc = "chain", !.actor = d[1],
                                                     !.owner = d[2], !.ask = d[3]])
      BY <1>2, Zenon DEF StartDefine
    <2>2. d[1] \in Actor /\ d[2] \in Scope /\ d[3] \in AskSet
      BY RolesAssumption DEF Whole, AskSet
    <2> DEFINE new == [NoCall EXCEPT !.op = "define", !.pc = "chain", !.actor = d[1], !.owner = d[2], !.ask = d[3]]
    <2>3. new \in Call
      BY <1>1, <2>1, <2>2, ZenonT(40) DEF Call
    <2>4. PathOK(new)
      BY <1>1 DEF Call
    <2> HIDE DEF new
    <2> QED
      BY <2>1, <2>3, <2>4, BeginOK DEF new
  <1>3. CASE StartUpdate(c)
    <2>1. PICK d \in Updates : Begin(c, [NoCall EXCEPT !.op = "update", !.pc = "view", !.actor = d[1],
                                                     !.role = d[2], !.ask = d[3]])
      BY <1>3, Zenon DEF StartUpdate
    <2>2. d[1] \in Actor /\ d[2] \in Role /\ d[3] \in AskSet
      BY RolesAssumption
    <2> DEFINE new == [NoCall EXCEPT !.op = "update", !.pc = "view", !.actor = d[1], !.role = d[2], !.ask = d[3]]
    <2>3. new \in Call
      BY <1>1, <2>1, <2>2, ZenonT(40) DEF Call
    <2>4. PathOK(new)
      BY <1>1 DEF Call
    <2> HIDE DEF new
    <2> QED
      BY <2>1, <2>3, <2>4, BeginOK DEF new
  <1>4. CASE StartDelete(c)
    <2>1. PICK d \in Deletes : Begin(c, [NoCall EXCEPT !.op = "delete", !.pc = "view", !.actor = d[1],
                                                     !.role = d[2]])
      BY <1>4, Zenon DEF StartDelete
    <2>2. d[1] \in Actor /\ d[2] \in Role
      BY RolesAssumption
    <2> DEFINE new == [NoCall EXCEPT !.op = "delete", !.pc = "view", !.actor = d[1], !.role = d[2]]
    <2>3. new \in Call
      BY <1>1, <2>1, <2>2, ZenonT(40) DEF Call
    <2>4. PathOK(new)
      BY <1>1 DEF Call
    <2> HIDE DEF new
    <2> QED
      BY <2>1, <2>3, <2>4, BeginOK DEF new
  <1>5. CASE StartSync(c)
    <2>1. PICK plan \in Plans, prune \in Prunes :
             Begin(c, [NoCall EXCEPT !.op = "sync", !.pc = "sync", !.plan = plan, !.at = 1,
                                     !.prune = prune])
      BY <1>5, Zenon DEF StartSync
    <2>2. prune \in BOOLEAN /\ 1 \in 1..Len(plan)
      BY RolesAssumption
    <2> DEFINE new == [NoCall EXCEPT !.op = "sync", !.pc = "sync", !.plan = plan, !.at = 1, !.prune = prune]
    <2>3. new \in Call
      BY <1>1, <2>2, SyncCallOK, Zenon
    <2>4. PathOK(new)
      BY <1>1, <2>2 DEF Call
    <2> HIDE DEF new
    <2> QED
      BY <2>1, <2>3, <2>4, BeginOK DEF new
  <1>6. CASE StartPrune(c)
    <2> DEFINE new == [NoCall EXCEPT !.op = "prune", !.pc = "list"]
    <2>1. new \in Call
      BY <1>1, ZenonT(40) DEF Call
    <2>2. PathOK(new)
      BY <1>1 DEF Call
    <2>3. Begin(c, new)
      BY <1>6 DEF StartPrune
    <2> HIDE DEF new
    <2> QED
      BY <2>1, <2>2, <2>3, BeginOK
  <1> QED
    BY <1>2, <1>3, <1>4, <1>5, <1>6

LEMMA ChecksTyped ==
  ASSUME Typed, NEW c \in Client,
         ReadChain(c) \/ View(c) \/ ReadRoles(c) \/ ReadDenies(c) \/ Shadows(c)
  PROVE  StateOK' /\ CallsOK'
  <1> DEFINE k == call[c]
  <1>1. k \in Call /\ cat \in Catalog /\ tree \subseteq Edge
    BY DEF Typed, CallsOK, StateOK
  <1>2. CASE ReadChain(c)
    <2>1. [k EXCEPT !.edges = tree] \in Call
      BY <1>1 DEF Call
    <2>2. [k EXCEPT !.edges = tree].op = k.op /\ [k EXCEPT !.edges = tree].plan = k.plan
          /\ [k EXCEPT !.edges = tree].at = k.at /\ k.pc \in Looking
      BY <1>1, <1>2 DEF Call, ReadChain, Looking
    <2> QED
      BY <1>2, <2>1, <2>2, CheckTyped DEF ReadChain
  <1>3. CASE View(c)
    <2>1. PICK s \in Scope : \E ok : Check(c, ok, [k EXCEPT !.photo = cat, !.owner = s])
      <3>1. CASE k.op = "define"
        <4>1. [k EXCEPT !.photo = cat] = [k EXCEPT !.photo = cat, !.owner = k.owner] /\ k.owner \in Scope
          BY <1>1 DEF Call
        <4>2. Check(c, Composable(k.ask), [k EXCEPT !.photo = cat])
          BY <1>3, <3>1 DEF View
        <4> QED
          BY <4>1, <4>2, Zenon
      <3>2. CASE k.op # "define"
        <4> DEFINE s == IF k.role \in Locals(cat) THEN cat.rows[k.role].owner ELSE k.owner
        <4>1. s \in Scope
          BY <1>1, RowsOf DEF Call
        <4>2. [k EXCEPT !.photo = cat,
                        !.owner = IF k.role \in Locals(cat) THEN cat.rows[k.role].owner ELSE @]
               = [k EXCEPT !.photo = cat, !.owner = s]
          BY <1>1 DEF Call
        <4>3. Check(c, k.role \in Locals(cat) /\ Composable(k.ask), [k EXCEPT !.photo = cat, !.owner = s])
          BY <1>3, <3>2, <4>2 DEF View
        <4> HIDE DEF s
        <4> QED
          BY <4>1, <4>3, Zenon
      <3> QED
        BY <3>1, <3>2, Zenon
    <2> DEFINE new == [k EXCEPT !.photo = cat, !.owner = s]
    <2>2. new \in Call /\ new.op = k.op /\ new.plan = k.plan /\ new.at = k.at /\ k.pc \in Looking
      BY <1>1, <1>3, ZenonT(40) DEF Call, View, Looking
    <2> HIDE DEF new
    <2> QED
      BY <2>1, <2>2, CheckTyped DEF new
  <1>4. CASE ReadRoles(c)
    <2> DEFINE G == UNION {PermsOf(k.photo, r) : r \in RolesAlong(k.photo, k.edges, k.actor, k.owner)}
               new == [k EXCEPT !.rank = RankAlong(k), !.granted = G]
    <2>1. RolesAlong(k.photo, k.edges, k.actor, k.owner) \subseteq Role
      BY <1>1, RowsOf DEF RolesAlong, Counts, Call
    <2>2. G \in SUBSET Perm /\ RankAlong(k) \in Nat
      BY <1>1, <2>1, RowsOf, RankType DEF Call
    <2> HIDE DEF G
    <2>3. new \in Call /\ new.op = k.op /\ new.plan = k.plan /\ new.at = k.at /\ k.pc \in Looking
      BY <1>1, <1>4, <2>2, ZenonT(40) DEF Call, ReadRoles, Looking
    <2>4. \E ok : Check(c, ok, new)
      BY <1>4, Zenon DEF ReadRoles, G
    <2> HIDE DEF new
    <2> QED
      BY <2>3, <2>4, CheckTyped
  <1>5. CASE ReadDenies(c) \/ Shadows(c)
    <2>1. k.pc \in Looking /\ \E ok : Check(c, ok, k)
      BY <1>5 DEF ReadDenies, Shadows, Looking
    <2> QED
      BY <1>1, <2>1, CheckTyped
  <1> QED
    BY <1>2, <1>3, <1>4, <1>5

LEMMA PendingType ==
  ASSUME CallsOK, NEW c \in Client
  PROVE  Pending(c) \subseteq Role
  BY DEF CallsOK, Call, Pending

\* A call that ends, or goes on without writing.
LEMMA GoOnTyped ==
  ASSUME Typed, NEW c \in Client, NEW new \in Call, PathOK(new), Put(c, new),
         Quiet, UNCHANGED left, drift' \subseteq Role
  PROVE  StateOK' /\ CallsOK'
  <1>1. CallsOK'
    BY PutOK DEF Typed
  <1>2. StateOK'
    BY DEF Typed, StateOK, Quiet, around
  <1> QED
    BY <1>1, <1>2

LEMMA SetsOK ==
  ASSUME NEW k \in Call, NEW rs \in SUBSET Role, NEW dirty \in SUBSET Role,
         NEW want \in SUBSET (Role \X Perm), NEW have \in SUBSET (Role \X Perm)
  PROVE  [k EXCEPT !.cover = rs, !.want = want, !.have = have, !.dirty = dirty] \in Call
  BY ZenonT(40) DEF Call

LEMMA ProjectedOK ==
  ASSUME NEW k \in Call, PathOK(k)
  PROVE  Projected(k) \in Call /\ PathOK(Projected(k))
  <1>1. CASE k.op = "sync" /\ k.at < Len(k.plan)
    <2>1. k.plan \in Plans /\ k.at \in 1..Len(k.plan) /\ Len(k.plan) \in Nat
      BY <1>1, RolesAssumption DEF PathOK
    <2>2. k.at + 1 \in 1..Len(k.plan) /\ k.at + 1 \in Nat
      BY <1>1, <2>1
    <2>3. Projected(k) = [k EXCEPT !.pc = "sync", !.at = k.at + 1, !.cover = {}, !.want = {},
                                   !.have = {}, !.dirty = {}]
      BY <1>1 DEF Projected, Call
    <2>4. Projected(k) \in Call
      <3> DEFINE j == [k EXCEPT !.pc = "sync", !.at = k.at + 1]
      <3>1. j \in Call
        BY <2>2, ZenonT(40) DEF Call
      <3>2. Projected(k) = [j EXCEPT !.cover = {}, !.want = {}, !.have = {}, !.dirty = {}]
        BY <2>3 DEF Call
      <3> HIDE DEF j
      <3>3. {} \in SUBSET Role /\ {} \in SUBSET (Role \X Perm)
        OBVIOUS
      <3>4. [j EXCEPT !.cover = {}, !.want = {}, !.have = {}, !.dirty = {}] \in Call
        BY <3>1, <3>3, SetsOK, Zenon
      <3> QED
        BY <3>2, <3>4
    <2>5. /\ Projected(k).op = "sync" /\ Projected(k).pc = "sync"
          /\ Projected(k).plan = k.plan /\ Projected(k).at = k.at + 1
      BY <1>1, <2>3 DEF Call
    <2> QED
      BY <2>1, <2>2, <2>4, <2>5 DEF PathOK
  <1>2. CASE ~(k.op = "sync" /\ k.at < Len(k.plan))
    BY <1>2, NoCallType, NoCallPath DEF Projected
  <1> QED
    BY <1>1, <1>2

LEMMA PurgedOK ==
  ASSUME NEW k \in Call, PathOK(k)
  PROVE  Purged(k) \in Call /\ PathOK(Purged(k))
  <1>1. CASE k.op = "prune"
    <2> DEFINE j == [k EXCEPT !.pc = "turn", !.orphans = k.orphans \ {k.role}, !.dirty = {}]
    <2>1. j \in Call
      BY ZenonT(40) DEF Call, InPrune
    <2>2. [j EXCEPT !.late = FALSE] \in Call
      <3> HIDE DEF j
      <3> QED
        BY <2>1, FlagOK
    <2>3. Purged(k) = [j EXCEPT !.late = FALSE]
      BY <1>1 DEF Purged, Call
    <2>4. Purged(k).op = "prune" /\ Purged(k).pc = "turn"
      BY <1>1, <2>3 DEF Call
    <2> QED
      BY <2>2, <2>3, <2>4 DEF PathOK, InPrune
  <1>2. CASE k.op # "prune"
    BY <1>2, NoCallType, NoCallPath DEF Purged
  <1> QED
    BY <1>1, <1>2

LEMMA PurgeOps ==
  ASSUME NEW k \in Call, PathOK(k), k.pc \in {"collect"} \cup InPurge
  PROVE  k.op \in {"delete", "prune"}
  BY DEF Call, PathOK, Looking, InProject, InPurge, InPrune

LEMMA LooksTyped ==
  ASSUME Typed, NEW c \in Client,
         Refused(c) \/ GiveUp(c) \/ Project(c) \/ Current(c) \/ Collect(c) \/ Residue(c)
  PROVE  StateOK' /\ CallsOK'
  <1> DEFINE k == call[c]
  <1> USE DEF PathOK, InProject, InPurge, InPrune
  <1>1. /\ k \in Call /\ PathOK(k) /\ cat \in Catalog /\ drift \subseteq Role
        /\ held \subseteq Fact /\ permits \subseteq Role \X Perm
    BY DEF Typed, CallsOK, StateOK
  <1>2. NoCall \in Call /\ PathOK(NoCall)
    BY NoCallType, NoCallPath
  <1>3. k.cover \subseteq Role /\ k.dirty \subseteq Role /\ k.role \in Role
    BY <1>1 DEF Call
  <1>4. CASE Refused(c)
    BY <1>1, <1>2, <1>4, GoOnTyped DEF Refused
  <1>5. CASE GiveUp(c)
    <2>1. Pending(c) \subseteq Role
      BY PendingType DEF Typed
    <2> QED
      BY <1>1, <1>2, <1>5, <2>1, GoOnTyped DEF GiveUp
  <1>6. CASE Project(c)
    <2> DEFINE want == {l \in Links(cat) : l[1] \in k.cover}
               new == [k EXCEPT !.pc = "current", !.want = want]
    <2>1. want \in SUBSET (Role \X Perm)
      BY <1>1, RowsOf
    <2> HIDE DEF want
    <2>2. new \in Call
      BY <1>1, <2>1, ZenonT(40) DEF Call
    <2>3. PathOK(new)
      BY <1>1, <1>6 DEF Project, Call
    <2>4. Put(c, new) /\ Quiet /\ UNCHANGED <<drift, left>>
      BY <1>6 DEF Project, want
    <2> HIDE DEF new
    <2> QED
      BY <1>1, <2>2, <2>3, <2>4, GoOnTyped
  <1>7. CASE Current(c)
    <2> DEFINE have == {l \in permits : l[1] \in k.cover}
               new == [k EXCEPT !.pc = "write", !.have = have]
    <2>1. have \in SUBSET (Role \X Perm)
      BY <1>1
    <2>2. CASE have = k.want
      <3>1. Put(c, Projected(k)) /\ Settle(c, k.cover) /\ Quiet /\ UNCHANGED left
        BY <1>7, <2>2 DEF Current
      <3>2. drift' \subseteq Role
        BY <1>1, <1>3, <3>1 DEF Settle
      <3> QED
        BY <1>1, <3>1, <3>2, ProjectedOK, GoOnTyped
    <2>3. CASE have # k.want
      <3>1. Put(c, new) /\ Quiet /\ UNCHANGED <<drift, left>>
        BY <1>7, <2>3 DEF Current
      <3> HIDE DEF have
      <3>2. new \in Call
        BY <1>1, <2>1, ZenonT(40) DEF Call
      <3>3. PathOK(new)
        BY <1>1, <1>7 DEF Current, Call
      <3> HIDE DEF new
      <3> QED
        BY <1>1, <3>1, <3>2, <3>3, GoOnTyped
    <2> QED
      BY <2>2, <2>3
  <1>8. CASE Collect(c)
    <2> DEFINE new == [k EXCEPT !.pc = "erase", !.facts = FactsOf(k.role), !.have = PermitsOf(k.role)]
    <2>1. FactsOf(k.role) \in SUBSET Fact /\ PermitsOf(k.role) \in SUBSET (Role \X Perm)
      BY <1>1 DEF FactsOf, PermitsOf
    <2>2. new \in Call
      BY <1>1, <2>1, ZenonT(40) DEF Call
    <2>3. PathOK(new)
      <3>1. k.op \in {"delete", "prune"}
        BY <1>1, <1>8, PurgeOps DEF Collect
      <3> QED
        BY <1>1, <3>1 DEF Call
    <2>4. Put(c, IF k.role \in Present(cat) THEN new ELSE NoCall) /\ Quiet /\ UNCHANGED <<drift, left>>
      BY <1>8 DEF Collect
    <2> HIDE DEF new
    <2> QED
      BY <1>1, <1>2, <2>2, <2>3, <2>4, GoOnTyped
  <1>9. CASE Residue(c)
    <2> DEFINE new == [k EXCEPT !.pc = "drop", !.dirty = {}]
    <2>1. new \in Call
      BY <1>1, ZenonT(40) DEF Call
    <2>2. PathOK(new)
      <3>1. k.op \in {"delete", "prune"}
        BY <1>1, <1>9, PurgeOps DEF Residue
      <3> QED
        BY <1>1, <3>1 DEF Call
    <2>3. /\ Quiet /\ UNCHANGED left /\ (Put(c, new) \/ Put(c, NoCall))
          /\ drift' \in {drift, drift \cup {k.role}}
      BY <1>9 DEF Residue
    <2>4. drift' \subseteq Role
      BY <1>1, <1>3, <2>3
    <2> HIDE DEF new
    <2> QED
      BY <1>2, <2>1, <2>2, <2>3, <2>4, GoOnTyped
  <1> QED
    BY <1>4, <1>5, <1>6, <1>7, <1>8, <1>9

LEMMA PrunesTyped ==
  ASSUME Typed, NEW c \in Client,
         ListLocals(c) \/ ResolveOwner(c) \/ Decide(c) \/ Turn(c)
  PROVE  StateOK' /\ CallsOK'
  <1> DEFINE k == call[c]
  <1> USE DEF PathOK, Looking, InProject, InPurge, InPrune
  <1>1. /\ k \in Call /\ PathOK(k) /\ cat \in Catalog /\ drift \subseteq Role
    BY DEF Typed, CallsOK, StateOK
  <1>2. NoCall \in Call /\ PathOK(NoCall)
    BY NoCallType, NoCallPath
  <1>3. k.op = "prune"
    BY <1>1, Zenon DEF ListLocals, ResolveOwner, Decide, Turn, Call
  <1>4. CASE ListLocals(c)
    <2> DEFINE new == [k EXCEPT !.pc = "resolve", !.photo = cat, !.todo = Locals(cat)]
    <2>1. new \in Call
      BY <1>1, RowsOf, ZenonT(40) DEF Call
    <2>2. PathOK(new)
      BY <1>1, <1>3 DEF Call
    <2>3. Put(c, new) /\ Quiet /\ UNCHANGED <<drift, left>>
      BY <1>4 DEF ListLocals
    <2> HIDE DEF new
    <2> QED
      BY <1>1, <2>1, <2>2, <2>3, GoOnTyped
  <1>5. CASE ResolveOwner(c)
    <2> DEFINE new(T, O) == [k EXCEPT !.todo = T, !.orphans = O]
    <2>1. ASSUME NEW T \in SUBSET Role, NEW O \in SUBSET Role
          PROVE  new(T, O) \in Call /\ PathOK(new(T, O))
      <3>1. new(T, O) \in Call
        BY <1>1, ZenonT(40) DEF Call
      <3>2. PathOK(new(T, O))
        BY <1>1, <1>3 DEF Call
      <3> QED
        BY <3>1, <3>2
    <2>2. k.todo \subseteq Role /\ k.orphans \subseteq Role
      BY <1>1 DEF Call
    <2>3. \E T \in SUBSET Role, O \in SUBSET Role : Put(c, new(T, O))
      <3>1. PICK r \in k.todo :
              LET same == {q \in k.todo : k.photo.rows[q].owner = k.photo.rows[r].owner}
              IN  Put(c, [k EXCEPT !.todo = @ \ same,
                                   !.orphans = IF Resolves(k.photo.rows[r].owner) THEN @ ELSE @ \cup same])
        BY <1>5, Zenon DEF ResolveOwner
      <3> DEFINE same == {q \in k.todo : k.photo.rows[q].owner = k.photo.rows[r].owner}
                 O == IF Resolves(k.photo.rows[r].owner) THEN k.orphans ELSE k.orphans \cup same
      <3>2. k.todo \ same \in SUBSET Role /\ O \in SUBSET Role
        BY <2>2
      <3>3. Put(c, new(k.todo \ same, O))
        BY <1>1, <3>1, SMTT(30) DEF Call
      <3> QED
        BY <3>2, <3>3, Zenon
    <2>4. Quiet /\ UNCHANGED <<drift, left>>
      BY <1>5, Zenon DEF ResolveOwner
    <2> HIDE DEF new
    <2> QED
      BY <1>1, <2>1, <2>3, <2>4, GoOnTyped
  <1>6. CASE Decide(c)
    <2> DEFINE new == [k EXCEPT !.pc = "turn"]
    <2>1. new \in Call
      BY <1>1 DEF Call
    <2>2. PathOK(new)
      BY <1>1, <1>3 DEF Call
    <2>3. (Put(c, new) \/ Put(c, NoCall)) /\ Quiet /\ UNCHANGED <<drift, left>>
      BY <1>6 DEF Decide
    <2> HIDE DEF new
    <2> QED
      BY <1>1, <1>2, <2>1, <2>2, <2>3, GoOnTyped
  <1>7. CASE Turn(c)
    <2> DEFINE skip(r) == [k EXCEPT !.orphans = @ \ {r}]
               take(r) == [k EXCEPT !.pc = "collect", !.role = r]
    <2>1. ASSUME NEW r \in k.orphans
          PROVE  skip(r) \in Call /\ PathOK(skip(r)) /\ take(r) \in Call /\ PathOK(take(r))
      <3>1. r \in Role /\ k.orphans \ {r} \in SUBSET Role
        BY <1>1 DEF Call
      <3>2. skip(r) \in Call
        BY <1>1, <3>1 DEF Call
      <3>3. take(r) \in Call
        BY <1>1, <3>1, ZenonT(40) DEF Call
      <3>4. PathOK(skip(r)) /\ PathOK(take(r))
        BY <1>1, <1>3 DEF Call
      <3> QED
        BY <3>2, <3>3, <3>4
    <2>2. /\ Put(c, NoCall) \/ \E r \in k.orphans : Put(c, skip(r)) \/ Put(c, take(r))
          /\ Quiet /\ UNCHANGED <<drift, left>>
      BY <1>7, Zenon DEF Turn
    <2> HIDE DEF skip, take
    <2> QED
      BY <1>1, <1>2, <2>1, <2>2, GoOnTyped
  <1> QED
    BY <1>4, <1>5, <1>6, <1>7

LEMMA ProjectOK ==
  ASSUME NEW k \in Call, NEW word \in {"define", "update"}, NEW rs \in SUBSET Role
  PROVE  [k EXCEPT !.op = word, !.pc = "project", !.cover = rs] \in Call
  BY ZenonT(40) DEF Call, InProject

LEMMA ProjectingOK ==
  ASSUME NEW k \in Call, k.op \in {"define", "update"}, NEW rs \in SUBSET Role
  PROVE  Projecting(k, rs) \in Call /\ PathOK(Projecting(k, rs))
  <1>1. Projecting(k, rs) = [NoCall EXCEPT !.op = k.op, !.pc = "project", !.cover = rs]
    BY DEF Projecting
  <1>2. Projecting(k, rs) \in Call
    <2>1. [NoCall EXCEPT !.op = k.op, !.pc = "project", !.cover = rs] \in Call
      BY NoCallType, ProjectOK, Zenon
    <2> QED
      BY <1>1, <2>1
  <1>3. Projecting(k, rs).op = k.op /\ Projecting(k, rs).pc = "project"
    BY <1>1, NoCallType DEF Call
  <1> QED
    BY <1>2, <1>3 DEF PathOK, InProject

LEMMA CommitTyped ==
  ASSUME Typed, NEW c \in Client, NEW new \in Catalog, NEW rs \in SUBSET Role,
         NEW next \in Call, PathOK(next), Commit(c, new, rs, next), spare' \subseteq Role
  PROVE  StateOK' /\ CallsOK'
  <1>1. CallsOK'
    BY CrossingOK, NoCallType, NoCallPath DEF Typed, Commit
  <1>2. StateOK'
    BY DEF Typed, StateOK, Commit, around
  <1> QED
    BY <1>1, <1>2

\* The row that a define writes.
DefinedRow(k) == [name |-> k.ask.name, owner |-> k.owner, rank |-> k.ask.rank, perms |-> k.ask.perms]

\* What a call that is to write has read: a define asks for a whole role, of a scope that is
\* not the app; the role of an update or of a delete was local in its view.
ReadOK(k) ==
    /\ k.op = "define" /\ k.pc \in Looking \cup {"commit"} => k.ask \in Whole /\ k.owner # Root
    /\ k.op \in {"update", "delete"} /\ k.pc \in {"chain", "roles", "denies", "shadows", "commit"} =>
          k.role \in Locals(k.photo) /\ k.owner = k.photo.rows[k.role].owner

\* The row that an update writes.
UpdatedRow(k) ==
    [cat.rows[k.role] EXCEPT
        !.rank  = IF k.ask.rank = None THEN k.photo.rows[k.role].rank ELSE k.ask.rank,
        !.perms = IF k.ask.perms \notin {None, k.photo.rows[k.role].perms} THEN k.ask.perms ELSE @]

WithRow(rows, r, row) == [rows EXCEPT !.rows[r] = row]

LEMMA WithRowType ==
  ASSUME NEW rows \in Catalog, NEW r \in Role, NEW row \in Row \cup {None}
  PROVE  /\ WithRow(rows, r, row) \in Catalog
         /\ WithRow(rows, r, row).rows[r] = row
         /\ \A q \in Role : q # r => WithRow(rows, r, row).rows[q] = rows.rows[q]
         /\ WithRow(rows, r, row).levels = rows.levels
  BY DEF WithRow, Catalog

LEMMA DefinedRowType ==
  ASSUME NEW k \in Call, k.ask \in Whole
  PROVE  DefinedRow(k) \in Row /\ DefinedRow(k).owner \in Scope
  BY DEF DefinedRow, Call, Whole, Row

LEMMA UpdatedRowType ==
  ASSUME NEW k \in Call, cat \in Catalog, k.role \in Present(cat), k.role \in Locals(k.photo)
  PROVE  /\ UpdatedRow(k) \in Row
         /\ UpdatedRow(k).owner = cat.rows[k.role].owner
         /\ UpdatedRow(k).name = cat.rows[k.role].name
         /\ k.ask.perms \in {None, k.photo.rows[k.role].perms} =>
                UpdatedRow(k).perms = cat.rows[k.role].perms
         /\ k.ask.perms \notin {None, k.photo.rows[k.role].perms} =>
                UpdatedRow(k).perms = k.ask.perms
  <1>1. cat.rows[k.role] \in Row
    BY RowsOf
  <1>2. k.photo.rows[k.role] \in Row
    BY RowsOf DEF Call, Locals
  <1>3. k.ask \in AskSet
    BY DEF Call
  <1>4. (IF k.ask.rank = None THEN k.photo.rows[k.role].rank ELSE k.ask.rank) \in Nat
    BY <1>2, <1>3 DEF AskSet, Row
  <1>5. (IF k.ask.perms \notin {None, k.photo.rows[k.role].perms} THEN k.ask.perms
                                                               ELSE cat.rows[k.role].perms) \in SUBSET Perm
    BY <1>1, <1>3 DEF AskSet, Row
  <1> QED
    BY <1>1, <1>4, <1>5 DEF UpdatedRow, Row

LEMMA WritesTyped ==
  ASSUME Typed, NEW c \in Client, ReadOK(call[c]), Writes(c)
  PROVE  StateOK' /\ CallsOK'
  <1> DEFINE k == call[c]
  <1>1. /\ k \in Call /\ PathOK(k) /\ cat \in Catalog /\ drift \subseteq Role /\ spare \subseteq Role
        /\ held \subseteq Fact /\ permits \subseteq Role \X Perm
    BY DEF Typed, CallsOK, StateOK
  <1>2. NoCall \in Call /\ PathOK(NoCall)
    BY NoCallType, NoCallPath
  <1>3. k.cover \subseteq Role /\ k.dirty \subseteq Role /\ k.role \in Role
        /\ k.want \subseteq Role \X Perm /\ k.have \subseteq Role \X Perm
    BY <1>1 DEF Call
  <1>4. CASE Define(c)
    <2>1. PICK r \in spare : /\ spare' = spare \ {r}
                            /\ Commit(c, WithRow(cat, r, DefinedRow(k)), {r}, Projecting(k, {r}))
      BY <1>4 DEF Define, DefinedRow, WithRow
    <2>2. k.op = "define" /\ k.pc = "commit"
      BY <1>4 DEF Define
    <2>3. DefinedRow(k) \in Row /\ r \in Role
      BY <1>1, <2>1, <2>2, DefinedRowType DEF ReadOK
    <2>4. WithRow(cat, r, DefinedRow(k)) \in Catalog
      BY <1>1, <2>3, WithRowType
    <2>5. Projecting(k, {r}) \in Call /\ PathOK(Projecting(k, {r}))
      BY <1>1, <2>2, <2>3, ProjectingOK
    <2> QED
      BY <1>1, <2>1, <2>3, <2>4, <2>5, CommitTyped
  <1>5. CASE Update(c)
    <2> DEFINE changed == k.ask.perms \notin {None, k.photo.rows[k.role].perms}
               rs == IF changed THEN {k.role} ELSE {}
               next == IF changed THEN Projecting(k, {k.role}) ELSE NoCall
    <2>1. /\ k.op = "update" /\ k.pc = "commit" /\ k.role \in Present(cat) /\ UNCHANGED spare
          /\ Commit(c, WithRow(cat, k.role, UpdatedRow(k)), rs, next)
      BY <1>5, ZenonT(40) DEF Update, UpdatedRow, WithRow, Target
    <2>2. k.role \in Locals(k.photo)
      BY <2>1, SMTT(30) DEF ReadOK
    <2>3. WithRow(cat, k.role, UpdatedRow(k)) \in Catalog
      BY <1>1, <1>3, <2>1, <2>2, UpdatedRowType, WithRowType, ZenonT(40)
    <2>4. Projecting(k, {k.role}) \in Call /\ PathOK(Projecting(k, {k.role}))
      BY <1>1, <1>3, <2>1, ProjectingOK
    <2>5. next \in Call /\ PathOK(next) /\ rs \in SUBSET Role
      BY <1>2, <1>3, <2>4
    <2> HIDE DEF next, rs
    <2> QED
      BY <1>1, <2>1, <2>3, <2>5, CommitTyped
  <1>6. CASE Sync(c)
    <2> DEFINE new == Synced(cat, k.plan[k.at], k.prune)
               next == [k EXCEPT !.pc = "current", !.cover = Role, !.want = Links(new)]
    <2>1. k.pc = "sync" /\ Commit(c, new, Differ(cat, new), next) /\ spare' = spare \ Present(new)
      BY <1>6 DEF Sync
    <2>2. k.op = "sync" /\ k.plan \in Plans /\ k.at \in 1..Len(k.plan)
      BY <1>1, <2>1 DEF PathOK, Call, Looking, InProject, InPurge, InPrune
    <2>3. new \in Catalog
      BY <1>1, <2>2, PlanOf, SyncedType DEF Call
    <2> HIDE DEF new
    <2>4. next \in Call
      <3>1. "current" \in InProject /\ Links(new) \in SUBSET (Role \X Perm)
        BY <2>3, RowsOf DEF InProject
      <3> QED
        BY <1>1, <3>1, ZenonT(40) DEF Call
    <2>5. PathOK(next)
      BY <1>1, <2>2 DEF PathOK, Call
    <2>6. Differ(cat, new) \in SUBSET Role /\ spare' \subseteq Role
      BY <1>1, <2>1 DEF Differ
    <2> HIDE DEF next
    <2> QED
      BY <2>1, <2>3, <2>4, <2>5, <2>6, CommitTyped
  <1>7. CASE Write(c)
    <2> DEFINE writes == k.want \ k.have
               deletes == k.have \ k.want
               touched == {l[1] : l \in writes \cup deletes}
    <2>1. /\ permits' = (permits \ deletes) \cup writes
          /\ \/ call' = Crossing(c, Projected(k), touched, {"write", "drop"}) /\ Settle(c, k.cover)
             \/ call' = Crossing(c, NoCall, touched, {"write", "drop"}) /\ drift' = drift \cup k.cover
          /\ UNCHANGED <<cat, spare, left>> /\ UNCHANGED around
      BY <1>7 DEF Write
    <2>2. touched \in SUBSET Role
      BY <1>3
    <2>3. permits' \subseteq Role \X Perm /\ drift' \subseteq Role
      BY <1>1, <1>3, <2>1 DEF Settle
    <2> HIDE DEF touched
    <2>4. CallsOK'
      BY <1>1, <1>2, <2>1, <2>2, ProjectedOK, CrossingOK DEF Typed
    <2>5. StateOK'
      BY <2>1, <2>3 DEF Typed, StateOK, around
    <2> QED
      BY <2>4, <2>5
  <1>8. CASE Erase(c)
    <2> DEFINE new == [k EXCEPT !.pc = "residue", !.facts = {}, !.have = {}]
    <2>1. /\ k.pc = "erase" /\ held' = held \ k.facts /\ permits' = permits \ k.have
          /\ call' = Crossing(c, new, {k.role}, {"write"})
          /\ UNCHANGED <<cat, spare, tree, known, blind, asked, denied, drift, left>>
      BY <1>8 DEF Erase
    <2>2. new \in Call
      <3>1. "residue" \in InPurge /\ {} \in SUBSET Fact /\ {} \in SUBSET (Role \X Perm)
        BY DEF InPurge
      <3> QED
        BY <1>1, <3>1, ZenonT(40) DEF Call
    <2>3. PathOK(new)
      <3>1. k.op \in {"delete", "prune"}
        BY <1>1, <2>1, PurgeOps DEF InPurge
      <3> QED
        BY <1>1, <3>1 DEF PathOK, InPurge, Call
    <2> HIDE DEF new
    <2>4. CallsOK'
      BY <1>3, <2>1, <2>2, <2>3, CrossingOK DEF Typed
    <2>5. StateOK'
      BY <2>1 DEF Typed, StateOK
    <2> QED
      BY <2>4, <2>5
  <1>9. CASE Drop(c)
    <2>1. k.pc = "drop" /\ UNCHANGED <<spare, permits, left>> /\ UNCHANGED around
      BY <1>9 DEF Drop
    <2>2. CASE k.role \in Present(cat)
      <3>1. /\ cat' = WithRow(cat, k.role, None)
            /\ call' = Crossing(c, Purged(k), {k.role}, {"current", "write"} \cup InPurge)
            /\ Settle(c, {k.role})
        BY <1>9, <2>2 DEF Drop, WithRow
      <3>2. cat' \in Catalog /\ drift' \subseteq Role
        BY <1>1, <1>3, <3>1, WithRowType DEF Settle
      <3>3. CallsOK'
        BY <1>1, <1>3, <3>1, PurgedOK, CrossingOK DEF Typed
      <3> QED
        BY <2>1, <3>2, <3>3 DEF Typed, StateOK, around
    <2>3. CASE k.role \notin Present(cat)
      <3>1. Put(c, NoCall) /\ UNCHANGED <<cat, drift>>
        BY <1>9, <2>3 DEF Drop
      <3>2. CallsOK'
        BY <1>2, <3>1, PutOK DEF Typed
      <3> QED
        BY <2>1, <3>1, <3>2 DEF Typed, StateOK, around
    <2> QED
      BY <2>2, <2>3
  <1> QED
    BY <1>4, <1>5, <1>6, <1>7, <1>8, <1>9 DEF Writes

LEMMA QuietTyped ==
  ASSUME Typed, NEW c \in Client, Quietly(c)
  PROVE  StateOK' /\ CallsOK'
  BY StartsTyped, ChecksTyped, LooksTyped, PrunesTyped DEF Quietly

\* What is remembered of a call.
LEMMA SeenTyped ==
  ASSUME Typed, StateOK', CallsOK', Remember
  PROVE  seen' \in [Client -> Seen]
  <1>1. \A c \in Client : Remembered(c) \in Seen
    <2> TAKE c \in Client
    <2>1. Now(call[c])' \in Seen
      <3>1. call'[c] \in Call
        BY DEF CallsOK
      <3>2. HeldAlong(tree, call[c].actor, call[c].owner)' \in SUBSET (Scope \X Role)
        BY UpType DEF HeldAlong
      <3>3. Granting(cat, tree, call[c].owner)' \in SUBSET (Scope \X Role \X Perm)
        BY UpType, RowsOf DEF Granting, StateOK
      <3>4. DeniedAlong(tree, call[c].actor, call[c].owner)' \in SUBSET Perm
        BY DEF DeniedAlong
      <3>5. (Looks(call[c]) /\ ~blind)' \in BOOLEAN
        OBVIOUS
      <3> QED
        BY <3>2, <3>3, <3>4, <3>5 DEF Now, Seen
    <2>2. seen[c] \in Seen
      BY DEF Typed
    <2> QED
      BY <2>1, <2>2 DEF Remembered, Seen
  <1> QED
    BY <1>1 DEF Remember

-----------------------------------------------------------------------------
(* Whose row is whose: no uuid names two roles, ever.                      *)

RowsApart ==
    /\ spare \cap (Present(cat) \cup Reserved) = {}
    /\ \A r \in Locals(cat) : r \notin Reserved /\ cat.rows[r].owner # Root

\* The roles that a call saw local are still those roles, if they are there.
Steady(k) ==
    \A r \in Locals(k.photo) :
        /\ r \notin spare \cup Reserved
        /\ k.photo.rows[r].owner # Root
        /\ r \in Present(cat) => cat.rows[r].owner = k.photo.rows[r].owner

Apart == RowsApart /\ \A c \in Client : Steady(call[c]) /\ ReadOK(call[c])

LEMMA NoneNotRow ==
  None \notin Row
  BY RolesAssumption

\* What a write does to each row.
LEMMA RowMoves ==
  ASSUME Typed, Apart, NEW c \in Client, Writes(c)
  PROVE  /\ spare' \subseteq spare /\ spare' \cap Present(cat)' = {}
         /\ \A r \in Role :
               \/ cat'.rows[r] = cat.rows[r]
               \/ cat'.rows[r] = None
               \/ /\ r \in spare \ spare'
                  /\ cat'.rows[r] \in Row /\ cat'.rows[r].owner \in Scope \ {Root}
               \/ /\ r \in Present(cat)
                  /\ cat'.rows[r] \in Row /\ cat'.rows[r].owner = cat.rows[r].owner
               \/ /\ r \in Globals(cat) \cup Reserved
                  /\ cat'.rows[r] \in Row /\ cat'.rows[r].owner = Global
  <1> DEFINE k == call[c]
  <1>1. /\ k \in Call /\ PathOK(k) /\ cat \in Catalog /\ spare \subseteq Role /\ ReadOK(k)
        /\ spare \cap Present(cat) = {}
    BY DEF Typed, CallsOK, StateOK, Apart, RowsApart
  <1>2. CASE Define(c)
    <2>1. PICK r \in spare : spare' = spare \ {r} /\ cat' = WithRow(cat, r, DefinedRow(k))
      BY <1>2 DEF Define, DefinedRow, WithRow, Commit
    <2>2. k.op = "define" /\ k.pc = "commit"
      BY <1>2 DEF Define
    <2>3. DefinedRow(k) \in Row /\ DefinedRow(k).owner \in Scope \ {Root} /\ r \in Role
      BY <1>1, <2>1, <2>2, DefinedRowType DEF ReadOK, DefinedRow
    <2>4. cat'.rows[r] = DefinedRow(k) /\ \A q \in Role : q # r => cat'.rows[q] = cat.rows[q]
      BY <1>1, <2>1, <2>3, WithRowType
    <2>5. spare' \cap Present(cat)' = {}
      BY <1>1, <2>1, <2>4 DEF Present
    <2> QED
      BY <2>1, <2>3, <2>4, <2>5
  <1>3. CASE Update(c)
    <2>1. /\ k.op = "update" /\ k.pc = "commit" /\ k.role \in Present(cat) /\ UNCHANGED spare
          /\ cat' = WithRow(cat, k.role, UpdatedRow(k))
      BY <1>3, Zenon DEF Update, UpdatedRow, WithRow, Target, Commit
    <2>2. k.role \in Locals(k.photo) /\ k.role \in Role
      BY <1>1, <2>1 DEF ReadOK, Call
    <2>3. UpdatedRow(k) \in Row /\ UpdatedRow(k).owner = cat.rows[k.role].owner
      BY <1>1, <2>1, <2>2, UpdatedRowType
    <2>4. cat'.rows[k.role] = UpdatedRow(k) /\ \A q \in Role : q # k.role => cat'.rows[q] = cat.rows[q]
      BY <1>1, <2>1, <2>2, <2>3, WithRowType
    <2>5. Present(cat)' = Present(cat)
      BY <2>1, <2>3, <2>4, NoneNotRow DEF Present
    <2> QED
      BY <1>1, <2>1, <2>3, <2>4, <2>5, SMTT(30)
  <1>4. CASE Sync(c)
    <2> DEFINE new == Synced(cat, k.plan[k.at], k.prune)
    <2>1. k.pc = "sync" /\ cat' = new /\ spare' = spare \ Present(new)
      BY <1>4 DEF Sync, Commit
    <2>2. k.plan \in Plans /\ k.at \in 1..Len(k.plan)
      BY <1>1, <2>1 DEF PathOK, Call, Looking, InProject, InPurge, InPrune
    <2>3. \A r \in Role : \/ new.rows[r] = cat.rows[r]
                           \/ /\ r \in Globals(cat) \cup Reserved
                              /\ new.rows[r] \in Row /\ new.rows[r].owner = Global
      <3> DEFINE config == k.plan[k.at]
      <3>1. IsConfig(config) /\ \A n \in DOMAIN config.roles : config.roles[n].uuid \in Reserved
        BY <2>2, PlanOf
      <3>2. k.prune \in BOOLEAN
        BY <1>1 DEF Call
      <3> HIDE DEF config
      <3>3. \A r \in Role :
               \/ Synced(cat, config, k.prune).rows[r] = cat.rows[r]
               \/ /\ r \in Globals(cat) \/ \E n \in DOMAIN config.roles : r = config.roles[n].uuid
                  /\ Synced(cat, config, k.prune).rows[r] \in Row
                  /\ Synced(cat, config, k.prune).rows[r].owner = Global
        BY <1>1, <3>1, <3>2, SyncedType
      <3> QED
        BY <3>1, <3>3 DEF config
    <2> QED
      BY <2>1, <2>3
  <1>5. CASE Write(c) \/ Erase(c)
    BY <1>1, <1>5 DEF Write, Erase
  <1>6. CASE Drop(c)
    <2>1. cat' = cat \/ cat' = WithRow(cat, k.role, None)
      BY <1>6 DEF Drop, WithRow
    <2>2. \A q \in Role : cat'.rows[q] \in {cat.rows[q], None}
      BY <1>1, <2>1, WithRowType DEF Call
    <2>3. spare' = spare
      BY <1>6 DEF Drop
    <2> QED
      BY <1>1, <2>2, <2>3 DEF Present
  <1> QED
    BY <1>2, <1>3, <1>4, <1>5, <1>6 DEF Writes

\* Another call moves only what a call has marked as crossed.
LEMMA OthersMove ==
  ASSUME Typed, NEW c \in Client, Quietly(c) \/ Writes(c)
  PROVE  \A d \in Client : d # c =>
            /\ call'[d] = [call[d] EXCEPT !.dirty = call'[d].dirty]
            /\ call[d].dirty \subseteq call'[d].dirty
  <1> TAKE d \in Client
  <1> HAVE d # c
  <1>1. call[d] \in Call
    BY DEF Typed, CallsOK
  <1>2. CASE Quietly(c)
    BY <1>1, <1>2, QuietFrame DEF Typed, Call
  <1>3. CASE Writes(c)
    <2>1. call'[d] = call[d] \/ \E rs : call'[d] = [call[d] EXCEPT !.dirty = @ \cup rs]
      <3>1. CASE \E new, rs, pcs : call' = Crossing(c, new, rs, pcs)
        BY <3>1 DEF Crossing
      <3>2. CASE \E new : Put(c, new)
        BY <3>2 DEF Put, Typed, CallsOK
      <3>3. ASSUME NEW new, NEW rs, NEW next, Commit(c, new, rs, next)
            PROVE  \E j, qs, pcs : call' = Crossing(c, j, qs, pcs)
        BY <3>3 DEF Commit
      <3>4. CASE Define(c) \/ Update(c) \/ Sync(c)
        BY <3>1, <3>3, <3>4 DEF Define, Update, Sync
      <3>5. CASE Write(c) \/ Erase(c)
        BY <3>1, <3>5 DEF Write, Erase
      <3>6. CASE Drop(c)
        BY <3>1, <3>2, <3>6 DEF Drop
      <3> QED
        BY <1>3, <3>4, <3>5, <3>6 DEF Writes
    <2>2. CASE call'[d] = call[d]
      BY <1>1, <2>2 DEF Call
    <2>3. CASE \E rs : call'[d] = [call[d] EXCEPT !.dirty = @ \cup rs]
      BY <1>1, <2>3 DEF Call
    <2> QED
      BY <2>1, <2>2, <2>3
  <1> QED
    BY <1>2, <1>3

\* What is marked of a call changes nothing of what it has read.
Like(k, j) == j = [k EXCEPT !.dirty = j.dirty, !.late = j.late, !.moved = j.moved]

LEMMA AroundLike ==
  ASSUME Typed, Around, NEW c \in Client
  PROVE  Like(call[c], call'[c]) /\ call'[c].dirty = call[c].dirty
  <1>1. call[c] \in Call
    BY DEF Typed, CallsOK
  <1>2. \/ call'[c] = [call[c] EXCEPT !.late = call'[c].late]
        \/ call'[c] = [call[c] EXCEPT !.moved = call'[c].moved]
    BY AroundFrame DEF Typed
  <1> QED
    BY <1>1, <1>2 DEF Like, Call

LEMMA OthersLike ==
  ASSUME Typed, NEW c \in Client, Quietly(c) \/ Writes(c), NEW d \in Client, d # c
  PROVE  /\ Like(call[d], call'[d]) /\ call[d].dirty \subseteq call'[d].dirty
         /\ call'[d].late = call[d].late /\ call'[d].moved = call[d].moved
  <1>1. call[d] \in Call
    BY DEF Typed, CallsOK
  <1>2. call'[d] = [call[d] EXCEPT !.dirty = call'[d].dirty] /\ call[d].dirty \subseteq call'[d].dirty
    BY OthersMove
  <1> QED
    BY <1>1, <1>2 DEF Like, Call

LEMMA LikeFields ==
  ASSUME NEW k \in Call, NEW j, Like(k, j)
  PROVE  /\ j.op = k.op /\ j.pc = k.pc /\ j.actor = k.actor /\ j.owner = k.owner
         /\ j.role = k.role /\ j.ask = k.ask /\ j.photo = k.photo /\ j.edges = k.edges
         /\ j.granted = k.granted /\ j.rank = k.rank /\ j.cover = k.cover /\ j.want = k.want
         /\ j.have = k.have /\ j.todo = k.todo /\ j.orphans = k.orphans
  BY ZenonT(40) DEF Like, Call

\* The ends of a call.
LEMMA IdleFields ==
  /\ NoCall.op = "none" /\ NoCall.pc = "idle" /\ NoCall.photo = NoCatalog /\ NoCall.owner = Root
  /\ NoCall.late = FALSE /\ NoCall.orphans = {}
  /\ Locals(NoCatalog) = {} /\ ReadOK(NoCall)
  BY DEF NoCall, NoCatalog, Locals, Present, ReadOK, Looking

\* A check that passes keeps what the call is about, and moves along its path.
LEMMA CheckMoves ==
  ASSUME Typed, NEW c \in Client, NEW ok, NEW new \in Call, Check(c, ok, new)
  PROVE  \/ call'[c] = NoCall
         \/ ok /\ call'[c] = [new EXCEPT !.pc = After[call[c].op][call[c].pc]]
  BY DEF Typed, CallsOK, Check, Put

LEMMA PutMoves ==
  ASSUME Typed, NEW c \in Client, NEW new, Put(c, new)
  PROVE  call'[c] = new
  BY DEF Typed, CallsOK, Put

LEMMA CrossingMoves ==
  ASSUME NEW c \in Client, NEW new, NEW rs, NEW pcs, call' = Crossing(c, new, rs, pcs)
  PROVE  call'[c] = new
  BY DEF Crossing

LEMMA StartMoves ==
  ASSUME Typed, NEW c \in Client,
         StartDefine(c) \/ StartUpdate(c) \/ StartDelete(c) \/ StartSync(c) \/ StartPrune(c)
  PROVE  /\ call[c].pc = "idle"
         /\ call'[c].photo = NoCatalog /\ ReadOK(call'[c])
         /\ call'[c].late = FALSE /\ call'[c].orphans = {} /\ call'[c].owner \in Scope
         /\ <<call'[c].op, call'[c].pc>> \in {<<"define", "chain">>, <<"update", "view">>,
                <<"delete", "view">>, <<"sync", "sync">>, <<"prune", "list">>}
  <1> USE NoCallType DEF Begin, Idle
  <1>1. CASE StartDefine(c)
    <2>1. PICK d \in Defines :
             /\ Idle(c)
             /\ Put(c, [NoCall EXCEPT !.op = "define", !.pc = "chain", !.actor = d[1],
                                      !.owner = d[2], !.ask = d[3]])
      BY <1>1, Zenon DEF StartDefine
    <2>2. d[2] \in Scope \ {Root} /\ d[3] \in Whole
      BY RolesAssumption
    <2>3. call'[c] = [NoCall EXCEPT !.op = "define", !.pc = "chain", !.actor = d[1],
                                    !.owner = d[2], !.ask = d[3]]
      BY <2>1, PutMoves
    <2> QED
      BY <2>1, <2>2, <2>3, IdleFields DEF Call, ReadOK
  <1>2. CASE StartUpdate(c) \/ StartDelete(c) \/ StartSync(c) \/ StartPrune(c)
    <2>1. /\ Idle(c)
          /\ call'[c].photo = NoCall.photo /\ call'[c].late = NoCall.late
          /\ call'[c].orphans = NoCall.orphans /\ call'[c].owner = NoCall.owner
          /\ <<call'[c].op, call'[c].pc>> \in {<<"update", "view">>,
                <<"delete", "view">>, <<"sync", "sync">>, <<"prune", "list">>}
      <3>1. CASE StartUpdate(c)
        <4>1. PICK d \in Updates : Idle(c) /\ Put(c, [NoCall EXCEPT !.op = "update", !.pc = "view", !.actor = d[1],
                                              !.role = d[2], !.ask = d[3]])
          BY <3>1, Zenon DEF StartUpdate
        <4>2. call'[c] = [NoCall EXCEPT !.op = "update", !.pc = "view", !.actor = d[1],
                                              !.role = d[2], !.ask = d[3]]
          BY <4>1, PutMoves
        <4> QED
          BY <4>1, <4>2 DEF Call
      <3>2. CASE StartDelete(c)
        <4>1. PICK d \in Deletes : Idle(c) /\ Put(c, [NoCall EXCEPT !.op = "delete", !.pc = "view", !.actor = d[1],
                                              !.role = d[2]])
          BY <3>2, Zenon DEF StartDelete
        <4>2. call'[c] = [NoCall EXCEPT !.op = "delete", !.pc = "view", !.actor = d[1],
                                              !.role = d[2]]
          BY <4>1, PutMoves
        <4> QED
          BY <4>1, <4>2 DEF Call
      <3>3. CASE StartSync(c)
        <4>1. PICK list \in Plans, flag \in Prunes : Idle(c) /\ Put(c, [NoCall EXCEPT !.op = "sync", !.pc = "sync", !.plan = list,
                                              !.at = 1, !.prune = flag])
          BY <3>3, Zenon DEF StartSync
        <4>2. call'[c] = [NoCall EXCEPT !.op = "sync", !.pc = "sync", !.plan = list,
                                              !.at = 1, !.prune = flag]
          BY <4>1, PutMoves
        <4> QED
          BY <4>1, <4>2 DEF Call
      <3>4. CASE StartPrune(c)
        <4>1. Idle(c) /\ call'[c] = [NoCall EXCEPT !.op = "prune", !.pc = "list"]
          BY <3>4, PutMoves DEF StartPrune
        <4> QED
          BY <4>1 DEF Call
      <3> QED
        BY <1>2, <3>1, <3>2, <3>3, <3>4
    <2>2. ReadOK(call'[c])
      BY <2>1 DEF ReadOK, Looking
    <2> QED
      BY <2>1, <2>2, IdleFields, RolesAssumption
  <1> QED
    BY <1>1, <1>2

LEMMA ReadOKElse ==
  ASSUME NEW k, k.pc \notin Looking \cup {"commit"} \/ k.op \notin {"define", "update", "delete"}
  PROVE  ReadOK(k)
  BY DEF ReadOK, Looking

LEMMA CheckReads ==
  ASSUME Typed, NEW c \in Client, NEW ok, NEW new \in Call, Check(c, ok, new), ReadOK(call[c]),
         call[c].pc \in Looking \ {"view"},
         new.op = call[c].op, new.ask = call[c].ask, new.owner = call[c].owner,
         new.role = call[c].role, new.photo = call[c].photo
  PROVE  ReadOK(call'[c]) /\ call'[c].photo \in {call[c].photo, NoCatalog}
  <1> DEFINE next == [new EXCEPT !.pc = After[call[c].op][call[c].pc]]
  <1>1. CASE call'[c] = NoCall
    BY <1>1, IdleFields
  <1>2. CASE call'[c] = next
    <2>1. /\ next.op = call[c].op /\ next.ask = call[c].ask /\ next.owner = call[c].owner
          /\ next.role = call[c].role /\ next.photo = call[c].photo
      BY DEF Call
    <2>2. ReadOK(next)
      <3> HIDE DEF next
      <3> QED
        BY <2>1 DEF ReadOK, Looking
    <2> QED
      BY <1>2, <2>1, <2>2
  <1> QED
    BY <1>1, <1>2, CheckMoves

LEMMA OwnReads ==
  ASSUME Typed, NEW c \in Client, ReadOK(call[c]), Quietly(c) \/ Writes(c)
  PROVE  /\ ReadOK(call'[c])
         /\ call'[c].photo \in {call[c].photo, NoCatalog, cat}
         /\ Writes(c) => call'[c].photo \in {call[c].photo, NoCatalog}
         /\ \/ call[c].pc \in Looking \cup {"idle"}
            \/ call'[c].pc \notin Looking \cup {"commit"}
            \/ call'[c].op \notin {"define", "update"}
  <1> DEFINE k == call[c]
             Over == \/ k.pc \in Looking \cup {"idle"}
                     \/ call'[c].pc \notin Looking \cup {"commit"}
                     \/ call'[c].op \notin {"define", "update"}
             Goal == /\ ReadOK(call'[c])
                     /\ call'[c].photo \in {k.photo, NoCatalog}
                     /\ Over
  <1>1. k \in Call /\ PathOK(k) /\ cat \in Catalog /\ tree \subseteq Edge
    BY DEF Typed, CallsOK, StateOK
  <1>2. ASSUME call'[c] = NoCall
        PROVE  Goal
    BY <1>2, IdleFields DEF Looking
  <1>3. ASSUME StartDefine(c) \/ StartUpdate(c) \/ StartDelete(c) \/ StartSync(c) \/ StartPrune(c)
        PROVE  Goal
    BY <1>3, StartMoves
  <1>4. ASSUME ReadChain(c)
        PROVE  Goal
    <2> DEFINE new == [k EXCEPT !.edges = tree]
    <2>1. /\ new \in Call /\ new.op = k.op /\ new.ask = k.ask /\ new.owner = k.owner
          /\ new.role = k.role /\ new.photo = k.photo
      BY <1>1 DEF Call
    <2>2. k.pc \in Looking \ {"view"} /\ Check(c, Resolves(k.owner), new)
      BY <1>4 DEF ReadChain, Looking
    <2> HIDE DEF new
    <2> QED
      BY <2>1, <2>2, CheckReads
  <1>5. ASSUME ReadRoles(c)
        PROVE  Goal
    <2> DEFINE G == UNION {PermsOf(k.photo, r) : r \in RolesAlong(k.photo, k.edges, k.actor, k.owner)}
               new == [k EXCEPT !.rank = RankAlong(k), !.granted = G]
    <2>1. k.pc \in Looking \ {"view"} /\ \E ok : Check(c, ok, new)
      BY <1>5, Zenon DEF ReadRoles, Looking
    <2>2. RolesAlong(k.photo, k.edges, k.actor, k.owner) \subseteq Role
      BY <1>1, RowsOf DEF RolesAlong, Counts, Call
    <2>3. G \in SUBSET Perm /\ RankAlong(k) \in Nat
      BY <1>1, <2>2, RowsOf, RankType DEF Call
    <2> HIDE DEF G
    <2>4. /\ new \in Call /\ new.op = k.op /\ new.ask = k.ask /\ new.owner = k.owner
          /\ new.role = k.role /\ new.photo = k.photo
      BY <1>1, <2>3, ZenonT(40) DEF Call
    <2> HIDE DEF new
    <2> QED
      BY <2>1, <2>4, CheckReads
  <1>6. ASSUME ReadDenies(c) \/ Shadows(c)
        PROVE  Goal
    <2>1. k.pc \in Looking \ {"view"} /\ \E ok : Check(c, ok, k)
      BY <1>6 DEF ReadDenies, Shadows, Looking
    <2> QED
      BY <1>1, <2>1, CheckReads
  <1>7. ASSUME View(c)
        PROVE  ReadOK(call'[c]) /\ call'[c].photo \in {NoCatalog, cat} /\ Over
    <2> Over
      BY <1>7 DEF View, Looking
    <2>1. CASE call'[c] = NoCall
      BY <2>1, IdleFields
    <2>2. CASE call'[c] # NoCall /\ k.op = "define"
      <3> DEFINE new == [k EXCEPT !.photo = cat]
      <3>1. new \in Call /\ Check(c, Composable(k.ask), new)
        BY <1>1, <1>7, <2>2 DEF Call, View
      <3>2. call'[c] = [new EXCEPT !.pc = After[k.op][k.pc]]
        BY <2>2, <3>1, CheckMoves
      <3>3. /\ call'[c].op = "define" /\ call'[c].photo = cat
            /\ call'[c].ask = k.ask /\ call'[c].owner = k.owner
        BY <1>1, <2>2, <3>2 DEF Call
      <3>4. k.pc \in Looking
        BY <1>7 DEF View, Looking
      <3> QED
        BY <2>2, <3>3, <3>4 DEF ReadOK
    <2>3. CASE call'[c] # NoCall /\ k.op # "define"
      <3> DEFINE s == IF k.role \in Locals(cat) THEN cat.rows[k.role].owner ELSE k.owner
                 new == [k EXCEPT !.photo = cat, !.owner = s]
      <3>1. Check(c, k.role \in Locals(cat) /\ Composable(k.ask), new)
        BY <1>1, <1>7, <2>3 DEF View, Call
      <3>2. s \in Scope
        BY <1>1, RowsOf DEF Call
      <3>3. new \in Call
        <4> HIDE DEF s
        <4> QED
          BY <1>1, <3>2, ZenonT(40) DEF Call
      <3>4. k.role \in Locals(cat) /\ call'[c] = [new EXCEPT !.pc = After[k.op][k.pc]]
        BY <2>3, <3>1, <3>3, CheckMoves
      <3>5. /\ call'[c].op = k.op /\ call'[c].photo = cat
            /\ call'[c].role = k.role /\ call'[c].owner = cat.rows[k.role].owner
        BY <1>1, <2>3, <3>4 DEF Call
      <3> QED
        BY <2>3, <3>4, <3>5 DEF ReadOK
    <2> QED
      BY <2>1, <2>2, <2>3
  <1>8. ASSUME call'[c].photo = k.photo, call'[c].pc \notin Looking \cup {"commit"}
        PROVE  Goal
    BY <1>8, ReadOKElse
  <1>9. ASSUME Refused(c) \/ GiveUp(c)
        PROVE  Goal
    BY <1>2, <1>9, PutMoves DEF Refused, GiveUp
  <1>10. ASSUME Project(c)
         PROVE  Goal
    <2>1. call'[c] = [k EXCEPT !.pc = "current", !.want = {l \in Links(cat) : l[1] \in k.cover}]
      BY <1>10, PutMoves DEF Project
    <2>2. call'[c].photo = k.photo /\ call'[c].pc = "current"
      BY <1>1, <2>1 DEF Call
    <2> QED
      BY <1>8, <2>2 DEF Looking
  <1>11. ASSUME call'[c] = Projected(k)
         PROVE  Goal
    <2>1. CASE Projected(k) = NoCall
      BY <1>2, <1>11, <2>1
    <2>2. CASE Projected(k) # NoCall
      <3>1. Projected(k) = [k EXCEPT !.pc = "sync", !.at = @ + 1, !.cover = {}, !.want = {},
                                     !.have = {}, !.dirty = {}]
        BY <2>2 DEF Projected
      <3>2. Projected(k).pc = "sync" /\ Projected(k).photo = k.photo
        BY <1>1, <3>1 DEF Call
      <3> QED
        BY <1>8, <1>11, <3>2 DEF Looking
    <2> QED
      BY <2>1, <2>2
  <1>12. ASSUME Current(c)
         PROVE  Goal
    <2>1. \/ Put(c, Projected(k))
          \/ Put(c, [k EXCEPT !.pc = "write", !.have = {l \in permits : l[1] \in k.cover}])
      BY <1>12 DEF Current
    <2>2. CASE call'[c] = [k EXCEPT !.pc = "write", !.have = {l \in permits : l[1] \in k.cover}]
      <3>1. call'[c].photo = k.photo /\ call'[c].pc = "write"
        BY <1>1, <2>2 DEF Call
      <3> QED
        BY <1>8, <3>1 DEF Looking
    <2> QED
      BY <1>11, <2>1, <2>2, PutMoves
  <1>13. ASSUME Collect(c)
         PROVE  Goal
    <2> DEFINE new == [k EXCEPT !.pc = "erase", !.facts = FactsOf(k.role), !.have = PermitsOf(k.role)]
    <2>1. Put(c, new) \/ Put(c, NoCall)
      BY <1>13 DEF Collect
    <2>2. new.photo = k.photo /\ new.pc = "erase"
      BY <1>1 DEF Call
    <2> HIDE DEF new
    <2> QED
      BY <1>2, <1>8, <2>1, <2>2, PutMoves DEF Looking
  <1>14. ASSUME Residue(c)
         PROVE  Goal
    <2> DEFINE new == [k EXCEPT !.pc = "drop", !.dirty = {}]
    <2>1. Put(c, new) \/ Put(c, NoCall)
      BY <1>14 DEF Residue
    <2>2. new.photo = k.photo /\ new.pc = "drop"
      BY <1>1 DEF Call
    <2> HIDE DEF new
    <2> QED
      BY <1>2, <1>8, <2>1, <2>2, PutMoves DEF Looking
  <1>15. ASSUME ListLocals(c)
         PROVE  ReadOK(call'[c]) /\ call'[c].photo = cat /\ Over
    <2>1. call'[c] = [k EXCEPT !.pc = "resolve", !.photo = cat, !.todo = Locals(cat)]
      BY <1>15, PutMoves DEF ListLocals
    <2>2. call'[c].photo = cat /\ call'[c].pc = "resolve"
      BY <1>1, <2>1 DEF Call
    <2> QED
      BY <2>2, ReadOKElse DEF Looking
  <1>16. ASSUME ResolveOwner(c) \/ Decide(c) \/ Turn(c)
         PROVE  Goal
    <2>1. k.op = "prune" /\ ~(k.pc \in Looking \cup {"commit"})
      BY <1>1, <1>16, Zenon DEF ResolveOwner, Decide, Turn, PathOK, Call, Looking, InProject, InPurge, InPrune
    <2>2. ASSUME NEW new, Put(c, new), new.op = k.op, new.photo = k.photo
          PROVE  Goal
      BY <2>1, <2>2, ReadOKElse, PutMoves
    <2>3. CASE ResolveOwner(c)
      <3>1. PICK r \in k.todo :
              LET same == {q \in k.todo : k.photo.rows[q].owner = k.photo.rows[r].owner}
              IN  Put(c, [k EXCEPT !.todo = @ \ same,
                                   !.orphans = IF Resolves(k.photo.rows[r].owner) THEN @ ELSE @ \cup same])
        BY <2>3, Zenon DEF ResolveOwner
      <3> QED
        BY <1>1, <2>2, <3>1, Zenon DEF Call
    <2>4. CASE Decide(c)
      <3>1. Put(c, NoCall) \/ Put(c, [k EXCEPT !.pc = "turn"])
        BY <2>4 DEF Decide
      <3>2. [k EXCEPT !.pc = "turn"].op = k.op /\ [k EXCEPT !.pc = "turn"].photo = k.photo
        BY <1>1 DEF Call
      <3> QED
        BY <1>2, <2>2, <3>1, <3>2, PutMoves
    <2>5. CASE Turn(c)
      <3>1. \/ Put(c, NoCall)
            \/ \E r \in k.orphans : \/ Put(c, [k EXCEPT !.orphans = @ \ {r}])
                                    \/ Put(c, [k EXCEPT !.pc = "collect", !.role = r])
        BY <2>5, Zenon DEF Turn
      <3>2. \A r : /\ [k EXCEPT !.orphans = @ \ {r}].op = k.op
                   /\ [k EXCEPT !.orphans = @ \ {r}].photo = k.photo
                   /\ [k EXCEPT !.pc = "collect", !.role = r].op = k.op
                   /\ [k EXCEPT !.pc = "collect", !.role = r].photo = k.photo
        BY <1>1 DEF Call
      <3> QED
        BY <1>2, <2>2, <3>1, <3>2, PutMoves, ZenonT(40)
    <2> QED
      BY <1>16, <2>3, <2>4, <2>5, SMTT(30)
  <1>17. ASSUME NEW rs, call'[c] = Projecting(k, rs)
         PROVE  Goal
    <2>1. call'[c].photo = NoCall.photo /\ call'[c].pc = "project"
      BY <1>17, NoCallType DEF Projecting, Call
    <2> QED
      BY <2>1, IdleFields, ReadOKElse DEF Looking
  <1>18. ASSUME NEW new, NEW rs, NEW next, Commit(c, new, rs, next)
         PROVE  call'[c] \in {next, NoCall}
    BY <1>18, CrossingMoves DEF Commit
  <1>19. ASSUME Define(c) \/ Update(c)
         PROVE  Goal
    <2>1. \/ call'[c] = NoCall
          \/ \E rs : call'[c] = Projecting(k, rs)
      <3>1. CASE Define(c)
        <4>1. \E new, r : Commit(c, new, {r}, Projecting(k, {r}))
          BY <3>1 DEF Define
        <4> QED
          BY <4>1, <1>18
      <3>2. CASE Update(c)
        <4>1. \E new, rs : \/ Commit(c, new, rs, Projecting(k, {k.role}))
                           \/ Commit(c, new, rs, NoCall)
          BY <3>2 DEF Update
        <4> QED
          BY <4>1, <1>18
      <3> QED
        BY <1>19, <3>1, <3>2
    <2> QED
      BY <1>2, <1>17, <2>1
  <1>20. ASSUME Sync(c)
         PROVE  Goal
    <2> DEFINE new == Synced(cat, k.plan[k.at], k.prune)
               next == [k EXCEPT !.pc = "current", !.cover = Role, !.want = Links(new)]
    <2>1. Commit(c, new, Differ(cat, new), next)
      BY <1>20 DEF Sync
    <2> HIDE DEF new
    <2>2. next.photo = k.photo /\ next.pc = "current"
      BY <1>1 DEF Call
    <2> HIDE DEF next
    <2>3. call'[c] \in {next, NoCall}
      BY <1>18, <2>1
    <2> QED
      BY <1>2, <1>8, <2>2, <2>3 DEF Looking
  <1>21. ASSUME Write(c)
         PROVE  Goal
    <2>1. \E rs, pcs : call' = Crossing(c, Projected(k), rs, pcs) \/ call' = Crossing(c, NoCall, rs, pcs)
      BY <1>21 DEF Write
    <2> QED
      BY <1>2, <1>11, <2>1, CrossingMoves
  <1>22. ASSUME Erase(c)
         PROVE  Goal
    <2> DEFINE new == [k EXCEPT !.pc = "residue", !.facts = {}, !.have = {}]
    <2>1. call' = Crossing(c, new, {k.role}, {"write"})
      BY <1>22 DEF Erase
    <2>2. new.photo = k.photo /\ new.pc = "residue"
      BY <1>1 DEF Call
    <2> HIDE DEF new
    <2> QED
      BY <1>8, <2>1, <2>2, CrossingMoves DEF Looking
  <1>23. ASSUME Drop(c)
         PROVE  Goal
    <2>1. call'[c] \in {Purged(k), NoCall}
      BY <1>23, CrossingMoves, PutMoves DEF Drop
    <2>2. CASE call'[c] = Purged(k) /\ Purged(k) # NoCall
      <3>1. Purged(k) = [k EXCEPT !.pc = "turn", !.orphans = @ \ {k.role}, !.dirty = {}, !.late = FALSE]
        BY <2>2 DEF Purged
      <3>2. Purged(k).photo = k.photo /\ Purged(k).pc = "turn"
        BY <1>1, <3>1 DEF Call
      <3> QED
        BY <1>8, <2>2, <3>2 DEF Looking
    <2> QED
      BY <1>2, <2>1, <2>2
  <1>24. ASSUME Goal
         PROVE  ReadOK(call'[c]) /\ call'[c].photo \in {k.photo, NoCatalog, cat} /\ Over
    BY <1>24
  <1>25. ASSUME View(c) \/ ListLocals(c)
         PROVE  ReadOK(call'[c]) /\ call'[c].photo \in {k.photo, NoCatalog, cat} /\ Over
    BY <1>7, <1>15, <1>25
  <1>26. Writes(c) => Goal
    <2> HIDE DEF Goal
    <2> QED
      BY <1>19, <1>20, <1>21, <1>22, <1>23 DEF Writes
  <1>27. Quietly(c) => ReadOK(call'[c]) /\ call'[c].photo \in {k.photo, NoCatalog, cat} /\ Over
    <2> HIDE DEF Goal
    <2> QED
      BY <1>3, <1>4, <1>5, <1>6, <1>9, <1>10, <1>12, <1>13, <1>14, <1>16, <1>24, <1>25 DEF Quietly
  <1> QED
    BY <1>24, <1>26, <1>27

\* A photo stays steady while the rows move as writes move them.
LEMMA SteadyMoves ==
  ASSUME Typed, Apart, NEW c \in Client, Writes(c), NEW k \in Call, NEW j, Steady(k), j.photo = k.photo
  PROVE  Steady(j)'
  <1> SUFFICES ASSUME NEW r \in Locals(k.photo)
               PROVE  /\ r \notin spare' \cup Reserved
                      /\ k.photo.rows[r].owner # Root
                      /\ r \in Present(cat)' => cat'.rows[r].owner = k.photo.rows[r].owner
    BY DEF Steady
  <1>1. /\ r \notin spare \cup Reserved /\ k.photo.rows[r].owner # Root /\ r \in Role
        /\ r \in Present(cat) => cat.rows[r].owner = k.photo.rows[r].owner
        /\ k.photo.rows[r].owner \in Scope
    BY RowsOf DEF Steady, Call
  <1>2. r \notin Globals(cat)
    BY <1>1, RolesAssumption DEF Globals, Present
  <1> QED
    BY <1>1, <1>2, RowMoves DEF Present

LEMMA ApartStep ==
  ASSUME Typed, Apart, Step
  PROVE  Apart'
  <1>1. \A c \in Client : call[c] \in Call
    BY DEF Typed, CallsOK
  <1>2. CASE Around
    <2>1. UNCHANGED <<cat, spare>>
      BY <1>2, AroundFrame DEF Typed
    <2>2. ASSUME NEW c \in Client
          PROVE  Steady(call[c])' /\ ReadOK(call[c])'
      <3>1. /\ call'[c].op = call[c].op /\ call'[c].pc = call[c].pc /\ call'[c].ask = call[c].ask
            /\ call'[c].owner = call[c].owner /\ call'[c].role = call[c].role
            /\ call'[c].photo = call[c].photo
        BY <1>1, <1>2, AroundLike, LikeFields
      <3> QED
        BY <2>1, <3>1 DEF Apart, Steady, ReadOK
    <2> QED
      BY <2>1, <2>2 DEF Apart, RowsApart, Present, Locals, Globals
  <1>3. ASSUME NEW c \in Client, Quietly(c) \/ Writes(c)
        PROVE  Apart'
    <2>1. ASSUME NEW d \in Client
          PROVE  ReadOK(call'[d])
      <3>1. CASE d = c
        BY <1>3, <3>1, OwnReads DEF Apart
      <3>2. CASE d # c
        <4>1. /\ call'[d].op = call[d].op /\ call'[d].pc = call[d].pc /\ call'[d].ask = call[d].ask
              /\ call'[d].owner = call[d].owner /\ call'[d].role = call[d].role
              /\ call'[d].photo = call[d].photo
          BY <1>1, <1>3, <3>2, OthersLike, LikeFields
        <4> QED
          BY <4>1 DEF Apart, ReadOK
      <3> QED
        BY <3>1, <3>2
    <2>2. ASSUME NEW d \in Client, d # c
          PROVE  call'[d].photo = call[d].photo
      BY <1>1, <1>3, <2>2, OthersLike, LikeFields
    <2>3. CASE Quietly(c)
      <3>1. UNCHANGED <<cat, spare>>
        BY <2>3, QuietFrame DEF Typed
      <3>2. RowsApart'
        BY <3>1 DEF Apart, RowsApart, Present, Locals, Globals
      <3>3. ASSUME NEW d \in Client
            PROVE  Steady(call[d])'
        <4>1. call'[d].photo \in {call[d].photo, NoCatalog, cat}
          BY <1>3, <2>2, OwnReads DEF Apart
        <4>2. CASE call'[d].photo = call[d].photo
          BY <3>1, <4>2 DEF Apart, Steady
        <4>3. CASE call'[d].photo = NoCatalog
          BY <4>3, IdleFields DEF Steady
        <4>4. CASE call'[d].photo = cat
          <5>1. \A r \in Locals(cat) : r \in Present(cat)
            BY DEF Locals
          <5> QED
            BY <3>1, <4>4, <5>1 DEF Apart, RowsApart, Steady
        <4> QED
          BY <4>1, <4>2, <4>3, <4>4
      <3> QED
        BY <2>1, <3>2, <3>3 DEF Apart
    <2>4. CASE Writes(c)
      <3>1. RowsApart'
        <4>1. spare' \cap (Present(cat)' \cup Reserved) = {}
          BY <2>4, RowMoves DEF Apart, RowsApart
        <4>2. ASSUME NEW r \in Locals(cat)'
              PROVE  r \notin Reserved /\ cat'.rows[r].owner # Root
          <5>1. r \in Role /\ cat'.rows[r] # None /\ cat'.rows[r].owner # Global
            BY DEF Locals, Globals, Present
          <5>2. r \in spare => r \notin Reserved
            BY DEF Apart, RowsApart
          <5>3. r \in Present(cat) /\ cat.rows[r].owner # Global
                   => r \notin Reserved /\ cat.rows[r].owner # Root
            BY DEF Apart, RowsApart, Locals, Globals
          <5>4. cat'.rows[r] = cat.rows[r] => r \in Present(cat)
            BY <5>1 DEF Present
          <5>5. \/ cat'.rows[r] = cat.rows[r]
                \/ r \in spare /\ cat'.rows[r].owner # Root
                \/ r \in Present(cat) /\ cat'.rows[r].owner = cat.rows[r].owner
                \/ cat'.rows[r].owner = Global
            BY <2>4, <5>1, RowMoves
          <5> QED
            BY <5>1, <5>2, <5>3, <5>4, <5>5
        <4> QED
          BY <4>1, <4>2 DEF RowsApart
      <3>2. ASSUME NEW d \in Client
            PROVE  Steady(call[d])'
        <4>1. CASE call'[d].photo = call[d].photo
          BY <1>1, <2>4, <4>1, SteadyMoves DEF Apart
        <4>2. CASE call'[d].photo = NoCatalog
          BY <4>2, IdleFields DEF Steady
        <4>3. call'[d].photo \in {call[d].photo, NoCatalog}
          BY <1>3, <2>2, <2>4, OwnReads DEF Apart
        <4> QED
          BY <4>1, <4>2, <4>3
      <3> QED
        BY <2>1, <3>1, <3>2 DEF Apart
    <2> QED
      BY <1>3, <2>3, <2>4
  <1> QED
    BY <1>2, <1>3, StepCases

Base == Typed /\ Apart

LEMMA InitBase ==
  Init => Base
  <1> SUFFICES ASSUME Init
               PROVE  Base
    OBVIOUS
  <1>1. RowsApart
    BY RolesAssumption DEF Init, RowsApart
  <1>2. \A c \in Client : Steady(call[c]) /\ ReadOK(call[c])
    BY IdleFields DEF Init, Steady
  <1> QED
    BY <1>1, <1>2, InitTyped DEF Base, Apart

LEMMA BaseStep ==
  Base /\ [Next]_vars => Base'
  <1> SUFFICES ASSUME Base, [Next]_vars
               PROVE  Base'
    OBVIOUS
  <1>1. CASE Next
    <2>1. StateOK' /\ CallsOK'
      <3>1. CASE Around
        BY <3>1, AroundTyped DEF Base
      <3>2. ASSUME NEW c \in Client, Quietly(c) \/ Writes(c)
            PROVE  StateOK' /\ CallsOK'
        BY <3>2, QuietTyped, WritesTyped DEF Base, Apart
      <3> QED
        BY <1>1, <3>1, <3>2, StepCases DEF Next
    <2>2. seen' \in [Client -> Seen]
      BY <1>1, <2>1, SeenTyped DEF Base, Next
    <2>3. Apart'
      BY <1>1, ApartStep DEF Base, Next
    <2> QED
      BY <2>1, <2>2, <2>3 DEF Base, Typed
  <1>2. CASE UNCHANGED vars
    BY <1>2 DEF vars, Base, Typed, StateOK, CallsOK, Apart, RowsApart, Steady, ReadOK, PathOK,
                Present, Locals, Globals
  <1> QED
    BY <1>1, <1>2

LEMMA TypedTypeOK ==
  Typed => TypeOK
  BY DEF Typed, StateOK, CallsOK, TypeOK

LEMMA BaseHolds ==
  Spec => []Base
  BY InitBase, BaseStep, PTL DEF Spec

-----------------------------------------------------------------------------
(* Names.                                                                  *)

LEMMA TypesTell ==
  Typed => HomonymsTold
  <1> SUFFICES ASSUME Typed, NEW r \in Locals(cat), NEW q \in Homonyms(cat, r),
                      Resolves(cat.rows[r].owner),
                      q \in Globals(cat) \/ cat.rows[q].owner \in Up(tree, cat.rows[r].owner)
               PROVE  LET chainOf == [s \in Scope |-> ChainOf(s)]
                      IN  r \in ShadowedByGlobal(cat) \cup ShadowedByAncestor(cat, chainOf)
                                   \cup UNION Ambiguous(cat, chainOf)
    BY DEF HomonymsTold
  <1> DEFINE chainOf == [s \in Scope |-> ChainOf(s)]
             owner == cat.rows[r].owner
  <1>1. owner \in Scope /\ q \in Present(cat)
    BY RowsOf DEF Typed, StateOK, Homonyms, Named
  <1>2. CASE q \in Globals(cat)
    BY <1>2 DEF ShadowedByGlobal
  <1>3. CASE q \notin Globals(cat)
    <2>1. q \in Locals(cat)
      BY <1>1, <1>3 DEF Locals
    <2>2. chainOf[owner] = Up(tree, owner) /\ chainOf[owner] # None
      <3>1. Up(tree, owner) \in SUBSET Scope
        BY UpType
      <3>2. chainOf[owner] = Up(tree, owner)
        BY <1>1 DEF ChainOf
      <3> QED
        BY <3>1, <3>2, RolesAssumption
    <2> HIDE DEF chainOf
    <2>3. q \in Above(cat, chainOf, r)
      BY <1>3, <2>1, <2>2 DEF Above
    <2>4. {r, q} \in Ambiguous(cat, chainOf) => r \in UNION Ambiguous(cat, chainOf)
      OBVIOUS
    <2>5. {r, q} \notin Ambiguous(cat, chainOf) => r \in ShadowedByAncestor(cat, chainOf)
      BY <2>3, SMTT(30) DEF ShadowedByAncestor
    <2>6. r \in ShadowedByAncestor(cat, chainOf) \cup UNION Ambiguous(cat, chainOf)
      BY <2>4, <2>5
    <2> QED
      BY <2>6 DEF chainOf
  <1> QED
    BY <1>2, <1>3

-----------------------------------------------------------------------------
(* What a step makes of the call that takes it.                            *)

\* What a call does before it writes.
LEMMA LookingMoves ==
  ASSUME NEW c \in Client, Quietly(c) \/ Writes(c), call[c].pc \in Looking \cup {"idle"}
  PROVE  \/ StartDefine(c) \/ StartUpdate(c) \/ StartDelete(c) \/ StartSync(c) \/ StartPrune(c)
         \/ ReadChain(c) \/ View(c) \/ ReadRoles(c) \/ ReadDenies(c) \/ Shadows(c)
         \/ GiveUp(c)
  <1>1. ~(Refused(c) \/ Project(c) \/ Current(c) \/ Collect(c) \/ Residue(c))
    BY DEF Refused, Project, Current, Collect, Residue, Looking
  <1>2. ~(ListLocals(c) \/ ResolveOwner(c) \/ Decide(c) \/ Turn(c))
    BY ZenonT(40) DEF ListLocals, ResolveOwner, Decide, Turn, Looking
  <1>3. ~Writes(c)
    BY DEF Writes, Define, Update, Sync, Write, Erase, Drop, Looking
  <1> QED
    BY <1>1, <1>2, <1>3 DEF Quietly

\* A check keeps what the call is.
LEMMA ChecksNew ==
  ASSUME Typed, NEW c \in Client,
         ReadChain(c) \/ View(c) \/ ReadRoles(c) \/ ReadDenies(c) \/ Shadows(c)
  PROVE  \E ok, new : /\ Check(c, ok, new) /\ new.op = call[c].op /\ new.moved = call[c].moved
                      /\ DOMAIN new = DOMAIN call[c] /\ "pc" \in DOMAIN new
  <1> DEFINE k == call[c]
  <1>1. k \in Call /\ "pc" \in DOMAIN k
    BY DEF Typed, CallsOK, Call
  <1>2. \E ok, new : Check(c, ok, new) /\ new.op = k.op /\ new.moved = k.moved /\ DOMAIN new = DOMAIN k
    <2>1. CASE ReadChain(c)
      BY <1>1, <2>1 DEF ReadChain, Call
    <2>2. CASE View(c)
      <3> DEFINE one == [k EXCEPT !.photo = cat]
                 two(s) == [k EXCEPT !.photo = cat, !.owner = s]
      <3>1. \/ \E ok : Check(c, ok, one)
            \/ \E ok, s : Check(c, ok, two(s))
        BY <2>2, Zenon DEF View
      <3>2. /\ one.op = k.op /\ one.moved = k.moved /\ DOMAIN one = DOMAIN k
            /\ \A s : two(s).op = k.op /\ two(s).moved = k.moved /\ DOMAIN two(s) = DOMAIN k
        BY <1>1 DEF Call
      <3> HIDE DEF one, two
      <3> QED
        BY <3>1, <3>2
    <2>3. CASE ReadRoles(c)
      <3> DEFINE new(m, g) == [k EXCEPT !.rank = m, !.granted = g]
      <3>1. PICK ok, m, g : Check(c, ok, new(m, g))
        BY <2>3, Zenon DEF ReadRoles
      <3>2. new(m, g).op = k.op /\ new(m, g).moved = k.moved /\ DOMAIN new(m, g) = DOMAIN k
        BY <1>1 DEF Call
      <3> HIDE DEF new
      <3> QED
        BY <3>1, <3>2
    <2>4. CASE ReadDenies(c) \/ Shadows(c)
      BY <2>4 DEF ReadDenies, Shadows
    <2> QED
      BY <2>1, <2>2, <2>3, <2>4
  <1> QED
    BY <1>1, <1>2

LEMMA ChecksOp ==
  ASSUME Typed, NEW c \in Client, call'[c] # NoCall,
         ReadChain(c) \/ View(c) \/ ReadRoles(c) \/ ReadDenies(c) \/ Shadows(c)
  PROVE  call'[c].op = call[c].op /\ call'[c].moved = call[c].moved
  <1> DEFINE k == call[c]
  <1>1. k \in Call
    BY DEF Typed, CallsOK
  <1>2. PICK ok, new : /\ Check(c, ok, new) /\ new.op = k.op /\ new.moved = k.moved
                       /\ DOMAIN new = DOMAIN k
    BY ChecksNew
  <1>3. call'[c] = [new EXCEPT !.pc = After[k.op][k.pc]]
    BY <1>2 DEF Typed, CallsOK, Check, Put
  <1> QED
    BY <1>2, <1>3

\* What each step of a call makes of it.
Starts(c) == StartDefine(c) \/ StartUpdate(c) \/ StartDelete(c) \/ StartSync(c) \/ StartPrune(c)
Checks(c) == ReadChain(c) \/ View(c) \/ ReadRoles(c) \/ ReadDenies(c) \/ Shadows(c)

Became(c, new) == call'[c] = new

Goes(c) ==
    LET k == call[c]
    IN  \/ Became(c, NoCall)
        \/ Starts(c)
        \/ Checks(c) /\ call'[c].op = k.op /\ call'[c].pc \in Looking \cup {"commit", "collect"}
        \/ (Define(c) \/ Update(c)) /\ \E rs \in SUBSET Role : Became(c, Projecting(k, rs))
        \/ Sync(c) /\ Became(c, [k EXCEPT !.pc = "current", !.cover = Role,
                                          !.want = Links(Synced(cat, k.plan[k.at], k.prune))])
        \/ Project(c) /\ Became(c, [k EXCEPT !.pc = "current",
                                             !.want = {l \in Links(cat) : l[1] \in k.cover}])
        \/ Current(c) /\ Became(c, [k EXCEPT !.pc = "write", !.have = {l \in permits : l[1] \in k.cover}])
        \/ (Current(c) \/ Write(c)) /\ Became(c, Projected(k))
        \/ Collect(c) /\ Became(c, [k EXCEPT !.pc = "erase", !.facts = FactsOf(k.role),
                                             !.have = PermitsOf(k.role)])
        \/ Erase(c) /\ Became(c, [k EXCEPT !.pc = "residue", !.facts = {}, !.have = {}])
        \/ Residue(c) /\ Became(c, [k EXCEPT !.pc = "drop", !.dirty = {}])
                      /\ FactsOf(k.role) = {} /\ PermitsOf(k.role) = {}
        \/ Drop(c) /\ Became(c, Purged(k))
        \/ ListLocals(c) /\ Became(c, [k EXCEPT !.pc = "resolve", !.photo = cat, !.todo = Locals(cat)])
        \/ ResolveOwner(c) /\ \E todo, orphans : Became(c, [k EXCEPT !.todo = todo, !.orphans = orphans])
        \/ Decide(c) /\ Became(c, [k EXCEPT !.pc = "turn"])
        \/ Turn(c) /\ \E r \in k.orphans : \/ Became(c, [k EXCEPT !.orphans = @ \ {r}])
                                           \/ Became(c, [k EXCEPT !.pc = "collect", !.role = r])

LEMMA OwnGoes ==
  ASSUME Typed, StateOK', CallsOK', NEW c \in Client, Quietly(c) \/ Writes(c)
  PROVE  Goes(c)
  <1> DEFINE k == call[c]
  <1>1. k \in Call /\ PathOK(k)
    BY DEF Typed, CallsOK
  <1>2. CASE Starts(c)
    BY <1>2 DEF Goes
  <1>3. CASE Checks(c)
    <2>1. CASE call'[c] = NoCall
      BY <2>1 DEF Goes, Became
    <2>2. CASE call'[c] # NoCall
      <3>1. call'[c].op = k.op
        BY <1>3, <2>2, ChecksOp DEF Checks
      <3>2. call'[c].pc \in Looking \cup {"commit", "collect"}
        <4>1. k.pc \in Looking
          BY <1>3, Zenon DEF Checks, ReadChain, View, ReadRoles, ReadDenies, Shadows, Looking
        <4>2. PICK ok, new : Check(c, ok, new) /\ "pc" \in DOMAIN new
          BY <1>3, ChecksNew DEF Checks
        <4>3. call'[c] = [new EXCEPT !.pc = After[k.op][k.pc]]
          BY <2>2, <4>2 DEF Typed, CallsOK, Check, Put
        <4>4. call'[c].pc = After[k.op][k.pc]
          BY <4>2, <4>3
        <4>5. <<k.op, k.pc>> \in ({"define", "update"} \X Looking) \cup ({"delete"} \X {"view", "chain", "roles"})
          BY <1>1, <4>1 DEF PathOK, Call, Looking, InProject, InPurge, InPrune
        <4> QED
          BY <4>4, <4>5, AfterOf, SMTT(30) DEF Looking
      <3> QED
        BY <1>3, <3>1, <3>2, Zenon DEF Goes
    <2> QED
      BY <2>1, <2>2
  <1>4. CASE Refused(c) \/ GiveUp(c)
    BY <1>4, PutMoves, Zenon DEF Refused, GiveUp, Goes, Became
  <1>5. ASSUME NEW new, NEW rs, NEW next, Commit(c, new, rs, next)
        PROVE  call'[c] \in {next, NoCall}
    BY <1>5, CrossingMoves DEF Commit
  <1>6. CASE Define(c)
    <2>1. \E new, r : r \in Role /\ Commit(c, new, {r}, Projecting(k, {r}))
      BY <1>6 DEF Define, Typed, StateOK
    <2>2. \E r \in Role : call'[c] \in {Projecting(k, {r}), NoCall}
      BY <1>5, <2>1
    <2> QED
      BY <1>6, <2>2, Zenon DEF Goes, Became
  <1>7. CASE Update(c)
    <2>1. \E new, rs : \/ Commit(c, new, rs, Projecting(k, {k.role}))
                       \/ Commit(c, new, rs, NoCall)
      BY <1>7 DEF Update
    <2>2. call'[c] \in {Projecting(k, {k.role}), NoCall} /\ {k.role} \in SUBSET Role
      BY <1>1, <1>5, <2>1 DEF Call
    <2> QED
      BY <1>7, <2>2, Zenon DEF Goes, Became
  <1>8. CASE Sync(c)
    <2> DEFINE new == Synced(cat, k.plan[k.at], k.prune)
               next == [k EXCEPT !.pc = "current", !.cover = Role, !.want = Links(new)]
    <2>1. Commit(c, new, Differ(cat, new), next)
      BY <1>8 DEF Sync
    <2> HIDE DEF next
    <2>2. call'[c] \in {next, NoCall}
      BY <1>5, <2>1
    <2> QED
      BY <1>8, <2>2, Zenon DEF Goes, Became, next
  <1>9. CASE Project(c)
    BY <1>9, PutMoves, Zenon DEF Project, Goes, Became
  <1>10. CASE Current(c)
    <2>1. \/ Put(c, Projected(k))
          \/ Put(c, [k EXCEPT !.pc = "write", !.have = {l \in permits : l[1] \in k.cover}])
      BY <1>10 DEF Current
    <2> QED
      BY <1>10, <2>1, PutMoves, Zenon DEF Goes, Became
  <1>11. CASE Write(c)
    <2>1. \E rs, pcs : call' = Crossing(c, Projected(k), rs, pcs) \/ call' = Crossing(c, NoCall, rs, pcs)
      BY <1>11 DEF Write
    <2> QED
      BY <1>11, <2>1, CrossingMoves, Zenon DEF Goes, Became
  <1>12. CASE Collect(c)
    BY <1>12, PutMoves, Zenon DEF Collect, Goes, Became
  <1>13. CASE Erase(c)
    BY <1>13, CrossingMoves, Zenon DEF Erase, Goes, Became
  <1>14. CASE Residue(c)
    BY <1>14, PutMoves, Zenon DEF Residue, Goes, Became
  <1>15. CASE Drop(c)
    <2>1. \/ Put(c, NoCall)
          \/ \E rs, pcs : call' = Crossing(c, Purged(k), rs, pcs)
      BY <1>15 DEF Drop
    <2>2. call'[c] \in {Purged(k), NoCall}
      BY <2>1, CrossingMoves, PutMoves
    <2> QED
      BY <1>15, <2>2, Zenon DEF Goes, Became
  <1>16. CASE ListLocals(c)
    BY <1>16, PutMoves, Zenon DEF ListLocals, Goes, Became
  <1>17. CASE ResolveOwner(c)
    <2>1. \E r \in k.todo :
             LET same == {q \in k.todo : k.photo.rows[q].owner = k.photo.rows[r].owner}
             IN  Put(c, [k EXCEPT !.todo = @ \ same,
                                  !.orphans = IF Resolves(k.photo.rows[r].owner) THEN @ ELSE @ \cup same])
      BY <1>17, Zenon DEF ResolveOwner
    <2> DEFINE new(todo, orphans) == [k EXCEPT !.todo = todo, !.orphans = orphans]
    <2>2. \E todo, orphans : Put(c, new(todo, orphans))
      BY <2>1, Zenon
    <2> HIDE DEF new
    <2>3. \E todo, orphans : call'[c] = new(todo, orphans)
      BY <2>2, PutMoves
    <2> QED
      BY <1>17, <2>3, ZenonT(40) DEF Goes, Became, new
  <1>18. CASE Decide(c)
    BY <1>18, PutMoves, Zenon DEF Decide, Goes, Became
  <1>19. CASE Turn(c)
    <2> DEFINE one(r) == [k EXCEPT !.orphans = @ \ {r}]
               two(r) == [k EXCEPT !.pc = "collect", !.role = r]
    <2>1. Put(c, NoCall) \/ \E r \in k.orphans : Put(c, one(r)) \/ Put(c, two(r))
      BY <1>19, Zenon DEF Turn
    <2> HIDE DEF one, two
    <2>2. call'[c] = NoCall \/ \E r \in k.orphans : call'[c] = one(r) \/ call'[c] = two(r)
      BY <2>1, PutMoves
    <2> QED
      BY <1>19, <2>2, ZenonT(40) DEF Goes, Became, one, two
  <1> QED
    BY <1>2, <1>3, <1>4, <1>6, <1>7, <1>8, <1>9, <1>10, <1>11, <1>12, <1>13, <1>14, <1>15,
       <1>16, <1>17, <1>18, <1>19 DEF Quietly, Writes, Starts, Checks

-----------------------------------------------------------------------------
(* What a delegation has read, and what it writes.                         *)

\* What each call is past of.
PastChain(k)  == IF k.op = "define" THEN k.pc \in {"view", "roles", "denies", "shadows", "commit"}
                 ELSE k.pc \in {"roles", "shadows", "denies", "commit"}
PastView(k)   == IF k.op = "define" THEN k.pc \in {"roles", "denies", "shadows", "commit"}
                 ELSE k.pc \in {"chain", "roles", "shadows", "denies", "commit"}
PastRoles(k)  == k.pc \in {"denies", "shadows", "commit"}
PastDenies(k) == k.pc = "commit" \/ (k.op = "define" /\ k.pc = "shadows")

\* A role of the same name, by a tree that answers for the scopes live: it is not visible in
\* the owner, and outranked where the owner is above its own.
Clear(k, edges, live, h) ==
    LET row == k.photo.rows[h]
    IN  /\ ~VisibleIn(row, Up(edges, k.owner))
        /\ row.owner \in live /\ k.owner \in Up(edges, row.owner) => k.rank > row.rank

\* What a call has read of a tree that has not changed since holds still, or is remembered.
InformedBy(k, edges, live, had) ==
    /\ PastChain(k) => k.edges = edges
    /\ PastView(k) =>
          /\ k.owner # Root
          /\ Granting(k.photo, edges, k.owner) \subseteq had.links
          /\ k.ask.perms # None => k.ask.perms \subseteq Delegable
    /\ PastRoles(k) =>
          \A p \in k.granted : \E x \in had.roles : <<x[1], x[2], p>> \in had.links
    /\ PastDenies(k) /\ k.ask.perms # None =>
          k.ask.perms \subseteq k.granted /\ k.ask.perms \cap had.denied = {}
    /\ k.op = "define" /\ k.pc = "commit" =>
          \A h \in Named(k.photo, k.ask.name) : Clear(k, edges, live, h)

Live == {s \in Scope : Resolves(s)}

Informed(c) == InformedBy(call[c], tree, Live, seen[c])

AllInformed ==
    \A c \in Client : call[c].op \in {"define", "update"} /\ ~call[c].moved => Informed(c)

\* The history has at least what holds now, and what it had.
LEMMA SeenNow ==
  ASSUME Typed, StateOK', CallsOK', Remember, NEW c \in Client
  PROVE  /\ Now(call[c])'.roles \subseteq seen'[c].roles
         /\ Now(call[c])'.links \subseteq seen'[c].links
         /\ seen'[c].denied \subseteq Now(call[c])'.denied
  <1> DEFINE now == Now(call[c])'
  <1>1. now = [roles |-> now.roles, links |-> now.links, denied |-> now.denied,
               sighted |-> now.sighted, gone |-> now.gone, crossed |-> now.crossed]
    BY DEF Now
  <1>2. seen'[c] = Remembered(c)
    BY DEF Remember
  <1> HIDE DEF now
  <1> QED
    BY <1>1, <1>2 DEF Remembered, now

LEMMA SeenGrows ==
  ASSUME Typed, Remember, NEW c \in Client,
         Delegates(call[c]), Delegates(call'[c]), call'[c].owner = call[c].owner
  PROVE  /\ seen[c].roles \subseteq seen'[c].roles
         /\ seen[c].links \subseteq seen'[c].links
         /\ seen'[c].denied \subseteq seen[c].denied
  <1> DEFINE now == Now(call[c])'
  <1>1. now = [roles |-> now.roles, links |-> now.links, denied |-> now.denied,
               sighted |-> now.sighted, gone |-> now.gone, crossed |-> now.crossed]
    BY DEF Now
  <1>2. ~Looks(call[c]) /\ ~Purges(call[c]) /\ call[c].op # "sync"
    BY DEF Delegates, Looks, Purges
  <1>3. Delegates(call[c])'
    BY SMTT(30) DEF Delegates
  <1>4. seen'[c] = [now EXCEPT !.roles = @ \cup seen[c].roles, !.links = @ \cup seen[c].links,
                               !.denied = @ \cap seen[c].denied]
    BY <1>2, <1>3, Zenon DEF Remember, Remembered
  <1> HIDE DEF now
  <1> QED
    BY <1>1, <1>4

LEMMA PastDelegates ==
  ASSUME NEW k, k.op \in {"define", "update"},
         PastChain(k) \/ PastView(k) \/ PastRoles(k) \/ PastDenies(k)
  PROVE  Delegates(k)
  BY DEF PastChain, PastView, PastRoles, PastDenies, Delegates, InProject

\* What is marked of a call, and what is added to its history, leaves it so.
LEMMA InformedLike ==
  ASSUME NEW k \in Call, NEW j, Like(k, j), NEW edges, NEW live, NEW had, NEW has,
         InformedBy(k, edges, live, had),
         PastChain(k) \/ PastView(k) \/ PastRoles(k) \/ PastDenies(k) =>
            had.roles \subseteq has.roles /\ had.links \subseteq has.links /\ has.denied \subseteq had.denied
  PROVE  InformedBy(j, edges, live, has)
  <1>1. /\ j.op = k.op /\ j.pc = k.pc /\ j.actor = k.actor /\ j.owner = k.owner
        /\ j.role = k.role /\ j.ask = k.ask /\ j.photo = k.photo /\ j.edges = k.edges
        /\ j.granted = k.granted /\ j.rank = k.rank
    BY LikeFields
  <1>2. /\ PastChain(j) <=> PastChain(k)
        /\ PastView(j) <=> PastView(k)
        /\ PastRoles(j) <=> PastRoles(k)
        /\ PastDenies(j) <=> PastDenies(k)
    BY <1>1 DEF PastChain, PastView, PastRoles, PastDenies
  <1>3. \A h : Clear(j, edges, live, h) <=> Clear(k, edges, live, h)
    BY <1>1 DEF Clear
  <1> QED
    BY <1>1, <1>2, <1>3 DEF InformedBy

\* What others do leaves it so, as long as the tree does not change.
LEMMA InformedStands ==
  ASSUME Typed, Remember, NEW c \in Client, Like(call[c], call'[c]), UNCHANGED <<tree, known, blind>>,
         call[c].op \in {"define", "update"}, Informed(c)
  PROVE  Informed(c)'
  <1> DEFINE k == call[c]
             j == call'[c]
  <1>1. /\ j.op = k.op /\ j.pc = k.pc /\ j.owner = k.owner
    BY LikeFields DEF Typed, CallsOK
  <1>2. PastChain(k) \/ PastView(k) \/ PastRoles(k) \/ PastDenies(k) =>
           /\ seen[c].roles \subseteq seen'[c].roles
           /\ seen[c].links \subseteq seen'[c].links
           /\ seen'[c].denied \subseteq seen[c].denied
    <2>1. PastChain(k) \/ PastView(k) \/ PastRoles(k) \/ PastDenies(k) => Delegates(k)
      BY PastDelegates
    <2>2. Delegates(k) => Delegates(j)
      BY <1>1 DEF Delegates
    <2> QED
      BY <1>1, <2>1, <2>2, SeenGrows
  <1>3. Live' = Live
    BY DEF Live, Resolves
  <1>4. InformedBy(k, tree, Live, seen[c]) /\ k \in Call
    BY DEF Informed, Typed, CallsOK
  <1>5. InformedBy(j, tree, Live, seen'[c])
    BY <1>2, <1>4, InformedLike
  <1> QED
    BY <1>3, <1>5 DEF Informed

\* A step that leaves the path of a delegation leaves nothing to know.
LEMMA InformedElse ==
  ASSUME NEW k, k.pc \notin Looking \cup {"commit"}, NEW edges, NEW live, NEW had
  PROVE  InformedBy(k, edges, live, had)
  BY DEF InformedBy, PastChain, PastView, PastRoles, PastDenies, Looking

LEMMA AroundInformed ==
  ASSUME Typed, Remember, Around, AllInformed
  PROVE  AllInformed'
  <1> SUFFICES ASSUME NEW c \in Client, call'[c].op \in {"define", "update"}, ~call'[c].moved
               PROVE  Informed(c)'
    BY DEF AllInformed
  <1>1. call[c] \in Call
    BY DEF Typed, CallsOK
  <1>2. Like(call[c], call'[c]) /\ call'[c].op = call[c].op /\ call'[c].pc = call[c].pc
    BY <1>1, AroundLike, LikeFields
  <1>3. CASE call[c].pc = "idle"
    BY <1>2, <1>3, InformedElse DEF Informed, Looking
  <1>4. CASE call[c].pc # "idle"
    <2>1. UNCHANGED <<tree, known, blind>> /\ call'[c] = [call[c] EXCEPT !.late = call'[c].late]
      BY <1>4, AroundFrame, Zenon DEF Typed
    <2>2. ~call[c].moved
      BY <1>1, <2>1 DEF Call
    <2> QED
      BY <1>2, <2>1, <2>2, InformedStands DEF AllInformed
  <1> QED
    BY <1>3, <1>4

LEMMA WritesTree ==
  ASSUME Typed, NEW c \in Client, Quietly(c) \/ Writes(c)
  PROVE  UNCHANGED <<tree, known, blind>>
  <1>1. CASE Quietly(c)
    BY <1>1, QuietFrame DEF Typed
  <1>2. CASE Writes(c)
    BY <1>2, Zenon DEF Writes, Define, Update, Sync, Write, Erase, Drop, Commit, around
  <1> QED
    BY <1>1, <1>2

\* What a check reads is in the history.
LEMMA SeenMine ==
  ASSUME Typed, StateOK', CallsOK', Remember, NEW c \in Client, UNCHANGED <<cat, tree, held, denied>>,
         Delegates(call'[c]), call'[c].owner # Root
  PROVE  /\ HeldAlong(tree, call'[c].actor, call'[c].owner) \subseteq seen'[c].roles
         /\ Granting(cat, tree, call'[c].owner) \subseteq seen'[c].links
         /\ seen'[c].denied \subseteq DeniedAlong(tree, call'[c].actor, call'[c].owner)
  <1> DEFINE now == Now(call[c])'
  <1>1. /\ now.roles \subseteq seen'[c].roles /\ now.links \subseteq seen'[c].links
        /\ seen'[c].denied \subseteq now.denied
    BY SeenNow
  <1>2. Delegates(call[c])'
    BY DEF Delegates
  <1>3. /\ now.roles = HeldAlong(tree, call[c].actor, call[c].owner)'
        /\ now.links = Granting(cat, tree, call[c].owner)'
        /\ now.denied = DeniedAlong(tree, call[c].actor, call[c].owner)'
    BY <1>2 DEF Now
  <1>4. HeldAlong(tree, call[c].actor, call[c].owner)' = HeldAlong(tree, call'[c].actor, call'[c].owner)
    BY DEF HeldAlong
  <1>5. Granting(cat, tree, call[c].owner)' = Granting(cat, tree, call'[c].owner)
    BY DEF Granting, Counts
  <1>6. DeniedAlong(tree, call[c].actor, call[c].owner)' = DeniedAlong(tree, call'[c].actor, call'[c].owner)
    BY DEF DeniedAlong
  <1> QED
    BY <1>1, <1>3, <1>4, <1>5, <1>6

\* What a check that passes makes of a call.
Passed(k, new) == [new EXCEPT !.pc = After[k.op][k.pc]]

LEMMA PassedFields ==
  ASSUME NEW k, NEW new \in Call
  PROVE  /\ Passed(k, new).pc = After[k.op][k.pc] /\ Passed(k, new).op = new.op
         /\ Passed(k, new).actor = new.actor /\ Passed(k, new).owner = new.owner
         /\ Passed(k, new).ask = new.ask /\ Passed(k, new).role = new.role
         /\ Passed(k, new).photo = new.photo /\ Passed(k, new).edges = new.edges
         /\ Passed(k, new).granted = new.granted /\ Passed(k, new).rank = new.rank
         /\ Passed(k, new).moved = new.moved
  BY DEF Passed, Call

LEMMA ViewInforms ==
  ASSUME Typed, StateOK', CallsOK', Apart, Remember, NEW c \in Client, View(c), Informed(c),
         call'[c].op \in {"define", "update"}
  PROVE  Informed(c)'
  <1> DEFINE k == call[c]
             s == IF k.op = "define" THEN k.owner ELSE cat.rows[k.role].owner
             new == [k EXCEPT !.photo = cat, !.owner = s]
             j == call'[c]
  <1>1. k \in Call /\ PathOK(k) /\ ReadOK(k) /\ cat \in Catalog
    BY DEF Typed, CallsOK, StateOK, Apart
  <1>2. UNCHANGED <<cat, tree, known, blind, held, denied>>
    BY QuietFrame DEF Quietly, Typed
  <1>3. k.pc = "view"
    BY DEF View
  <1>4. j = NoCall \/ /\ Composable(k.ask) /\ j = Passed(k, new)
                      /\ s \in Scope \ {Root} /\ k.op \in {"define", "update", "delete"}
    <2>1. CASE k.op = "define"
      <3>1. Check(c, Composable(k.ask), [k EXCEPT !.photo = cat])
        BY <2>1 DEF View
      <3>2. new = [k EXCEPT !.photo = cat] /\ new \in Call
        BY <1>1, <2>1, ZenonT(40) DEF Call
      <3>3. s \in Scope \ {Root}
        BY <1>1, <1>3, <2>1 DEF ReadOK, Looking, Call
      <3>4. Check(c, Composable(k.ask), new)
        BY <3>1, <3>2
      <3> HIDE DEF new, s
      <3>5. j = NoCall \/ (Composable(k.ask) /\ j = Passed(k, new))
        BY <3>2, <3>4, CheckMoves DEF Passed
      <3> QED
        BY <2>1, <3>3, <3>5
    <2>2. CASE k.op # "define" /\ k.role \in Locals(cat)
      <3>1. Check(c, k.role \in Locals(cat) /\ Composable(k.ask), new)
        BY <2>2 DEF View
      <3>2. s \in Scope \ {Root}
        BY <1>1, <2>2, RowsOf DEF Apart, RowsApart
      <3>3. new \in Call
        <4> HIDE DEF s
        <4> QED
          BY <1>1, <3>2, ZenonT(40) DEF Call
      <3>4. k.op \in {"define", "update", "delete"}
        BY <1>1, <1>3 DEF PathOK, Call, Looking, InProject, InPurge, InPrune
      <3> HIDE DEF new
      <3> QED
        BY <3>1, <3>2, <3>3, <3>4, CheckMoves DEF Passed
    <2>3. CASE k.op # "define" /\ k.role \notin Locals(cat)
      <3>1. PICK any : Check(c, k.role \in Locals(cat) /\ Composable(k.ask), any)
        BY <2>3 DEF View
      <3>2. Put(c, NoCall)
        BY <2>3, <3>1 DEF Check
      <3> QED
        BY <3>2, PutMoves
    <2> QED
      BY <2>1, <2>2, <2>3
  <1>5. CASE j = NoCall
    BY <1>5, IdleFields, InformedElse DEF Informed, Looking
  <1>6. CASE Composable(k.ask) /\ j = Passed(k, new) /\ s \in Scope \ {Root}
    <2>1. new \in Call
      <3> HIDE DEF s
      <3> QED
        BY <1>1, <1>6, ZenonT(40) DEF Call
    <2>2. new.op = k.op /\ new.owner = s /\ new.photo = cat /\ new.ask = k.ask /\ new.edges = k.edges
      <3> HIDE DEF s
      <3> QED
        BY <1>1 DEF Call
    <2> HIDE DEF new
    <2>3. /\ j.op = k.op /\ j.pc = After[k.op]["view"] /\ j.owner = s /\ j.photo = cat
          /\ j.ask = k.ask /\ j.edges = k.edges
      BY <1>3, <1>6, <2>1, <2>2, PassedFields
    <2>4. k.op \in {"define", "update"}
      BY <2>3
    <2>5. (k.op = "define" /\ j.pc = "roles") \/ (k.op = "update" /\ j.pc = "chain")
      BY <2>3, <2>4, AfterOf
    <2>6. Delegates(j) /\ j.owner # Root
      BY <1>6, <2>3, <2>5 DEF Delegates, InProject
    <2>7. Granting(cat, tree, j.owner) \subseteq seen'[c].links
      BY <1>2, <2>6, SeenMine
    <2>8. PastChain(j) => PastChain(k)
      BY <1>3, <2>3, <2>5 DEF PastChain
    <2>9. k.ask.perms # None => k.ask.perms \subseteq Delegable
      BY <1>6 DEF Composable
    <2>10. InformedBy(j, tree, Live, seen'[c])
      <3>1. ~PastRoles(j) /\ ~PastDenies(j) /\ j.pc # "commit"
        BY <2>5 DEF PastRoles, PastDenies
      <3>2. PastChain(j) => j.edges = tree
        BY <2>3, <2>8 DEF Informed, InformedBy
      <3> QED
        BY <2>3, <2>6, <2>7, <2>9, <3>1, <3>2 DEF InformedBy
    <2> QED
      BY <1>2, <2>10 DEF Informed, Live, Resolves
  <1> QED
    BY <1>4, <1>5, <1>6

\* A check that keeps what the call is about keeps the history too.
LEMMA CheckKeeps ==
  ASSUME Typed, Remember, NEW c \in Client, UNCHANGED <<tree, known, blind>>, NEW new \in Call,
         call'[c] = Passed(call[c], new), call[c].op \in {"define", "update"},
         call[c].pc \in Looking \ {"view"},
         new.op = call[c].op, new.owner = call[c].owner
  PROVE  /\ seen[c].roles \subseteq seen'[c].roles
         /\ seen[c].links \subseteq seen'[c].links
         /\ seen'[c].denied \subseteq seen[c].denied
         /\ Delegates(call'[c]) /\ Live' = Live /\ tree' = tree
  <1> DEFINE k == call[c]
             j == call'[c]
  <1>1. k \in Call /\ PathOK(k)
    BY DEF Typed, CallsOK
  <1>2. j.op = k.op /\ j.owner = k.owner /\ j.pc = After[k.op][k.pc]
    BY PassedFields
  <1>3. k.pc \in {"chain", "roles", "denies", "shadows"}
    BY DEF Looking
  <1>4. j.pc \in Looking \cup {"commit"}
    BY <1>2, <1>3, AfterOf DEF Looking
  <1>5. Delegates(k) /\ Delegates(j)
    BY <1>2, <1>3, <1>4 DEF Delegates, Looking, InProject
  <1> QED
    BY <1>2, <1>5, SeenGrows DEF Live, Resolves

LEMMA ChainInforms ==
  ASSUME Typed, Apart, Remember, NEW c \in Client, ReadChain(c), Informed(c),
         call'[c].op \in {"define", "update"}
  PROVE  Informed(c)'
  <1> DEFINE k == call[c]
             new == [k EXCEPT !.edges = tree]
             j == call'[c]
  <1>1. k \in Call /\ PathOK(k) /\ tree \subseteq Edge
    BY DEF Typed, CallsOK, StateOK
  <1>2. UNCHANGED <<tree, known, blind>>
    BY QuietFrame DEF Quietly, Typed
  <1>3. /\ new \in Call /\ new.op = k.op /\ new.owner = k.owner /\ new.photo = k.photo
        /\ new.ask = k.ask /\ new.edges = tree
    BY <1>1 DEF Call
  <1>4. k.pc = "chain" /\ Check(c, Resolves(k.owner), new)
    BY DEF ReadChain
  <1> HIDE DEF new
  <1>5. CASE j = NoCall
    BY <1>5, IdleFields, InformedElse DEF Informed, Looking
  <1>6. CASE j = Passed(k, new)
    <2>1. /\ j.op = k.op /\ j.pc = After[k.op]["chain"] /\ j.owner = k.owner
          /\ j.photo = k.photo /\ j.ask = k.ask /\ j.edges = tree
      BY <1>3, <1>4, <1>6, PassedFields
    <2>2. (k.op = "define" /\ j.pc = "view") \/ (k.op = "update" /\ j.pc = "roles")
      BY <2>1, AfterOf
    <2>3. seen[c].links \subseteq seen'[c].links /\ Live' = Live /\ tree' = tree
      BY <1>2, <1>3, <1>4, <1>6, <2>1, CheckKeeps DEF Looking
    <2>4. PastView(j) => PastView(k)
      BY <1>4, <2>1, <2>2 DEF PastView
    <2>5. ~PastRoles(j) /\ ~PastDenies(j) /\ j.pc # "commit"
      BY <2>2 DEF PastRoles, PastDenies
    <2>6. InformedBy(j, tree, Live, seen'[c])
      BY <2>1, <2>3, <2>4, <2>5 DEF Informed, InformedBy
    <2> QED
      BY <2>3, <2>6 DEF Informed
  <1> QED
    BY <1>3, <1>4, <1>5, <1>6, CheckMoves DEF Passed

LEMMA RolesInform ==
  ASSUME Typed, StateOK', CallsOK', Apart, Remember, NEW c \in Client, ReadRoles(c), Informed(c),
         call'[c].op \in {"define", "update"}
  PROVE  Informed(c)'
  <1> DEFINE k == call[c]
             G == UNION {PermsOf(k.photo, r) : r \in RolesAlong(k.photo, k.edges, k.actor, k.owner)}
             new == [k EXCEPT !.rank = RankAlong(k), !.granted = G]
             j == call'[c]
  <1>1. k \in Call /\ PathOK(k) /\ k.photo \in Catalog
    BY DEF Typed, CallsOK, Call
  <1>2. UNCHANGED <<cat, tree, known, blind, held, denied>>
    BY QuietFrame DEF Quietly, Typed
  <1>3. RolesAlong(k.photo, k.edges, k.actor, k.owner) \subseteq Role
    BY <1>1, RowsOf DEF RolesAlong, Counts
  <1>4. G \in SUBSET Perm /\ RankAlong(k) \in Nat
    BY <1>1, <1>3, RowsOf, RankType
  <1>5. k.pc = "roles" /\ \E ok : Check(c, ok, new)
    BY Zenon DEF ReadRoles
  <1> HIDE DEF G
  <1>6. /\ new \in Call /\ new.op = k.op /\ new.owner = k.owner /\ new.photo = k.photo
        /\ new.ask = k.ask /\ new.edges = k.edges /\ new.granted = G /\ new.actor = k.actor
    BY <1>1, <1>4, ZenonT(40) DEF Call
  <1> HIDE DEF new
  <1>7. CASE j = NoCall
    BY <1>7, IdleFields, InformedElse DEF Informed, Looking
  <1>8. CASE j = Passed(k, new)
    <2>1. /\ j.op = k.op /\ j.pc = After[k.op]["roles"] /\ j.owner = k.owner /\ j.actor = k.actor
          /\ j.photo = k.photo /\ j.ask = k.ask /\ j.edges = k.edges /\ j.granted = G
      BY <1>5, <1>6, <1>8, PassedFields
    <2>2. (k.op = "define" /\ j.pc = "denies") \/ (k.op = "update" /\ j.pc = "shadows")
      BY <2>1, AfterOf
    <2>3. /\ seen[c].links \subseteq seen'[c].links /\ Live' = Live /\ tree' = tree /\ Delegates(j)
      BY <1>2, <1>5, <1>6, <1>8, <2>1, CheckKeeps DEF Looking
    <2>4. PastView(k) /\ PastChain(k)
      BY <1>5, <2>1 DEF PastView, PastChain
    <2>5. /\ k.edges = tree /\ k.owner # Root /\ Granting(k.photo, tree, k.owner) \subseteq seen[c].links
          /\ k.ask.perms # None => k.ask.perms \subseteq Delegable
      BY <2>4 DEF Informed, InformedBy
    <2>6. HeldAlong(tree, k.actor, k.owner) \subseteq seen'[c].roles
      BY <1>2, <2>1, <2>3, <2>5, SeenMine
    <2>7. ASSUME NEW p \in G
          PROVE  \E x \in seen'[c].roles : <<x[1], x[2], p>> \in seen'[c].links
      <3>1. PICK r \in RolesAlong(k.photo, tree, k.actor, k.owner) : p \in PermsOf(k.photo, r)
        BY <2>5 DEF G
      <3>2. PICK y \in HeldAlong(tree, k.actor, k.owner) : r = y[2] /\ Counts(k.photo, tree, y[1], y[2])
        BY <3>1 DEF RolesAlong
      <3>3. y[1] \in Up(tree, k.owner) /\ r \in Present(k.photo) /\ p \in Perm
        BY <1>4, <3>2 DEF HeldAlong, Counts
      <3>4. <<y[1], y[2], p>> \in Granting(k.photo, tree, k.owner)
        BY <3>1, <3>2, <3>3 DEF Granting
      <3> QED
        BY <2>3, <2>5, <2>6, <3>2, <3>4
    <2>8. ~PastDenies(j) /\ j.pc # "commit"
      BY <2>1, <2>2 DEF PastDenies
    <2>9. InformedBy(j, tree, Live, seen'[c])
      BY <2>1, <2>3, <2>5, <2>7, <2>8 DEF InformedBy
    <2> QED
      BY <2>3, <2>9 DEF Informed
  <1> QED
    BY <1>5, <1>6, <1>7, <1>8, CheckMoves DEF Passed

LEMMA DeniesInform ==
  ASSUME Typed, StateOK', CallsOK', Apart, Remember, NEW c \in Client, ReadDenies(c), Informed(c),
         call'[c].op \in {"define", "update"}
  PROVE  Informed(c)'
  <1> DEFINE k == call[c]
             j == call'[c]
             Allowed == /\ k.ask.perms # None =>
                              k.ask.perms \subseteq k.granted \ DeniedAlong(k.edges, k.actor, k.owner)
                        /\ (k.op = "update" /\ k.ask.rank = None) \/ RankFits(k)
  <1>1. k \in Call /\ PathOK(k)
    BY DEF Typed, CallsOK
  <1>2. UNCHANGED <<cat, tree, known, blind, held, denied>>
    BY QuietFrame DEF Quietly, Typed
  <1>3. k.pc = "denies" /\ Check(c, Allowed, k)
    BY DEF ReadDenies
  <1>4. CASE j = NoCall
    BY <1>4, IdleFields, InformedElse DEF Informed, Looking
  <1>5. CASE Allowed /\ j = Passed(k, k)
    <2>1. /\ j.op = k.op /\ j.pc = After[k.op]["denies"] /\ j.owner = k.owner /\ j.actor = k.actor
          /\ j.photo = k.photo /\ j.ask = k.ask /\ j.edges = k.edges /\ j.granted = k.granted
      BY <1>1, <1>3, <1>5, PassedFields
    <2>2. (k.op = "define" /\ j.pc = "shadows") \/ (k.op = "update" /\ j.pc = "commit")
      BY <2>1, AfterOf
    <2>3. /\ seen[c].links \subseteq seen'[c].links /\ seen[c].roles \subseteq seen'[c].roles
          /\ Live' = Live /\ tree' = tree /\ Delegates(j)
      BY <1>1, <1>2, <1>3, <1>5, <2>1, CheckKeeps DEF Looking
    <2>4. PastView(k) /\ PastChain(k) /\ PastRoles(k)
      BY <1>3, <2>1 DEF PastView, PastChain, PastRoles
    <2>5. /\ k.edges = tree /\ k.owner # Root /\ Granting(k.photo, tree, k.owner) \subseteq seen[c].links
          /\ k.ask.perms # None => k.ask.perms \subseteq Delegable
          /\ \A p \in k.granted : \E x \in seen[c].roles : <<x[1], x[2], p>> \in seen[c].links
      BY <2>4 DEF Informed, InformedBy
    <2>6. seen'[c].denied \subseteq DeniedAlong(tree, k.actor, k.owner)
      BY <1>2, <2>1, <2>3, <2>5, SeenMine
    <2>7. k.ask.perms # None => k.ask.perms \subseteq k.granted /\ k.ask.perms \cap seen'[c].denied = {}
      BY <1>5, <2>5, <2>6
    <2>8. ~(j.op = "define" /\ j.pc = "commit")
      BY <2>1, <2>2
    <2>9. InformedBy(j, tree, Live, seen'[c])
      BY <2>1, <2>3, <2>5, <2>7, <2>8 DEF InformedBy
    <2> QED
      BY <2>3, <2>9 DEF Informed
  <1> HIDE DEF Allowed
  <1> QED
    BY <1>1, <1>3, <1>4, <1>5, CheckMoves DEF Passed

LEMMA ShadowsInform ==
  ASSUME Typed, StateOK', CallsOK', Apart, Remember, NEW c \in Client, Shadows(c), Informed(c),
         call'[c].op \in {"define", "update"}
  PROVE  Informed(c)'
  <1> DEFINE k == call[c]
             j == call'[c]
             Free == /\ k.op = "define" => \A q \in Named(k.photo, k.ask.name) :
                           ~VisibleIn(k.photo.rows[q], Up(k.edges, k.owner))
                     /\ \A q \in ShadowedBelow(k) :
                           \/ k.op = "update" /\ q = k.role
                           \/ k.rank > k.photo.rows[q].rank
  <1>1. k \in Call /\ PathOK(k)
    BY DEF Typed, CallsOK
  <1>2. UNCHANGED <<cat, tree, known, blind, held, denied>>
    BY QuietFrame DEF Quietly, Typed
  <1>3. k.pc = "shadows" /\ Check(c, Free, k)
    BY DEF Shadows
  <1>4. CASE j = NoCall
    BY <1>4, IdleFields, InformedElse DEF Informed, Looking
  <1>5. CASE Free /\ j = Passed(k, k)
    <2>1. /\ j.op = k.op /\ j.pc = After[k.op]["shadows"] /\ j.owner = k.owner /\ j.rank = k.rank
          /\ j.photo = k.photo /\ j.ask = k.ask /\ j.edges = k.edges /\ j.granted = k.granted
      BY <1>1, <1>3, <1>5, PassedFields
    <2>2. (k.op = "define" /\ j.pc = "commit") \/ (k.op = "update" /\ j.pc = "denies")
      BY <2>1, AfterOf
    <2>3. /\ seen[c].links \subseteq seen'[c].links /\ seen[c].roles \subseteq seen'[c].roles
          /\ seen'[c].denied \subseteq seen[c].denied
          /\ Live' = Live /\ tree' = tree /\ Delegates(j)
      BY <1>1, <1>2, <1>3, <1>5, <2>1, CheckKeeps DEF Looking
    <2>4. PastView(k) /\ PastChain(k) /\ PastRoles(k)
      BY <1>3, <2>1 DEF PastView, PastChain, PastRoles
    <2>5. PastDenies(j) => PastDenies(k)
      BY <1>3, <2>1, <2>2 DEF PastDenies
    <2>6. k.edges = tree
      BY <2>4 DEF Informed, InformedBy
    <2>7. ASSUME j.op = "define", NEW h \in Named(k.photo, k.ask.name)
          PROVE  Clear(j, tree, Live, h)
      <3> DEFINE row == k.photo.rows[h]
      <3>1. ~VisibleIn(row, Up(tree, k.owner))
        BY <1>5, <2>1, <2>6, <2>7
      <3>2. ASSUME row.owner \in Live, k.owner \in Up(tree, row.owner)
            PROVE  k.rank > row.rank
        <4>1. Resolves(row.owner) /\ row.owner # Global
          BY <3>2, RolesAssumption DEF Live
        <4>2. h \in Locals(k.photo)
          BY <4>1 DEF Locals, Globals, Named
        <4>3. h \in ShadowedBelow(k)
          BY <2>6, <3>1, <3>2, <4>1, <4>2 DEF ShadowedBelow, VisibleIn
        <4> QED
          BY <1>5, <2>1, <2>7, <4>3
      <3> QED
        BY <2>1, <3>1, <3>2 DEF Clear
    <2>8. InformedBy(j, tree, Live, seen'[c])
      BY <2>1, <2>3, <2>4, <2>5, <2>7 DEF Informed, InformedBy
    <2> QED
      BY <2>3, <2>8 DEF Informed
  <1> HIDE DEF Free
  <1> QED
    BY <1>1, <1>3, <1>4, <1>5, CheckMoves DEF Passed

\* Whatever a call does, it knows what it has read.
LEMMA OwnInformed ==
  ASSUME Typed, StateOK', CallsOK', Apart, Remember, NEW c \in Client, Quietly(c) \/ Writes(c),
         call'[c].op \in {"define", "update"}, ~call'[c].moved,
         call[c].op \in {"define", "update"} /\ ~call[c].moved => Informed(c)
  PROVE  Informed(c)'
  <1>1. call[c] \in Call /\ PathOK(call[c])
    BY DEF Typed, CallsOK
  <1>2. CASE call'[c].pc \notin Looking \cup {"commit"}
    BY <1>2, InformedElse DEF Informed
  <1>3. CASE StartDefine(c) \/ StartUpdate(c) \/ StartDelete(c) \/ StartSync(c) \/ StartPrune(c)
    <2>1. /\ <<call'[c].op, call'[c].pc>> \in {<<"define", "chain">>, <<"update", "view">>,
                  <<"delete", "view">>, <<"sync", "sync">>, <<"prune", "list">>}
      BY <1>3, StartMoves
    <2>2. ~PastChain(call'[c]) /\ ~PastView(call'[c]) /\ ~PastRoles(call'[c])
          /\ ~PastDenies(call'[c]) /\ call'[c].pc # "commit"
      BY <2>1 DEF PastChain, PastView, PastRoles, PastDenies
    <2>3. InformedBy(call'[c], tree', Live', seen'[c])
      BY <2>2 DEF InformedBy
    <2> QED
      BY <2>3 DEF Informed
  <1>4. CASE ReadChain(c) \/ View(c) \/ ReadRoles(c) \/ ReadDenies(c) \/ Shadows(c)
    <2>1. CASE call'[c] = NoCall
      BY <2>1, IdleFields
    <2>2. CASE call'[c] # NoCall
      <3>1. call'[c].op = call[c].op /\ call'[c].moved = call[c].moved
        BY <1>1, <1>4, <2>2, ChecksOp
      <3> QED
        BY <1>4, <3>1, ChainInforms, ViewInforms, RolesInform, DeniesInform, ShadowsInform
    <2> QED
      BY <2>1, <2>2
  <1>5. CASE call[c].pc \notin Looking \cup {"idle"}
    BY <1>2, <1>5, OwnReads DEF Apart
  <1>6. CASE Refused(c) \/ GiveUp(c)
    BY <1>6, IdleFields, PutMoves DEF Refused, GiveUp
  <1> QED
    BY <1>3, <1>4, <1>5, <1>6, LookingMoves

LEMMA InformedStep ==
  ASSUME Base, StateOK', CallsOK', Next, AllInformed
  PROVE  AllInformed'
  <1>1. CASE Around
    BY <1>1, AroundInformed DEF Base, Next
  <1>2. ASSUME NEW c \in Client, Quietly(c) \/ Writes(c)
        PROVE  AllInformed'
    <2> SUFFICES ASSUME NEW d \in Client, call'[d].op \in {"define", "update"}, ~call'[d].moved
                 PROVE  Informed(d)'
      BY DEF AllInformed
    <2>1. CASE d = c
      BY <1>2, <2>1, OwnInformed DEF Base, Next, AllInformed
    <2>2. CASE d # c
      <3>1. Like(call[d], call'[d]) /\ call'[d].moved = call[d].moved /\ call'[d].op = call[d].op
        BY <1>2, <2>2, OthersLike, LikeFields DEF Base, Typed, CallsOK
      <3> QED
        BY <1>2, <3>1, InformedStands, WritesTree DEF Base, Next, AllInformed
    <2> QED
      BY <2>1, <2>2
  <1> QED
    BY <1>1, <1>2, StepCases DEF Next

LEMMA InitInformed ==
  Init => AllInformed
  BY IdleFields DEF Init, AllInformed

Knowing == Base /\ AllInformed

LEMMA KnowingStep ==
  Knowing /\ [Next]_vars => Knowing'
  <1> SUFFICES ASSUME Knowing, [Next]_vars
               PROVE  Knowing'
    OBVIOUS
  <1>1. Base'
    BY BaseStep DEF Knowing
  <1>2. CASE Next
    BY <1>1, <1>2, InformedStep DEF Knowing, Base, Typed
  <1>3. CASE UNCHANGED vars
    BY <1>1, <1>3 DEF Knowing, AllInformed, Informed, Live, Resolves, vars
  <1> QED
    BY <1>1, <1>2, <1>3 DEF Knowing

LEMMA KnowingHolds ==
  Spec => []Knowing
  BY InitBase, InitInformed, KnowingStep, PTL DEF Spec, Knowing

-----------------------------------------------------------------------------
(* The writes.                                                             *)

\* Only a define or an update leaves "commit" with the catalog changed.
LEMMA CommitMoves ==
  ASSUME Base, Next, NEW c \in Client, call[c].pc = "commit", call'[c].pc # "commit", cat' # cat
  PROVE  Define(c) \/ Update(c)
  <1>1. CASE Around
    BY <1>1, AroundFrame DEF Base, Typed
  <1>2. ASSUME NEW d \in Client, Quietly(d) \/ Writes(d)
        PROVE  Define(c) \/ Update(c)
    <2>1. Writes(d)
      BY <1>2, QuietFrame DEF Base, Typed
    <2>2. d = c
      <3> SUFFICES ASSUME d # c
                   PROVE  FALSE
        OBVIOUS
      <3>1. call[c] \in Call /\ Like(call[c], call'[c])
        BY <1>2, OthersLike DEF Base, Typed, CallsOK
      <3> QED
        BY <3>1, LikeFields
    <2> QED
      BY <2>1, <2>2 DEF Writes, Sync, Write, Erase, Drop
  <1> QED
    BY <1>1, <1>2, StepCases DEF Next

\* The rows before and after.
LEMMA DefineWrites ==
  ASSUME Base, NEW c \in Client, Define(c)
  PROVE  /\ call[c].op = "define" /\ call[c].pc = "commit" /\ call[c].ask \in Whole
         /\ OwnersOf(cat, call[c].ask.name) \subseteq OwnersOf(call[c].photo, call[c].ask.name)
         /\ \E r \in spare : cat' = WithRow(cat, r, DefinedRow(call[c]))
  <1>1. ReadOK(call[c])
    BY DEF Base, Apart
  <1> QED
    BY <1>1, Zenon DEF Define, DefinedRow, WithRow, Commit, ReadOK

LEMMA UpdateWrites ==
  ASSUME Base, NEW c \in Client, Update(c)
  PROVE  /\ call[c].op = "update" /\ call[c].pc = "commit" /\ call[c].role \in Present(cat)
         /\ call[c].role \in Locals(call[c].photo)
         /\ cat' = WithRow(cat, call[c].role, UpdatedRow(call[c]))
  <1>1. ReadOK(call[c])
    BY DEF Base, Apart
  <1> QED
    BY <1>1, Zenon DEF Update, UpdatedRow, WithRow, Target, Commit, ReadOK

\* The links that come with a row.
LEMMA NewLinks ==
  ASSUME NEW rows \in Catalog, NEW r \in Role, NEW row \in Row
  PROVE  \A l \in Links(WithRow(rows, r, row)) \ Links(rows) :
            l[2] \in row.perms /\ (r \in Present(rows) => l[2] \notin rows.rows[r].perms)
  <1> TAKE l \in Links(WithRow(rows, r, row)) \ Links(rows)
  <1>1. /\ l \in Present(WithRow(rows, r, row)) \X Perm
        /\ l[2] \in WithRow(rows, r, row).rows[l[1]].perms
    BY DEF Links
  <1>2. l[1] \in Role /\ l[2] \in Perm /\ l = <<l[1], l[2]>>
    BY <1>1 DEF Present
  <1>3. /\ WithRow(rows, r, row).rows[r] = row
        /\ \A q \in Role : q # r => WithRow(rows, r, row).rows[q] = rows.rows[q]
    BY WithRowType
  <1>4. l[1] = r
    BY <1>1, <1>2, <1>3 DEF Links, Present
  <1> QED
    BY <1>1, <1>2, <1>3, <1>4 DEF Links

\* What a delegation writes is what was asked for.
LEMMA DelegatedAsked ==
  ASSUME Base, Next, NEW c \in Client, NEW p \in Delegated(c)
  PROVE  /\ call[c].op \in {"define", "update"} /\ call[c].pc = "commit"
         /\ call[c].ask.perms # None /\ p \in call[c].ask.perms
  <1> DEFINE k == call[c]
  <1>1. /\ cat' # cat /\ k.pc = "commit" /\ call'[c].pc # "commit"
        /\ \E l \in Links(cat)' \ Links(cat) : p = l[2]
    BY DEF Delegated
  <1>2. PICK l \in Links(cat)' \ Links(cat) : p = l[2]
    BY <1>1
  <1>3. cat \in Catalog /\ k \in Call /\ spare \subseteq Role
    BY DEF Base, Typed, StateOK, CallsOK
  <1>4. CASE Define(c)
    <2>1. PICK r \in spare : cat' = WithRow(cat, r, DefinedRow(k))
      BY <1>4, DefineWrites
    <2>2. k.op = "define" /\ k.ask \in Whole
      BY <1>4, DefineWrites
    <2>3. DefinedRow(k) \in Row /\ r \in Role
      BY <1>3, <2>2, DefinedRowType
    <2>4. p \in DefinedRow(k).perms
      BY <1>2, <1>3, <2>1, <2>3, NewLinks
    <2>5. k.ask.perms # None
      BY <2>2, RolesAssumption DEF Whole
    <2> QED
      BY <1>1, <2>2, <2>4, <2>5 DEF DefinedRow
  <1>5. CASE Update(c)
    <2>1. /\ cat' = WithRow(cat, k.role, UpdatedRow(k)) /\ k.op = "update"
          /\ k.role \in Present(cat) /\ k.role \in Locals(k.photo) /\ k.role \in Role
      BY <1>3, <1>5, UpdateWrites DEF Call
    <2>2. /\ UpdatedRow(k) \in Row
          /\ k.ask.perms \in {None, k.photo.rows[k.role].perms} =>
                UpdatedRow(k).perms = cat.rows[k.role].perms
          /\ k.ask.perms \notin {None, k.photo.rows[k.role].perms} =>
                UpdatedRow(k).perms = k.ask.perms
      BY <1>3, <2>1, UpdatedRowType
    <2>3. p \in UpdatedRow(k).perms /\ p \notin cat.rows[k.role].perms
      BY <1>2, <1>3, <2>1, <2>2, NewLinks
    <2> QED
      BY <1>1, <2>1, <2>2, <2>3
  <1> QED
    BY <1>1, <1>4, <1>5, CommitMoves

\* Nobody delegates what he has not: whatever others change between the reads of a
\* delegation, each permission it writes was granted to its actor along the chain of the
\* owner, and not denied all the while (defineScopedRole and updateScopedRole).
THEOREM DelegationIsBacked == Spec => DelegationBacked
  <1>1. Knowing /\ [Next]_vars =>
           [\A c \in Client : ~call[c].moved =>
               \A p \in Delegated(c) :
                   /\ \E x \in seen[c].roles : <<x[1], x[2], p>> \in seen[c].links
                   /\ p \notin seen[c].denied
                   /\ p \in Delegable]_vars
    <2> SUFFICES ASSUME Knowing, Next, NEW c \in Client, ~call[c].moved, NEW p \in Delegated(c)
                 PROVE  /\ \E x \in seen[c].roles : <<x[1], x[2], p>> \in seen[c].links
                        /\ p \notin seen[c].denied
                        /\ p \in Delegable
      OBVIOUS
    <2>1. /\ call[c].op \in {"define", "update"} /\ call[c].pc = "commit"
          /\ call[c].ask.perms # None /\ p \in call[c].ask.perms
      BY DelegatedAsked DEF Knowing
    <2>2. InformedBy(call[c], tree, Live, seen[c])
      BY <2>1 DEF Knowing, AllInformed, Informed
    <2>3. PastView(call[c]) /\ PastRoles(call[c]) /\ PastDenies(call[c])
      BY <2>1 DEF PastView, PastRoles, PastDenies
    <2> QED
      BY <2>1, <2>2, <2>3 DEF InformedBy
  <1> QED
    BY <1>1, KnowingHolds, PTL DEF Spec, DelegationBacked

\* A role is not defined where its name is taken, nor above one of its name that its actor
\* did not outrank (assertNoRoleCollision and assertAboveShadowed, read again inside the
\* transaction), and what is not apart is told by the diff and the sync.
THEOREM NamesStayApart == Spec => NamesApart
  <1>1. Knowing /\ [Next]_vars =>
           [\A c \in Client, r \in Role : Defined(c, r) /\ ~call[c].moved =>
              \A q \in Named(cat, call[c].ask.name) :
                  /\ cat.rows[q].owner \notin {Global} \cup Up(tree, call[c].owner)
                  /\ Resolves(cat.rows[q].owner) /\ call[c].owner \in Up(tree, cat.rows[q].owner)
                        => \E h \in Named(call[c].photo, call[c].ask.name) :
                              /\ call[c].photo.rows[h].owner = cat.rows[q].owner
                              /\ call[c].rank > call[c].photo.rows[h].rank]_vars
    <2> SUFFICES ASSUME Knowing, Next, NEW c \in Client, NEW r \in Role, Defined(c, r), ~call[c].moved,
                        NEW q \in Named(cat, call[c].ask.name)
                 PROVE  /\ cat.rows[q].owner \notin {Global} \cup Up(tree, call[c].owner)
                        /\ Resolves(cat.rows[q].owner) /\ call[c].owner \in Up(tree, cat.rows[q].owner)
                              => \E h \in Named(call[c].photo, call[c].ask.name) :
                                    /\ call[c].photo.rows[h].owner = cat.rows[q].owner
                                    /\ call[c].rank > call[c].photo.rows[h].rank
      OBVIOUS
    <2> DEFINE k == call[c]
    <2>1. k.op = "define" /\ k.pc = "commit" /\ call'[c].pc # "commit" /\ cat' # cat
      BY DEF Defined
    <2>2. Define(c)
      <3>1. ~Update(c)
        BY <2>1 DEF Update
      <3> QED
        BY <2>1, <3>1, CommitMoves DEF Knowing
    <2>3. OwnersOf(cat, k.ask.name) \subseteq OwnersOf(k.photo, k.ask.name)
      BY <2>2, DefineWrites DEF Knowing
    <2>4. PICK h \in Named(k.photo, k.ask.name) : k.photo.rows[h].owner = cat.rows[q].owner
      BY <2>3 DEF OwnersOf
    <2>5. Clear(k, tree, Live, h)
      BY <2>1 DEF Knowing, AllInformed, Informed, InformedBy
    <2>6. Resolves(cat.rows[q].owner) => cat.rows[q].owner \in Live
      BY DEF Knowing, Base, Typed, StateOK, Live, Resolves
    <2> QED
      BY <2>4, <2>5, <2>6 DEF Clear, VisibleIn
  <1>2. Base => TypeOK /\ HomonymsTold
    BY TypedTypeOK, TypesTell DEF Base
  <1>3. Knowing => TypeOK /\ HomonymsTold
    BY <1>2 DEF Knowing
  <1>4. Spec => DefinedApart
    BY <1>1, KnowingHolds, PTL DEF Spec, DefinedApart
  <1>5. Spec => [](TypeOK /\ HomonymsTold)
    BY <1>3, KnowingHolds, PTL
  <1> QED
    BY <1>4, <1>5 DEF NamesApart

-----------------------------------------------------------------------------
(* Nothing is left of a role when its row goes.                            *)

EmptyOrLate == \A c \in Client :
    call[c].pc = "drop" => FactsOf(call[c].role) = {} \/ call[c].late

\* Facts come only as Land brings them, and are told to those that are to drop the row.
LEMMA AroundLands ==
  ASSUME Typed, Around, NEW c \in Client, call[c].pc = "drop", NEW k \in held' \ held,
         k[3] = call[c].role
  PROVE  call'[c].late
  <1>1. Land(k)
    BY DEF Around, Ask, Land, Revoke, Deny, Move, Lapse, Blind
  <1>2. call[c] \in Call
    BY DEF Typed, CallsOK
  <1>3. call'[c] = [call[c] EXCEPT !.late = @ \/ (call[c].pc = "drop" /\ call[c].role = k[3])]
    BY <1>1 DEF Land, Landing
  <1>4. (call[c].late \/ (call[c].pc = "drop" /\ call[c].role = k[3])) = TRUE
    OBVIOUS
  <1>5. call'[c] = [call[c] EXCEPT !.late = TRUE]
    BY <1>3, <1>4, Zenon
  <1> QED
    BY <1>2, <1>5 DEF Call

LEMMA OthersHold ==
  ASSUME Typed, NEW c \in Client, Quietly(c) \/ Writes(c)
  PROVE  held' \subseteq held
  <1>1. CASE Quietly(c)
    BY <1>1, QuietFrame DEF Typed
  <1>2. CASE Writes(c)
    BY <1>2, Zenon DEF Writes, Define, Update, Sync, Write, Erase, Drop, Commit, around
  <1> QED
    BY <1>1, <1>2

\* The steps of a projection come neither to a purge nor to a prune.
LEMMA ProjectionGoes ==
  ASSUME Typed, NEW c \in Client,
         \/ \E rs \in SUBSET Role : Became(c, Projecting(call[c], rs)) /\ call[c].op \in {"define", "update"}
         \/ call[c].pc = "sync" /\ \E rs, ls : Became(c, [call[c] EXCEPT !.pc = "current", !.cover = rs, !.want = ls])
         \/ call[c].pc = "project" /\ \E ls : Became(c, [call[c] EXCEPT !.pc = "current", !.want = ls])
         \/ call[c].pc = "current" /\ \E ls : Became(c, [call[c] EXCEPT !.pc = "write", !.have = ls])
         \/ call[c].pc \in {"current", "write"} /\ Became(c, Projected(call[c]))
  PROVE  /\ call'[c].op \in {"define", "update", "sync", "none"}
         /\ call'[c].pc \in InProject \cup {"sync", "idle"}
  <1> DEFINE k == call[c]
  <1>1. k \in Call /\ PathOK(k)
    BY Zenon DEF Typed, CallsOK
  <1>2. k.pc \in InProject \cup {"sync"} => k.op \in {"define", "update", "sync"}
    BY <1>1, Zenon DEF PathOK, Call, Looking, InProject, InPurge, InPrune
  <1>3. CASE \E rs \in SUBSET Role : Became(c, Projecting(k, rs)) /\ k.op \in {"define", "update"}
    BY <1>3, NoCallType, ZenonT(40) DEF Became, Projecting, Call, InProject
  <1>4. CASE k.pc = "sync" /\ \E rs, ls : Became(c, [k EXCEPT !.pc = "current", !.cover = rs, !.want = ls])
    BY <1>1, <1>2, <1>4, Zenon DEF Became, Call, InProject
  <1>5. CASE k.pc = "project" /\ \E ls : Became(c, [k EXCEPT !.pc = "current", !.want = ls])
    BY <1>1, <1>2, <1>5, Zenon DEF Became, Call, InProject
  <1>6. CASE k.pc = "current" /\ \E ls : Became(c, [k EXCEPT !.pc = "write", !.have = ls])
    BY <1>1, <1>2, <1>6, ZenonT(40) DEF Became, Call, InProject
  <1>7. CASE k.pc \in {"current", "write"} /\ Became(c, Projected(k))
    <2> DEFINE next == [k EXCEPT !.pc = "sync", !.at = @ + 1, !.cover = {}, !.want = {},
                                 !.have = {}, !.dirty = {}]
    <2>1. Projected(k) \in {NoCall, next}
      BY Zenon DEF Projected
    <2>2. next.pc = "sync" /\ next.op = k.op
      BY <1>1, Zenon DEF Call
    <2> HIDE DEF next
    <2>3. k.op \in {"define", "update", "sync"}
      BY <1>2, <1>7, Zenon DEF InProject
    <2> QED
      BY <1>7, <2>1, <2>2, <2>3, IdleFields, Zenon DEF Became
  <1> QED
    BY <1>3, <1>4, <1>5, <1>6, <1>7, Zenon

LEMMA StartsOther ==
  ASSUME Typed, NEW c \in Client,
         StartDefine(c) \/ StartUpdate(c) \/ StartDelete(c) \/ StartSync(c)
  PROVE  call'[c].op # "prune" /\ call'[c].pc \notin InPurge
  <1>1. PICK new : /\ Put(c, new) /\ new.op \in {"define", "update", "delete", "sync"}
                   /\ new.pc \in {"chain", "view", "sync"}
    <2>1. ASSUME NEW word \in {"define", "update", "delete", "sync"},
                 NEW at \in {"chain", "view", "sync"}, NEW new,
                 new.op = word, new.pc = at, Begin(c, new)
          PROVE  \E any : /\ Put(c, any) /\ any.op \in {"define", "update", "delete", "sync"}
                           /\ any.pc \in {"chain", "view", "sync"}
      BY <2>1 DEF Begin
    <2>2. CASE StartDefine(c)
      <3> DEFINE new(d) == [NoCall EXCEPT !.op = "define", !.pc = "chain", !.actor = d[1],
                                          !.owner = d[2], !.ask = d[3]]
      <3>1. PICK d \in Defines : Begin(c, new(d))
        BY <2>2, Zenon DEF StartDefine
      <3>2. new(d).op = "define" /\ new(d).pc = "chain"
        BY NoCallType DEF Call
      <3> QED
        BY <2>1, <3>1, <3>2
    <2>3. CASE StartUpdate(c)
      <3> DEFINE new(d) == [NoCall EXCEPT !.op = "update", !.pc = "view", !.actor = d[1],
                                          !.role = d[2], !.ask = d[3]]
      <3>1. PICK d \in Updates : Begin(c, new(d))
        BY <2>3, Zenon DEF StartUpdate
      <3>2. new(d).op = "update" /\ new(d).pc = "view"
        BY NoCallType DEF Call
      <3> QED
        BY <2>1, <3>1, <3>2
    <2>4. CASE StartDelete(c)
      <3> DEFINE new(d) == [NoCall EXCEPT !.op = "delete", !.pc = "view", !.actor = d[1], !.role = d[2]]
      <3>1. PICK d \in Deletes : Begin(c, new(d))
        BY <2>4, Zenon DEF StartDelete
      <3>2. new(d).op = "delete" /\ new(d).pc = "view"
        BY NoCallType DEF Call
      <3> QED
        BY <2>1, <3>1, <3>2
    <2>5. CASE StartSync(c)
      <3> DEFINE new(list, b) == [NoCall EXCEPT !.op = "sync", !.pc = "sync", !.plan = list, !.at = 1,
                                                !.prune = b]
      <3>1. PICK list \in Plans, b \in Prunes : Begin(c, new(list, b))
        BY <2>5, Zenon DEF StartSync
      <3>2. new(list, b).op = "sync" /\ new(list, b).pc = "sync"
        BY NoCallType DEF Call
      <3> QED
        BY <2>1, <3>1, <3>2
    <2> QED
      BY <2>2, <2>3, <2>4, <2>5
  <1>2. call'[c] = new
    BY <1>1, PutMoves
  <1> QED
    BY <1>1, <1>2 DEF InPurge

\* What a step makes of a call that purges or prunes, or that comes to.
LEMMA PurgeGoes ==
  ASSUME Typed, StateOK', CallsOK', NEW c \in Client, Quietly(c) \/ Writes(c),
         call'[c].op = "prune" \/ call'[c].pc \in InPurge
  PROVE  LET k == call[c]
         IN  \/ StartPrune(c)
             \/ Checks(c) /\ call'[c].op = k.op /\ call'[c].pc \in Looking \cup {"commit", "collect"}
             \/ Collect(c) /\ Became(c, [k EXCEPT !.pc = "erase", !.facts = FactsOf(k.role),
                                                  !.have = PermitsOf(k.role)])
             \/ Erase(c) /\ Became(c, [k EXCEPT !.pc = "residue", !.facts = {}, !.have = {}])
             \/ Residue(c) /\ Became(c, [k EXCEPT !.pc = "drop", !.dirty = {}])
                           /\ FactsOf(k.role) = {} /\ PermitsOf(k.role) = {}
             \/ Drop(c) /\ k.op = "prune" /\ Became(c, Purged(k))
             \/ ListLocals(c) /\ Became(c, [k EXCEPT !.pc = "resolve", !.photo = cat, !.todo = Locals(cat)])
             \/ ResolveOwner(c)
             \/ Decide(c) /\ Became(c, [k EXCEPT !.pc = "turn"])
             \/ Turn(c) /\ \E r \in k.orphans : \/ Became(c, [k EXCEPT !.orphans = @ \ {r}])
                                                \/ Became(c, [k EXCEPT !.pc = "collect", !.role = r])
  <1> DEFINE k == call[c]
             Projects ==
                \/ \E rs \in SUBSET Role : Became(c, Projecting(k, rs)) /\ k.op \in {"define", "update"}
                \/ k.pc = "sync" /\ \E rs, ls : Became(c, [k EXCEPT !.pc = "current", !.cover = rs, !.want = ls])
                \/ k.pc = "project" /\ \E ls : Became(c, [k EXCEPT !.pc = "current", !.want = ls])
                \/ k.pc = "current" /\ \E ls : Became(c, [k EXCEPT !.pc = "write", !.have = ls])
                \/ k.pc \in {"current", "write"} /\ Became(c, Projected(k))
  <1>1. ~Projects
    <2> SUFFICES ASSUME Projects
                 PROVE  FALSE
      BY Zenon
    <2> QED
      BY ProjectionGoes, Zenon DEF InProject, InPurge
  <1>2. ~Became(c, NoCall)
    BY IdleFields DEF Became, InPurge
  <1>3. Starts(c) => StartPrune(c)
    <2>1. call'[c] \in Call
      BY DEF CallsOK
    <2>2. ASSUME StartDefine(c) \/ StartUpdate(c) \/ StartDelete(c) \/ StartSync(c)
          PROVE  FALSE
      BY <2>2, StartsOther DEF InPurge
    <2> QED
      BY <2>2 DEF Starts
  <1>4. Define(c) \/ Update(c) => k.op \in {"define", "update"}
    BY DEF Define, Update
  <1>5. /\ Sync(c) => k.pc = "sync"
        /\ Project(c) => k.pc = "project"
        /\ Current(c) => k.pc = "current"
        /\ Write(c) => k.pc = "write"
    BY DEF Sync, Project, Current, Write
  <1>6. Became(c, Purged(k)) => k.op = "prune"
    BY <1>2 DEF Purged
  <1>7. Goes(c)
    BY OwnGoes, SMTT(30)
  <1> QED
    BY <1>1, <1>2, <1>3, <1>4, <1>5, <1>6, <1>7, Zenon DEF Goes

\* Only Residue comes to "drop".
LEMMA DropComes ==
  ASSUME Typed, StateOK', CallsOK', NEW c \in Client, Quietly(c) \/ Writes(c), call'[c].pc = "drop"
  PROVE  FactsOf(call[c].role) = {} /\ call'[c].role = call[c].role /\ Residue(c)
  <1> DEFINE k == call[c]
  <1>1. k \in Call
    BY DEF Typed, CallsOK
  <1>2. CASE Residue(c) /\ Became(c, [k EXCEPT !.pc = "drop", !.dirty = {}]) /\ FactsOf(k.role) = {}
    BY <1>1, <1>2 DEF Became, Call
  <1>3. CASE StartPrune(c) \/ (Checks(c) /\ call'[c].pc \in Looking \cup {"commit", "collect"})
    BY <1>3, StartMoves DEF Looking
  <1>4. CASE Became(c, [k EXCEPT !.pc = "erase", !.facts = FactsOf(k.role), !.have = PermitsOf(k.role)])
    BY <1>1, <1>4 DEF Became, Call
  <1>5. CASE Became(c, [k EXCEPT !.pc = "residue", !.facts = {}, !.have = {}])
    BY <1>1, <1>5 DEF Became, Call
  <1>6. CASE k.op = "prune" /\ Became(c, Purged(k))
    <2>1. Purged(k) = [k EXCEPT !.pc = "turn", !.orphans = @ \ {k.role}, !.dirty = {}, !.late = FALSE]
      BY <1>6 DEF Purged
    <2> QED
      BY <1>1, <1>6, <2>1 DEF Became, Call
  <1>7. CASE Became(c, [k EXCEPT !.pc = "resolve", !.photo = cat, !.todo = Locals(cat)])
    BY <1>1, <1>7 DEF Became, Call
  <1>8. CASE ResolveOwner(c)
    <2>1. k.pc = "resolve" /\ \E ts, os : Put(c, [k EXCEPT !.todo = ts, !.orphans = os])
      BY <1>8, Zenon DEF ResolveOwner
    <2>2. \E ts, os : call'[c] = [k EXCEPT !.todo = ts, !.orphans = os]
      BY <2>1, PutMoves, Zenon
    <2> QED
      BY <1>1, <2>1, <2>2 DEF Call
  <1>9. CASE Became(c, [k EXCEPT !.pc = "turn"])
    BY <1>1, <1>9 DEF Became, Call
  <1>10. CASE Turn(c) /\ \E r \in k.orphans : \/ Became(c, [k EXCEPT !.orphans = @ \ {r}])
                                              \/ Became(c, [k EXCEPT !.pc = "collect", !.role = r])
    <2>1. k.pc = "turn"
      BY <1>10, Zenon DEF Turn
    <2> QED
      BY <1>1, <1>10, <2>1 DEF Became, Call
  <1> QED
    BY <1>2, <1>3, <1>4, <1>5, <1>6, <1>7, <1>8, <1>9, <1>10, PurgeGoes, Zenon DEF InPurge

LEMMA EmptyStep ==
  ASSUME Typed, StateOK', CallsOK', Step, EmptyOrLate
  PROVE  EmptyOrLate'
  <1> SUFFICES ASSUME NEW d \in Client, call'[d].pc = "drop"
               PROVE  FactsOf(call[d].role)' = {} \/ call'[d].late
    BY DEF EmptyOrLate
  <1>1. call[d] \in Call
    BY DEF Typed, CallsOK
  <1>2. ASSUME held' \subseteq held, FactsOf(call[d].role) = {}, call'[d].role = call[d].role
        PROVE  FactsOf(call[d].role)' = {}
    BY <1>2 DEF FactsOf
  <1>3. CASE Around
    <2>1. /\ call'[d].pc = call[d].pc /\ call'[d].role = call[d].role
      BY <1>1, <1>3, AroundLike, LikeFields
    <2>2. call[d].late => call'[d].late
      BY <1>1, <1>3, AroundFrame DEF Typed, Call
    <2>3. CASE \E k \in held' \ held : k[3] = call[d].role
      BY <1>3, <2>1, <2>3, AroundLands
    <2>4. CASE ~\E k \in held' \ held : k[3] = call[d].role
      BY <2>1, <2>2, <2>4 DEF EmptyOrLate, FactsOf
    <2> QED
      BY <2>3, <2>4
  <1>4. ASSUME NEW c \in Client, Quietly(c) \/ Writes(c)
        PROVE  FactsOf(call[d].role)' = {} \/ call'[d].late
    <2>1. CASE d = c
      BY <1>2, <1>4, <2>1, DropComes, OthersHold
    <2>2. CASE d # c
      <3>1. Like(call[d], call'[d]) /\ call'[d].late = call[d].late
        BY <1>4, <2>2, OthersLike
      <3>2. /\ call'[d].pc = call[d].pc /\ call'[d].role = call[d].role
        BY <1>1, <3>1, LikeFields
      <3> QED
        BY <1>2, <1>4, <3>1, <3>2, OthersHold DEF EmptyOrLate
    <2> QED
      BY <2>1, <2>2
  <1> QED
    BY <1>3, <1>4, StepCases

-----------------------------------------------------------------------------
(* What a prune has in hand.                                               *)

Taking == {"collect"} \cup InPurge

\* The orphans are local roles of its photo, at most half of them, and there are some only if
\* the resolver answered for the owner of another; the one that it takes has an owner that was
\* gone since the turn.
PruneBy(k, had) ==
    /\ k.pc = "list" => k.orphans = {}
    /\ k.pc # "list" => k.orphans \subseteq Locals(k.photo) /\ k.todo \subseteq Locals(k.photo)
    /\ k.pc = "resolve" => \/ had.sighted
                           \/ Locals(k.photo) \subseteq k.todo \cup k.orphans
    /\ k.pc \notin {"list", "resolve"} =>
          /\ had.sighted \/ k.orphans = {}
          /\ 2 * Cardinality(k.orphans) <= Cardinality(Locals(k.photo))
    /\ k.pc \in Taking => k.role \in k.orphans /\ k.photo.rows[k.role].owner \in had.gone

PruneOK == \A c \in Client : call[c].op = "prune" => PruneBy(call[c], seen[c])

LEMMA LocalsFinite ==
  ASSUME NEW rows \in Catalog, NEW rs \in SUBSET Locals(rows)
  PROVE  /\ IsFiniteSet(Locals(rows)) /\ IsFiniteSet(rs)
         /\ Cardinality(rs) <= Cardinality(Locals(rows))
         /\ Cardinality(rs) \in Nat /\ Cardinality(Locals(rows)) \in Nat
  <1>1. IsFiniteSet(Role)
    BY RolesAssumption
  <1>2. Locals(rows) \subseteq Role
    BY RowsOf
  <1>3. IsFiniteSet(Locals(rows))
    BY <1>1, <1>2, FS_Subset
  <1> QED
    BY <1>3, FS_Subset, FS_CardinalityType

\* The history of a prune.
LEMMA PruneSeen ==
  ASSUME Typed, Remember, NEW c \in Client, call[c].op = "prune", call'[c].op = "prune"
  PROVE  /\ Looks(call[c]) /\ (seen[c].sighted \/ (Looks(call'[c]) /\ ~blind')) => seen'[c].sighted
         /\ Purges(call[c]) /\ Purges(call'[c]) =>
               /\ seen[c].sighted => seen'[c].sighted
               /\ {s \in Scope : ~Resolves(s)}' \subseteq seen'[c].gone
               /\ call'[c].pc # "turn" => seen[c].gone \subseteq seen'[c].gone
  <1> DEFINE k == call[c]
             j == call'[c]
             now == Now(call[c])'
  <1>1. now = [roles |-> now.roles, links |-> now.links, denied |-> now.denied,
               sighted |-> now.sighted, gone |-> now.gone, crossed |-> now.crossed]
    BY DEF Now
  <1>2. /\ now.sighted = (Looks(call[c]) /\ ~blind)'
        /\ now.gone = (IF Purges(call[c]) THEN {s \in Scope : ~Resolves(s)} ELSE {})'
    BY DEF Now
  <1>3. /\ Looks(call[c])' <=> Looks(j)
        /\ Purges(call[c])' <=> Purges(j)
        /\ ~Delegates(k)
    BY DEF Looks, Purges, Delegates
  <1>4. seen'[c] = Remembered(c)
    BY DEF Remember
  <1>5. CASE Looks(k) /\ Looks(j)
    <2> ~Purges(j) /\ ~Purges(k)
      BY <1>5 DEF Purges
    <2>1. Remembered(c) = [now EXCEPT !.sighted = @ \/ seen[c].sighted]
      <3> HIDE DEF now
      <3> QED
        BY <1>3, <1>5 DEF Remembered, now
    <2>2. seen'[c].sighted = (now.sighted \/ seen[c].sighted)
      <3> HIDE DEF now
      <3> QED
        BY <1>1, <1>4, <2>1
    <2>3. ~Purges(k)
      BY <1>5 DEF Purges
    <2> QED
      BY <1>2, <1>3, <1>5, <2>2, <2>3
  <1>6. CASE Looks(k) /\ ~Looks(j)
    <2>1. Purges(j) /\ ~Purges(k)
      BY <1>6 DEF Purges
    <2>2. Remembered(c) = [now EXCEPT !.sighted = seen[c].sighted]
      BY <1>3, <1>6, <2>1 DEF Remembered
    <2>3. seen'[c].sighted = seen[c].sighted
      <3> HIDE DEF now
      <3> QED
        BY <1>1, <1>4, <2>2
    <2> QED
      BY <1>6, <2>1, <2>3
  <1>7. CASE Purges(k) /\ Purges(j)
    <2> DEFINE gone == IF k.pc # "turn" /\ j.pc = "turn" THEN now.gone ELSE now.gone \cup seen[c].gone
    <2>1. ~Looks(k)
      BY <1>7 DEF Purges
    <2>2. Remembered(c) = [now EXCEPT !.sighted = seen[c].sighted, !.gone = gone]
      <3>1. Remembered(c) = [now EXCEPT !.sighted = seen[c].sighted,
                                        !.gone = IF k.pc # "turn" /\ j.pc = "turn" THEN @
                                                 ELSE @ \cup seen[c].gone]
        BY <1>3, <1>7, <2>1 DEF Remembered
      <3> HIDE DEF now
      <3> QED
        BY <3>1
    <2>3. seen'[c].sighted = seen[c].sighted /\ seen'[c].gone = gone
      <3> HIDE DEF now, gone
      <3> QED
        BY <1>1, <1>4, <2>2
    <2>4. now.gone = {s \in Scope : ~Resolves(s)}'
      BY <1>2, <1>3, <1>7
    <2> QED
      BY <2>1, <2>3, <2>4
  <1>8. CASE (~Looks(k) /\ ~Purges(k)) \/ (Purges(k) /\ ~Purges(j))
    BY <1>8 DEF Purges, Looks
  <1> QED
    BY <1>5, <1>6, <1>7, <1>8 DEF Purges

LEMMA PruneLike ==
  ASSUME NEW k \in Call, NEW j, j.pc = k.pc, j.orphans = k.orphans, j.todo = k.todo,
         j.photo = k.photo, j.role = k.role, NEW had, NEW has, PruneBy(k, had),
         had.sighted => has.sighted, k.pc # "turn" => had.gone \subseteq has.gone
  PROVE  PruneBy(j, has)
  <1>1. k.pc \in Taking => k.pc # "turn"
    BY DEF Taking, InPurge
  <1> QED
    BY <1>1 DEF PruneBy

\* A pass that decides has seen some owner, if it has orphans.
LEMMA DecidedOK ==
  ASSUME NEW k \in Call, NEW had, k.pc = "resolve", k.todo = {}, PruneBy(k, had),
         ~MassPurge(Locals(k.photo), k.orphans, k.photo.rows)
  PROVE  /\ had.sighted \/ k.orphans = {}
         /\ 2 * Cardinality(k.orphans) <= Cardinality(Locals(k.photo))
  <1>1. k.orphans \subseteq Locals(k.photo) /\ k.photo \in Catalog
    BY DEF PruneBy, Call
  <1>2. /\ Cardinality(k.orphans) \in Nat /\ Cardinality(Locals(k.photo)) \in Nat
    BY <1>1, LocalsFinite
  <1>3. CASE k.orphans = {}
    BY <1>2, <1>3, FS_EmptySet
  <1>4. CASE k.orphans # {}
    <2>1. /\ {k.photo.rows[r].owner : r \in k.orphans} # {k.photo.rows[r].owner : r \in Locals(k.photo)}
          /\ ~(2 * Cardinality(k.orphans) > Cardinality(Locals(k.photo)))
      BY <1>4 DEF MassPurge
    <2>2. k.orphans # Locals(k.photo)
      BY <2>1
    <2>3. had.sighted
      BY <1>1, <2>2, Zenon DEF PruneBy
    <2> QED
      BY <1>2, <2>1, <2>3
  <1> QED
    BY <1>3, <1>4

LEMMA OwnPrune ==
  ASSUME Base, StateOK', CallsOK', Remember, NEW c \in Client, Quietly(c) \/ Writes(c),
         call'[c].op = "prune", call[c].op = "prune" => PruneBy(call[c], seen[c])
  PROVE  PruneBy(call'[c], seen'[c])
  <1> DEFINE k == call[c]
             j == call'[c]
  <1>1. k \in Call /\ PathOK(k) /\ Typed /\ k.photo \in Catalog /\ cat \in Catalog
    BY DEF Base, Typed, CallsOK, StateOK, Call
  <1>2. ASSUME k.op = "prune"
        PROVE  /\ PruneBy(k, seen[c])
               /\ Looks(k) /\ (seen[c].sighted \/ (Looks(j) /\ ~blind')) => seen'[c].sighted
               /\ Purges(k) /\ Purges(j) =>
                     /\ seen[c].sighted => seen'[c].sighted
                     /\ {s \in Scope : ~Resolves(s)}' \subseteq seen'[c].gone
                     /\ j.pc # "turn" => seen[c].gone \subseteq seen'[c].gone
    BY <1>1, <1>2, PruneSeen
  <1>3. Looks(j) <=> j.pc \in {"list", "resolve"}
    BY DEF Looks
  <1>4. Purges(j) <=> ~(j.pc \in {"list", "resolve"})
    BY <1>3 DEF Purges
  <1>5. k.op = "prune" => /\ Looks(k) <=> k.pc \in {"list", "resolve"}
                          /\ Purges(k) <=> ~(k.pc \in {"list", "resolve"})
    BY DEF Looks, Purges
  <1>6. CASE StartPrune(c)
    <2>1. j.orphans = {} /\ k.pc = "idle"
      BY <1>1, <1>6, StartMoves
    <2>2. call'[c] = [NoCall EXCEPT !.op = "prune", !.pc = "list"]
      BY <1>1, <1>6, PutMoves DEF StartPrune, Begin
    <2>3. j.pc = "list"
      BY <2>2, NoCallType DEF Call
    <2> QED
      BY <2>1, <2>3 DEF PruneBy, Taking, InPurge
  <1>7. CASE Checks(c) /\ j.op = k.op
    <2>1. k.pc \in Looking
      BY <1>7, Zenon DEF Checks, ReadChain, View, ReadRoles, ReadDenies, Shadows, Looking
    <2> QED
      BY <1>1, <1>7, <2>1 DEF PathOK, Looking, InPrune, InPurge
  <1>8. ASSUME k.op = "prune", k.pc \in Taking, j.pc \in Taking, j.orphans = k.orphans, j.todo = k.todo,
               j.photo = k.photo, j.role = k.role
        PROVE  PruneBy(j, seen'[c])
    <2>1. Purges(k) /\ Purges(j) /\ k.pc # "turn" /\ j.pc # "turn" /\ k.pc # "list" /\ j.pc # "list"
          /\ k.pc # "resolve" /\ j.pc # "resolve"
      BY <1>4, <1>5, <1>8 DEF Taking, InPurge
    <2>2. /\ seen[c].sighted => seen'[c].sighted
          /\ seen[c].gone \subseteq seen'[c].gone
      BY <1>2, <1>8, <2>1
    <2> QED
      BY <1>2, <1>8, <2>1, <2>2 DEF PruneBy
  <1>9. CASE Collect(c) /\ Became(c, [k EXCEPT !.pc = "erase", !.facts = FactsOf(k.role),
                                               !.have = PermitsOf(k.role)])
    <2>1. /\ j.op = k.op /\ j.pc = "erase" /\ j.orphans = k.orphans /\ j.todo = k.todo
          /\ j.photo = k.photo /\ j.role = k.role /\ k.pc = "collect"
      BY <1>1, <1>9 DEF Became, Call, Collect
    <2> QED
      BY <1>8, <2>1 DEF Taking, InPurge
  <1>10. CASE Erase(c) /\ Became(c, [k EXCEPT !.pc = "residue", !.facts = {}, !.have = {}])
    <2>1. /\ j.op = k.op /\ j.pc = "residue" /\ j.orphans = k.orphans /\ j.todo = k.todo
          /\ j.photo = k.photo /\ j.role = k.role /\ k.pc = "erase"
      BY <1>1, <1>10 DEF Became, Call, Erase
    <2> QED
      BY <1>8, <2>1 DEF Taking, InPurge
  <1>11. CASE Residue(c) /\ Became(c, [k EXCEPT !.pc = "drop", !.dirty = {}])
    <2>1. /\ j.op = k.op /\ j.pc = "drop" /\ j.orphans = k.orphans /\ j.todo = k.todo
          /\ j.photo = k.photo /\ j.role = k.role /\ k.pc = "residue"
      BY <1>1, <1>11 DEF Became, Call, Residue
    <2> QED
      BY <1>8, <2>1 DEF Taking, InPurge
  <1>12. ASSUME k.op = "prune", k.pc \notin {"list", "resolve"}, j.pc = "turn",
                NEW rs, j.orphans = k.orphans \ rs, j.todo = k.todo, j.photo = k.photo
         PROVE  PruneBy(j, seen'[c])
    <2>1. Purges(k) /\ Purges(j)
      BY <1>4, <1>5, <1>12
    <2>2. seen[c].sighted => seen'[c].sighted
      BY <1>2, <1>12, <2>1
    <2>3. /\ seen[c].sighted \/ k.orphans = {}
          /\ k.orphans \subseteq Locals(k.photo) /\ k.todo \subseteq Locals(k.photo)
          /\ 2 * Cardinality(k.orphans) <= Cardinality(Locals(k.photo))
      BY <1>2, <1>12 DEF PruneBy
    <2>4. 2 * Cardinality(j.orphans) <= Cardinality(Locals(k.photo))
      <3>1. IsFiniteSet(k.orphans) /\ Cardinality(k.orphans) \in Nat /\ Cardinality(Locals(k.photo)) \in Nat
        BY <1>1, <2>3, LocalsFinite
      <3>2. j.orphans \subseteq k.orphans
        BY <1>12
      <3>3. Cardinality(j.orphans) <= Cardinality(k.orphans) /\ Cardinality(j.orphans) \in Nat
        BY <3>1, <3>2, FS_Subset, FS_CardinalityType
      <3> QED
        BY <2>3, <3>1, <3>3
    <2> QED
      BY <1>12, <2>2, <2>3, <2>4 DEF PruneBy, Taking, InPurge
  <1>13. CASE Drop(c) /\ k.op = "prune" /\ Became(c, Purged(k))
    <2>1. Purged(k) = [k EXCEPT !.pc = "turn", !.orphans = @ \ {k.role}, !.dirty = {}, !.late = FALSE]
      BY <1>13 DEF Purged
    <2>2. /\ j.pc = "turn" /\ j.orphans = k.orphans \ {k.role} /\ j.todo = k.todo
          /\ j.photo = k.photo /\ k.pc = "drop"
      BY <1>1, <1>13, <2>1 DEF Became, Call, Drop
    <2> QED
      BY <1>12, <1>13, <2>2
  <1>14. CASE ListLocals(c) /\ Became(c, [k EXCEPT !.pc = "resolve", !.photo = cat, !.todo = Locals(cat)])
    <2>1. /\ j.op = k.op /\ j.pc = "resolve" /\ j.orphans = k.orphans /\ j.todo = Locals(cat)
          /\ j.photo = cat /\ k.pc = "list"
      BY <1>1, <1>14 DEF Became, Call, ListLocals
    <2> QED
      BY <1>2, <2>1 DEF PruneBy, Taking, InPurge
  <1>15. CASE ResolveOwner(c)
    <2> DEFINE same(r) == {q \in k.todo : k.photo.rows[q].owner = k.photo.rows[r].owner}
               left1(r) == k.todo \ same(r)
               orphans1(r) == IF Resolves(k.photo.rows[r].owner) THEN k.orphans ELSE k.orphans \cup same(r)
    <2>1. PICK r \in k.todo : Put(c, [k EXCEPT !.todo = left1(r), !.orphans = orphans1(r)])
      BY <1>15, Zenon DEF ResolveOwner
    <2>2. j = [k EXCEPT !.todo = left1(r), !.orphans = orphans1(r)]
      BY <1>1, <2>1, PutMoves
    <2>3. k.pc = "resolve" /\ k.op = "prune"
      BY <1>1, <1>15 DEF ResolveOwner, PathOK, Call, Looking, InProject, InPurge, InPrune
    <2>4. j.op = k.op /\ j.pc = k.pc /\ j.photo = k.photo /\ j.todo = left1(r) /\ j.orphans = orphans1(r)
      <3> HIDE DEF left1, orphans1
      <3> QED
        BY <1>1, <2>2 DEF Call
    <2>5. /\ k.orphans \subseteq Locals(k.photo) /\ k.todo \subseteq Locals(k.photo)
          /\ seen[c].sighted \/ Locals(k.photo) \subseteq k.todo \cup k.orphans
      BY <1>2, <2>3 DEF PruneBy
    <2>6. /\ Looks(k) /\ Looks(j)
      BY <1>3, <1>5, <2>3, <2>4
    <2>7. CASE Resolves(k.photo.rows[r].owner)
      <3>1. ~blind
        BY <2>7 DEF Resolves
      <3>2. blind' = blind
        BY <1>1, <1>15, QuietFrame DEF Quietly, Typed
      <3>3. seen'[c].sighted
        BY <1>2, <2>3, <2>6, <3>1, <3>2
      <3>4. j.orphans = k.orphans /\ j.todo \subseteq k.todo
        BY <2>4, <2>7
      <3> QED
        BY <2>3, <2>4, <2>5, <3>3, <3>4 DEF PruneBy, Taking, InPurge
    <2>8. CASE ~Resolves(k.photo.rows[r].owner)
      <3>1. seen[c].sighted => seen'[c].sighted
        BY <1>2, <2>3, <2>6
      <3>2. j.orphans = k.orphans \cup same(r) /\ j.todo = k.todo \ same(r) /\ same(r) \subseteq k.todo
        BY <2>4, <2>8
      <3> HIDE DEF same
      <3>3. k.todo \cup k.orphans = j.todo \cup j.orphans /\ j.orphans \subseteq Locals(k.photo)
            /\ j.todo \subseteq Locals(k.photo)
        BY <2>5, <3>2
      <3> QED
        BY <2>3, <2>4, <2>5, <3>1, <3>3 DEF PruneBy, Taking, InPurge
    <2> QED
      BY <2>7, <2>8, SMTT(30)
  <1>16. CASE Decide(c) /\ Became(c, [k EXCEPT !.pc = "turn"])
    <2>1. /\ j.op = k.op /\ j.pc = "turn" /\ j.orphans = k.orphans /\ j.todo = k.todo
          /\ j.photo = k.photo /\ k.pc = "resolve" /\ k.todo = {}
      BY <1>1, <1>16 DEF Became, Call, Decide
    <2>2. ~MassPurge(Locals(k.photo), k.orphans, k.photo.rows)
      <3> SUFFICES ASSUME MassPurge(Locals(k.photo), k.orphans, k.photo.rows)
                   PROVE  FALSE
        OBVIOUS
      <3>1. j = NoCall
        BY <1>1, <1>16, PutMoves DEF Decide
      <3> QED
        BY <3>1, IdleFields
    <2>3. /\ seen[c].sighted \/ k.orphans = {}
          /\ 2 * Cardinality(k.orphans) <= Cardinality(Locals(k.photo))
          /\ k.orphans \subseteq Locals(k.photo) /\ k.todo \subseteq Locals(k.photo)
      BY <1>1, <1>2, <2>1, <2>2, DecidedOK DEF PruneBy
    <2>4. seen[c].sighted => seen'[c].sighted
      BY <1>2, <1>5, <2>1
    <2> QED
      BY <2>1, <2>3, <2>4 DEF PruneBy, Taking, InPurge
  <1>17. CASE Turn(c) /\ \E r \in k.orphans : \/ Became(c, [k EXCEPT !.orphans = @ \ {r}])
                                              \/ Became(c, [k EXCEPT !.pc = "collect", !.role = r])
    <2>1. k.pc = "turn" /\ k.op = "prune"
      BY <1>1, <1>17, Zenon DEF Turn, PathOK, Call, Looking, InProject, InPurge, InPrune
    <2>2. PICK r \in k.orphans :
             \/ j = [k EXCEPT !.orphans = @ \ {r}]
             \/ ~Resolves(k.photo.rows[r].owner) /\ j = [k EXCEPT !.pc = "collect", !.role = r]
      <3>1. j # NoCall
        BY IdleFields, SMTT(30)
      <3>2. PICK r \in k.orphans :
               Put(c, IF Resolves(k.photo.rows[r].owner) THEN [k EXCEPT !.orphans = @ \ {r}]
                      ELSE [k EXCEPT !.pc = "collect", !.role = r])
        BY <1>1, <1>17, <3>1, PutMoves, Zenon DEF Turn
      <3>3. j = IF Resolves(k.photo.rows[r].owner) THEN [k EXCEPT !.orphans = @ \ {r}]
                ELSE [k EXCEPT !.pc = "collect", !.role = r]
        BY <1>1, <3>2, PutMoves
      <3> QED
        BY <3>3, Zenon
    <2>3. CASE j = [k EXCEPT !.orphans = @ \ {r}]
      <3>1. /\ j.pc = k.pc /\ j.orphans = k.orphans \ {r} /\ j.todo = k.todo /\ j.photo = k.photo
        BY <1>1, <2>3 DEF Call
      <3> QED
        BY <1>12, <2>1, <3>1
    <2>4. CASE ~Resolves(k.photo.rows[r].owner) /\ j = [k EXCEPT !.pc = "collect", !.role = r]
      <3>1. /\ j.op = k.op /\ j.pc = "collect" /\ j.orphans = k.orphans /\ j.todo = k.todo
            /\ j.photo = k.photo /\ j.role = r
        BY <1>1, <2>4 DEF Call
      <3>2. Purges(k) /\ Purges(j)
        BY <1>4, <1>5, <2>1, <3>1
      <3>3. /\ seen[c].sighted \/ k.orphans = {}
            /\ k.orphans \subseteq Locals(k.photo) /\ k.todo \subseteq Locals(k.photo)
            /\ 2 * Cardinality(k.orphans) <= Cardinality(Locals(k.photo))
        BY <1>2, <2>1 DEF PruneBy
      <3>4. k.photo.rows[r].owner \in Scope
        BY <1>1, <3>3, RowsOf
      <3>5. UNCHANGED <<known, blind>>
        BY <1>1, <1>17, QuietFrame DEF Quietly, Typed
      <3>6. k.photo.rows[r].owner \in {s \in Scope : ~Resolves(s)}'
        BY <2>4, <3>4, <3>5 DEF Resolves
      <3>7. k.photo.rows[r].owner \in seen'[c].gone /\ (seen[c].sighted => seen'[c].sighted)
        BY <1>2, <2>1, <3>2, <3>6
      <3> QED
        BY <2>1, <3>1, <3>3, <3>7 DEF PruneBy
    <2> QED
      BY <2>2, <2>3, <2>4
  <1> QED
    BY <1>1, <1>6, <1>7, <1>9, <1>10, <1>11, <1>13, <1>14, <1>15, <1>16, <1>17, PurgeGoes, Zenon

LEMMA PruneStep ==
  ASSUME Base, StateOK', CallsOK', Next, PruneOK
  PROVE  PruneOK'
  <1>1. ASSUME NEW d \in Client, call'[d].op = "prune", Like(call[d], call'[d])
        PROVE  PruneBy(call'[d], seen'[d])
    <2> DEFINE k == call[d]
               j == call'[d]
    <2>1. k \in Call /\ Typed
      BY DEF Base, Typed, CallsOK
    <2>2. /\ j.op = k.op /\ j.pc = k.pc /\ j.role = k.role /\ j.photo = k.photo
          /\ j.todo = k.todo /\ j.orphans = k.orphans
      BY <1>1, <2>1, LikeFields
    <2>3. PruneBy(k, seen[d])
      BY <1>1, <2>2 DEF PruneOK
    <2>4. /\ seen[d].sighted => seen'[d].sighted
          /\ k.pc \in Taking => seen[d].gone \subseteq seen'[d].gone
      <3>1. CASE Looks(k)
        <4>1. k.pc \notin Taking
          BY <3>1 DEF Looks, Taking, InPurge
        <4>2. seen[d].sighted => seen'[d].sighted
          BY <1>1, <2>1, <2>2, <3>1, PruneSeen DEF Next
        <4> QED
          BY <4>1, <4>2
      <3>2. CASE ~Looks(k)
        <4>1. Purges(k) /\ Purges(j)
          BY <1>1, <2>2, <3>2 DEF Purges, Looks
        <4>2. k.pc \in Taking => j.pc # "turn"
          BY <2>2 DEF Taking, InPurge
        <4> QED
          BY <1>1, <2>1, <2>2, <4>1, <4>2, PruneSeen DEF Next
      <3> QED
        BY <3>1, <3>2
    <2> QED
      BY <2>1, <2>2, <2>3, <2>4 DEF PruneBy
  <1>2. CASE Around
    BY <1>1, <1>2, AroundLike DEF PruneOK, Base
  <1>3. ASSUME NEW c \in Client, Quietly(c) \/ Writes(c)
        PROVE  PruneOK'
    <2> SUFFICES ASSUME NEW d \in Client, call'[d].op = "prune"
                 PROVE  PruneBy(call'[d], seen'[d])
      BY DEF PruneOK
    <2>1. CASE d = c
      BY <1>3, <2>1, OwnPrune DEF PruneOK, Next
    <2>2. CASE d # c
      BY <1>1, <1>3, <2>2, OthersLike DEF Base
    <2> QED
      BY <2>1, <2>2
  <1> QED
    BY <1>2, <1>3, StepCases DEF Next

Purging == Base /\ EmptyOrLate /\ PruneOK

LEMMA PurgingStep ==
  Purging /\ [Next]_vars => Purging'
  <1> SUFFICES ASSUME Purging, [Next]_vars
               PROVE  Purging'
    OBVIOUS
  <1>1. Base'
    BY BaseStep DEF Purging
  <1>2. CASE Next
    <2>1. StateOK' /\ CallsOK' /\ Typed
      BY <1>1 DEF Base, Typed, Purging
    <2> QED
      BY <1>1, <1>2, <2>1, EmptyStep, PruneStep DEF Purging, Next
  <1>3. CASE UNCHANGED vars
    BY <1>1, <1>3 DEF Purging, EmptyOrLate, FactsOf, PruneOK, vars
  <1> QED
    BY <1>2, <1>3

LEMMA PurgingHolds ==
  Spec => []Purging
  <1>1. Init => EmptyOrLate /\ PruneOK
    BY IdleFields DEF Init, EmptyOrLate, PruneOK
  <1> QED
    BY <1>1, InitBase, PurgingStep, PTL DEF Spec, Purging

\* What takes roles away takes all of each, only those whose owner was gone, and never most
\* of them (purgeRole and pruneOrphanRoles), whatever others write between its requests.
THEOREM PruneIsSafe == Spec => PruneSafe
  <1>1. ASSUME Purging, NEW c \in Client, NEW r \in Role, Dropped(c, r)
        PROVE  /\ FactsOf(r) = {} \/ call[c].late
               /\ call[c].op = "prune" =>
                     /\ cat.rows[r].owner \in seen[c].gone
                     /\ seen[c].sighted
                     /\ 2 * Cardinality(call[c].orphans) <= Cardinality(Locals(call[c].photo))
    <2>1. call[c].pc = "drop" /\ call[c].role = r /\ r \in Present(cat)
      BY <1>1 DEF Dropped, Present
    <2>2. FactsOf(r) = {} \/ call[c].late
      BY <1>1, <2>1 DEF Purging, EmptyOrLate
    <2>3. ASSUME call[c].op = "prune"
          PROVE  /\ cat.rows[r].owner \in seen[c].gone
                 /\ seen[c].sighted
                 /\ 2 * Cardinality(call[c].orphans) <= Cardinality(Locals(call[c].photo))
      <3>1. PruneBy(call[c], seen[c])
        BY <1>1, <2>3 DEF Purging, PruneOK
      <3>2. /\ r \in call[c].orphans /\ call[c].photo.rows[r].owner \in seen[c].gone
            /\ call[c].orphans \subseteq Locals(call[c].photo)
            /\ seen[c].sighted \/ call[c].orphans = {}
            /\ 2 * Cardinality(call[c].orphans) <= Cardinality(Locals(call[c].photo))
        BY <2>1, <3>1 DEF PruneBy, Taking, InPurge
      <3>3. cat.rows[r].owner = call[c].photo.rows[r].owner
        BY <1>1, <2>1, <3>2 DEF Purging, Base, Apart, Steady
      <3> QED
        BY <3>2, <3>3
    <2> QED
      BY <2>2, <2>3
  <1>2. Spec => PurgedIsEmpty
    <2>1. Purging /\ [Next]_vars =>
             [\A c \in Client, r \in Role : Dropped(c, r) => FactsOf(r) = {} \/ call[c].late]_vars
      BY <1>1
    <2> QED
      BY <2>1, PurgingHolds, PTL DEF Spec, PurgedIsEmpty
  <1>3. Spec => PruneSparesKnown
    <2>1. Purging /\ [Next]_vars =>
             [\A c \in Client, r \in Role : Dropped(c, r) /\ call[c].op = "prune"
                 => cat.rows[r].owner \in seen[c].gone]_vars
      BY <1>1
    <2> QED
      BY <2>1, PurgingHolds, PTL DEF Spec, PruneSparesKnown
  <1>4. Spec => PruneBounded
    <2>1. Purging /\ [Next]_vars =>
             [\A c \in Client, r \in Role : Dropped(c, r) /\ call[c].op = "prune" =>
                 /\ seen[c].sighted
                 /\ 2 * Cardinality(call[c].orphans) <= Cardinality(Locals(call[c].photo))]_vars
      BY <1>1
    <2> QED
      BY <2>1, PurgingHolds, PTL DEF Spec, PruneBounded
  <1> QED
    BY <1>2, <1>3, <1>4 DEF PruneSafe

-----------------------------------------------------------------------------
(* What the store says of a role, and the projections in hand.             *)

Of(ls, r) == {l \in ls : l[1] = r}

\* What a projection has read of the roles that nobody has written under it; what a purge is
\* to erase, and what it has read again.
Tracks(k, links, store) ==
    /\ k.pc \in {"current", "write"} =>
          /\ k.want \subseteq k.cover \X Perm
          /\ \A r \in k.cover \ k.dirty : Of(k.want, r) = Of(links, r)
    /\ k.pc = "write" =>
          /\ k.have \subseteq k.cover \X Perm
          /\ \A r \in k.cover \ k.dirty : Of(k.have, r) = Of(store, r)
    /\ k.pc = "erase" => k.have \subseteq {k.role} \X Perm
    /\ k.pc = "drop" /\ k.role \notin k.dirty => Of(store, k.role) = {}

Tracked == \A c \in Client : Tracks(call[c], Links(cat), permits)

\* The projection of r is no one's task, or only of purges that find it purged.
Settled(r) ==
    /\ r \notin drift
    /\ \A c \in Client : r \in Pending(c) => call[c].pc = "drop" /\ r \notin Present(cat)

Followed == \A r \in Role : Settled(r) => Of(permits, r) = Of(Links(cat), r)

LEMMA OfLinks ==
  ASSUME NEW rows \in Catalog, NEW r \in Role
  PROVE  Of(Links(rows), r) = {r} \X PermsOf(rows, r)
  BY RowsOf DEF Of, Links, PermsOf, Present

\* Only what is marked as crossed may change under a projection.
LEMMA TracksElse ==
  ASSUME NEW k \in Call, NEW j, Like(k, j), k.dirty \subseteq j.dirty,
         NEW links, NEW store, NEW links2, NEW store2, Tracks(k, links, store),
         k.pc \in {"current", "write"} => \A r \in Role \ j.dirty : Of(links2, r) = Of(links, r),
         k.pc = "write" => \A r \in Role \ j.dirty : Of(store2, r) = Of(store, r),
         k.pc = "drop" /\ k.role \notin j.dirty => Of(store2, k.role) \subseteq Of(store, k.role)
  PROVE  Tracks(j, links2, store2)
  <1>1. /\ j.pc = k.pc /\ j.role = k.role /\ j.cover = k.cover /\ j.want = k.want /\ j.have = k.have
    BY LikeFields
  <1>2. k.cover \subseteq Role /\ k.role \in Role
    BY DEF Call
  <1> QED
    BY <1>1, <1>2 DEF Tracks

LEMMA CrossingDirty ==
  ASSUME Typed, NEW c \in Client, NEW new, NEW rs, NEW pcs, call' = Crossing(c, new, rs, pcs),
         NEW d \in Client, d # c, call[d].pc \in pcs
  PROVE  rs \subseteq call'[d].dirty
  <1>1. call[d] \in Call
    BY DEF Typed, CallsOK
  <1>2. call'[d] = [call[d] EXCEPT !.dirty = @ \cup rs]
    BY DEF Crossing
  <1> QED
    BY <1>1, <1>2 DEF Call

\* What a transaction changes, and what it has its call project.
Committed(c, rs, next) ==
    /\ Commit(c, cat', rs, next)
    /\ \A r \in Role \ rs : PermsOf(cat', r) = PermsOf(cat, r)
    /\ Present(cat) \subseteq Present(cat')
    /\ (rs \subseteq next.cover /\ next.pc \in InProject) \/ (rs = {} /\ next = NoCall)
    /\ next.pc \in {"project", "current", "idle"}
    /\ next.pc = "current" => next.cover = Role /\ next.want = Links(cat')
    /\ Pending(c) = {}

LEMMA CommitLinks ==
  ASSUME Base, NEW c \in Client, Define(c) \/ Update(c) \/ Sync(c)
  PROVE  \E rs \in SUBSET Role, next \in Call : Committed(c, rs, next)
  <1> DEFINE k == call[c]
  <1>1. k \in Call /\ PathOK(k) /\ ReadOK(k) /\ cat \in Catalog /\ spare \subseteq Role
        /\ spare \cap Present(cat) = {}
    BY DEF Base, Typed, CallsOK, StateOK, Apart, RowsApart
  <1>2. Pending(c) = {}
    BY DEF Define, Update, Sync, Pending, InProject, InPurge
  <1>3. ASSUME NEW rs \in SUBSET Role, k.op \in {"define", "update"}
        PROVE  /\ Projecting(k, rs) \in Call
               /\ Projecting(k, rs).cover = rs /\ Projecting(k, rs).pc = "project"
    <2>1. Projecting(k, rs) \in Call
      BY <1>1, <1>3, ProjectingOK
    <2>2. Projecting(k, rs).cover = rs /\ Projecting(k, rs).pc = "project"
      BY NoCallType DEF Projecting, Call
    <2> QED
      BY <2>1, <2>2
  <1>4. CASE Define(c)
    <2>1. PICK r \in spare : /\ Commit(c, [cat EXCEPT !.rows[r] = DefinedRow(k)], {r}, Projecting(k, {r}))
                             /\ k.op = "define" /\ k.pc = "commit"
      BY <1>4 DEF Define, DefinedRow
    <2>2. cat' = WithRow(cat, r, DefinedRow(k)) /\ Commit(c, cat', {r}, Projecting(k, {r}))
      BY <2>1 DEF Commit, WithRow
    <2>3. r \in Role /\ r \notin Present(cat) /\ DefinedRow(k) \in Row
      BY <1>1, <2>1, DefinedRowType DEF ReadOK, Looking
    <2>4. \A q \in Role : q # r => cat'.rows[q] = cat.rows[q]
      BY <1>1, <2>2, <2>3, WithRowType
    <2>5. /\ \A q \in Role \ {r} : PermsOf(cat', q) = PermsOf(cat, q)
          /\ Present(cat) \subseteq Present(cat')
      BY <2>3, <2>4 DEF PermsOf, Present
    <2>6. /\ Projecting(k, {r}) \in Call
          /\ Projecting(k, {r}).cover = {r} /\ Projecting(k, {r}).pc = "project"
      BY <1>3, <2>1, <2>3
    <2>7. Committed(c, {r}, Projecting(k, {r}))
      BY <1>2, <2>2, <2>5, <2>6 DEF Committed, InProject
    <2> QED
      BY <2>3, <2>6, <2>7
  <1>5. CASE Update(c)
    <2> DEFINE changed == k.ask.perms \notin {None, k.photo.rows[k.role].perms}
    <2>1. /\ k.op = "update" /\ k.pc = "commit" /\ k.role \in Present(cat) /\ k.role \in Locals(k.photo)
          /\ cat' = WithRow(cat, k.role, UpdatedRow(k))
          /\ Commit(c, cat', IF changed THEN {k.role} ELSE {},
                             IF changed THEN Projecting(k, {k.role}) ELSE NoCall)
      BY <1>1, <1>5, ZenonT(40) DEF Update, UpdatedRow, WithRow, Target, Commit, ReadOK
    <2>2. /\ UpdatedRow(k) \in Row /\ k.role \in Role
          /\ ~changed => UpdatedRow(k).perms = cat.rows[k.role].perms
      BY <1>1, <2>1, UpdatedRowType, Zenon DEF Call
    <2>3. /\ cat'.rows[k.role] = UpdatedRow(k)
          /\ \A q \in Role : q # k.role => cat'.rows[q] = cat.rows[q]
      <3> HIDE DEF changed
      <3>1. UpdatedRow(k) \in Row \cup {None}
        BY <2>2
      <3> QED
        BY <1>1, <2>1, <2>2, <3>1, WithRowType
    <2>4. cat'.rows[k.role] # None
      BY <2>2, <2>3, NoneNotRow, SMTT(30)
    <2>5. /\ \A q \in Role \ {k.role} : PermsOf(cat', q) = PermsOf(cat, q)
          /\ ~changed => PermsOf(cat', k.role) = PermsOf(cat, k.role)
          /\ Present(cat) \subseteq Present(cat')
      BY <2>1, <2>2, <2>3, <2>4, Zenon DEF PermsOf, Present
    <2> HIDE DEF changed
    <2>6. CASE changed
      <3>1. /\ Projecting(k, {k.role}) \in Call
            /\ Projecting(k, {k.role}).cover = {k.role} /\ Projecting(k, {k.role}).pc = "project"
        BY <1>3, <2>1, <2>2
      <3>2. Committed(c, {k.role}, Projecting(k, {k.role}))
        BY <1>2, <2>1, <2>5, <2>6, <3>1 DEF Committed, InProject
      <3> QED
        BY <2>2, <3>1, <3>2
    <2>7. CASE ~changed
      <3>1. \A q \in Role : PermsOf(cat', q) = PermsOf(cat, q)
        BY <2>5, <2>7
      <3>2. Commit(c, cat', {}, NoCall)
        BY <2>1, <2>7
      <3>3. Committed(c, {}, NoCall)
        BY <1>2, <2>5, <3>1, <3>2, IdleFields DEF Committed
      <3> QED
        BY <3>3, NoCallType
    <2> QED
      BY <2>6, <2>7, SMTT(30)
  <1>6. CASE Sync(c)
    <2> DEFINE config == k.plan[k.at]
               new == Synced(cat, config, k.prune)
               rs == Differ(cat, new)
               next == [k EXCEPT !.pc = "current", !.cover = Role, !.want = Links(new)]
    <2>1. k.pc = "sync" /\ Commit(c, new, rs, next) /\ cat' = new
      BY <1>6 DEF Sync, Commit
    <2>2. k.plan \in Plans /\ k.at \in 1..Len(k.plan) /\ k.prune \in BOOLEAN
      BY <1>1, <2>1 DEF PathOK, Call, Looking, InProject, InPurge, InPrune
    <2>3. IsConfig(config)
      BY <2>2, PlanOf
    <2> HIDE DEF config
    <2>4. /\ new \in Catalog
          /\ \A r \in Role : new.rows[r] = cat.rows[r] \/ new.rows[r] \in Row
      BY <1>1, <2>2, <2>3, SyncedType
    <2> HIDE DEF new
    <2>5. Present(cat) \subseteq Present(new) /\ Links(new) \in SUBSET (Role \X Perm)
      BY <2>4, NoneNotRow, RowsOf DEF Present
    <2>6. /\ next \in Call /\ next.cover = Role /\ next.pc = "current" /\ next.want = Links(new)
      BY <1>1, <2>5, ZenonT(40) DEF Call, InProject
    <2>7. rs \in SUBSET Role /\ \A r \in Role \ rs : PermsOf(new, r) = PermsOf(cat, r)
      BY DEF Differ
    <2> HIDE DEF rs, next
    <2>8. Committed(c, rs, next)
      BY <1>2, <2>1, <2>5, <2>6, <2>7 DEF Committed, InProject
    <2> QED
      BY <2>6, <2>7, <2>8
  <1> QED
    BY <1>4, <1>5, <1>6

LEMMA CommitOf ==
  ASSUME cat \in Catalog, cat' \in Catalog, NEW rs, \A r \in Role \ rs : PermsOf(cat', r) = PermsOf(cat, r)
  PROVE  \A r \in Role \ rs : Of(Links(cat'), r) = Of(Links(cat), r)
  BY OfLinks

\* What others do leaves the projection of a call as it is, or marks it.
LEMMA OthersTracked ==
  ASSUME Base, StateOK', Tracked, NEW c \in Client, Quietly(c) \/ Writes(c), NEW d \in Client, d # c
  PROVE  Tracks(call'[d], Links(cat'), permits')
  <1> DEFINE k == call[d]
             j == call'[d]
  <1>1. k \in Call /\ Typed /\ cat \in Catalog /\ cat' \in Catalog
    BY DEF Base, Typed, CallsOK, StateOK
  <1>2. Like(k, j) /\ k.dirty \subseteq j.dirty /\ Tracks(k, Links(cat), permits)
    BY <1>1, OthersLike DEF Tracked
  <1>3. CASE Quietly(c)
    <2>1. cat' = cat /\ permits' = permits
      BY <1>1, <1>3, QuietFrame DEF Typed
    <2> QED
      BY <1>1, <1>2, <2>1, TracksElse
  <1>4. CASE Define(c) \/ Update(c) \/ Sync(c)
    <2>1. PICK rs \in SUBSET Role, next \in Call : Committed(c, rs, next)
      BY <1>4, CommitLinks
    <2>2. permits' = permits
      BY <2>1 DEF Committed, Commit
    <2>3. \E any : call' = Crossing(c, any, rs, {"current", "write"} \cup InPurge)
      BY <2>1 DEF Committed, Commit
    <2>4. k.pc \in {"current", "write"} => rs \subseteq j.dirty
      BY <1>1, <2>3, CrossingDirty
    <2>5. \A r \in Role \ rs : Of(Links(cat'), r) = Of(Links(cat), r)
      BY <1>1, <2>1, CommitOf DEF Committed
    <2> QED
      BY <1>1, <1>2, <2>2, <2>4, <2>5, TracksElse
  <1>5. CASE Write(c)
    <2> DEFINE writes == call[c].want \ call[c].have
               deletes == call[c].have \ call[c].want
               rs == {l[1] : l \in writes \cup deletes}
    <2>1. /\ permits' = (permits \ deletes) \cup writes /\ cat' = cat
          /\ \E any : call' = Crossing(c, any, rs, {"write", "drop"})
      BY <1>5 DEF Write
    <2>2. k.pc \in {"write", "drop"} => rs \subseteq j.dirty
      BY <1>1, <2>1, CrossingDirty
    <2>3. /\ \A r : r \notin rs => Of(permits', r) = Of(permits, r)
          /\ Links(cat') = Links(cat)
      BY <2>1 DEF Of
    <2> HIDE DEF rs
    <2>4. k.pc = "write" => \A r \in Role \ j.dirty : Of(permits', r) = Of(permits, r)
      BY <2>2, <2>3
    <2>5. k.pc = "drop" /\ k.role \notin j.dirty => Of(permits', k.role) \subseteq Of(permits, k.role)
      BY <2>2, <2>3
    <2> QED
      BY <1>1, <1>2, <2>3, <2>4, <2>5, TracksElse
  <1>6. CASE Erase(c)
    <2> DEFINE rs == {call[c].role}
    <2>1. /\ permits' = permits \ call[c].have /\ cat' = cat
          /\ \E any : call' = Crossing(c, any, rs, {"write"})
      BY <1>6 DEF Erase
    <2>2. call[c].have \subseteq rs \X Perm
      BY <1>6 DEF Erase, Tracked, Tracks
    <2>3. /\ \A r : r \notin rs => Of(permits', r) = Of(permits, r)
          /\ \A r : Of(permits', r) \subseteq Of(permits, r)
          /\ Links(cat') = Links(cat)
      BY <2>1, <2>2 DEF Of
    <2> HIDE DEF rs
    <2>4. k.pc = "write" => rs \subseteq j.dirty
      BY <1>1, <2>1, CrossingDirty
    <2>5. k.pc = "write" => \A r \in Role \ j.dirty : Of(permits', r) = Of(permits, r)
      BY <2>3, <2>4
    <2> QED
      BY <1>1, <1>2, <2>3, <2>5, TracksElse
  <1>7. CASE Drop(c)
    <2>1. permits' = permits
      BY <1>7 DEF Drop
    <2>2. CASE cat' = cat
      BY <1>1, <1>2, <2>1, <2>2, TracksElse
    <2>3. CASE cat' # cat
      <3> DEFINE rs == {call[c].role}
      <3>1. /\ cat' = WithRow(cat, call[c].role, None)
            /\ \E any : call' = Crossing(c, any, rs, {"current", "write"} \cup InPurge)
        BY <1>7, <2>3 DEF Drop, WithRow
      <3>2. k.pc \in {"current", "write"} => rs \subseteq j.dirty
        <4>1. \E any : call' = Crossing(c, any, rs, {"current", "write"} \cup InPurge)
          BY <3>1
        <4> HIDE DEF rs
        <4> QED
          BY <1>1, <4>1, CrossingDirty DEF InPurge
      <3>3. call[c].role \in Role
        BY DEF Base, Typed, CallsOK, Call
      <3>4. \A r \in Role \ rs : cat'.rows[r] = cat.rows[r]
        BY <1>1, <3>1, <3>3, WithRowType
      <3>5. \A r \in Role \ rs : PermsOf(cat', r) = PermsOf(cat, r)
        BY <3>4 DEF PermsOf, Present
      <3>6. \A r \in Role \ rs : Of(Links(cat'), r) = Of(Links(cat), r)
        BY <1>1, <3>5, CommitOf
      <3> QED
        BY <1>1, <1>2, <2>1, <3>2, <3>6, TracksElse
    <2> QED
      BY <2>2, <2>3
  <1> QED
    BY <1>3, <1>4, <1>5, <1>6, <1>7 DEF Writes

\* What a call does to its own projection.
LEMMA OwnTracked ==
  ASSUME Base, StateOK', CallsOK', Tracked, NEW c \in Client, Quietly(c) \/ Writes(c)
  PROVE  Tracks(call'[c], Links(cat'), permits')
  <1> DEFINE k == call[c]
             j == call'[c]
  <1>1. k \in Call /\ Typed /\ cat \in Catalog /\ cat' \in Catalog /\ permits \subseteq Role \X Perm
        /\ Tracks(k, Links(cat), permits) /\ j \in Call
    BY DEF Base, Typed, CallsOK, StateOK, Tracked
  <1>2. ASSUME j.pc \notin {"current", "write", "erase", "drop"}
        PROVE  Tracks(j, Links(cat'), permits')
    BY <1>2 DEF Tracks
  <1>3. CASE Became(c, NoCall)
    BY <1>2, <1>3, IdleFields DEF Became
  <1>4. CASE Starts(c)
    <2>1. j.pc \in {"chain", "view", "sync", "list"}
      BY <1>1, <1>4, StartMoves DEF Starts
    <2> QED
      BY <1>2, <2>1
  <1>5. CASE Checks(c) /\ j.pc \in Looking \cup {"commit", "collect"}
    BY <1>2, <1>5 DEF Looking
  <1>6. CASE Define(c) \/ Update(c) \/ Sync(c)
    <2>1. PICK rs \in SUBSET Role, next \in Call : Committed(c, rs, next)
      BY <1>6, CommitLinks
    <2>2. j = next \/ j = NoCall
      BY <2>1, CrossingMoves DEF Committed, Commit
    <2>3. CASE j = next /\ next.pc = "current"
      <3>1. next.cover = Role /\ next.want = Links(cat')
        BY <2>1, <2>3 DEF Committed
      <3>2. Links(cat') \subseteq Role \X Perm
        BY <1>1, RowsOf
      <3> QED
        BY <2>3, <3>1, <3>2 DEF Tracks
    <2>4. CASE j = next /\ next.pc # "current"
      BY <1>2, <2>1, <2>4 DEF Committed
    <2> QED
      BY <1>2, <2>2, <2>3, <2>4, IdleFields
  <1>7. CASE Project(c) /\ Became(c, [k EXCEPT !.pc = "current",
                                               !.want = {l \in Links(cat) : l[1] \in k.cover}])
    <2>1. j.pc = "current" /\ j.cover = k.cover /\ j.want = {l \in Links(cat) : l[1] \in k.cover}
      BY <1>1, <1>7, Zenon DEF Became, Call
    <2>2. cat' = cat
      BY <1>1, <1>7, QuietFrame DEF Quietly, Typed
    <2>3. Links(cat) \subseteq Role \X Perm
      BY <1>1, RowsOf
    <2>4. j.want \subseteq j.cover \X Perm
      BY <2>1, <2>3
    <2>5. \A r \in j.cover : Of(j.want, r) = Of(Links(cat), r)
      BY <2>1 DEF Of
    <2> QED
      BY <2>1, <2>2, <2>4, <2>5 DEF Tracks
  <1>8. CASE Current(c) /\ Became(c, [k EXCEPT !.pc = "write", !.have = {l \in permits : l[1] \in k.cover}])
    <2>1. /\ j.pc = "write" /\ j.cover = k.cover /\ j.want = k.want /\ j.dirty = k.dirty
          /\ j.have = {l \in permits : l[1] \in k.cover} /\ k.pc = "current"
      BY <1>1, <1>8, Zenon DEF Became, Call, Current
    <2>2. cat' = cat /\ permits' = permits
      BY <1>1, <1>8, QuietFrame DEF Quietly, Typed
    <2>3. j.have \subseteq j.cover \X Perm
      BY <1>1, <2>1
    <2>4. \A r \in j.cover : Of(j.have, r) = Of(permits, r)
      BY <2>1 DEF Of
    <2> QED
      BY <1>1, <2>1, <2>2, <2>3, <2>4 DEF Tracks
  <1>9. CASE Became(c, Projected(k))
    <2>1. j.pc \in {"sync", "idle"}
      <3> DEFINE next == [k EXCEPT !.pc = "sync", !.at = @ + 1, !.cover = {}, !.want = {},
                                   !.have = {}, !.dirty = {}]
      <3>1. Projected(k) = next \/ Projected(k) = NoCall
        BY DEF Projected
      <3>2. next.pc = "sync"
        BY <1>1 DEF Call
      <3> HIDE DEF next
      <3> QED
        BY <1>9, <3>1, <3>2, IdleFields DEF Became
    <2> QED
      BY <1>2, <2>1
  <1>10. CASE Collect(c) /\ Became(c, [k EXCEPT !.pc = "erase", !.facts = FactsOf(k.role),
                                                !.have = PermitsOf(k.role)])
    <2>1. j.pc = "erase" /\ j.role = k.role /\ j.have = PermitsOf(k.role)
      BY <1>1, <1>10 DEF Became, Call
    <2>2. PermitsOf(k.role) \subseteq {k.role} \X Perm
      BY <1>1 DEF PermitsOf
    <2> QED
      BY <2>1, <2>2 DEF Tracks
  <1>11. CASE Erase(c) /\ Became(c, [k EXCEPT !.pc = "residue", !.facts = {}, !.have = {}])
    <2>1. j.pc = "residue"
      BY <1>1, <1>11 DEF Became, Call
    <2> QED
      BY <1>2, <2>1
  <1>12. CASE Residue(c) /\ Became(c, [k EXCEPT !.pc = "drop", !.dirty = {}]) /\ PermitsOf(k.role) = {}
    <2>1. j.pc = "drop" /\ j.role = k.role
      BY <1>1, <1>12 DEF Became, Call
    <2>2. permits' = permits
      BY <1>1, <1>12, QuietFrame DEF Quietly, Typed
    <2> QED
      BY <1>12, <2>1, <2>2 DEF Tracks, PermitsOf, Of
  <1>13. CASE Drop(c) /\ Became(c, Purged(k))
    <2>1. j.pc \in {"turn", "idle"}
      <3> DEFINE next == [k EXCEPT !.pc = "turn", !.orphans = @ \ {k.role}, !.dirty = {},
                                   !.late = FALSE]
      <3>1. Purged(k) = next \/ Purged(k) = NoCall
        BY DEF Purged
      <3>2. next.pc = "turn"
        BY <1>1 DEF Call
      <3> HIDE DEF next
      <3> QED
        BY <1>13, <3>1, <3>2, IdleFields DEF Became
    <2> QED
      BY <1>2, <2>1
  <1>14. CASE ListLocals(c) /\ Became(c, [k EXCEPT !.pc = "resolve", !.photo = cat, !.todo = Locals(cat)])
    <2>1. j.pc = "resolve"
      BY <1>1, <1>14 DEF Became, Call
    <2> QED
      BY <1>2, <2>1
  <1>15. CASE ResolveOwner(c) /\ \E todo, orphans : Became(c, [k EXCEPT !.todo = todo, !.orphans = orphans])
    <2>1. j.pc = "resolve"
      BY <1>1, <1>15 DEF Became, Call, ResolveOwner
    <2> QED
      BY <1>2, <2>1
  <1>16. CASE Decide(c) /\ Became(c, [k EXCEPT !.pc = "turn"])
    <2>1. j.pc = "turn"
      BY <1>1, <1>16 DEF Became, Call
    <2> QED
      BY <1>2, <2>1
  <1>17. CASE Turn(c) /\ \E r \in k.orphans : \/ Became(c, [k EXCEPT !.orphans = @ \ {r}])
                                              \/ Became(c, [k EXCEPT !.pc = "collect", !.role = r])
    <2>1. k.pc = "turn"
      BY <1>17, Zenon DEF Turn
    <2>2. j.pc \in {"turn", "collect"}
      BY <1>1, <1>17, <2>1 DEF Became, Call
    <2> QED
      BY <1>2, <2>2
  <1>18. Goes(c)
    BY <1>1, OwnGoes
  <1> QED
    BY ZenonT(40), <1>3, <1>4, <1>5, <1>6, <1>7, <1>8, <1>9, <1>10, <1>11, <1>12, <1>13, <1>14, <1>15, <1>16,
       <1>17, <1>18 DEF Goes

LEMMA Links0 ==
  ASSUME NEW rows \in Catalog, NEW r \in Role, r \notin Present(rows)
  PROVE  Of(Links(rows), r) = {}
  BY OfLinks DEF PermsOf

\* What a call had not in hand is settled after its step only if it was before.
LEMMA WasSettled ==
  ASSUME Typed, NEW c \in Client, Quietly(c) \/ Writes(c), NEW r \in Role, r \notin Pending(c),
         r \in drift => r \in drift', r \in Present(cat) => r \in Present(cat)', Settled(r)'
  PROVE  Settled(r)
  <1>1. ASSUME NEW d \in Client, r \in Pending(d)
        PROVE  call[d].pc = "drop" /\ r \notin Present(cat)
    <2>1. d # c /\ call[d] \in Call
      BY <1>1 DEF Typed, CallsOK
    <2>2. Like(call[d], call'[d])
      BY <2>1, OthersLike
    <2>3. /\ call'[d].pc = call[d].pc /\ call'[d].role = call[d].role
          /\ call'[d].cover = call[d].cover
      BY <2>1, <2>2, LikeFields
    <2>4. r \in Pending(d)'
      BY <1>1, <2>3 DEF Pending
    <2>5. call'[d].pc = "drop" /\ r \notin Present(cat)'
      BY <2>4 DEF Settled
    <2> QED
      BY <2>3, <2>5
  <1>2. r \notin drift
    BY DEF Settled
  <1> QED
    BY <1>1, <1>2 DEF Settled

\* What a call has written it has checked.
LEMMA QuietFollowed ==
  ASSUME Base, StateOK', CallsOK', Tracked, Followed, NEW c \in Client, Quietly(c),
         NEW r \in Role, Settled(r)'
  PROVE  Of(permits', r) = Of(Links(cat'), r)
  <1> DEFINE k == call[c]
  <1>1. k \in Call /\ Typed /\ cat \in Catalog /\ Tracks(k, Links(cat), permits)
    BY DEF Base, Typed, CallsOK, StateOK, Tracked
  <1>2. cat' = cat /\ permits' = permits
    BY <1>1, QuietFrame DEF Typed
  <1>3. CASE r \notin Pending(c)
    <2>1. r \in drift => r \in drift'
      <3>1. CASE Current(c)
        BY <1>3, <3>1, SMTT(30) DEF Current, Settle, Pending, InProject
      <3>2. CASE ~Current(c)
        BY <3>2, Zenon DEF Quietly, StartDefine, StartUpdate, StartDelete, StartSync, StartPrune, Begin,
             Check, ReadChain, View, ReadRoles, ReadDenies, Shadows, Refused, GiveUp, Project,
             Collect, Residue, ListLocals, ResolveOwner, Decide, Turn
      <3> QED
        BY <3>1, <3>2
    <2>2. Settled(r)
      <3>1. r \in Present(cat) => r \in Present(cat)'
        BY <1>2 DEF Present
      <3> QED
        BY <1>1, <1>3, <2>1, <3>1, WasSettled
    <2> QED
      BY <1>2, <2>2 DEF Followed
  <1>4. CASE r \in Pending(c)
    <2>1. k.pc \in InProject \cup InPurge
      BY <1>4, SMTT(30) DEF Pending
    <2>2. ~(Starts(c) \/ Checks(c) \/ Refused(c) \/ Collect(c) \/ ListLocals(c) \/ ResolveOwner(c)
              \/ Decide(c) \/ Turn(c))
      <3>1. k.pc \notin Looking \cup {"idle", "commit", "collect", "list", "resolve", "turn"}
        BY <2>1 DEF InProject, InPurge, Looking
      <3>2. ~Starts(c)
        BY <1>1, <3>1, StartMoves DEF Starts
      <3>3. ~Checks(c)
        BY <3>1, Zenon DEF Checks, ReadChain, View, ReadRoles, ReadDenies, Shadows, Looking
      <3> QED
        BY <3>1, <3>2, <3>3, Zenon DEF Refused, Collect, ListLocals, ResolveOwner, Decide, Turn
    <2>3. GiveUp(c) \/ Project(c) \/ Current(c) \/ Residue(c)
      BY <2>2 DEF Quietly, Starts, Checks
    <2>4. CASE GiveUp(c)
      BY <1>4, <2>4 DEF GiveUp, Settled
    <2>5. ASSUME call'[c].pc \in InProject, call'[c].cover = k.cover, k.pc \in InProject
          PROVE  FALSE
      BY <1>4, <2>5 DEF Settled, Pending, InProject
    <2>6. CASE Project(c)
      <3>1. k.pc = "project" /\ call'[c] = [k EXCEPT !.pc = "current",
                                                     !.want = {l \in Links(cat) : l[1] \in k.cover}]
        BY <1>1, <2>6, PutMoves DEF Project
      <3>2. call'[c].pc = "current" /\ call'[c].cover = k.cover
        BY <1>1, <3>1 DEF Call
      <3> QED
        BY <2>5, <3>1, <3>2 DEF InProject
    <2>7. CASE Current(c)
      <3> DEFINE have == {l \in permits : l[1] \in k.cover}
      <3>1. k.pc = "current" /\ r \in k.cover
        BY <1>4, <2>7 DEF Current, Pending, InProject
      <3>2. CASE have = k.want
        <4>1. Settle(c, k.cover)
          BY <2>7, <3>2 DEF Current
        <4>2. r \notin k.dirty
          BY <3>1, <4>1 DEF Settle, Settled
        <4>3. Of(k.want, r) = Of(Links(cat), r)
          BY <1>1, <3>1, <4>2 DEF Tracks
        <4>4. Of(permits, r) = Of(have, r)
          BY <3>1 DEF Of
        <4> QED
          BY <1>2, <3>2, <4>3, <4>4
      <3>3. CASE have # k.want
        <4>1. call'[c] = [k EXCEPT !.pc = "write", !.have = have]
          BY <1>1, <2>7, <3>3, PutMoves DEF Current
        <4>2. call'[c].pc = "write" /\ call'[c].cover = k.cover
          BY <1>1, <4>1 DEF Call
        <4> QED
          BY <2>5, <3>1, <4>2 DEF InProject
      <3> QED
        BY <3>2, <3>3
    <2>8. CASE Residue(c)
      <3>1. k.pc = "residue" /\ r = k.role
        BY <1>4, <2>8 DEF Residue, Pending, InProject, InPurge
      <3>2. PermitsOf(k.role) = {} /\ Put(c, [k EXCEPT !.pc = "drop", !.dirty = {}])
        BY <2>8, <3>1 DEF Residue, Settled
      <3>3. call'[c].pc = "drop" /\ call'[c].role = r
        BY <1>1, <3>1, <3>2, PutMoves, ZenonT(40) DEF Call
      <3>4. r \notin Present(cat)
        BY <1>2, <3>3 DEF Settled, Pending, InProject, InPurge, Present
      <3> QED
        BY <1>1, <1>2, <3>1, <3>2, <3>4, Links0 DEF PermitsOf, Of
    <2> QED
      BY <2>3, <2>4, <2>6, <2>7, <2>8
  <1> QED
    BY <1>3, <1>4

LEMMA WriteFollowed ==
  ASSUME Base, StateOK', CallsOK', Tracked, Followed, NEW c \in Client, Writes(c),
         NEW r \in Role, Settled(r)'
  PROVE  Of(permits', r) = Of(Links(cat'), r)
  <1> DEFINE k == call[c]
  <1>1. /\ k \in Call /\ Typed /\ cat \in Catalog /\ cat' \in Catalog /\ permits \subseteq Role \X Perm
        /\ Tracks(k, Links(cat), permits)
    BY DEF Base, Typed, CallsOK, StateOK, Tracked
  <1>2. ASSUME r \notin Pending(c), r \in drift => r \in drift', r \in Present(cat) => r \in Present(cat)'
        PROVE  Of(permits, r) = Of(Links(cat), r)
    BY <1>1, <1>2, WasSettled DEF Followed
  <1>3. CASE Define(c) \/ Update(c) \/ Sync(c)
    <2>1. PICK rs \in SUBSET Role, next \in Call : Committed(c, rs, next)
      BY <1>3, CommitLinks
    <2>2. /\ permits' = permits /\ Present(cat) \subseteq Present(cat') /\ r \notin Pending(c)
          /\ drift \subseteq drift' /\ (drift' = drift \cup rs \/ call'[c] = next)
      BY <2>1, CrossingMoves DEF Committed, Commit
    <2>3. r \notin rs
      <3>1. ASSUME r \in rs, call'[c] = next
            PROVE  FALSE
        <4>1. r \in next.cover /\ next.pc \in InProject
          BY <2>1, <3>1 DEF Committed
        <4>2. r \in Pending(c)' /\ call'[c].pc # "drop"
          BY <3>1, <4>1 DEF Pending, InProject
        <4> QED
          BY <4>2 DEF Settled
      <3> QED
        BY <2>2, <3>1 DEF Settled
    <2>4. r \in Present(cat) => r \in Present(cat)'
      BY <2>2 DEF Present
    <2>5. Of(Links(cat'), r) = Of(Links(cat), r)
      BY <1>1, <2>1, <2>3, CommitOf DEF Committed
    <2> QED
      BY <1>2, <2>2, <2>4, <2>5
  <1>4. CASE Write(c)
    <2> DEFINE writes == k.want \ k.have
               deletes == k.have \ k.want
    <2>1. /\ k.pc = "write" /\ permits' = (permits \ deletes) \cup writes /\ cat' = cat
          /\ Settle(c, k.cover) \/ drift' = drift \cup k.cover
      BY <1>4 DEF Write
    <2>2. /\ k.want \subseteq k.cover \X Perm /\ k.have \subseteq k.cover \X Perm
          /\ \A q \in k.cover \ k.dirty : /\ Of(k.want, q) = Of(Links(cat), q)
                                          /\ Of(k.have, q) = Of(permits, q)
      BY <1>1, <2>1 DEF Tracks
    <2>3. CASE r \notin k.cover
      <3>1. Of(permits', r) = Of(permits, r)
        BY <2>1, <2>2, <2>3 DEF Of
      <3>2. r \notin Pending(c) /\ (r \in drift => r \in drift')
        BY <2>1, <2>3 DEF Pending, InProject, Settle
      <3>3. r \in Present(cat) => r \in Present(cat)'
        BY <2>1 DEF Present
      <3> QED
        BY <1>2, <2>1, <3>1, <3>2, <3>3
    <2>4. CASE r \in k.cover
      <3>1. r \notin k.dirty
        BY <2>1, <2>4 DEF Settle, Settled
      <3>2. Of(k.want, r) = Of(Links(cat), r) /\ Of(k.have, r) = Of(permits, r)
        BY <2>2, <2>4, <3>1
      <3>3. Of(permits', r) = (Of(permits, r) \ (Of(k.have, r) \ Of(k.want, r)))
                                 \cup (Of(k.want, r) \ Of(k.have, r))
        BY <2>1 DEF Of
      <3> QED
        BY <2>1, <3>2, <3>3
    <2> QED
      BY <2>3, <2>4
  <1>5. CASE Erase(c)
    <2>1. /\ k.pc = "erase" /\ permits' = permits \ k.have /\ cat' = cat /\ drift' = drift
          /\ call'[c] = [k EXCEPT !.pc = "residue", !.facts = {}, !.have = {}]
      BY <1>5, CrossingMoves DEF Erase
    <2>2. call'[c].pc = "residue" /\ call'[c].role = k.role
      BY <1>1, <2>1 DEF Call
    <2>3. r # k.role
      BY <2>2 DEF Settled, Pending, InProject, InPurge
    <2>4. r \notin Pending(c)
      BY <2>1, <2>3 DEF Pending, InProject, InPurge
    <2>5. k.have \subseteq {k.role} \X Perm
      BY <1>1, <2>1 DEF Tracks
    <2>6. Of(permits', r) = Of(permits, r)
      BY <2>1, <2>3, <2>5 DEF Of
    <2>7. r \in Present(cat) => r \in Present(cat)'
      BY <2>1 DEF Present
    <2> QED
      BY <1>2, <2>1, <2>4, <2>6, <2>7
  <1>6. CASE Drop(c)
    <2>1. /\ k.pc = "drop" /\ permits' = permits /\ Pending(c) = {k.role} /\ k.role \in Role
          /\ k.role \notin k.dirty => Of(permits, k.role) = {}
      BY <1>1, <1>6 DEF Drop, Pending, InProject, InPurge, Tracks, Call
    <2>2. CASE k.role \in Present(cat)
      <3>1. cat' = WithRow(cat, k.role, None) /\ Settle(c, {k.role})
        BY <1>6, <2>2 DEF Drop, WithRow
      <3>2. /\ cat'.rows[k.role] = None
            /\ \A q \in Role : q # k.role => cat'.rows[q] = cat.rows[q]
        BY <1>1, <2>1, <3>1, WithRowType
      <3>3. CASE r = k.role
        <4>1. r \notin k.dirty
          BY <3>1, <3>3 DEF Settle, Settled
        <4>2. r \notin Present(cat')
          BY <3>2, <3>3 DEF Present
        <4> QED
          BY <1>1, <2>1, <3>3, <4>1, <4>2, Links0
      <3>4. CASE r # k.role
        <4>1. Of(Links(cat'), r) = Of(Links(cat), r)
          <5>1. \A q \in Role \ {k.role} : PermsOf(cat', q) = PermsOf(cat, q)
            BY <3>2 DEF PermsOf, Present
          <5> HIDE DEF k
          <5> QED
            BY <1>1, <3>4, <5>1, CommitOf
        <4>2. r \notin Pending(c) /\ (r \in drift => r \in drift')
          BY <2>1, <3>1, <3>4 DEF Settle
        <4>3. r \in Present(cat) => r \in Present(cat)'
          BY <3>2, <3>4 DEF Present
        <4> QED
          BY <1>2, <2>1, <4>1, <4>2, <4>3
      <3> QED
        BY <3>3, <3>4
    <2>3. CASE k.role \notin Present(cat)
      <3>1. cat' = cat /\ drift' = drift
        BY <1>6, <2>3 DEF Drop
      <3>2. r \in Present(cat) => r \in Present(cat)'
        BY <3>1 DEF Present
      <3>3. CASE r = k.role
        <4>1. r \notin k.dirty => Of(permits, r) = {}
          BY <2>1, <3>3
        <4>2. Settled(r)
          <5>1. ASSUME NEW d \in Client, r \in Pending(d)
                PROVE  call[d].pc = "drop"
            <6>1. CASE d = c
              BY <2>1, <6>1
            <6>2. CASE d # c
              <7>1. call[d] \in Call /\ Like(call[d], call'[d])
                BY <1>1, <6>2, OthersLike DEF Typed, CallsOK
              <7>2. /\ call'[d].pc = call[d].pc /\ call'[d].role = call[d].role
                    /\ call'[d].cover = call[d].cover
                BY <7>1, LikeFields
              <7>3. r \in Pending(d)'
                BY <5>1, <7>2 DEF Pending
              <7> QED
                BY <7>2, <7>3 DEF Settled
            <6> QED
              BY <6>1, <6>2
          <5> QED
            BY <2>3, <3>1, <3>3, <5>1 DEF Settled
        <4> QED
          BY <2>1, <3>1, <4>2 DEF Followed
      <3>4. CASE r # k.role
        BY <1>2, <2>1, <3>1, <3>2, <3>4
      <3> QED
        BY <3>3, <3>4
    <2> QED
      BY <2>2, <2>3
  <1> QED
    BY <1>3, <1>4, <1>5, <1>6 DEF Writes

Following == Base /\ Tracked /\ Followed

LEMMA FollowingInit ==
  Init => Following
  <1> SUFFICES ASSUME Init
               PROVE  Following
    OBVIOUS
  <1>1. Tracked
    BY IdleFields DEF Init, Tracked, Tracks
  <1>2. Followed
    BY DEF Init, Followed
  <1> QED
    BY <1>1, <1>2, InitBase DEF Following

LEMMA FollowingStep ==
  Following /\ [Next]_vars => Following'
  <1> SUFFICES ASSUME Following, [Next]_vars
               PROVE  Following'
    OBVIOUS
  <1>1. Base' /\ Base /\ Tracked /\ Followed /\ Typed /\ StateOK' /\ CallsOK'
    BY BaseStep DEF Following, Base, Typed
  <1>2. CASE Around
    <2>1. cat' = cat /\ permits' = permits /\ drift' = drift
      BY <1>1, <1>2, AroundFrame DEF Typed
    <2>2. ASSUME NEW d \in Client
          PROVE  /\ call[d] \in Call /\ Like(call[d], call'[d]) /\ call'[d].dirty = call[d].dirty
                 /\ call'[d].pc = call[d].pc /\ call'[d].role = call[d].role
                 /\ call'[d].cover = call[d].cover
      <3>1. call[d] \in Call /\ Like(call[d], call'[d]) /\ call'[d].dirty = call[d].dirty
        BY <1>1, <1>2, AroundLike DEF Typed, CallsOK
      <3> QED
        BY <3>1, LikeFields
    <2>3. Tracked'
      <3>1. ASSUME NEW d \in Client
            PROVE  Tracks(call'[d], Links(cat'), permits')
        <4>1. Tracks(call[d], Links(cat), permits)
          BY <1>1 DEF Tracked
        <4> QED
          BY <2>1, <2>2, <4>1, TracksElse
      <3> QED
        BY <3>1 DEF Tracked
    <2>4. Followed'
      <3>1. ASSUME NEW r \in Role, Settled(r)'
            PROVE  Settled(r)
        <4>1. ASSUME NEW d \in Client, r \in Pending(d)
              PROVE  call[d].pc = "drop" /\ r \notin Present(cat)
          <5>1. r \in Pending(d)'
            BY <2>2, <4>1 DEF Pending
          <5> QED
            BY <2>1, <2>2, <3>1, <5>1 DEF Settled, Present
        <4> QED
          BY <2>1, <3>1, <4>1 DEF Settled
      <3> QED
        BY <1>1, <2>1, <3>1 DEF Followed
    <2> QED
      BY <1>1, <2>3, <2>4 DEF Following
  <1>3. ASSUME NEW c \in Client, Quietly(c) \/ Writes(c)
        PROVE  Following'
    <2>1. ASSUME NEW d \in Client
          PROVE  Tracks(call'[d], Links(cat'), permits')
      BY <1>1, <1>3, OthersTracked, OwnTracked
    <2>2. Tracked'
      BY <2>1 DEF Tracked
    <2>3. ASSUME NEW r \in Role, Settled(r)'
          PROVE  Of(permits', r) = Of(Links(cat'), r)
      BY <1>1, <1>3, <2>3, QuietFollowed, WriteFollowed
    <2>4. Followed'
      BY <2>3 DEF Followed
    <2> QED
      BY <1>1, <2>2, <2>4 DEF Following
  <1>4. CASE UNCHANGED vars
    <2>1. call' = call /\ cat' = cat /\ permits' = permits /\ drift' = drift
      BY <1>4 DEF vars
    <2>2. Tracked'
      BY <1>1, <2>1 DEF Tracked
    <2>3. Followed'
      BY <1>1, <2>1 DEF Followed, Settled, Pending, Present
    <2> QED
      BY <1>1, <2>2, <2>3 DEF Following
  <1> QED
    BY <1>2, <1>3, <1>4, StepCases DEF Next

\* What the store says a role grants is what the catalog says, once no call has it in hand and
\* no projection of it failed or was crossed by another write (projectCatalogRole,
\* syncCatalog and purgeRole).
THEOREM StoreFollows ==
  Spec => []PermitsFollow
  <1>1. Following => PermitsFollow
    <2> SUFFICES ASSUME Following, NEW r \in Role, r \notin drift, \A c \in Client : r \notin Pending(c)
                 PROVE  PermitsOf(r) = {l \in Links(cat) : l[1] = r}
      BY DEF PermitsFollow
    <2>1. Settled(r)
      BY DEF Settled
    <2> QED
      BY <2>1 DEF Following, Followed, PermitsOf, Of
  <1> QED
    BY <1>1, FollowingInit, FollowingStep, PTL DEF Spec

-----------------------------------------------------------------------------
(* A list of configs synced, and nothing of one undone by another.         *)

\* The unique index of a name among the global roles.
GlobalsApart ==
    \A q, r \in Globals(cat) : cat.rows[q].name = cat.rows[r].name => q = r

\* The rows are as the config says.
InSync(rows, config) ==
    /\ \A p \in DOMAIN config.perms : rows.levels[p] = config.perms[p]
    /\ \A n \in DOMAIN config.roles :
          /\ Row1(rows, n) # {}
          /\ \A x \in Row1(rows, n) :
                x.perms = config.roles[n].perms /\ x.rank = config.roles[n].rank

\* A sync has its configs apart, and those it is done with in the catalog, unless another
\* wrote what is global.
SyncBy(k, had, rows) ==
    k.op = "sync" =>
        /\ Disjoint(k.plan)
        /\ k.prune /\ ~had.crossed =>
              \A i \in 1..Len(k.plan) :
                  i < k.at \/ (i = k.at /\ k.pc # "sync") => InSync(rows, k.plan[i])

AllSynced == \A c \in Client : SyncBy(call[c], seen[c], cat)

LEMMA InSyncClean ==
  ASSUME NEW rows \in Catalog, NEW config, IsConfig(config), InSync(rows, config)
  PROVE  Clean(Diff(rows, config))
  <1> DEFINE diff == Diff(rows, config)
             roles == config.roles
  <1>1. \A p \in DOMAIN config.perms : rows.levels[p] = config.perms[p] /\ config.perms[p] # None
    <2> TAKE p \in DOMAIN config.perms
    <2>1. config.perms[p] \in SUBSET Type
      BY DEF IsConfig
    <2>2. config.perms[p] # None
      BY <2>1, RolesAssumption
    <2> QED
      BY <2>2 DEF InSync
  <1>2. \A n \in DOMAIN roles : /\ Row1(rows, n) # {}
                                /\ \A x \in Row1(rows, n) :
                                      x.perms = roles[n].perms /\ x.rank = roles[n].rank
    BY DEF InSync
  <1>3. {p \in DOMAIN config.perms : rows.levels[p] = None} = {}
    BY <1>1
  <1>4. {n \in DOMAIN roles : Row1(rows, n) = {}} = {}
    BY <1>2
  <1>5. {l \in (DOMAIN roles) \X Perm : /\ l[2] \in roles[l[1]].perms
                                        /\ \A x \in Row1(rows, l[1]) : l[2] \notin x.perms} = {}
    BY <1>2
  <1>6. {l \in (DOMAIN roles) \X Perm : /\ l[2] \notin roles[l[1]].perms
                                        /\ \E x \in Row1(rows, l[1]) : l[2] \in x.perms} = {}
    BY <1>2
  <1>7. {n \in DOMAIN roles : \E x \in Row1(rows, n) : x.rank # roles[n].rank} = {}
    BY <1>2
  <1>8. {p \in DOMAIN config.perms : rows.levels[p] \notin {None, config.perms[p]}} = {}
    BY <1>1
  <1>9. diff = [missingPermissions |-> {}, missingRoles |-> {}, missingLinks |-> {}, extraLinks |-> {},
                rankMismatches |-> {}, assignableAtMismatches |-> {}]
    BY <1>3, <1>4, <1>5, <1>6, <1>7, <1>8 DEF Diff
  <1> HIDE DEF diff
  <1> QED
    BY <1>9 DEF Clean, diff

\* What is in sync is so by the levels and the global rows.
LEMMA SameGlobals ==
  ASSUME NEW one \in Catalog, NEW two \in Catalog, NEW config,
         one.levels = two.levels, GlobalPart(one) = GlobalPart(two), InSync(one, config)
  PROVE  InSync(two, config)
  <1>1. Globals(one) \subseteq Role /\ Globals(two) \subseteq Role
    BY RowsOf
  <1>2. \A r \in Role : (IF r \in Globals(one) THEN one.rows[r] ELSE None) =
                        (IF r \in Globals(two) THEN two.rows[r] ELSE None)
    <2> TAKE r \in Role
    <2>1. GlobalPart(one)[r] = GlobalPart(two)[r]
      OBVIOUS
    <2> QED
      BY <2>1 DEF GlobalPart
  <1>3. \A r \in Globals(one) : one.rows[r] # None
    BY DEF Globals, Present
  <1>4. \A r \in Globals(two) : two.rows[r] # None
    BY DEF Globals, Present
  <1>5. \A r \in Globals(one) : r \in Globals(two) /\ one.rows[r] = two.rows[r]
    BY <1>1, <1>2, <1>3
  <1>6. \A r \in Globals(two) : r \in Globals(one) /\ one.rows[r] = two.rows[r]
    BY <1>1, <1>2, <1>4
  <1>7. Globals(one) = Globals(two)
    BY <1>5, <1>6
  <1>8. \A n : Row1(one, n) = Row1(two, n)
    BY <1>5, <1>7 DEF Row1
  <1> QED
    BY <1>8 DEF InSync

\* What a sync does to each row, and to the levels.
SyncWrites(rows, config, prune, new) ==
    /\ \A p \in Perm : new.levels[p] = IF p \in DOMAIN config.perms THEN config.perms[p]
                                        ELSE rows.levels[p]
    /\ \A n \in DOMAIN config.roles :
          /\ UuidOf(rows, config, n) \in Role
          /\ \/ /\ UuidOf(rows, config, n) \in Globals(rows)
                /\ rows.rows[UuidOf(rows, config, n)].name = n
             \/ /\ UuidOf(rows, config, n) \notin Present(rows)
                /\ \A r \in Globals(rows) : rows.rows[r].name # n
          /\ new.rows[UuidOf(rows, config, n)].name = n
          /\ new.rows[UuidOf(rows, config, n)].owner = Global
          /\ new.rows[UuidOf(rows, config, n)].rank = config.roles[n].rank
          /\ prune => new.rows[UuidOf(rows, config, n)].perms = config.roles[n].perms
          /\ new.rows[UuidOf(rows, config, n)] # None
    /\ \A r \in Role : (\A n \in DOMAIN config.roles : r # UuidOf(rows, config, n))
                           => new.rows[r] = rows.rows[r]

LEMMA SyncedIs ==
  ASSUME NEW rows \in Catalog, NEW config, IsConfig(config), NEW prune \in BOOLEAN,
         CanSync(rows, config)
  PROVE  SyncWrites(rows, config, prune, Synced(rows, config, prune))
  <1> DEFINE uuid == [n \in DOMAIN config.roles |-> UuidOf(rows, config, n)]
             row(n) == [name |-> n, owner |-> Global, rank |-> config.roles[n].rank,
                        perms |-> config.roles[n].perms
                                     \cup IF prune THEN {} ELSE PermsOf(rows, uuid[n])]
             Of1(r) == CHOOSE n \in DOMAIN uuid : uuid[n] = r
             New(r) == IF \E n \in DOMAIN uuid : uuid[n] = r THEN row(Of1(r)) ELSE rows.rows[r]
             levels == [p \in Perm |-> IF p \in DOMAIN config.perms THEN config.perms[p]
                                                                    ELSE rows.levels[p]]
             new == Synced(rows, config, prune)
  <1>1. \A n \in DOMAIN config.roles :
           n \in Name /\ config.roles[n] \in [uuid : Role, rank : Nat, perms : SUBSET Perm]
    BY DEF IsConfig
  <1>2. \A n \in DOMAIN config.roles :
           \/ UuidOf(rows, config, n) \in Globals(rows) /\ rows.rows[UuidOf(rows, config, n)].name = n
           \/ /\ UuidOf(rows, config, n) = config.roles[n].uuid
              /\ UuidOf(rows, config, n) \notin Present(rows)
              /\ \A r \in Globals(rows) : rows.rows[r].name # n
    BY DEF UuidOf, CanSync
  <1>3. \A n \in DOMAIN config.roles : UuidOf(rows, config, n) \in Role
    BY <1>1, <1>2, RowsOf
  <1>4. WithPerms(rows, config) = [rows EXCEPT !.levels = levels]
    BY DEF WithPerms, Catalog
  <1>5. new = [rows |-> [r \in Role |-> New(r)], levels |-> levels]
    <2>1. rows = [rows |-> rows.rows, levels |-> rows.levels] /\ rows.rows = [r \in Role |-> rows.rows[r]]
      BY DEF Catalog
    <2>2. new = [WithPerms(rows, config) EXCEPT !.rows =
                 [r \in Role |-> IF \E n \in DOMAIN uuid : uuid[n] = r THEN row(Of1(r))
                                 ELSE WithPerms(rows, config).rows[r]]]
      BY DEF Synced
    <2>3. WithPerms(rows, config) = [rows |-> rows.rows, levels |-> levels]
      BY <1>4, <2>1
    <2>4. new = [WithPerms(rows, config) EXCEPT !.rows = [r \in Role |-> New(r)]]
      BY <2>2, <2>3
    <2> HIDE DEF New, levels, uuid, new
    <2> QED
      BY <2>3, <2>4
  <1>6. \A m, n \in DOMAIN config.roles : m # n => UuidOf(rows, config, m) # UuidOf(rows, config, n)
    BY DEF CanSync
  <1>7. \A n \in DOMAIN config.roles : New(UuidOf(rows, config, n)) = row(n)
    <2> TAKE n \in DOMAIN config.roles
    <2> DEFINE r == UuidOf(rows, config, n)
    <2>1. n \in DOMAIN uuid /\ uuid[n] = r
      OBVIOUS
    <2>2. Of1(r) \in DOMAIN uuid /\ uuid[Of1(r)] = r
      BY <2>1
    <2>3. Of1(r) = n
      BY <1>6, <2>1, <2>2
    <2>4. New(r) = row(Of1(r))
      BY <2>1
    <2> QED
      BY <2>3, <2>4
  <1>8. \A r \in Role : (\A n \in DOMAIN config.roles : r # UuidOf(rows, config, n)) => New(r) = rows.rows[r]
    BY Zenon
  <1>9. \A r \in Role : new.rows[r] = New(r)
    <2> HIDE DEF New, levels, new
    <2> QED
      BY <1>5
  <1>10. new.levels = levels
    <2> HIDE DEF New, levels, new
    <2> QED
      BY <1>5
  <1>11. \A n \in DOMAIN config.roles : row(n) \in Row
    BY <1>1, <1>3, RowsOf DEF Row
  <1>12. \A n \in DOMAIN config.roles : row(n) # None
    BY <1>11, NoneNotRow
  <1>13. \A n \in DOMAIN config.roles : new.rows[UuidOf(rows, config, n)] = row(n)
    <2> HIDE DEF New, new, row
    <2> QED
      BY <1>3, <1>7, <1>9
  <1>14. \A n \in DOMAIN config.roles :
            /\ row(n).name = n /\ row(n).owner = Global /\ row(n).rank = config.roles[n].rank
            /\ prune => row(n).perms = config.roles[n].perms
    OBVIOUS
  <1>15. \A r \in Role : (\A n \in DOMAIN config.roles : r # UuidOf(rows, config, n)) => new.rows[r] = rows.rows[r]
    <2> HIDE DEF New, new
    <2> QED
      BY <1>8, <1>9
  <1>16. \A p \in Perm : new.levels[p] = IF p \in DOMAIN config.perms THEN config.perms[p]
                                         ELSE rows.levels[p]
    <2> HIDE DEF new
    <2> QED
      BY <1>10
  <1> HIDE DEF new, row, New, levels
  <1>17. \A n \in DOMAIN config.roles :
            /\ UuidOf(rows, config, n) \in Role
            /\ \/ UuidOf(rows, config, n) \in Globals(rows) /\ rows.rows[UuidOf(rows, config, n)].name = n
               \/ UuidOf(rows, config, n) \notin Present(rows)
                  /\ \A r \in Globals(rows) : rows.rows[r].name # n
            /\ new.rows[UuidOf(rows, config, n)].name = n /\ new.rows[UuidOf(rows, config, n)].owner = Global
            /\ new.rows[UuidOf(rows, config, n)].rank = config.roles[n].rank
            /\ prune => new.rows[UuidOf(rows, config, n)].perms = config.roles[n].perms
            /\ new.rows[UuidOf(rows, config, n)] # None
    BY <1>2, <1>3, <1>12, <1>13, <1>14
  <1> QED
    BY <1>15, <1>16, <1>17 DEF new, SyncWrites

\* Where names of global roles are apart, a sync leaves one row of each name of the config,
\* and the rows of the others as they were.
OneOfEach(rows, config, new) ==
    /\ \A q, r \in Globals(new) : new.rows[q].name = new.rows[r].name => q = r
    /\ \A n \in DOMAIN config.roles : Row1(new, n) = {new.rows[UuidOf(rows, config, n)]}
    /\ \A n : n \notin DOMAIN config.roles => Row1(new, n) = Row1(rows, n)

LEMMA SyncedRows ==
  ASSUME NEW rows \in Catalog, NEW config, IsConfig(config), NEW prune \in BOOLEAN,
         CanSync(rows, config),
         \A q, r \in Globals(rows) : rows.rows[q].name = rows.rows[r].name => q = r
  PROVE  OneOfEach(rows, config, Synced(rows, config, prune))
  <1> DEFINE new == Synced(rows, config, prune)
             uuid(n) == UuidOf(rows, config, n)
             M == DOMAIN config.roles
  <1>1. new \in Catalog
    BY SyncedType
  <1>2. /\ \A n \in M : /\ uuid(n) \in Role
                        /\ \/ uuid(n) \in Globals(rows) /\ rows.rows[uuid(n)].name = n
                           \/ uuid(n) \notin Present(rows)
                              /\ \A r \in Globals(rows) : rows.rows[r].name # n
                        /\ new.rows[uuid(n)].name = n /\ new.rows[uuid(n)].owner = Global
                        /\ new.rows[uuid(n)] # None
        /\ \A r \in Role : (\A n \in M : r # uuid(n)) => new.rows[r] = rows.rows[r]
    <2>1. SyncWrites(rows, config, prune, new)
      BY SyncedIs
    <2> HIDE DEF new
    <2> QED
      BY <2>1 DEF SyncWrites
  <1> HIDE DEF OneOfEach, new, uuid, M
  <1>3. Globals(new) \subseteq Role /\ Globals(rows) \subseteq Role
    BY <1>1, RowsOf
  <1>4. \A r \in Globals(rows) : r \in Present(rows) /\ rows.rows[r] # None /\ rows.rows[r].owner = Global
    BY DEF Globals, Present
  <1>5. \A r \in Role : r \in Globals(new) <=> new.rows[r] # None /\ new.rows[r].owner = Global
    BY DEF Globals, Present
  <1>6. \A r \in Role : r \in Globals(rows) <=> rows.rows[r] # None /\ rows.rows[r].owner = Global
    BY DEF Globals, Present
  <1>7. \A n \in M : uuid(n) \in Globals(new)
    BY <1>2, <1>5
  <1>8. \A g \in Globals(new) : new.rows[g].name \in M => g = uuid(new.rows[g].name)
    <2> SUFFICES ASSUME NEW g \in Globals(new), NEW n \in M, new.rows[g].name = n
                 PROVE  g = uuid(n)
      OBVIOUS
    <2>1. CASE \E m \in M : g = uuid(m)
      BY <1>2, <2>1
    <2>2. CASE \A m \in M : g # uuid(m)
      <3>1. new.rows[g] = rows.rows[g] /\ g \in Role
        BY <1>2, <1>3, <2>2
      <3>2. g \in Globals(rows) /\ rows.rows[g].name = n
        BY <1>5, <1>6, <3>1
      <3>3. uuid(n) \in Globals(rows) /\ rows.rows[uuid(n)].name = n
        BY <1>2, <3>2
      <3> QED
        BY <3>2, <3>3
    <2> QED
      BY <2>1, <2>2
  <1>9. \A g \in Role : g \in Globals(new) /\ new.rows[g].name \notin M
                        <=> g \in Globals(rows) /\ rows.rows[g].name \notin M
    <2> TAKE g \in Role
    <2>1. CASE \E m \in M : g = uuid(m)
      BY <1>2, <1>4, <2>1
    <2>2. CASE \A m \in M : g # uuid(m)
      <3>1. new.rows[g] = rows.rows[g]
        BY <1>2, <2>2
      <3> QED
        BY <1>5, <1>6, <3>1
    <2> QED
      BY <2>1, <2>2
  <1>10. \A g \in Globals(new) : new.rows[g].name \notin M => new.rows[g] = rows.rows[g]
    BY <1>2, <1>3
  <1>11. \A q, r \in Globals(new) : new.rows[q].name = new.rows[r].name => q = r
    <2> SUFFICES ASSUME NEW q \in Globals(new), NEW r \in Globals(new),
                        new.rows[q].name = new.rows[r].name
                 PROVE  q = r
      OBVIOUS
    <2>1. CASE new.rows[q].name \in M
      BY <1>8, <2>1
    <2>2. CASE new.rows[q].name \notin M
      BY <1>3, <1>9, <1>10, <2>2
    <2> QED
      BY <2>1, <2>2
  <1>12. \A n \in M : Row1(new, n) = {new.rows[uuid(n)]}
    BY <1>2, <1>7, <1>8 DEF Row1
  <1>13. \A n : n \notin M => Row1(new, n) = Row1(rows, n)
    <2> SUFFICES ASSUME NEW n, n \notin M
                 PROVE  Row1(new, n) = Row1(rows, n)
      OBVIOUS
    <2>1. {g \in Globals(new) : new.rows[g].name = n} = {g \in Globals(rows) : rows.rows[g].name = n}
      BY <1>3, <1>9, <1>10
    <2>2. \A g \in Globals(new) : new.rows[g].name = n => new.rows[g] = rows.rows[g]
      BY <1>10
    <2> QED
      BY <2>1, <2>2 DEF Row1
  <1> QED
    BY <1>11, <1>12, <1>13 DEF OneOfEach, new, uuid, M

\* A sync with prune leaves its own config in sync, and any that is apart from it as it was.
LEMMA SyncLeaves ==
  ASSUME NEW rows \in Catalog, NEW config, IsConfig(config), CanSync(rows, config),
         \A q, r \in Globals(rows) : rows.rows[q].name = rows.rows[r].name => q = r,
         NEW prune \in BOOLEAN, prune = TRUE
  PROVE  LET new == Synced(rows, config, prune)
         IN  /\ InSync(new, config)
             /\ \A other : /\ IsConfig(other) /\ InSync(rows, other)
                           /\ DOMAIN other.roles \cap DOMAIN config.roles = {}
                           /\ DOMAIN other.perms \cap DOMAIN config.perms = {}
                           => InSync(new, other)
  <1> DEFINE new == Synced(rows, config, prune)
             M == DOMAIN config.roles
  <1>1. SyncWrites(rows, config, prune, new)
    BY SyncedIs
  <1>2. OneOfEach(rows, config, new)
    BY SyncedRows
  <1> HIDE DEF new
  <1>3. InSync(new, config)
    <2>1. DOMAIN config.perms \subseteq Perm
      BY DEF IsConfig
    <2>2. \A p \in DOMAIN config.perms : new.levels[p] = config.perms[p]
      BY <1>1, <2>1 DEF SyncWrites
    <2>3. \A n \in M : LET x == new.rows[UuidOf(rows, config, n)]
                       IN  x.rank = config.roles[n].rank /\ x.perms = config.roles[n].perms
      BY <1>1 DEF SyncWrites
    <2>4. \A n \in M : Row1(new, n) = {new.rows[UuidOf(rows, config, n)]}
      BY <1>2 DEF OneOfEach
    <2> QED
      BY <2>2, <2>3, <2>4 DEF InSync
  <1>4. ASSUME NEW other, IsConfig(other), InSync(rows, other),
               DOMAIN other.roles \cap M = {}, DOMAIN other.perms \cap DOMAIN config.perms = {}
        PROVE  InSync(new, other)
    <2>1. DOMAIN other.perms \subseteq Perm
      BY <1>4 DEF IsConfig
    <2>2. \A p \in DOMAIN other.perms : new.levels[p] = rows.levels[p]
      BY <1>1, <1>4, <2>1 DEF SyncWrites
    <2>3. \A n \in DOMAIN other.roles : Row1(new, n) = Row1(rows, n)
      BY <1>2, <1>4 DEF OneOfEach
    <2> QED
      BY <1>4, <2>2, <2>3 DEF InSync
  <1> QED
    BY <1>3, <1>4 DEF new, M

-----------------------------------------------------------------------------

\* Only a sync writes a global role, but for a drop of it.
LEMMA GlobalsKept ==
  ASSUME Base, NEW c \in Client, Writes(c), ~Sync(c)
  PROVE  \A r \in Role : r \in Globals(cat') => r \in Globals(cat) /\ cat'.rows[r] = cat.rows[r]
  <1> DEFINE k == call[c]
  <1>1. /\ k \in Call /\ cat \in Catalog /\ spare \subseteq Role /\ ReadOK(k) /\ Steady(k)
    BY DEF Base, Typed, CallsOK, StateOK, Apart
  <1>2. \A r \in Role : cat'.rows[r] = cat.rows[r] => (r \in Globals(cat') <=> r \in Globals(cat))
    BY DEF Globals, Present
  <1>3. \A r \in Role : r \in Globals(cat') => cat'.rows[r] # None /\ cat'.rows[r].owner = Global
    BY DEF Globals, Present
  <1>4. CASE Define(c)
    <2>1. PICK r \in spare : cat' = WithRow(cat, r, DefinedRow(k))
      BY <1>4 DEF Define, DefinedRow, WithRow, Commit
    <2>2. k.op = "define" /\ k.pc = "commit"
      BY <1>4 DEF Define
    <2>3. DefinedRow(k) \in Row /\ DefinedRow(k).owner \in Scope \ {Root} /\ r \in Role
      BY <1>1, <2>1, <2>2, DefinedRowType DEF ReadOK, DefinedRow
    <2>4. cat'.rows[r] = DefinedRow(k) /\ \A q \in Role : q # r => cat'.rows[q] = cat.rows[q]
      BY <1>1, <2>1, <2>3, WithRowType
    <2>5. r \notin Globals(cat')
      BY <1>3, <2>3, <2>4, RolesAssumption
    <2> QED
      BY <1>2, <2>4, <2>5
  <1>5. CASE Update(c)
    <2>1. /\ k.op = "update" /\ k.pc = "commit" /\ k.role \in Present(cat)
          /\ cat' = WithRow(cat, k.role, UpdatedRow(k))
      BY <1>5, Zenon DEF Update, UpdatedRow, WithRow, Target, Commit
    <2>2. k.role \in Locals(k.photo) /\ k.role \in Role /\ k.photo \in Catalog
      BY <1>1, <2>1 DEF ReadOK, Call
    <2>3. UpdatedRow(k) \in Row /\ UpdatedRow(k).owner = cat.rows[k.role].owner
      BY <1>1, <2>1, <2>2, UpdatedRowType
    <2>4. cat'.rows[k.role] = UpdatedRow(k) /\ \A q \in Role : q # k.role => cat'.rows[q] = cat.rows[q]
      BY <1>1, <2>1, <2>2, <2>3, WithRowType
    <2>5. cat.rows[k.role].owner = k.photo.rows[k.role].owner
      BY <1>1, <2>1, <2>2 DEF Steady
    <2>6. k.photo.rows[k.role].owner \in Scope
      BY <2>2, RowsOf
    <2>7. cat'.rows[k.role].owner \in Scope
      BY <2>3, <2>4, <2>5, <2>6
    <2>8. k.role \notin Globals(cat')
      <3>1. cat'.rows[k.role].owner # Global
        BY <2>7, RolesAssumption
      <3> QED
        BY <1>3, <2>2, <3>1
    <2> QED
      BY <1>2, <2>4, <2>8
  <1>6. CASE Write(c) \/ Erase(c)
    <2>1. cat' = cat
      BY <1>6 DEF Write, Erase
    <2> QED
      BY <1>2, <2>1
  <1>7. CASE Drop(c)
    <2>1. cat' = cat \/ cat' = WithRow(cat, k.role, None)
      BY <1>7 DEF Drop, WithRow
    <2>2. \A q \in Role : cat'.rows[q] \in {cat.rows[q], None}
      BY <1>1, <2>1, WithRowType DEF Call
    <2> QED
      BY <1>2, <1>3, <2>2
  <1> QED
    BY <1>4, <1>5, <1>6, <1>7 DEF Writes

\* The config that a sync is at, and that it may write it.
LEMMA SyncAt ==
  ASSUME Typed, NEW c \in Client, Sync(c)
  PROVE  LET k == call[c]
         IN  /\ k \in Call /\ k.op = "sync" /\ k.pc = "sync" /\ k.plan \in Plans /\ k.at \in 1..Len(k.plan)
             /\ IsConfig(k.plan[k.at]) /\ CanSync(cat, k.plan[k.at])
             /\ cat' = Synced(cat, k.plan[k.at], k.prune)
  <1> DEFINE k == call[c]
  <1>1. k \in Call /\ PathOK(k)
    BY DEF Typed, CallsOK
  <1>2. k.pc = "sync" /\ CanSync(cat, k.plan[k.at]) /\ cat' = Synced(cat, k.plan[k.at], k.prune)
    BY DEF Sync, Commit
  <1>3. k.op = "sync"
    BY <1>1, <1>2 DEF PathOK, Call, Looking, InProject, InPurge, InPrune
  <1>4. k.plan \in Plans /\ k.at \in 1..Len(k.plan)
    BY <1>1, <1>3 DEF PathOK
  <1> QED
    BY <1>1, <1>2, <1>3, <1>4, PlanOf

LEMMA GlobalsStep ==
  ASSUME Base, NEW c \in Client, Quietly(c) \/ Writes(c), GlobalsApart
  PROVE  GlobalsApart'
  <1>1. CASE Quietly(c)
    BY <1>1, QuietFrame DEF Base, Typed, GlobalsApart, Globals, Present
  <1>2. CASE Sync(c)
    <2> DEFINE k == call[c]
               config == k.plan[k.at]
    <2>1. /\ k \in Call /\ IsConfig(config) /\ CanSync(cat, config)
          /\ cat' = Synced(cat, config, k.prune)
      BY <1>2, SyncAt DEF Base
    <2>2. k.prune \in BOOLEAN /\ cat \in Catalog
      BY <2>1 DEF Call, Base, Typed, StateOK
    <2> HIDE DEF config, k
    <2>3. \A q, r \in Globals(cat') : cat'.rows[q].name = cat'.rows[r].name => q = r
      BY <2>1, <2>2, SyncedRows DEF OneOfEach, GlobalsApart
    <2> QED
      BY <2>3 DEF GlobalsApart, Globals, Present
  <1>3. CASE Writes(c) /\ ~Sync(c)
    <2>1. Globals(cat') \subseteq Role
      BY DEF Globals, Present
    <2>2. \A q, r \in Globals(cat') : cat'.rows[q].name = cat'.rows[r].name => q = r
      BY <1>3, <2>1, GlobalsKept DEF GlobalsApart
    <2> QED
      BY <2>2 DEF GlobalsApart, Globals, Present
  <1> QED
    BY <1>1, <1>2, <1>3

\* What the history says of a sync that goes on.
LEMMA SyncSeen ==
  ASSUME Typed, Remember, NEW c \in Client, call[c].op = "sync", call'[c].op = "sync", ~seen'[c].crossed
  PROVE  /\ ~seen[c].crossed
         /\ call'[c].pc = call[c].pc => cat'.levels = cat.levels /\ GlobalPart(cat') = GlobalPart(cat)
  <1> DEFINE k == call[c]
             j == call'[c]
             now == Now(call[c])'
             crossed == seen[c].crossed \/ (/\ k.pc = j.pc
                                            /\ <<cat.levels, GlobalPart(cat)>> # <<cat'.levels, GlobalPart(cat')>>)
  <1>1. now = [roles |-> now.roles, links |-> now.links, denied |-> now.denied,
               sighted |-> now.sighted, gone |-> now.gone, crossed |-> now.crossed]
    BY DEF Now
  <1>2. ~Delegates(k) /\ ~Looks(k) /\ ~Purges(k)
    BY DEF Looks, Purges, Delegates
  <1>3. seen'[c] = Remembered(c)
    BY DEF Remember
  <1>4. now.crossed = FALSE
    BY DEF Now
  <1>5. Remembered(c) = [now EXCEPT !.crossed = crossed]
    BY <1>2 DEF Remembered
  <1>6. seen'[c].crossed = crossed
    <2> HIDE DEF now, crossed
    <2> QED
      BY <1>1, <1>3, <1>5
  <1> QED
    BY <1>6

LEMMA LikePlan ==
  ASSUME NEW k \in Call, NEW j, Like(k, j)
  PROVE  j.op = k.op /\ j.pc = k.pc /\ j.plan = k.plan /\ j.at = k.at /\ j.prune = k.prune
  BY ZenonT(40) DEF Like, Call

\* A sync goes on while others write.
LEMMA SyncStands ==
  ASSUME Base, cat' \in Catalog, Remember, NEW d \in Client, Like(call[d], call'[d]),
         SyncBy(call[d], seen[d], cat)
  PROVE  SyncBy(call'[d], seen'[d], cat')
  <1> DEFINE k == call[d]
             j == call'[d]
  <1>1. k \in Call /\ Typed /\ cat \in Catalog
    BY DEF Base, Typed, CallsOK, StateOK
  <1>2. j.op = k.op /\ j.pc = k.pc /\ j.plan = k.plan /\ j.at = k.at /\ j.prune = k.prune
    BY <1>1, LikePlan
  <1> SUFFICES ASSUME j.op = "sync"
               PROVE  SyncBy(j, seen'[d], cat')
    BY DEF SyncBy
  <1>3. Disjoint(j.plan)
    BY <1>2 DEF SyncBy
  <1>4. ASSUME j.prune, ~seen'[d].crossed, NEW i \in 1..Len(j.plan),
               i < j.at \/ (i = j.at /\ j.pc # "sync")
        PROVE  InSync(cat', j.plan[i])
    <2>1. ~seen[d].crossed /\ cat'.levels = cat.levels /\ GlobalPart(cat') = GlobalPart(cat)
      BY <1>1, <1>2, <1>4, SyncSeen
    <2>2. InSync(cat, k.plan[i])
      BY <1>2, <1>4, <2>1 DEF SyncBy
    <2> QED
      BY <1>1, <1>2, <2>1, <2>2, SameGlobals
  <1> QED
    BY <1>3, <1>4 DEF SyncBy

\* A sync goes on by a step of its own.
LEMMA SyncGoes ==
  ASSUME Base, CallsOK', Remember, GlobalsApart, NEW c \in Client, Quietly(c) \/ Writes(c), Goes(c),
         SyncBy(call[c], seen[c], cat), call'[c].op = "sync"
  PROVE  SyncBy(call'[c], seen'[c], cat')
  <1> DEFINE k == call[c]
             j == call'[c]
  <1>1. k \in Call /\ PathOK(k) /\ PathOK(j) /\ j \in Call /\ Typed /\ cat \in Catalog
    BY DEF Base, Typed, CallsOK, StateOK
  <1>2. j.pc \in {"sync", "current", "write"} /\ j.plan \in Plans /\ j.at \in 1..Len(j.plan)
    BY <1>1 DEF PathOK
  <1>3. CASE StartSync(c)
    <2>1. Disjoint(j.plan) /\ j.at = 1 /\ j.pc = "sync"
      <3>1. PICK plan \in Plans, prune \in Prunes :
               /\ Disjoint(plan)
               /\ Begin(c, [NoCall EXCEPT !.op = "sync", !.pc = "sync", !.plan = plan, !.at = 1,
                                          !.prune = prune])
        BY <1>3 DEF StartSync
      <3>2. j = [NoCall EXCEPT !.op = "sync", !.pc = "sync", !.plan = plan, !.at = 1, !.prune = prune]
        BY <1>1, <3>1, PutMoves DEF Begin
      <3> QED
        BY <3>1, <3>2 DEF NoCall
    <2>2. \A i \in 1..Len(j.plan) : ~(i < 1)
      OBVIOUS
    <2> QED
      BY <2>1, <2>2 DEF SyncBy
  <1>4. CASE Sync(c) /\ Became(c, [k EXCEPT !.pc = "current", !.cover = Role,
                                            !.want = Links(Synced(cat, k.plan[k.at], k.prune))])
    <2>1. /\ k.op = "sync" /\ k.pc = "sync" /\ k.plan \in Plans /\ k.at \in 1..Len(k.plan)
          /\ IsConfig(k.plan[k.at]) /\ CanSync(cat, k.plan[k.at])
          /\ cat' = Synced(cat, k.plan[k.at], k.prune)
      BY <1>1, <1>4, SyncAt
    <2>2. j.op = "sync" /\ j.pc = "current" /\ j.plan = k.plan /\ j.at = k.at /\ j.prune = k.prune
      BY <1>1, <1>4, <2>1 DEF Became, Call
    <2>3. Disjoint(j.plan)
      BY <2>1, <2>2 DEF SyncBy
    <2>4. ASSUME j.prune, ~seen'[c].crossed, NEW i \in 1..Len(j.plan), i < j.at \/ i = j.at
          PROVE  InSync(cat', j.plan[i])
      <3>1. ~seen[c].crossed
        BY <1>1, <2>1, <2>4, SyncSeen
      <3>2. k.prune \in BOOLEAN /\ k.prune = TRUE
        BY <1>1, <2>2, <2>4 DEF Call
      <3>3. \A q, r \in Globals(cat) : cat.rows[q].name = cat.rows[r].name => q = r
        BY DEF GlobalsApart
      <3>4. /\ InSync(cat', k.plan[k.at])
            /\ \A other : /\ IsConfig(other) /\ InSync(cat, other)
                          /\ DOMAIN other.roles \cap DOMAIN k.plan[k.at].roles = {}
                          /\ DOMAIN other.perms \cap DOMAIN k.plan[k.at].perms = {}
                          => InSync(cat', other)
        BY <1>1, <2>1, <3>2, <3>3, SyncLeaves
      <3>5. CASE i = j.at
        BY <2>2, <3>4, <3>5
      <3>6. CASE i < j.at
        <4>1. InSync(cat, k.plan[i])
          BY <2>1, <2>2, <2>4, <3>1, <3>6 DEF SyncBy
        <4>2. IsConfig(k.plan[i])
          BY <2>1, <2>2, PlanOf
        <4>3. i \in DOMAIN k.plan /\ k.at \in DOMAIN k.plan /\ i # k.at
          BY <2>1, <2>2, <3>6, RolesAssumption
        <4>4. /\ DOMAIN k.plan[i].roles \cap DOMAIN k.plan[k.at].roles = {}
              /\ DOMAIN k.plan[i].perms \cap DOMAIN k.plan[k.at].perms = {}
          BY <2>2, <2>3, <4>3 DEF Disjoint
        <4> QED
          BY <2>2, <3>4, <4>1, <4>2, <4>4
      <3> QED
        BY <2>4, <3>5, <3>6
    <2> QED
      BY <2>2, <2>3, <2>4 DEF SyncBy
  <1>5. ASSUME cat' = cat, k.op = "sync", k.pc # "sync", j.plan = k.plan, j.prune = k.prune,
               \/ j.at = k.at
               \/ j.at = k.at + 1 /\ j.pc = "sync"
        PROVE  SyncBy(j, seen'[c], cat')
    <2>1. Disjoint(j.plan)
      BY <1>5 DEF SyncBy
    <2>2. ASSUME j.prune, ~seen'[c].crossed, NEW i \in 1..Len(j.plan),
                 i < j.at \/ (i = j.at /\ j.pc # "sync")
          PROVE  InSync(cat', j.plan[i])
      <3>1. ~seen[c].crossed
        BY <1>1, <1>5, <2>2, SyncSeen
      <3>2. k.at \in Nat
        BY <1>1 DEF Call
      <3>3. i < k.at \/ i = k.at
        BY <1>5, <2>2, <3>2
      <3> QED
        BY <1>5, <2>2, <3>1, <3>3 DEF SyncBy
    <2> QED
      BY <2>1, <2>2 DEF SyncBy
  <1>6. CASE Current(c) /\ Became(c, [k EXCEPT !.pc = "write", !.have = {l \in permits : l[1] \in k.cover}])
    <2>1. cat' = cat /\ k.pc = "current"
      BY <1>6 DEF Current, Quiet
    <2>2. j.op = k.op /\ j.plan = k.plan /\ j.prune = k.prune /\ j.at = k.at
      BY <1>1, <1>6 DEF Became, Call
    <2> QED
      BY <1>5, <2>1, <2>2
  <1>7. CASE (Current(c) \/ Write(c)) /\ Became(c, Projected(k))
    <2>1. cat' = cat /\ k.pc \in {"current", "write"}
      BY <1>7 DEF Current, Write, Quiet
    <2>2. k.op = "sync" /\ j = [k EXCEPT !.pc = "sync", !.at = @ + 1, !.cover = {}, !.want = {}, !.have = {}, !.dirty = {}]
      BY <1>7 DEF Became, Projected, NoCall
    <2>3. j.plan = k.plan /\ j.prune = k.prune /\ j.at = k.at + 1 /\ j.pc = "sync"
      BY <1>1, <2>2 DEF Call
    <2> QED
      BY <1>5, <2>1, <2>2, <2>3
  <1>8. CASE Starts(c) /\ ~StartSync(c)
    <2>1. j.op # "sync" \/ StartSync(c)
      <3>1. CASE StartDefine(c)
        <4>1. PICK d \in Defines :
                 Begin(c, [NoCall EXCEPT !.op = "define", !.pc = "chain", !.actor = d[1],
                                         !.owner = d[2], !.ask = d[3]])
          BY <3>1, Zenon DEF StartDefine
        <4>2. j = [NoCall EXCEPT !.op = "define", !.pc = "chain", !.actor = d[1],
                           !.owner = d[2], !.ask = d[3]]
          BY <1>1, <4>1, PutMoves DEF Begin
        <4> QED
          BY <4>2 DEF NoCall
      <3>2. CASE StartUpdate(c)
        <4>1. PICK d \in Updates :
                 Begin(c, [NoCall EXCEPT !.op = "update", !.pc = "view", !.actor = d[1],
                                         !.role = d[2], !.ask = d[3]])
          BY <3>2, Zenon DEF StartUpdate
        <4>2. j = [NoCall EXCEPT !.op = "update", !.pc = "view", !.actor = d[1],
                           !.role = d[2], !.ask = d[3]]
          BY <1>1, <4>1, PutMoves DEF Begin
        <4> QED
          BY <4>2 DEF NoCall
      <3>3. CASE StartDelete(c)
        <4>1. PICK d \in Deletes :
                 Begin(c, [NoCall EXCEPT !.op = "delete", !.pc = "view", !.actor = d[1], !.role = d[2]])
          BY <3>3, Zenon DEF StartDelete
        <4>2. j = [NoCall EXCEPT !.op = "delete", !.pc = "view", !.actor = d[1], !.role = d[2]]
          BY <1>1, <4>1, PutMoves DEF Begin
        <4> QED
          BY <4>2 DEF NoCall
      <3>4. CASE StartPrune(c)
        <4>1. j = [NoCall EXCEPT !.op = "prune", !.pc = "list"]
          BY <1>1, <3>4, PutMoves DEF StartPrune, Begin
        <4> QED
          BY <4>1 DEF NoCall
      <3> QED
        BY <1>8, <3>1, <3>2, <3>3, <3>4 DEF Starts
    <2> QED
      BY <1>8, <2>1
  <1>9. k.pc \notin {"sync", "current", "write"} => k.op # "sync"
    BY <1>1 DEF PathOK
  <1>10. CASE Checks(c) /\ j.op = k.op /\ j.pc \in Looking \cup {"commit", "collect"}
    BY <1>2, <1>10 DEF Looking
  <1>11. CASE Became(c, NoCall)
    BY <1>11 DEF Became, NoCall
  <1>12. CASE (Define(c) \/ Update(c)) /\ \E rs \in SUBSET Role : Became(c, Projecting(k, rs))
    <2>1. j.op = k.op /\ k.op \in {"define", "update"}
      BY <1>12 DEF Became, Projecting, NoCall, Define, Update
    <2> QED
      BY <2>1
  <1>13. CASE Project(c) /\ Became(c, [k EXCEPT !.pc = "current",
                                               !.want = {l \in Links(cat) : l[1] \in k.cover}])
    <2>1. k.op # "sync"
      BY <1>9, <1>13 DEF Project
    <2> QED
      BY <1>1, <1>13, <2>1 DEF Became, Call
  <1>14. CASE Collect(c) /\ Became(c, [k EXCEPT !.pc = "erase", !.facts = FactsOf(k.role),
                                                !.have = PermitsOf(k.role)])
    BY <1>1, <1>2, <1>14 DEF Became, Call
  <1>15. CASE Erase(c) /\ Became(c, [k EXCEPT !.pc = "residue", !.facts = {}, !.have = {}])
    BY <1>1, <1>2, <1>15 DEF Became, Call
  <1>16. CASE Residue(c) /\ Became(c, [k EXCEPT !.pc = "drop", !.dirty = {}])
    BY <1>1, <1>2, <1>16 DEF Became, Call
  <1>17. CASE Drop(c) /\ Became(c, Purged(k))
    <2>1. j.pc = "turn" \/ j.op = "none"
      BY <1>1, <1>17 DEF Became, Purged, Call, NoCall
    <2> QED
      BY <1>2, <2>1
  <1>18. CASE ListLocals(c) /\ Became(c, [k EXCEPT !.pc = "resolve", !.photo = cat, !.todo = Locals(cat)])
    BY <1>1, <1>2, <1>18 DEF Became, Call
  <1>19. CASE ResolveOwner(c) /\ \E todo, orphans : Became(c, [k EXCEPT !.todo = todo, !.orphans = orphans])
    <2>1. j.pc = k.pc /\ k.pc = "resolve"
      BY <1>1, <1>19 DEF ResolveOwner, Became, Call
    <2> QED
      BY <1>2, <2>1
  <1>20. CASE Decide(c) /\ Became(c, [k EXCEPT !.pc = "turn"])
    BY <1>1, <1>2, <1>20 DEF Became, Call
  <1>21. CASE Turn(c) /\ \E r \in k.orphans : \/ Became(c, [k EXCEPT !.orphans = @ \ {r}])
                                              \/ Became(c, [k EXCEPT !.pc = "collect", !.role = r])
    <2>1. j.pc \in {"turn", "collect"}
      BY <1>1, <1>21 DEF Turn, Became, Call
    <2> QED
      BY <1>2, <2>1
  <1> QED
    BY <1>3, <1>4, <1>6, <1>7, <1>8, <1>10, <1>11, <1>12, <1>13, <1>14, <1>15, <1>16, <1>17, <1>18,
       <1>19, <1>20, <1>21, Zenon DEF Goes

LEMMA SyncedStep ==
  ASSUME Base, Base', Next, GlobalsApart, AllSynced
  PROVE  GlobalsApart' /\ AllSynced'
  <1>1. Typed /\ CallsOK' /\ StateOK' /\ cat' \in Catalog /\ Step /\ Remember
    BY DEF Base, Typed, StateOK, Next
  <1>2. CASE Around
    <2>1. cat' = cat
      BY <1>1, <1>2, AroundFrame DEF Typed
    <2>2. GlobalsApart'
      BY <2>1 DEF GlobalsApart, Globals, Present
    <2>3. \A d \in Client : SyncBy(call'[d], seen'[d], cat')
      BY <1>1, <1>2, AroundLike, SyncStands DEF AllSynced
    <2> QED
      BY <2>2, <2>3 DEF AllSynced
  <1>3. ASSUME NEW c \in Client, Quietly(c) \/ Writes(c)
        PROVE  GlobalsApart' /\ AllSynced'
    <2>1. GlobalsApart'
      BY <1>3, GlobalsStep
    <2>2. ASSUME NEW d \in Client
          PROVE  SyncBy(call'[d], seen'[d], cat')
      <3>1. CASE d = c /\ call'[c].op = "sync"
        <4>1. Goes(c)
          BY <1>1, <1>3, OwnGoes
        <4> QED
          BY <1>1, <1>3, <3>1, <4>1, SyncGoes DEF AllSynced
      <3>2. CASE d = c /\ call'[c].op # "sync"
        BY <3>2 DEF SyncBy
      <3>3. CASE d # c
        BY <1>1, <1>3, <2>2, <3>3, OthersLike, SyncStands DEF AllSynced
      <3> QED
        BY <3>1, <3>2, <3>3
    <2> QED
      BY <2>1, <2>2 DEF AllSynced
  <1> QED
    BY <1>1, <1>2, <1>3, StepCases

Syncing == Base /\ GlobalsApart /\ AllSynced

LEMMA SyncingHolds ==
  Spec => []Syncing
  <1>1. Init => GlobalsApart /\ AllSynced
    <2> SUFFICES ASSUME Init
                 PROVE  GlobalsApart /\ AllSynced
      OBVIOUS
    <2>1. \A q, r \in Globals(FirstCatalog) :
             FirstCatalog.rows[q].name = FirstCatalog.rows[r].name => q = r
      BY RolesAssumption
    <2>2. GlobalsApart
      BY <2>1 DEF Init, GlobalsApart
    <2>3. AllSynced
      BY IdleFields DEF Init, AllSynced, SyncBy
    <2> QED
      BY <2>2, <2>3
  <1>2. Syncing /\ [Next]_vars => Syncing'
    <2> SUFFICES ASSUME Syncing, [Next]_vars
                 PROVE  Syncing'
      OBVIOUS
    <2>1. Base'
      BY BaseStep DEF Syncing
    <2>2. CASE Next
      BY <2>1, <2>2, SyncedStep DEF Syncing
    <2>3. CASE UNCHANGED vars
      BY <2>1, <2>3 DEF Syncing, GlobalsApart, Globals, Present, AllSynced, vars
    <2> QED
      BY <2>2, <2>3
  <1> QED
    BY <1>1, <1>2, InitBase, PTL DEF Spec, Syncing

\* When the configs of a list are synced, with the links pruned, and nobody else wrote what
\* is global meanwhile, there is nothing left to sync in any of them (syncRoles, diffRoles):
\* those that come later undo nothing of those before, since no two of the list share a name
\* or a permission and no two global roles share a name.
THEOREM SyncsTogether == Spec => SyncedTogether
  <1> DEFINE Done(c) ==
         /\ call[c].op = "sync" /\ call[c].prune /\ call[c].at = Len(call[c].plan)
         /\ call[c].pc \in {"current", "write"} /\ call'[c].pc = "idle"
         /\ ~seen[c].crossed
  <1>1. ASSUME Syncing, NEW c \in Client, Done(c)
        PROVE  \A i \in DOMAIN call[c].plan : Clean(Diff(cat, call[c].plan[i]))
    <2> DEFINE k == call[c]
    <2>1. k \in Call /\ PathOK(k) /\ cat \in Catalog
      BY <1>1 DEF Syncing, Base, Typed, CallsOK, StateOK
    <2>2. k.plan \in Plans
      BY <1>1, <2>1 DEF PathOK
    <2>6. DOMAIN k.plan = 1..Len(k.plan) /\ Len(k.plan) \in Nat
      BY <2>2, RolesAssumption
    <2> SUFFICES ASSUME NEW i \in 1..Len(k.plan)
                 PROVE  Clean(Diff(cat, k.plan[i]))
      BY <2>6
    <2>3. i < k.at \/ i = k.at
      BY <1>1, <2>6
    <2>4. InSync(cat, k.plan[i])
      BY <1>1, <2>3 DEF Syncing, AllSynced, SyncBy
    <2>5. IsConfig(k.plan[i])
      BY <2>2, PlanOf
    <2> QED
      BY <2>1, <2>4, <2>5, InSyncClean
  <1>2. Syncing => [\A c \in Client : Done(c) =>
                      \A i \in DOMAIN call[c].plan : Clean(Diff(cat, call[c].plan[i]))]_vars
    BY <1>1
  <1> QED
    BY <1>2, SyncingHolds, PTL DEF SyncedTogether
=============================================================================
