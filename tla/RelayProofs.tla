---------------------------- MODULE RelayProofs ----------------------------
(* What holds of the relay for every fleet, every queue and every plan:    *)
(* types, one pass per entry while no lease drops, and a backend that one  *)
(* writer at a time keeps a tree; the order of the queue, scope by scope;  *)
(* and the tree the backend ends with.                                     *)
EXTENDS ScopeRelay, TLAPS, FiniteSetTheorems, SequenceTheorems, WellFoundedInduction

USE RelayAssumption DEF Origin

\* The passes that hold the lease, and those that have a batch in hand.
Holding == {"probe", "page", "item", "apply", "mark"}
InBatch == {"item", "apply", "mark"}

LeaseHeld == \A r \in Relay : pass[r].pc \in Holding => lease = r

\* Who is not deployed does not run, so one relay is alone whatever its lease does.
Outsiders == \A r \in Relay \ plan.relays : pass[r].pc = "idle"

\* One pass at a time.
Exclusive == \A r, s \in Relay : pass[r].pc \in Holding /\ pass[s].pc \in Holding => r = s

BatchWaits ==
    \A r \in Relay : pass[r].pc \in InBatch => \A i \in pass[r].batch : i \in Ids /\ Pending(i)

InQueue ==
    \A r \in Relay :
        /\ pass[r].only \subseteq Ids
        /\ pass[r].pc \in InBatch => pass[r].batch # {} /\ pass[r].batch \subseteq Ids

\* Passes that a lease or their number keeps apart.
Separate == Alone \/ ~plan.drops

\* What was read about an edge is forgotten between entries.
Forgotten == \A r \in Relay : pass[r].pc # "apply" => edge[r].at = "check"

\* What reparent() read of the scope and of the chain above its new parent still holds.
Climbed(r) ==
    (pass[r].pc = "apply" /\ edge[r].at \in {"climb", "write"}) =>
        /\ edge[r].current = store[queue[At(r)].child]
        /\ queue[At(r)].op # "detached" =>
              /\ queue[At(r)].parent \in edge[r].chain
              /\ \A s \in edge[r].chain \cap Scope :
                    edge[r].at = "write" \/ s # edge[r].top => store[s] \subseteq edge[r].chain
              /\ edge[r].at = "write" => queue[At(r)].child \notin edge[r].chain

\* The inductive invariant.
RelayInv ==
    /\ TypeOK
    /\ InQueue
    /\ Outsiders
    /\ Forgotten
    /\ Prompt => late = {}
    /\ ~plan.drops => LeaseHeld
    /\ Separate => BatchWaits
    /\ Apart => \A r \in Relay : Climbed(r)
    /\ StoreIsTree

-----------------------------------------------------------------------------
(* Trees.                                                                  *)

\* An edge closes no cycle if a set that has its new parent, and whatever is above what it
\* has, leaves the scope out.
LEMMA EdgeKeepsAcyclic ==
  ASSUME NEW f \in [Scope -> SUBSET Parents], Acyclic(f), NEW c \in Scope, NEW p \in Parents,
         NEW K \in SUBSET Parents, p \in K, c \notin K, \A s \in K \cap Scope : f[s] \subseteq K
  PROVE  Acyclic([f EXCEPT ![c] = {p}])
  <1> DEFINE g == [f EXCEPT ![c] = {p}]
  <1> SUFFICES ASSUME NEW C \in SUBSET Scope, \A s \in C : g[s] \cap C # {}, C # {}
               PROVE  FALSE
    BY DEF Acyclic
  <1>1. CASE c \notin C
    <2>1. \A s \in C : f[s] \cap C # {}
      BY <1>1
    <2> QED
      BY <2>1 DEF Acyclic
  <1>2. CASE c \in C
    <2> DEFINE D == C \cap K
    <2>1. p \in D
      BY <1>2
    <2>2. \A s \in D : f[s] \cap D # {}
      <3> SUFFICES ASSUME NEW s \in D PROVE f[s] \cap D # {}
        OBVIOUS
      <3>1. g[s] = f[s] /\ f[s] \subseteq K
        OBVIOUS
      <3> QED
        BY <3>1
    <2>3. D = {}
      <3>1. D \in SUBSET Scope
        OBVIOUS
      <3> HIDE DEF D
      <3> QED
        BY <2>2, <3>1 DEF Acyclic
    <2> QED
      BY <2>1, <2>3
  <1> QED
    BY <1>1, <1>2

\* A purge hangs its scope from nothing.
LEMMA DetachKeepsAcyclic ==
  ASSUME NEW f \in [Scope -> SUBSET Parents], Acyclic(f), NEW c \in Scope
  PROVE  Acyclic([f EXCEPT ![c] = {}])
  <1> DEFINE g == [f EXCEPT ![c] = {}]
  <1> SUFFICES ASSUME NEW C \in SUBSET Scope, \A s \in C : g[s] \cap C # {}
               PROVE  C = {}
    BY DEF Acyclic
  <1>1. \A s \in C : f[s] \cap C # {}
    OBVIOUS
  <1> QED
    BY <1>1 DEF Acyclic

-----------------------------------------------------------------------------
(* Queues and batches.                                                     *)

\* A set of numbers has a least one.
LEMMA LeastOf ==
  ASSUME NEW S \in SUBSET Nat, S # {}
  PROVE  \E i \in S : \A j \in S : i <= j
  <1>1. PICK i \in S : \A j \in S : ~(<<j, i>> \in OpToRel(<, Nat))
    BY NatLessThanWellFounded, WFMin
  <1>2. \A j \in S : ~(j < i)
    BY <1>1 DEF OpToRel
  <1> QED
    BY <1>2

LEMMA AtInBatch ==
  ASSUME TypeOK, NEW r \in Relay, pass[r].batch # {}
  PROVE  At(r) \in pass[r].batch
  <1>1. pass[r].batch \subseteq Nat
    BY DEF TypeOK, Pass
  <1> QED
    BY <1>1, LeastOf DEF At

\* An entry in which attempts or state change is an entry.
LEMMA AttemptsType ==
  ASSUME TypeOK, NEW i \in Ids, NEW n \in 0..plan.attempts
  PROVE  /\ [queue EXCEPT ![i].attempts = n] \in Seq(Entry)
         /\ Len([queue EXCEPT ![i].attempts = n]) = Len(queue)
  <1>1. queue[i] \in Entry
    BY DEF TypeOK, Ids
  <1>2. [queue[i] EXCEPT !.attempts = n] \in Entry
    BY <1>1 DEF Entry
  <1> QED
    BY <1>2, ExceptSeq DEF TypeOK, Ids

LEMMA StateType ==
  ASSUME TypeOK, NEW i \in Ids, NEW st \in {"open", "void", "queued", "applied"}
  PROVE  /\ [queue EXCEPT ![i].state = st] \in Seq(Entry)
         /\ Len([queue EXCEPT ![i].state = st]) = Len(queue)
  <1>1. queue[i] \in Entry
    BY DEF TypeOK, Ids
  <1>2. [queue[i] EXCEPT !.state = st] \in Entry
    BY <1>1 DEF Entry
  <1> QED
    BY <1>2, ExceptSeq DEF TypeOK, Ids

\* A pass that goes on to its next entry, or to a batch, is a pass.
PCs == {"idle", "lease", "probe", "page", "item", "apply", "mark"}

LEMMA NextEntryType ==
  ASSUME NEW w \in Pass, NEW pc \in PCs, NEW n \in 0..MaxEntry, NEW B \in SUBSET (1..MaxEntry),
         NEW k \in [Scope -> Origin]
  PROVE  [w EXCEPT !.pc = pc, !.after = n, !.batch = B, !.blocked = k] \in Pass
  BY DEF Pass, PCs

LEMMA BatchType ==
  ASSUME NEW w \in Pass, NEW pc \in PCs, NEW B \in SUBSET (1..MaxEntry)
  PROVE  [w EXCEPT !.pc = pc, !.batch = B] \in Pass
  BY DEF Pass, PCs

LEMMA CensusType ==
  ASSUME NEW w \in Pass, NEW pc \in PCs, NEW P \in SUBSET Scope
  PROVE  [w EXCEPT !.pc = pc, !.parked = P] \in Pass
  BY DEF Pass, PCs

LEMMA GotoType ==
  ASSUME NEW w \in Pass, NEW pc \in PCs
  PROVE  [w EXCEPT !.pc = pc] \in Pass
  BY DEF Pass, PCs

LEMMA IdleType == Idle \in Pass
  BY DEF Pass, Idle

\* A pass that begins is a pass.
LEMMA BeginType ==
  ASSUME NEW w \in Pass, NEW pc \in PCs, NEW B \in SUBSET (1..MaxEntry), NEW P \in SUBSET Scope
  PROVE  [w EXCEPT !.pc = pc, !.only = B, !.parked = P] \in Pass
  BY DEF Pass, PCs

LEMMA ProbeType ==
  ASSUME NEW w \in Pass, NEW pc \in PCs, NEW B \in SUBSET (1..MaxEntry)
  PROVE  [w EXCEPT !.pc = pc, !.only = B] \in Pass
  BY DEF Pass, PCs

LEMMA AdvancedType ==
  ASSUME TypeOK, NEW r \in Relay, pass[r].batch # {}, NEW k \in [Scope -> Origin]
  PROVE  Advanced(r, k) \in Pass
  <1>0. pass[r] \in Pass /\ pass[r].batch \in SUBSET (1..MaxEntry)
    BY DEF TypeOK, Pass
  <1>1. At(r) \in 0..MaxEntry /\ pass[r] \in Pass
    <2>1. At(r) \in pass[r].batch
      BY <1>0, AtInBatch
    <2> QED
      BY <1>0, <2>1
  <1>2. pass[r].batch \ {At(r)} \in SUBSET (1..MaxEntry)
    BY <1>1 DEF Pass
  <1>3. (IF pass[r].batch = {At(r)} THEN "page" ELSE "item") \in PCs
    BY DEF PCs
  <1> QED
    BY <1>1, <1>2, <1>3, NextEntryType, Zenon DEF Advanced

LEMMA BlockType ==
  ASSUME TypeOK, NEW r \in Relay, NEW o \in Origin
  PROVE  Block(r, o) \in [Scope -> Origin] /\ pass[r].blocked \in [Scope -> Origin]
  BY DEF Block, TypeOK, Pass

-----------------------------------------------------------------------------
(* Types.                                                                  *)

\* The types of all but what reparent() reads and what may land late.
Typed ==
    /\ tree \in [Scope -> Node]
    /\ queue \in Seq(Entry) /\ Len(queue) <= MaxEntry
    /\ store \in [Scope -> SUBSET Parents]
    /\ written \in [Scope -> {0} \cup Ids]
    /\ lease \in Relay \cup {NoRelay}
    /\ pass \in [Relay -> Pass]
    /\ ticket \in {0} \cup Ids
    /\ plan \in Plans
    /\ faults \in 0..plan.faults

\* Nothing is above what hangs from nothing.
LEMMA NowhereIsIllegal ==
  ASSUME TypeOK, NEW c, EdgeIsLegal(tree, c, NoScope)
  PROVE  FALSE
  <1>1. NoScope \in Node /\ NoScope \notin Scope
    BY DEF Node
  <1>2. {NoScope} \in {S \in SUBSET Node : NoScope \in S /\ \A s \in S \cap Scope : tree[s] \in S}
    BY <1>1
  <1> QED
    BY <1>2 DEF EdgeIsLegal, Chain

LEMMA NotifyType ==
  ASSUME TypeOK, UNCHANGED plan, NEW op \in {"attached", "moved", "detached"},
         NEW child \in Scope, NEW parent \in Node, Notify(op, child, parent)
  PROVE  Typed' /\ Ids \subseteq Ids'
  <1> DEFINE e == [op |-> op, child |-> child, parent |-> parent, attempts |-> 0, state |-> "open"]
  <1>1. plan.attempts \in Nat /\ plan.entries \in 0..MaxEntry
    BY DEF TypeOK
  <1>2. e \in Entry
    <2>1. op = "detached" <=> parent = NoScope
      BY NowhereIsIllegal DEF Notify
    <2> QED
      BY <1>1, <2>1 DEF Entry
  <1>3. queue' \in Seq(Entry) /\ Len(queue') = Len(queue) + 1
    BY <1>2 DEF Notify, TypeOK
  <1>4. Len(queue') <= MaxEntry
    BY <1>1, <1>3 DEF Notify, TypeOK
  <1>5. Ids \subseteq Ids'
    BY <1>3 DEF Ids, TypeOK
  <1> QED
    BY <1>3, <1>4, <1>5 DEF Notify, TypeOK, Typed, Entry

LEMMA CommitType ==
  ASSUME TypeOK, UNCHANGED plan, NEW i \in Ids, Commit(i) \/ Rollback(i)
  PROVE  Typed' /\ Ids \subseteq Ids'
  <1>1. queue' \in Seq(Entry) /\ Len(queue') = Len(queue)
    <2>1. CASE Commit(i)
      BY <2>1, StateType DEF Commit
    <2>2. CASE Rollback(i)
      BY <2>2, StateType DEF Rollback
    <2> QED
      BY <2>1, <2>2
  <1>2. tree' \in [Scope -> Node]
    <2>1. queue[i] \in Entry
      BY DEF TypeOK, Ids
    <2> QED
      BY <2>1 DEF Commit, Rollback, TypeOK, Entry
  <1> QED
    BY <1>1, <1>2 DEF Commit, Rollback, TypeOK, Typed, Entry, Ids

\* A step that leaves the length of the queue alone.
LEMMA KeepLength ==
  ASSUME TypeOK, UNCHANGED <<tree, plan>>, queue' \in Seq(Entry), Len(queue') = Len(queue),
         store' \in [Scope -> SUBSET Parents], written' \in [Scope -> {0} \cup Ids],
         lease' \in Relay \cup {NoRelay}, pass' \in [Relay -> Pass], ticket' \in {0} \cup Ids,
         faults' \in 0..plan.faults
  PROVE  Typed' /\ Ids \subseteq Ids'
  BY DEF TypeOK, Typed, Entry, Ids

LEMMA FaultType ==
  ASSUME TypeOK, Fault
  PROVE  faults' \in 0..plan.faults
  BY DEF TypeOK, Fault

\* What a pass has in hand.
LEMMA InHand ==
  ASSUME TypeOK, InQueue, NEW r \in Relay, pass[r].pc \in InBatch
  PROVE  /\ pass[r].batch # {} /\ At(r) \in pass[r].batch /\ At(r) \in Ids
         /\ queue[At(r)] \in Entry
  <1>1. pass[r].batch # {} /\ pass[r].batch \subseteq Ids
    BY DEF InQueue
  <1> QED
    BY <1>1, AtInBatch DEF TypeOK, Ids

LEMMA ParkedType == TypeOK => ParkedKeys \subseteq Scope
  <1> SUFFICES ASSUME TypeOK, NEW i \in Ids PROVE queue[i].child \in Scope
    BY DEF ParkedKeys
  <1>1. queue[i] \in Entry
    BY DEF TypeOK, Ids
  <1> QED
    BY <1>1 DEF Entry

LEMMA StartPassType ==
  ASSUME TypeOK, UNCHANGED plan, NEW r \in Relay, NEW only \in SUBSET Ids, StartPass(r, only)
  PROVE  Typed' /\ Ids \subseteq Ids'
  <1>0. only \in SUBSET (1..MaxEntry) /\ ParkedKeys \in SUBSET Scope /\ "lease" \in PCs
    BY ParkedType DEF PCs, TypeOK, Ids
  <1>1. [Idle EXCEPT !.pc = "lease", !.only = only, !.parked = ParkedKeys] \in Pass
    BY <1>0, IdleType, BeginType, Zenon
  <1>2. pass' \in [Relay -> Pass]
    BY <1>1 DEF StartPass, TypeOK
  <1> QED
    BY <1>2, KeepLength DEF StartPass, TypeOK

\* The steps that only read, or take and let go of the lease.
LEMMA QuietType ==
  ASSUME TypeOK, UNCHANGED plan, NEW r \in Relay,
         TakeLease(r) \/ Busy(r) \/ Proceed(r)
  PROVE  Typed' /\ Ids \subseteq Ids'
  <1>1. pass[r] \in Pass
    BY DEF TypeOK
  <1>2. [pass[r] EXCEPT !.pc = "page"] \in Pass /\ [pass[r] EXCEPT !.pc = "apply"] \in Pass
    BY <1>1, GotoType DEF PCs
  <1>3. CASE TakeLease(r)
    <2>1. pass' \in [Relay -> Pass]
      BY <1>2, <1>3 DEF TakeLease, TypeOK
    <2> QED
      BY <1>3, <2>1, KeepLength DEF TakeLease, TypeOK
  <1>4. CASE Busy(r)
    <2>1. pass' \in [Relay -> Pass]
      BY <1>4, IdleType DEF Busy, TypeOK
    <2> QED
      BY <1>4, <2>1, KeepLength DEF Busy, TypeOK
  <1>5. CASE Proceed(r)
    <2>1. pass' \in [Relay -> Pass]
      BY <1>2, <1>5 DEF Proceed, TypeOK
    <2> QED
      BY <1>5, <2>1, KeepLength DEF Proceed, TypeOK
  <1> QED
    BY <1>3, <1>4, <1>5

LEMMA PageType ==
  ASSUME TypeOK, UNCHANGED plan, NEW r \in Relay, Page(r)
  PROVE  Typed' /\ Ids \subseteq Ids'
  <1>1. lease' \in Relay \cup {NoRelay}
    BY DEF Page, Released, TypeOK
  <1>2. CASE Due(r) = {}
    <2>1. pass' \in [Relay -> Pass]
      BY <1>2, IdleType DEF Page, TypeOK
    <2> QED
      BY <1>1, <2>1, KeepLength DEF Page, TypeOK
  <1>3. CASE Due(r) # {}
    <2>1. PICK batch \in SUBSET Due(r) : pass' = [pass EXCEPT ![r].pc = "item", ![r].batch = batch]
      BY <1>3 DEF Page
    <2>2. batch \in SUBSET (1..MaxEntry) /\ pass[r] \in Pass
      BY DEF Due, Ids, TypeOK
    <2>3. [pass[r] EXCEPT !.pc = "item", !.batch = batch] \in Pass
      BY <2>2, BatchType DEF PCs
    <2>4. pass' \in [Relay -> Pass]
      BY <2>1, <2>3 DEF TypeOK
    <2> QED
      BY <1>1, <2>4, KeepLength DEF Page, TypeOK
  <1> QED
    BY <1>2, <1>3

LEMMA DeferType ==
  ASSUME TypeOK, InQueue, UNCHANGED plan, NEW r \in Relay, Defer(r)
  PROVE  Typed' /\ Ids \subseteq Ids'
  <1>1. PICK why \in Origin : pass' = [pass EXCEPT ![r] = Advanced(r, Block(r, why))]
    BY DEF Defer
  <1>2. Advanced(r, Block(r, why)) \in Pass
    BY InHand, BlockType, AdvancedType DEF Defer, InBatch
  <1>3. pass' \in [Relay -> Pass]
    BY <1>1, <1>2 DEF TypeOK
  <1> QED
    BY <1>3, KeepLength DEF Defer, TypeOK

\* A write of the backend leaves edges and a history.
LEMMA LandsType ==
  ASSUME TypeOK, NEW i \in Ids, NEW gone \in SUBSET Parents, Lands(i, gone)
  PROVE  store' \in [Scope -> SUBSET Parents] /\ written' \in [Scope -> {0} \cup Ids]
  <1>1. queue[i] \in Entry
    BY DEF TypeOK, Ids
  <1>2. queue[i].child \in Scope /\ Wanted(i) \subseteq Parents
    BY <1>1 DEF Entry, Wanted, Node, Parents
  <1>3. (store[queue[i].child] \ gone) \cup Wanted(i) \in SUBSET Parents
    BY <1>2 DEF TypeOK
  <1> QED
    BY <1>2, <1>3 DEF Lands, TypeOK

LEMMA ReachType ==
  ASSUME TypeOK, NEW r \in Relay, At(r) \in Ids, Reach(r)
  PROVE  store' \in [Scope -> SUBSET Parents] /\ written' \in [Scope -> {0} \cup Ids]
  <1>1. queue[At(r)].child \in Scope /\ edge[r].current \in SUBSET Parents
    BY DEF TypeOK, Ids, Entry, EdgeWork
  <1>2. CASE edge[r].at = "read"
    BY <1>1, <1>2 DEF Reach, TypeOK
  <1>3. CASE Lands(At(r), edge[r].current)
    BY <1>1, <1>3, LandsType
  <1> QED
    BY <1>2, <1>3 DEF Reach

LEMMA StillType ==
  ASSUME TypeOK, UNCHANGED <<store, written>>
  PROVE  store' \in [Scope -> SUBSET Parents] /\ written' \in [Scope -> {0} \cup Ids]
  BY DEF TypeOK

LEMMA ApplyType ==
  ASSUME TypeOK, InQueue, UNCHANGED plan, NEW r \in Relay, Apply(r)
  PROVE  Typed' /\ Ids \subseteq Ids'
  <1>1. store' \in [Scope -> SUBSET Parents] /\ written' \in [Scope -> {0} \cup Ids]
    BY InHand, ReachType DEF Apply, InBatch
  <1>2. [pass[r] EXCEPT !.pc = "mark"] \in Pass
    BY GotoType DEF PCs, TypeOK
  <1>3. pass' \in [Relay -> Pass]
    BY <1>2 DEF Apply, TypeOK
  <1> QED
    BY <1>1, <1>3, KeepLength DEF Apply, TypeOK

\* The pass that goes on after a change that was refused.
LEMMA FailedType ==
  ASSUME TypeOK, InQueue, NEW r \in Relay, pass[r].pc = "apply"
  PROVE  [pass EXCEPT ![r] = Advanced(r, Block(r, "failed"))] \in [Relay -> Pass]
  <1>1. Advanced(r, Block(r, "failed")) \in Pass
    BY InHand, BlockType, AdvancedType DEF InBatch
  <1> QED
    BY <1>1 DEF TypeOK

LEMMA ApplyFailsType ==
  ASSUME TypeOK, InQueue, UNCHANGED plan, NEW r \in Relay, ApplyFails(r)
  PROVE  Typed' /\ Ids \subseteq Ids'
  <1>1. At(r) \in Ids /\ queue[At(r)] \in Entry
    BY InHand DEF ApplyFails, InBatch
  <1>2. store' \in [Scope -> SUBSET Parents] /\ written' \in [Scope -> {0} \cup Ids]
    BY <1>1, ReachType, StillType DEF ApplyFails
  <1>3. plan.attempts \in Nat \ {0} /\ queue[At(r)].attempts \in 0..plan.attempts
    BY <1>1 DEF TypeOK, Entry
  <1> DEFINE n == IF queue[At(r)].attempts < plan.attempts THEN queue[At(r)].attempts + 1
                  ELSE queue[At(r)].attempts
  <1>4. n \in 0..plan.attempts
    BY <1>3
  <1>5. queue' = [queue EXCEPT ![At(r)].attempts = n]
    BY DEF ApplyFails
  <1>6. queue' \in Seq(Entry) /\ Len(queue') = Len(queue)
    BY <1>1, <1>4, <1>5, AttemptsType
  <1>7. pass' \in [Relay -> Pass]
    BY FailedType DEF ApplyFails
  <1> QED
    BY <1>2, <1>6, <1>7, KeepLength DEF ApplyFails, TypeOK

LEMMA ApplyTransientType ==
  ASSUME TypeOK, InQueue, UNCHANGED plan, NEW r \in Relay, ApplyTransient(r)
  PROVE  Typed' /\ Ids \subseteq Ids'
  <1>1. store' \in [Scope -> SUBSET Parents] /\ written' \in [Scope -> {0} \cup Ids]
    BY InHand, ReachType, StillType DEF ApplyTransient, InBatch
  <1>2. pass' \in [Relay -> Pass]
    BY FailedType DEF ApplyTransient
  <1> QED
    BY <1>1, <1>2, FaultType, KeepLength DEF ApplyTransient, TypeOK

LEMMA MarkAppliedType ==
  ASSUME TypeOK, InQueue, UNCHANGED plan, NEW r \in Relay, MarkApplied(r)
  PROVE  Typed' /\ Ids \subseteq Ids'
  <1>1. queue' \in Seq(Entry) /\ Len(queue') = Len(queue)
    BY InHand, StateType DEF MarkApplied, InBatch
  <1>2. Advanced(r, pass[r].blocked) \in Pass
    BY InHand, AdvancedType DEF MarkApplied, InBatch, TypeOK, Pass
  <1>3. pass' \in [Relay -> Pass]
    BY <1>2 DEF MarkApplied, TypeOK
  <1> QED
    BY <1>1, <1>3, KeepLength DEF MarkApplied, TypeOK

\* What comes from outside a pass.
LEMMA OutsideType ==
  ASSUME TypeOK, UNCHANGED plan, LeaseDrops \/ \E r \in Relay : Abort(r)
  PROVE  Typed' /\ Ids \subseteq Ids'
  <1>1. lease' \in Relay \cup {NoRelay} /\ faults' \in 0..plan.faults
    BY FaultType DEF LeaseDrops, Abort, Released, TypeOK
  <1>2. pass' \in [Relay -> Pass]
    BY IdleType DEF LeaseDrops, Abort, TypeOK
  <1> QED
    BY <1>1, <1>2, KeepLength DEF LeaseDrops, Abort, TypeOK

-----------------------------------------------------------------------------
LEMMA RequeuedType ==
  ASSUME TypeOK, NEW i \in Ids
  PROVE  Requeued(i) \in Seq(Entry) /\ Len(Requeued(i)) = Len(queue)
  <1>1. plan.attempts - 1 \in 0..plan.attempts
    BY DEF TypeOK
  <1> QED
    BY <1>1, AttemptsType DEF Requeued

LEMMA PlainType ==
  ASSUME TypeOK, UNCHANGED plan, RequeueWrite \/ \E i \in Ids : RequeueProbe(i)
  PROVE  Typed' /\ Ids \subseteq Ids'
  <1>1. CASE RequeueWrite
    <2>1. ticket \in Ids
      BY <1>1 DEF RequeueWrite, TypeOK
    <2>2. queue' \in Seq(Entry) /\ Len(queue') = Len(queue)
      BY <1>1, <2>1, RequeuedType DEF RequeueWrite, TypeOK
    <2> QED
      BY <1>1, <2>2, KeepLength DEF RequeueWrite, TypeOK
  <1>2. CASE \E i \in Ids : RequeueProbe(i)
    BY <1>2, FaultType, KeepLength DEF RequeueProbe, TypeOK
  <1> QED
    BY <1>1, <1>2

LEMMA TakeType ==
  ASSUME TypeOK, UNCHANGED plan, NEW r \in Relay, NEW i \in Ids, RequeueTake(r, i)
  PROVE  Typed' /\ Ids \subseteq Ids'
  <1>0. {i} \in SUBSET (1..MaxEntry) /\ "probe" \in PCs
    BY DEF PCs, TypeOK, Ids
  <1>1. [Idle EXCEPT !.pc = "probe", !.only = {i}] \in Pass
    BY <1>0, IdleType, ProbeType, Zenon
  <1>2. pass' \in [Relay -> Pass]
    BY <1>1 DEF RequeueTake, TypeOK
  <1> QED
    BY <1>2, FaultType, KeepLength DEF RequeueTake, TypeOK

LEMMA HeldType ==
  ASSUME TypeOK, InQueue, UNCHANGED plan, NEW r \in Relay, RequeueHeld(r)
  PROVE  Typed' /\ Ids \subseteq Ids'
  <1>1. lease' \in Relay \cup {NoRelay}
    BY DEF RequeueHeld, Released, TypeOK
  <1>2. PICK i \in pass[r].only :
            IF Dead(i) /\ ~Superseded(i)
            THEN /\ queue' = Requeued(i)
                 /\ pass' = [pass EXCEPT ![r].pc = "page",
                                ![r].parked = {queue[j].child : j \in {k \in Ids : Dead(k) /\ k # i}}]
            ELSE pass' = [pass EXCEPT ![r] = Idle] /\ UNCHANGED queue
    BY DEF RequeueHeld
  <1>3. i \in Ids
    BY DEF InQueue
  <1>4. CASE Dead(i) /\ ~Superseded(i)
    <2> DEFINE P == {queue[j].child : j \in {k \in Ids : Dead(k) /\ k # i}}
    <2>1. P \in SUBSET Scope
      BY ParkedType DEF ParkedKeys
    <2>2. [pass[r] EXCEPT !.pc = "page", !.parked = P] \in Pass
      BY <2>1, CensusType DEF PCs, TypeOK
    <2>3. pass' \in [Relay -> Pass]
      BY <1>2, <1>4, <2>2 DEF TypeOK
    <2> QED
      BY <1>1, <1>2, <1>3, <1>4, <2>3, RequeuedType, KeepLength DEF RequeueHeld, TypeOK
  <1>5. CASE ~(Dead(i) /\ ~Superseded(i))
    <2>1. pass' \in [Relay -> Pass]
      BY <1>2, <1>5, IdleType DEF TypeOK
    <2> QED
      BY <1>1, <1>2, <1>5, <2>1, KeepLength DEF RequeueHeld, TypeOK
  <1> QED
    BY <1>4, <1>5

LEMMA UnreadType ==
  ASSUME NEW at \in {"check", "read"}, NEW n \in 0..(TreeWriteAttempts - 1)
  PROVE  Unread(at, n) \in EdgeWork /\ 0 \in 0..(TreeWriteAttempts - 1)
  BY DEF Unread, EdgeWork, Parents

LEMMA InitType == Init => TypeOK
  <1> SUFFICES ASSUME Init PROVE TypeOK
    OBVIOUS
  <1>1. pass \in [Relay -> Pass]
    BY IdleType DEF Init
  <1>2. FirstTree \in [Scope -> Node] /\ plan.faults \in Nat
    BY DEF Init, Node
  <1>3. Edges(FirstTree) \in [Scope -> SUBSET Parents]
    BY DEF Edges, Parents
  <1>4. Unread("check", 0) \in EdgeWork
    BY UnreadType DEF Unread, EdgeWork, Parents
  <1> QED
    BY <1>1, <1>2, <1>3, <1>4 DEF Init, TypeOK, Ids

\* A step of the consumer, the operator or a pass, or a request that leaves them alone.
Aside == UNCHANGED <<tree, queue, lease, pass, ticket, faults>>

LEMMA NextIs ==
  ASSUME Next
  PROVE  /\ UNCHANGED plan
         /\ Work \/ Aside
         /\ \/ Forget
            \/ Aside /\ UNCHANGED edge
            \/ Aside /\ UNCHANGED <<store, written>> /\ \E r \in plan.relays : Reparent(r)
         /\ \/ UNCHANGED late
            \/ LateWrite
            \/ \E r \in plan.relays : LeaveWrite(r)
  <1>1. ASSUME NEW r \in plan.relays, LeaveWrite(r) PROVE Work
    <2>1. ApplyTransient(r) \/ Abort(r)
      BY <1>1 DEF LeaveWrite
    <2> QED
      BY <2>1 DEF Work
  <1>2. ASSUME NEW r \in plan.relays, Reparent(r)
        PROVE  Aside /\ UNCHANGED <<store, written>> /\ UNCHANGED late
    BY <1>2 DEF Reparent, Aside
  <1>3. ASSUME LateWrite PROVE Aside /\ UNCHANGED edge
    BY <1>3 DEF LateWrite, Aside
  <1> QED
    BY <1>1, <1>2, <1>3 DEF Next

\* What a pass has read about its edge.
LEMMA ReparentType ==
  ASSUME TypeOK, InQueue, NEW r \in Relay, Reparent(r)
  PROVE  edge' \in [Relay -> EdgeWork]
  <1> DEFINE e == edge[r]
  <1>1. e \in EdgeWork /\ edge \in [Relay -> EdgeWork]
    BY DEF TypeOK
  <1>2. queue[At(r)] \in Entry /\ TypeOK
    BY InHand DEF Reparent, InBatch
  <1>3. /\ store[queue[At(r)].child] \in SUBSET Parents
        /\ queue[At(r)].op # "detached" => queue[At(r)].parent \in Parents
    BY <1>2 DEF TypeOK, Entry, Node, Parents
  <1>4. CASE CheckEdge(r)
    <2>1. [e EXCEPT !.at = "read"] \in EdgeWork
      BY <1>1 DEF EdgeWork
    <2> QED
      BY <1>1, <1>4, <2>1 DEF CheckEdge
  <1>5. CASE ReadEdge(r)
    <2> DEFINE current == store[queue[At(r)].child]
               parent == queue[At(r)].parent
    <2>1. [e EXCEPT !.at = "write", !.current = current] \in EdgeWork
      BY <1>1, <1>3 DEF EdgeWork
    <2>2. queue[At(r)].op # "detached" =>
             [e EXCEPT !.at = "climb", !.current = current, !.chain = {parent}, !.top = parent]
                \in EdgeWork
      BY <1>1, <1>3 DEF EdgeWork
    <2> QED
      BY <1>1, <1>5, <2>1, <2>2 DEF ReadEdge
  <1>6. CASE Climb(r)
    <2>1. [e EXCEPT !.at = "write"] \in EdgeWork
      BY <1>1 DEF EdgeWork
    <2>2. \A p \in Parents : [e EXCEPT !.chain = @ \cup {p}, !.top = p] \in EdgeWork
      BY <1>1 DEF EdgeWork
    <2> QED
      BY <1>1, <1>6, <2>1, <2>2 DEF Climb
  <1>7. CASE Conflict(r)
    <2>1. e.tries + 1 \in 0..(TreeWriteAttempts - 1)
      BY <1>1, <1>7 DEF Conflict, EdgeWork
    <2> QED
      BY <1>1, <1>7, <2>1, UnreadType DEF Conflict
  <1> QED
    BY <1>4, <1>5, <1>6, <1>7 DEF Reparent

\* A Write that lands late.
LEMMA LateType ==
  ASSUME TypeOK, LateWrite, UNCHANGED plan
  PROVE  Typed' /\ Ids \subseteq Ids' /\ late' \subseteq Write
  <1>1. PICK w \in late :
           /\ late' = late \ {w}
           /\ Lands(w.entry, w.gone) \/ UNCHANGED <<store, written>>
    BY DEF LateWrite
  <1>2. w.entry \in Ids /\ w.gone \in SUBSET Parents /\ late \subseteq Write
    BY DEF TypeOK, Write
  <1>3. store' \in [Scope -> SUBSET Parents] /\ written' \in [Scope -> {0} \cup Ids]
    BY <1>1, <1>2, LandsType, StillType
  <1> QED
    BY <1>1, <1>2, <1>3, KeepLength DEF LateWrite, TypeOK

\* Every variable keeps its type, as long as passes hold entries of the queue.
LEMMA StepType == TypeOK /\ InQueue /\ [Next]_vars => TypeOK' /\ Ids \subseteq Ids'
  <1> SUFFICES ASSUME TypeOK, InQueue, [Next]_vars PROVE TypeOK' /\ Ids \subseteq Ids'
    OBVIOUS
  <1>1. CASE UNCHANGED vars
    BY <1>1 DEF vars, TypeOK, Ids, Entry, Write
  <1>2. CASE Next
    <2>1. UNCHANGED plan /\ plan.relays \subseteq Relay
      BY <1>2 DEF Next, TypeOK
    <2>2. ASSUME NEW r \in Relay, Step(r) PROVE Typed' /\ Ids \subseteq Ids'
      BY <2>1, <2>2, QuietType, PageType, DeferType, ApplyType, ApplyFailsType, MarkAppliedType,
         HeldType DEF Step
    <2>3. ASSUME NEW r \in Relay, NEW only \in SUBSET Ids, StartPass(r, only)
          PROVE  Typed' /\ Ids \subseteq Ids'
      BY <2>1, <2>3, StartPassType
    <2>4. ASSUME Work PROVE Typed' /\ Ids \subseteq Ids'
      <3>1. ASSUME NEW r \in plan.relays, ApplyTransient(r) \/ Abort(r)
            PROVE  Typed' /\ Ids \subseteq Ids'
        BY <2>1, <3>1, ApplyTransientType, OutsideType
      <3>2. ASSUME NEW r \in plan.relays, NEW i \in Ids, RequeueTake(r, i)
            PROVE  Typed' /\ Ids \subseteq Ids'
        BY <2>1, <3>2, TakeType
      <3>3. ASSUME NEW r \in plan.relays, Step(r) PROVE Typed' /\ Ids \subseteq Ids'
        BY <2>1, <2>2, <3>3
      <3>4. ASSUME LeaseDrops \/ RequeueWrite \/ \E i \in Ids : RequeueProbe(i)
            PROVE  Typed' /\ Ids \subseteq Ids'
        BY <2>1, <3>4, OutsideType, PlainType
      <3>5. ASSUME NEW op \in {"attached", "moved", "detached"}, NEW c \in Scope, NEW p \in Node,
                   Notify(op, c, p)
            PROVE  Typed' /\ Ids \subseteq Ids'
        BY <2>1, <3>5, NotifyType
      <3>6. ASSUME NEW i \in Ids, Commit(i) \/ Rollback(i) PROVE Typed' /\ Ids \subseteq Ids'
        BY <2>1, <3>6, CommitType
      <3>7. ASSUME NEW r \in plan.relays, NEW only \in SUBSET Ids, StartPass(r, only)
            PROVE  Typed' /\ Ids \subseteq Ids'
        BY <2>1, <2>3, <3>7
      <3> QED
        BY <2>4, <3>1, <3>2, <3>3, <3>4, <3>5, <3>6, <3>7 DEF Work
    <2>5. ASSUME NEW r \in Relay, Reparent(r) PROVE Typed' /\ Ids \subseteq Ids'
      BY <2>1, <2>5, KeepLength DEF Reparent, TypeOK
    <2>6. ASSUME NEW r \in plan.relays, LeaveWrite(r) PROVE Work
      <3>1. ApplyTransient(r) \/ Abort(r)
        BY <2>6 DEF LeaveWrite
      <3> QED
        BY <3>1 DEF Work
    <2>7. Typed' /\ Ids \subseteq Ids'
      <3>1. ASSUME LateWrite PROVE Typed' /\ Ids \subseteq Ids'
        BY <2>1, <3>1, LateType
      <3>2. Work \/ LateWrite \/ \E r \in plan.relays : Reparent(r)
        BY <1>2, <2>6 DEF Next
      <3> QED
        BY <2>1, <2>4, <2>5, <3>1, <3>2
    <2>8. edge' \in [Relay -> EdgeWork]
      <3>1. CASE Forget
        BY <3>1, UnreadType DEF Forget, TypeOK
      <3> QED
        BY <1>2, <2>1, <3>1, NextIs, ReparentType DEF TypeOK
    <2>9. late' \subseteq Write'
      <3>1. Write \subseteq Write'
        BY <2>7 DEF Write
      <3>2. ASSUME NEW r \in Relay, LeaveWrite(r) PROVE late' \subseteq Write
        <4>1. At(r) \in Ids /\ edge[r].current \in SUBSET Parents
          BY <3>2, InHand DEF LeaveWrite, InBatch, TypeOK, EdgeWork
        <4> QED
          BY <3>2, <4>1 DEF LeaveWrite, TypeOK, Write
      <3>3. late' \subseteq Write
        BY <1>2, <2>1, <3>2, NextIs, LateType DEF TypeOK
      <3> QED
        BY <3>1, <3>3
    <2> QED
      BY <2>7, <2>8, <2>9 DEF TypeOK, Typed
  <1> QED
    BY <1>1, <1>2

-----------------------------------------------------------------------------
(* What passes have in hand.                                               *)

\* What holds of everybody if it holds of r, who alone moves.
OnlyMoves(r) == \A s \in Relay \ {r} : pass'[s] = pass[s]

\* A step of a pass is its own.
LEMMA OwnStepMoves ==
  ASSUME TypeOK, NEW r \in Relay, Step(r) \/ ApplyTransient(r) \/ Abort(r)
  PROVE  OnlyMoves(r)
  <1>1. CASE Page(r)
    BY <1>1 DEF Page, OnlyMoves, TypeOK
  <1>2. CASE RequeueHeld(r)
    BY <1>2 DEF RequeueHeld, OnlyMoves, TypeOK
  <1> QED
    BY <1>1, <1>2 DEF Step, TakeLease, Busy, Defer, Proceed, Apply, ApplyFails, ApplyTransient,
                      MarkApplied, Abort, OnlyMoves, TypeOK

\* It stays with the entries of the queue, and with those
\* that are left of its batch.
LEMMA OwnStep ==
  ASSUME TypeOK, InQueue, NEW r \in Relay, Step(r) \/ ApplyTransient(r) \/ Abort(r)
  PROVE  /\ OnlyMoves(r)
         /\ pass'[r].only \subseteq Ids
         /\ pass'[r].pc \in InBatch =>
               /\ pass'[r].batch # {} /\ pass'[r].batch \subseteq Ids
               /\ \/ pass[r].pc = "page" /\ pass'[r].batch \subseteq Due(r)
                  \/ /\ pass[r].pc \in InBatch
                     /\ pass'[r].batch \subseteq pass[r].batch
                     /\ At(r) \in pass'[r].batch => UNCHANGED queue
  <1>1. pass[r] \in Pass /\ pass[r].only \subseteq Ids
    BY DEF TypeOK, InQueue
  <1>2. CASE TakeLease(r) \/ Busy(r) \/ Abort(r) \/ RequeueHeld(r)
    <2>1. CASE TakeLease(r)
      BY <1>1, <2>1 DEF TakeLease, OnlyMoves, InBatch, Pass, TypeOK
    <2>2. CASE Busy(r) \/ Abort(r)
      BY <2>2 DEF Busy, Abort, OnlyMoves, InBatch, Idle, TypeOK
    <2>3. CASE RequeueHeld(r)
      <3>1. \/ pass' = [pass EXCEPT ![r] = Idle]
            \/ \E x : pass' = [pass EXCEPT ![r].pc = "page", ![r].parked = x]
        BY <2>3 DEF RequeueHeld
      <3>2. CASE pass' = [pass EXCEPT ![r] = Idle]
        BY <3>2 DEF OnlyMoves, InBatch, Idle, TypeOK
      <3>3. ASSUME NEW x, pass' = [pass EXCEPT ![r].pc = "page", ![r].parked = x]
            PROVE  OnlyMoves(r) /\ pass'[r].only = pass[r].only /\ pass'[r].pc = "page"
        <4>1. pass'[r] = [pass[r] EXCEPT !.pc = "page", !.parked = x]
          BY <3>3 DEF TypeOK
        <4> QED
          BY <1>1, <3>3, <4>1 DEF OnlyMoves, Pass, TypeOK
      <3> QED
        BY <1>1, <3>1, <3>2, <3>3 DEF InBatch
    <2> QED
      BY <1>2, <2>1, <2>2, <2>3
  <1>3. CASE Page(r)
    <2>1. CASE Due(r) = {}
      BY <1>3, <2>1 DEF Page, OnlyMoves, InBatch, Idle, TypeOK
    <2>2. CASE Due(r) # {}
      <3>1. PICK batch \in SUBSET Due(r) :
               /\ IsBatch(r, batch)
               /\ pass' = [pass EXCEPT ![r].pc = "item", ![r].batch = batch]
        BY <1>3, <2>2 DEF Page
      <3>2. batch # {}
        BY <2>2, <3>1, FS_EmptySet DEF IsBatch
      <3>3. pass'[r] = [pass[r] EXCEPT !.pc = "item", !.batch = batch]
        BY <3>1 DEF TypeOK
      <3>4. pass'[r].batch = batch /\ pass'[r].only = pass[r].only
        BY <1>1, <3>3 DEF Pass
      <3> QED
        <4>1. OnlyMoves(r) /\ pass[r].pc = "page" /\ batch \subseteq Ids
          BY <1>3, <3>1 DEF Page, Due, OnlyMoves, TypeOK
        <4> QED
          BY <1>1, <3>1, <3>2, <3>4, <4>1
    <2> QED
      BY <2>1, <2>2
  <1>4. CASE Proceed(r) \/ Apply(r)
    <2>1. pass[r].pc \in InBatch /\ OnlyMoves(r) /\ UNCHANGED queue
      BY <1>4 DEF Proceed, Apply, InBatch, OnlyMoves, TypeOK
    <2>2. pass'[r].only = pass[r].only /\ pass'[r].batch = pass[r].batch
      BY <1>1, <1>4 DEF Proceed, Apply, Pass, TypeOK
    <2> QED
      BY <1>1, <2>1, <2>2 DEF InQueue
  <1>5. ASSUME NEW k, pass[r].pc \in InBatch, pass' = [pass EXCEPT ![r] = Advanced(r, k)]
        PROVE  /\ OnlyMoves(r) /\ pass'[r].only \subseteq Ids
               /\ pass'[r].pc \in InBatch => pass'[r].batch # {}
               /\ pass'[r].batch = pass[r].batch \ {At(r)}
    <2>1. pass'[r] = Advanced(r, k) /\ OnlyMoves(r)
      BY <1>5 DEF OnlyMoves, TypeOK
    <2>2. /\ pass'[r].pc = IF pass[r].batch = {At(r)} THEN "page" ELSE "item"
          /\ pass'[r].batch = pass[r].batch \ {At(r)}
          /\ pass'[r].only = pass[r].only
      BY <1>1, <2>1 DEF Advanced, Pass
    <2>3. pass[r].batch # {} /\ At(r) \in pass[r].batch
      BY <1>5, InHand
    <2> QED
      BY <1>1, <2>1, <2>2, <2>3 DEF InBatch
  <1>6. CASE Defer(r) \/ ApplyFails(r) \/ ApplyTransient(r) \/ MarkApplied(r)
    <2>1. pass[r].pc \in InBatch /\ \E k : pass' = [pass EXCEPT ![r] = Advanced(r, k)]
      BY <1>6 DEF Defer, ApplyFails, ApplyTransient, MarkApplied, InBatch
    <2> QED
      BY <1>5, <2>1 DEF InQueue
  <1> QED
    BY <1>2, <1>3, <1>4, <1>6 DEF Step

\* The steps of everybody else: none touches a pass, or one begins.
LEMMA OtherStep ==
  ASSUME TypeOK, Next,
         ~\E r \in Relay : Step(r) \/ ApplyTransient(r) \/ Abort(r)
  PROVE  \/ UNCHANGED pass /\ (UNCHANGED lease \/ plan.drops)
         \/ \E r \in Relay :
               /\ OnlyMoves(r)
               /\ pass[r].pc = "idle"
               /\ pass'[r].pc \in {"lease", "probe"} /\ pass'[r].only \subseteq Ids
               /\ UNCHANGED queue
               /\ \/ pass'[r].pc = "lease" /\ UNCHANGED lease
                  \/ lease = NoRelay /\ lease' = r
  <1>1. plan.relays \subseteq Relay
    BY DEF TypeOK
  <1>2. ASSUME NEW r \in Relay, NEW only \in SUBSET Ids, StartPass(r, only)
        PROVE  /\ OnlyMoves(r) /\ pass[r].pc = "idle" /\ pass'[r].pc = "lease"
               /\ pass'[r].only \subseteq Ids /\ UNCHANGED <<queue, lease>>
    BY <1>2 DEF StartPass, OnlyMoves, Idle, TypeOK
  <1>3. ASSUME NEW r \in Relay, NEW i \in Ids, RequeueTake(r, i)
        PROVE  /\ OnlyMoves(r) /\ pass[r].pc = "idle" /\ pass'[r].pc = "probe"
               /\ pass'[r].only \subseteq Ids /\ UNCHANGED queue /\ lease = NoRelay /\ lease' = r
    BY <1>3 DEF RequeueTake, OnlyMoves, Idle, TypeOK
  <1>4. CASE \E r \in plan.relays, only \in SUBSET Ids : StartPass(r, only)
    BY <1>1, <1>2, <1>4
  <1>5. CASE \E r \in plan.relays : \E i \in Ids : RequeueTake(r, i)
    BY <1>1, <1>3, <1>5
  <1>6. CASE \/ \E op \in {"attached", "moved", "detached"}, c \in Scope, p \in Node : Notify(op, c, p)
             \/ \E i \in Ids : Commit(i) \/ Rollback(i) \/ RequeueProbe(i)
             \/ RequeueWrite \/ LeaseDrops
    BY <1>6 DEF Notify, Commit, Rollback, RequeueProbe, RequeueWrite, LeaseDrops
  <1> QED
    BY <1>1, <1>4, <1>5, <1>6, NextIs DEF Work, Aside

LEMMA StepInQueue ==
  ASSUME TypeOK, InQueue, Ids \subseteq Ids', [Next]_vars
  PROVE  InQueue'
  <1> SUFFICES ASSUME NEW s \in Relay
               PROVE  /\ pass'[s].only \subseteq Ids
                      /\ pass'[s].pc \in InBatch => pass'[s].batch # {} /\ pass'[s].batch \subseteq Ids
    BY DEF InQueue
  <1>0. /\ pass[s].only \subseteq Ids
        /\ pass[s].pc \in InBatch => pass[s].batch # {} /\ pass[s].batch \subseteq Ids
    BY DEF InQueue
  <1>1. CASE \E r \in Relay : Step(r) \/ ApplyTransient(r) \/ Abort(r)
    <2>1. PICK r \in Relay : Step(r) \/ ApplyTransient(r) \/ Abort(r)
      BY <1>1
    <2> QED
      BY <1>0, <2>1, OwnStep DEF OnlyMoves
  <1>2. CASE Next /\ ~\E r \in Relay : Step(r) \/ ApplyTransient(r) \/ Abort(r)
    BY <1>0, <1>2, OtherStep DEF OnlyMoves, InBatch
  <1>3. CASE UNCHANGED vars
    BY <1>0, <1>3 DEF vars
  <1> QED
    BY <1>1, <1>2, <1>3

-----------------------------------------------------------------------------
(* The lease.                                                              *)

\* A pass that goes on keeps the lease, one that ends lets go of its own.
LEMMA OwnLease ==
  ASSUME TypeOK, NEW r \in Relay, Step(r) \/ ApplyTransient(r) \/ Abort(r)
  PROVE  \/ pass'[r].pc \in Holding /\ pass[r].pc \in Holding /\ UNCHANGED lease
         \/ pass'[r].pc \in Holding /\ lease = NoRelay /\ lease' = r
         \/ pass'[r].pc \notin Holding /\ (lease' = Released(r) \/ UNCHANGED lease)
  <1>1. pass[r] \in Pass
    BY DEF TypeOK
  <1>2. CASE TakeLease(r) \/ Busy(r) \/ Abort(r) \/ Proceed(r) \/ Apply(r)
    BY <1>1, <1>2 DEF TakeLease, Busy, Abort, Proceed, Apply, Holding, Idle, Pass, TypeOK
  <1>3. CASE RequeueHeld(r)
    BY <1>1, <1>3 DEF RequeueHeld, Holding, Idle, Pass, TypeOK
  <1>4. CASE Page(r)
    BY <1>1, <1>4 DEF Page, Holding, Idle, Pass, TypeOK
  <1>5. CASE Defer(r) \/ ApplyFails(r) \/ ApplyTransient(r) \/ MarkApplied(r)
    <2>1. PICK k : pass' = [pass EXCEPT ![r] = Advanced(r, k)]
      BY <1>5 DEF Defer, ApplyFails, ApplyTransient, MarkApplied
    <2>2. pass'[r].pc \in {"page", "item"}
      BY <1>1, <2>1 DEF Advanced, Pass, TypeOK
    <2> QED
      BY <1>5, <2>2 DEF Defer, ApplyFails, ApplyTransient, MarkApplied, Holding
  <1> QED
    BY <1>2, <1>3, <1>4, <1>5 DEF Step

LEMMA StepLease ==
  ASSUME TypeOK, LeaseHeld, ~plan.drops, [Next]_vars
  PROVE  LeaseHeld'
  <1> SUFFICES ASSUME NEW s \in Relay, pass'[s].pc \in Holding
               PROVE  lease' = s
    BY DEF LeaseHeld
  <1>0. s # NoRelay /\ (pass[s].pc \in Holding => lease = s)
    BY DEF LeaseHeld
  <1>1. CASE \E r \in Relay : Step(r) \/ ApplyTransient(r) \/ Abort(r)
    <2>1. PICK r \in Relay : Step(r) \/ ApplyTransient(r) \/ Abort(r)
      BY <1>1
    <2>2. s # r => pass'[s] = pass[s]
      BY <2>1, OwnStepMoves DEF OnlyMoves
    <2> QED
      BY <1>0, <2>1, <2>2, OwnLease DEF Released
  <1>2. CASE Next /\ ~\E r \in Relay : Step(r) \/ ApplyTransient(r) \/ Abort(r)
    BY <1>0, <1>2, OtherStep DEF OnlyMoves, Holding
  <1>3. CASE UNCHANGED vars
    BY <1>0, <1>3 DEF vars
  <1> QED
    BY <1>1, <1>2, <1>3

\* Only who is deployed begins or goes on.
LEMMA StepOutsiders ==
  ASSUME TypeOK, Outsiders, [Next]_vars
  PROVE  Outsiders'
  <1> SUFFICES ASSUME NEW s \in Relay \ plan.relays, Next
               PROVE  pass'[s] = pass[s]
    BY DEF Outsiders, Next, vars
  <1>1. \A r \in plan.relays : r # s /\ r \in Relay
    BY DEF TypeOK
  <1>2. ASSUME NEW r \in plan.relays, Step(r) \/ ApplyTransient(r) \/ Abort(r)
        PROVE  pass'[s] = pass[s]
    BY <1>1, <1>2, OwnStepMoves DEF OnlyMoves
  <1>3. ASSUME NEW r \in plan.relays, NEW only, StartPass(r, only) PROVE pass'[s] = pass[s]
    BY <1>1, <1>3 DEF StartPass, TypeOK
  <1>4. ASSUME NEW r \in plan.relays, NEW i, RequeueTake(r, i) PROVE pass'[s] = pass[s]
    BY <1>1, <1>4 DEF RequeueTake, TypeOK
  <1>5. CASE \/ \E op \in {"attached", "moved", "detached"}, c \in Scope, p \in Node : Notify(op, c, p)
             \/ \E i \in Ids : Commit(i) \/ Rollback(i) \/ RequeueProbe(i)
             \/ RequeueWrite \/ LeaseDrops
    BY <1>5 DEF Notify, Commit, Rollback, RequeueProbe, RequeueWrite, LeaseDrops
  <1> QED
    BY <1>2, <1>3, <1>4, <1>5, NextIs DEF Work, Aside

\* A lease that lasts keeps passes apart, and one relay is apart from nobody.
LEMMA PassesApart ==
  ASSUME TypeOK, Outsiders, ~plan.drops => LeaseHeld, Separate
  PROVE  Exclusive
  <1>1. CASE Alone
    BY <1>1 DEF Alone, Outsiders, Exclusive, Holding
  <1>2. CASE ~plan.drops
    BY <1>2 DEF LeaseHeld, Exclusive
  <1> QED
    BY <1>1, <1>2 DEF Separate

-----------------------------------------------------------------------------
(* What is in hand still waits.                                            *)

\* Outside a pass nothing that waits stops waiting.
LEMMA OthersLeaveWaiting ==
  ASSUME TypeOK, InQueue, Next, NEW i \in Ids, Pending(i),
         ~\E r \in Relay : ApplyFails(r) \/ MarkApplied(r)
  PROVE  Pending(i)'
  <1>1. UNCHANGED plan /\ plan.relays \subseteq Relay
    BY DEF Next, TypeOK
  <1>2. ~Dead(i) /\ queue[i].state # "open" /\ queue[i] \in Entry
    <2>1. queue[i] \in Entry /\ plan.attempts \in Nat
      BY DEF TypeOK, Ids
    <2>2. queue[i].attempts \in 0..plan.attempts
      BY <2>1 DEF Entry
    <2> QED
      BY <2>1, <2>2 DEF Pending, Dead
  <1>3. CASE UNCHANGED queue
    BY <1>1, <1>3 DEF Pending
  <1>4. ASSUME NEW op, NEW c, NEW p, Notify(op, c, p) PROVE queue'[i] = queue[i]
    BY <1>4 DEF Notify, Ids, TypeOK
  <1>5. ASSUME NEW j \in Ids, Commit(j) \/ Rollback(j) PROVE queue'[i] = queue[i]
    BY <1>2, <1>5 DEF Commit, Rollback, Ids, TypeOK
  <1>6. ASSUME NEW j \in Ids, Dead(j), queue' = Requeued(j) PROVE queue'[i] = queue[i]
    BY <1>2, <1>6 DEF Requeued, Ids, TypeOK
  <1>7. CASE RequeueWrite
    <2>1. ticket \in Ids
      BY <1>7 DEF RequeueWrite, TypeOK
    <2> QED
      BY <1>1, <1>3, <1>6, <1>7, <2>1 DEF RequeueWrite, Pending
  <1>8. ASSUME NEW r \in Relay, RequeueHeld(r) PROVE Pending(i)'
    <2>1. UNCHANGED queue \/ \E j \in pass[r].only : Dead(j) /\ queue' = Requeued(j)
      BY <1>8 DEF RequeueHeld
    <2>2. pass[r].only \subseteq Ids
      BY DEF InQueue
    <2> QED
      BY <1>1, <1>3, <1>6, <2>1, <2>2 DEF Pending
  <1>9. ASSUME NEW r \in Relay, Step(r), ~RequeueHeld(r) PROVE UNCHANGED queue
    BY <1>9 DEF Step, TakeLease, Busy, Page, Defer, Proceed, Apply
  <1>10. ASSUME NEW r \in Relay, NEW only, StartPass(r, only) PROVE UNCHANGED queue
    BY <1>10 DEF StartPass
  <1>11. ASSUME NEW r \in Relay, NEW j, RequeueTake(r, j) \/ RequeueProbe(j) PROVE UNCHANGED queue
    BY <1>11 DEF RequeueTake, RequeueProbe
  <1>12. ASSUME NEW r \in Relay, ApplyTransient(r) \/ Abort(r) \/ LeaseDrops PROVE UNCHANGED queue
    BY <1>12 DEF ApplyTransient, Abort, LeaseDrops
  <1>13. ASSUME NEW j, RequeueProbe(j) PROVE UNCHANGED queue
    BY <1>13 DEF RequeueProbe
  <1> QED
    <2>1. CASE \E op \in {"attached", "moved", "detached"}, c \in Scope, p \in Node : Notify(op, c, p)
      BY <1>1, <1>4, <2>1 DEF Pending
    <2>2. CASE \E j \in Ids : Commit(j) \/ Rollback(j)
      BY <1>1, <1>5, <2>2 DEF Pending
    <2>3. CASE LeaseDrops \/ \E j \in Ids : RequeueProbe(j)
      BY <1>3, <1>13, <2>3 DEF LeaseDrops
    <2>4. ASSUME NEW r \in Relay, Step(r) PROVE Pending(i)'
      BY <1>3, <1>8, <1>9, <2>4
    <2> QED
      BY <1>1, <1>3, <1>7, <1>10, <1>11, <1>12, <2>1, <2>2, <2>3, <2>4, NextIs
         DEF Work, Aside

\* A pass that counts or marks its entry touches that entry alone.
LEMMA OwnEntry ==
  ASSUME TypeOK, NEW r \in Relay, ApplyFails(r) \/ MarkApplied(r), NEW i \in Ids, i # At(r),
         UNCHANGED plan, Pending(i)
  PROVE  Pending(i)'
  BY DEF ApplyFails, MarkApplied, Pending, TypeOK, Ids

LEMMA StepWaits ==
  ASSUME TypeOK, InQueue, Exclusive, BatchWaits, Ids \subseteq Ids', [Next]_vars
  PROVE  BatchWaits'
  <1> SUFFICES ASSUME NEW s \in Relay, pass'[s].pc \in InBatch, NEW i \in pass'[s].batch
               PROVE  i \in Ids /\ Pending(i)'
    BY DEF BatchWaits
  <1>1. CASE UNCHANGED vars
    BY <1>1 DEF vars, BatchWaits, Pending
  <1>2. CASE Next
    <2>1. UNCHANGED plan
      BY <1>2 DEF Next
    <2>2. /\ i \in Ids /\ Pending(i)
          /\ (ApplyFails(s) \/ MarkApplied(s)) => i # At(s) \/ UNCHANGED queue
      <3>1. CASE Step(s) \/ ApplyTransient(s) \/ Abort(s)
        BY <3>1, OwnStep DEF Due, BatchWaits, ApplyFails, MarkApplied, InBatch
      <3>2. CASE ~(Step(s) \/ ApplyTransient(s) \/ Abort(s))
        <4>1. pass'[s] = pass[s]
          <5>1. CASE \E r \in Relay : Step(r) \/ ApplyTransient(r) \/ Abort(r)
            BY <3>2, <5>1, OwnStepMoves DEF OnlyMoves
          <5>2. CASE ~\E r \in Relay : Step(r) \/ ApplyTransient(r) \/ Abort(r)
            BY <1>2, <5>2, OtherStep DEF OnlyMoves, InBatch
          <5> QED
            BY <5>1, <5>2
        <4> QED
          BY <3>2, <4>1 DEF BatchWaits, Step
      <3> QED
        BY <3>1, <3>2
    <2>3. CASE ~\E r \in Relay : ApplyFails(r) \/ MarkApplied(r)
      BY <1>2, <2>2, <2>3, OthersLeaveWaiting
    <2>4. ASSUME NEW r \in Relay, ApplyFails(r) \/ MarkApplied(r) PROVE Pending(i)'
      <3>1. pass[r].pc \in InBatch
        BY <2>4 DEF ApplyFails, MarkApplied, InBatch
      <3>2. r = s
        <4>1. r # s => pass'[s] = pass[s]
          BY <2>4, OwnStepMoves DEF OnlyMoves, Step
        <4> QED
          BY <3>1, <4>1 DEF Exclusive, Holding, InBatch
      <3>3. CASE UNCHANGED queue
        BY <2>1, <2>2, <3>3 DEF Pending
      <3> QED
        BY <2>1, <2>2, <2>4, <3>2, <3>3, OwnEntry
    <2> QED
      BY <2>2, <2>3, <2>4
  <1> QED
    BY <1>1, <1>2

-----------------------------------------------------------------------------
(* Entries of the queue.                                                   *)

LEMMA EntryFacts ==
  ASSUME TypeOK, NEW i \in Ids
  PROVE  /\ queue[i] \in Entry
         /\ queue[i].child \in Scope /\ queue[i].parent \in Node
         /\ queue[i].op = "detached" => queue[i].parent = NoScope
         /\ queue[i].attempts \in 0..plan.attempts /\ plan.attempts \in Nat \ {0}
         /\ queue[i].child \in Keys(i)
  <1>1. queue[i] \in Entry /\ plan.attempts \in Nat \ {0}
    BY DEF TypeOK, Ids
  <1>2. /\ queue[i].child \in Scope /\ queue[i].parent \in Node
        /\ queue[i].op = "detached" => queue[i].parent = NoScope
        /\ queue[i].attempts \in 0..plan.attempts
    BY <1>1 DEF Entry
  <1>3. queue[i].child \in Keys(i)
    BY <1>2 DEF Keys
  <1> QED
    BY <1>1, <1>2, <1>3

\* What an entry says never changes.
Same(i) == /\ queue'[i].op = queue[i].op
           /\ queue'[i].child = queue[i].child /\ queue'[i].parent = queue[i].parent

Turns(i, state) ==
    Same(i) /\ queue'[i].attempts = queue[i].attempts /\ queue'[i].state = state
Counts(i, attempts) ==
    Same(i) /\ queue'[i].attempts = attempts /\ queue'[i].state = queue[i].state

\* What may happen to one entry of the queue in a step.
LEMMA EntryStep ==
  ASSUME TypeOK, InQueue, Next, NEW i \in Ids
  PROVE  \/ queue'[i] = queue[i]
         \/ queue[i].state = "open" /\ ((Commit(i) /\ Turns(i, "queued")) \/ Turns(i, "void"))
         \/ /\ (ticket # 0 \/ \E r \in Relay : pass[r].pc = "probe")
            /\ Dead(i) /\ Counts(i, plan.attempts - 1)
         \/ \E r \in Relay : MarkApplied(r) /\ i = At(r) /\ Turns(i, "applied")
         \/ \E r \in Relay :
               /\ ApplyFails(r) /\ i = At(r)
               /\ Counts(i, IF queue[i].attempts < plan.attempts THEN queue[i].attempts + 1
                            ELSE queue[i].attempts)
  <1>1. UNCHANGED plan /\ plan.relays \subseteq Relay
    BY DEF Next, TypeOK
  <1>2. queue[i] \in Entry /\ i \in 1..Len(queue) /\ queue \in Seq(Entry)
    BY EntryFacts DEF Ids, TypeOK
  <1>3. ASSUME NEW j \in Ids, NEW state, queue' = [queue EXCEPT ![j].state = state]
        PROVE  queue'[i] = queue[i] \/ (i = j /\ Turns(i, state))
    <2>1. i # j => queue'[i] = queue[i]
      BY <1>2, <1>3
    <2>2. i = j => queue'[i] = [queue[i] EXCEPT !.state = state]
      BY <1>2, <1>3
    <2> QED
      BY <1>2, <2>1, <2>2 DEF Turns, Same, Entry
  <1>4. ASSUME NEW j \in Ids, NEW n, queue' = [queue EXCEPT ![j].attempts = n]
        PROVE  queue'[i] = queue[i] \/ (i = j /\ Counts(i, n))
    <2>1. i # j => queue'[i] = queue[i]
      BY <1>2, <1>4
    <2>2. i = j => queue'[i] = [queue[i] EXCEPT !.attempts = n]
      BY <1>2, <1>4
    <2> QED
      BY <1>2, <2>1, <2>2 DEF Counts, Same, Entry
  <1>5. ASSUME NEW op, NEW c, NEW p, Notify(op, c, p) PROVE queue'[i] = queue[i]
    BY <1>2, <1>5 DEF Notify, TypeOK
  <1>6. ASSUME NEW j \in Ids, Commit(j) \/ Rollback(j)
        PROVE  \/ queue'[i] = queue[i]
               \/ queue[i].state = "open" /\ ((Commit(i) /\ Turns(i, "queued")) \/ Turns(i, "void"))
    BY <1>3, <1>6 DEF Commit, Rollback
  <1>7. ASSUME NEW j \in Ids, Dead(j), queue' = Requeued(j)
        PROVE  queue'[i] = queue[i] \/ (Dead(i) /\ Counts(i, plan.attempts - 1))
    BY <1>4, <1>7 DEF Requeued
  <1>8. CASE RequeueWrite
    <2>1. ticket # 0 /\ ticket \in Ids
      BY <1>8 DEF RequeueWrite, TypeOK
    <2> QED
      BY <1>7, <1>8, <2>1 DEF RequeueWrite
  <1>9. ASSUME NEW r \in Relay, RequeueHeld(r)
        PROVE  \/ queue'[i] = queue[i]
               \/ pass[r].pc = "probe" /\ Dead(i) /\ Counts(i, plan.attempts - 1)
    <2>1. /\ pass[r].pc = "probe"
          /\ UNCHANGED queue \/ \E j \in pass[r].only : Dead(j) /\ queue' = Requeued(j)
      BY <1>9 DEF RequeueHeld
    <2>2. pass[r].only \subseteq Ids
      BY DEF InQueue
    <2> QED
      BY <1>7, <2>1, <2>2
  <1>10. ASSUME NEW r \in Relay, MarkApplied(r)
         PROVE  queue'[i] = queue[i] \/ (i = At(r) /\ Turns(i, "applied"))
    <2>1. At(r) \in Ids
      BY <1>10, InHand DEF MarkApplied, InBatch
    <2> QED
      BY <1>3, <1>10, <2>1 DEF MarkApplied
  <1>11. ASSUME NEW r \in Relay, ApplyFails(r)
         PROVE  \/ queue'[i] = queue[i]
                \/ /\ i = At(r)
                   /\ Counts(i, IF queue[i].attempts < plan.attempts THEN queue[i].attempts + 1
                                ELSE queue[i].attempts)
    <2> DEFINE n == IF queue[At(r)].attempts < plan.attempts THEN queue[At(r)].attempts + 1
                    ELSE queue[At(r)].attempts
    <2>1. At(r) \in Ids
      BY <1>11, InHand DEF ApplyFails, InBatch
    <2>2. queue' = [queue EXCEPT ![At(r)].attempts = n]
      BY <1>11 DEF ApplyFails
    <2>3. queue'[i] = queue[i] \/ (i = At(r) /\ Counts(i, n))
      <3> HIDE DEF n
      <3> QED
        BY <1>4, <2>1, <2>2
    <2> QED
      BY <2>3
  <1>12. ASSUME NEW r \in Relay,
                \/ Step(r) /\ ~RequeueHeld(r) /\ ~MarkApplied(r) /\ ~ApplyFails(r)
                \/ ApplyTransient(r) \/ Abort(r)
         PROVE  UNCHANGED queue
    BY <1>12 DEF Step, TakeLease, Busy, Page, Defer, Proceed, Apply, ApplyTransient, Abort
  <1>13. ASSUME NEW r, NEW j, StartPass(r, j) \/ RequeueTake(r, j) \/ RequeueProbe(j) \/ LeaseDrops
         PROVE  UNCHANGED queue
    BY <1>13 DEF StartPass, RequeueTake, RequeueProbe, LeaseDrops
  <1> QED
    <2>1. CASE \E op \in {"attached", "moved", "detached"}, c \in Scope, p \in Node : Notify(op, c, p)
      BY <1>5, <2>1
    <2>2. CASE \E j \in Ids : Commit(j) \/ Rollback(j)
      BY <1>6, <2>2
    <2>3. CASE \E r \in plan.relays : Step(r) \/ ApplyTransient(r) \/ Abort(r)
      <3>1. PICK r \in Relay : Step(r) \/ ApplyTransient(r) \/ Abort(r)
        BY <1>1, <2>3
      <3> QED
        BY <3>1, <1>9, <1>10, <1>11, <1>12
    <2>4. CASE \/ \E r \in plan.relays, only \in SUBSET Ids : StartPass(r, only)
               \/ \E r \in plan.relays, j \in Ids : RequeueTake(r, j)
               \/ LeaseDrops \/ \E j \in Ids : RequeueProbe(j)
      BY <1>13, <2>4
    <2> QED
      BY <1>8, <2>1, <2>2, <2>3, <2>4, NextIs DEF Work, Aside

LEMMA SameEntry ==
  ASSUME TypeOK, InQueue, [Next]_vars, NEW i \in Ids
  PROVE  Same(i)
  <1>1. CASE UNCHANGED vars
    BY <1>1 DEF vars, Same
  <1>2. CASE Next
    BY <1>2, EntryStep DEF Same, Turns, Counts
  <1> QED
    BY <1>1, <1>2

LEMMA SameKeys ==
  ASSUME NEW i, Same(i)
  PROVE  Keys(i)' = Keys(i)
  BY DEF Same, Keys

\* The queue only grows at its end, by an entry that is open.
LEMMA NewEntry ==
  ASSUME TypeOK, InQueue, [Next]_vars
  PROVE  \/ Len(queue') = Len(queue)
         \/ /\ Len(queue') = Len(queue) + 1
            /\ \E op \in {"attached", "moved", "detached"}, c \in Scope, p \in Node : Notify(op, c, p)
            /\ queue'[Len(queue')].state = "open" /\ queue'[Len(queue')].attempts = 0
  <1>0. queue \in Seq(Entry) /\ plan.relays \subseteq Relay
    BY DEF TypeOK
  <1>1. ASSUME NEW j, NEW e, queue' = [queue EXCEPT ![j] = e] PROVE Len(queue') = Len(queue)
    BY <1>0, <1>1
  <1>2. ASSUME NEW op, NEW c, NEW p, Notify(op, c, p)
        PROVE  /\ Len(queue') = Len(queue) + 1
               /\ queue'[Len(queue')].state = "open" /\ queue'[Len(queue')].attempts = 0
    BY <1>0, <1>2 DEF Notify
  <1>3. CASE \E j \in Ids : Commit(j) \/ Rollback(j)
    BY <1>1, <1>3 DEF Commit, Rollback
  <1>4. CASE RequeueWrite \/ \E r \in Relay : RequeueHeld(r)
    BY <1>1, <1>4 DEF RequeueWrite, RequeueHeld, Requeued
  <1>5. CASE \E r \in Relay : ApplyFails(r) \/ MarkApplied(r)
    BY <1>1, <1>5 DEF ApplyFails, MarkApplied
  <1>6. ASSUME NEW r \in Relay,
               \/ Step(r) /\ ~RequeueHeld(r) /\ ~MarkApplied(r) /\ ~ApplyFails(r)
               \/ ApplyTransient(r) \/ Abort(r)
        PROVE  UNCHANGED queue
    BY <1>6 DEF Step, TakeLease, Busy, Page, Defer, Proceed, Apply, ApplyTransient, Abort
  <1>7. ASSUME NEW r, NEW j, StartPass(r, j) \/ RequeueTake(r, j) \/ RequeueProbe(j) \/ LeaseDrops
        PROVE  UNCHANGED queue
    BY <1>7 DEF StartPass, RequeueTake, RequeueProbe, LeaseDrops
  <1>8. CASE UNCHANGED vars
    BY <1>8 DEF vars
  <1>9. CASE Next
    <2>1. CASE \E op \in {"attached", "moved", "detached"}, c \in Scope, p \in Node : Notify(op, c, p)
      BY <1>2, <2>1
    <2>2. CASE \E r \in plan.relays : Step(r) \/ ApplyTransient(r) \/ Abort(r)
      BY <1>0, <1>4, <1>5, <1>6, <2>2
    <2>3. CASE \/ \E r \in plan.relays, only \in SUBSET Ids : StartPass(r, only)
               \/ \E r \in plan.relays, j \in Ids : RequeueTake(r, j)
               \/ LeaseDrops \/ \E j \in Ids : RequeueProbe(j)
      BY <1>7, <2>3
    <2> QED
      BY <1>3, <1>4, <1>9, <2>1, <2>2, <2>3, NextIs DEF Work, Aside
  <1> QED
    BY <1>8, <1>9

-----------------------------------------------------------------------------
(* Steps of a pass.                                                        *)

Draining == {"page", "item", "apply", "mark"}

\* A step of the pass of r.
Own(r) == Step(r) \/ ApplyTransient(r) \/ Abort(r)

\* Who moves: r, who goes on or begins, or somebody else.
LEMMA PassStep ==
  ASSUME TypeOK, InQueue, Next, NEW r \in Relay
  PROVE  \/ Own(r)
         \/ \E only \in SUBSET Ids :
               /\ plan.several \/ \A i, j \in only : i = j
               /\ StartPass(r, only)
         \/ plan.apply /\ \E i \in Ids : RequeueTake(r, i)
         \/ pass'[r] = pass[r] /\ ~Own(r)
  <1> SUFFICES ASSUME ~Own(r)
               PROVE  \/ \E only \in SUBSET Ids :
                            /\ plan.several \/ \A i, j \in only : i = j
                            /\ StartPass(r, only)
                      \/ plan.apply /\ \E i \in Ids : RequeueTake(r, i)
                      \/ pass'[r] = pass[r]
    OBVIOUS
  <1>1. plan.relays \subseteq Relay
    BY DEF TypeOK
  <1>2. ASSUME NEW s \in plan.relays, Own(s), s # r PROVE pass'[r] = pass[r]
    BY <1>1, <1>2, OwnStepMoves DEF OnlyMoves, Own
  <1>3. ASSUME NEW s \in plan.relays, NEW only, StartPass(s, only), s # r PROVE pass'[r] = pass[r]
    BY <1>1, <1>3 DEF StartPass, TypeOK
  <1>4. ASSUME NEW s \in plan.relays, NEW i, RequeueTake(s, i), s # r PROVE pass'[r] = pass[r]
    BY <1>1, <1>4 DEF RequeueTake, TypeOK
  <1>5. CASE \E s \in plan.relays : Own(s)
    BY <1>2, <1>5
  <1>6. CASE \E s \in plan.relays, only \in SUBSET Ids :
                (plan.several \/ \A i, j \in only : i = j) /\ StartPass(s, only)
    BY <1>3, <1>6
  <1>7. CASE \E s \in plan.relays, i \in Ids : RequeueTake(s, i)
    BY <1>4, <1>7 DEF RequeueTake
  <1>8. CASE \/ \E op \in {"attached", "moved", "detached"}, c \in Scope, p \in Node : Notify(op, c, p)
             \/ \E i \in Ids : Commit(i) \/ Rollback(i) \/ RequeueProbe(i)
             \/ RequeueWrite \/ LeaseDrops
    BY <1>8 DEF Notify, Commit, Rollback, RequeueProbe, RequeueWrite, LeaseDrops
  <1> QED
    BY <1>5, <1>6, <1>7, <1>8, NextIs DEF Work, Own, Aside

\* What a pass is after its entry.
LEMMA AdvancedFields ==
  ASSUME TypeOK, NEW r \in Relay, NEW k, pass' = [pass EXCEPT ![r] = Advanced(r, k)]
  PROVE  /\ pass'[r].pc = IF pass[r].batch = {At(r)} THEN "page" ELSE "item"
         /\ pass'[r].only = pass[r].only /\ pass'[r].parked = pass[r].parked
         /\ pass'[r].blocked = k /\ pass'[r].after = At(r)
         /\ pass'[r].batch = pass[r].batch \ {At(r)}
  <1> DEFINE pc == IF pass[r].batch = {At(r)} THEN "page" ELSE "item"
             at == At(r)
             rest == pass[r].batch \ {At(r)}
  <1>1. pass[r] \in Pass /\ pass'[r] = Advanced(r, k)
    BY DEF TypeOK
  <1>2. pass'[r] = [pass[r] EXCEPT !.pc = pc, !.after = at, !.batch = rest, !.blocked = k]
    BY <1>1 DEF Advanced
  <1>3. /\ pass'[r].pc = pc /\ pass'[r].after = at /\ pass'[r].batch = rest /\ pass'[r].blocked = k
        /\ pass'[r].only = pass[r].only /\ pass'[r].parked = pass[r].parked
    <2> HIDE DEF pc, at, rest
    <2>1. pass'[r].pc = pc /\ pass'[r].after = at
      BY <1>1, <1>2 DEF Pass
    <2>2. pass'[r].batch = rest /\ pass'[r].blocked = k
      BY <1>1, <1>2 DEF Pass
    <2>3. pass'[r].only = pass[r].only /\ pass'[r].parked = pass[r].parked
      BY <1>1, <1>2 DEF Pass
    <2> QED
      BY <2>1, <2>2, <2>3
  <1> QED
    BY <1>3

\* How a pass begins.
LEMMA Begins ==
  ASSUME TypeOK, NEW r \in Relay, NEW only, StartPass(r, only)
  PROVE  /\ pass[r].pc = "idle" /\ UNCHANGED <<queue, store, written>>
         /\ pass'[r].pc = "lease" /\ pass'[r].only = only /\ pass'[r].parked = ParkedKeys
         /\ pass'[r].blocked = [s \in Scope |-> "none"] /\ pass'[r].after = 0
  <1>1. pass'[r] = [Idle EXCEPT !.pc = "lease", !.only = only, !.parked = ParkedKeys]
    BY DEF StartPass, TypeOK
  <1>2. pass[r].pc = "idle" /\ UNCHANGED <<queue, store, written>>
    BY DEF StartPass
  <1>3. /\ pass'[r].pc = "lease" /\ pass'[r].only = only /\ pass'[r].parked = ParkedKeys
        /\ pass'[r].blocked = [s \in Scope |-> "none"] /\ pass'[r].after = 0
    BY <1>1, SMT DEF Idle
  <1> QED
    BY <1>2, <1>3

LEMMA Takes ==
  ASSUME TypeOK, NEW r \in Relay, NEW i, RequeueTake(r, i)
  PROVE  pass[r].pc = "idle" /\ pass'[r].pc = "probe" /\ UNCHANGED <<queue, store, written>>
  <1>1. pass'[r] = [Idle EXCEPT !.pc = "probe", !.only = {i}]
    BY DEF RequeueTake, TypeOK
  <1>2. pass[r].pc = "idle" /\ UNCHANGED <<queue, store, written>>
    BY DEF RequeueTake
  <1>3. pass'[r].pc = "probe"
    BY <1>1, SMT DEF Idle
  <1> QED
    BY <1>2, <1>3

\* The fields a pass keeps when it moves without leaving its entry.
Kept(r) == /\ pass'[r].only = pass[r].only /\ pass'[r].parked = pass[r].parked
           /\ pass'[r].blocked = pass[r].blocked /\ pass'[r].after = pass[r].after

LEMMA MovesOn ==
  ASSUME TypeOK, NEW r \in Relay, NEW pc, pass' = [pass EXCEPT ![r].pc = pc]
  PROVE  Kept(r) /\ pass'[r].pc = pc /\ pass'[r].batch = pass[r].batch
  <1>1. pass[r] \in Pass /\ pass'[r] = [pass[r] EXCEPT !.pc = pc]
    BY DEF TypeOK
  <1> QED
    BY <1>1 DEF Kept, Pass

LEMMA PageTurned ==
  ASSUME TypeOK, NEW r \in Relay, Page(r), Due(r) # {}
  PROVE  /\ Kept(r) /\ pass'[r].pc = "item" /\ pass'[r].batch \subseteq Due(r)
         /\ \A i \in pass'[r].batch, j \in Due(r) \ pass'[r].batch : i < j
         /\ UNCHANGED queue
  <1>1. PICK batch \in SUBSET Due(r) :
           /\ IsBatch(r, batch)
           /\ pass' = [pass EXCEPT ![r].pc = "item", ![r].batch = batch]
    BY DEF Page
  <1>2. pass[r] \in Pass /\ pass'[r] = [pass[r] EXCEPT !.pc = "item", !.batch = batch]
    BY <1>1 DEF TypeOK
  <1>3. Kept(r) /\ pass'[r].pc = "item" /\ pass'[r].batch = batch
    BY <1>2 DEF Kept, Pass
  <1> QED
    BY <1>1, <1>3 DEF IsBatch, Page

LEMMA BlockFacts ==
  ASSUME TypeOK, NEW r \in Relay, NEW o \in Origin \ {"none"}, NEW s \in Scope
  PROVE  /\ pass[r].blocked[s] = "failed" => Block(r, o)[s] = "failed"
         /\ Block(r, o)[s] = pass[r].blocked[s] \/ (s \in Keys(At(r)) /\ Block(r, o)[s] = o)
         /\ s \in Keys(At(r)) => Block(r, o)[s] # "none"
         /\ s \in Keys(At(r)) /\ o \in {"pending", "failed"} => Block(r, o)[s] \in {"pending", "failed"}
         /\ s \in Keys(At(r)) /\ o = "failed" => Block(r, o)[s] = "failed"
         /\ pass[r].blocked[s] # "none" => Block(r, o)[s] # "none"
         /\ pass[r].blocked[s] \in {"pending", "failed"} => Block(r, o)[s] \in {"pending", "failed"}
         /\ Block(r, o)[s] \in Origin
  <1> DEFINE b == pass[r].blocked[s]
  <1>1. b \in Origin
    BY DEF TypeOK, Pass
  <1>2. Block(r, o)[s] = IF s \in Keys(At(r)) /\ Rank(o) > Rank(b) THEN o ELSE b
    BY DEF Block
  <1>3. /\ Rank("none") = 0 /\ Rank("parked") = 1 /\ Rank("pending") = 2 /\ Rank("failed") = 3
    BY DEF Rank
  <1> HIDE DEF b
  <1>4. CASE o = "parked"
    BY <1>1, <1>2, <1>3, <1>4 DEF b
  <1>5. CASE o = "pending"
    BY <1>1, <1>2, <1>3, <1>5 DEF b
  <1>6. CASE o = "failed"
    BY <1>1, <1>2, <1>3, <1>6 DEF b
  <1> QED
    BY <1>4, <1>5, <1>6

-----------------------------------------------------------------------------
(* What holds of every plan: what is open has not been tried and is in no  *)
(* batch, nothing hangs from nowhere, and requeues are the plan's.         *)

NotYet == \A i \in Ids : queue[i].state = "open" => queue[i].attempts = 0

Shut == \A r \in Relay : pass[r].pc \in InBatch => \A i \in pass[r].batch : queue[i].state # "open"

Hung == \A i \in Ids : queue[i].op # "detached" => queue[i].parent # NoScope

Requeues == /\ ticket # 0 => plan.plain
            /\ \A r \in Relay : pass[r].pc = "probe" => plan.apply

LEMMA StepNotYet ==
  ASSUME TypeOK, InQueue, NotYet, Shut, [Next]_vars
  PROVE  NotYet'
  <1> SUFFICES ASSUME NEW i \in Ids', queue'[i].state = "open" PROVE queue'[i].attempts = 0
    BY DEF NotYet
  <1>1. CASE i \in Ids /\ Next
    <2>1. CASE Counts(i, plan.attempts - 1) /\ Dead(i)
      BY <2>1 DEF Counts, Dead
    <2>2. ASSUME NEW r \in Relay, ApplyFails(r), i = At(r), NEW n, Counts(i, n) PROVE FALSE
      <3>1. pass[r].pc \in InBatch
        BY <2>2 DEF ApplyFails, InBatch
      <3>2. At(r) \in pass[r].batch
        BY <3>1, InHand
      <3> QED
        BY <2>2, <3>1, <3>2 DEF Shut, Counts
    <2> QED
      BY <1>1, <2>1, <2>2, EntryStep DEF NotYet, Turns
  <1>2. CASE i \notin Ids
    <2>1. i = Len(queue')
      BY <1>2, NewEntry DEF Ids, TypeOK
    <2> QED
      BY <1>2, <2>1, NewEntry DEF Ids
  <1>3. CASE UNCHANGED vars
    BY <1>3 DEF vars, NotYet, Ids
  <1> QED
    BY <1>1, <1>2, <1>3

LEMMA StaysShut ==
  ASSUME TypeOK, InQueue, Next, NEW i \in Ids, queue[i].state # "open"
  PROVE  queue'[i].state # "open"
  BY EntryStep DEF Turns, Counts

LEMMA StepShut ==
  ASSUME TypeOK, InQueue, Shut, [Next]_vars
  PROVE  Shut'
  <1> SUFFICES ASSUME NEW r \in Relay, pass'[r].pc \in InBatch, NEW i \in pass'[r].batch, Next
               PROVE  queue'[i].state # "open"
    BY DEF Shut, vars
  <1>1. i \in Ids /\ queue[i].state # "open"
    <2>1. CASE Own(r)
      <3>1. \/ pass'[r].batch \subseteq Due(r)
            \/ pass[r].pc \in InBatch /\ pass'[r].batch \subseteq pass[r].batch
        BY <2>1, OwnStep DEF Own
      <3> QED
        BY <3>1 DEF Due, Pending, Shut, InQueue
    <2>2. CASE pass'[r] = pass[r]
      BY <2>2 DEF Shut, InQueue
    <2>3. ASSUME NEW x, StartPass(r, x) \/ RequeueTake(r, x) PROVE FALSE
      <3>1. pass'[r].pc \in {"lease", "probe"}
        BY <2>3, Begins, Takes
      <3> QED
        BY <3>1 DEF InBatch
    <2> QED
      BY <2>1, <2>2, <2>3, PassStep
  <1> QED
    BY <1>1, StaysShut

LEMMA StepHung ==
  ASSUME TypeOK, InQueue, Hung, [Next]_vars
  PROVE  Hung'
  <1> SUFFICES ASSUME NEW i \in Ids', queue'[i].op # "detached" PROVE queue'[i].parent # NoScope
    BY DEF Hung
  <1>1. CASE i \in Ids
    BY <1>1, SameEntry DEF Same, Hung
  <1>2. CASE i \notin Ids
    <2>1. PICK op \in {"attached", "moved", "detached"}, c \in Scope, p \in Node : Notify(op, c, p)
      BY <1>2, NewEntry DEF Ids
    <2>2. queue \in Seq(Entry) /\ i = Len(queue) + 1
      BY <1>2, <2>1, NewEntry DEF Ids, TypeOK
    <2>3. queue'[i].op = op /\ queue'[i].parent = p
      BY <2>1, <2>2 DEF Notify
    <2> QED
      BY <2>1, <2>3, NowhereIsIllegal DEF Notify
  <1> QED
    BY <1>1, <1>2

LEMMA StepRequeues ==
  ASSUME TypeOK, InQueue, Requeues, [Next]_vars
  PROVE  Requeues'
  <1>1. CASE UNCHANGED vars
    BY <1>1 DEF vars, Requeues
  <1>2. CASE Next
    <2>1. UNCHANGED plan
      BY <1>2 DEF Next
    <2>2. ticket' # 0 => plan.plain
      <3>1. ASSUME NEW r, Own(r) PROVE UNCHANGED ticket
        BY <3>1 DEF Own, Step, TakeLease, Busy, Page, Defer, Proceed, Apply, ApplyFails,
                    ApplyTransient, MarkApplied, Abort, RequeueHeld
      <3>2. ASSUME NEW r, NEW x, StartPass(r, x) \/ RequeueTake(r, x) \/ Commit(x) \/ Rollback(x) \/ LeaseDrops
            PROVE  UNCHANGED ticket
        BY <3>2 DEF StartPass, RequeueTake, Commit, Rollback, LeaseDrops
      <3>3. ASSUME NEW i, RequeueProbe(i) PROVE plan.plain
        BY <3>3 DEF RequeueProbe
      <3>4. ASSUME RequeueWrite PROVE ticket' = 0
        BY <3>4 DEF RequeueWrite
      <3>5. ASSUME NEW op, NEW c, NEW p, Notify(op, c, p) PROVE UNCHANGED ticket
        BY <3>5 DEF Notify
      <3> QED
        BY <1>2, <3>1, <3>2, <3>3, <3>4, <3>5, NextIs DEF Work, Own, Requeues, Aside
    <2>3. ASSUME NEW r \in Relay, pass'[r].pc = "probe" PROVE plan.apply
      <3>1. CASE Own(r)
        <4>1. pass[r].pc = "probe" \/ pass'[r].pc # "probe"
          <5>1. pass[r] \in Pass
            BY DEF TypeOK
          <5>2. CASE TakeLease(r) \/ Proceed(r) \/ Apply(r)
            BY <5>2, MovesOn DEF TakeLease, Proceed, Apply
          <5>3. CASE Busy(r) \/ Abort(r) \/ (Page(r) /\ Due(r) = {})
            BY <5>3 DEF Busy, Abort, Page, Idle, TypeOK
          <5>4. CASE Page(r) /\ Due(r) # {}
            BY <5>4, PageTurned
          <5>5. CASE Defer(r) \/ ApplyFails(r) \/ ApplyTransient(r) \/ MarkApplied(r)
            BY <5>5, AdvancedFields DEF Defer, ApplyFails, ApplyTransient, MarkApplied
          <5>6. CASE RequeueHeld(r)
            BY <5>6 DEF RequeueHeld
          <5> QED
            BY <3>1, <5>2, <5>3, <5>4, <5>5, <5>6 DEF Own, Step
        <4> QED
          BY <2>3, <4>1 DEF Requeues
      <3>2. ASSUME NEW x, StartPass(r, x) PROVE pass'[r].pc = "lease"
        BY <3>2 DEF StartPass, Idle, TypeOK
      <3> QED
        BY <1>2, <2>3, <3>1, <3>2, PassStep DEF Requeues
    <2> QED
      BY <2>1, <2>2, <2>3 DEF Requeues
  <1> QED
    BY <1>1, <1>2

-----------------------------------------------------------------------------
(* With one relay nothing is hung on what is parked: the pass knows every  *)
(* parked entry, by its census or because it failed in its own hands.      *)

ClearAtHand ==
    \A r \in Relay : (pass[r].pc \in {"apply", "mark"} /\ queue[At(r)].op # "detached") =>
        \A k \in Keys(At(r)) \cap Scope : pass[r].blocked[k] = "none" /\ k \notin pass[r].parked

CensusCovers ==
    Alone => \A r \in Relay : pass[r].pc \in {"lease"} \cup Draining =>
        \A d \in Ids : Dead(d) =>
            queue[d].child \in pass[r].parked \/ pass[r].blocked[queue[d].child] = "failed"

LEMMA SameAt ==
  ASSUME NEW r, pass'[r].batch = pass[r].batch
  PROVE  At(r)' = At(r)
  BY DEF At

\* An entry comes to be applied through Proceed and Apply only.
LEMMA OwnTurn ==
  ASSUME TypeOK, NEW r \in Relay, Own(r), pass'[r].pc \in {"apply", "mark"}
  PROVE  \/ Proceed(r) /\ pass'[r].pc = "apply"
         \/ Apply(r) /\ pass'[r].pc = "mark"
  <1>1. CASE TakeLease(r)
    BY <1>1, MovesOn DEF TakeLease
  <1>2. CASE Proceed(r) \/ Apply(r)
    BY <1>2, MovesOn DEF Proceed, Apply
  <1>3. CASE Busy(r) \/ Abort(r) \/ (Page(r) /\ Due(r) = {})
    BY <1>3 DEF Busy, Abort, Page, Idle, TypeOK
  <1>4. CASE Page(r) /\ Due(r) # {}
    BY <1>4, PageTurned
  <1>5. CASE Defer(r) \/ ApplyFails(r) \/ ApplyTransient(r) \/ MarkApplied(r)
    BY <1>5, AdvancedFields DEF Defer, ApplyFails, ApplyTransient, MarkApplied
  <1>6. CASE RequeueHeld(r)
    <2>1. pass[r] \in Pass
      BY DEF TypeOK
    <2>2. \/ pass' = [pass EXCEPT ![r] = Idle]
          \/ \E x : pass' = [pass EXCEPT ![r].pc = "page", ![r].parked = x]
      BY <1>6 DEF RequeueHeld
    <2> QED
      BY <2>1, <2>2 DEF Idle, Pass, TypeOK
  <1> QED
    BY <1>1, <1>2, <1>3, <1>4, <1>5, <1>6 DEF Own, Step

-----------------------------------------------------------------------------
(* The tree of the backend.                                                *)

\* A request of the pass of r, which is the only one in the middle of an entry.
LEMMA StillClimbs ==
  ASSUME TypeOK, InQueue, NEW r \in Relay, Climbed(r), Reparent(r)
  PROVE  Climbed(r)'
  <1> DEFINE i == At(r)
             e == edge[r]
             c == queue[i].child
             p == queue[i].parent
  <1>1. /\ pass[r].pc = "apply" /\ At(r)' = i /\ UNCHANGED <<queue, store>> /\ UNCHANGED pass
        /\ e \in EdgeWork /\ edge \in [Relay -> EdgeWork]
    BY DEF Reparent, At, TypeOK
  <1>2. queue[i] \in Entry /\ c \in Scope /\ store[c] \subseteq Parents
    BY <1>1, InHand DEF InBatch, TypeOK, Entry
  <1>3. CASE CheckEdge(r) \/ Conflict(r)
    <2>1. edge'[r].at = "read"
      BY <1>1, <1>3 DEF CheckEdge, Conflict, Unread, EdgeWork
    <2> QED
      BY <2>1 DEF Climbed
  <1>4. CASE ReadEdge(r)
    <2>1. CASE queue[i].op = "detached"
      <3>1. edge'[r] = [e EXCEPT !.at = "write", !.current = store[c]]
        BY <1>1, <1>4, <2>1 DEF ReadEdge
      <3>2. edge'[r].current = store[c]
        BY <1>1, <3>1 DEF EdgeWork
      <3> QED
        BY <1>1, <2>1, <3>2 DEF Climbed
    <2>2. CASE queue[i].op # "detached"
      <3>1. edge'[r] = [e EXCEPT !.at = "climb", !.current = store[c], !.chain = {p}, !.top = p]
        BY <1>1, <1>4, <2>2 DEF ReadEdge
      <3>2. /\ edge'[r].at = "climb" /\ edge'[r].current = store[c]
            /\ edge'[r].chain = {p} /\ edge'[r].top = p
        BY <1>1, <3>1 DEF EdgeWork
      <3> QED
        BY <1>1, <3>2 DEF Climbed
    <2> QED
      BY <2>1, <2>2
  <1>5. CASE Climb(r)
    <2> DEFINE above == IF e.top = Root THEN {} ELSE store[e.top]
    <2>0. /\ e.at = "climb" /\ e.current = store[c]
          /\ queue[i].op # "detached" =>
                p \in e.chain /\ \A s \in e.chain \cap Scope : s # e.top => store[s] \subseteq e.chain
      BY <1>1, <1>5 DEF Climb, Climbed
    <2>1. CASE above = {} /\ Unmet(r) /\ edge' = [edge EXCEPT ![r].at = "write"]
      <3>1. edge'[r] = [e EXCEPT !.at = "write"]
        BY <1>1, <2>1
      <3>2. edge'[r].at = "write" /\ edge'[r].current = e.current /\ edge'[r].chain = e.chain
        BY <1>1, <3>1 DEF EdgeWork
      <3>3. \A s \in Scope : s = e.top => store[s] \subseteq e.chain
        BY <2>1
      <3>4. c \notin e.chain
        BY <2>1 DEF Unmet
      <3> QED
        BY <1>1, <2>0, <3>2, <3>3, <3>4 DEF Climbed
    <2>2. ASSUME NEW q \in Parents, above = {q},
                 edge' = [edge EXCEPT ![r].chain = @ \cup {q}, ![r].top = q]
          PROVE  Climbed(r)'
      <3>1. edge'[r] = [e EXCEPT !.chain = @ \cup {q}, !.top = q]
        BY <1>1, <2>2
      <3>2. /\ edge'[r].at = "climb" /\ edge'[r].current = e.current
            /\ edge'[r].chain = e.chain \cup {q} /\ edge'[r].top = q
        BY <1>1, <2>0, <3>1 DEF EdgeWork
      <3>3. \A s \in Scope : s = e.top => store[s] \subseteq e.chain \cup {q}
        BY <2>2
      <3> QED
        BY <1>1, <2>0, <3>2, <3>3 DEF Climbed
    <2> QED
      BY <1>5, <2>1, <2>2 DEF Climb
  <1> QED
    BY <1>3, <1>4, <1>5 DEF Reparent

LEMMA StepForgotten ==
  ASSUME TypeOK, Forgotten, [Next]_vars
  PROVE  Forgotten'
  <1> SUFFICES ASSUME NEW r \in Relay, pass'[r].pc # "apply" PROVE edge'[r].at = "check"
    BY DEF Forgotten
  <1>1. CASE UNCHANGED vars
    BY <1>1 DEF vars, Forgotten
  <1>2. CASE Forget
    BY <1>2 DEF Forget, Unread
  <1>3. CASE Aside /\ UNCHANGED edge
    BY <1>3 DEF Aside, Forgotten
  <1>4. ASSUME Aside, NEW q \in plan.relays, Reparent(q) PROVE edge'[r].at = "check"
    <2>1. pass[q].pc = "apply" /\ pass[r].pc # "apply" /\ q \in Relay
      BY <1>4 DEF Reparent, Aside, TypeOK
    <2>2. edge'[r] = edge[r]
      BY <1>4, <2>1 DEF Reparent, CheckEdge, ReadEdge, Climb, Conflict, TypeOK
    <2> QED
      BY <2>1, <2>2 DEF Forgotten
  <1> QED
    BY <1>1, <1>2, <1>3, <1>4, NextIs

LEMMA StepPrompt ==
  ASSUME Prompt => late = {}, [Next]_vars
  PROVE  Prompt' => late' = {}
  <1>1. UNCHANGED plan
    BY DEF Next, vars
  <1>2. ASSUME NEW r, LeaveWrite(r) PROVE ~Prompt
    BY <1>2 DEF LeaveWrite, Prompt
  <1>3. CASE UNCHANGED vars
    BY <1>1, <1>3 DEF vars, Prompt
  <1>4. CASE Next
    BY <1>1, <1>2, <1>4, NextIs DEF LateWrite, Prompt
  <1> QED
    BY <1>3, <1>4

\* What a step writes to the backend while nobody else does: the edge of the entry a pass
\* has at hand, if it climbed to the root without meeting the scope.
LEMMA WritesOne ==
  ASSUME TypeOK, InQueue, Prompt => late = {}, Apart, \A r \in Relay : Climbed(r), [Next]_vars,
         ~UNCHANGED <<store, written>>
  PROVE  \E r \in Relay, n \in Ids :
            /\ pass[r].pc = "apply" /\ n = At(r) /\ Own(r) /\ Reach(r)
            /\ store' = [store EXCEPT ![queue[n].child] = Wanted(n)]
            /\ written' = [written EXCEPT ![queue[n].child] = n]
  <1>1. plan.relays \subseteq Relay /\ ~LateWrite
    BY DEF TypeOK, Apart, LateWrite
  <1>2. Work
    <2>1. ASSUME NEW r \in plan.relays, LeaveWrite(r) PROVE Work
      <3>1. ApplyTransient(r) \/ Abort(r)
        BY <2>1 DEF LeaveWrite
      <3> QED
        BY <3>1 DEF Work
    <2> QED
      BY <1>1, <2>1 DEF Next, Reparent, vars
  <1>3. PICK r \in Relay : Step(r) \/ ApplyTransient(r)
    BY <1>1, <1>2 DEF Work, vars, Notify, Commit, Rollback, StartPass, Abort, LeaseDrops,
                RequeueProbe, RequeueWrite, RequeueTake
  <1>4. pass[r].pc = "apply" /\ Reach(r)
    BY <1>3 DEF Step, TakeLease, Busy, Page, Defer, Proceed, Apply, ApplyFails,
                ApplyTransient, MarkApplied, RequeueHeld
  <1>5. PICK n \in Ids : n = At(r)
    BY <1>4, InHand DEF InBatch
  <1>6. queue[n].child \in Scope
    BY EntryFacts
  <1>7. CASE edge[r].at = "read"
    <2>1. store[queue[n].child] = Wanted(n) /\ UNCHANGED store
      BY <1>4, <1>5, <1>7 DEF Reach
    <2>2. store' = [store EXCEPT ![queue[n].child] = Wanted(n)]
      BY <2>1 DEF TypeOK
    <2> QED
      BY <1>3, <1>4, <1>5, <1>7, <2>2 DEF Reach, Own
  <1>8. CASE edge[r].at = "write"
    <2>1. edge[r].current = store[queue[n].child] /\ Lands(n, edge[r].current)
      BY <1>4, <1>5, <1>8 DEF Reach, Climbed
    <2>2. (store[queue[n].child] \ edge[r].current) \cup Wanted(n) = Wanted(n)
      BY <2>1
    <2>3. /\ store' = [store EXCEPT ![queue[n].child] = Wanted(n)]
          /\ written' = [written EXCEPT ![queue[n].child] = n]
      BY <2>1, <2>2 DEF Lands
    <2> QED
      BY <1>3, <1>4, <1>5, <2>3 DEF Own
  <1> QED
    BY <1>4, <1>7, <1>8 DEF Reach

LEMMA StepTree ==
  ASSUME RelayInv, [Next]_vars, Apart
  PROVE  Acyclic(store') /\ \A s \in Scope : OneParent(store'[s])
  <1>0. TypeOK /\ InQueue /\ (\A r \in Relay : Climbed(r))
        /\ Acyclic(store) /\ \A s \in Scope : OneParent(store[s])
    BY DEF RelayInv, StoreIsTree
  <1>1. CASE UNCHANGED store
    BY <1>0, <1>1
  <1>2. CASE ~UNCHANGED store
    <2>1. PICK r \in Relay, n \in Ids :
             /\ pass[r].pc = "apply" /\ n = At(r) /\ Reach(r)
             /\ store' = [store EXCEPT ![queue[n].child] = Wanted(n)]
      BY <1>0, <1>2, WritesOne DEF RelayInv
    <2> DEFINE c == queue[n].child
               p == queue[n].parent
    <2>2. /\ c \in Scope /\ store \in [Scope -> SUBSET Parents] /\ edge[r] \in EdgeWork
          /\ queue[n].op = "detached" <=> p = NoScope
          /\ p # NoScope => p \in Parents
      BY <1>0, EntryFacts DEF TypeOK, Entry, Node, Parents
    <2>3. OneParent(Wanted(n))
      BY DEF OneParent, Wanted
    <2>4. \A s \in Scope : OneParent(store'[s])
      BY <1>0, <2>1, <2>2, <2>3
    <2>5. CASE queue[n].op = "detached"
      <3>1. store' = [store EXCEPT ![c] = {}]
        BY <2>1, <2>2, <2>5 DEF Wanted
      <3>2. Acyclic([store EXCEPT ![c] = {}])
        BY <1>0, <2>2, DetachKeepsAcyclic
      <3> QED
        BY <2>4, <3>1, <3>2
    <2>6. CASE queue[n].op # "detached"
      <3>1. store' = [store EXCEPT ![c] = {p}]
        BY <2>1, <2>2, <2>6 DEF Wanted
      <3>2. edge[r].at = "write"
        BY <1>2, <2>1 DEF Reach
      <3>3. /\ p \in edge[r].chain /\ c \notin edge[r].chain
            /\ \A s \in edge[r].chain \cap Scope : store[s] \subseteq edge[r].chain
        BY <1>0, <2>1, <2>6, <3>2 DEF Climbed
      <3>4. edge[r].chain \in SUBSET Parents
        BY <2>2 DEF EdgeWork
      <3>5. Acyclic([store EXCEPT ![c] = {p}])
        BY <1>0, <2>2, <2>6, <3>3, <3>4, EdgeKeepsAcyclic
      <3> QED
        BY <2>4, <3>1, <3>5
    <2> QED
      BY <2>5, <2>6
  <1> QED
    BY <1>1, <1>2

\* One pass at a time is in the middle of an entry: what it read stays true until it
\* writes.
LEMMA StepClimbed ==
  ASSUME RelayInv, [Next]_vars, Apart, Exclusive, NEW r \in Relay
  PROVE  Climbed(r)'
  <1>0. TypeOK /\ InQueue /\ Climbed(r) /\ Forgotten /\ plan.relays \subseteq Relay
    BY DEF RelayInv, TypeOK
  <1>1. CASE UNCHANGED vars
    BY <1>0, <1>1 DEF vars, Climbed, At
  <1>2. CASE Next
    <2> SUFFICES ASSUME pass'[r].pc = "apply", edge'[r].at \in {"climb", "write"}
                 PROVE  Climbed(r)'
      BY DEF Climbed
    <2>1. ASSUME pass'[r] = pass[r], edge'[r] = edge[r] PROVE Climbed(r)'
      <3>1. At(r)' = At(r) /\ At(r) \in Ids
        BY <1>0, <2>1, InHand DEF At, InBatch
      <3>2. Same(At(r))
        BY <1>0, <3>1, SameEntry
      <3>3. UNCHANGED store
        <4> SUFFICES ASSUME ~UNCHANGED store PROVE FALSE
          OBVIOUS
        <4>1. PICK q \in Relay : pass[q].pc = "apply" /\ Own(q) /\ Reach(q)
          BY WritesOne DEF RelayInv
        <4>2. q = r
          BY <2>1, <4>1 DEF Exclusive, Holding
        <4>3. Apply(r) \/ ApplyFails(r) \/ ApplyTransient(r) \/ Abort(r)
          BY <4>1, <4>2 DEF Own, Step, TakeLease, Busy, Page, Defer, Proceed, MarkApplied, RequeueHeld
        <4>4. pass'[r].pc # "apply"
          <5>1. CASE Apply(r)
            BY <1>0, <5>1, MovesOn DEF Apply
          <5>2. CASE ApplyFails(r) \/ ApplyTransient(r)
            BY <1>0, <5>2, AdvancedFields DEF ApplyFails, ApplyTransient
          <5>3. CASE Abort(r)
            BY <1>0, <5>3 DEF Abort, Idle, TypeOK
          <5> QED
            BY <4>3, <5>1, <5>2, <5>3
        <4> QED
          BY <4>4
      <3> QED
        BY <1>0, <2>1, <3>1, <3>2, <3>3 DEF Climbed, Same
    <2>2. CASE Forget
      <3>1. edge'[r] = edge[r]
        BY <2>2 DEF Forget
      <3>2. pass[r].pc = "apply"
        BY <1>0, <3>1 DEF Forgotten
      <3>3. CASE Own(r)
        <4>1. Proceed(r) \/ Apply(r)
          BY <1>0, <3>3, OwnTurn
        <4> QED
          BY <1>0, <3>2, <4>1, MovesOn DEF Proceed, Apply
      <3>4. ASSUME NEW x, StartPass(r, x) \/ RequeueTake(r, x) PROVE FALSE
        BY <3>2, <3>4 DEF StartPass, RequeueTake
      <3> QED
        BY <1>0, <1>2, <2>1, <3>1, <3>3, <3>4, PassStep
    <2>3. CASE Aside /\ UNCHANGED edge
      BY <2>1, <2>3 DEF Aside
    <2>4. ASSUME Aside, NEW q \in plan.relays, Reparent(q) PROVE Climbed(r)'
      <3>1. q \in Relay /\ pass[q].pc = "apply" /\ pass[r].pc = "apply"
        BY <1>0, <2>4 DEF Reparent, Aside
      <3>2. q = r
        BY <3>1 DEF Exclusive, Holding
      <3> QED
        BY <1>0, <2>4, <3>2, StillClimbs
    <2> QED
      BY <1>2, <2>2, <2>3, <2>4, NextIs
  <1> QED
    BY <1>1, <1>2

-----------------------------------------------------------------------------
(* The theorems.                                                           *)

LEMMA InitInv == Init => RelayInv
  <1> SUFFICES ASSUME Init PROVE RelayInv
    OBVIOUS
  <1>1. \A r \in Relay : pass[r].pc = "idle" /\ pass[r].only = {} /\ edge[r].at = "check"
    BY DEF Init, Idle, Unread
  <1>2. InQueue /\ LeaseHeld /\ BatchWaits /\ Outsiders /\ Forgotten
    BY <1>1 DEF InQueue, LeaseHeld, BatchWaits, Outsiders, Forgotten, Holding, InBatch
  <1>3. \A r \in Relay : Climbed(r)
    BY <1>1 DEF Climbed
  <1>4. StoreIsTree
    BY DEF StoreIsTree, Init, Edges, OneParent
  <1> QED
    BY <1>2, <1>3, <1>4, InitType DEF RelayInv, Init

LEMMA StepInv == RelayInv /\ [Next]_vars => RelayInv'
  <1> SUFFICES ASSUME RelayInv, [Next]_vars PROVE RelayInv'
    OBVIOUS
  <1>1. TypeOK' /\ Ids \subseteq Ids'
    BY StepType DEF RelayInv
  <1>2. InQueue' /\ Forgotten' /\ (Prompt' => late' = {})
    BY <1>1, StepInQueue, StepForgotten, StepPrompt DEF RelayInv
  <1>3. UNCHANGED plan /\ (Apart' <=> Apart) /\ (Separate' <=> Separate)
    BY DEF Next, vars, Apart, Alone, Prompt, Separate
  <1>4. Outsiders' /\ (~plan.drops => LeaseHeld')
    BY StepOutsiders, StepLease DEF RelayInv
  <1>5. Separate => Exclusive
    BY PassesApart DEF RelayInv
  <1>6. Separate => BatchWaits'
    BY <1>1, <1>5, StepWaits DEF RelayInv
  <1>7. Apart => \A r \in Relay : Climbed(r)'
    BY <1>5, StepClimbed DEF Apart, Separate
  <1>8. StoreIsTree'
    BY <1>3, StepTree DEF StoreIsTree
  <1> QED
    BY <1>1, <1>2, <1>3, <1>4, <1>6, <1>7, <1>8 DEF RelayInv

LEMMA InvWhole == RelayInv => StoreWhole
  <1> SUFFICES ASSUME RelayInv, ~plan.drops, NEW r \in Relay, pass[r].pc \in {"apply", "mark"}
               PROVE  Pending(At(r))
    BY DEF RelayInv, StoreWhole, AtHandWaits
  <1> QED
    BY InHand DEF RelayInv, BatchWaits, InBatch, Separate

\* Whatever is deployed and whoever races: every variable keeps its type; one writer at a
\* time, whose Writes do not outlive it, keeps the backend a tree, although what it read and
\* climbed is older than its Write; and an entry is in the hands of one pass while no lease
\* drops.
THEOREM StaysWhole == Spec => []StoreWhole
  BY InitInv, StepInv, InvWhole, PTL DEF Spec

-----------------------------------------------------------------------------
(* What is parked, and what is at hand.                                    *)

LEMMA VerdictClear ==
  ASSUME NEW r, Verdict(r) = "none", queue[At(r)].op # "detached",
         NEW k \in Keys(At(r))
  PROVE  pass[r].blocked[k] = "none" /\ k \notin pass[r].parked
  <1>1. k = queue[At(r)].child \/ k = queue[At(r)].parent
    BY DEF Keys
  <1>2. ~Collides(r, k)
    BY <1>1 DEF Verdict, Collides
  <1>3. Keys(At(r)) \cap pass[r].parked = {}
    BY DEF Verdict, Collides
  <1> QED
    BY <1>2, <1>3 DEF Collides

LEMMA StepClear ==
  ASSUME TypeOK, InQueue, ClearAtHand, [Next]_vars
  PROVE  ClearAtHand'
  <1>1. CASE UNCHANGED vars
    BY <1>1 DEF vars, ClearAtHand, At, Keys
  <1>2. CASE Next
    <2> SUFFICES ASSUME NEW r \in Relay, pass'[r].pc \in {"apply", "mark"}, queue'[At(r)'].op # "detached"
                 PROVE  \A k \in Keys(At(r))' \cap Scope :
                            pass'[r].blocked[k] = "none" /\ k \notin pass'[r].parked
      BY DEF ClearAtHand
    <2>1. /\ pass[r].pc \in InBatch /\ pass'[r].batch = pass[r].batch
          /\ pass'[r].blocked = pass[r].blocked /\ pass'[r].parked = pass[r].parked
          /\ \/ pass[r].pc \in {"apply", "mark"}
             \/ Verdict(r) = "none"
      <3>1. CASE Own(r)
        BY <3>1, OwnTurn, MovesOn DEF Proceed, Apply, InBatch, Kept
      <3>2. CASE pass'[r] = pass[r]
        BY <3>2 DEF InBatch
      <3>3. ASSUME NEW x, StartPass(r, x) \/ RequeueTake(r, x) PROVE FALSE
        BY <3>3, Begins, Takes
      <3> QED
        BY <1>2, <3>1, <3>2, <3>3, PassStep
    <2>2. At(r)' = At(r) /\ At(r) \in Ids
      BY <2>1, SameAt, InHand
    <2>3. Same(At(r))
      BY <2>2, SameEntry
    <2>4. Keys(At(r))' = Keys(At(r)) /\ queue[At(r)].op # "detached"
      BY <2>2, <2>3 DEF Same, Keys
    <2> QED
      BY <2>1, <2>4, VerdictClear DEF ClearAtHand
  <1> QED
    BY <1>1, <1>2

LEMMA DeadBefore ==
  ASSUME TypeOK, InQueue, NotYet, Next, NEW d \in Ids', Dead(d)'
  PROVE  d \in Ids /\ (Dead(d) \/ \E r \in Relay : ApplyFails(r) /\ d = At(r))
  <1>1. UNCHANGED plan /\ plan.attempts \in Nat \ {0}
    BY DEF Next, TypeOK
  <1>2. d \in Ids
    <2>1. d \notin Ids => d = Len(queue') /\ queue'[d].state = "open"
      BY NewEntry DEF Ids, TypeOK
    <2> QED
      BY <2>1 DEF Dead
  <1>3. CASE Counts(d, plan.attempts - 1)
    BY <1>1, <1>3 DEF Counts, Dead
  <1>4. CASE queue[d].state = "open" /\ (Turns(d, "queued") \/ Turns(d, "void"))
    BY <1>1, <1>2, <1>4 DEF NotYet, Turns, Dead
  <1>5. CASE queue'[d] = queue[d] \/ Turns(d, "applied")
    BY <1>1, <1>2, <1>5 DEF Turns, Dead
  <1> QED
    BY <1>2, <1>3, <1>4, <1>5, EntryStep

LEMMA StepCensus ==
  ASSUME TypeOK, InQueue, Outsiders, NotYet, CensusCovers, [Next]_vars
  PROVE  CensusCovers'
  <1>1. CASE UNCHANGED vars
    BY <1>1 DEF vars, CensusCovers, Dead, Ids, Alone
  <1>2. CASE Next
    <2>0. UNCHANGED plan
      BY <1>2 DEF Next
    <2> SUFFICES ASSUME Alone, NEW r \in Relay, pass'[r].pc \in {"lease"} \cup Draining,
                        NEW d \in Ids', Dead(d)'
                 PROVE  \/ queue'[d].child \in pass'[r].parked
                        \/ pass'[r].blocked[queue'[d].child] = "failed"
      BY <2>0 DEF CensusCovers, Alone
    <2> DEFINE c == queue[d].child
    <2>1. d \in Ids /\ (Dead(d) \/ \E q \in Relay : ApplyFails(q) /\ d = At(q))
      BY <1>2, DeadBefore
    <2>2. queue'[d].child = c /\ c \in Scope
      BY <2>1, SameEntry, EntryFacts DEF Same
    <2>3. \A q \in Relay : pass[q].pc # "idle" /\ pass[r].pc # "idle" => q = r
      BY DEF Alone, Outsiders
    <2>4. CASE pass'[r] = pass[r] /\ ~Own(r)
      <3>1. Dead(d)
        BY <2>1, <2>3, <2>4 DEF ApplyFails, Own, Step, Draining
      <3> QED
        BY <2>1, <2>2, <2>4, <3>1 DEF CensusCovers
    <2>5. ASSUME NEW only, StartPass(r, only)
          PROVE  c \in pass'[r].parked
      <3>1. UNCHANGED queue /\ pass'[r].parked = ParkedKeys
        BY <2>5, Begins
      <3>2. Dead(d)
        BY <2>0, <2>1, <3>1 DEF Dead
      <3> QED
        BY <2>1, <3>1, <3>2 DEF ParkedKeys
    <2>6. ASSUME NEW i, RequeueTake(r, i) PROVE FALSE
      BY <2>6, Takes DEF Draining
    <2>7. CASE Own(r)
      <3> DEFINE known == c \in pass[r].parked \/ pass[r].blocked[c] = "failed"
      <3>1. ASSUME Dead(d), pass[r].pc \in {"lease"} \cup Draining PROVE known
        BY <2>1, <3>1 DEF CensusCovers
      <3>2. ASSUME UNCHANGED queue PROVE Dead(d)
        BY <2>0, <2>1, <3>2 DEF Dead
      <3>3. CASE TakeLease(r) \/ Proceed(r) \/ Apply(r) \/ (Page(r) /\ Due(r) # {})
        <4>1. Kept(r) /\ UNCHANGED queue /\ pass[r].pc \in {"lease"} \cup Draining
          BY <3>3, MovesOn, PageTurned DEF TakeLease, Proceed, Apply, Page, Draining
        <4> QED
          BY <2>2, <3>1, <3>2, <4>1 DEF Kept
      <3>4. CASE Busy(r) \/ Abort(r) \/ (Page(r) /\ Due(r) = {})
        <4>1. pass'[r] = Idle
          BY <3>4 DEF Busy, Abort, Page, TypeOK
        <4>2. pass'[r].pc = "idle"
          BY <4>1 DEF Idle
        <4> QED
          BY <4>2 DEF Draining
      <3>5. ASSUME NEW k, pass' = [pass EXCEPT ![r] = Advanced(r, k)], pass[r].pc \in InBatch,
                   known => (c \in pass[r].parked \/ k[c] = "failed"),
                   Dead(d) \/ k[c] = "failed"
            PROVE  c \in pass'[r].parked \/ pass'[r].blocked[c] = "failed"
        <4>1. pass'[r].parked = pass[r].parked /\ pass'[r].blocked = k
          BY <3>5, AdvancedFields
        <4>2. pass[r].pc \in {"lease"} \cup Draining
          BY <3>5 DEF InBatch, Draining
        <4>3. Dead(d) => known
          BY <3>1, <4>2
        <4> HIDE DEF known, c
        <4> QED
          BY <3>5, <4>1, <4>3
      <3>6. \A o \in Origin \ {"none"} : pass[r].blocked[c] = "failed" => Block(r, o)[c] = "failed"
        BY <2>2, BlockFacts
      <3>7. CASE Defer(r)
        <4>1. PICK o \in Origin \ {"none"} : pass' = [pass EXCEPT ![r] = Advanced(r, Block(r, o))]
          BY <3>7 DEF Defer
        <4>2. UNCHANGED queue /\ pass[r].pc \in InBatch
          BY <3>7 DEF Defer, InBatch
        <4> QED
          BY <2>2, <3>2, <3>5, <3>6, <4>1, <4>2
      <3>8. CASE ApplyFails(r) \/ ApplyTransient(r)
        <4>1. pass' = [pass EXCEPT ![r] = Advanced(r, Block(r, "failed"))] /\ pass[r].pc = "apply"
          BY <3>8 DEF ApplyFails, ApplyTransient
        <4>2. Dead(d) \/ d = At(r)
          <5>1. CASE ApplyTransient(r)
            BY <3>2, <5>1 DEF ApplyTransient
          <5>2. CASE ApplyFails(r)
            BY <2>1, <2>3, <4>1, <5>2 DEF ApplyFails
          <5> QED
            BY <3>8, <5>1, <5>2
        <4>3. d = At(r) => Block(r, "failed")[c] = "failed"
          BY <2>1, <2>2, EntryFacts, BlockFacts
        <4> QED
          BY <2>2, <3>5, <3>6, <4>1, <4>2, <4>3 DEF InBatch
      <3>9. CASE MarkApplied(r)
        <4>1. pass' = [pass EXCEPT ![r] = Advanced(r, pass[r].blocked)] /\ pass[r].pc = "mark"
          BY <3>9 DEF MarkApplied
        <4>2. ASSUME NEW q \in Relay, ApplyFails(q) PROVE FALSE
          <5>1. pass[q].pc = "apply"
            BY <4>2 DEF ApplyFails
          <5> QED
            BY <2>3, <4>1, <5>1
        <4> QED
          BY <2>1, <2>2, <3>5, <4>1, <4>2 DEF InBatch
      <3>10. CASE RequeueHeld(r)
        <4>1. PICK i \in pass[r].only :
                 /\ Dead(i) /\ queue' = Requeued(i)
                 /\ pass' = [pass EXCEPT ![r].pc = "page",
                              ![r].parked = {queue[j].child : j \in {k \in Ids : Dead(k) /\ k # i}}]
          <5>1. pass' # [pass EXCEPT ![r] = Idle]
            BY DEF Idle, TypeOK, Draining
          <5> QED
            BY <3>10, <5>1 DEF RequeueHeld
        <4>2. i \in Ids
          BY DEF InQueue
        <4>3. pass'[r].parked = {queue[j].child : j \in {k \in Ids : Dead(k) /\ k # i}}
          BY <4>1 DEF TypeOK, Pass
        <4>4. d # i
          BY <2>0, <4>1, <4>2 DEF Requeued, Dead, TypeOK, Ids
        <4>5. ASSUME NEW q \in Relay, ApplyFails(q) PROVE FALSE
          <5>1. pass[q].pc = "apply" /\ pass[r].pc = "probe"
            BY <3>10, <4>5 DEF ApplyFails, RequeueHeld
          <5> QED
            BY <2>3, <5>1
        <4> QED
          BY <2>1, <2>2, <4>3, <4>4, <4>5
      <3> QED
        BY <2>7, <2>2, <3>3, <3>4, <3>7, <3>8, <3>9, <3>10 DEF Own, Step
    <2> QED
      BY <1>2, <2>2, <2>4, <2>5, <2>6, <2>7, PassStep
  <1> QED
    BY <1>1, <1>2

\* One relay applies nothing that attaches or moves under a plugged scope.
LEMMA ClearPlugs ==
  ASSUME TypeOK, InQueue, ClearAtHand, CensusCovers
  PROVE  ParkedPlugs
  <1> SUFFICES ASSUME Alone, NEW r \in Relay, pass[r].pc = "mark", queue[At(r)].op # "detached",
                      NEW d \in Ids, Dead(d)
               PROVE  queue[d].child \notin Keys(At(r))
    BY DEF ParkedPlugs
  <1>1. queue[d].child \in Scope
    BY EntryFacts
  <1>2. queue[d].child \in pass[r].parked \/ pass[r].blocked[queue[d].child] = "failed"
    BY DEF CensusCovers, Draining
  <1> QED
    BY <1>1, <1>2 DEF ClearAtHand

-----------------------------------------------------------------------------
(* What is held, unfolded: the least set of entries that wait for a parked *)
(* one, or behind one that does.                                           *)

Plugged(j) == \E d \in Ids : Dead(d) /\ queue[d].child \in Keys(j)

Waiting(j, H) == /\ Pending(j) /\ queue[j].op # "detached"
                 /\ Plugged(j) \/ \E k \in 1..(j - 1) : Touch(j, k) /\ k \in H

Behind(j, f) == /\ Pending(j) /\ queue[j].op # "detached"
                /\ Plugged(j) \/ \E k \in 1..(j - 1) : Touch(j, k) /\ f[k]

LEMMA HeldSet == \E H \in SUBSET Ids : \A j \in Ids : j \in H <=> Waiting(j, H)
  <1> DEFINE closed(S) == \A j \in Ids : Waiting(j, S) => j \in S
             H == {j \in Ids : \A S \in SUBSET Ids : closed(S) => j \in S}
  <1>1. ASSUME NEW j \in Ids, Waiting(j, H) PROVE j \in H
    <2> SUFFICES ASSUME NEW S \in SUBSET Ids, closed(S) PROVE j \in S
      OBVIOUS
    <2>1. H \subseteq S
      OBVIOUS
    <2>2. Waiting(j, S)
      BY <1>1, <2>1 DEF Waiting
    <2> QED
      BY <2>2
  <1>2. ASSUME NEW j \in H PROVE Waiting(j, H)
    <2> DEFINE G == {i \in H : Waiting(i, H)}
    <2>1. ASSUME NEW i \in Ids, Waiting(i, G) PROVE i \in G
      <3>1. Waiting(i, H)
        BY <2>1 DEF Waiting
      <3> QED
        BY <1>1, <3>1
    <2>2. G \in SUBSET Ids /\ closed(G)
      BY <2>1
    <2>3. j \in G
      BY <2>2
    <2> QED
      BY <2>3
  <1> HIDE DEF H
  <1>3. H \in SUBSET Ids
    BY DEF H
  <1> QED
    BY <1>1, <1>2, <1>3

LEMMA HeldUnfolds ==
  ASSUME Len(queue) \in Nat, NEW i \in Ids
  PROVE  Held(i) <=> /\ Pending(i) /\ queue[i].op # "detached"
                     /\ Plugged(i) \/ \E k \in 1..(i - 1) : Touch(i, k) /\ Held(k)
  <1>1. PICK H \in SUBSET Ids : \A j \in Ids : j \in H <=> Waiting(j, H)
    BY HeldSet
  <1> DEFINE f == [j \in Ids |-> j \in H]
             g == CHOOSE h : h = [j \in Ids |-> Behind(j, h)]
  <1>2. ASSUME NEW j \in Ids PROVE (j \in H) <=> Behind(j, f)
    <2>1. 1..(j - 1) \subseteq Ids
      BY DEF Ids
    <2> QED
      BY <1>1, <2>1 DEF Waiting, Behind
  <1>3. f = [j \in Ids |-> Behind(j, f)]
    <2>1. ASSUME NEW j \in Ids PROVE (j \in H) = Behind(j, f)
      <3> HIDE DEF f
      <3>1. CASE j \in H
        <4>1. Behind(j, f) = TRUE
          BY <1>2, <3>1 DEF Behind
        <4> QED
          BY <3>1, <4>1
      <3>2. CASE j \notin H
        <4>1. Behind(j, f) = FALSE
          BY <1>2, <3>2 DEF Behind
        <4>2. (j \in H) = FALSE
          BY <3>2
        <4> QED
          BY <4>1, <4>2
      <3> QED
        BY <3>1, <3>2
    <2>2. [j \in Ids |-> j \in H] = [j \in Ids |-> Behind(j, f)]
      <3> HIDE DEF f
      <3> QED
        BY <2>1, Zenon
    <2> QED
      BY <2>2
  <1>4. g = [j \in Ids |-> Behind(j, g)]
    BY <1>3
  <1>5. \A j : Held(j) = g[j]
    BY DEF Held, Behind, Plugged
  <1> HIDE DEF g, f
  <1>6. ASSUME NEW j \in Ids PROVE Held(j) = Behind(j, g)
    BY <1>4, <1>5
  <1> QED
    BY <1>5, <1>6 DEF Behind

-----------------------------------------------------------------------------
(* The probe of { only }, unfolded.                                        *)

LEMMA EarlierFacts ==
  ASSUME Len(queue) \in Nat, NEW i \in Ids
  PROVE  /\ Earlier(i) = 0 => \A j \in Ids : ~(j < i /\ Pending(j) /\ Touch(i, j))
         /\ Earlier(i) # 0 => /\ Earlier(i) \in Ids /\ Earlier(i) < i
                              /\ Pending(Earlier(i)) /\ Touch(i, Earlier(i))
                              /\ \A j \in Ids : j < i /\ Pending(j) /\ Touch(i, j) => Earlier(i) <= j
  <1> DEFINE before == {j \in Ids : j < i /\ Pending(j) /\ Touch(i, j)}
  <1>1. Earlier(i) = IF before = {} THEN 0 ELSE CHOOSE j \in before : \A k \in before : j <= k
    BY DEF Earlier
  <1>2. before \subseteq Nat /\ 0 \notin before
    BY DEF Ids
  <1>3. CASE before = {}
    BY <1>1, <1>3
  <1>4. CASE before # {}
    <2>1. \E j \in before : \A k \in before : j <= k
      BY <1>2, <1>4, LeastOf
    <2>2. Earlier(i) \in before /\ \A k \in before : Earlier(i) <= k
      <3> HIDE DEF before
      <3> QED
        BY <1>1, <1>4, <2>1
    <2> QED
      BY <1>2, <2>2
  <1> QED
    BY <1>3, <1>4

Hit(r, j, o) == \E k \in Keys(j) : pass[r].blocked[k] = o

Plugs(r, j) == /\ queue[j].op # "detached"
               /\ Hit(r, j, "parked") \/ Keys(j) \cap pass[r].parked # {}

Reasons == {"failed", "pending", "parked"}

Why(r, j, f) == IF Hit(r, j, "failed") THEN "failed"
                ELSE IF Hit(r, j, "pending") THEN "pending"
                ELSE IF Plugs(r, j) THEN "parked"
                ELSE IF Earlier(j) = 0 THEN "pending"
                ELSE f[Earlier(j)]

LEMMA WhyFunction ==
  ASSUME Len(queue) \in Nat, NEW r
  PROVE  \E f : f = [j \in Ids |-> Why(r, j, f)]
  <1> DEFINE good(n) == \E f \in [1..n -> Reasons] : \A j \in 1..n : f[j] = Why(r, j, f)
             bad == {n \in 0..Len(queue) : ~good(n)}
  <1>1. bad = {}
    <2> SUFFICES ASSUME bad # {} PROVE FALSE
      OBVIOUS
    <2>0. bad \subseteq Nat
      OBVIOUS
    <2>1. PICK n \in bad : \A m \in bad : n <= m
      <3> HIDE DEF bad
      <3> QED
        BY <2>0, LeastOf
    <2>2. n # 0
      <3>1. \A j \in 1..0 : FALSE
        OBVIOUS
      <3>2. [j \in 1..0 |-> "failed"] \in [1..0 -> Reasons]
        BY DEF Reasons
      <3>3. good(0)
        BY <3>1, <3>2
      <3> QED
        BY <2>1, <3>3
    <2>3. n \in Ids /\ n - 1 \in 0..Len(queue) /\ good(n - 1)
      <3> HIDE DEF good
      <3>1. n \in Ids /\ n - 1 \in 0..Len(queue)
        BY <2>2 DEF Ids
      <3>2. n - 1 \notin bad
        <4> HIDE DEF bad
        <4> QED
          BY <2>0, <2>1, <3>1
      <3> QED
        BY <3>1, <3>2
    <2>4. PICK f \in [1..(n - 1) -> Reasons] : \A j \in 1..(n - 1) : f[j] = Why(r, j, f)
      BY <2>3
    <2> DEFINE g == [j \in 1..n |-> IF j < n THEN f[j] ELSE Why(r, n, f)]
    <2>5. \A j \in 1..n : Earlier(j) # 0 => Earlier(j) \in 1..(n - 1)
      BY <2>3, EarlierFacts DEF Ids
    <2>6. Why(r, n, f) \in Reasons
      BY <2>3, <2>5 DEF Why, Reasons
    <2>7. g \in [1..n -> Reasons]
      <3>1. ASSUME NEW j \in 1..n, j < n PROVE f[j] \in Reasons
        BY <2>3, <3>1 DEF Ids
      <3> QED
        BY <2>6, <3>1
    <2>8. \A j \in 1..(n - 1) : g[j] = f[j]
      BY <2>3 DEF Ids
    <2>9. \A j \in 1..n : g[j] = Why(r, j, f)
      BY <2>3, <2>4 DEF Ids
    <2>10. \A j \in 1..n : Why(r, j, g) = Why(r, j, f)
      <3> HIDE DEF g
      <3> QED
        BY <2>5, <2>8 DEF Why
    <2>11. good(n)
      <3> HIDE DEF g
      <3> QED
        BY <2>7, <2>9, <2>10
    <2> QED
      BY <2>1, <2>11
  <1>2. good(Len(queue))
    BY <1>1
  <1>3. PICK f \in [Ids -> Reasons] : \A j \in Ids : f[j] = Why(r, j, f)
    BY <1>2 DEF Ids
  <1>4. f = [j \in Ids |-> Why(r, j, f)]
    BY <1>3
  <1> QED
    BY <1>4

LEMMA OriginUnfolds ==
  ASSUME Len(queue) \in Nat, NEW r, NEW i \in Ids
  PROVE  OriginOf(r, i) = IF Hit(r, i, "failed") THEN "failed"
                          ELSE IF Hit(r, i, "pending") THEN "pending"
                          ELSE IF Plugs(r, i) THEN "parked"
                          ELSE IF Earlier(i) = 0 THEN "pending"
                          ELSE OriginOf(r, Earlier(i))
  <1> DEFINE g == CHOOSE f : f = [j \in Ids |-> Why(r, j, f)]
  <1>1. g = [j \in Ids |-> Why(r, j, g)]
    BY WhyFunction
  <1>2. \A j : OriginOf(r, j) = g[j]
    BY DEF OriginOf, Why, Hit, Plugs
  <1> HIDE DEF g
  <1>3. OriginOf(r, i) = Why(r, i, g)
    BY <1>1, <1>2
  <1> QED
    BY <1>2, <1>3 DEF Why

\* What was not asked for always has a reason to wait.
LEMMA OriginIsReason ==
  ASSUME Len(queue) \in Nat, NEW r, NEW i \in Ids
  PROVE  OriginOf(r, i) \in Reasons
  <1> DEFINE bad == {n \in Ids : OriginOf(r, n) \notin Reasons}
  <1> SUFFICES ASSUME bad # {} PROVE FALSE
    OBVIOUS
  <1>1. bad \subseteq Nat
    BY DEF Ids
  <1>2. PICK n \in bad : \A m \in bad : n <= m
    BY <1>1, LeastOf
  <1>3. Earlier(n) # 0 => Earlier(n) \in Ids /\ Earlier(n) < n
    BY EarlierFacts
  <1>4. Earlier(n) # 0 => OriginOf(r, Earlier(n)) \in Reasons
    BY <1>1, <1>2, <1>3
  <1> QED
    BY <1>4, OriginUnfolds DEF Reasons

-----------------------------------------------------------------------------
(* The order of the queue, for changes that commit in turn and are not     *)
(* requeued, and passes that are kept apart.                               *)

\* What every plan keeps.
Ground == RelayInv /\ NotYet /\ Shut /\ Hung /\ Requeues

InSeries == Serial /\ Apart

AnyDead == \E d \in Ids : Dead(d)

\* Who waits for a parked entry; a pass that is asked for several knows no better
\* than that there is one.
Stuck(j) == IF plan.several THEN Pending(j) /\ AnyDead ELSE Held(j)

LastOpen == ~plan.overlap => \A i \in Ids : queue[i].state = "open" => i = Len(queue)

CensusTrue ==
    InSeries => \A r \in Relay : \A k \in pass[r].parked :
        \E d \in Ids : Dead(d) /\ queue[d].child = k

\* What a batch leaves out is younger.
BatchFirst(r) ==
    pass[r].pc \in InBatch =>
        /\ pass[r].batch \subseteq Due(r)
        /\ \A i \in pass[r].batch, j \in Due(r) \ pass[r].batch : i < j

\* What a pass has been through was no longer open.
Seen(r) == /\ pass[r].after \in {0} \cup Ids
           /\ \A j \in Ids : j <= pass[r].after => queue[j].state # "open"

\* The keys of j are blocked: for good, or for a parked entry that holds j.
Blocks(r, j) ==
    \/ \A k \in Keys(j) \cap Scope : pass[r].blocked[k] \in {"pending", "failed"}
    \/ Stuck(j) /\ \A k \in Keys(j) \cap Scope : pass[r].blocked[k] # "none"

\* A pass of everything has blocked the keys of whatever it left behind.
Passed(r) == pass[r].only = {} => \A j \in Ids : j <= pass[r].after /\ Pending(j) => Blocks(r, j)

BlockedTrue(r) ==
    \A k \in Scope : pass[r].blocked[k] = "parked" =>
        \E j \in Ids : j <= pass[r].after /\ Stuck(j) /\ k \in Keys(j)

\* A pass of one entry blocks nothing before it is through.
Solo(r) ==
    ~plan.several =>
        /\ \A i, j \in pass[r].only : i = j
        /\ pass[r].only # {} =>
              \/ pass[r].blocked = [s \in Scope |-> "none"]
              \/ pass[r].pc = "page" /\ \A i \in pass[r].only : i <= pass[r].after

\* What is applied is in turn, but for a purge.
Turn(r) ==
    \A j \in 1..(At(r) - 1) : (Pending(j) /\ Touch(j, At(r))) =>
        /\ queue[At(r)].op = "detached"
        /\ \/ Stuck(j)
           \/ /\ pass[r].only # {} /\ queue[j].op = "detached"
              /\ \E k \in 1..(j - 1) : Stuck(k) /\ Touch(k, j)

InTurn(r) == pass[r].pc \in {"apply", "mark"} => Turn(r)

Ready(r) == BatchFirst(r) /\ Seen(r) /\ Passed(r) /\ BlockedTrue(r) /\ Solo(r) /\ InTurn(r)

\* A pass that waits for the lease has blocked nothing.
Fresh(r) ==
    pass[r].pc = "lease" =>
        /\ pass[r].after = 0 /\ pass[r].blocked = [s \in Scope |-> "none"]
        /\ ~plan.several => \A i, j \in pass[r].only : i = j

PassesReady ==
    InSeries => \A r \in Relay : Fresh(r) /\ (pass[r].pc \in Draining => Ready(r))

LEMMA GroundStep == Ground /\ [Next]_vars => Ground'
  BY StepInv, StepNotYet, StepShut, StepHung, StepRequeues DEF Ground, RelayInv

LEMMA GroundFacts ==
  ASSUME Ground
  PROVE  /\ TypeOK /\ InQueue /\ Outsiders /\ NotYet
         /\ Len(queue) \in Nat
         /\ Apart => BatchWaits /\ Exclusive
  BY PassesApart DEF Ground, RelayInv, TypeOK, Apart, Separate

LEMMA StepLastOpen ==
  ASSUME Ground, LastOpen, [Next]_vars
  PROVE  LastOpen'
  <1>0. CASE UNCHANGED vars
    BY <1>0 DEF vars, LastOpen, Ids
  <1>1. CASE Next
    <2>0. UNCHANGED plan
      BY <1>1 DEF Next
    <2> SUFFICES ASSUME ~plan.overlap, NEW i \in Ids', queue'[i].state = "open"
                 PROVE  i = Len(queue')
      BY <2>0 DEF LastOpen
    <2>1. CASE i \notin Ids
      BY <2>1, NewEntry, GroundFacts DEF Ids
    <2>2. CASE i \in Ids
      <3>1. queue[i].state = "open"
        BY <1>1, <2>2, EntryStep, GroundFacts DEF Turns, Counts
      <3>2. i = Len(queue)
        BY <2>2, <3>1 DEF LastOpen
      <3>3. ASSUME NEW op, NEW c, NEW p, Notify(op, c, p) PROVE FALSE
        BY <2>2, <3>1, <3>3 DEF Notify
      <3> QED
        BY <3>2, <3>3, NewEntry, GroundFacts
    <2> QED
      BY <2>1, <2>2
  <1> QED
    BY <1>0, <1>1

\* With nothing requeued, an entry that waits ends in the hands of a pass only.
LEMMA SerialEntry ==
  ASSUME Ground, InSeries, Next, NEW i \in Ids
  PROVE  \/ queue'[i] = queue[i]
         \/ queue[i].state = "open" /\ ((Commit(i) /\ Turns(i, "queued")) \/ Turns(i, "void"))
         \/ \E r \in Relay : MarkApplied(r) /\ i = At(r) /\ Pending(i) /\ Turns(i, "applied")
         \/ \E r \in Relay : ApplyFails(r) /\ i = At(r) /\ Pending(i) /\ Counts(i, queue[i].attempts + 1)
  <1>1. ticket = 0 /\ \A r \in Relay : pass[r].pc # "probe"
    BY DEF Ground, Requeues, InSeries, Serial
  <1>2. ASSUME NEW r \in Relay, MarkApplied(r) \/ ApplyFails(r), i = At(r) PROVE Pending(i)
    <2>1. pass[r].pc \in InBatch
      BY <1>2 DEF MarkApplied, ApplyFails, InBatch
    <2> QED
      BY <1>2, <2>1, InHand, GroundFacts DEF BatchWaits, InSeries
  <1> QED
    BY <1>1, <1>2, EntryStep, GroundFacts DEF Pending

LEMMA DeadStays ==
  ASSUME Ground, InSeries, [Next]_vars, NEW d \in Ids, Dead(d)
  PROVE  d \in Ids' /\ Dead(d)'
  <1>1. CASE UNCHANGED vars
    BY <1>1 DEF vars, Ids, Dead
  <1>2. CASE Next
    <2>1. d \in Ids' /\ UNCHANGED plan
      BY <1>2, NewEntry, GroundFacts DEF Ids, Next
    <2>2. queue'[d] = queue[d]
      <3>1. ~Pending(d) /\ queue[d].state # "open"
        BY EntryFacts, GroundFacts DEF Dead, Pending
      <3> QED
        BY <1>2, <3>1, SerialEntry
    <2> QED
      BY <2>1, <2>2 DEF Dead
  <1> QED
    BY <1>1, <1>2

\* What becomes of the queue while r drains it.
LEMMA Onward ==
  ASSUME Ground, LastOpen, InSeries, [Next]_vars, NEW r \in Relay, pass[r].pc \in Draining
  PROVE  /\ Ids \subseteq Ids' /\ UNCHANGED plan /\ Len(queue) \in Nat /\ Len(queue') \in Nat
         /\ \A i \in Ids : Same(i) /\ Keys(i)' = Keys(i)
         /\ \A i \in Ids : Pending(i) =>
               Pending(i)' \/ (i = At(r) /\ (MarkApplied(r) \/ ApplyFails(r)))
         /\ \A i \in Ids' : Pending(i)' =>
               i \in Ids /\ (Pending(i) \/ (i = Len(queue) /\ queue[i].state = "open"))
         /\ \A i \in Ids : queue[i].state # "open" => queue'[i].state # "open"
         /\ \A i \in Ids' : queue'[i].state = "open" => i = Len(queue')
  <1>1. /\ Ids \subseteq Ids' /\ UNCHANGED plan /\ Len(queue) \in Nat /\ Len(queue') \in Nat
        /\ plan.attempts \in Nat \ {0}
    BY NewEntry, GroundFacts DEF Ids, Next, vars, TypeOK
  <1>2. \A i \in Ids : Same(i) /\ Keys(i)' = Keys(i)
    BY SameEntry, SameKeys, GroundFacts
  <1>3. \A i \in Ids' : queue'[i].state = "open" => i = Len(queue')
    BY <1>1, StepLastOpen DEF LastOpen, InSeries, Serial
  <1>4. ASSUME NEW i \in Ids' PROVE i \in Ids \/ queue'[i].state = "open"
    BY NewEntry, GroundFacts DEF Ids
  <1>5. ASSUME NEW q \in Relay, MarkApplied(q) \/ ApplyFails(q) PROVE q = r
    <2>1. pass[q].pc \in Holding /\ pass[r].pc \in Holding
      BY <1>5 DEF MarkApplied, ApplyFails, Holding, Draining
    <2> QED
      BY <2>1, GroundFacts DEF Exclusive, InSeries
  <1>6. CASE UNCHANGED vars
    BY <1>1, <1>2, <1>3, <1>6 DEF vars, Pending, Ids
  <1>7. CASE Next
    <2> SUFFICES ASSUME NEW i \in Ids
                 PROVE  /\ Pending(i) => Pending(i)' \/ (i = At(r) /\ (MarkApplied(r) \/ ApplyFails(r)))
                        /\ Pending(i)' => Pending(i) \/ queue[i].state = "open"
                        /\ queue[i].state # "open" => queue'[i].state # "open"
      BY <1>1, <1>2, <1>3, <1>4 DEF Pending, LastOpen, InSeries, Serial
    <2>1. CASE queue'[i] = queue[i]
      BY <1>1, <2>1 DEF Pending
    <2>2. CASE queue[i].state = "open" /\ (Turns(i, "queued") \/ Turns(i, "void"))
      BY <2>2 DEF Pending
    <2>3. CASE \E q \in Relay : MarkApplied(q) /\ i = At(q) /\ Pending(i) /\ Turns(i, "applied")
      BY <1>5, <2>3 DEF Turns
    <2>4. CASE \E q \in Relay : ApplyFails(q) /\ i = At(q) /\ Pending(i) /\ Counts(i, queue[i].attempts + 1)
      BY <1>5, <2>4 DEF Counts
    <2> QED
      BY <1>7, <2>1, <2>2, <2>3, <2>4, SerialEntry
  <1> QED
    BY <1>6, <1>7

\* The same in the state after a step.
LEMMA HeldUnfoldsAll ==
  Len(queue) \in Nat =>
    \A i \in Ids : Held(i) <=> /\ Pending(i) /\ queue[i].op # "detached"
                               /\ Plugged(i) \/ \E k \in 1..(i - 1) : Touch(i, k) /\ Held(k)
  BY HeldUnfolds

LEMMA HeldUnfoldsNext ==
  (Len(queue) \in Nat =>
    \A i \in Ids : Held(i) <=> /\ Pending(i) /\ queue[i].op # "detached"
                               /\ Plugged(i) \/ \E k \in 1..(i - 1) : Touch(i, k) /\ Held(k))'
  BY HeldUnfoldsAll, PTL

LEMMA StuckFacts ==
  ASSUME Ground, NEW j \in Ids
  PROVE  /\ Stuck(j) => (Pending(j) /\ AnyDead) \/ Held(j)
         /\ Held(j) => Pending(j) /\ queue[j].op # "detached"
         /\ Stuck(j) => Pending(j)
  BY HeldUnfolds, GroundFacts DEF Stuck

\* A parked entry is what everybody waits for.
LEMMA HeldByDead ==
  ASSUME Ground, NEW j \in Ids, Held(j)
  PROVE  AnyDead
  <1> DEFINE bad == {i \in Ids : Held(i) /\ ~AnyDead}
  <1> SUFFICES ASSUME bad # {} PROVE FALSE
    OBVIOUS
  <1>1. bad \subseteq Nat
    BY DEF Ids
  <1>2. PICK n \in bad : \A m \in bad : n <= m
    <2> HIDE DEF bad
    <2> QED
      BY <1>1, LeastOf
  <1>3. Plugged(n) \/ \E k \in 1..(n - 1) : Touch(n, k) /\ Held(k)
    BY <1>2, HeldUnfolds, GroundFacts
  <1>4. PICK k \in 1..(n - 1) : Touch(n, k) /\ Held(k)
    BY <1>2, <1>3 DEF Plugged, AnyDead
  <1>5. k \in Ids /\ k < n
    BY GroundFacts DEF Ids
  <1> QED
    BY <1>1, <1>2, <1>4, <1>5

LEMMA StuckBehind ==
  ASSUME Ground, NEW j \in Ids, NEW k \in Ids, k < j, Pending(j), queue[j].op # "detached",
         Touch(j, k), Stuck(k)
  PROVE  Stuck(j)
  <1>1. k \in 1..(j - 1)
    BY GroundFacts DEF Ids
  <1> QED
    BY <1>1, HeldUnfolds, GroundFacts DEF Stuck

LEMMA StuckPlugged ==
  ASSUME Ground, NEW j \in Ids, Pending(j), queue[j].op # "detached",
         NEW d \in Ids, Dead(d), queue[d].child \in Keys(j)
  PROVE  Stuck(j)
  BY HeldUnfolds, GroundFacts DEF Stuck, Plugged, AnyDead

\* Who is held stays so as long as nobody up to him ends.
LEMMA HeldStays ==
  ASSUME Ground, InSeries, [Next]_vars, NEW j \in Ids, Held(j),
         \A k \in 1..j : Held(k) => Pending(k)'
  PROVE  Held(j)'
  <1> DEFINE bad == {i \in 1..j : Held(i) /\ ~Held(i)'}
  <1> SUFFICES ASSUME bad # {} PROVE FALSE
    <2>1. j \in 1..j
      BY DEF Ids
    <2> QED
      BY <2>1
  <1>1. bad \subseteq Nat
    OBVIOUS
  <1>2. PICK n \in bad : \A m \in bad : n <= m
    <2> HIDE DEF bad
    <2> QED
      BY <1>1, LeastOf
  <1>3. n \in Ids /\ n \in 1..j
    BY <1>2, GroundFacts DEF Ids
  <1>4. /\ Pending(n) /\ queue[n].op # "detached"
        /\ Plugged(n) \/ \E k \in 1..(n - 1) : Touch(n, k) /\ Held(k)
    BY <1>2, <1>3, HeldUnfolds, GroundFacts
  <1>5. /\ Ids \subseteq Ids' /\ Len(queue') \in Nat
        /\ \A i \in Ids : Same(i) /\ Keys(i)' = Keys(i)
    BY NewEntry, GroundFacts, SameEntry, SameKeys DEF Ids, Next, vars
  <1>6. Pending(n)' /\ queue'[n].op # "detached"
    BY <1>2, <1>3, <1>4, <1>5 DEF Same
  <1>7. Plugged(n) => Plugged(n)'
    <2> SUFFICES ASSUME NEW d \in Ids, Dead(d), queue[d].child \in Keys(n) PROVE Plugged(n)'
      BY DEF Plugged
    <2>1. d \in Ids' /\ Dead(d)'
      BY DeadStays
    <2>2. queue'[d].child \in Keys(n)'
      BY <1>3, <1>5 DEF Same
    <2> QED
      BY <2>1, <2>2 DEF Plugged
  <1>8. ASSUME NEW k \in 1..(n - 1), Touch(n, k), Held(k) PROVE Touch(n, k)' /\ Held(k)'
    <2>1. k \in Ids /\ k \in 1..j /\ k < n
      BY <1>3, GroundFacts DEF Ids
    <2>2. Held(k)'
      BY <1>1, <1>2, <1>8, <2>1
    <2> QED
      BY <1>3, <1>5, <1>8, <2>1, <2>2 DEF Touch
  <1>9. Held(n)'
    BY <1>3, <1>4, <1>5, <1>6, <1>7, <1>8, HeldUnfoldsNext
  <1> QED
    BY <1>2, <1>9

LEMMA StuckStays ==
  ASSUME Ground, InSeries, [Next]_vars, NEW j \in Ids, Stuck(j),
         \A k \in 1..j : Pending(k) => Pending(k)'
  PROVE  Stuck(j)'
  <1>1. UNCHANGED plan
    BY DEF Next, vars
  <1>2. CASE plan.several
    <2>1. Pending(j)'
      <3>1. j \in 1..j
        BY DEF Ids
      <3> QED
        BY <1>2, <3>1 DEF Stuck
    <2>2. AnyDead'
      BY <1>2, DeadStays DEF Stuck, AnyDead
    <2> QED
      BY <1>1, <1>2, <2>1, <2>2 DEF Stuck
  <1>3. CASE ~plan.several
    <2>1. \A k \in 1..j : k \in Ids
      BY GroundFacts DEF Ids
    <2>2. \A k \in 1..j : Held(k) => Pending(k)'
      BY <2>1, StuckFacts
    <2> QED
      BY <1>1, <1>3, <2>2, HeldStays DEF Stuck
  <1> QED
    BY <1>2, <1>3

\* A pass that does not move on from its place in the queue.
LEMMA PlaceKept ==
  ASSUME Ground, LastOpen, InSeries, [Next]_vars, NEW r \in Relay, pass[r].pc \in Draining,
         Seen(r), Passed(r), BlockedTrue(r), Kept(r), ~MarkApplied(r), ~ApplyFails(r)
  PROVE  /\ Seen(r)' /\ Passed(r)' /\ BlockedTrue(r)'
         /\ \A j \in Ids : Stuck(j) => Stuck(j)'
  <1>0. /\ Ids \subseteq Ids' /\ Len(queue) \in Nat /\ Len(queue') \in Nat
        /\ \A i \in Ids : Keys(i)' = Keys(i)
        /\ \A i \in Ids : Pending(i) => Pending(i)'
        /\ \A i \in Ids' : Pending(i)' => i \in Ids /\ (Pending(i) \/ queue[i].state = "open")
        /\ \A i \in Ids : queue[i].state # "open" => queue'[i].state # "open"
    BY Onward
  <1>1. /\ pass'[r].only = pass[r].only /\ pass'[r].blocked = pass[r].blocked
        /\ pass'[r].after = pass[r].after
    BY DEF Kept
  <1>2. \A j \in Ids : Stuck(j) => Stuck(j)'
    <2> SUFFICES ASSUME NEW j \in Ids, Stuck(j) PROVE Stuck(j)'
      OBVIOUS
    <2>1. \A k \in 1..j : Pending(k) => Pending(k)'
      BY <1>0 DEF Ids
    <2> QED
      BY <2>1, StuckStays
  <1>3. \A j \in Ids' : j <= pass[r].after => j \in Ids
    BY <1>0 DEF Seen, Ids
  <1>4. Seen(r)'
    BY <1>0, <1>1, <1>3 DEF Seen
  <1>5. Passed(r)'
    <2> SUFFICES ASSUME pass[r].only = {}, NEW j \in Ids', j <= pass[r].after, Pending(j)'
                 PROVE  Blocks(r, j)'
      BY <1>1 DEF Passed
    <2>1. j \in Ids /\ Pending(j)
      BY <1>0, <1>3 DEF Seen
    <2>2. Blocks(r, j)
      BY <2>1 DEF Passed
    <2> QED
      BY <1>0, <1>1, <1>2, <2>1, <2>2 DEF Blocks
  <1>6. BlockedTrue(r)'
    BY <1>0, <1>1, <1>2 DEF BlockedTrue
  <1> QED
    BY <1>2, <1>4, <1>5, <1>6

LEMMA BatchKept ==
  ASSUME Ground, LastOpen, InSeries, [Next]_vars, NEW r \in Relay, pass[r].pc \in InBatch,
         BatchFirst(r), Kept(r), pass'[r].batch = pass[r].batch, ~MarkApplied(r), ~ApplyFails(r)
  PROVE  BatchFirst(r)'
  <1>0. pass[r].pc \in Draining
    BY DEF InBatch, Draining
  <1>1. /\ Ids \subseteq Ids' /\ Len(queue) \in Nat
        /\ \A i \in Ids : Pending(i) => Pending(i)'
        /\ \A i \in Ids' : Pending(i)' =>
              i \in Ids /\ (Pending(i) \/ (i = Len(queue) /\ queue[i].state = "open"))
    BY <1>0, Onward
  <1>2. pass'[r].only = pass[r].only /\ pass'[r].after = pass[r].after
    BY DEF Kept
  <1>3. \A i \in pass[r].batch :
           i \in Ids /\ Pending(i) /\ i > pass[r].after /\ (pass[r].only = {} \/ i \in pass[r].only)
    BY DEF BatchFirst, Due
  <1>4. pass'[r].batch \subseteq Due(r)'
    BY <1>1, <1>2, <1>3 DEF Due
  <1>5. ASSUME NEW i \in pass[r].batch, NEW j \in Due(r)', j \notin pass[r].batch PROVE i < j
    <2>1. j \in Ids' /\ Pending(j)' /\ j > pass[r].after /\ (pass[r].only = {} \/ j \in pass[r].only)
      BY <1>2, <1>5 DEF Due
    <2>2. CASE Pending(j)
      <3>1. j \in Due(r)
        BY <1>1, <2>1, <2>2 DEF Due
      <3> QED
        BY <1>5, <3>1 DEF BatchFirst
    <2>3. CASE j = Len(queue)
      BY <1>1, <1>3, <1>5, <2>3 DEF Ids
    <2> QED
      BY <1>1, <2>1, <2>2, <2>3
  <1> QED
    BY <1>4, <1>5 DEF BatchFirst

LEMMA TurnKept ==
  ASSUME Ground, LastOpen, InSeries, [Next]_vars, NEW r \in Relay, pass[r].pc \in InBatch,
         Turn(r), Kept(r), pass'[r].batch = pass[r].batch, ~MarkApplied(r), ~ApplyFails(r),
         \A j \in Ids : Stuck(j) => Stuck(j)'
  PROVE  Turn(r)'
  <1>0. pass[r].pc \in Draining /\ At(r)' = At(r) /\ At(r) \in Ids
    BY SameAt, InHand, GroundFacts DEF InBatch, Draining
  <1>1. /\ Ids \subseteq Ids' /\ Len(queue) \in Nat
        /\ \A i \in Ids : Same(i) /\ Keys(i)' = Keys(i)
        /\ \A i \in Ids' : Pending(i)' => Pending(i) \/ i = Len(queue)
    BY <1>0, Onward
  <1>2. pass'[r].only = pass[r].only
    BY DEF Kept
  <1>3. \A j \in 1..(At(r) - 1) : j \in Ids /\ j \in Ids' /\ j # Len(queue) /\ j < At(r)
    BY <1>0, <1>1 DEF Ids
  <1> SUFFICES ASSUME NEW j \in 1..(At(r) - 1), Pending(j)', Touch(j, At(r))'
               PROVE  /\ queue'[At(r)].op = "detached"
                      /\ \/ Stuck(j)'
                         \/ /\ pass'[r].only # {} /\ queue'[j].op = "detached"
                            /\ \E k \in 1..(j - 1) : Stuck(k)' /\ Touch(k, j)'
    BY <1>0 DEF Turn
  <1>4. Pending(j) /\ Touch(j, At(r))
    BY <1>0, <1>1, <1>3 DEF Touch
  <1>5. \A k \in 1..(j - 1) : k \in Ids /\ (Touch(k, j) => Touch(k, j)')
    BY <1>0, <1>1, <1>3 DEF Touch, Ids
  <1>6. /\ queue[At(r)].op = "detached"
        /\ \/ Stuck(j)
           \/ /\ pass[r].only # {} /\ queue[j].op = "detached"
              /\ \E k \in 1..(j - 1) : Stuck(k) /\ Touch(k, j)
    BY <1>4 DEF Turn
  <1> QED
    BY <1>0, <1>1, <1>2, <1>3, <1>5, <1>6 DEF Same

LEMMA KeysAreScopes ==
  ASSUME Ground, NEW i \in Ids
  PROVE  Keys(i) \subseteq Scope
  <1>1. queue[i].child \in Scope /\ queue[i].parent \in Node
    BY EntryFacts, GroundFacts
  <1>2. queue[i].op # "detached" => queue[i].parent # NoScope
    BY DEF Ground, Hung
  <1> QED
    BY <1>1, <1>2 DEF Keys, Node

\* The oldest entry ahead of one that waits for a parked entry is no purge: the
\* scope a purge names has an older entry still.
LEMMA AheadIsNoPurge ==
  ASSUME Ground, NEW r \in Relay, pass[r].blocked = [s \in Scope |-> "none"],
         NEW i \in Ids, Earlier(i) # 0, OriginOf(r, Earlier(i)) = "parked"
  PROVE  queue[Earlier(i)].op # "detached"
  <1> SUFFICES ASSUME queue[Earlier(i)].op = "detached" PROVE FALSE
    OBVIOUS
  <1> DEFINE e == Earlier(i)
  <1>0. Len(queue) \in Nat
    BY GroundFacts
  <1>1. /\ e \in Ids /\ e < i /\ Touch(i, e)
        /\ \A j \in Ids : j < i /\ Pending(j) /\ Touch(i, j) => e <= j
    BY <1>0, EarlierFacts
  <1>2. Keys(e) = {queue[e].child} /\ queue[e].child \in Scope
    BY <1>1, EntryFacts, GroundFacts DEF Keys
  <1>3. Earlier(e) # 0
    BY <1>0, <1>1, <1>2, OriginUnfolds DEF Hit, Plugs
  <1>4. Earlier(e) \in Ids /\ Earlier(e) < e /\ Pending(Earlier(e)) /\ Touch(e, Earlier(e))
    BY <1>0, <1>1, <1>3, EarlierFacts
  <1>5. Touch(i, Earlier(e))
    BY <1>1, <1>2, <1>4 DEF Touch
  <1> HIDE DEF e
  <1> QED
    BY <1>0, <1>1, <1>4, <1>5 DEF Ids

\* A reason to wait for a parked entry is one.
LEMMA OriginParked ==
  ASSUME Ground, InSeries, CensusTrue, NEW r \in Relay, BlockedTrue(r),
         plan.several \/ pass[r].blocked = [s \in Scope |-> "none"],
         NEW i \in Ids, Pending(i), queue[i].op # "detached" \/ plan.several,
         OriginOf(r, i) = "parked"
  PROVE  Stuck(i)
  <1> DEFINE bad == {n \in Ids : /\ Pending(n) /\ (queue[n].op # "detached" \/ plan.several)
                                 /\ OriginOf(r, n) = "parked" /\ ~Stuck(n)}
  <1> SUFFICES ASSUME bad # {} PROVE FALSE
    OBVIOUS
  <1>1. bad \subseteq Nat
    BY DEF Ids
  <1>2. PICK n \in bad : \A m \in bad : n <= m
    <2> HIDE DEF bad
    <2> QED
      BY <1>1, LeastOf
  <1>3. /\ n \in Ids /\ Pending(n) /\ (queue[n].op # "detached" \/ plan.several)
        /\ OriginOf(r, n) = "parked" /\ ~Stuck(n)
    BY <1>2
  <1>4. n \in Nat /\ Len(queue) \in Nat /\ Keys(n) \subseteq Scope
    BY <1>3, KeysAreScopes, GroundFacts DEF Ids
  <1>5. \A k \in pass[r].parked : \E d \in Ids : Dead(d) /\ queue[d].child = k
    BY DEF CensusTrue
  <1>6. ~Plugs(r, n)
    <2> SUFFICES ASSUME Plugs(r, n) PROVE FALSE
      OBVIOUS
    <2>1. CASE plan.several
      <3>1. ~AnyDead
        BY <1>3, <2>1 DEF Stuck
      <3>2. PICK k \in Keys(n) : pass[r].blocked[k] = "parked" \/ k \in pass[r].parked
        BY DEF Plugs, Hit
      <3>3. k \in Scope
        BY <1>4
      <3> QED
        BY <1>5, <2>1, <3>1, <3>2, <3>3 DEF BlockedTrue, Stuck, AnyDead
    <2>2. CASE ~plan.several
      <3>1. PICK k \in Keys(n) : k \in pass[r].parked
        BY <1>4, <2>2 DEF Plugs, Hit
      <3> QED
        BY <1>3, <1>5, <2>2, <3>1, StuckPlugged
    <2> QED
      BY <2>1, <2>2
  <1> DEFINE e == Earlier(n)
  <1>7. e # 0 /\ OriginOf(r, e) = "parked"
    BY <1>3, <1>4, <1>6, OriginUnfolds
  <1>8. e \in Ids /\ e < n /\ Pending(e) /\ Touch(n, e)
    BY <1>3, <1>4, <1>7, EarlierFacts
  <1>9. queue[e].op # "detached" \/ plan.several
    BY <1>3, <1>7, AheadIsNoPurge
  <1>10. Stuck(e)
    <2> HIDE DEF e
    <2>1. e \notin bad
      <3> HIDE DEF bad
      <3> QED
        BY <1>1, <1>2, <1>4, <1>8 DEF Ids
    <2> QED
      BY <1>7, <1>8, <1>9, <2>1
  <1>11. CASE plan.several
    BY <1>3, <1>10, <1>11 DEF Stuck
  <1>12. CASE ~plan.several
    <2> HIDE DEF e
    <2> QED
      BY <1>3, <1>8, <1>10, <1>12, StuckBehind
  <1> QED
    BY <1>11, <1>12

\* The entry at hand.
LEMMA AtFacts ==
  ASSUME Ground, InSeries, NEW r \in Relay, pass[r].pc \in InBatch, BatchFirst(r)
  PROVE  /\ At(r) \in pass[r].batch /\ At(r) \in Ids /\ Pending(At(r)) /\ At(r) > pass[r].after
         /\ pass[r].only = {} \/ At(r) \in pass[r].only
         /\ pass[r].batch \subseteq Ids
         /\ \A i \in pass[r].batch : At(r) <= i
         /\ Keys(At(r)) \subseteq Scope
         /\ pass[r].after \in Nat
  <1>1. pass[r].batch # {} /\ pass[r].batch \subseteq Due(r) /\ At(r) \in pass[r].batch
    BY InHand, GroundFacts DEF BatchFirst
  <1>2. pass[r].batch \subseteq Nat /\ pass[r].after \in Nat
    BY GroundFacts DEF TypeOK, Pass
  <1>3. \A i \in pass[r].batch : At(r) <= i
    BY <1>1, <1>2, LeastOf DEF At
  <1> QED
    BY <1>1, <1>2, <1>3, KeysAreScopes DEF Due

\* What is pending before the entry at hand, a pass of everything left behind.
LEMMA LeftBehind ==
  ASSUME Ground, InSeries, NEW r \in Relay, pass[r].pc \in InBatch, BatchFirst(r), Passed(r),
         pass[r].only = {}, NEW j \in Ids, j < At(r), Pending(j)
  PROVE  j <= pass[r].after /\ Blocks(r, j)
  <1>1. /\ At(r) \in pass[r].batch /\ At(r) \in Ids /\ pass[r].after \in Nat
        /\ \A i \in pass[r].batch : At(r) <= i
    BY AtFacts
  <1>2. j \in Nat /\ At(r) \in Nat
    BY <1>1, GroundFacts DEF Ids
  <1>3. ASSUME ~(j <= pass[r].after) PROVE FALSE
    <2>1. j \in Due(r)
      BY <1>1, <1>2, <1>3 DEF Due
    <2>2. j \notin pass[r].batch
      BY <1>1, <1>2
    <2>3. At(r) < j
      BY <1>1, <2>1, <2>2 DEF BatchFirst
    <2> QED
      BY <1>2, <2>3
  <1> QED
    BY <1>3 DEF Passed

LEMMA TurnComes ==
  ASSUME Ground, InSeries, CensusTrue, NEW r \in Relay, pass[r].pc = "item", Ready(r),
         Verdict(r) = "none"
  PROVE  Turn(r)
  <1> DEFINE i == At(r)
             e == Earlier(At(r))
  <1>0. Len(queue) \in Nat /\ BatchFirst(r) /\ Passed(r) /\ BlockedTrue(r) /\ Solo(r)
    BY GroundFacts DEF Ready
  <1>1. i \in Ids /\ Pending(i) /\ Keys(i) \subseteq Scope /\ i \in Nat
    BY <1>0, AtFacts DEF InBatch, Ids
  <1> SUFFICES ASSUME NEW j \in 1..(i - 1), Pending(j), Touch(j, i)
               PROVE  /\ queue[i].op = "detached"
                      /\ \/ Stuck(j)
                         \/ /\ pass[r].only # {} /\ queue[j].op = "detached"
                            /\ \E k \in 1..(j - 1) : Stuck(k) /\ Touch(k, j)
    BY DEF Turn
  <1>2. j \in Ids /\ j < i /\ Touch(i, j)
    BY <1>0, <1>1 DEF Ids, Touch
  <1>3. \A k \in Keys(i) : ~Collides(r, k)
    <2>1. \A k \in Keys(i) : k = queue[i].child \/ k = queue[i].parent
      BY DEF Keys
    <2> QED
      BY <2>1 DEF Verdict, Collides
  <1>4. CASE pass[r].only = {}
    <2>1. Blocks(r, j)
      BY <1>0, <1>2, <1>4, LeftBehind DEF InBatch
    <2>2. PICK k \in Keys(i) : k \in Keys(j)
      BY DEF Touch
    <2>3. k \in Scope /\ pass[r].blocked[k] # "none"
      BY <1>1, <2>1, <2>2 DEF Blocks
    <2>4. queue[i].op = "detached" /\ pass[r].blocked[k] = "parked"
      BY <1>3, <2>2, <2>3 DEF Collides
    <2> QED
      BY <2>1, <2>2, <2>3, <2>4 DEF Blocks
  <1>5. CASE pass[r].only # {}
    <2>1. e # 0
      BY <1>0, <1>1, <1>2, EarlierFacts
    <2>2. e \in Ids /\ e < i /\ Pending(e) /\ Touch(i, e) /\ e <= j
      BY <1>0, <1>1, <1>2, <2>1, EarlierFacts
    <2>3. OriginOf(r, e) # "none"
      BY <1>0, <2>2, OriginIsReason DEF Reasons
    <2>4. queue[i].op = "detached" /\ OriginOf(r, e) = "parked"
      BY <1>3, <1>5, <2>1, <2>3 DEF Verdict, Collides
    <2>5. CASE plan.several
      <3>1. Stuck(e)
        BY <1>0, <2>2, <2>4, <2>5, OriginParked
      <3> QED
        BY <2>4, <2>5, <3>1 DEF Stuck
    <2>6. CASE ~plan.several
      <3>1. pass[r].blocked = [s \in Scope |-> "none"]
        BY <1>0, <1>5, <2>6 DEF Solo
      <3>2. queue[e].op # "detached"
        BY <1>1, <2>1, <2>4, <3>1, AheadIsNoPurge
      <3>3. Stuck(e)
        BY <1>0, <2>2, <2>4, <3>1, <3>2, OriginParked
      <3>4. Keys(i) = {queue[i].child}
        BY <2>4 DEF Keys
      <3>5. Touch(j, e) /\ Touch(e, j)
        BY <1>2, <2>2, <3>4 DEF Touch
      <3> HIDE DEF e, i
      <3>6. e = j \/ (e < j /\ e \in 1..(j - 1))
        BY <1>0, <1>2, <2>2 DEF Ids
      <3>7. CASE e = j
        BY <2>4, <3>3, <3>7
      <3>8. CASE e < j /\ queue[j].op # "detached"
        <4>1. Stuck(j)
          BY <1>2, <2>2, <3>3, <3>5, <3>8, StuckBehind
        <4> QED
          BY <2>4, <4>1
      <3>9. CASE e \in 1..(j - 1) /\ queue[j].op = "detached"
        BY <1>5, <2>4, <3>3, <3>5, <3>9
      <3> QED
        BY <3>6, <3>7, <3>8, <3>9
    <2> QED
      BY <2>5, <2>6
  <1> QED
    BY <1>4, <1>5

LEMMA VerdictParked ==
  ASSUME Ground, InSeries, CensusTrue, NEW r \in Relay, pass[r].pc = "item", Ready(r),
         Verdict(r) = "parked"
  PROVE  Stuck(At(r))
  <1> DEFINE i == At(r)
             e == Earlier(At(r))
  <1>0. Len(queue) \in Nat /\ BatchFirst(r) /\ BlockedTrue(r) /\ Solo(r)
    BY GroundFacts DEF Ready
  <1>1. i \in Ids /\ Pending(i) /\ Keys(i) \subseteq Scope /\ i \in Nat /\ pass[r].after < i
    BY <1>0, AtFacts DEF InBatch, Ids
  <1>2. \/ \E k \in Keys(i) : pass[r].blocked[k] = "parked" /\ queue[i].op # "detached"
        \/ queue[i].op # "detached" /\ Keys(i) \cap pass[r].parked # {}
        \/ /\ pass[r].only # {} /\ e # 0 /\ queue[i].op # "detached" /\ OriginOf(r, e) = "parked"
    <2>1. queue[i].child \in Keys(i)
      BY <1>1, EntryFacts, GroundFacts
    <2> QED
      BY <2>1 DEF Verdict, Collides
  <1>3. ASSUME NEW k \in Keys(i), pass[r].blocked[k] = "parked", queue[i].op # "detached" PROVE Stuck(i)
    <2>1. PICK j \in Ids : j <= pass[r].after /\ Stuck(j) /\ k \in Keys(j)
      BY <1>0, <1>1, <1>3 DEF BlockedTrue
    <2>2. j < i /\ Touch(i, j)
      BY <1>0, <1>1, <1>3, <2>1, AtFacts DEF Touch, InBatch, Ids
    <2> QED
      BY <1>1, <1>3, <2>1, <2>2, StuckBehind
  <1>4. ASSUME queue[i].op # "detached", Keys(i) \cap pass[r].parked # {} PROVE Stuck(i)
    <2>1. PICK d \in Ids : Dead(d) /\ queue[d].child \in Keys(i)
      BY <1>4 DEF CensusTrue
    <2> QED
      BY <1>1, <1>4, <2>1, StuckPlugged
  <1>5. ASSUME pass[r].only # {}, e # 0, queue[i].op # "detached", OriginOf(r, e) = "parked"
        PROVE  Stuck(i)
    <2>1. e \in Ids /\ e < i /\ Pending(e) /\ Touch(i, e)
      BY <1>0, <1>1, <1>5, EarlierFacts
    <2>2. plan.several \/ pass[r].blocked = [s \in Scope |-> "none"]
      BY <1>0, <1>5 DEF Solo
    <2>3. plan.several \/ queue[e].op # "detached"
      BY <1>1, <1>5, <2>2, AheadIsNoPurge
    <2>4. Stuck(e)
      BY <1>0, <1>5, <2>1, <2>2, <2>3, OriginParked
    <2> HIDE DEF e
    <2> QED
      BY <1>1, <1>5, <2>1, <2>4, StuckBehind
  <1> QED
    BY <1>2, <1>3, <1>4, <1>5

\* A pass that is through with its entry: k is what is blocked by then.
LEMMA AdvancedReady ==
  ASSUME Ground, LastOpen, InSeries, [Next]_vars, NEW r \in Relay, pass[r].pc \in InBatch, Ready(r),
         NEW k, NEW i \in Ids, i = At(r), pass' = [pass EXCEPT ![r] = Advanced(r, k)],
         \A s \in Scope : /\ pass[r].blocked[s] # "none" => k[s] # "none"
                          /\ pass[r].blocked[s] \in {"pending", "failed"} => k[s] \in {"pending", "failed"},
         \A s \in Scope : k[s] = "parked" =>
            pass[r].blocked[s] = "parked" \/ (s \in Keys(i) /\ Stuck(i) /\ UNCHANGED queue),
         Pending(i)' =>
            \/ \A s \in Keys(i) : k[s] \in {"pending", "failed"}
            \/ Stuck(i) /\ UNCHANGED queue /\ \A s \in Keys(i) : k[s] # "none"
  PROVE  Ready(r)'
  <1>0. pass[r].pc \in Draining /\ BatchFirst(r) /\ Seen(r) /\ Passed(r) /\ BlockedTrue(r) /\ Solo(r)
    BY DEF InBatch, Draining, Ready
  <1>1. /\ i \in pass[r].batch /\ i \in Ids /\ Pending(i) /\ i > pass[r].after
        /\ pass[r].only = {} \/ i \in pass[r].only
        /\ pass[r].batch \subseteq Ids
        /\ \A j \in pass[r].batch : i <= j
        /\ Keys(i) \subseteq Scope /\ pass[r].after \in Nat
    BY <1>0, AtFacts
  <1>2. /\ Ids \subseteq Ids' /\ Len(queue) \in Nat /\ Len(queue') \in Nat /\ UNCHANGED plan
        /\ \A j \in Ids : Keys(j)' = Keys(j)
        /\ \A j \in Ids \ {i} : Pending(j) => Pending(j)'
        /\ \A j \in Ids' : Pending(j)' =>
              j \in Ids /\ (Pending(j) \/ (j = Len(queue) /\ queue[j].state = "open"))
        /\ \A j \in Ids : queue[j].state # "open" => queue'[j].state # "open"
        /\ \A j \in Ids' : queue'[j].state = "open" => j = Len(queue')
    BY <1>0, Onward
  <1>3. /\ pass'[r].pc = IF pass[r].batch = {i} THEN "page" ELSE "item"
        /\ pass'[r].only = pass[r].only /\ pass'[r].blocked = k /\ pass'[r].after = i
        /\ pass'[r].batch = pass[r].batch \ {i}
    BY AdvancedFields, GroundFacts
  <1>4. \A j \in Ids : j < i => (Stuck(j) => Stuck(j)')
    <2> SUFFICES ASSUME NEW j \in Ids, j < i, Stuck(j) PROVE Stuck(j)'
      OBVIOUS
    <2>1. \A m \in 1..j : m \in Ids \ {i}
      BY <1>1, <1>2 DEF Ids
    <2> QED
      BY <1>2, <2>1, StuckStays
  <1>5. Stuck(i) /\ UNCHANGED queue => Stuck(i)'
    <2> SUFFICES ASSUME Stuck(i), UNCHANGED queue PROVE Stuck(i)'
      OBVIOUS
    <2>1. \A m \in 1..i : Pending(m) => Pending(m)'
      BY <1>2 DEF Pending
    <2> QED
      BY <1>1, <2>1, StuckStays
  <1>6. i \in Nat /\ i \in Ids' /\ i <= Len(queue) /\ \A j \in Ids' : j <= i => j \in Ids
    BY <1>1, <1>2 DEF Ids
  <1>7. Seen(r)'
    <2>1. ASSUME NEW j \in Ids', j <= i, queue'[j].state = "open" PROVE FALSE
      <3>1. j = i
        BY <1>2, <1>6, <2>1 DEF Ids
      <3> QED
        BY <1>1, <1>2, <2>1, <3>1 DEF Pending
    <2> QED
      BY <1>3, <1>6, <2>1 DEF Seen
  <1>8. BatchFirst(r)'
    <2>1. pass'[r].batch \subseteq Due(r)'
      <3> SUFFICES ASSUME NEW j \in pass[r].batch \ {i} PROVE j \in Due(r)'
        BY <1>3
      <3>1. j \in Ids /\ Pending(j) /\ (pass[r].only = {} \/ j \in pass[r].only)
        BY <1>0 DEF BatchFirst, Due
      <3>2. j > i
        BY <1>1, <1>6, <3>1 DEF Ids
      <3> QED
        BY <1>2, <1>3, <3>1, <3>2 DEF Due
    <2>2. ASSUME NEW m \in pass[r].batch \ {i}, NEW j \in Due(r)', j \notin pass[r].batch \ {i}
          PROVE  m < j
      <3>1. j \in Ids' /\ Pending(j)' /\ j > i /\ (pass[r].only = {} \/ j \in pass[r].only)
        BY <1>3 DEF Due
      <3>2. j \in Ids /\ j \notin pass[r].batch /\ j > pass[r].after /\ j \in Nat
        BY <1>1, <1>2, <1>6, <2>2, <3>1 DEF Ids
      <3>3. CASE Pending(j)
        <4>1. j \in Due(r)
          BY <3>1, <3>2, <3>3 DEF Due
        <4> QED
          BY <1>0, <3>2, <4>1 DEF BatchFirst
      <3>4. CASE j = Len(queue)
        BY <1>1, <1>2, <3>2, <3>4 DEF Ids
      <3> QED
        BY <1>2, <3>1, <3>3, <3>4
    <2> QED
      BY <1>3, <2>1, <2>2 DEF BatchFirst
  <1>9. Passed(r)'
    <2> SUFFICES ASSUME pass[r].only = {}, NEW j \in Ids', j <= i, Pending(j)' PROVE Blocks(r, j)'
      BY <1>3 DEF Passed
    <2>1. CASE j = i
      BY <1>1, <1>2, <1>3, <1>5, <2>1 DEF Blocks
    <2>2. CASE j # i
      <3>1. j \in Ids /\ j < i /\ Pending(j)
        BY <1>2, <1>6, <2>2 DEF Ids
      <3>2. Blocks(r, j)
        BY <1>0, <3>1, LeftBehind
      <3> QED
        BY <1>2, <1>3, <1>4, <3>1, <3>2 DEF Blocks
    <2> QED
      BY <2>1, <2>2
  <1>10. BlockedTrue(r)'
    <2> SUFFICES ASSUME NEW s \in Scope, k[s] = "parked"
                 PROVE  \E j \in Ids' : j <= i /\ Stuck(j)' /\ s \in Keys(j)'
      BY <1>3 DEF BlockedTrue
    <2>1. CASE pass[r].blocked[s] = "parked"
      <3>1. PICK j \in Ids : j <= pass[r].after /\ Stuck(j) /\ s \in Keys(j)
        BY <1>0, <2>1 DEF BlockedTrue
      <3>2. j < i /\ j \in Ids'
        BY <1>1, <1>2, <1>6, <3>1 DEF Ids
      <3> QED
        BY <1>2, <1>4, <1>6, <3>1, <3>2 DEF Ids
    <2>2. CASE s \in Keys(i) /\ Stuck(i) /\ UNCHANGED queue
      BY <1>1, <1>2, <1>5, <1>6, <2>2
    <2> QED
      BY <2>1, <2>2
  <1>11. Solo(r)'
    <2> SUFFICES ASSUME ~plan.several
                 PROVE  /\ \A m, j \in pass[r].only : m = j
                        /\ pass[r].only # {} => pass'[r].pc = "page" /\ \A m \in pass[r].only : m <= i
      BY <1>2, <1>3 DEF Solo
    <2>1. \A m, j \in pass[r].only : m = j
      BY <1>0 DEF Solo
    <2>2. ASSUME pass[r].only # {} PROVE pass[r].batch = {i} /\ pass[r].only = {i}
      BY <1>0, <1>1, <2>1, <2>2 DEF BatchFirst, Due
    <2> QED
      BY <1>3, <1>6, <2>1, <2>2
  <1>12. InTurn(r)'
    BY <1>3 DEF InTurn
  <1> QED
    BY <1>7, <1>8, <1>9, <1>10, <1>11, <1>12 DEF Ready

LEMMA StepCensusTrue ==
  ASSUME Ground, CensusTrue, [Next]_vars
  PROVE  CensusTrue'
  <1>0. UNCHANGED plan /\ (InSeries' <=> InSeries)
    BY DEF Next, vars, InSeries, Serial, Apart, Alone, Prompt
  <1> SUFFICES ASSUME InSeries, NEW r \in Relay, NEW k \in pass'[r].parked
               PROVE  \E d \in Ids' : Dead(d)' /\ queue'[d].child = k
    BY <1>0 DEF CensusTrue
  <1>1. \E d \in Ids : Dead(d) /\ queue[d].child = k
    <2>1. CASE pass'[r].parked = pass[r].parked
      BY <2>1 DEF CensusTrue
    <2>2. CASE pass'[r].parked = {}
      BY <2>2
    <2>3. CASE pass'[r].parked = ParkedKeys
      BY <2>3 DEF ParkedKeys
    <2>4. CASE Next
      <3>1. CASE TakeLease(r) \/ Proceed(r) \/ Apply(r)
        BY <2>1, <3>1, MovesOn, GroundFacts DEF TakeLease, Proceed, Apply, Kept
      <3>2. CASE Busy(r) \/ Abort(r) \/ (Page(r) /\ Due(r) = {})
        BY <2>2, <3>2, GroundFacts DEF Busy, Abort, Page, Idle, TypeOK
      <3>3. CASE Page(r) /\ Due(r) # {}
        BY <2>1, <3>3, PageTurned, GroundFacts DEF Kept
      <3>4. CASE Defer(r) \/ ApplyFails(r) \/ ApplyTransient(r) \/ MarkApplied(r)
        BY <2>1, <3>4, AdvancedFields, GroundFacts DEF Defer, ApplyFails, ApplyTransient, MarkApplied
      <3>5. ~RequeueHeld(r) /\ \A i : ~RequeueTake(r, i)
        BY DEF RequeueHeld, RequeueTake, Ground, Requeues, InSeries, Serial
      <3>6. ASSUME NEW only, StartPass(r, only) PROVE pass'[r].parked = ParkedKeys
        BY <3>6, Begins, GroundFacts
      <3> QED
        BY <2>1, <2>3, <2>4, <3>1, <3>2, <3>3, <3>4, <3>5, <3>6, PassStep, GroundFacts DEF Own, Step
    <2> QED
      BY <2>1, <2>4 DEF vars
  <1>2. PICK d \in Ids : Dead(d) /\ queue[d].child = k
    BY <1>1
  <1>3. Same(d)
    BY SameEntry, GroundFacts
  <1> QED
    BY <1>2, <1>3, DeadStays DEF Same

\* A pass that stays on its entry, or takes it up.
LEMMA StandsReady ==
  ASSUME Ground, LastOpen, InSeries, CensusTrue, [Next]_vars,
         NEW r \in Relay, pass[r].pc \in Draining, Ready(r), Kept(r),
         pass'[r].batch = pass[r].batch, ~MarkApplied(r), ~ApplyFails(r),
         \/ pass'[r].pc = pass[r].pc
         \/ pass[r].pc = "item" /\ Verdict(r) = "none" /\ pass'[r].pc = "apply"
         \/ pass[r].pc = "apply" /\ pass'[r].pc = "mark"
  PROVE  Ready(r)'
  <1>0. BatchFirst(r) /\ Seen(r) /\ Passed(r) /\ BlockedTrue(r) /\ Solo(r) /\ InTurn(r)
    BY DEF Ready
  <1>1. /\ Seen(r)' /\ Passed(r)' /\ BlockedTrue(r)'
        /\ \A j \in Ids : Stuck(j) => Stuck(j)'
    BY <1>0, PlaceKept
  <1>2. pass'[r].only = pass[r].only /\ pass'[r].blocked = pass[r].blocked
        /\ pass'[r].after = pass[r].after /\ UNCHANGED plan
    BY DEF Kept, Next, vars
  <1>3. Solo(r)'
    <2>1. pass[r].pc = "page" => pass'[r].pc = "page"
      OBVIOUS
    <2> QED
      BY <1>0, <1>2, <2>1 DEF Solo
  <1>4. CASE pass[r].pc = "page"
    <2>1. pass'[r].pc = "page"
      BY <1>4
    <2>2. BatchFirst(r)' /\ InTurn(r)'
      BY <2>1 DEF BatchFirst, InTurn, InBatch
    <2> QED
      BY <1>1, <1>3, <2>2 DEF Ready
  <1>5. CASE pass[r].pc \in InBatch
    <2>1. BatchFirst(r)'
      BY <1>0, <1>5, BatchKept
    <2>2. ASSUME pass'[r].pc \in {"apply", "mark"} PROVE Turn(r)
      BY <1>0, <2>2, TurnComes DEF InTurn
    <2>3. InTurn(r)'
      BY <1>1, <1>5, <2>2, TurnKept DEF InTurn
    <2> QED
      BY <1>1, <1>3, <2>1, <2>3 DEF Ready
  <1> QED
    BY <1>4, <1>5 DEF InBatch, Draining

\* The next batch, and the lease at last.
LEMMA PageReady ==
  ASSUME Ground, LastOpen, InSeries, [Next]_vars,
         NEW r \in Relay, pass[r].pc \in Draining, Ready(r), Page(r), Due(r) # {}
  PROVE  Ready(r)'
  <1>0. BatchFirst(r) /\ Seen(r) /\ Passed(r) /\ BlockedTrue(r) /\ Solo(r)
    BY DEF Ready
  <1>1. /\ Kept(r) /\ pass'[r].pc = "item" /\ pass'[r].batch \subseteq Due(r)
        /\ \A i \in pass'[r].batch, j \in Due(r) \ pass'[r].batch : i < j
        /\ UNCHANGED queue /\ UNCHANGED plan
    BY PageTurned, GroundFacts DEF Next, vars
  <1>2. ~MarkApplied(r) /\ ~ApplyFails(r) /\ pass[r].pc = "page"
    BY DEF Page, MarkApplied, ApplyFails
  <1>3. Seen(r)' /\ Passed(r)' /\ BlockedTrue(r)'
    BY <1>0, <1>1, <1>2, PlaceKept
  <1>4. pass'[r].only = pass[r].only /\ pass'[r].blocked = pass[r].blocked
        /\ pass'[r].after = pass[r].after
    BY <1>1 DEF Kept
  <1>5. Due(r)' = Due(r)
    BY <1>1, <1>4 DEF Due, Pending, Ids
  <1>6. BatchFirst(r)' /\ InTurn(r)'
    BY <1>1, <1>5 DEF BatchFirst, InTurn
  <1>7. Solo(r)'
    <2> SUFFICES ASSUME ~plan.several, pass[r].only # {}
                 PROVE  pass[r].blocked = [s \in Scope |-> "none"]
      BY <1>0, <1>1, <1>4 DEF Solo
    <2>1. PICK i \in Due(r) : TRUE
      OBVIOUS
    <2>2. i \in pass[r].only /\ i > pass[r].after /\ i \in Nat /\ pass[r].after \in Nat
      BY <2>1, GroundFacts DEF Due, Ids, TypeOK, Pass
    <2> QED
      BY <1>0, <2>2 DEF Solo
  <1> QED
    BY <1>3, <1>6, <1>7 DEF Ready

LEMMA LeaseReady ==
  ASSUME Ground, InSeries, [Next]_vars, NEW r \in Relay, Fresh(r), TakeLease(r)
  PROVE  Ready(r)'
  <1>1. Kept(r) /\ pass'[r].pc = "page" /\ UNCHANGED plan
    BY MovesOn, GroundFacts DEF TakeLease, Next, vars
  <1>2. /\ pass'[r].after = 0 /\ pass'[r].blocked = [s \in Scope |-> "none"]
        /\ ~plan.several => \A i, j \in pass'[r].only : i = j
    BY <1>1 DEF Fresh, TakeLease, Kept
  <1>3. \A j \in Ids' : ~(j <= 0)
    BY DEF Ids
  <1>4. Seen(r)' /\ Passed(r)'
    BY <1>2, <1>3 DEF Seen, Passed
  <1>5. BlockedTrue(r)'
    BY <1>2 DEF BlockedTrue
  <1>6. Solo(r)' /\ BatchFirst(r)' /\ InTurn(r)'
    BY <1>1, <1>2 DEF Solo, BatchFirst, InTurn, InBatch
  <1> QED
    BY <1>4, <1>5, <1>6 DEF Ready

LEMMA BlockedReady ==
  ASSUME Ground, LastOpen, InSeries, CensusTrue, [Next]_vars,
         NEW r \in Relay, pass[r].pc \in InBatch, Ready(r), NEW why \in Origin \ {"none"},
         pass' = [pass EXCEPT ![r] = Advanced(r, Block(r, why))],
         why = "failed" \/ (why = Verdict(r) /\ pass[r].pc = "item" /\ UNCHANGED queue)
  PROVE  Ready(r)'
  <1> DEFINE k == Block(r, why)
  <1>1. PICK i \in Ids : i = At(r)
    BY InHand, GroundFacts
  <1>2. \A s \in Scope :
           /\ pass[r].blocked[s] # "none" => k[s] # "none"
           /\ pass[r].blocked[s] \in {"pending", "failed"} => k[s] \in {"pending", "failed"}
           /\ k[s] = pass[r].blocked[s] \/ (s \in Keys(i) /\ k[s] = why)
           /\ s \in Keys(i) => k[s] # "none"
           /\ s \in Keys(i) /\ why \in {"pending", "failed"} => k[s] \in {"pending", "failed"}
    BY <1>1, BlockFacts, GroundFacts
  <1>3. why = "parked" => Stuck(i) /\ UNCHANGED queue
    BY <1>1, VerdictParked
  <1>4. Keys(i) \subseteq Scope
    BY KeysAreScopes
  <1> HIDE DEF k
  <1>5. \A s \in Scope : k[s] = "parked" =>
           pass[r].blocked[s] = "parked" \/ (s \in Keys(i) /\ Stuck(i) /\ UNCHANGED queue)
    BY <1>2, <1>3
  <1>6. \/ \A s \in Keys(i) : k[s] \in {"pending", "failed"}
        \/ Stuck(i) /\ UNCHANGED queue /\ \A s \in Keys(i) : k[s] # "none"
    BY <1>2, <1>3, <1>4
  <1>7. pass' = [pass EXCEPT ![r] = Advanced(r, k)]
    BY DEF k
  <1> QED
    BY <1>1, <1>2, <1>5, <1>6, <1>7, AdvancedReady

LEMMA MarkedReady ==
  ASSUME Ground, LastOpen, InSeries, [Next]_vars, NEW r \in Relay, Ready(r), MarkApplied(r)
  PROVE  Ready(r)'
  <1>0. pass[r].pc \in InBatch
    BY DEF MarkApplied, InBatch
  <1>1. PICK i \in Ids : i = At(r)
    BY <1>0, InHand, GroundFacts
  <1>2. pass' = [pass EXCEPT ![r] = Advanced(r, pass[r].blocked)]
    BY DEF MarkApplied
  <1>3. ~Pending(i)'
    BY <1>1, EntryFacts, GroundFacts DEF MarkApplied, Pending, TypeOK, Ids, Entry
  <1> DEFINE k == pass[r].blocked
  <1>4. pass' = [pass EXCEPT ![r] = Advanced(r, k)]
    BY <1>2
  <1>5. \A s \in Scope : /\ pass[r].blocked[s] # "none" => k[s] # "none"
                         /\ pass[r].blocked[s] \in {"pending", "failed"} => k[s] \in {"pending", "failed"}
                         /\ k[s] = "parked" => pass[r].blocked[s] = "parked"
    OBVIOUS
  <1> HIDE DEF k
  <1> QED
    BY <1>0, <1>1, <1>3, <1>4, <1>5, AdvancedReady

LEMMA StepPassesReady ==
  ASSUME Ground, LastOpen, CensusTrue, PassesReady, [Next]_vars
  PROVE  PassesReady'
  <1>0. UNCHANGED plan /\ (InSeries' <=> InSeries)
    BY DEF Next, vars, InSeries, Serial, Apart, Alone, Prompt
  <1> SUFFICES ASSUME InSeries, NEW r \in Relay
               PROVE  Fresh(r)' /\ (pass'[r].pc \in Draining => Ready(r)')
    BY <1>0 DEF PassesReady
  <1>1. Fresh(r) /\ (pass[r].pc \in Draining => Ready(r))
    BY DEF PassesReady
  <1>2. ASSUME pass[r].pc \in InBatch, pass[r].pc \in Draining, pass'[r].after = pass[r].after
        PROVE  ~MarkApplied(r) /\ ~ApplyFails(r)
    <2>1. At(r) > pass[r].after /\ At(r) \in Nat /\ pass[r].after \in Nat
      BY <1>1, <1>2, AtFacts, GroundFacts DEF Ready, Ids
    <2>2. ASSUME NEW k, pass' = [pass EXCEPT ![r] = Advanced(r, k)] PROVE FALSE
      <3>1. pass'[r].after = At(r)
        BY <2>2, AdvancedFields, GroundFacts
      <3> QED
        BY <1>2, <2>1, <3>1
    <2>3. MarkApplied(r) \/ ApplyFails(r) => \E k : pass' = [pass EXCEPT ![r] = Advanced(r, k)]
      BY Zenon DEF MarkApplied, ApplyFails
    <2> QED
      BY <2>2, <2>3, Zenon
  <1>3. CASE pass'[r] = pass[r]
    <2>1. Fresh(r)'
      BY <1>0, <1>1, <1>3 DEF Fresh
    <2>2. ASSUME pass[r].pc \in Draining PROVE Ready(r)'
      <3>1. ~MarkApplied(r) /\ ~ApplyFails(r)
        <4>1. CASE pass[r].pc \in InBatch
          BY <1>2, <1>3, <2>2, <4>1
        <4>2. CASE pass[r].pc \notin InBatch
          BY <4>2 DEF InBatch, MarkApplied, ApplyFails
        <4> QED
          BY <4>1, <4>2
      <3>2. Kept(r) /\ pass'[r].batch = pass[r].batch /\ pass'[r].pc = pass[r].pc
        BY <1>3 DEF Kept
      <3> QED
        BY <1>1, <2>2, <3>1, <3>2, StandsReady
    <2> QED
      BY <1>3, <2>1, <2>2
  <1>4. CASE Own(r)
    <2>1. CASE TakeLease(r)
      <3>1. pass'[r].pc = "page"
        BY <2>1, MovesOn, GroundFacts DEF TakeLease
      <3> QED
        BY <1>1, <2>1, <3>1, LeaseReady DEF Fresh
    <2>2. CASE Busy(r) \/ Abort(r) \/ (Page(r) /\ Due(r) = {})
      <3>1. pass'[r] = Idle
        BY <2>2, GroundFacts DEF Busy, Abort, Page, TypeOK
      <3>2. pass'[r].pc = "idle"
        BY <3>1 DEF Idle
      <3> QED
        BY <3>2 DEF Fresh, Draining
    <2>3. CASE Page(r) /\ Due(r) # {}
      <3>1. pass'[r].pc = "item" /\ pass[r].pc \in Draining
        BY <2>3, PageTurned, GroundFacts DEF Page, Draining
      <3> QED
        BY <1>1, <2>3, <3>1, PageReady DEF Fresh
    <2>4. CASE Proceed(r) \/ Apply(r)
      <3>1. /\ Kept(r) /\ pass'[r].batch = pass[r].batch
            /\ \/ pass[r].pc = "item" /\ Verdict(r) = "none" /\ pass'[r].pc = "apply"
               \/ pass[r].pc = "apply" /\ pass'[r].pc = "mark"
        BY <2>4, MovesOn, GroundFacts DEF Proceed, Apply
      <3>2. pass[r].pc \in InBatch /\ pass[r].pc \in Draining /\ pass'[r].after = pass[r].after
        BY <3>1 DEF Kept, InBatch, Draining
      <3>3. Ready(r)'
        BY <1>1, <1>2, <3>1, <3>2, StandsReady
      <3> QED
        BY <3>1, <3>3 DEF Fresh
    <2>5. CASE Defer(r) \/ ApplyFails(r) \/ ApplyTransient(r) \/ MarkApplied(r)
      <3>1. pass[r].pc \in InBatch /\ pass[r].pc \in Draining
        BY <2>5 DEF Defer, ApplyFails, ApplyTransient, MarkApplied, InBatch, Draining
      <3>2. pass'[r].pc # "lease"
        BY <2>5, AdvancedFields, GroundFacts DEF Defer, ApplyFails, ApplyTransient, MarkApplied
      <3>3. CASE MarkApplied(r)
        BY <1>1, <3>1, <3>2, <3>3, MarkedReady DEF Fresh
      <3>4. CASE Defer(r)
        <4>1. PICK why \in Origin \ {"none"} :
                 why = Verdict(r) /\ pass' = [pass EXCEPT ![r] = Advanced(r, Block(r, why))]
          BY <3>4 DEF Defer
        <4>2. pass[r].pc = "item" /\ UNCHANGED queue
          BY <3>4 DEF Defer
        <4>3. Ready(r)'
          BY <1>1, <3>1, <4>1, <4>2, BlockedReady
        <4> QED
          BY <3>2, <4>3 DEF Fresh
      <3>5. CASE ApplyFails(r) \/ ApplyTransient(r)
        <4>1. pass' = [pass EXCEPT ![r] = Advanced(r, Block(r, "failed"))]
          BY <3>5 DEF ApplyFails, ApplyTransient
        <4>2. "failed" \in Origin \ {"none"}
          OBVIOUS
        <4>3. Ready(r)'
          BY <1>1, <3>1, <4>1, <4>2, BlockedReady
        <4> QED
          BY <3>2, <4>3 DEF Fresh
      <3> QED
        BY <2>5, <3>3, <3>4, <3>5
    <2>6. ~RequeueHeld(r)
      BY DEF RequeueHeld, Ground, Requeues, InSeries, Serial
    <2> QED
      BY <1>4, <2>1, <2>2, <2>3, <2>4, <2>5, <2>6 DEF Own, Step
  <1>5. ASSUME NEW only \in SUBSET Ids, plan.several \/ \A i, j \in only : i = j, StartPass(r, only)
        PROVE  Fresh(r)' /\ pass'[r].pc \notin Draining
    <2>1. /\ pass'[r].pc = "lease" /\ pass'[r].only = only
          /\ pass'[r].blocked = [s \in Scope |-> "none"] /\ pass'[r].after = 0
      BY <1>5, Begins, GroundFacts
    <2> QED
      BY <1>0, <1>5, <2>1 DEF Fresh, Draining
  <1>6. ~(plan.apply /\ \E i \in Ids : RequeueTake(r, i))
    BY DEF InSeries, Serial
  <1>7. CASE Next
    BY <1>3, <1>4, <1>5, <1>6, <1>7, PassStep, GroundFacts
  <1>8. CASE UNCHANGED vars
    BY <1>3, <1>8 DEF vars
  <1> QED
    BY <1>7, <1>8

\* The inductive invariant of the order.
OrderInv == Ground /\ LastOpen /\ CensusTrue /\ PassesReady /\ ClearAtHand /\ CensusCovers

LEMMA InitOrder == Init => OrderInv
  <1> SUFFICES ASSUME Init PROVE OrderInv
    OBVIOUS
  <1>1. \A r \in Relay : pass[r].pc = "idle" /\ pass[r].parked = {}
    BY DEF Init, Idle
  <1>2. Ids = {} /\ ticket = 0
    BY DEF Init, Ids
  <1>3. Ground
    BY <1>1, <1>2, InitInv DEF Ground, NotYet, Shut, Hung, Requeues, InBatch
  <1>4. LastOpen /\ CensusTrue
    BY <1>1, <1>2 DEF LastOpen, CensusTrue
  <1>5. PassesReady /\ ClearAtHand /\ CensusCovers
    BY <1>1, <1>2 DEF PassesReady, ClearAtHand, CensusCovers, Fresh, Draining
  <1> QED
    BY <1>3, <1>4, <1>5 DEF OrderInv

LEMMA StepOrder == OrderInv /\ [Next]_vars => OrderInv'
  <1> SUFFICES ASSUME OrderInv, [Next]_vars PROVE OrderInv'
    OBVIOUS
  <1>1. Ground' /\ LastOpen' /\ CensusTrue' /\ PassesReady'
    BY GroundStep, StepLastOpen, StepCensusTrue, StepPassesReady DEF OrderInv
  <1>2. ClearAtHand' /\ CensusCovers'
    BY GroundFacts, StepClear, StepCensus DEF OrderInv
  <1> QED
    BY <1>1, <1>2 DEF OrderInv

LEMMA InvOrderKept == OrderInv => OrderKept
  <1> SUFFICES ASSUME OrderInv PROVE KeyOrder /\ ParkedPlugs
    BY DEF OrderKept
  <1>1. ParkedPlugs
    BY ClearPlugs, GroundFacts DEF OrderInv
  <1>2. KeyOrder
    <2> SUFFICES ASSUME Serial, Singly, Apart, NEW r \in Relay, pass[r].pc = "mark",
                        NEW j \in 1..(At(r) - 1), Pending(j) /\ Touch(j, At(r))
                 PROVE  /\ queue[At(r)].op = "detached"
                        /\ \/ Held(j)
                           \/ /\ pass[r].only # {} /\ queue[j].op = "detached"
                              /\ \E k \in 1..(j - 1) : Held(k) /\ Touch(k, j)
      BY DEF KeyOrder
    <2>1. Ready(r)
      BY DEF OrderInv, PassesReady, InSeries, Draining
    <2>2. Turn(r)
      BY <2>1 DEF Ready, InTurn
    <2>3. \A k : Stuck(k) = Held(k)
      BY DEF Stuck, Singly
    <2> QED
      BY <2>2, <2>3 DEF Turn
  <1> QED
    BY <1>1, <1>2

\* Nothing is applied past an older change of its scopes that still waits, but for a
\* purge behind a parked entry; and nothing is hung under a scope that a parked entry
\* plugs.
THEOREM KeepsOrder == Spec => []OrderKept
  BY InitOrder, StepOrder, InvOrderKept, PTL DEF Spec

-----------------------------------------------------------------------------
(* What an older change may still do to an edge: one relay.                *)

LEMMA Writes ==
  ASSUME Ground, Apart, [Next]_vars
  PROVE  \/ UNCHANGED <<store, written>>
         \/ \E r \in Relay, n \in Ids :
               /\ pass[r].pc = "apply" /\ n = At(r) /\ Own(r)
               /\ store' = [store EXCEPT ![queue[n].child] = Wanted(n)]
               /\ written' = [written EXCEPT ![queue[n].child] = n]
  BY WritesOne DEF Ground, RelayInv

LEMMA NotHeldAtHand ==
  ASSUME OrderInv, Alone, Prompt, Serial, NEW r \in Relay, pass[r].pc \in {"apply", "mark"}
  PROVE  ~Held(At(r))
  <1> SUFFICES ASSUME Held(At(r)) PROVE FALSE
    OBVIOUS
  <1> DEFINE i == At(r)
  <1>1. i \in Ids /\ Len(queue) \in Nat
    BY InHand, GroundFacts DEF OrderInv, InBatch
  <1>2. queue[i].op # "detached" /\ (Plugged(i) \/ \E k \in 1..(i - 1) : Touch(i, k) /\ Held(k))
    BY <1>1, HeldUnfolds
  <1>3. ~Plugged(i)
    <2> SUFFICES ASSUME NEW d \in Ids, Dead(d), queue[d].child \in Keys(i) PROVE FALSE
      BY DEF Plugged
    <2>1. queue[d].child \in Scope
      BY EntryFacts, GroundFacts DEF OrderInv
    <2>2. queue[d].child \in pass[r].parked \/ pass[r].blocked[queue[d].child] = "failed"
      BY DEF OrderInv, CensusCovers, Draining
    <2> QED
      BY <1>2, <2>1, <2>2 DEF OrderInv, ClearAtHand
  <1>4. PICK k \in 1..(i - 1) : Touch(i, k) /\ Held(k)
    BY <1>2, <1>3
  <1>5. k \in Ids /\ Pending(k) /\ Touch(k, i)
    <2>1. k \in Ids
      BY <1>1 DEF Ids
    <2> QED
      BY <1>1, <1>4, <2>1, HeldUnfolds DEF Touch
  <1>6. Turn(r)
    BY DEF OrderInv, PassesReady, InSeries, Apart, Ready, InTurn, Draining
  <1> QED
    BY <1>2, <1>4, <1>5, <1>6 DEF Turn

\* One relay: who is held stays so until somebody is requeued.
LEMMA HeldForever ==
  ASSUME OrderInv, Alone, Prompt, Serial, [Next]_vars, NEW j \in Ids, Held(j)
  PROVE  Held(j)'
  <1>0. Ground /\ InSeries
    BY DEF OrderInv, InSeries, Apart
  <1>1. ASSUME NEW k \in 1..j, Held(k) PROVE Pending(k)'
    <2>1. k \in Ids
      BY <1>0, GroundFacts DEF Ids
    <2>2. Pending(k)
      BY <1>0, <1>1, <2>1, StuckFacts
    <2>3. ASSUME NEW r \in Relay, MarkApplied(r) \/ ApplyFails(r), k = At(r) PROVE FALSE
      BY <1>1, <2>3, NotHeldAtHand DEF MarkApplied, ApplyFails
    <2>4. queue'[k] = queue[k]
      <3>1. CASE Next
        BY <1>0, <2>1, <2>2, <2>3, <3>1, SerialEntry DEF Pending
      <3>2. CASE UNCHANGED vars
        BY <3>2 DEF vars
      <3> QED
        BY <3>1, <3>2
    <2> QED
      BY <2>2, <2>4 DEF Pending, Next, vars
  <1> QED
    BY <1>0, <1>1, HeldStays

\* What is older than the last write of its edge, and waits.
Overtaken ==
    Alone /\ Prompt /\ Serial /\ Singly =>
        \A i \in Ids : (Pending(i) /\ i < written[queue[i].child]) =>
            Held(i) \/ (queue[i].op = "detached" /\ store[queue[i].child] = {})

LEMMA StepOvertaken ==
  ASSUME OrderInv, Overtaken, [Next]_vars
  PROVE  Overtaken'
  <1>0. UNCHANGED plan /\ Ground /\ Len(queue) \in Nat
    BY GroundFacts DEF Next, vars, OrderInv
  <1> SUFFICES ASSUME Alone, Prompt, Serial, Singly, NEW i \in Ids', Pending(i)', i < written'[queue'[i].child]
               PROVE  Held(i)' \/ (queue'[i].op = "detached" /\ store'[queue'[i].child] = {})
    BY <1>0 DEF Overtaken, Alone, Prompt, Serial, Singly
  <1>1. InSeries /\ LastOpen
    BY DEF InSeries, Apart, OrderInv
  <1>2. i \in Ids /\ (Pending(i) \/ i = Len(queue))
    <2>1. i \in Ids
      <3>1. i \notin Ids => queue'[i].state = "open"
        BY NewEntry, <1>0, GroundFacts DEF Ids
      <3> QED
        BY <3>1 DEF Pending
    <2>2. CASE Next
      <3>1. queue'[i] = queue[i] => Pending(i)
        BY <1>0 DEF Pending
      <3>2. Pending(i) \/ queue[i].state = "open"
        BY <1>0, <1>1, <2>1, <2>2, <3>1, SerialEntry
      <3> QED
        BY <1>1, <2>1, <3>2 DEF LastOpen, Serial
    <2>3. CASE UNCHANGED vars
      BY <2>1, <2>3 DEF vars, Pending
    <2> QED
      BY <2>1, <2>2, <2>3
  <1> DEFINE c == queue[i].child
  <1>3. Same(i) /\ c \in Scope /\ i \in Nat /\ c \in Keys(i)
    BY <1>0, <1>2, SameEntry, EntryFacts, GroundFacts DEF Ids
  <1>4. queue'[i].child = c /\ queue'[i].op = queue[i].op
    BY <1>3 DEF Same
  <1>5. Held(i) => Held(i)'
    BY <1>2, HeldForever
  <1>6. written[c] \in {0} \cup Ids
    BY <1>0, <1>3, GroundFacts DEF TypeOK
  <1>7. CASE written'[c] = written[c] /\ store'[c] = store[c]
    <2>1. Pending(i) /\ i < written[c]
      BY <1>0, <1>2, <1>3, <1>4, <1>6, <1>7 DEF Ids
    <2>2. Held(i) \/ (queue[i].op = "detached" /\ store[c] = {})
      BY <1>2, <2>1 DEF Overtaken
    <2> QED
      BY <1>4, <1>5, <1>7, <2>2
  <1>8. CASE ~(written'[c] = written[c] /\ store'[c] = store[c])
    <2>1. PICK r \in Relay, n \in Ids :
             /\ pass[r].pc = "apply" /\ n = At(r)
             /\ store' = [store EXCEPT ![queue[n].child] = Wanted(n)]
             /\ written' = [written EXCEPT ![queue[n].child] = n]
      BY <1>0, <1>1, <1>8, Writes DEF InSeries
    <2>2. /\ queue[n].child = c /\ c \in Keys(n) /\ n \in Nat
          /\ queue[n].op = "detached" => Wanted(n) = {}
      BY <1>0, <1>3, <1>8, <2>1, EntryFacts, GroundFacts DEF Ids, TypeOK, Wanted
    <2>3. written'[c] = n /\ store'[c] = Wanted(n)
      BY <1>0, <1>3, <2>1, <2>2, GroundFacts DEF TypeOK
    <2>4. i < n /\ Touch(i, n)
      BY <1>3, <1>4, <2>2, <2>3 DEF Touch
    <2>5. Pending(i)
      BY <1>0, <1>2, <2>1, <2>2, <2>4 DEF Ids
    <2>6. Turn(r)
      BY <1>1, <2>1 DEF OrderInv, PassesReady, Ready, InTurn, Draining
    <2>7. i \in 1..(n - 1)
      BY <1>2, <1>3, <2>2, <2>4 DEF Ids
    <2>8. queue[n].op = "detached" /\ (Stuck(i) \/ queue[i].op = "detached")
      BY <2>1, <2>4, <2>5, <2>6, <2>7 DEF Turn
    <2>9. Stuck(i) => Held(i)
      BY DEF Stuck, Singly
    <2> QED
      BY <1>4, <1>5, <2>2, <2>3, <2>8, <2>9
  <1> QED
    BY <1>7, <1>8

LEMMA StepEdges ==
  ASSUME OrderInv, Overtaken, [Next]_vars, Alone, Prompt, Serial, Singly, NEW s \in Scope
  PROVE  written'[s] >= written[s] \/ store'[s] = store[s]
  <1>0. Ground /\ InSeries
    BY DEF OrderInv, InSeries, Apart
  <1>1. written[s] \in Nat /\ store \in [Scope -> SUBSET Parents] /\ written \in [Scope -> {0} \cup Ids]
    BY <1>0, GroundFacts DEF TypeOK, Ids
  <1>2. CASE written'[s] = written[s]
    BY <1>1, <1>2
  <1>3. CASE written'[s] # written[s]
    <2>1. PICK r \in Relay, n \in Ids :
             /\ pass[r].pc = "apply" /\ n = At(r)
             /\ store' = [store EXCEPT ![queue[n].child] = Wanted(n)]
             /\ written' = [written EXCEPT ![queue[n].child] = n]
      BY <1>0, <1>3, Writes DEF InSeries
    <2>2. queue[n].child = s /\ written'[s] = n /\ store'[s] = Wanted(n) /\ n \in Nat
      BY <1>1, <1>3, <2>1 DEF Ids
    <2>3. Pending(n) /\ (queue[n].op = "detached" => Wanted(n) = {})
      BY <1>0, <2>1, InHand, EntryFacts, GroundFacts DEF BatchWaits, InSeries, InBatch, Wanted
    <2>4. ~Held(n)
      BY <2>1, NotHeldAtHand
    <2>5. CASE n < written[s]
      BY <2>2, <2>3, <2>4, <2>5 DEF Overtaken
    <2> QED
      BY <1>1, <2>2, <2>5
  <1> QED
    BY <1>2, <1>3

\* One relay whose Writes do not outlive it, asked for everything or for one entry, never hangs a scope again where an
\* older change of it said.
THEOREM EdgesKept == Spec => EdgeNeverGoesBack
  <1>1. Init => OrderInv /\ Overtaken
    <2>1. Init => Overtaken
      BY DEF Init, Overtaken, Ids
    <2> QED
      BY <2>1, InitOrder
  <1>2. (OrderInv /\ Overtaken) /\ [Next]_vars => (OrderInv /\ Overtaken)'
    BY StepOrder, StepOvertaken
  <1>3. (OrderInv /\ Overtaken) /\ [Next]_vars =>
            [Alone /\ Prompt /\ Serial /\ Singly =>
                \A s \in Scope : written'[s] >= written[s] \/ store'[s] = store[s]]_vars
    BY StepEdges
  <1> QED
    BY <1>1, <1>2, <1>3, PTL DEF Spec, EdgeNeverGoesBack

-----------------------------------------------------------------------------
(* The tree of the backend is made of what was written to it, the tree of  *)
(* the consumer of the newest changes that committed.                      *)

Committed(i) == queue[i].state \in {"queued", "applied"}

StoreIs ==
    InSeries => \A s \in Scope :
        /\ written[s] = 0 => store[s] = Edges(FirstTree)[s]
        /\ written[s] # 0 => /\ queue[written[s]].child = s /\ Committed(written[s])
                             /\ store[s] = Wanted(written[s])

TreeIs ==
    InSeries => \A s \in Scope :
        \/ /\ tree[s] = FirstTree[s]
           /\ \A j \in Ids : queue[j].child = s => ~Committed(j)
        \/ \E i \in Ids :
              /\ Committed(i) /\ queue[i].child = s /\ tree[s] = queue[i].parent
              /\ \A j \in Ids : j > i /\ queue[j].child = s => ~Committed(j)

\* A pass marks what it wrote.
Marked ==
    InSeries => \A r \in Relay : pass[r].pc = "mark" =>
        \A i \in Ids : i = At(r) => written[queue[i].child] = i

\* Nothing parked: nothing waits behind what is applied, and what is applied was written.
NoneBefore ==
    InSeries => \/ AnyDead
                \/ \A i, j \in Ids : i < j /\ Touch(i, j) /\ Pending(i) => queue[j].state # "applied"

Newest ==
    InSeries => \/ AnyDead
                \/ \A i \in Ids : queue[i].state = "applied" => i <= written[queue[i].child]

FollowInv == OrderInv /\ StoreIs /\ TreeIs /\ Marked /\ NoneBefore /\ Newest

LEMMA SeriesStays ==
  ASSUME [Next]_vars
  PROVE  UNCHANGED plan /\ (InSeries' <=> InSeries)
  BY DEF Next, vars, InSeries, Serial, Apart, Alone, Prompt

\* A change commits once.
LEMMA CommittedStep ==
  ASSUME Ground, InSeries, [Next]_vars
  PROVE  /\ \A j \in Ids' : Committed(j)' => j \in Ids /\ (Committed(j) \/ Commit(j))
         /\ \A j \in Ids : Committed(j) => Committed(j)'
         /\ \A j \in Ids : queue'[j].state = "applied" =>
               queue[j].state = "applied" \/ \E r \in Relay : MarkApplied(r) /\ j = At(r)
  <1>1. \A j \in Ids' : j \notin Ids => queue'[j].state = "open"
    BY NewEntry, GroundFacts DEF Ids
  <1>2. CASE UNCHANGED vars
    BY <1>2 DEF vars, Committed, Ids
  <1>3. CASE Next
    <2> SUFFICES ASSUME NEW j \in Ids
                 PROVE  /\ Committed(j)' => Committed(j) \/ Commit(j)
                        /\ Committed(j) => Committed(j)'
                        /\ queue'[j].state = "applied" =>
                              queue[j].state = "applied" \/ \E r \in Relay : MarkApplied(r) /\ j = At(r)
      BY <1>1 DEF Committed
    <2>1. CASE queue'[j] = queue[j]
      BY <2>1 DEF Committed
    <2>2. CASE queue[j].state = "open" /\ ((Commit(j) /\ Turns(j, "queued")) \/ Turns(j, "void"))
      BY <2>2 DEF Committed, Turns
    <2>3. CASE \E r \in Relay : MarkApplied(r) /\ j = At(r) /\ Pending(j) /\ Turns(j, "applied")
      BY <2>3 DEF Committed, Turns, Pending
    <2>4. CASE \E r \in Relay : ApplyFails(r) /\ j = At(r) /\ Pending(j) /\ Counts(j, queue[j].attempts + 1)
      BY <2>4 DEF Committed, Counts
    <2> QED
      BY <1>3, <2>1, <2>2, <2>3, <2>4, SerialEntry
  <1> QED
    BY <1>2, <1>3

LEMMA StepStoreIs ==
  ASSUME Ground, StoreIs, [Next]_vars
  PROVE  StoreIs'
  <1> SUFFICES ASSUME InSeries, NEW s \in Scope
               PROVE  /\ written'[s] = 0 => store'[s] = Edges(FirstTree)[s]
                      /\ written'[s] # 0 => /\ queue'[written'[s]].child = s
                                            /\ queue'[written'[s]].state \in {"queued", "applied"}
                                            /\ store'[s] = {queue'[written'[s]].parent} \ {NoScope}
    BY SeriesStays DEF StoreIs, Committed, Wanted
  <1>1. \A j \in Ids : Same(j) /\ (Committed(j) => queue'[j].state \in {"queued", "applied"})
    BY SameEntry, CommittedStep, GroundFacts DEF Committed
  <1>2. store \in [Scope -> SUBSET Parents] /\ written \in [Scope -> {0} \cup Ids]
    BY GroundFacts DEF TypeOK
  <1>3. CASE written'[s] = written[s] /\ store'[s] = store[s]
    BY <1>1, <1>2, <1>3 DEF StoreIs, Same, Wanted
  <1>4. CASE ~(written'[s] = written[s] /\ store'[s] = store[s])
    <2>1. PICK r \in Relay, n \in Ids :
             /\ pass[r].pc = "apply" /\ n = At(r)
             /\ store' = [store EXCEPT ![queue[n].child] = Wanted(n)]
             /\ written' = [written EXCEPT ![queue[n].child] = n]
      BY <1>4, Writes DEF InSeries
    <2>2. queue[n].child = s /\ written'[s] = n /\ store'[s] = Wanted(n)
      BY <1>2, <1>4, <2>1
    <2>3. Committed(n)
      BY <2>1, InHand, GroundFacts DEF BatchWaits, InSeries, InBatch, Pending, Committed
    <2>4. n # 0
      BY DEF Ids
    <2> QED
      BY <1>1, <2>2, <2>3, <2>4 DEF Same, Wanted
  <1> QED
    BY <1>3, <1>4

LEMMA StepTreeIs ==
  ASSUME Ground, LastOpen, TreeIs, [Next]_vars
  PROVE  TreeIs'
  <1> SUFFICES ASSUME InSeries, NEW s \in Scope
               PROVE  \/ /\ tree'[s] = FirstTree[s]
                         /\ \A j \in Ids' : queue'[j].child = s => ~Committed(j)'
                      \/ \E i \in Ids' :
                            /\ Committed(i)' /\ queue'[i].child = s /\ tree'[s] = queue'[i].parent
                            /\ \A j \in Ids' : j > i /\ queue'[j].child = s => ~Committed(j)'
    BY SeriesStays DEF TreeIs
  <1>1. /\ \A j \in Ids' : Committed(j)' => j \in Ids /\ (Committed(j) \/ Commit(j))
        /\ \A j \in Ids : Committed(j) => Committed(j)'
        /\ \A j \in Ids : Same(j) /\ j \in Ids'
    BY CommittedStep, SameEntry, NewEntry, GroundFacts DEF Ids
  <1>2. tree \in [Scope -> Node] /\ Len(queue) \in Nat
    BY GroundFacts DEF TypeOK
  <1>3. CASE \A j \in Ids : ~Commit(j)
    <2>1. UNCHANGED tree
      BY <1>3, NextIs DEF Work, Aside, vars, Notify, Rollback, StartPass, Abort, LeaseDrops,
                  RequeueProbe, RequeueWrite, RequeueTake, Step, TakeLease, Busy, Page, Defer,
                  Proceed, Apply, ApplyFails, ApplyTransient, MarkApplied, RequeueHeld
    <2>2. \A j \in Ids' : Committed(j)' => j \in Ids /\ Committed(j)
      BY <1>1, <1>3
    <2>3. CASE tree[s] = FirstTree[s] /\ \A j \in Ids : queue[j].child = s => ~Committed(j)
      BY <1>1, <2>1, <2>2, <2>3 DEF Same
    <2>4. ASSUME NEW i \in Ids, Committed(i) /\ queue[i].child = s /\ tree[s] = queue[i].parent,
                 \A j \in Ids : j > i /\ queue[j].child = s => ~Committed(j)
          PROVE  \E m \in Ids' :
                    /\ Committed(m)' /\ queue'[m].child = s /\ tree'[s] = queue'[m].parent
                    /\ \A j \in Ids' : j > m /\ queue'[j].child = s => ~Committed(j)'
      BY <1>1, <2>1, <2>2, <2>4 DEF Same
    <2> QED
      BY <2>3, <2>4 DEF TreeIs
  <1>4. ASSUME NEW n \in Ids, Commit(n)
        PROVE  \/ /\ tree'[s] = FirstTree[s]
                  /\ \A j \in Ids' : queue'[j].child = s => ~Committed(j)'
               \/ \E i \in Ids' :
                     /\ Committed(i)' /\ queue'[i].child = s /\ tree'[s] = queue'[i].parent
                     /\ \A j \in Ids' : j > i /\ queue'[j].child = s => ~Committed(j)'
    <2>1. /\ tree' = [tree EXCEPT ![queue[n].child] = queue[n].parent]
          /\ queue' = [queue EXCEPT ![n].state = "queued"]
          /\ queue[n].state = "open"
      BY <1>4 DEF Commit
    <2>2. n = Len(queue) /\ n \in Ids'
      BY <1>1, <2>1 DEF LastOpen, InSeries, Serial
    <2>3. queue \in Seq(Entry) /\ queue[n] \in Entry /\ n \in 1..Len(queue)
      BY EntryFacts, GroundFacts DEF TypeOK, Ids
    <2>4. queue'[n].state = "queued" /\ Len(queue') = Len(queue)
      BY <2>1, <2>3 DEF Entry
    <2>5. Ids' = Ids
      BY <2>4 DEF Ids
    <2>6. \A j \in Ids : Commit(j) => j = n
      <3> SUFFICES ASSUME NEW j \in Ids, Commit(j) PROVE j = n
        OBVIOUS
      <3>1. queue[j].state = "open"
        BY DEF Commit
      <3> QED
        BY <2>2, <3>1 DEF LastOpen, InSeries, Serial
    <2>7. CASE queue[n].child = s
      <3>1. tree'[s] = queue[n].parent
        BY <1>2, <2>1, <2>7
      <3>2. Committed(n)' /\ queue'[n].child = s /\ tree'[s] = queue'[n].parent
        BY <1>1, <2>4, <2>7, <3>1 DEF Committed, Same
      <3>3. \A j \in Ids' : ~(j > n)
        BY <1>2, <2>2, <2>5 DEF Ids
      <3> QED
        BY <2>2, <3>2, <3>3
    <2>8. CASE queue[n].child # s
      <3>1. tree'[s] = tree[s]
        BY <1>2, <2>1, <2>8
      <3>2. \A j \in Ids : Committed(j)' /\ queue[j].child = s => Committed(j)
        BY <1>1, <2>5, <2>6, <2>8
      <3>3. CASE tree[s] = FirstTree[s] /\ \A j \in Ids : queue[j].child = s => ~Committed(j)
        BY <1>1, <2>5, <3>1, <3>2, <3>3 DEF Same
      <3>4. ASSUME NEW i \in Ids, Committed(i) /\ queue[i].child = s /\ tree[s] = queue[i].parent,
                   \A j \in Ids : j > i /\ queue[j].child = s => ~Committed(j)
            PROVE  \E m \in Ids' :
                      /\ Committed(m)' /\ queue'[m].child = s /\ tree'[s] = queue'[m].parent
                      /\ \A j \in Ids' : j > m /\ queue'[j].child = s => ~Committed(j)'
        BY <1>1, <2>5, <3>1, <3>2, <3>4 DEF Same
      <3> QED
        BY <3>3, <3>4 DEF TreeIs
    <2> QED
      BY <2>7, <2>8
  <1> QED
    BY <1>3, <1>4

LEMMA StuckDead ==
  ASSUME Ground, NEW j \in Ids, Stuck(j)
  PROVE  AnyDead
  BY HeldByDead DEF Stuck

LEMMA StepMarked ==
  ASSUME Ground, Marked, [Next]_vars
  PROVE  Marked'
  <1> SUFFICES ASSUME InSeries, NEW r \in Relay, pass'[r].pc = "mark", NEW i \in Ids', i = At(r)'
               PROVE  written'[queue'[i].child] = i
    BY SeriesStays DEF Marked
  <1>0. TypeOK /\ InQueue
    BY GroundFacts
  <1>1. CASE pass'[r] = pass[r]
    <2>1. i = At(r)
      BY <1>1 DEF At
    <2>2. i \in Ids /\ pass[r].pc = "mark"
      BY <1>0, <1>1, <2>1, InHand DEF InBatch
    <2>3. written[queue[i].child] = i /\ queue'[i].child = queue[i].child
      BY <1>0, <2>1, <2>2, SameEntry DEF Marked, Same
    <2>4. UNCHANGED written
      <3> SUFFICES ASSUME NEW q \in Relay, pass[q].pc = "apply" PROVE FALSE
        BY Writes DEF InSeries
      <3>1. pass[q].pc \in Holding /\ pass[r].pc \in Holding
        BY <2>2 DEF Holding
      <3> QED
        BY <2>2, <3>1, GroundFacts DEF Exclusive, InSeries
    <2> QED
      BY <2>3, <2>4
  <1>2. CASE Own(r)
    <2>1. Apply(r)
      BY <1>0, <1>2, OwnTurn
    <2>2. pass'[r].batch = pass[r].batch /\ At(r) \in Ids
      BY <1>0, <2>1, MovesOn, InHand DEF Apply, InBatch
    <2>3. i = At(r) /\ i \in Ids
      BY <2>2, SameAt
    <2>4. written' = [written EXCEPT ![queue[i].child] = i] /\ UNCHANGED queue
      BY <2>1, <2>3 DEF Apply, Reach, Lands
    <2>5. queue[i].child \in Scope
      BY <1>0, <2>3, EntryFacts
    <2> QED
      BY <1>0, <2>4, <2>5 DEF TypeOK
  <1>3. ASSUME NEW x, StartPass(r, x) \/ RequeueTake(r, x) PROVE FALSE
    BY <1>0, <1>3, Begins, Takes
  <1>4. CASE Next
    BY <1>0, <1>1, <1>2, <1>3, <1>4, PassStep
  <1> QED
    BY <1>1, <1>4 DEF vars

LEMMA StepNoneBefore ==
  ASSUME OrderInv, NoneBefore, [Next]_vars
  PROVE  NoneBefore'
  <1>0. Ground /\ LastOpen /\ Len(queue) \in Nat
    BY GroundFacts DEF OrderInv
  <1> SUFFICES ASSUME InSeries, ~AnyDead', NEW i \in Ids', NEW j \in Ids', i < j, Touch(i, j)',
                      Pending(i)', queue'[j].state = "applied"
               PROVE  FALSE
    BY SeriesStays DEF NoneBefore
  <1>1. ~AnyDead
    BY <1>0, DeadStays DEF AnyDead
  <1>2. j \in Ids /\ (queue[j].state = "applied" \/ \E r \in Relay : MarkApplied(r) /\ j = At(r))
    BY <1>0, CommittedStep DEF Committed
  <1>3. i \in Ids /\ (Committed(i) \/ Commit(i))
    BY <1>0, CommittedStep DEF Committed, Pending
  <1>4. i \in Nat /\ j \in Nat /\ i \in 1..(j - 1) /\ i # Len(queue)
    BY <1>0, <1>2, <1>3 DEF Ids
  <1>5. queue[i].state # "open"
    BY <1>0, <1>3, <1>4 DEF LastOpen, InSeries, Serial
  <1>6. Pending(i)
    <2>1. CASE Next
      <3>1. queue'[i] = queue[i] => Pending(i)
        BY SeriesStays DEF Pending
      <3>2. Turns(i, "applied") => ~Pending(i)'
        BY DEF Turns, Pending
      <3> QED
        BY <1>0, <1>3, <1>5, <2>1, <3>1, <3>2, SerialEntry
    <2>2. CASE UNCHANGED vars
      BY <2>2 DEF vars, Pending
    <2> QED
      BY <2>1, <2>2
  <1>7. Touch(i, j)
    <2>1. Keys(i)' = Keys(i) /\ Keys(j)' = Keys(j)
      BY <1>0, <1>2, <1>3, SameEntry, SameKeys, GroundFacts
    <2> QED
      BY <2>1 DEF Touch
  <1>8. CASE queue[j].state = "applied"
    BY <1>1, <1>2, <1>3, <1>6, <1>7, <1>8 DEF NoneBefore
  <1>9. ASSUME NEW r \in Relay, MarkApplied(r), j = At(r) PROVE FALSE
    <2>1. pass[r].pc = "mark"
      BY <1>9 DEF MarkApplied
    <2>2. Turn(r)
      BY <2>1 DEF OrderInv, PassesReady, Ready, InTurn, Draining
    <2>3. Stuck(i) \/ \E k \in 1..(i - 1) : Stuck(k)
      BY <1>4, <1>6, <1>7, <1>9, <2>2 DEF Turn
    <2>4. \A k \in 1..(i - 1) : k \in Ids
      BY <1>0, <1>3, <1>4 DEF Ids
    <2> QED
      BY <1>0, <1>1, <1>3, <2>3, <2>4, StuckDead
  <1> QED
    BY <1>2, <1>8, <1>9

LEMMA StepNewest ==
  ASSUME Ground, Marked, NoneBefore, Newest, [Next]_vars
  PROVE  Newest'
  <1> SUFFICES ASSUME InSeries, ~AnyDead', NEW i \in Ids', queue'[i].state = "applied"
               PROVE  i <= written'[queue'[i].child]
    BY SeriesStays DEF Newest
  <1>1. ~AnyDead
    BY DeadStays DEF AnyDead
  <1>2. i \in Ids /\ (queue[i].state = "applied" \/ \E r \in Relay : MarkApplied(r) /\ i = At(r))
    BY CommittedStep DEF Committed
  <1> DEFINE c == queue[i].child
  <1>3. queue'[i].child = c /\ c \in Scope /\ c \in Keys(i) /\ i \in Nat
    BY <1>2, SameEntry, EntryFacts, GroundFacts DEF Same, Ids
  <1>4. CASE queue[i].state = "applied"
    <2>1. i <= written[c]
      BY <1>1, <1>2, <1>4 DEF Newest
    <2>2. CASE written'[c] = written[c]
      BY <1>3, <2>1, <2>2
    <2>3. CASE written'[c] # written[c]
      <3>1. PICK r \in Relay, n \in Ids :
               /\ pass[r].pc = "apply" /\ n = At(r)
               /\ written' = [written EXCEPT ![queue[n].child] = n]
        BY <2>3, Writes DEF InSeries
      <3>2. queue[n].child = c /\ written'[c] = n /\ n \in Nat
        BY <1>3, <2>3, <3>1, GroundFacts DEF TypeOK, Ids
      <3>3. Pending(n) /\ c \in Keys(n)
        BY <3>1, <3>2, InHand, EntryFacts, GroundFacts DEF BatchWaits, InSeries, InBatch
      <3>4. ~(n < i)
        BY <1>1, <1>2, <1>3, <1>4, <3>3 DEF NoneBefore, Touch
      <3> QED
        BY <1>3, <3>2, <3>4
    <2> QED
      BY <2>2, <2>3
  <1>5. ASSUME NEW r \in Relay, MarkApplied(r), i = At(r) PROVE i <= written'[queue'[i].child]
    <2>1. written[c] = i /\ UNCHANGED written
      BY <1>2, <1>5 DEF Marked, MarkApplied
    <2> QED
      BY <1>3, <2>1
  <1> QED
    BY <1>2, <1>4, <1>5

LEMMA InitFollow == Init => FollowInv
  <1> SUFFICES ASSUME Init PROVE FollowInv
    OBVIOUS
  <1>1. Ids = {} /\ \A r \in Relay : pass[r].pc = "idle"
    BY DEF Init, Ids, Idle
  <1>2. Marked /\ NoneBefore /\ Newest
    BY <1>1 DEF Marked, NoneBefore, Newest
  <1>3. StoreIs /\ TreeIs
    BY <1>1 DEF StoreIs, TreeIs, Init
  <1> QED
    BY <1>2, <1>3, InitOrder DEF FollowInv

LEMMA StepFollow == FollowInv /\ [Next]_vars => FollowInv'
  BY StepOrder, StepStoreIs, StepTreeIs, StepMarked, StepNoneBefore, StepNewest DEF FollowInv, OrderInv

LEMMA InvFollows == FollowInv => StoreFollowsTree
  <1> SUFFICES ASSUME FollowInv, InSeries, \A i \in Ids : queue[i].state \in {"void", "applied"}
               PROVE  store = Edges(tree)
    BY DEF StoreFollowsTree, InSeries
  <1>0. TypeOK
    BY GroundFacts DEF FollowInv, OrderInv
  <1>1. ~AnyDead
    BY DEF AnyDead, Dead
  <1>2. /\ StoreIs /\ TreeIs
        /\ \A i \in Ids : queue[i].state = "applied" => i <= written[queue[i].child]
    BY <1>1 DEF FollowInv, Newest
  <1> SUFFICES ASSUME NEW s \in Scope PROVE store[s] = {tree[s]} \ {NoScope}
    BY <1>0 DEF TypeOK, Edges
  <1>3. written[s] \in {0} \cup Ids
    BY <1>0 DEF TypeOK
  <1>4. CASE tree[s] = FirstTree[s] /\ \A j \in Ids : queue[j].child = s => ~Committed(j)
    <2>1. written[s] = 0
      BY <1>2, <1>3, <1>4 DEF StoreIs
    <2> QED
      BY <1>2, <1>4, <2>1 DEF StoreIs, Edges
  <1>5. ASSUME NEW i \in Ids, Committed(i) /\ queue[i].child = s /\ tree[s] = queue[i].parent,
               \A j \in Ids : j > i /\ queue[j].child = s => ~Committed(j)
        PROVE  store[s] = {tree[s]} \ {NoScope}
    <2>1. i <= written[s]
      BY <1>2, <1>5 DEF Committed
    <2>2. written[s] # 0 /\ written[s] \in Ids /\ i \in Nat /\ written[s] \in Nat
      BY <1>3, <2>1 DEF Ids
    <2>3. queue[written[s]].child = s /\ Committed(written[s]) /\ store[s] = Wanted(written[s])
      BY <1>2, <2>2 DEF StoreIs
    <2>4. ~(written[s] > i)
      BY <1>5, <2>2, <2>3
    <2>5. written[s] = i
      BY <2>1, <2>2, <2>4
    <2> QED
      BY <1>5, <2>3, <2>5 DEF Wanted
  <1> QED
    BY <1>2, <1>4, <1>5 DEF TreeIs

\* Once every change that committed in turn is applied, the backend has the tree of the
\* consumer, whatever failed, was aborted or was asked for out of turn on the way.
THEOREM StoreFollows == Spec => []StoreFollowsTree
  BY InitFollow, StepFollow, InvFollows, PTL DEF Spec
=============================================================================
