----------------------------- MODULE FgaProofs -----------------------------
(***************************************************************************)
(* The facts on OpenFGA, for every catalog, every tree and every number of *)
(* clients: what a call reports is what it wrote, a listing tells what     *)
(* held, a purge opens nothing, the trees agree once quiet, and the edges  *)
(* of bindings follow the moves.                                           *)
(***************************************************************************)
EXTENDS FgaFacts, TLAPS, FiniteSetTheorems, SequenceTheorems

Assigning == {"write", "blind", "put"}

Key == Holder \X Place

-----------------------------------------------------------------------------
(* What each write makes of a store.                                       *)

LEMMA AssignFields ==
  ASSUME NEW x \in Store, NEW k \in Key, NEW e
  PROVE  /\ Assign(x, k, e).parent = x.parent
         /\ Assign(x, k, e).binding = x.binding \cup {k[2]}
         /\ Assign(x, k, e).role = x.role \cup {k[2]}
         /\ Assign(x, k, e).held = [x.held EXCEPT ![k] = IF x.held[k] = Absent THEN e ELSE x.held[k]]
         /\ Assign(x, k, e).denied = x.denied
         /\ Assign(x, k, e).permits = x.permits
         /\ Assign(x, k, e).rooted = x.rooted
  BY DEF Assign, AddStructure, Store, Key

LEMMA AssignRest ==
  ASSUME NEW x \in Store, NEW k \in Key, NEW e
  PROVE  /\ Assign(x, k, e).parent = x.parent
         /\ Assign(x, k, e).binding = x.binding \cup {k[2]}
         /\ Assign(x, k, e).role = x.role \cup {k[2]}
         /\ Assign(x, k, e).denied = x.denied
         /\ Assign(x, k, e).permits = x.permits
         /\ Assign(x, k, e).rooted = x.rooted
  BY DEF Assign, AddStructure, Store

LEMMA AssignType ==
  ASSUME NEW x \in Store, NEW k \in Key, NEW e \in Expiry
  PROVE  Assign(x, k, e) \in Store
  <1>1. k[2] \in Place
    BY DEF Key
  <1>2. AddStructure(x, {k[2]}) \in Store /\ AddStructure(x, {k[2]}).held = x.held
    BY <1>1 DEF AddStructure, Store
  <1>3. (IF x.held[k] = Absent THEN e ELSE x.held[k]) \in Expiry \cup {Absent}
    BY DEF Store, Key
  <1>4. [x.held EXCEPT ![k] = IF x.held[k] = Absent THEN e ELSE x.held[k]]
           \in [Holder \X Place -> Expiry \cup {Absent}]
    BY <1>3 DEF Store
  <1> QED
    BY <1>2, <1>4 DEF Assign, Store

LEMMA UnassignFields ==
  ASSUME NEW x \in Store, NEW ks \in SUBSET Key
  PROVE  /\ Unassign(x, ks) \in Store
         /\ Unassign(x, ks).held = [k \in Key |-> IF k \in ks THEN Absent ELSE x.held[k]]
         /\ Unassign(x, ks) = [x EXCEPT !.held = Unassign(x, ks).held]
         /\ Unassign(x, ks).parent = x.parent
         /\ Unassign(x, ks).binding = x.binding
         /\ Unassign(x, ks).role = x.role
         /\ Unassign(x, ks).denied = x.denied
         /\ Unassign(x, ks).permits = x.permits
         /\ Unassign(x, ks).rooted = x.rooted
  <1>1. DOMAIN x.held = Key
    BY DEF Store, Key
  <1>2. [k \in Key |-> IF k \in ks THEN Absent ELSE x.held[k]]
           \in [Holder \X Place -> Expiry \cup {Absent}]
    BY DEF Store, Key
  <1> QED
    BY <1>1, <1>2 DEF Unassign, Store

LEMMA UnassignRest ==
  ASSUME NEW x \in Store, NEW ks \in SUBSET Key
  PROVE  /\ Unassign(x, ks).parent = x.parent
         /\ Unassign(x, ks).binding = x.binding
         /\ Unassign(x, ks).role = x.role
         /\ Unassign(x, ks).denied = x.denied
         /\ Unassign(x, ks).permits = x.permits
         /\ Unassign(x, ks).rooted = x.rooted
  BY UnassignFields, Zenon

LEMMA CutFields ==
  ASSUME NEW x \in Store, NEW pls \in SUBSET Place
  PROVE  /\ CutStructure(x, pls) \in Store
         /\ CutStructure(x, pls).role = x.role \ pls
         /\ CutStructure(x, pls).binding = x.binding \ pls
         /\ CutStructure(x, pls).parent = x.parent
         /\ CutStructure(x, pls).held = x.held
         /\ CutStructure(x, pls).denied = x.denied
         /\ CutStructure(x, pls).permits = x.permits
         /\ CutStructure(x, pls).rooted = x.rooted
  BY DEF CutStructure, Store

LEMMA ReparentFields ==
  ASSUME NEW x \in Store, NEW s \in Scope, NEW ps \in SUBSET Scope
  PROVE  /\ Reparent(x, s, ps) \in Store
         /\ Reparent(x, s, ps).parent = {e \in x.parent : e[1] # s} \cup ({s} \X ps)
         /\ Reparent(x, s, ps).role = x.role
         /\ Reparent(x, s, ps).binding = x.binding
         /\ Reparent(x, s, ps).held = x.held
         /\ Reparent(x, s, ps).denied = x.denied
         /\ Reparent(x, s, ps).permits = x.permits
         /\ Reparent(x, s, ps).rooted = x.rooted
  BY DEF Reparent, Store

\* Only the denies, or only the bindings, change.
LEMMA DeniedFields ==
  ASSUME NEW x \in Store, NEW D \in SUBSET (Holder \X Scope \X Perm)
  PROVE  /\ [x EXCEPT !.denied = D] \in Store
         /\ [x EXCEPT !.denied = D].denied = D
         /\ [x EXCEPT !.denied = D].parent = x.parent
         /\ [x EXCEPT !.denied = D].binding = x.binding
         /\ [x EXCEPT !.denied = D].role = x.role
         /\ [x EXCEPT !.denied = D].held = x.held
         /\ [x EXCEPT !.denied = D].permits = x.permits
         /\ [x EXCEPT !.denied = D].rooted = x.rooted
  BY DEF Store

LEMMA BindingFields ==
  ASSUME NEW x \in Store, NEW B \in SUBSET Place
  PROVE  /\ [x EXCEPT !.binding = B] \in Store
         /\ [x EXCEPT !.binding = B].binding = B
         /\ [x EXCEPT !.binding = B].parent = x.parent
         /\ [x EXCEPT !.binding = B].role = x.role
         /\ [x EXCEPT !.binding = B].held = x.held
         /\ [x EXCEPT !.binding = B].denied = x.denied
         /\ [x EXCEPT !.binding = B].permits = x.permits
         /\ [x EXCEPT !.binding = B].rooted = x.rooted
  BY DEF Store

-----------------------------------------------------------------------------
(* Types.                                                                  *)

CallsOK == call \in [Client -> Call]

StateOK ==
    /\ clock \in Nat
    /\ st \in Store
    /\ tree \subseteq Scope \X Scope
    /\ queue \in Seq(Change)
    /\ relay \in Relay
    /\ stale \subseteq Place /\ late \subseteq Holder
    /\ left \in [{"changes", "calls", "fails"} -> Nat]

LEMMA NoCallType == NoCall \in Call
  <1>1. PICK h \in Holder, r \in Role, a \in Asked : TRUE
    BY FgaFactsAssumption
  <1>2. <<h, <<Root, r>>>> \in Holder \X Place
    BY <1>1, FgaFactsAssumption DEF Place
  <1>3. (CHOOSE k \in Holder \X Place : TRUE) \in Holder \X Place
    BY <1>2
  <1>4. (CHOOSE b \in Asked : TRUE) \in Asked
    BY <1>1
  <1> QED
    BY <1>3, <1>4 DEF NoCall, Call, InGrant, InList, Expiry, Forever

LEMMA AtRestType == AtRest \in Relay
  BY DEF AtRest, Relay, InPurge

LEMMA CallFields ==
  ASSUME NEW k \in Call
  PROVE  /\ k.pc \in InGrant \cup InList \cup {"deny", "idle", "done", "failed"}
         /\ k.key \in Key /\ k.key[1] \in Holder /\ k.key[2] \in Place /\ k.key[2][1] \in Scope
         /\ k.key[2][2] \in Role
         /\ k.asked \in Asked /\ k.exp \in Expiry /\ k.tries \in Nat /\ k.at \in Nat
         /\ k.denied \subseteq Scope /\ k.answer \in BOOLEAN
         /\ k.moved \in BOOLEAN /\ k.raced \in BOOLEAN /\ k.wrote \in BOOLEAN
  BY DEF Call, Key, Place

\* A call in which each field that a step writes gets a value of its type.
LEMMA PcType ==
  ASSUME NEW k \in Call, NEW pc \in InGrant \cup InList
  PROVE  [k EXCEPT !.pc = pc] \in Call
  BY DEF Call

LEMMA ExpType ==
  ASSUME NEW k \in Call, NEW pc \in InGrant, NEW e \in Expiry
  PROVE  [k EXCEPT !.pc = pc, !.exp = e] \in Call
  BY DEF Call

LEMMA TriesType ==
  ASSUME NEW k \in Call
  PROVE  [k EXCEPT !.pc = "reread", !.tries = @ + 1] \in Call
  <1>1. k.tries + 1 \in Nat
    BY DEF Call
  <1>2. \A n \in Nat : [k EXCEPT !.pc = "reread", !.tries = n] \in Call
    BY DEF Call, InGrant
  <1> QED
    BY <1>1, <1>2, Zenon

LEMMA WroteType ==
  ASSUME NEW k \in Call, NEW b \in BOOLEAN
  PROVE  [k EXCEPT !.pc = "put", !.wrote = b] \in Call
  BY DEF Call, InGrant

LEMMA DenialType ==
  ASSUME NEW k \in Call, NEW D \in SUBSET Scope
  PROVE  [k EXCEPT !.pc = "listBindings", !.denied = D] \in Call
  BY DEF Call, InList

LEMMA MovedType ==
  ASSUME NEW k \in Call
  PROVE  [k EXCEPT !.moved = TRUE] \in Call
  BY DEF Call

LEMMA RacedType ==
  ASSUME NEW k \in Call, NEW b \in BOOLEAN
  PROVE  [k EXCEPT !.raced = @ \/ b] \in Call
  <1>1. (k.raced \/ b) \in BOOLEAN
    OBVIOUS
  <1>2. \A v \in BOOLEAN : [k EXCEPT !.raced = v] \in Call
    BY DEF Call
  <1> QED
    BY <1>1, <1>2, Zenon

LEMMA ReturnedType ==
  ASSUME NEW e \in Expiry, NEW b \in BOOLEAN
  PROVE  Returned(e, b) \in Call
  BY NoCallType DEF Returned, Call

LEMMA FailedType ==
  ASSUME CallsOK, NEW c \in Client, NEW b \in BOOLEAN
  PROVE  Failed(c, b) \in Call
  <1>1. (call[c].wrote /\ ~b) \in BOOLEAN
    OBVIOUS
  <1>2. \A v \in BOOLEAN : [NoCall EXCEPT !.pc = "failed", !.wrote = v] \in Call
    BY NoCallType DEF Call
  <1> QED
    BY <1>1, <1>2, Zenon DEF Failed

\* Each way of moving on, for calls and for the rest.
LEMMA RacedOther ==
  ASSUME CallsOK, NEW d \in Client, NEW k \in Key, NEW b \in BOOLEAN
  PROVE  Raced(d, k, b) \in Call
  BY RacedType DEF CallsOK, Raced

LEMMA LandType ==
  ASSUME StateOK, CallsOK, NEW c \in Client, NEW new \in Store, NEW next \in Call,
         Land(c, new, next)
  PROVE  StateOK' /\ CallsOK'
  <1>1. PICK to \in {next, NoCall} :
            call' = [d \in Client |-> IF d = c THEN to ELSE Raced(d, KeyOf(c), new # st)]
    BY DEF Land
  <1>2. to \in Call
    BY <1>1, NoCallType
  <1>3. call[c] \in Call
    BY DEF CallsOK
  <1>4. KeyOf(c) \in Key /\ KeyOf(c)[1] \in Holder
    BY <1>3, CallFields DEF KeyOf
  <1>5. (new # st) \in BOOLEAN
    OBVIOUS
  <1>6. \A d \in Client : Raced(d, KeyOf(c), new # st) \in Call
    BY <1>4, <1>5, RacedOther
  <1>7. CallsOK'
    BY <1>1, <1>2, <1>6, Zenon DEF CallsOK
  <1>8. new.binding \subseteq Place
    BY DEF Store
  <1>9. StateOK'
    BY <1>4, <1>8 DEF StateOK, Land
  <1> QED
    BY <1>7, <1>9

LEMMA TakeAwayType ==
  ASSUME StateOK, CallsOK, NEW k \in Key, NEW new \in Store, TakeAway(k, new)
  PROVE  StateOK' /\ CallsOK'
  <1>1. \A d \in Client : Raced(d, k, TRUE) \in Call
    BY RacedOther
  <1>2. CallsOK'
    BY <1>1 DEF TakeAway, CallsOK
  <1>3. StateOK'
    BY DEF TakeAway, StateOK, Key
  <1> QED
    BY <1>2, <1>3

LEMMA WorkCalls ==
  ASSUME CallsOK, NEW new, NEW r, Work(new, r)
  PROVE  CallsOK'
  <1>1. ASSUME NEW d \in Client
        PROVE  Raced(d, KeyOf(d), new.held # st.held) \in Call
    <2>1. KeyOf(d) \in Key
      BY CallFields DEF KeyOf, CallsOK
    <2>2. (new.held # st.held) \in BOOLEAN
      OBVIOUS
    <2> QED
      BY <2>1, <2>2, RacedOther
  <1> QED
    BY <1>1 DEF Work, CallsOK

\* A request of the relay that leaves the queue, or pops it.
LEMMA WorkType ==
  ASSUME StateOK, CallsOK, NEW new \in Store, NEW r \in Relay, Work(new, r),
         queue' \in Seq(Change), stale' \subseteq Place, late' \subseteq Holder
  PROVE  StateOK' /\ CallsOK'
  BY WorkCalls DEF Work, StateOK

LEMMA GoesOn ==
  ASSUME StateOK, CallsOK, NEW c \in Client, NEW k \in Call,
         call' = [call EXCEPT ![c] = k], OnlyCall
  PROVE  StateOK' /\ CallsOK'
  BY DEF StateOK, CallsOK, OnlyCall

LEMMA BeginType ==
  ASSUME StateOK, CallsOK, NEW c \in Client, NEW k \in Call, Begin(c, k)
  PROVE  StateOK' /\ CallsOK'
  <1>1. left' \in [{"changes", "calls", "fails"} -> Nat]
    BY DEF Begin, StateOK
  <1> QED
    BY <1>1 DEF StateOK, CallsOK, Begin

LEMMA ConsumeType ==
  ASSUME StateOK, CallsOK, NEW change \in Change, NEW edges \in SUBSET (Scope \X Scope),
         Consume(edges, change)
  PROVE  StateOK' /\ CallsOK'
  <1>1. left' \in [{"changes", "calls", "fails"} -> Nat]
    BY DEF Consume, StateOK
  <1>2. queue' \in Seq(Change)
    BY DEF Consume, StateOK
  <1>3. CallsOK'
    BY MovedType DEF Consume, CallsOK
  <1>4. tree' \subseteq Scope \X Scope
    BY DEF Consume, StateOK
  <1> QED
    BY <1>1, <1>2, <1>3, <1>4 DEF StateOK, Consume

LEMMA HeadType ==
  ASSUME StateOK, queue # <<>>
  PROVE  /\ Head(queue) \in Change /\ Child \in Scope /\ Head(queue).parent \in Scope
         /\ Tail(queue) \in Seq(Change)
         /\ Len(Tail(queue)) = Len(queue) - 1 /\ Len(queue) > 0
         /\ \A i \in 1..Len(queue) - 1 : Tail(queue)[i] = queue[i + 1]
         /\ Head(queue) = queue[1]
  <1>1. queue \in Seq(Change)
    BY DEF StateOK
  <1>2. Len(queue) > 0 /\ Len(queue) \in Nat /\ Head(queue) = queue[1]
    BY <1>1, EmptySeq, LenProperties
  <1>3. queue[1] \in Change
    BY <1>1, <1>2, ElementOfSeq
  <1>4. Tail(queue) \in Seq(Change) /\ Len(Tail(queue)) = Len(queue) - 1
    BY <1>1, HeadTailProperties
  <1>5. \A i \in 1..Len(queue) - 1 : Tail(queue)[i] = queue[i + 1]
    BY <1>1, <1>4, HeadTailProperties
  <1> QED
    BY <1>2, <1>3, <1>4, <1>5 DEF Child, Change

-----------------------------------------------------------------------------
(* What a client's step is: it begins, it goes on without a write, it      *)
(* assigns, unassigns or denies.                                           *)

\* How a call goes on without a write.
Goes(k, n) ==
    \/ k.pc \in {"read", "reread"} /\ st.held[k.key] = Absent
          /\ n = [k EXCEPT !.pc = "write", !.exp = Fresh(k.asked)]
    \/ \E e \in Expiry :
          /\ k.pc \in {"read", "reread"} /\ st.held[k.key] # Absent
          /\ \/ e = st.held[k.key] /\ n = Returned(e, FALSE)
             \/ n = [k EXCEPT !.pc = "cut", !.exp = e]
    \/ k.pc \in {"read", "reread"} /\ k.asked \in Expiry
          /\ n = [k EXCEPT !.pc = "blind", !.exp = k.asked]
    \/ k.pc = "write" /\ n = [k EXCEPT !.pc = "reread", !.tries = @ + 1]
    \/ k.pc = "blind" /\ n = [k EXCEPT !.pc = "cut"]
    \/ k.pc = "listDenies"
          /\ n = [k EXCEPT !.pc = "listBindings",
                           !.denied = {d[2] : d \in {x \in st.denied : x[1] = k.key[1]}}]
    \/ k.pc = "listBindings" /\ st.held[k.key] # Absent /\ Live(st.held[k.key], k.at)
          /\ n = [k EXCEPT !.pc = "listChain"]
    \/ k.pc = "listBindings" /\ n = Returned(Forever, FALSE)
    \/ k.pc = "listChain"
          /\ n = Returned(Forever, VisibleNow(k.key[2]) /\ Chain(k.key[2][1]) \cap k.denied = {})

Fails(c, n) == \E b \in BOOLEAN : n = Failed(c, b) /\ (call[c].pc = "put" => b)

LEMMA ReadGoes ==
  ASSUME StateOK, CallsOK, NEW c \in Client, Read(c)
  PROVE  OnlyCall /\ \E n \in Call : call' = [call EXCEPT ![c] = n] /\ Goes(call[c], n)
  <1> DEFINE k == call[c]
  <1>1. k \in Call /\ k.asked \in Asked /\ KeyOf(c) \in Key /\ k.pc \in {"read", "reread"}
    BY CallFields DEF CallsOK, KeyOf, Read
  <1>2. OnlyCall
    BY DEF Read
  <1>3. Fresh(k.asked) \in Expiry /\ (k.asked # Omitted => k.asked \in Expiry)
    BY <1>1, FgaFactsAssumption DEF Fresh, Expiry, Forever
  <1>4. st.held[KeyOf(c)] \in Expiry \cup {Absent}
    BY <1>1 DEF StateOK, Store, Key
  <1>5. CASE st.held[KeyOf(c)] = Absent /\ call' = [call EXCEPT ![c].pc = "write", ![c].exp = Fresh(k.asked)]
    <2> DEFINE n == [k EXCEPT !.pc = "write", !.exp = Fresh(k.asked)]
    <2>1. n \in Call
      BY <1>1, <1>3, ExpType DEF InGrant
    <2>2. call' = [call EXCEPT ![c] = n]
      BY <1>5 DEF CallsOK
    <2>3. Goes(k, n)
      BY <1>1, <1>5 DEF Goes, KeyOf
    <2> QED
      BY <1>2, <2>1, <2>2, <2>3
  <1>6. CASE st.held[KeyOf(c)] # Absent /\ Renew(c)
    <2> DEFINE e == Resolve(st.held[KeyOf(c)], k.asked, clock)
               n == [k EXCEPT !.pc = "cut", !.exp = e]
    <2>1. e \in Expiry
      BY <1>1, <1>3, <1>4, <1>6 DEF Resolve, Expiry, Forever
    <2>2. CASE e = st.held[KeyOf(c)]
      <3>1. Returned(e, FALSE) \in Call
        BY <2>1, ReturnedType
      <3>2. call' = [call EXCEPT ![c] = Returned(e, FALSE)]
        BY <1>6, <2>2 DEF Renew
      <3>3. Goes(k, Returned(e, FALSE))
        BY <1>1, <1>6, <2>1, <2>2 DEF Goes, KeyOf
      <3> QED
        BY <1>2, <3>1, <3>2, <3>3
    <2>3. CASE e # st.held[KeyOf(c)]
      <3>1. n \in Call
        BY <1>1, <2>1, ExpType DEF InGrant
      <3>2. call' = [call EXCEPT ![c] = n]
        BY <1>6, <2>3 DEF Renew, CallsOK
      <3>3. Goes(k, n)
        BY <1>1, <1>6, <2>1 DEF Goes, KeyOf
      <3> QED
        BY <1>2, <3>1, <3>2, <3>3
    <2> QED
      BY <2>2, <2>3
  <1>7. CASE k.asked # Omitted /\ call' = [call EXCEPT ![c].pc = "blind", ![c].exp = k.asked]
    <2> DEFINE n == [k EXCEPT !.pc = "blind", !.exp = k.asked]
    <2>1. n \in Call
      BY <1>1, <1>3, <1>7, ExpType DEF InGrant
    <2>2. call' = [call EXCEPT ![c] = n]
      BY <1>7 DEF CallsOK
    <2>3. Goes(k, n)
      BY <1>1, <1>3, <1>7 DEF Goes
    <2> QED
      BY <1>2, <2>1, <2>2, <2>3
  <1> QED
    BY <1>5, <1>6, <1>7 DEF Read

LEMMA ListGoes ==
  ASSUME StateOK, CallsOK, NEW c \in Client, ListDenies(c) \/ ListBindings(c) \/ ListChain(c)
  PROVE  OnlyCall /\ \E n \in Call : call' = [call EXCEPT ![c] = n] /\ Goes(call[c], n)
  <1> DEFINE k == call[c]
  <1>1. k \in Call /\ KeyOf(c) \in Key
    BY CallFields DEF CallsOK, KeyOf
  <1>2. CASE ListDenies(c)
    <2> DEFINE D == {d[2] : d \in {x \in st.denied : x[1] = KeyOf(c)[1]}}
               n == [k EXCEPT !.pc = "listBindings", !.denied = D]
    <2>1. D \subseteq Scope
      BY DEF StateOK, Store
    <2>2. n \in Call
      BY <1>1, <2>1, DenialType
    <2>3. call' = [call EXCEPT ![c] = n]
      BY <1>2 DEF ListDenies, CallsOK
    <2>4. Goes(k, n)
      BY <1>2 DEF Goes, ListDenies, KeyOf
    <2> QED
      BY <1>2, <2>2, <2>3, <2>4 DEF ListDenies
  <1>3. CASE ListBindings(c)
    <2> DEFINE n == [k EXCEPT !.pc = "listChain"]
    <2>1. k.pc = "listBindings" /\ OnlyCall
      BY <1>3 DEF ListBindings
    <2>2. \/ call' = [call EXCEPT ![c] = Returned(Forever, FALSE)]
          \/ /\ call' = [call EXCEPT ![c] = n]
             /\ st.held[KeyOf(c)] # Absent /\ Live(st.held[KeyOf(c)], k.at)
      BY <1>3 DEF ListBindings
    <2>3. n \in Call /\ Returned(Forever, FALSE) \in Call
      BY <1>1, PcType, ReturnedType DEF InList, Expiry
    <2>4. CASE call' = [call EXCEPT ![c] = Returned(Forever, FALSE)]
      BY <2>1, <2>3, <2>4 DEF Goes
    <2>5. CASE /\ call' = [call EXCEPT ![c] = n]
               /\ st.held[KeyOf(c)] # Absent /\ Live(st.held[KeyOf(c)], k.at)
      <3>1. Goes(k, n)
        BY <2>1, <2>5 DEF Goes, KeyOf
      <3> QED
        BY <2>1, <2>3, <2>5, <3>1
    <2> QED
      BY <2>2, <2>4, <2>5
  <1>4. CASE ListChain(c)
    <2> DEFINE b == VisibleNow(PlaceOf(c)) /\ Chain(ScopeOf(c)) \cap k.denied = {}
               n == Returned(Forever, b)
    <2>1. b \in BOOLEAN
      OBVIOUS
    <2>2. n \in Call
      BY <2>1, ReturnedType, Zenon DEF Expiry
    <2>3. call' = [call EXCEPT ![c] = n] /\ OnlyCall /\ k.pc = "listChain"
      BY <1>4 DEF ListChain
    <2>4. Goes(k, n)
      BY <2>3, Zenon DEF Goes, PlaceOf, ScopeOf
    <2> QED
      BY <2>2, <2>3, <2>4
  <1> QED
    BY <1>2, <1>3, <1>4

\* What a request of c lands: an assignment, the deletion of one, or a deny.
Assigns(c) ==
    /\ call[c].pc \in Assigning
    /\ call[c].pc = "blind" => ~Clashes(st, KeyOf(c))
    /\ Land(c, Assign(st, KeyOf(c), call[c].exp), Returned(call[c].exp, FALSE))

Unassigns(c) ==
    /\ call[c].pc = "cut"
    /\ Land(c, Unassign(st, {KeyOf(c)}),
            [call[c] EXCEPT !.pc = "put", !.wrote = st.held[KeyOf(c)] # Absent])

Denies(c) ==
    /\ call[c].pc = "deny"
    /\ \E D \in SUBSET (Holder \X Scope \X Perm) :
          /\ \A d \in D : d[1] = KeyOf(c)[1] /\ d[2] = ScopeOf(c)
          /\ Land(c, [st EXCEPT !.denied = @ \cup D], Returned(Forever, FALSE))

GoesOrFails(c) ==
    /\ OnlyCall
    /\ \E n \in Call : call' = [call EXCEPT ![c] = n] /\ (Goes(call[c], n) \/ Fails(c, n))

LEMMA FailGoes ==
  ASSUME CallsOK, NEW c \in Client, NEW b \in BOOLEAN, call[c].pc = "put" => b,
         call' = [call EXCEPT ![c] = Failed(c, b)], OnlyCall
  PROVE  GoesOrFails(c)
  BY FailedType DEF GoesOrFails, Fails

LEMMA ClientCases ==
  ASSUME StateOK, CallsOK, NEW c \in Client, Client1(c), ~Start(c)
  PROVE  GoesOrFails(c) \/ Assigns(c) \/ Unassigns(c) \/ Denies(c)
  <1> DEFINE k == call[c]
  <1>1. k \in Call /\ KeyOf(c) \in Key /\ KeyOf(c)[1] \in Holder /\ ScopeOf(c) \in Scope
    BY CallFields DEF CallsOK, KeyOf, ScopeOf
  <1>2. CASE Read(c)
    BY <1>2, ReadGoes DEF GoesOrFails
  <1>3. CASE ListDenies(c) \/ ListBindings(c) \/ ListChain(c)
    BY <1>3, ListGoes DEF GoesOrFails
  <1>4. CASE GiveUp(c)
    <2> DEFINE b == k.pc = "put"
    <2>1. b \in BOOLEAN /\ (k.pc = "put" => b)
      OBVIOUS
    <2>2. call' = [call EXCEPT ![c] = Failed(c, b)] /\ OnlyCall
      BY <1>4 DEF GiveUp
    <2> HIDE DEF b
    <2> QED
      BY <2>1, <2>2, FailGoes
  <1>5. CASE Write(c)
    <2>1. CASE Land(c, Assign(st, KeyOf(c), k.exp), Returned(k.exp, FALSE))
      BY <1>5, <2>1 DEF Write, Assigns, Assigning
    <2>2. CASE k.tries + 1 >= MaxTries /\ call' = [call EXCEPT ![c] = Failed(c, FALSE)] /\ OnlyCall
      BY <1>5, <2>2, FailGoes DEF Write
    <2>3. CASE call' = [call EXCEPT ![c] = [k EXCEPT !.pc = "reread", !.tries = @ + 1]] /\ OnlyCall
      <3> DEFINE n == [k EXCEPT !.pc = "reread", !.tries = @ + 1]
      <3>1. n \in Call
        BY <1>1, TriesType
      <3>2. Goes(k, n)
        BY <1>5 DEF Write, Goes
      <3> QED
        BY <2>3, <3>1, <3>2 DEF GoesOrFails
    <2>4. CASE k.tries + 1 >= MaxTries
      BY <1>5, <2>1, <2>2, <2>4 DEF Write
    <2>5. CASE ~(k.tries + 1 >= MaxTries)
      BY <1>5, <2>1, <2>3, <2>5 DEF Write
    <2> QED
      BY <2>4, <2>5
  <1>6. CASE BlindWrite(c)
    <2>1. CASE ~Clashes(st, KeyOf(c)) /\ Land(c, Assign(st, KeyOf(c), k.exp), Returned(k.exp, FALSE))
      BY <1>6, <2>1 DEF BlindWrite, Assigns, Assigning
    <2>2. CASE Goto(c, "cut") /\ OnlyCall
      <3> DEFINE n == [k EXCEPT !.pc = "cut"]
      <3>1. n \in Call
        BY <1>1, PcType DEF InGrant
      <3>2. Goes(k, n)
        BY <1>6 DEF BlindWrite, Goes
      <3>3. call' = [call EXCEPT ![c] = n]
        BY <2>2 DEF Goto, CallsOK
      <3> QED
        BY <2>2, <3>1, <3>2, <3>3 DEF GoesOrFails
    <2> QED
      BY <1>6, <2>1, <2>2 DEF BlindWrite
  <1>7. CASE ReplaceDelete(c)
    BY <1>7 DEF ReplaceDelete, Unassigns
  <1>8. CASE ReplaceWrite(c)
    BY <1>8 DEF ReplaceWrite, Assigns, Assigning
  <1>9. CASE Deny(c)
    <2>1. PICK p \in Perm :
             Land(c, [st EXCEPT !.denied = @ \cup {<<KeyOf(c)[1], ScopeOf(c), p>>}],
                  Returned(Forever, FALSE))
      BY <1>9 DEF Deny
    <2> DEFINE D == {<<KeyOf(c)[1], ScopeOf(c), p>>}
    <2>2. D \in SUBSET (Holder \X Scope \X Perm) /\ \A d \in D : d[1] = KeyOf(c)[1] /\ d[2] = ScopeOf(c)
      BY <1>1
    <2> QED
      BY <1>9, <2>1, <2>2 DEF Deny, Denies
  <1> QED
    BY <1>2, <1>3, <1>4, <1>5, <1>6, <1>7, <1>8, <1>9 DEF Client1

\* A call begins as one of three.
Starts(c, n) ==
    \/ /\ n.pc = "read" /\ n.key[2] \in GrantAt /\ VisibleNow(n.key[2])
    \/ n.pc = "deny"
    \/ n.pc = "listDenies"

\* What a call that begins has not got yet.
Blank(n) == ~n.moved /\ ~n.raced /\ ~n.wrote

LEMMA StartBegins ==
  ASSUME StateOK, NEW c \in Client, Start(c)
  PROVE  \E n \in Call : Begin(c, n) /\ Starts(c, n) /\ Blank(n)
  <1>1. NoCall \in Call /\ Blank(NoCall)
    BY NoCallType DEF NoCall, Blank
  <1> HIDE DEF NoCall
  <1>2. CASE \E h \in Holder, pl \in GrantAt, asked \in Asked : StartGrant(c, <<h, pl>>, asked)
    <2>1. PICK h \in Holder, pl \in GrantAt, asked \in Asked : StartGrant(c, <<h, pl>>, asked)
      BY <1>2
    <2> DEFINE n == [NoCall EXCEPT !.pc = "read", !.key = <<h, pl>>, !.asked = asked]
    <2>2. pl \in Place
      BY FgaFactsAssumption
    <2>3. n \in Call /\ Blank(n) /\ n.pc = "read" /\ n.key[2] = pl
      BY <1>1, <2>2 DEF Call, InGrant, Blank
    <2> QED
      BY <2>1, <2>3 DEF StartGrant, Starts
  <1>3. CASE \E h \in Holder, pl \in GrantAt : StartList(c, <<h, pl>>)
    <2>1. PICK h \in Holder, pl \in GrantAt : StartList(c, <<h, pl>>)
      BY <1>3
    <2> DEFINE n == [NoCall EXCEPT !.pc = "listDenies", !.key = <<h, pl>>, !.at = clock]
    <2>2. pl \in Place
      BY FgaFactsAssumption
    <2>3. n \in Call /\ Blank(n) /\ n.pc = "listDenies"
      BY <1>1, <2>2 DEF Call, InList, Blank, StateOK
    <2> QED
      BY <2>1, <2>3 DEF StartList, Starts
  <1>4. CASE \E h \in Holder, s \in DenyAt : StartDeny(c, <<h, <<s, AnyRole>>>>)
    <2>1. PICK h \in Holder, s \in DenyAt : StartDeny(c, <<h, <<s, AnyRole>>>>)
      BY <1>4
    <2> DEFINE n == [NoCall EXCEPT !.pc = "deny", !.key = <<h, <<s, AnyRole>>>>]
    <2>2. <<s, AnyRole>> \in Place
      BY FgaFactsAssumption DEF Place, AnyRole
    <2>3. n \in Call /\ Blank(n) /\ n.pc = "deny"
      BY <1>1, <2>2 DEF Call, Blank
    <2> QED
      BY <2>1, <2>3 DEF StartDeny, Starts
  <1> QED
    BY <1>2, <1>3, <1>4 DEF Start

-----------------------------------------------------------------------------
(* The relay has a change in hand, of the kind of its step.                *)

Moving == {"edge", "sweep", "apply"}

Handed ==
    relay.pc # "idle" =>
        /\ queue # <<>>
        /\ relay.pc \in Moving <=> Head(queue).op = "moved"

Typed == StateOK /\ CallsOK /\ Handed

LEMMA ObjectsType ==
  ASSUME NEW s \in Scope
  PROVE  /\ Objects(s) \subseteq Place
         /\ {pl[2] : pl \in Objects(s)} \subseteq Known
         /\ \A pl \in Objects(s) : pl[1] = s
  BY DEF Objects

\* Records of the relay that a step writes.
LEMMA PhaseType ==
  ASSUME NEW r \in Relay, NEW pc \in InPurge \cup Moving, NEW d \in BOOLEAN, NEW u \in BOOLEAN
  PROVE  /\ [r EXCEPT !.pc = pc] \in Relay
         /\ \A C \in SUBSET Place :
               [r EXCEPT !.pc = pc, !.cut = C, !.deleted = d, !.unconfirmed = u, !.seen = {}] \in Relay
         /\ \A C \in SUBSET Place :
               [r EXCEPT !.pc = pc, !.unconfirmed = FALSE, !.cut = C, !.deleted = d] \in Relay
         /\ \A K \in SUBSET Key : [r EXCEPT !.pc = pc, !.keys = K, !.deleted = d] \in Relay
         /\ \A D \in SUBSET (Holder \X Scope \X Perm) :
               /\ [r EXCEPT !.pc = pc, !.denies = D, !.deleted = d] \in Relay
               /\ [r EXCEPT !.pc = pc, !.denies = D] \in Relay
         /\ \A T \in SUBSET Known, K \in SUBSET Key : [r EXCEPT !.pc = pc, !.todo = T, !.keys = K] \in Relay
         /\ \A T \in SUBSET Known, S \in SUBSET Place :
               [r EXCEPT !.pc = pc, !.seen = S, !.todo = T] \in Relay
         /\ \A T \in SUBSET Known : [r EXCEPT !.pc = pc, !.todo = T] \in Relay
         /\ \A T \in SUBSET Known, S \in SUBSET Place, H \in SUBSET Place :
               [r EXCEPT !.todo = T, !.show = S, !.hide = H, !.pc = pc] \in Relay
  <1> USE DEF Relay, Moving, Key
  <1>1. [r EXCEPT !.pc = pc] \in Relay
    OBVIOUS
  <1>2. \A C \in SUBSET Place :
               [r EXCEPT !.pc = pc, !.cut = C, !.deleted = d, !.unconfirmed = u, !.seen = {}] \in Relay
    OBVIOUS
  <1>3. \A C \in SUBSET Place :
               [r EXCEPT !.pc = pc, !.unconfirmed = FALSE, !.cut = C, !.deleted = d] \in Relay
    OBVIOUS
  <1>4. \A K \in SUBSET Key : [r EXCEPT !.pc = pc, !.keys = K, !.deleted = d] \in Relay
    OBVIOUS
  <1>5. \A D \in SUBSET (Holder \X Scope \X Perm) :
               /\ [r EXCEPT !.pc = pc, !.denies = D, !.deleted = d] \in Relay
               /\ [r EXCEPT !.pc = pc, !.denies = D] \in Relay
    OBVIOUS
  <1>6. \A T \in SUBSET Known, K \in SUBSET Key : [r EXCEPT !.pc = pc, !.todo = T, !.keys = K] \in Relay
    OBVIOUS
  <1>7. \A T \in SUBSET Known, S \in SUBSET Place :
               [r EXCEPT !.pc = pc, !.seen = S, !.todo = T] \in Relay
    OBVIOUS
  <1>8. \A T \in SUBSET Known : [r EXCEPT !.pc = pc, !.todo = T] \in Relay
    OBVIOUS
  <1>9. \A T \in SUBSET Known, S \in SUBSET Place, H \in SUBSET Place :
               [r EXCEPT !.todo = T, !.show = S, !.hide = H, !.pc = pc] \in Relay
    OBVIOUS
  <1> QED
    BY <1>1, <1>2, <1>3, <1>4, <1>5, <1>6, <1>7, <1>8, <1>9, Zenon

LEMMA RelayPc ==
  ASSUME NEW r \in Relay, NEW pc \in InPurge \cup Moving
  PROVE  LET w == [r EXCEPT !.pc = pc]
         IN  /\ w \in Relay /\ w.pc = pc /\ w.show = r.show /\ w.hide = r.hide /\ w.todo = r.todo
             /\ w.keys = r.keys /\ w.denies = r.denies /\ w.seen = r.seen /\ w.deleted = r.deleted
             /\ w.unconfirmed = r.unconfirmed /\ w.cut = r.cut
  BY DEF Relay, Moving

LEMMA SweepFields ==
  ASSUME NEW r \in Relay, NEW pc, NEW T, NEW S, NEW H
  PROVE  LET w == [r EXCEPT !.todo = T, !.show = S, !.hide = H, !.pc = pc]
         IN  w.pc = pc /\ w.todo = T /\ w.show = S /\ w.hide = H
  BY DEF Relay

\* The stores and the records of each request of the relay.
LEMMA MoveWork ==
  ASSUME Typed,
         TakeMove \/ WriteEdge \/ (\E r \in Locals : SweepRead(r)) \/ SweepApply
  PROVE  /\ \E new \in Store, r \in Relay : Work(new, r)
         /\ queue # <<>> /\ Head(queue).op = "moved"
         /\ \/ relay'.pc \in Moving /\ queue' = queue
            \/ relay'.pc = "idle" /\ queue' = Tail(queue)
         /\ stale' \subseteq stale /\ late' = late
  <1> USE DEF Typed
  <1>1. st \in Store /\ relay \in Relay /\ Locals \subseteq Known /\ AfterEdge \in Moving
    BY DEF StateOK, Locals, AfterEdge, Moving
  <1>2. CASE TakeMove
    <2>1. PICK pc \in Moving : Think([AtRest EXCEPT !.pc = pc, !.todo = Locals])
      BY <1>1, <1>2 DEF TakeMove, Moving
    <2>2. [AtRest EXCEPT !.pc = pc, !.todo = Locals] \in Relay
      BY <1>1, AtRestType, PhaseType
    <2>3. [AtRest EXCEPT !.pc = pc, !.todo = Locals].pc = pc
      BY DEF AtRest
    <2> QED
      BY <1>1, <1>2, <2>1, <2>2, <2>3 DEF Think, Work, TakeMove
  <1>3. CASE WriteEdge
    <2>1. relay.pc = "edge" /\ queue # <<>> /\ Head(queue).op = "moved"
      BY <1>3 DEF WriteEdge, Handed, Moving
    <2>2. Reparent(st, Child, {Head(queue).parent}) \in Store
      BY <1>1, <2>1, HeadType, ReparentFields
    <2>3. [relay EXCEPT !.pc = AfterEdge] \in Relay /\ [relay EXCEPT !.pc = AfterEdge].pc = AfterEdge
      BY <1>1, RelayPc
    <2> QED
      BY <1>1, <1>3, <2>1, <2>2, <2>3 DEF WriteEdge, Work
  <1>4. ASSUME NEW r \in Locals, SweepRead(r)
        PROVE  /\ \E new \in Store, w \in Relay : Work(new, w)
               /\ relay.pc = "sweep" /\ relay'.pc \in Moving /\ queue' = queue
               /\ stale' = stale /\ late' = late
    <2> DEFINE hung == {pl \in st.role : pl[2] = r /\ pl[1] \in Subtree}
               seen == {pl \in hung : Visible(Catalog[r], pl[1], Up(st, pl[1]))}
               pc == IF relay.todo = {r} THEN "apply" ELSE "sweep"
               w == [relay EXCEPT !.todo = @ \ {r}, !.show = @ \cup seen, !.hide = @ \cup (hung \ seen),
                                  !.pc = pc]
    <2>1. hung \subseteq Place /\ seen \subseteq Place /\ pc \in Moving
      BY <1>1 DEF Store, Moving
    <2>2. relay.todo \subseteq Known /\ relay.show \subseteq Place /\ relay.hide \subseteq Place
      BY <1>1 DEF Relay
    <2> HIDE DEF hung, seen, pc
    <2>3. w \in Relay
      BY <1>1, <2>1, <2>2, PhaseType
    <2>4. w.pc = pc
      BY <1>1, SweepFields
    <2>5. Think(w) /\ relay.pc = "sweep"
      BY <1>4 DEF SweepRead, hung, seen, pc
    <2> HIDE DEF w
    <2> QED
      BY <1>1, <2>1, <2>3, <2>4, <2>5 DEF Think, Work
  <1>5. CASE SweepApply
    <2>1. relay.show \subseteq Place /\ st.binding \subseteq Place
      BY <1>1 DEF Relay, Store
    <2> DEFINE B == (st.binding \ relay.hide) \cup relay.show
    <2>2. [st EXCEPT !.binding = B] \in Store
      BY <1>1, <2>1, BindingFields
    <2>3. AtRest.pc = "idle"
      BY DEF AtRest
    <2> QED
      BY <1>5, <2>2, <2>3, AtRestType DEF SweepApply, Work, Handed, Moving
  <1> QED
    BY <1>2, <1>3, <1>4, <1>5 DEF Handed, Moving

LEMMA PurgeWork ==
  ASSUME Typed,
         \/ TakeDetached \/ PurgeStructure \/ (\E r \in Known : PurgeReadFacts(r)) \/ PurgeFacts
         \/ PurgeStrays \/ PurgeReadDenies \/ PurgeDenies \/ PurgeResidue \/ CutEdge
  PROVE  /\ \E new \in Store, r \in Relay : Work(new, r)
         /\ queue # <<>> /\ Head(queue).op = "detached"
         /\ \/ relay'.pc \in InPurge \cup {"idle"} /\ queue' = queue
            \/ relay'.pc = "idle" /\ queue' = Tail(queue)
         /\ stale' = stale /\ (late' = late \/ late' = {})
  <1> USE DEF Typed
  <1>1. st \in Store /\ relay \in Relay /\ AtRest \in Relay /\ AtRest.pc = "idle"
    BY AtRestType DEF StateOK, AtRest
  <1>2. ASSUME relay.pc \in InPurge
        PROVE  queue # <<>> /\ Head(queue).op = "detached" /\ Child \in Scope
    BY <1>2, HeadType DEF Handed, InPurge, Moving, Change
  <1>3. CASE TakeDetached
    <2> DEFINE S == Hung(Child)
               T == {pl[2] : pl \in Objects(Child)}
               w == [AtRest EXCEPT !.pc = "structure", !.seen = S, !.todo = T]
    <2>1. Child \in Scope
      BY <1>3, HeadType DEF TakeDetached
    <2>2. S \subseteq Place /\ T \subseteq Known
      BY <1>1, <2>1, ObjectsType DEF Hung, Store
    <2>3. w.pc = "structure"
      BY DEF AtRest
    <2> HIDE DEF S, T
    <2>4. w \in Relay
      BY <1>1, <2>2, PhaseType DEF InPurge
    <2>5. Work(st, w) /\ queue' = queue /\ stale' = stale /\ late' = {}
      BY <1>3 DEF TakeDetached, S, T
    <2> HIDE DEF w
    <2> QED
      BY <1>1, <1>3, <2>3, <2>4, <2>5 DEF TakeDetached, Work, InPurge
  <1>4. CASE PurgeStructure
    <2> DEFINE C == Hung(Child) \cap Objects(Child)
               d == relay.seen \cap Objects(Child) # {}
               u == ~(Objects(Child) \subseteq relay.seen)
               w == [relay EXCEPT !.pc = "facts", !.cut = C, !.deleted = d, !.unconfirmed = u, !.seen = {}]
    <2>1. relay.pc \in InPurge
      BY <1>4 DEF PurgeStructure, InPurge
    <2>2. C \subseteq Place /\ d \in BOOLEAN /\ u \in BOOLEAN /\ Objects(Child) \subseteq Place
      BY <1>2, <2>1, ObjectsType
    <2>3. w.pc = "facts"
      BY <1>1 DEF Relay
    <2> HIDE DEF C, d, u
    <2>4. w \in Relay
      BY <1>1, <2>2, PhaseType DEF InPurge
    <2>5. Work(CutStructure(st, Objects(Child)), w) /\ queue' = queue /\ stale' = stale /\ late' = late
      BY <1>4, Zenon DEF PurgeStructure, C, d, u
    <2>6. CutStructure(st, Objects(Child)) \in Store
      BY <1>1, <2>2, CutFields
    <2> HIDE DEF w
    <2> QED
      BY <1>2, <2>1, <2>3, <2>4, <2>5, <2>6 DEF Work, InPurge
  <1>5. ASSUME NEW r \in Known, PurgeReadFacts(r)
        PROVE  /\ \E w \in Relay : Work(st, w)
               /\ relay.pc \in InPurge /\ relay'.pc \in InPurge /\ queue' = queue
               /\ stale' = stale /\ late' = late
    <2> DEFINE T == relay.todo \ {r}
               K == {k \in Holder \X {<<Child, r>>} : st.held[k] # Absent}
               w == [relay EXCEPT !.pc = "assignees", !.todo = T, !.keys = K]
    <2>1. relay.pc \in InPurge
      BY <1>5 DEF PurgeReadFacts, InPurge
    <2>2. <<Child, r>> \in Place
      BY <1>2, <2>1, FgaFactsAssumption DEF Place
    <2>3. K \subseteq Key /\ T \subseteq Known
      BY <1>1, <2>2 DEF Key, Relay
    <2>4. w.pc = "assignees"
      BY <1>1 DEF Relay
    <2> HIDE DEF K, T
    <2>5. w \in Relay
      BY <1>1, <2>3, PhaseType DEF InPurge
    <2>6. Think(w)
      BY <1>5 DEF PurgeReadFacts, K, T
    <2> HIDE DEF w
    <2> QED
      BY <2>1, <2>4, <2>5, <2>6 DEF Think, Work, InPurge
  <1>6. CASE PurgeFacts
    <2> DEFINE d == relay.deleted \/ relay.keys # {}
               w == [relay EXCEPT !.pc = "facts", !.keys = {}, !.deleted = d]
    <2>1. relay.pc \in InPurge
      BY <1>6 DEF PurgeFacts, InPurge
    <2>2. d \in BOOLEAN /\ relay.keys \subseteq Key
      BY <1>1 DEF Relay, Key
    <2>3. w.pc = "facts"
      BY <1>1 DEF Relay
    <2> HIDE DEF d
    <2>4. w \in Relay
      BY <1>1, <2>2, PhaseType DEF InPurge
    <2>5. Work(Unassign(st, relay.keys), w) /\ queue' = queue /\ stale' = stale /\ late' = late
      BY <1>6, Zenon DEF PurgeFacts, d
    <2>6. Unassign(st, relay.keys) \in Store
      BY <1>1, <2>2, UnassignFields
    <2> HIDE DEF w
    <2> QED
      BY <1>2, <2>1, <2>3, <2>4, <2>5, <2>6 DEF Work, InPurge
  <1>7. CASE PurgeStrays
    <2> DEFINE strays == Hung(Child) \ Objects(Child)
               C == relay.cut \cup strays
               d == relay.deleted \/ strays # {}
               w == [relay EXCEPT !.pc = "denies", !.unconfirmed = FALSE, !.cut = C, !.deleted = d]
    <2>1. relay.pc \in InPurge
      BY <1>7 DEF PurgeStrays, InPurge
    <2>2. C \subseteq Place /\ d \in BOOLEAN /\ st.binding \ strays \subseteq Place
      BY <1>1 DEF Relay, Hung, Store
    <2>3. w.pc = "denies"
      BY <1>1 DEF Relay
    <2>5. Work([st EXCEPT !.binding = @ \ strays], w) /\ queue' = queue /\ stale' = stale /\ late' = late
      BY <1>7, Zenon DEF PurgeStrays
    <2> HIDE DEF C, d, strays
    <2>4. w \in Relay
      BY <1>1, <2>2, PhaseType DEF InPurge
    <2>6. [st EXCEPT !.binding = @ \ strays] \in Store
      BY <1>1, <2>2, BindingFields
    <2> HIDE DEF w
    <2> QED
      BY <1>2, <2>1, <2>3, <2>4, <2>5, <2>6 DEF Work, InPurge
  <1>8. CASE PurgeReadDenies
    <2> DEFINE D == {d \in st.denied : d[2] = Child}
               w == [relay EXCEPT !.pc = "cutDenies", !.denies = D]
    <2>1. relay.pc \in InPurge
      BY <1>8 DEF PurgeReadDenies, InPurge
    <2>2. D \subseteq Holder \X Scope \X Perm
      BY <1>1 DEF Store
    <2>3. w.pc = "cutDenies"
      BY <1>1 DEF Relay
    <2> HIDE DEF D
    <2>4. w \in Relay
      BY <1>1, <2>2, PhaseType DEF InPurge
    <2>5. Think(w)
      BY <1>8 DEF PurgeReadDenies, D
    <2> HIDE DEF w
    <2> QED
      BY <1>1, <1>2, <2>1, <2>3, <2>4, <2>5 DEF Think, Work, InPurge
  <1>9. CASE PurgeDenies
    <2> DEFINE d == relay.deleted \/ relay.denies # {}
               w == [relay EXCEPT !.pc = "residue", !.denies = {}, !.deleted = d]
    <2>1. relay.pc \in InPurge
      BY <1>9 DEF PurgeDenies, InPurge
    <2>2. d \in BOOLEAN /\ st.denied \ relay.denies \subseteq Holder \X Scope \X Perm
      BY <1>1 DEF Relay, Store
    <2>3. w.pc = "residue"
      BY <1>1 DEF Relay
    <2>5. Work([st EXCEPT !.denied = @ \ relay.denies], w) /\ queue' = queue /\ stale' = stale /\ late' = late
      BY <1>9, Zenon DEF PurgeDenies
    <2> HIDE DEF d
    <2>4. w \in Relay
      BY <1>1, <2>2, PhaseType DEF InPurge
    <2>6. [st EXCEPT !.denied = @ \ relay.denies] \in Store
      BY <1>1, <2>2, DeniedFields
    <2> HIDE DEF w
    <2> QED
      BY <1>2, <2>1, <2>3, <2>4, <2>5, <2>6 DEF Work, InPurge
  <1>10. CASE PurgeResidue
    <2>1. relay.pc \in InPurge
      BY <1>10 DEF PurgeResidue, InPurge
    <2>2. Think(AtRest) \/ Think([relay EXCEPT !.pc = "detach"])
      BY <1>10 DEF PurgeResidue
    <2>3. [relay EXCEPT !.pc = "detach"] \in Relay /\ [relay EXCEPT !.pc = "detach"].pc = "detach"
      BY <1>1, RelayPc DEF InPurge
    <2> QED
      BY <1>1, <1>2, <2>1, <2>2, <2>3 DEF Think, Work, InPurge
  <1>11. CASE CutEdge
    <2>1. relay.pc \in InPurge
      BY <1>11 DEF CutEdge, InPurge
    <2>2. Reparent(st, Child, {}) \in Store
      BY <1>1, <1>2, <2>1, ReparentFields
    <2> QED
      BY <1>1, <1>2, <1>11, <2>1, <2>2 DEF CutEdge, Finish, Work
  <1>12. CASE \E r \in Known : PurgeReadFacts(r)
    BY <1>1, <1>2, <1>5, <1>12
  <1> QED
    BY <1>3, <1>4, <1>6, <1>7, <1>8, <1>9, <1>10, <1>11, <1>12

LEMMA RelayIs ==
  ASSUME Typed, RelayWork
  PROVE  /\ \E new \in Store, r \in Relay : Work(new, r)
         /\ queue # <<>>
         /\ \/ relay'.pc \in Moving /\ Head(queue).op = "moved" /\ queue' = queue
            \/ relay'.pc \in InPurge /\ Head(queue).op = "detached" /\ queue' = queue
            \/ relay'.pc = "idle" /\ (queue' = queue \/ queue' = Tail(queue))
         /\ stale' \subseteq stale /\ (late' = late \/ late' = {})
  BY MoveWork, PurgeWork, Zenon DEF RelayWork

LEMMA MoveConsumes ==
  ASSUME NEW s \in Scope, NEW p \in Scope, Move(s, p)
  PROVE  \E change \in Change : Consume({<<s, p>>}, change) /\ change.op = "moved"
                                /\ change.child = s /\ change.parent = p
  BY DEF Move, Change

LEMMA DetachConsumes ==
  ASSUME NEW s \in Scope, Detach(s)
  PROVE  \E change \in Change : Consume({}, change) /\ change.op = "detached"
                                /\ change.child = s /\ change.parent = Root
  BY FgaFactsAssumption DEF Detach, Change

LEMMA ConsumeQueue ==
  ASSUME StateOK, NEW change \in Change, queue' = Append(queue, change), queue # <<>>
  PROVE  queue' # <<>> /\ Head(queue') = Head(queue)
  <1>1. queue \in Seq(Change) /\ Len(queue) > 0
    BY EmptySeq, LenProperties DEF StateOK
  <1> QED
    BY <1>1, AppendProperties

\* A revocation, or the removal of a deny, is one.
LEMMA RevokeType ==
  ASSUME StateOK, NEW k \in Holder \X GrantAt
  PROVE  k \in Key /\ Unassign(st, {k}) \in Store
  <1>1. k \in Key
    BY FgaFactsAssumption DEF Key
  <1> QED
    BY <1>1, UnassignFields DEF StateOK

LEMMA RemoveType ==
  ASSUME StateOK, NEW d \in st.denied
  PROVE  LET k == <<d[1], <<d[2], AnyRole>>>>
         IN  /\ k \in Key
             /\ [st EXCEPT !.denied = {x \in @ : ~(x[1] = k[1] /\ x[2] = k[2][1])}] \in Store
  <1>1. AnyRole \in Role
    BY FgaFactsAssumption DEF AnyRole
  <1>2. d \in Holder \X Scope \X Perm
    BY DEF StateOK, Store
  <1> QED
    BY <1>1, <1>2, DeniedFields DEF Key, Place, StateOK, Store

LEMMA LandTypes ==
  ASSUME StateOK, CallsOK, NEW c \in Client, Assigns(c) \/ Unassigns(c) \/ Denies(c)
  PROVE  StateOK' /\ CallsOK' /\ UNCHANGED <<relay, queue>>
  <1>1. call[c] \in Call /\ KeyOf(c) \in Key /\ call[c].exp \in Expiry /\ st \in Store
    BY CallFields DEF CallsOK, KeyOf, StateOK
  <1>2. CASE Assigns(c)
    <2>1. Returned(call[c].exp, FALSE) \in Call /\ Assign(st, KeyOf(c), call[c].exp) \in Store
      BY <1>1, ReturnedType, AssignType
    <2>2. Land(c, Assign(st, KeyOf(c), call[c].exp), Returned(call[c].exp, FALSE))
      BY <1>2 DEF Assigns
    <2> QED
      BY <2>1, <2>2, LandType DEF Land
  <1>3. CASE Unassigns(c)
    <2> DEFINE b == st.held[KeyOf(c)] # Absent
               n == [call[c] EXCEPT !.pc = "put", !.wrote = b]
    <2>1. Land(c, Unassign(st, {KeyOf(c)}), n)
      BY <1>3 DEF Unassigns
    <2>2. b \in BOOLEAN
      OBVIOUS
    <2> HIDE DEF b
    <2>3. n \in Call /\ Unassign(st, {KeyOf(c)}) \in Store
      BY <1>1, <2>2, WroteType, UnassignFields
    <2> HIDE DEF n
    <2> QED
      BY <2>1, <2>3, LandType DEF Land
  <1>4. CASE Denies(c)
    <2>1. PICK D \in SUBSET (Holder \X Scope \X Perm) :
             Land(c, [st EXCEPT !.denied = @ \cup D], Returned(Forever, FALSE))
      BY <1>4 DEF Denies
    <2>2. Returned(Forever, FALSE) \in Call /\ [st EXCEPT !.denied = @ \cup D] \in Store
      BY <1>1, ReturnedType, DeniedFields DEF Expiry, Store
    <2> QED
      BY <2>1, <2>2, LandType DEF Land
  <1> QED
    BY <1>2, <1>3, <1>4

LEMMA TypedStep ==
  ASSUME Typed, Step
  PROVE  Typed'
  <1> USE DEF Typed
  <1>1. CASE \E s, p \in Scope : Move(s, p)
    <2>1. PICK s \in Scope, p \in Scope, change \in Change : Consume({<<s, p>>}, change)
      BY <1>1, MoveConsumes
    <2>2. StateOK' /\ CallsOK'
      BY <2>1, ConsumeType
    <2> QED
      BY <2>1, <2>2, ConsumeQueue DEF Consume, Handed
  <1>2. CASE \E s \in Scope : Detach(s)
    <2>1. PICK change \in Change : Consume({}, change)
      BY <1>2, DetachConsumes
    <2>2. StateOK' /\ CallsOK'
      BY <2>1, ConsumeType
    <2> QED
      BY <2>1, <2>2, ConsumeQueue DEF Consume, Handed
  <1>3. ASSUME NEW c \in Client, Client1(c)
        PROVE  StateOK' /\ CallsOK' /\ UNCHANGED <<relay, queue>>
    <2>1. CASE Start(c)
      BY <2>1, StartBegins, BeginType DEF Begin
    <2>2. CASE GoesOrFails(c)
      BY <2>2, GoesOn DEF GoesOrFails, OnlyCall
    <2> QED
      BY <1>3, <2>1, <2>2, LandTypes, ClientCases
  <1>4. CASE \E k \in Holder \X GrantAt : Revoke(k)
    BY <1>4, RevokeType, TakeAwayType DEF Revoke, TakeAway, Handed
  <1>5. CASE \E d \in st.denied : RemoveDeny(<<d[1], <<d[2], AnyRole>>>>)
    BY <1>5, RemoveType, TakeAwayType DEF RemoveDeny, TakeAway, Handed
  <1>6. CASE RelayWork
    <2>1. PICK new \in Store, r \in Relay : Work(new, r)
      BY <1>6, RelayIs
    <2>2. queue' \in Seq(Change) /\ stale' \subseteq Place /\ late' \subseteq Holder
      BY <1>6, RelayIs, HeadType DEF StateOK
    <2>3. StateOK' /\ CallsOK'
      BY <2>1, <2>2, WorkType
    <2>4. Handed'
      BY <1>6, RelayIs DEF Handed, InPurge, Moving
    <2> QED
      BY <2>3, <2>4
  <1>7. CASE RelayFail
    BY <1>7, AtRestType DEF RelayFail, StateOK, CallsOK, Handed, AtRest
  <1>8. CASE Tick
    BY <1>8 DEF Tick, StateOK, CallsOK, Handed
  <1> QED
    BY <1>1, <1>2, <1>3, <1>4, <1>5, <1>6, <1>7, <1>8 DEF Step, Handed

LEMMA TypedInit ==
  ASSUME Init
  PROVE  Typed
  <1>1. st \in Store
    <2>1. [k \in Holder \X Place |-> Absent] \in [Holder \X Place -> Expiry \cup {Absent}]
      OBVIOUS
    <2> QED
      BY <2>1, FgaFactsAssumption DEF Init, Store
  <1>2. queue \in Seq(Change)
    BY EmptySeq DEF Init
  <1>3. left \in [{"changes", "calls", "fails"} -> Nat]
    BY FgaFactsAssumption DEF Init
  <1>4. CallsOK
    BY NoCallType DEF Init, CallsOK
  <1> QED
    BY <1>1, <1>2, <1>3, <1>4, AtRestType, FgaFactsAssumption DEF Init, Typed, StateOK, Handed, AtRest

LEMMA TypedAlways == Typed /\ [Next]_vars => Typed'
  <1>1. ASSUME Typed, UNCHANGED vars PROVE Typed'
    BY <1>1 DEF Typed, StateOK, CallsOK, Handed, vars
  <1> QED
    BY <1>1, TypedStep DEF Next

-----------------------------------------------------------------------------
(* What a step leaves of the calls of others.                              *)

\* The same call, perhaps marked.
Same(k, j) ==
    /\ j.pc = k.pc /\ j.key = k.key /\ j.asked = k.asked /\ j.exp = k.exp /\ j.at = k.at
    /\ j.denied = k.denied /\ j.wrote = k.wrote
    /\ k.raced => j.raced
    /\ k.moved => j.moved

\* The same call; it is told of a change of its key, and of the tree.
Around(d) ==
    /\ Same(call[d], call'[d])
    /\ Ongoing(d) /\ st'.held[KeyOf(d)] # st.held[KeyOf(d)] => call'[d].raced
    /\ Ongoing(d) /\ tree' # tree => call'[d].moved

LEMMA MarkedSame ==
  ASSUME NEW k \in Call
  PROVE  Same(k, k) /\ Same(k, [k EXCEPT !.moved = TRUE]) /\ [k EXCEPT !.moved = TRUE].moved
  BY DEF Call, Same

LEMMA RacedSame ==
  ASSUME CallsOK, NEW d \in Client, NEW k, NEW b \in BOOLEAN
  PROVE  /\ Same(call[d], Raced(d, k, b))
         /\ Ongoing(d) /\ KeyOf(d) = k /\ b => Raced(d, k, b).raced
  <1>1. call[d] \in Call
    BY DEF CallsOK
  <1>2. \A v \in BOOLEAN :
            LET j == [call[d] EXCEPT !.raced = v]
            IN  j.raced = v /\ ((call[d].raced => v) => Same(call[d], j))
    BY <1>1 DEF Call, Same
  <1>3. CASE Ongoing(d) /\ KeyOf(d) = k
    <2> DEFINE v == call[d].raced \/ b
    <2>1. v \in BOOLEAN /\ (call[d].raced => v) /\ (b => v)
      OBVIOUS
    <2>2. Raced(d, k, b) = [call[d] EXCEPT !.raced = v]
      BY <1>3, Zenon DEF Raced
    <2> HIDE DEF v
    <2> QED
      BY <1>2, <2>1, <2>2, Zenon
  <1>4. CASE ~(Ongoing(d) /\ KeyOf(d) = k)
    BY <1>1, <1>4, MarkedSame DEF Raced
  <1> QED
    BY <1>3, <1>4

LEMMA LandAround ==
  ASSUME CallsOK, NEW c \in Client, NEW d \in Client \ {c}, NEW new, NEW next, Land(c, new, next),
         \A k \in Key \ {KeyOf(c)} : new.held[k] = st.held[k]
  PROVE  Around(d)
  <1> DEFINE b == new # st
  <1>1. call'[d] = Raced(d, KeyOf(c), b)
    BY DEF Land
  <1>2. b \in BOOLEAN /\ (st'.held[KeyOf(d)] # st.held[KeyOf(d)] => b) /\ st' = new /\ tree' = tree
    BY DEF Land
  <1> HIDE DEF b
  <1>3. KeyOf(d) \in Key
    BY CallFields DEF CallsOK, KeyOf
  <1> QED
    BY <1>1, <1>2, <1>3, RacedSame DEF Around

LEMMA AssignElse ==
  ASSUME NEW x \in Store, NEW k \in Key, NEW e, NEW j \in Key, j # k
  PROVE  Assign(x, k, e).held[j] = x.held[j]
  <1>1. x.held \in [Key -> Expiry \cup {Absent}]
    BY DEF Store, Key
  <1>2. Assign(x, k, e).held = [x.held EXCEPT ![k] = IF x.held[k] = Absent THEN e ELSE x.held[k]]
    BY AssignFields
  <1> QED
    BY <1>1, <1>2

LEMMA AssignOwn ==
  ASSUME NEW x \in Store, NEW k \in Key, NEW e
  PROVE  Assign(x, k, e).held[k] = IF x.held[k] = Absent THEN e ELSE x.held[k]
  <1>1. x.held \in [Key -> Expiry \cup {Absent}]
    BY DEF Store, Key
  <1>2. Assign(x, k, e).held = [x.held EXCEPT ![k] = IF x.held[k] = Absent THEN e ELSE x.held[k]]
    BY AssignFields
  <1> QED
    BY <1>1, <1>2

LEMMA UnassignAt ==
  ASSUME NEW x \in Store, NEW ks \in SUBSET Key, NEW j \in Key
  PROVE  Unassign(x, ks).held[j] = IF j \in ks THEN Absent ELSE x.held[j]
  <1>1. Unassign(x, ks).held = [k \in Key |-> IF k \in ks THEN Absent ELSE x.held[k]]
    BY UnassignFields
  <1> QED
    BY <1>1

LEMMA HeldElse ==
  ASSUME Typed, NEW c \in Client, Assigns(c) \/ Unassigns(c) \/ Denies(c), NEW d \in Client \ {c}
  PROVE  Around(d)
  <1>1. st \in Store /\ KeyOf(c) \in Key /\ CallsOK
    BY CallFields DEF Typed, StateOK, CallsOK, KeyOf
  <1>2. CASE Assigns(c)
    <2>1. \A k \in Key \ {KeyOf(c)} : Assign(st, KeyOf(c), call[c].exp).held[k] = st.held[k]
      BY <1>1, AssignElse
    <2>2. Land(c, Assign(st, KeyOf(c), call[c].exp), Returned(call[c].exp, FALSE))
      BY <1>2 DEF Assigns
    <2> QED
      BY <1>1, <2>1, <2>2, LandAround
  <1>3. CASE Unassigns(c)
    <2>1. \A k \in Key \ {KeyOf(c)} : Unassign(st, {KeyOf(c)}).held[k] = st.held[k]
      BY <1>1, UnassignAt
    <2>2. Land(c, Unassign(st, {KeyOf(c)}),
               [call[c] EXCEPT !.pc = "put", !.wrote = st.held[KeyOf(c)] # Absent])
      BY <1>3 DEF Unassigns
    <2> QED
      BY <1>1, <2>1, <2>2, LandAround
  <1>4. CASE Denies(c)
    <2>1. PICK D \in SUBSET (Holder \X Scope \X Perm) :
             Land(c, [st EXCEPT !.denied = @ \cup D], Returned(Forever, FALSE))
      BY <1>4 DEF Denies
    <2>2. [st EXCEPT !.denied = @ \cup D].held = st.held
      BY <1>1 DEF Store
    <2> QED
      BY <1>1, <2>1, <2>2, LandAround
  <1> QED
    BY <1>2, <1>3, <1>4

LEMMA TakeAwayAround ==
  ASSUME CallsOK, NEW k \in Key, NEW new, TakeAway(k, new), NEW d \in Client,
         \A j \in Key \ {k} : new.held[j] = st.held[j]
  PROVE  Around(d)
  <1>1. call'[d] = Raced(d, k, TRUE) /\ st' = new /\ tree' = tree
    BY DEF TakeAway
  <1>2. KeyOf(d) \in Key
    BY CallFields DEF CallsOK, KeyOf
  <1> QED
    BY <1>1, <1>2, RacedSame DEF Around

LEMMA OtherSteps ==
  ASSUME Typed, Step, NEW d \in Client
  PROVE  Client1(d) \/ Around(d)
  <1> USE DEF Typed
  <1>0. call[d] \in Call /\ Same(call[d], call[d])
    BY MarkedSame DEF CallsOK
  <1>1. ASSUME NEW change, NEW edges, Consume(edges, change)
        PROVE  Around(d)
    <2>1. st' = st
      BY <1>1 DEF Consume
    <2>2. CASE Ongoing(d)
      BY <1>0, <1>1, <2>1, <2>2, MarkedSame DEF Consume, Around
    <2>3. CASE ~Ongoing(d)
      BY <1>0, <1>1, <2>1, <2>3 DEF Consume, Around
    <2> QED
      BY <2>2, <2>3
  <1>2. CASE (\E s, p \in Scope : Move(s, p)) \/ (\E s \in Scope : Detach(s))
    BY <1>1, <1>2 DEF Move, Detach
  <1>3. ASSUME NEW c \in Client, Client1(c), c # d
        PROVE  Around(d)
    <2>1. CASE Start(c)
      BY <1>0, <1>3, <2>1, StartBegins DEF Begin, Around, CallsOK
    <2>2. CASE GoesOrFails(c)
      BY <1>0, <1>3, <2>2 DEF GoesOrFails, OnlyCall, Around, CallsOK
    <2> QED
      BY <1>3, <2>1, <2>2, HeldElse, ClientCases
  <1>4. CASE \E k \in Holder \X GrantAt : Revoke(k)
    <2>1. PICK k \in Holder \X GrantAt : Revoke(k)
      BY <1>4
    <2>2. k \in Key /\ st \in Store
      BY RevokeType DEF StateOK
    <2>3. \A j \in Key \ {k} : Unassign(st, {k}).held[j] = st.held[j]
      BY <2>2, UnassignAt
    <2> QED
      BY <2>1, <2>2, <2>3, TakeAwayAround DEF Revoke
  <1>5. CASE \E x \in st.denied : RemoveDeny(<<x[1], <<x[2], AnyRole>>>>)
    <2>1. PICK x \in st.denied : RemoveDeny(<<x[1], <<x[2], AnyRole>>>>)
      BY <1>5
    <2> DEFINE k == <<x[1], <<x[2], AnyRole>>>>
               new == [st EXCEPT !.denied = {y \in @ : ~(y[1] = k[1] /\ y[2] = k[2][1])}]
    <2>2. k \in Key /\ new.held = st.held
      BY RemoveType DEF StateOK, Store
    <2> QED
      BY <2>1, <2>2, TakeAwayAround DEF RemoveDeny
  <1>6. CASE RelayWork
    <2>1. PICK new \in Store, r \in Relay : Work(new, r)
      BY <1>6, RelayIs
    <2> DEFINE b == new.held # st.held
    <2>2. call'[d] = Raced(d, KeyOf(d), b) /\ st' = new /\ tree' = tree
      BY <2>1 DEF Work
    <2>3. b \in BOOLEAN /\ (st'.held[KeyOf(d)] # st.held[KeyOf(d)] => b)
      BY <2>2
    <2> HIDE DEF b
    <2>4. /\ Same(call[d], Raced(d, KeyOf(d), b))
          /\ Ongoing(d) /\ b => Raced(d, KeyOf(d), b).raced
      BY <2>3, RacedSame
    <2> QED
      BY <2>2, <2>3, <2>4, Zenon DEF Around
  <1>7. CASE RelayFail \/ Tick
    BY <1>0, <1>7 DEF RelayFail, Tick, Around
  <1> QED
    BY <1>2, <1>3, <1>4, <1>5, <1>6, <1>7 DEF Step

-----------------------------------------------------------------------------
(* What a call reports.                                                    *)

LEMMA EndFields ==
  /\ NoCall.pc = "idle" /\ ~NoCall.wrote
  /\ \A e, b : LET n == Returned(e, b) IN n.pc = "done" /\ ~n.wrote /\ n.exp = e /\ n.answer = b
  /\ \A c \in Client, b \in BOOLEAN :
        Failed(c, b).pc = "failed" /\ Failed(c, b).wrote = (call[c].wrote /\ ~b)
  BY Zenon DEF NoCall, Returned, Failed

LEMMA Ends ==
  ASSUME NEW n, NEW e, n = Returned(e, FALSE) \/ n = NoCall
  PROVE  n.pc \in {"done", "idle"} /\ ~n.wrote /\ (n.pc = "done" => n.exp = e)
  <1>1. Returned(e, FALSE).pc = "done" /\ ~Returned(e, FALSE).wrote /\ Returned(e, FALSE).exp = e
    BY EndFields, Zenon
  <1>2. NoCall.pc = "idle" /\ ~NoCall.wrote
    BY EndFields, Zenon
  <1> QED
    BY <1>1, <1>2

\* A step that writes nothing ends the call or takes it on, with the same key.
LEMMA GoesFields ==
  ASSUME NEW k \in Call, NEW n \in Call, Goes(k, n)
  PROVE  /\ n.pc = "done" \/ n.pc \in (InGrant \ {"read", "put"}) \cup {"listBindings", "listChain"}
         /\ n.pc = "done" => ~n.wrote
         /\ n.pc # "done" => /\ n.key = k.key /\ n.at = k.at /\ n.asked = k.asked
                             /\ n.wrote = k.wrote /\ n.raced = k.raced /\ n.moved = k.moved
         /\ n.pc \in InGrant => k.pc \in {"read", "reread", "write", "blind"}
         /\ n.pc \in InList => k.pc \in InList
         /\ n.pc = "write" => st.held[k.key] = Absent
         /\ n.pc = "done" /\ k.pc \in InGrant => n.exp = st.held[k.key]
         /\ n.pc = "listBindings" =>
               n.denied = {d[2] : d \in {x \in st.denied : x[1] = k.key[1]}}
         /\ n.pc = "listChain" => /\ k.pc = "listBindings" /\ n.denied = k.denied
                                  /\ st.held[k.key] # Absent /\ Live(st.held[k.key], k.at)
         /\ k.pc = "listChain" /\ n.answer =>
               VisibleNow(k.key[2]) /\ Chain(k.key[2][1]) \cap k.denied = {}
         /\ k.pc \notin {"put", "cut", "deny", "idle", "done", "failed"}
  <1> DEFINE F(D) ==
         /\ n.pc \in (InGrant \ {"read", "put"}) \cup {"listBindings", "listChain"}
         /\ n.key = k.key /\ n.at = k.at /\ n.asked = k.asked
         /\ n.wrote = k.wrote /\ n.raced = k.raced /\ n.moved = k.moved /\ n.denied = D
  <1>1. CASE k.pc \in {"read", "reread"} /\ st.held[k.key] = Absent
             /\ n = [k EXCEPT !.pc = "write", !.exp = Fresh(k.asked)]
    <2>1. F(k.denied) /\ n.pc = "write"
      BY <1>1 DEF Call, InGrant
    <2> QED
      BY <1>1, <2>1 DEF InGrant, InList
  <1>2. CASE \E e \in Expiry : k.pc \in {"read", "reread"} /\ e = st.held[k.key] /\ n = Returned(e, FALSE)
    <2>1. PICK e \in Expiry : k.pc \in {"read", "reread"} /\ e = st.held[k.key] /\ n = Returned(e, FALSE)
      BY <1>2
    <2>2. n.pc = "done" /\ ~n.wrote /\ n.exp = st.held[k.key] /\ n.answer = FALSE
      BY <2>1, EndFields, Zenon
    <2> QED
      BY <2>1, <2>2 DEF InGrant, InList
  <1>3. CASE \E e \in Expiry : k.pc \in {"read", "reread"} /\ n = [k EXCEPT !.pc = "cut", !.exp = e]
    <2>1. F(k.denied) /\ n.pc = "cut"
      BY <1>3 DEF Call, InGrant
    <2> QED
      BY <1>3, <2>1 DEF InGrant, InList
  <1>4. CASE k.pc \in {"read", "reread"} /\ n = [k EXCEPT !.pc = "blind", !.exp = k.asked]
    <2>1. F(k.denied) /\ n.pc = "blind"
      BY <1>4 DEF Call, InGrant
    <2> QED
      BY <1>4, <2>1 DEF InGrant, InList
  <1>5. CASE k.pc = "write" /\ n = [k EXCEPT !.pc = "reread", !.tries = @ + 1]
    <2>1. F(k.denied) /\ n.pc = "reread"
      BY <1>5 DEF Call, InGrant
    <2> QED
      BY <1>5, <2>1 DEF InGrant, InList
  <1>6. CASE k.pc = "blind" /\ n = [k EXCEPT !.pc = "cut"]
    <2>1. F(k.denied) /\ n.pc = "cut"
      BY <1>6 DEF Call, InGrant
    <2> QED
      BY <1>6, <2>1 DEF InGrant, InList
  <1>7. CASE k.pc = "listDenies"
             /\ n = [k EXCEPT !.pc = "listBindings",
                              !.denied = {d[2] : d \in {x \in st.denied : x[1] = k.key[1]}}]
    <2>1. F({d[2] : d \in {x \in st.denied : x[1] = k.key[1]}}) /\ n.pc = "listBindings"
      BY <1>7 DEF Call
    <2> QED
      BY <1>7, <2>1 DEF InGrant, InList
  <1>8. CASE k.pc = "listBindings" /\ st.held[k.key] # Absent /\ Live(st.held[k.key], k.at)
             /\ n = [k EXCEPT !.pc = "listChain"]
    <2>1. F(k.denied) /\ n.pc = "listChain"
      BY <1>8 DEF Call
    <2> QED
      BY <1>8, <2>1 DEF InGrant, InList
  <1>9. CASE k.pc = "listBindings" /\ n = Returned(Forever, FALSE)
    <2>1. n.pc = "done" /\ ~n.wrote /\ n.answer = FALSE
      BY <1>9, EndFields, Zenon
    <2> QED
      BY <1>9, <2>1 DEF InGrant, InList
  <1>10. CASE k.pc = "listChain"
              /\ n = Returned(Forever, VisibleNow(k.key[2]) /\ Chain(k.key[2][1]) \cap k.denied = {})
    <2> DEFINE b == VisibleNow(k.key[2]) /\ Chain(k.key[2][1]) \cap k.denied = {}
    <2>1. n.pc = "done" /\ ~n.wrote /\ n.answer = b
      BY <1>10, EndFields, Zenon
    <2>2. n.answer => b
      BY <2>1
    <2> QED
      BY <1>10, <2>1, <2>2 DEF InGrant, InList
  <1> QED
    BY <1>1, <1>2, <1>3, <1>4, <1>5, <1>6, <1>7, <1>8, <1>9, <1>10, Zenon DEF Goes

\* Only a call that has deleted an assignment, and is about to write it again, has written;
\* and what nobody raced is still absent.
Kept(k, held) ==
    /\ k.wrote => k.pc = "put"
    /\ k.pc \in {"write", "put"} /\ ~k.raced => held[k.key] = Absent

AllKept == \A c \in Client : Kept(call[c], st.held)

LEMMA OwnLand ==
  ASSUME Typed, NEW c \in Client
  PROVE  /\ Assigns(c) => call'[c] = Returned(call[c].exp, FALSE) \/ call'[c] = NoCall
         /\ Unassigns(c) =>
               \/ call'[c] = [call[c] EXCEPT !.pc = "put", !.wrote = st.held[KeyOf(c)] # Absent]
               \/ call'[c] = NoCall
         /\ Denies(c) => call'[c] = Returned(Forever, FALSE) \/ call'[c] = NoCall
  BY DEF Assigns, Unassigns, Denies, Land

LEMMA KeptStep ==
  ASSUME Typed, AllKept, Step
  PROVE  AllKept'
  <1> SUFFICES ASSUME NEW d \in Client
               PROVE  Kept(call'[d], st'.held)
    BY DEF AllKept
  <1>1. call[d] \in Call /\ Kept(call[d], st.held) /\ KeyOf(d) \in Key /\ st \in Store /\ CallsOK
    BY CallFields DEF Typed, CallsOK, AllKept, KeyOf, StateOK
  <1>2. CASE Around(d)
    BY <1>1, <1>2 DEF Around, Same, Kept, Ongoing, KeyOf
  <1>3. CASE Client1(d) /\ Start(d)
    <2>1. PICK n \in Call : Begin(d, n) /\ Starts(d, n) /\ Blank(n)
      BY <1>3, StartBegins DEF Typed
    <2>2. call'[d] = n /\ st' = st
      BY <2>1 DEF Begin, Typed, CallsOK
    <2> QED
      BY <2>1, <2>2 DEF Starts, Blank, Kept
  <1>4. CASE GoesOrFails(d)
    <2>1. PICK n \in Call : call' = [call EXCEPT ![d] = n] /\ (Goes(call[d], n) \/ Fails(d, n))
      BY <1>4 DEF GoesOrFails
    <2>2. call'[d] = n /\ st' = st
      BY <1>4, <2>1 DEF GoesOrFails, OnlyCall, Typed, CallsOK
    <2>3. CASE Goes(call[d], n)
      BY <1>1, <2>2, <2>3, GoesFields DEF Kept, InGrant
    <2>4. CASE Fails(d, n)
      <3>1. n.pc = "failed" /\ ~n.wrote
        BY <1>1, <2>4, EndFields DEF Fails, Kept
      <3> QED
        BY <2>2, <3>1 DEF Kept
    <2> QED
      BY <2>1, <2>3, <2>4
  <1>5. CASE Assigns(d) \/ Denies(d)
    <2>1. \E e : call'[d] = Returned(e, FALSE) \/ call'[d] = NoCall
      BY <1>5, OwnLand
    <2>2. call'[d].pc \in {"done", "idle"} /\ ~call'[d].wrote
      BY <2>1, Ends
    <2> QED
      BY <2>2 DEF Kept
  <1>6. CASE Unassigns(d)
    <2> DEFINE b == st.held[KeyOf(d)] # Absent
               n == [call[d] EXCEPT !.pc = "put", !.wrote = b]
    <2>1. call'[d] = n \/ call'[d] = NoCall
      BY <1>6, OwnLand
    <2>2. n.pc = "put" /\ n.key = KeyOf(d)
      BY <1>1 DEF Call, KeyOf
    <2>3. st'.held[KeyOf(d)] = Absent
      BY <1>1, <1>6, UnassignAt DEF Unassigns, Land
    <2> HIDE DEF n
    <2> QED
      BY <2>1, <2>2, <2>3, EndFields DEF Kept
  <1> QED
    BY <1>2, <1>3, <1>4, <1>5, <1>6, OtherSteps, ClientCases DEF Typed

LEMMA Outcome ==
  ASSUME Typed, AllKept, Step, NEW c \in Client,
         call[c].pc \in InGrant, call'[c].pc = "done", ~call[c].raced
  PROVE  st'.held[KeyOf(c)] = call'[c].exp
  <1>1. call[c] \in Call /\ Kept(call[c], st.held) /\ KeyOf(c) \in Key /\ st \in Store /\ Ongoing(c)
    BY CallFields DEF Typed, CallsOK, AllKept, KeyOf, StateOK, Ongoing, InGrant
  <1>2. ~Around(c)
    BY DEF Around, Same, InGrant
  <1>3. ~Start(c)
    BY <1>1, StartBegins DEF Begin, Typed
  <1>4. CASE GoesOrFails(c)
    <2>1. PICK n \in Call : call' = [call EXCEPT ![c] = n] /\ (Goes(call[c], n) \/ Fails(c, n))
      BY <1>4 DEF GoesOrFails
    <2>2. call'[c] = n /\ st' = st
      BY <1>4, <2>1 DEF GoesOrFails, OnlyCall, Typed, CallsOK
    <2>3. ~Fails(c, n)
      BY <2>2, EndFields DEF Fails
    <2>4. n.exp = st.held[call[c].key]
      BY <1>1, <2>1, <2>2, <2>3, GoesFields
    <2> QED
      BY <2>2, <2>4 DEF KeyOf
  <1>5. CASE Assigns(c)
    <2>0. call'[c] = Returned(call[c].exp, FALSE) \/ call'[c] = NoCall
      BY <1>5, OwnLand
    <2>1. call'[c].exp = call[c].exp
      BY <2>0, Ends
    <2>2. st.held[KeyOf(c)] = Absent
      BY <1>1, <1>5 DEF Assigns, Assigning, Clashes, Kept, KeyOf
    <2> QED
      BY <1>1, <1>5, <2>1, <2>2, AssignOwn DEF Assigns, Land
  <1>6. CASE Unassigns(c)
    <2> DEFINE b == st.held[KeyOf(c)] # Absent
               n == [call[c] EXCEPT !.pc = "put", !.wrote = b]
    <2>1. call'[c] = n \/ call'[c] = NoCall
      BY <1>6, OwnLand
    <2>2. n.pc = "put"
      BY <1>1 DEF Call
    <2> QED
      BY <2>1, <2>2, EndFields
  <1>7. ~Denies(c)
    BY DEF Denies, InGrant
  <1> QED
    BY <1>2, <1>3, <1>4, <1>5, <1>6, <1>7, OtherSteps, ClientCases DEF Typed

\* A call that fails and is not marked has written nothing.
LEMMA FailedWroteNothing ==
  ASSUME Typed, AllKept, Step, NEW c \in Client, call'[c].pc = "failed"
  PROVE  ~call'[c].wrote
  BY KeptStep DEF AllKept, Kept

-----------------------------------------------------------------------------
(* What a listing tells.                                                   *)

\* Before the bindings are read, every deny that nobody added since is among those read;
\* afterwards, what would be listed was permitted.
Listing(k, denied, op, cr) ==
    /\ k.pc = "listBindings" /\ ~cr => \A x \in denied : x[1] = k.key[1] => x[2] \in k.denied
    /\ /\ k.pc = "listChain" /\ ~cr /\ ~k.moved
       /\ VisibleNow(k.key[2]) /\ Chain(k.key[2][1]) \cap k.denied = {}
       => op

AllListing == \A c \in Client : Listing(call[c], st.denied, open[c], crossed[c])

LEMMA RememberAt ==
  ASSUME Remember, NEW c \in Client
  PROVE  /\ call[c].pc \in InList /\ open[c] => open'[c]
         /\ call[c].pc \in InList /\ Permitted(c) => open'[c]
         /\ call[c].pc \in InList \ {"listDenies"} /\ ~crossed'[c] =>
               ~crossed[c] /\ st'.denied \subseteq st.denied
  BY Zenon DEF Remember

LEMMA ListingStep ==
  ASSUME Typed, AllListing, Next
  PROVE  AllListing'
  <1> SUFFICES ASSUME NEW d \in Client
               PROVE  Listing(call[d], st.denied, open[d], crossed[d])'
    BY DEF AllListing
  <1>1. call[d] \in Call /\ Listing(call[d], st.denied, open[d], crossed[d]) /\ CallsOK
    BY DEF Typed, CallsOK, AllListing
  <1>2. Step /\ Remember
    BY DEF Next
  <1>3. CASE Around(d)
    <2>1. ASSUME call'[d].pc = "listBindings", ~crossed'[d], NEW x \in st'.denied, x[1] = call'[d].key[1]
          PROVE  x[2] \in call'[d].denied
      BY <1>1, <1>2, <1>3, <2>1, RememberAt DEF Around, Same, Listing, InList
    <2>2. ASSUME call'[d].pc = "listChain", ~crossed'[d], ~call'[d].moved,
                 VisibleNow(call[d].key[2])', (Chain(call[d].key[2][1]) \cap call[d].denied)' = {}
          PROVE  open'[d]
      <3>1. call[d].pc = "listChain" /\ ~call[d].moved /\ call'[d].key = call[d].key
            /\ call'[d].denied = call[d].denied /\ tree' = tree
        BY <1>3, <2>2 DEF Around, Same, Ongoing
      <3>2. VisibleNow(call[d].key[2]) /\ Chain(call[d].key[2][1]) \cap call[d].denied = {}
        BY <2>2, <3>1 DEF VisibleNow, Exists, Chain
      <3> QED
        BY <1>1, <1>2, <2>2, <3>1, <3>2, RememberAt DEF Listing, InList
    <2> QED
      BY <2>1, <2>2 DEF Listing
  <1>4. CASE Client1(d) /\ Start(d)
    <2>1. PICK n \in Call : Begin(d, n) /\ Starts(d, n) /\ Blank(n)
      BY <1>4, StartBegins DEF Typed
    <2>2. call'[d] = n
      BY <2>1 DEF Begin, Typed, CallsOK
    <2> QED
      BY <2>1, <2>2 DEF Starts, Listing
  <1>5. CASE GoesOrFails(d)
    <2>1. PICK n \in Call : call' = [call EXCEPT ![d] = n] /\ (Goes(call[d], n) \/ Fails(d, n))
      BY <1>5 DEF GoesOrFails
    <2>2. call'[d] = n /\ st' = st /\ tree' = tree
      BY <1>5, <2>1 DEF GoesOrFails, OnlyCall, Typed, CallsOK
    <2>3. CASE Goes(call[d], n)
      <3>1. ASSUME n.pc = "listBindings", NEW x \in st.denied, x[1] = n.key[1]
            PROVE  x[2] \in n.denied
        <4>1. n.key = call[d].key
          BY <1>1, <2>3, <3>1, GoesFields
        <4>2. n.denied = {y[2] : y \in {z \in st.denied : z[1] = call[d].key[1]}}
          BY <1>1, <2>3, <3>1, GoesFields
        <4> QED
          BY <3>1, <4>1, <4>2
      <3>2. ASSUME n.pc = "listChain", ~crossed'[d],
                   VisibleNow(n.key[2]), Chain(n.key[2][1]) \cap n.denied = {}
            PROVE  open'[d]
        <4>1. /\ call[d].pc = "listBindings" /\ n.denied = call[d].denied /\ n.key = call[d].key
              /\ st.held[call[d].key] # Absent /\ Live(st.held[call[d].key], call[d].at)
          BY <1>1, <2>3, <3>2, GoesFields
        <4>2. ~crossed[d]
          BY <1>2, <3>2, <4>1, RememberAt DEF InList
        <4>3. \A x \in st.denied : x[1] = call[d].key[1] => x[2] \in call[d].denied
          BY <1>1, <4>1, <4>2 DEF Listing
        <4>4. Permitted(d)
          BY <3>2, <4>1, <4>3 DEF Permitted, KeyOf, PlaceOf, ScopeOf
        <4> QED
          BY <1>2, <4>1, <4>4, RememberAt DEF InList
      <3>3. VisibleNow(n.key[2])' <=> VisibleNow(n.key[2])
        BY <2>2 DEF VisibleNow, Exists, Chain
      <3>4. Chain(n.key[2][1])' = Chain(n.key[2][1])
        BY <2>2 DEF Chain
      <3> QED
        BY <2>2, <3>1, <3>2, <3>3, <3>4 DEF Listing
    <2>4. CASE Fails(d, n)
      <3>1. n.pc = "failed"
        BY <2>4, EndFields DEF Fails
      <3> QED
        BY <2>2, <3>1 DEF Listing
    <2> QED
      BY <2>1, <2>3, <2>4
  <1>6. CASE Assigns(d) \/ Denies(d)
    <2>1. \E e : call'[d] = Returned(e, FALSE) \/ call'[d] = NoCall
      BY <1>6, OwnLand
    <2>2. call'[d].pc \in {"done", "idle"}
      BY <2>1, Ends
    <2> QED
      BY <2>2 DEF Listing
  <1>7. CASE Unassigns(d)
    <2> DEFINE b == st.held[KeyOf(d)] # Absent
               n == [call[d] EXCEPT !.pc = "put", !.wrote = b]
    <2>1. call'[d] = n \/ call'[d] = NoCall
      BY <1>7, OwnLand
    <2>2. n.pc = "put"
      BY <1>1 DEF Call
    <2> HIDE DEF n
    <2> QED
      BY <2>1, <2>2, EndFields DEF Listing
  <1> QED
    BY <1>1, <1>2, <1>3, <1>4, <1>5, <1>6, <1>7, OtherSteps, ClientCases DEF Typed

LEMMA Listed ==
  ASSUME Typed, AllListing, Next, NEW c \in Client,
         call[c].pc = "listChain", call'[c].pc = "done", call'[c].answer
  PROVE  open'[c] \/ crossed'[c] \/ call[c].moved
  <1>1. call[c] \in Call /\ Listing(call[c], st.denied, open[c], crossed[c]) /\ CallsOK /\ Ongoing(c)
    BY DEF Typed, CallsOK, AllListing, Ongoing
  <1>2. Step /\ Remember
    BY DEF Next
  <1>3. ~Around(c)
    BY DEF Around, Same
  <1>4. ~Start(c)
    BY <1>1, StartBegins DEF Begin, Typed
  <1>5. ~Assigns(c) /\ ~Unassigns(c) /\ ~Denies(c)
    BY DEF Assigns, Unassigns, Denies, Assigning
  <1>6. GoesOrFails(c)
    BY <1>1, <1>2, <1>3, <1>4, <1>5, OtherSteps, ClientCases DEF Typed
  <1>7. PICK n \in Call : call' = [call EXCEPT ![c] = n] /\ (Goes(call[c], n) \/ Fails(c, n))
    BY <1>6 DEF GoesOrFails
  <1>8. call'[c] = n
    BY <1>1, <1>7 DEF CallsOK
  <1>9. ~Fails(c, n)
    BY <1>8, EndFields DEF Fails
  <1>10. VisibleNow(call[c].key[2]) /\ Chain(call[c].key[2][1]) \cap call[c].denied = {}
    BY <1>1, <1>7, <1>8, <1>9, GoesFields
  <1> QED
    BY <1>1, <1>2, <1>10, RememberAt DEF Listing, InList

-----------------------------------------------------------------------------
(* What others do in a scope while it is purged.                           *)

\* A grant is of a role of the level of its scope.
AllAt == \A c \in Client :
    call[c].pc \in InGrant => call[c].key[2] \in Objects(call[c].key[2][1])

LEMMA AtStep ==
  ASSUME Typed, AllAt, Step
  PROVE  AllAt'
  <1> SUFFICES ASSUME NEW d \in Client, call'[d].pc \in InGrant
               PROVE  call'[d].key[2] \in Objects(call'[d].key[2][1])
    BY DEF AllAt, Objects
  <1>1. call[d] \in Call /\ CallsOK /\ (call[d].pc \in InGrant => call[d].key[2] \in Objects(call[d].key[2][1]))
    BY DEF Typed, CallsOK, AllAt
  <1>2. CASE Around(d)
    BY <1>1, <1>2 DEF Around, Same
  <1>3. CASE Client1(d) /\ Start(d)
    <2>1. PICK n \in Call : Begin(d, n) /\ Starts(d, n) /\ Blank(n)
      BY <1>3, StartBegins DEF Typed
    <2>2. call'[d] = n
      BY <2>1 DEF Begin, Typed, CallsOK
    <2>3. n.key[2] \in Place /\ n.key[2][2] \in Known /\ VisibleNow(n.key[2])
      BY <2>1, <2>2, FgaFactsAssumption DEF Starts, VisibleNow, InGrant
    <2>4. n.key[2] \in Objects(n.key[2][1])
      BY <2>3 DEF VisibleNow, Visible, Objects
    <2> QED
      BY <2>2, <2>4
  <1>4. CASE GoesOrFails(d)
    <2>1. PICK n \in Call : call' = [call EXCEPT ![d] = n] /\ (Goes(call[d], n) \/ Fails(d, n))
      BY <1>4 DEF GoesOrFails
    <2>2. call'[d] = n
      BY <1>1, <2>1 DEF CallsOK
    <2>3. ~Fails(d, n)
      BY <2>2, EndFields DEF Fails, InGrant
    <2>4. n.key = call[d].key /\ call[d].pc \in InGrant
      BY <1>1, <2>1, <2>2, <2>3, GoesFields DEF InGrant
    <2> QED
      BY <1>1, <2>2, <2>4
  <1>5. CASE Assigns(d) \/ Denies(d)
    <2>1. \E e : call'[d] = Returned(e, FALSE) \/ call'[d] = NoCall
      BY <1>5, OwnLand
    <2>2. call'[d].pc \in {"done", "idle"}
      BY <2>1, Ends
    <2> QED
      BY <2>2 DEF InGrant
  <1>6. CASE Unassigns(d)
    <2> DEFINE b == st.held[KeyOf(d)] # Absent
               n == [call[d] EXCEPT !.pc = "put", !.wrote = b]
    <2>1. call'[d] = n \/ call'[d] = NoCall
      BY <1>6, OwnLand
    <2>2. n.key = call[d].key /\ call[d].pc \in InGrant
      BY <1>1, <1>6 DEF Call, Unassigns, InGrant
    <2> HIDE DEF n
    <2> QED
      BY <1>1, <2>1, <2>2, EndFields DEF InGrant
  <1> QED
    BY <1>2, <1>3, <1>4, <1>5, <1>6, OtherSteps, ClientCases DEF Typed

\* They hang only what the purge would cut, take on and deny only those it calls late.
Meanwhile(s) ==
    /\ st.role \subseteq st'.role /\ st.binding \subseteq st'.binding
    /\ \A pl \in (st'.role \ st.role) \cup (st'.binding \ st.binding) :
          pl[1] = s => pl \in Objects(s) /\ late' # {}
    /\ \A k \in Key : k[2][1] = s /\ st'.held[k] # Absent /\ st'.held[k] # st.held[k] =>
          k[1] \in late' /\ k[2] \in st'.binding
    /\ \A d \in st'.denied \ st.denied : d[2] = s => d[1] \in late'
    /\ late \subseteq late'

LEMMA StillMeanwhile ==
  ASSUME NEW s, st' = st, late \subseteq late'
  PROVE  Meanwhile(s)
  BY DEF Meanwhile

LEMMA OnlyLess ==
  ASSUME NEW s, st'.role = st.role, st'.binding = st.binding, st'.denied \subseteq st.denied,
         \A k \in Key : st'.held[k] = st.held[k] \/ st'.held[k] = Absent, late \subseteq late'
  PROVE  Meanwhile(s)
  BY DEF Meanwhile

LEMMA LandMeanwhile ==
  ASSUME Typed, AllAt, Busy, NEW c \in Client, Assigns(c) \/ Unassigns(c) \/ Denies(c)
  PROVE  Meanwhile(Child)
  <1>1. call[c] \in Call /\ st \in Store /\ KeyOf(c) \in Key /\ KeyOf(c)[2] = PlaceOf(c)
        /\ ScopeOf(c) = PlaceOf(c)[1]
    BY CallFields DEF Typed, CallsOK, StateOK, KeyOf, PlaceOf, ScopeOf
  <1>2. CASE Assigns(c)
    <2> DEFINE new == Assign(st, KeyOf(c), call[c].exp)
    <2>1. st' = new /\ late' = IF ScopeOf(c) = Child THEN late \cup {KeyOf(c)[1]} ELSE late
      BY <1>2 DEF Assigns, Land
    <2>2. new.role = st.role \cup {PlaceOf(c)} /\ new.binding = st.binding \cup {PlaceOf(c)}
          /\ new.denied = st.denied
      BY <1>1, AssignRest
    <2>3. \A k \in Key : k # KeyOf(c) => new.held[k] = st.held[k]
      BY <1>1, AssignElse
    <2>4. ScopeOf(c) = Child => PlaceOf(c) \in Objects(Child)
      BY <1>1, <1>2 DEF Assigns, Assigning, AllAt, InGrant, ScopeOf, PlaceOf
    <2> HIDE DEF new
    <2>5. st'.role = st.role \cup {PlaceOf(c)} /\ st'.binding = st.binding \cup {PlaceOf(c)}
          /\ st'.denied = st.denied /\ late \subseteq late'
      BY <2>1, <2>2
    <2>6. \A pl \in (st'.role \ st.role) \cup (st'.binding \ st.binding) :
              pl[1] = Child => pl \in Objects(Child) /\ late' # {}
      BY <1>1, <2>1, <2>4, <2>5
    <2>7. \A k \in Key : k[2][1] = Child /\ st'.held[k] # Absent /\ st'.held[k] # st.held[k] =>
              k[1] \in late' /\ k[2] \in st'.binding
      BY <1>1, <2>1, <2>3, <2>5
    <2> QED
      BY <2>5, <2>6, <2>7, Zenon DEF Meanwhile
  <1>3. CASE Unassigns(c)
    <2> DEFINE new == Unassign(st, {KeyOf(c)})
    <2>1. st' = new /\ late \subseteq late'
      BY <1>3 DEF Unassigns, Land
    <2>2. new.role = st.role /\ new.binding = st.binding /\ new.denied = st.denied
      <3>1. {KeyOf(c)} \in SUBSET Key
        BY <1>1
      <3> QED
        BY <1>1, <3>1, UnassignRest
    <2>3. \A k \in Key : new.held[k] = st.held[k] \/ new.held[k] = Absent
      BY <1>1, UnassignAt
    <2> HIDE DEF new
    <2>4. st'.role = st.role /\ st'.binding = st.binding /\ st'.denied = st.denied
      BY <2>1, <2>2
    <2>5. \A k \in Key : st'.held[k] = st.held[k] \/ st'.held[k] = Absent
      BY <2>1, <2>3
    <2> QED
      BY <2>1, <2>4, <2>5, OnlyLess
  <1>4. CASE Denies(c)
    <2>1. PICK D \in SUBSET (Holder \X Scope \X Perm) :
             /\ \A d \in D : d[1] = KeyOf(c)[1] /\ d[2] = ScopeOf(c)
             /\ Land(c, [st EXCEPT !.denied = @ \cup D], Returned(Forever, FALSE))
      BY <1>4 DEF Denies
    <2> DEFINE new == [st EXCEPT !.denied = @ \cup D]
    <2>2. st' = new /\ late' = IF ScopeOf(c) = Child THEN late \cup {KeyOf(c)[1]} ELSE late
      BY <2>1 DEF Land
    <2>3. new.role = st.role /\ new.binding = st.binding /\ new.denied = st.denied \cup D /\ new.held = st.held
      BY <1>1 DEF Store
    <2> HIDE DEF new
    <2> QED
      BY <2>1, <2>2, <2>3 DEF Meanwhile
  <1> QED
    BY <1>2, <1>3, <1>4

LEMMA MeanwhileStep ==
  ASSUME Typed, AllAt, Busy, Step, ~RelayWork, ~RelayFail
  PROVE  Meanwhile(Child) /\ relay' = relay /\ Child' = Child
  <1>1. StateOK /\ CallsOK /\ queue # <<>> /\ st \in Store
    BY DEF Typed, Handed, Busy, InPurge, StateOK
  <1>2. CASE (\E s, p \in Scope : Move(s, p)) \/ (\E s \in Scope : Detach(s))
    <2>1. \E change \in Change : \E edges : Consume(edges, change)
      BY <1>2, MoveConsumes, DetachConsumes
    <2>2. PICK change \in Change : \E edges : Consume(edges, change)
      BY <2>1
    <2> QED
      BY <1>1, <2>2, StillMeanwhile, ConsumeQueue DEF Consume, Child
  <1>3. ASSUME NEW c \in Client, Client1(c)
        PROVE  Meanwhile(Child) /\ relay' = relay /\ Child' = Child
    <2>1. CASE Start(c)
      BY <1>1, <2>1, StartBegins, StillMeanwhile DEF Begin, Child
    <2>2. CASE GoesOrFails(c)
      BY <2>2, StillMeanwhile DEF GoesOrFails, OnlyCall, Child
    <2>3. CASE Assigns(c) \/ Unassigns(c) \/ Denies(c)
      BY <1>1, <2>3, LandMeanwhile, LandTypes DEF Child
    <2> QED
      BY <1>1, <1>3, <2>1, <2>2, <2>3, ClientCases
  <1>4. CASE \E k \in Holder \X GrantAt : Revoke(k)
    <2>1. PICK k \in Holder \X GrantAt : Revoke(k)
      BY <1>4
    <2>2. k \in Key
      BY <1>1, RevokeType
    <2>3. st' = Unassign(st, {k}) /\ late \subseteq late' /\ relay' = relay /\ queue' = queue
      BY <2>1 DEF Revoke, TakeAway
    <2>4. st'.role = st.role /\ st'.binding = st.binding /\ st'.denied = st.denied
      <3>1. {k} \in SUBSET Key
        BY <2>2
      <3> QED
        BY <1>1, <2>3, <3>1, UnassignRest
    <2>5. \A j \in Key : st'.held[j] = st.held[j] \/ st'.held[j] = Absent
      BY <1>1, <2>2, <2>3, UnassignAt
    <2>6. Meanwhile(Child)
      BY <2>3, <2>4, <2>5, OnlyLess
    <2> QED
      BY <2>3, <2>6 DEF Child
  <1>5. CASE \E x \in st.denied : RemoveDeny(<<x[1], <<x[2], AnyRole>>>>)
    <2>1. PICK k : TakeAway(k, [st EXCEPT !.denied = {d \in @ : ~(d[1] = k[1] /\ d[2] = k[2][1])}])
      BY <1>5 DEF RemoveDeny
    <2>2. st'.role = st.role /\ st'.binding = st.binding /\ st'.denied \subseteq st.denied
          /\ st'.held = st.held /\ late \subseteq late' /\ relay' = relay /\ queue' = queue
      BY <1>1, <2>1 DEF TakeAway, Store
    <2>3. Meanwhile(Child)
      BY <2>2, OnlyLess
    <2> QED
      BY <2>2, <2>3 DEF Child
  <1>6. CASE Tick
    BY <1>6, StillMeanwhile DEF Tick, Child
  <1> QED
    BY <1>2, <1>3, <1>4, <1>5, <1>6 DEF Step

-----------------------------------------------------------------------------
(* A purge.                                                                *)

Last == {"denies", "cutDenies", "residue", "detach"}

\* What is left of the facts of s, by the phase of its purge: what still hangs or is held
\* there belongs to the late, or has its turn to come.
Purged(w, x, s, lt) ==
    /\ w.pc \in InPurge \ {"structure"} =>
          \A pl \in Objects(s) : pl \in x.role \cup x.binding => lt # {}
    /\ w.pc \in {"structure", "facts", "assignees"} =>
          \A k \in Key : k[2] \in Objects(s) /\ x.held[k] # Absent =>
              k[1] \in lt \/ k[2][2] \in w.todo \/ (w.pc = "assignees" /\ k \in w.keys)
    /\ w.pc \in Last =>
          /\ \A k \in Key : k[2] \in Objects(s) /\ x.held[k] # Absent => k[1] \in lt
          /\ \A pl \in x.binding : pl[1] = s => pl \in Objects(s)
    /\ w.pc \in {"cutDenies", "residue", "detach"} =>
          \A d \in x.denied : d[2] = s => d[1] \in lt \/ (w.pc = "cutDenies" /\ d \in w.denies)

\* What a purge that deleted nothing, as far as it can tell, has cut.
Counted(w, x, s) ==
    /\ w.pc = "structure" => /\ w.cut = {}
                             /\ \A pl \in Objects(s) : pl[2] \in w.todo
    /\ w.pc \in {"facts", "assignees"} =>
          /\ w.cut \subseteq Objects(s)
          /\ ~w.deleted /\ ~w.unconfirmed => w.cut = {}
          /\ ~w.deleted => \A k \in Key : k[2] \in w.cut /\ x.held[k] # Absent =>
                \/ k[2] \in x.binding
                \/ k[2][2] \in w.todo
                \/ w.pc = "assignees" /\ w.keys # {}
    /\ w.pc \in Last => \A pl \in w.cut : pl[1] = s
    /\ w.pc \in Last /\ ~w.deleted =>
          \A k \in Key : k[2] \in w.cut /\ x.held[k] # Absent => k[2] \in x.binding

PurgeOK == Busy => Purged(relay, st, Child, late) /\ Counted(relay, st, Child)

LEMMA MeanwhilePurged ==
  ASSUME Typed, Busy, NEW s, Meanwhile(s), Purged(relay, st, s, late), Counted(relay, st, s)
  PROVE  Purged(relay, st', s, late') /\ Counted(relay, st', s)
  <1>1. /\ st.binding \subseteq st'.binding
        /\ late \subseteq late'
        /\ \A k \in Key : k[2][1] = s /\ st'.held[k] # Absent /\ st'.held[k] # st.held[k] =>
              k[1] \in late' /\ k[2] \in st'.binding
        /\ \A d \in st'.denied \ st.denied : d[2] = s => d[1] \in late'
    BY DEF Meanwhile
  <1>2. \A pl \in Objects(s) : pl[1] = s
    BY DEF Objects
  <1>3. \A pl \in (st'.role \ st.role) \cup (st'.binding \ st.binding) :
           pl[1] = s => pl \in Objects(s) /\ late' # {}
    BY DEF Meanwhile
  <1>4. Purged(relay, st', s, late')
    <2>1. ASSUME relay.pc \in InPurge \ {"structure"}, NEW pl \in Objects(s), pl \in st'.role \cup st'.binding
          PROVE  late' # {}
      BY <1>1, <1>2, <1>3, <2>1 DEF Purged
    <2>2. ASSUME relay.pc \in {"structure", "facts", "assignees"},
                 NEW k \in Key, k[2] \in Objects(s), st'.held[k] # Absent
          PROVE  k[1] \in late' \/ k[2][2] \in relay.todo \/ (relay.pc = "assignees" /\ k \in relay.keys)
      BY <1>1, <1>2, <2>2 DEF Purged
    <2>3. ASSUME relay.pc \in Last, NEW k \in Key, k[2] \in Objects(s), st'.held[k] # Absent
          PROVE  k[1] \in late'
      BY <1>1, <1>2, <2>3 DEF Purged
    <2>4. ASSUME relay.pc \in Last, NEW pl \in st'.binding, pl[1] = s
          PROVE  pl \in Objects(s)
      BY <1>3, <2>4 DEF Purged
    <2>5. ASSUME relay.pc \in {"cutDenies", "residue", "detach"}, NEW d \in st'.denied, d[2] = s
          PROVE  d[1] \in late' \/ (relay.pc = "cutDenies" /\ d \in relay.denies)
      BY <1>1, <2>5 DEF Purged
    <2> QED
      BY <2>1, <2>2, <2>3, <2>4, <2>5 DEF Purged
  <1>5. Counted(relay, st', s)
    <2>1. ASSUME relay.pc \in {"facts", "assignees"}, ~relay.deleted,
                 NEW k \in Key, k[2] \in relay.cut, st'.held[k] # Absent
          PROVE  \/ k[2] \in st'.binding
                 \/ k[2][2] \in relay.todo
                 \/ relay.pc = "assignees" /\ relay.keys # {}
      BY <1>1, <1>2, <2>1 DEF Counted
    <2>2. ASSUME relay.pc \in Last, ~relay.deleted, NEW k \in Key, k[2] \in relay.cut, st'.held[k] # Absent
          PROVE  k[2] \in st'.binding
      BY <1>1, <2>2 DEF Counted
    <2> QED
      BY <2>1, <2>2 DEF Counted
  <1> QED
    BY <1>4, <1>5

\* The fields that the purge writes at each of its requests.
LEMMA PurgeFields ==
  ASSUME NEW r \in Relay, NEW pc, NEW C, NEW d, NEW u, NEW K, NEW D, NEW T
  PROVE  /\ LET w == [r EXCEPT !.pc = pc, !.cut = C, !.deleted = d, !.unconfirmed = u, !.seen = {}]
            IN  w.pc = pc /\ w.cut = C /\ w.deleted = d /\ w.unconfirmed = u /\ w.todo = r.todo
                /\ w.keys = r.keys
         /\ LET w == [r EXCEPT !.pc = pc, !.unconfirmed = FALSE, !.cut = C, !.deleted = d]
            IN  w.pc = pc /\ w.cut = C /\ w.deleted = d
         /\ LET w == [r EXCEPT !.pc = pc, !.keys = K, !.deleted = d]
            IN  w.pc = pc /\ w.keys = K /\ w.deleted = d /\ w.cut = r.cut /\ w.todo = r.todo
                /\ w.unconfirmed = r.unconfirmed
         /\ LET w == [r EXCEPT !.pc = pc, !.denies = D, !.deleted = d]
            IN  w.pc = pc /\ w.denies = D /\ w.deleted = d /\ w.cut = r.cut
         /\ LET w == [r EXCEPT !.pc = pc, !.denies = D]
            IN  w.pc = pc /\ w.denies = D /\ w.deleted = r.deleted /\ w.cut = r.cut
         /\ LET w == [r EXCEPT !.pc = pc, !.todo = T, !.keys = K]
            IN  w.pc = pc /\ w.todo = T /\ w.keys = K /\ w.cut = r.cut /\ w.deleted = r.deleted
                /\ w.unconfirmed = r.unconfirmed
  <1> USE DEF Relay
  <1>1. LET w == [r EXCEPT !.pc = pc, !.cut = C, !.deleted = d, !.unconfirmed = u, !.seen = {}]
        IN  w.pc = pc /\ w.cut = C /\ w.deleted = d /\ w.unconfirmed = u /\ w.todo = r.todo
            /\ w.keys = r.keys
    BY Zenon
  <1>2. LET w == [r EXCEPT !.pc = pc, !.unconfirmed = FALSE, !.cut = C, !.deleted = d]
        IN  w.pc = pc /\ w.cut = C /\ w.deleted = d
    BY Zenon
  <1>3. LET w == [r EXCEPT !.pc = pc, !.keys = K, !.deleted = d]
        IN  w.pc = pc /\ w.keys = K /\ w.deleted = d /\ w.cut = r.cut /\ w.todo = r.todo
            /\ w.unconfirmed = r.unconfirmed
    BY Zenon
  <1>4. LET w == [r EXCEPT !.pc = pc, !.denies = D, !.deleted = d]
        IN  w.pc = pc /\ w.denies = D /\ w.deleted = d /\ w.cut = r.cut
    BY Zenon
  <1>5. LET w == [r EXCEPT !.pc = pc, !.denies = D]
        IN  w.pc = pc /\ w.denies = D /\ w.deleted = r.deleted /\ w.cut = r.cut
    BY Zenon
  <1>6. LET w == [r EXCEPT !.pc = pc, !.todo = T, !.keys = K]
        IN  w.pc = pc /\ w.todo = T /\ w.keys = K /\ w.cut = r.cut /\ w.deleted = r.deleted
            /\ w.unconfirmed = r.unconfirmed
    BY Zenon
  <1> QED
    BY <1>1, <1>2, <1>3, <1>4, <1>5, <1>6, Zenon

LEMMA PurgeTakes ==
  ASSUME Typed, TakeDetached
  PROVE  PurgeOK'
  <1> DEFINE T == {pl[2] : pl \in Objects(Child)}
             w == [AtRest EXCEPT !.pc = "structure", !.seen = Hung(Child), !.todo = T]
  <1>1. relay' = w /\ st' = st /\ queue' = queue /\ late' = {}
    BY DEF TakeDetached, Work
  <1>2. w.pc = "structure" /\ w.todo = T /\ w.cut = {}
    BY DEF AtRest
  <1>3. \A pl \in Objects(Child) : pl[2] \in T
    OBVIOUS
  <1>4. Child' = Child
    BY <1>1 DEF Child
  <1> HIDE DEF w, T
  <1>5. Purged(w, st, Child, {}) /\ Counted(w, st, Child)
    BY <1>2, <1>3 DEF Purged, Counted, InPurge, Last
  <1> QED
    BY <1>1, <1>4, <1>5, Zenon DEF PurgeOK

LEMMA PurgeCuts ==
  ASSUME Typed, PurgeOK, PurgeStructure
  PROVE  PurgeOK'
  <1> DEFINE O == Objects(Child)
             C == Hung(Child) \cap O
             d == relay.seen \cap O # {}
             u == ~(O \subseteq relay.seen)
             w == [relay EXCEPT !.pc = "facts", !.cut = C, !.deleted = d, !.unconfirmed = u, !.seen = {}]
             new == CutStructure(st, O)
  <1>1. relay' = w /\ st' = new /\ queue' = queue /\ late' = late
    BY Zenon DEF PurgeStructure, Work
  <1>2. relay.pc = "structure" /\ Busy /\ relay \in Relay /\ st \in Store /\ Child \in Scope
    BY HeadType DEF PurgeStructure, Busy, InPurge, Typed, StateOK, Handed, Moving
  <1>3. O \subseteq Place
    BY <1>2, ObjectsType
  <1>4. w.pc = "facts" /\ w.cut = C /\ w.deleted = d /\ w.unconfirmed = u /\ w.todo = relay.todo
    BY <1>2, PurgeFields
  <1>5. new.role = st.role \ O /\ new.binding = st.binding \ O /\ new.held = st.held
    BY <1>2, <1>3, CutFields
  <1>6. Child' = Child
    BY <1>1 DEF Child
  <1>7. ~d /\ ~u => C = {}
    OBVIOUS
  <1>8. C \subseteq O
    OBVIOUS
  <1>9. Purged(relay, st, Child, late) /\ Counted(relay, st, Child)
    BY <1>2 DEF PurgeOK
  <1> HIDE DEF w, new, C, d, u
  <1>10. Purged(w, new, Child, late)
    BY <1>2, <1>4, <1>5, <1>9 DEF Purged, Last, O
  <1>11. \A pl \in C : pl[2] \in relay.todo
    BY <1>2, <1>8, <1>9 DEF Counted
  <1>12. Counted(w, new, Child)
    BY <1>4, <1>7, <1>8, <1>11 DEF Counted, Last, O
  <1> QED
    BY <1>1, <1>6, <1>10, <1>12, Zenon DEF PurgeOK

LEMMA PurgeReads ==
  ASSUME Typed, PurgeOK, NEW r \in Known, PurgeReadFacts(r)
  PROVE  PurgeOK'
  <1> DEFINE T == relay.todo \ {r}
             K == {k \in Holder \X {<<Child, r>>} : st.held[k] # Absent}
             w == [relay EXCEPT !.pc = "assignees", !.todo = T, !.keys = K]
  <1>1. relay' = w /\ st' = st /\ queue' = queue /\ late' = late
    BY DEF PurgeReadFacts, Think, Work
  <1>2. relay.pc = "facts" /\ Busy /\ relay \in Relay /\ Child \in Scope
    BY HeadType DEF PurgeReadFacts, Busy, InPurge, Typed, StateOK, Handed, Moving
  <1>3. /\ w.pc = "assignees" /\ w.todo = T /\ w.keys = K /\ w.cut = relay.cut
        /\ w.deleted = relay.deleted /\ w.unconfirmed = relay.unconfirmed
    BY <1>2, PurgeFields
  <1>4. Child' = Child
    BY <1>1 DEF Child
  <1>5. \A k \in Key : k[2] \in Objects(Child) /\ st.held[k] # Absent => k \in K \/ k[2][2] # r
    BY DEF Objects, Key, Place
  <1>6. Purged(relay, st, Child, late) /\ Counted(relay, st, Child)
    BY <1>2 DEF PurgeOK
  <1> HIDE DEF w, K
  <1>7. Purged(w, st, Child, late)
    <2>1. ASSUME NEW k \in Key, k[2] \in Objects(Child), st.held[k] # Absent
          PROVE  k[1] \in late \/ k[2][2] \in w.todo \/ k \in w.keys
      BY <1>2, <1>3, <1>5, <1>6, <2>1 DEF Purged
    <2>2. \A pl \in Objects(Child) : pl \in st.role \cup st.binding => late # {}
      BY <1>2, <1>6 DEF Purged, InPurge
    <2> QED
      BY <1>3, <2>1, <2>2 DEF Purged, Last
  <1>8. Counted(w, st, Child)
    <2>1. ASSUME ~relay.deleted, NEW k \in Key, k[2] \in relay.cut, st.held[k] # Absent
          PROVE  k[2] \in st.binding \/ k[2][2] \in w.todo \/ w.keys # {}
      BY <1>2, <1>3, <1>5, <1>6, <2>1 DEF Counted
    <2>2. /\ relay.cut \subseteq Objects(Child)
          /\ ~relay.deleted /\ ~relay.unconfirmed => relay.cut = {}
      BY <1>2, <1>6 DEF Counted
    <2> QED
      BY <1>3, <2>1, <2>2 DEF Counted, Last
  <1> QED
    BY <1>1, <1>4, <1>7, <1>8, Zenon DEF PurgeOK

LEMMA PurgeUnassigns ==
  ASSUME Typed, PurgeOK, PurgeFacts
  PROVE  PurgeOK'
  <1> DEFINE d == relay.deleted \/ relay.keys # {}
             w == [relay EXCEPT !.pc = "facts", !.keys = {}, !.deleted = d]
             new == Unassign(st, relay.keys)
  <1>1. relay' = w /\ st' = new /\ queue' = queue /\ late' = late
    BY Zenon DEF PurgeFacts, Work
  <1>2. relay.pc = "assignees" /\ Busy /\ relay \in Relay /\ st \in Store /\ relay.keys \in SUBSET Key
    BY DEF PurgeFacts, Busy, InPurge, Typed, StateOK, Relay, Key
  <1>3. /\ w.pc = "facts" /\ w.keys = {} /\ w.deleted = d /\ w.cut = relay.cut /\ w.todo = relay.todo
        /\ w.unconfirmed = relay.unconfirmed
    BY <1>2, PurgeFields
  <1>4. Child' = Child
    BY <1>1 DEF Child
  <1>5. new.role = st.role /\ new.binding = st.binding
    BY <1>2, UnassignRest
  <1>6. \A k \in Key : new.held[k] = IF k \in relay.keys THEN Absent ELSE st.held[k]
    <2>1. new.held = [k \in Key |-> IF k \in relay.keys THEN Absent ELSE st.held[k]]
      BY <1>2, UnassignFields, Zenon
    <2> HIDE DEF new
    <2> QED
      BY <2>1
  <1>7. Purged(relay, st, Child, late) /\ Counted(relay, st, Child)
    BY <1>2 DEF PurgeOK
  <1>8. ~d => ~relay.deleted /\ relay.keys = {}
    OBVIOUS
  <1> HIDE DEF w, new, d
  <1>9. Purged(w, new, Child, late)
    <2>1. ASSUME NEW k \in Key, k[2] \in Objects(Child), new.held[k] # Absent
          PROVE  k[1] \in late \/ k[2][2] \in w.todo
      BY <1>2, <1>3, <1>6, <1>7, <2>1 DEF Purged
    <2>2. \A pl \in Objects(Child) : pl \in new.role \cup new.binding => late # {}
      BY <1>2, <1>5, <1>7 DEF Purged, InPurge
    <2> QED
      BY <1>3, <2>1, <2>2 DEF Purged, Last
  <1>10. Counted(w, new, Child)
    <2>1. ASSUME ~d, NEW k \in Key, k[2] \in relay.cut, new.held[k] # Absent
          PROVE  k[2] \in new.binding \/ k[2][2] \in w.todo
      BY <1>2, <1>3, <1>5, <1>6, <1>7, <1>8, <2>1 DEF Counted
    <2>2. /\ relay.cut \subseteq Objects(Child)
          /\ ~d /\ ~relay.unconfirmed => relay.cut = {}
      BY <1>2, <1>7, <1>8 DEF Counted
    <2> QED
      BY <1>3, <2>1, <2>2 DEF Counted, Last
  <1> QED
    BY <1>1, <1>4, <1>9, <1>10, Zenon DEF PurgeOK

LEMMA PurgeCutsStrays ==
  ASSUME Typed, PurgeOK, PurgeStrays
  PROVE  PurgeOK'
  <1> DEFINE strays == Hung(Child) \ Objects(Child)
             C == relay.cut \cup strays
             d == relay.deleted \/ strays # {}
             w == [relay EXCEPT !.pc = "denies", !.unconfirmed = FALSE, !.cut = C, !.deleted = d]
             B == st.binding \ strays
             new == [st EXCEPT !.binding = B]
  <1>1. relay' = w /\ st' = new /\ queue' = queue /\ late' = late
    BY Zenon DEF PurgeStrays, Work
  <1>2. relay.pc = "facts" /\ relay.todo = {} /\ Busy /\ relay \in Relay /\ st \in Store
    BY DEF PurgeStrays, Busy, InPurge, Typed, StateOK
  <1>3. B \in SUBSET Place
    BY <1>2 DEF Store
  <1>4. w.pc = "denies" /\ w.cut = C /\ w.deleted = d
    BY <1>2, PurgeFields
  <1>5. new.role = st.role /\ new.binding = B /\ new.held = st.held
    BY <1>2, <1>3, BindingFields
  <1>6. Child' = Child
    BY <1>1 DEF Child
  <1>7. Purged(relay, st, Child, late) /\ Counted(relay, st, Child)
    BY <1>2 DEF PurgeOK
  <1>8. /\ \A pl \in B : pl[1] = Child => pl \in Objects(Child)
        /\ B \subseteq st.binding
        /\ ~d => ~relay.deleted /\ C = relay.cut /\ B = st.binding
        /\ \A pl \in strays : pl[1] = Child
    BY DEF Hung
  <1> HIDE DEF w, new, C, d, B
  <1>9. Purged(w, new, Child, late)
    <2>1. ASSUME NEW k \in Key, k[2] \in Objects(Child), new.held[k] # Absent
          PROVE  k[1] \in late
      BY <1>2, <1>5, <1>7, <2>1 DEF Purged
    <2>2. \A pl \in Objects(Child) : pl \in new.role \cup new.binding => late # {}
      BY <1>2, <1>5, <1>7, <1>8 DEF Purged, InPurge
    <2> QED
      BY <1>4, <1>5, <1>8, <2>1, <2>2 DEF Purged
  <1>10. Counted(w, new, Child)
    <2>1. ASSUME ~d, NEW k \in Key, k[2] \in C, new.held[k] # Absent
          PROVE  k[2] \in new.binding
      BY <1>2, <1>5, <1>7, <1>8, <2>1 DEF Counted
    <2>2. \A pl \in C : pl[1] = Child
      BY <1>2, <1>7, <1>8 DEF Counted, C, Objects
    <2> QED
      BY <1>4, <2>1, <2>2 DEF Counted, Last
  <1> QED
    BY <1>1, <1>6, <1>9, <1>10, Zenon DEF PurgeOK

LEMMA PurgeReadsDenies ==
  ASSUME Typed, PurgeOK, PurgeReadDenies
  PROVE  PurgeOK'
  <1> DEFINE D == {d \in st.denied : d[2] = Child}
             w == [relay EXCEPT !.pc = "cutDenies", !.denies = D]
  <1>1. relay' = w /\ st' = st /\ queue' = queue /\ late' = late
    BY DEF PurgeReadDenies, Think, Work
  <1>2. relay.pc = "denies" /\ Busy /\ relay \in Relay
    BY DEF PurgeReadDenies, Busy, InPurge, Typed, StateOK
  <1>3. w.pc = "cutDenies" /\ w.denies = D /\ w.deleted = relay.deleted /\ w.cut = relay.cut
    BY <1>2, PurgeFields
  <1>4. Child' = Child
    BY <1>1 DEF Child
  <1>5. Purged(relay, st, Child, late) /\ Counted(relay, st, Child)
    BY <1>2 DEF PurgeOK
  <1>6. \A d \in st.denied : d[2] = Child => d \in D
    OBVIOUS
  <1> HIDE DEF w, D
  <1>7. Purged(w, st, Child, late)
    BY <1>2, <1>3, <1>5, <1>6 DEF Purged, Last, InPurge
  <1>8. Counted(w, st, Child)
    BY <1>2, <1>3, <1>5 DEF Counted, Last
  <1> QED
    BY <1>1, <1>4, <1>7, <1>8, Zenon DEF PurgeOK

LEMMA PurgeCutsDenies ==
  ASSUME Typed, PurgeOK, PurgeDenies
  PROVE  PurgeOK'
  <1> DEFINE d == relay.deleted \/ relay.denies # {}
             w == [relay EXCEPT !.pc = "residue", !.denies = {}, !.deleted = d]
             D == st.denied \ relay.denies
             new == [st EXCEPT !.denied = D]
  <1>1. relay' = w /\ st' = new /\ queue' = queue /\ late' = late
    BY Zenon DEF PurgeDenies, Work
  <1>2. relay.pc = "cutDenies" /\ Busy /\ relay \in Relay /\ st \in Store
    BY DEF PurgeDenies, Busy, InPurge, Typed, StateOK
  <1>3. D \in SUBSET (Holder \X Scope \X Perm)
    BY <1>2 DEF Store
  <1>4. w.pc = "residue" /\ w.deleted = d /\ w.cut = relay.cut
    BY <1>2, PurgeFields
  <1>5. new.role = st.role /\ new.binding = st.binding /\ new.held = st.held /\ new.denied = D
    BY <1>2, <1>3, DeniedFields
  <1>6. Child' = Child
    BY <1>1 DEF Child
  <1>7. Purged(relay, st, Child, late) /\ Counted(relay, st, Child)
    BY <1>2 DEF PurgeOK
  <1>8. (~d => ~relay.deleted) /\ D \subseteq st.denied /\ D \cap relay.denies = {}
    OBVIOUS
  <1> HIDE DEF w, new, d, D
  <1>9. Purged(w, new, Child, late)
    <2>1. ASSUME NEW x \in new.denied, x[2] = Child
          PROVE  x[1] \in late
      BY <1>2, <1>5, <1>7, <1>8, <2>1 DEF Purged
    <2> QED
      BY <1>2, <1>4, <1>5, <1>7, <2>1 DEF Purged, Last, InPurge
  <1>10. Counted(w, new, Child)
    BY <1>2, <1>4, <1>5, <1>7, <1>8 DEF Counted, Last
  <1> QED
    BY <1>1, <1>6, <1>9, <1>10, Zenon DEF PurgeOK

LEMMA PurgeDemonstrates ==
  ASSUME Typed, PurgeOK, PurgeResidue
  PROVE  PurgeOK'
  <1> DEFINE w == [relay EXCEPT !.pc = "detach"]
  <1>1. relay' \in {AtRest, w} /\ st' = st /\ queue' = queue /\ late' = late
    BY DEF PurgeResidue, Think, Work
  <1>2. relay.pc = "residue" /\ Busy /\ relay \in Relay /\ AtRest.pc = "idle"
    BY DEF PurgeResidue, Busy, InPurge, Typed, StateOK, AtRest
  <1>3. w.pc = "detach" /\ w.deleted = relay.deleted /\ w.cut = relay.cut
    BY <1>2, RelayPc DEF InPurge
  <1>4. Child' = Child
    BY <1>1 DEF Child
  <1>5. Purged(relay, st, Child, late) /\ Counted(relay, st, Child)
    BY <1>2 DEF PurgeOK
  <1> HIDE DEF w
  <1>6. Purged(w, st, Child, late) /\ Counted(w, st, Child)
    BY <1>2, <1>3, <1>5 DEF Purged, Counted, Last, InPurge
  <1> QED
    BY <1>1, <1>2, <1>4, <1>6 DEF PurgeOK, Busy, InPurge

LEMMA RelayRests ==
  ASSUME Typed, Step, ~RelayWork, ~RelayFail
  PROVE  relay' = relay
  <1>1. CASE \E c \in Client : Client1(c)
    <2>1. PICK c \in Client : Client1(c)
      BY <1>1
    <2>2. CASE Start(c)
      BY <2>2, StartBegins DEF Begin, Typed
    <2>3. CASE GoesOrFails(c)
      BY <2>3 DEF GoesOrFails, OnlyCall
    <2> QED
      BY <2>1, <2>2, <2>3, ClientCases, LandTypes DEF Typed
  <1> QED
    BY <1>1 DEF Step, Move, Detach, Consume, Revoke, RemoveDeny, TakeAway, Tick

LEMMA PurgeStep ==
  ASSUME Typed, AllAt, PurgeOK, Step
  PROVE  PurgeOK'
  <1>1. CASE ~RelayWork /\ ~RelayFail
    <2>1. relay' = relay
      BY <1>1, RelayRests
    <2>2. CASE ~Busy
      BY <2>1, <2>2 DEF PurgeOK, Busy
    <2>3. CASE Busy
      <3>1. Meanwhile(Child) /\ Child' = Child
        BY <1>1, <2>3, MeanwhileStep
      <3>2. Purged(relay, st', Child, late') /\ Counted(relay, st', Child)
        BY <2>3, <3>1, MeanwhilePurged DEF PurgeOK
      <3> QED
        BY <2>1, <3>1, <3>2 DEF PurgeOK
    <2> QED
      BY <2>2, <2>3
  <1>2. CASE RelayFail
    <2>1. relay'.pc = "idle"
      BY <1>2 DEF RelayFail, AtRest
    <2> QED
      BY <2>1 DEF PurgeOK, Busy, InPurge
  <1>3. CASE TakeMove \/ WriteEdge \/ (\E r \in Locals : SweepRead(r)) \/ SweepApply
    <2>1. relay'.pc \in Moving \cup {"idle"}
      BY <1>3, MoveWork
    <2> QED
      BY <2>1 DEF PurgeOK, Busy, InPurge, Moving
  <1>4. CASE CutEdge
    <2>1. relay'.pc = "idle"
      BY <1>4 DEF CutEdge, Finish, Work, AtRest
    <2> QED
      BY <2>1 DEF PurgeOK, Busy, InPurge
  <1> QED
    BY <1>1, <1>2, <1>3, <1>4, PurgeTakes, PurgeCuts, PurgeReads, PurgeUnassigns, PurgeCutsStrays,
       PurgeReadsDenies, PurgeCutsDenies, PurgeDemonstrates DEF RelayWork

\* Where fewer hang, grant and hold, fewer are told yes.
LEMMA LessYes ==
  ASSUME NEW x \in Store, NEW y \in Store, NEW s \in Scope, NEW now,
         y.binding \subseteq x.binding, y.role \subseteq x.role, y.permits = x.permits,
         y.denied = x.denied, \A k \in Key : y.held[k] = x.held[k] \/ y.held[k] = Absent
  PROVE  OwnYes(y, s, now) \subseteq OwnYes(x, s, now)
  <1>1. ASSUME NEW h \in Holder, NEW q \in Perm, NEW pl \in y.binding, Carries(y, h, q, pl, now)
        PROVE  pl \in x.binding /\ Carries(x, h, q, pl, now)
    <2>1. <<h, pl>> \in Key
      BY <1>1 DEF Key, Store
    <2> QED
      BY <1>1, <2>1 DEF Carries
  <1> QED
    BY <1>1 DEF OwnYes

\* A purge that has not come to the denies only takes away.
LEMMA PurgeTakesAway ==
  ASSUME Typed, RelayWork, relay'.pc \in InPurge, relay'.pc \notin Last
  PROVE  OwnYes(st', Child, clock') \subseteq OwnYes(st, Child, clock)
  <1>1. st \in Store /\ clock' = clock /\ relay \in Relay /\ queue # <<>>
    BY RelayIs DEF Typed, StateOK, Work
  <1>2. Child \in Scope /\ st' \in Store
    BY <1>1, HeadType, TypedStep DEF Typed, StateOK, Step
  <1>3. CASE TakeDetached \/ (\E r \in Known : PurgeReadFacts(r))
    BY <1>1, <1>3 DEF TakeDetached, PurgeReadFacts, Think, Work
  <1>4. CASE PurgeStructure
    <2> DEFINE new == CutStructure(st, Objects(Child))
    <2>1. st' = new
      BY <1>4, Zenon DEF PurgeStructure, Work
    <2>2. /\ new.role \subseteq st.role /\ new.binding \subseteq st.binding /\ new.permits = st.permits
          /\ new.denied = st.denied /\ new.held = st.held
      BY <1>1, <1>2, ObjectsType, CutFields
    <2> HIDE DEF new
    <2> QED
      BY <1>1, <1>2, <2>1, <2>2, LessYes
  <1>5. CASE PurgeFacts
    <2> DEFINE new == Unassign(st, relay.keys)
    <2>1. st' = new
      BY <1>5, Zenon DEF PurgeFacts, Work
    <2>2. relay.keys \in SUBSET Key
      BY <1>1 DEF Relay, Key
    <2>3. /\ new.role \subseteq st.role /\ new.binding \subseteq st.binding /\ new.permits = st.permits
          /\ new.denied = st.denied
      BY <1>1, <2>2, UnassignRest
    <2>4. new.held = [k \in Key |-> IF k \in relay.keys THEN Absent ELSE st.held[k]]
      BY <1>1, <2>2, UnassignFields, Zenon
    <2> HIDE DEF new
    <2>5. \A k \in Key : new.held[k] = st.held[k] \/ new.held[k] = Absent
      BY <2>4
    <2> QED
      BY <1>1, <1>2, <2>1, <2>3, <2>5, LessYes
  <1>6. ~PurgeStrays
    <2>1. ASSUME NEW C, NEW d
          PROVE  [relay EXCEPT !.pc = "denies", !.unconfirmed = FALSE, !.cut = C, !.deleted = d].pc \in Last
      BY <1>1 DEF Relay, Last
    <2> QED
      BY <2>1 DEF PurgeStrays, Work
  <1>7. ~PurgeReadDenies
    <2>1. ASSUME NEW D PROVE [relay EXCEPT !.pc = "cutDenies", !.denies = D].pc \in Last
      BY <1>1 DEF Relay, Last
    <2> QED
      BY <2>1 DEF PurgeReadDenies, Think, Work
  <1>8. ~PurgeDenies
    <2>1. ASSUME NEW D, NEW d
          PROVE  [relay EXCEPT !.pc = "residue", !.denies = D, !.deleted = d].pc \in Last
      BY <1>1 DEF Relay, Last
    <2> QED
      BY <2>1 DEF PurgeDenies, Work
  <1>9. ~PurgeResidue /\ ~CutEdge
    <2>1. [relay EXCEPT !.pc = "detach"].pc \in Last /\ AtRest.pc \notin InPurge
      BY <1>1 DEF Relay, Last, AtRest, InPurge
    <2> QED
      BY <2>1 DEF PurgeResidue, CutEdge, Finish, Think, Work
  <1>10. ~(TakeMove \/ WriteEdge \/ (\E r \in Locals : SweepRead(r)) \/ SweepApply)
    BY MoveWork DEF Moving, InPurge
  <1> QED
    BY <1>3, <1>4, <1>5, <1>6, <1>7, <1>8, <1>9, <1>10 DEF RelayWork

LEMMA PurgeOpensNothing ==
  ASSUME Typed, AllAt, PurgeOK, Step, relay'.pc \in InPurge,
         relay' # relay \/ relay.pc \in Last,
         NEW hp \in OwnYes(st', Child, clock') \ OwnYes(st, Child, clock)
  PROVE  hp[1] \in late'
  <1>1. PurgeOK' /\ Typed'
    BY PurgeStep, TypedStep
  <1>2. Child' = Child
    <2>1. CASE RelayWork
      BY <2>1, RelayIs DEF Child, InPurge, Moving
    <2>2. ~RelayFail
      BY DEF RelayFail, AtRest, InPurge
    <2>3. CASE ~RelayWork
      BY <2>2, <2>3, RelayRests, MeanwhileStep DEF Busy
    <2> QED
      BY <2>1, <2>3
  <1>3. CASE relay'.pc \in Last
    <2>1. Purged(relay', st', Child, late')
      BY <1>1, <1>2 DEF PurgeOK, Busy
    <2>2. PICK pl \in st'.binding : pl[1] = Child /\ Carries(st', hp[1], hp[2], pl, clock')
      BY DEF OwnYes
    <2>3. hp[1] \in Holder /\ <<hp[1], pl>> \in Key /\ pl \in Objects(Child)
      BY <1>1, <1>3, <2>1, <2>2 DEF Purged, OwnYes, Key, Typed, StateOK, Store
    <2>4. st'.held[<<hp[1], pl>>] # Absent
      BY <2>2 DEF Carries
    <2> QED
      BY <1>3, <2>1, <2>3, <2>4 DEF Purged
  <1>4. CASE relay'.pc \notin Last
    <2>1. relay' # relay /\ ~RelayFail
      BY <1>4 DEF RelayFail, AtRest, InPurge
    <2> QED
      BY <1>4, <2>1, RelayRests, PurgeTakesAway
  <1> QED
    BY <1>3, <1>4

LEMMA ResidueMeansRaced ==
  ASSUME Typed, PurgeOK, Step, relay.pc = "residue", relay' = AtRest, left' = left
  PROVE  late # {}
  <1>1. relay.pc \in InPurge /\ relay.pc \in Last /\ AtRest.pc = "idle" /\ relay \in Relay /\ st \in Store
    BY DEF InPurge, Last, AtRest, Typed, StateOK
  <1>2. Purged(relay, st, Child, late)
    BY <1>1 DEF PurgeOK, Busy
  <1>3. ~RelayFail
    <2>1. left.fails - 1 # left.fails /\ [left EXCEPT !.fails = @ - 1].fails = left.fails - 1
      BY DEF Typed, StateOK
    <2> QED
      BY <2>1 DEF RelayFail
  <1>4. RelayWork
    BY <1>1, <1>3, RelayRests
  <1>5. PurgeResidue
    BY <1>1, <1>4 DEF RelayWork, TakeMove, WriteEdge, SweepRead, SweepApply, TakeDetached, PurgeStructure,
       PurgeReadFacts, PurgeFacts, PurgeStrays, PurgeReadDenies, PurgeDenies, CutEdge
  <1>6. [relay EXCEPT !.pc = "detach"] # AtRest
    BY <1>1 DEF Relay
  <1>7. \/ Hung(Child) # {}
        \/ \E d \in st.denied : d[2] = Child
        \/ \E pl \in Objects(Child) : pl \in st.role
        \/ \E h \in Holder, pl \in Objects(Child) : st.held[<<h, pl>>] # Absent
    BY <1>5, <1>6 DEF PurgeResidue, Think, Work
  <1>8. CASE Hung(Child) # {}
    BY <1>1, <1>2, <1>8 DEF Hung, Purged
  <1>9. CASE \E d \in st.denied : d[2] = Child
    BY <1>1, <1>2, <1>9 DEF Purged
  <1>10. CASE \E pl \in Objects(Child) : pl \in st.role
    BY <1>1, <1>2, <1>10 DEF Purged
  <1>11. CASE \E h \in Holder, pl \in Objects(Child) : st.held[<<h, pl>>] # Absent
    <2>1. PICK h \in Holder, pl \in Objects(Child) : st.held[<<h, pl>>] # Absent
      BY <1>11
    <2>2. <<h, pl>> \in Key
      BY DEF Key, Objects
    <2>3. <<h, pl>>[1] \in late
      BY <1>1, <1>2, <2>1, <2>2 DEF Purged
    <2> QED
      BY <2>3
  <1> QED
    BY <1>7, <1>8, <1>9, <1>10, <1>11

LEMMA PurgeCutNothing ==
  ASSUME Typed, PurgeOK, Busy, ~relay.deleted, ~relay.unconfirmed,
         NEW h \in Holder, NEW pl \in relay.cut, st.held[<<h, pl>>] # Absent
  PROVE  pl \in st.binding
  <1>1. Counted(relay, st, Child)
    BY DEF PurgeOK
  <1>0. <<h, pl>> \in Key
    <2>1. relay \in Relay
      BY DEF Typed, StateOK
    <2>2. relay.cut \subseteq Place
      BY <2>1 DEF Relay
    <2> QED
      BY <2>2 DEF Key
  <1>2. relay.pc \in {"structure", "facts", "assignees"} \cup Last
    BY DEF Busy, InPurge, Last
  <1>3. CASE relay.pc \in {"structure", "facts", "assignees"}
    BY <1>0, <1>1, <1>3 DEF Counted
  <1>4. CASE relay.pc \in Last
    BY <1>0, <1>1, <1>4 DEF Counted
  <1> QED
    BY <1>2, <1>3, <1>4

-----------------------------------------------------------------------------
(* Together.                                                               *)

\* What holds between the steps of calls and of purges.
Sound == Typed /\ AllKept /\ AllListing /\ AllAt /\ PurgeOK

LEMMA SoundInit == Init => Sound
  <1> SUFFICES ASSUME Init PROVE Sound
    OBVIOUS
  <1>1. Typed /\ \A c \in Client : call[c] = NoCall
    BY TypedInit DEF Init
  <1>2. NoCall.pc = "idle" /\ ~NoCall.wrote
    BY EndFields
  <1>3. relay.pc = "idle"
    BY DEF Init, AtRest
  <1>4. AllKept /\ AllListing /\ AllAt
    BY <1>1, <1>2 DEF AllKept, Kept, AllListing, Listing, AllAt, InGrant, InList
  <1> QED
    BY <1>1, <1>3, <1>4 DEF Sound, PurgeOK, Busy, InPurge

LEMMA SoundStep == Sound /\ [Next]_vars => Sound'
  <1>1. ASSUME Sound, Next PROVE Sound'
    <2>1. Step /\ Typed /\ AllKept /\ AllListing /\ AllAt /\ PurgeOK
      BY <1>1 DEF Sound, Next
    <2>2. AllKept'
      BY <2>1, KeptStep
    <2>3. AllListing'
      BY <1>1, <2>1, ListingStep DEF AllListing
    <2> QED
      BY <2>1, <2>2, <2>3, TypedStep, AtStep, PurgeStep DEF Sound
  <1>2. ASSUME Sound, UNCHANGED vars PROVE Sound'
    <2>1. Typed'
      BY <1>2, TypedAlways DEF Sound
    <2>2. AllKept' /\ AllAt'
      BY <1>2 DEF Sound, vars, AllKept, AllAt
    <2>3. AllListing'
      BY <1>2 DEF Sound, vars, AllListing, Listing, VisibleNow, Chain, Exists
    <2>4. PurgeOK'
      BY <1>2 DEF Sound, vars, PurgeOK, Busy, Child
    <2> QED
      BY <2>1, <2>2, <2>3, <2>4 DEF Sound
  <1> QED
    BY <1>1, <1>2

LEMMA SoundAlways == Spec => []Sound
  BY SoundInit, SoundStep, PTL DEF Spec

\* A grant that nobody raced on its key reports the expiry that the store has, and a call or
\* a purge that fails unmarked has left nothing behind, for every number of clients and every
\* catalog: replaceAssignment deletes and writes in two requests, markPartialWrite and
\* indeterminate tell when the first landed alone.
THEOREM TheyTellTrue == Spec => WritesTellTrue
  <1>1. Sound /\ [Next]_vars => [\A c \in Client :
           call[c].pc \in InGrant /\ call'[c].pc = "done" /\ ~call[c].raced
              => st'.held[KeyOf(c)] = call'[c].exp]_vars
    BY Outcome DEF Sound, Next
  <1>2. Sound /\ [Next]_vars =>
        [/\ \A c \in Client : Ongoing(c) /\ call'[c].pc = "failed" => ~call'[c].wrote
         /\ relay.pc \in InPurge /\ relay' = AtRest /\ queue' = queue
               /\ ~relay.deleted /\ ~relay.unconfirmed
            => \A h \in Holder, pl \in relay.cut : st.held[<<h, pl>>] # Absent => pl \in st.binding]_vars
    BY FailedWroteNothing, PurgeCutNothing DEF Sound, Next, Busy
  <1> QED
    BY <1>1, <1>2, SoundAlways, PTL DEF Spec, WritesTellTrue, OutcomeTrue, UnmarkedWroteNothing

\* A purge at whatever step it dies gives nobody a permission by the facts of the scope it
\* takes away, and stays incomplete only if somebody wrote there meanwhile: purgeScope
\* deletes the structure first and the denies last, and takes the stray edges too.
THEOREM PurgesAreSafe == Spec => PurgeSafe
  <1>1. Sound /\ [Next]_vars =>
        [relay'.pc \in InPurge /\ (relay' # relay \/ relay.pc \in {"denies", "cutDenies", "residue", "detach"}) =>
            \A hp \in OwnYes(st', Child, clock') \ OwnYes(st, Child, clock) : hp[1] \in late']_vars
    BY PurgeOpensNothing DEF Sound, Next, Last
  <1>2. Sound /\ [Next]_vars =>
        [relay.pc = "residue" /\ relay' = AtRest /\ left' = left => late # {}]_vars
    BY ResidueMeansRaced DEF Sound, Next
  <1> QED
    BY <1>1, <1>2, SoundAlways, PTL DEF Spec, PurgeSafe, PurgeNeverOpens, PurgeIncompleteMeansRaced

\* What listScopes answers was permitted at some instant, although it reads denies,
\* assignments and chains one after the other.
THEOREM ListingsHeld == Spec => ListedHeld
  <1>1. Sound /\ [Next]_vars =>
        [\A c \in Client : call[c].pc = "listChain" /\ call'[c].pc = "done" /\ call'[c].answer
            => open'[c] \/ crossed'[c] \/ call[c].moved]_vars
    BY Listed DEF Sound, Next
  <1> QED
    BY <1>1, SoundAlways, PTL DEF Spec, ListedHeld

-----------------------------------------------------------------------------
(* Trees: what is above a scope, and what a change leaves of it.           *)

\* No scope has two parents, and each hangs from the root.
Whole(E) ==
    /\ \A d, e \in E : d[1] = e[1] => d = e
    /\ \A e \in E : Root \in Reach(E, e[1])

\* A scope of the tree E.
In(E, s) == s = Root \/ \E e \in E : e[1] = s

\* What a change makes of the tree.
Changed(ch, E) ==
    {e \in E : e[1] # ch.child} \cup (IF ch.op = "moved" THEN {<<ch.child, ch.parent>>} ELSE {})

LEMMA ReachSelf ==
  ASSUME NEW E, NEW n \in Scope
  PROVE  n \in Reach(E, n)
  BY DEF Reach

LEMMA ReachUp ==
  ASSUME NEW E \in SUBSET (Scope \X Scope), NEW n \in Scope, NEW e \in E, e[1] \in Reach(E, n)
  PROVE  e[2] \in Reach(E, n)
  <1> SUFFICES ASSUME NEW S \in SUBSET Scope, n \in S, \A d \in E : d[1] \in S => d[2] \in S
               PROVE  e[2] \in S
    BY DEF Reach
  <1>1. e[1] \in S
    BY DEF Reach
  <1> QED
    BY <1>1

\* Edges from a scope that is not above n do not matter to n.
LEMMA ReachSame ==
  ASSUME NEW E \in SUBSET (Scope \X Scope), NEW F \in SUBSET (Scope \X Scope),
         NEW s, NEW n \in Scope, \A e \in Scope \X Scope : e[1] # s => (e \in E <=> e \in F),
         s \notin Reach(E, n)
  PROVE  Reach(F, n) = Reach(E, n)
  <1>1. ASSUME NEW S \in SUBSET Scope, n \in S
        PROVE  LET U == S \cap Reach(E, n)
               IN  /\ U \in SUBSET Scope /\ n \in U
                   /\ (\A e \in E : e[1] \in S => e[2] \in S) => \A e \in F : e[1] \in U => e[2] \in U
                   /\ (\A e \in F : e[1] \in S => e[2] \in S) => \A e \in E : e[1] \in U => e[2] \in U
    BY <1>1, ReachSelf, ReachUp
  <1>2. ASSUME NEW t \in Reach(F, n) PROVE t \in Reach(E, n)
    <2> SUFFICES ASSUME NEW S \in SUBSET Scope, n \in S, \A e \in E : e[1] \in S => e[2] \in S
                 PROVE  t \in S
      BY DEF Reach
    <2> DEFINE U == S \cap Reach(E, n)
    <2>1. U \in SUBSET Scope /\ n \in U /\ \A e \in F : e[1] \in U => e[2] \in U
      BY <1>1
    <2>2. t \in U
      BY <2>1 DEF Reach
    <2> QED
      BY <2>2
  <1>3. ASSUME NEW t \in Reach(E, n) PROVE t \in Reach(F, n)
    <2> SUFFICES ASSUME NEW S \in SUBSET Scope, n \in S, \A e \in F : e[1] \in S => e[2] \in S
                 PROVE  t \in S
      BY <1>3 DEF Reach
    <2> DEFINE U == S \cap Reach(E, n)
    <2>1. U \in SUBSET Scope /\ n \in U /\ \A e \in E : e[1] \in U => e[2] \in U
      BY <1>1
    <2>2. t \in U
      BY <2>1 DEF Reach
    <2> QED
      BY <2>2
  <1> QED
    BY <1>2, <1>3

\* Nor do they change who is below it.
LEMMA ReachBoth ==
  ASSUME NEW E \in SUBSET (Scope \X Scope), NEW F \in SUBSET (Scope \X Scope),
         NEW s, NEW n \in Scope, \A e \in Scope \X Scope : e[1] # s => (e \in E <=> e \in F)
  PROVE  s \in Reach(E, n) <=> s \in Reach(F, n)
  <1>1. s \notin Reach(E, n) => s \notin Reach(F, n)
    BY ReachSame
  <1>2. s \notin Reach(F, n) => s \notin Reach(E, n)
    BY ReachSame
  <1> QED
    BY <1>1, <1>2

LEMMA ReachLeaf ==
  ASSUME NEW E \in SUBSET (Scope \X Scope), NEW s, NEW n \in Scope, n # s, \A e \in E : e[2] # s
  PROVE  s \notin Reach(E, n)
  <1> DEFINE S == Scope \ {s}
  <1>1. S \in SUBSET Scope /\ n \in S /\ \A e \in E : e[1] \in S => e[2] \in S
    OBVIOUS
  <1> HIDE DEF S
  <1>2. s \in Reach(E, n) => s \in S
    BY <1>1 DEF Reach
  <1> QED
    BY <1>2 DEF S

LEMMA InRooted ==
  ASSUME NEW E \in SUBSET (Scope \X Scope), Whole(E), NEW s \in Scope, In(E, s)
  PROVE  Root \in Reach(E, s)
  BY ReachSelf, FgaFactsAssumption DEF Whole, In

LEMMA ChangedType ==
  ASSUME NEW E \in SUBSET (Scope \X Scope), NEW ch \in Change
  PROVE  /\ Changed(ch, E) \in SUBSET (Scope \X Scope)
         /\ \A e \in Scope \X Scope : e[1] # ch.child => (e \in E <=> e \in Changed(ch, E))
         /\ Changed(ch, Changed(ch, E)) = Changed(ch, E)
  BY DEF Changed, Change

\* A move under a scope that is not below the one that moves.
LEMMA MovedWhole ==
  ASSUME NEW E \in SUBSET (Scope \X Scope), Whole(E), NEW ch \in Change, ch.op = "moved",
         In(E, ch.child), In(E, ch.parent), ch.child \notin Reach(E, ch.parent)
  PROVE  /\ Whole(Changed(ch, E))
         /\ \A e \in Changed(ch, E) : In(E, e[1])
         /\ Root # ch.child
  <1> DEFINE s == ch.child
             p == ch.parent
             F == Changed(ch, E)
  <1>1. s \in Scope /\ p \in Scope /\ F \in SUBSET (Scope \X Scope)
        /\ \A e \in Scope \X Scope : e[1] # s => (e \in E <=> e \in F)
    BY ChangedType DEF Change
  <1>2. F = {e \in E : e[1] # s} \cup {<<s, p>>}
    BY DEF Changed
  <1>3. Root \in Reach(E, p) /\ Reach(F, p) = Reach(E, p)
    <2>1. Root \in Reach(E, p)
      BY <1>1, InRooted
    <2>2. Reach(F, p) = Reach(E, p)
      BY <1>1, ReachSame
    <2> QED
      BY <2>1, <2>2
  <1>4. ASSUME NEW d \in F, NEW e \in F, d[1] = e[1]
        PROVE  d = e
    BY <1>2, <1>4 DEF Whole
  <1>5. ASSUME NEW e \in F PROVE Root \in Reach(F, e[1])
    <2> SUFFICES ASSUME NEW S \in SUBSET Scope, e[1] \in S, \A d \in F : d[1] \in S => d[2] \in S
                 PROVE  Root \in S
      BY FgaFactsAssumption DEF Reach
    <2>1. CASE s \in S
      <3>1. <<s, p>> \in F
        BY <1>2
      <3>2. <<s, p>>[1] \in S => <<s, p>>[2] \in S
        BY <3>1, Zenon
      <3>3. p \in S
        BY <2>1, <3>2
      <3> QED
        BY <1>3, <3>3 DEF Reach
    <2>2. CASE s \notin S
      <3>1. e \in E /\ \A d \in E : d[1] \in S => d[2] \in S
        BY <1>2, <2>2
      <3>2. Root \in Reach(E, e[1])
        BY <3>1 DEF Whole
      <3> QED
        BY <3>1, <3>2 DEF Reach
    <2> QED
      BY <2>1, <2>2
  <1>6. \A e \in F : In(E, e[1])
    BY <1>2 DEF In
  <1> QED
    BY <1>3, <1>4, <1>5, <1>6 DEF Whole

\* The detachment of a leaf.
LEMMA DetachedWhole ==
  ASSUME NEW E \in SUBSET (Scope \X Scope), Whole(E), NEW ch \in Change, ch.op = "detached",
         \A e \in E : e[2] # ch.child
  PROVE  /\ Whole(Changed(ch, E))
         /\ \A e \in Changed(ch, E) : In(E, e[1])
  <1> DEFINE s == ch.child
             F == Changed(ch, E)
  <1>1. F \in SUBSET (Scope \X Scope) /\ \A e \in Scope \X Scope : e[1] # s => (e \in E <=> e \in F)
    BY ChangedType DEF Change
  <1>2. F = {e \in E : e[1] # s}
    BY DEF Changed
  <1>3. ASSUME NEW e \in F PROVE Root \in Reach(F, e[1])
    <2>1. e \in E /\ e[1] # s /\ e[1] \in Scope
      BY <1>2
    <2>2. s \notin Reach(E, e[1])
      BY <2>1, ReachLeaf
    <2>3. Reach(F, e[1]) = Reach(E, e[1])
      BY <1>1, <2>1, <2>2, ReachSame
    <2> QED
      BY <2>1, <2>3 DEF Whole
  <1> QED
    BY <1>2, <1>3 DEF Whole, In

-----------------------------------------------------------------------------
(* The trees between that of the store and that of the consumer.           *)

\* f[i]: the tree of the consumer when the first i changes of the queue had been made.
Run(f, E, q, T) ==
    /\ f \in [0..Len(q) -> SUBSET (Scope \X Scope)]
    /\ f[0] = E /\ f[Len(q)] = T
    /\ \A i \in 1..Len(q) :
          /\ f[i] = Changed(q[i], f[i - 1])
          /\ q[i].op = "detached" => q[i].child # Root /\ \A e \in f[i - 1] : e[2] # q[i].child
    /\ \A i \in 0..Len(q) : Whole(f[i]) /\ \A e \in T : In(f[i], e[1])

\* A change that leaves the tree whole, brings no scope, and detaches only leaves.
Sane(ch, T) ==
    /\ Whole(Changed(ch, T)) /\ \A e \in Changed(ch, T) : In(T, e[1])
    /\ ch.op = "detached" => ch.child # Root /\ \A e \in T : e[2] # ch.child

Extends(g, f, E, q, ch, T) ==
    /\ Run(g, E, Append(q, ch), Changed(ch, T))
    /\ \A i \in 0..Len(q) : g[i] = f[i]

LEMMA RunAppend ==
  ASSUME NEW f, NEW E, NEW q \in Seq(Change), NEW T, Run(f, E, q, T), NEW ch \in Change, Sane(ch, T)
  PROVE  \E g : Extends(g, f, E, q, ch, T)
  <1> DEFINE n == Len(q)
             g == [i \in 0..n + 1 |-> IF i <= n THEN f[i] ELSE Changed(ch, T)]
             r == Append(q, ch)
  <1>1. n \in Nat /\ Len(r) = n + 1 /\ r[n + 1] = ch /\ \A i \in 1..n : r[i] = q[i]
    BY AppendProperties
  <1>2. T \in SUBSET (Scope \X Scope) /\ f[n] = T /\ f[0] = E
    BY <1>1 DEF Run
  <1>3. g \in [0..n + 1 -> SUBSET (Scope \X Scope)]
    BY <1>1, <1>2, ChangedType DEF Run
  <1>4. (\A i \in 0..n : g[i] = f[i]) /\ g[n + 1] = Changed(ch, T)
    BY <1>1
  <1> HIDE DEF g, r
  <1>5. ASSUME NEW i \in 1..n + 1
        PROVE  /\ g[i] = Changed(r[i], g[i - 1])
               /\ r[i].op = "detached" => r[i].child # Root /\ \A e \in g[i - 1] : e[2] # r[i].child
    <2>1. CASE i = n + 1
      <3>1. i - 1 = n /\ n \in 0..n
        BY <1>1, <2>1
      <3>2. g[i] = Changed(ch, T) /\ g[i - 1] = T /\ r[i] = ch
        BY <1>1, <1>2, <1>4, <2>1, <3>1
      <3> QED
        BY <3>2 DEF Sane
    <2>2. CASE i \in 1..n
      <3>1. i - 1 \in 0..n /\ i \in 0..n
        BY <1>1, <2>2
      <3>2. g[i] = f[i] /\ g[i - 1] = f[i - 1] /\ r[i] = q[i]
        BY <1>1, <1>4, <2>2, <3>1
      <3> QED
        BY <2>2, <3>2 DEF Run
    <2> QED
      BY <1>1, <2>1, <2>2
  <1>6. ASSUME NEW i \in 0..n + 1
        PROVE  Whole(g[i]) /\ \A e \in Changed(ch, T) : In(g[i], e[1])
    <2>1. CASE i = n + 1
      BY <1>4, <2>1 DEF In, Sane
    <2>2. CASE i \in 0..n
      <3>1. g[i] = f[i] /\ Whole(f[i]) /\ \A e \in T : In(f[i], e[1])
        BY <1>4, <2>2 DEF Run
      <3> QED
        BY <3>1 DEF In, Sane
    <2> QED
      BY <1>1, <2>1, <2>2
  <1>7. Run(g, E, r, Changed(ch, T))
    BY <1>1, <1>2, <1>3, <1>4, <1>5, <1>6 DEF Run
  <1> QED
    BY <1>4, <1>7 DEF r, Extends

\* The store takes the edge of the first change, which stays in the queue.
LEMMA RunEdge ==
  ASSUME NEW f, NEW E, NEW q \in Seq(Change), NEW T, Run(f, E, q, T), q # <<>>, q[1].op = "moved"
  PROVE  /\ f[1] = Changed(q[1], E) /\ Changed(q[1], E) \in SUBSET (Scope \X Scope)
         /\ Run([f EXCEPT ![0] = f[1]], Changed(q[1], E), q, T)
  <1> DEFINE g == [f EXCEPT ![0] = f[1]]
  <1>1. Len(q) \in Nat /\ Len(q) > 0 /\ 1 \in 0..Len(q) /\ 0 \in 0..Len(q) /\ q[1] \in Change
    BY EmptySeq, LenProperties
  <1>2. f[1] = Changed(q[1], E) /\ E \in SUBSET (Scope \X Scope) /\ f[1] \in SUBSET (Scope \X Scope)
    BY <1>1 DEF Run
  <1>3. /\ g \in [0..Len(q) -> SUBSET (Scope \X Scope)]
        /\ g[0] = f[1] /\ \A i \in 1..Len(q) : g[i] = f[i]
    BY <1>1, <1>2 DEF Run
  <1> HIDE DEF g
  <1>4. ASSUME NEW i \in 1..Len(q)
        PROVE  /\ g[i] = Changed(q[i], g[i - 1])
               /\ q[i].op = "detached" => q[i].child # Root /\ \A e \in g[i - 1] : e[2] # q[i].child
    <2>1. CASE i = 1
      BY <1>1, <1>2, <1>3, <2>1, ChangedType
    <2>2. CASE i - 1 \in 1..Len(q)
      BY <1>3, <2>2 DEF Run
    <2> QED
      BY <1>1, <2>1, <2>2
  <1>5. ASSUME NEW i \in 0..Len(q) PROVE Whole(g[i]) /\ \A e \in T : In(g[i], e[1])
    <2>1. CASE i = 0
      BY <1>1, <1>3, <2>1 DEF Run
    <2>2. CASE i \in 1..Len(q)
      BY <1>3, <2>2 DEF Run
    <2> QED
      BY <1>1, <2>1, <2>2
  <1>6. g[Len(q)] = T
    BY <1>1, <1>3 DEF Run
  <1>7. Run(g, f[1], q, T)
    BY <1>3, <1>4, <1>5, <1>6 DEF Run
  <1> QED
    BY <1>2, <1>7 DEF g

\* The first change leaves the queue.
LEMMA RunPop ==
  ASSUME NEW f, NEW E, NEW q \in Seq(Change), NEW T, Run(f, E, q, T), q # <<>>
  PROVE  LET g == [i \in 0..Len(q) - 1 |-> f[i + 1]]
         IN  /\ f[1] = Changed(q[1], E)
             /\ Run(g, f[1], Tail(q), T)
             /\ Len(Tail(q)) = Len(q) - 1
  <1> DEFINE g == [i \in 0..Len(q) - 1 |-> f[i + 1]]
             r == Tail(q)
  <1>1. Len(q) \in Nat /\ Len(q) > 0 /\ Len(r) = Len(q) - 1 /\ \A i \in 1..Len(r) : r[i] = q[i + 1]
    BY EmptySeq, LenProperties, HeadTailProperties
  <1>2. f[1] = Changed(q[1], E)
    BY <1>1 DEF Run
  <1>3. \A i \in 0..Len(r) : i + 1 \in 0..Len(q) /\ g[i] = f[i + 1]
    BY <1>1
  <1>4. g \in [0..Len(r) -> SUBSET (Scope \X Scope)]
    BY <1>1 DEF Run
  <1>5. g[0] = f[1] /\ g[Len(r)] = T
    BY <1>1, <1>3 DEF Run
  <1> HIDE DEF g, r
  <1>6. ASSUME NEW i \in 1..Len(r)
        PROVE  /\ g[i] = Changed(r[i], g[i - 1])
               /\ r[i].op = "detached" => r[i].child # Root /\ \A e \in g[i - 1] : e[2] # r[i].child
    <2>1. i + 1 \in 1..Len(q) /\ (i + 1) - 1 = i /\ i - 1 \in 0..Len(r) /\ i \in 0..Len(r) /\ (i - 1) + 1 = i
      BY <1>1
    <2>2. g[i] = f[i + 1] /\ g[i - 1] = f[(i + 1) - 1] /\ r[i] = q[i + 1]
      BY <1>1, <1>3, <2>1
    <2> QED
      BY <2>1, <2>2 DEF Run
  <1>7. \A i \in 0..Len(r) : Whole(g[i]) /\ \A e \in T : In(g[i], e[1])
    BY <1>3 DEF Run
  <1>8. Run(g, f[1], r, T)
    BY <1>4, <1>5, <1>6, <1>7 DEF Run
  <1> QED
    BY <1>1, <1>2, <1>8 DEF g, r

-----------------------------------------------------------------------------
(* The edges of bindings, and the moves that change what they reach.       *)

\* The role is visible in its scope, by the tree E.
Seen(pl, E) == pl[2] \in Known /\ Visible(Catalog[pl[2]], pl[1], Reach(E, pl[1]))

\* The store has the edge of the change.
Written(E, ch) == {e \in E : e[1] = ch.child} = {<<ch.child, ch.parent>>}

\* The sweep of the first change, whose edge is written, has yet to deal with the place.
Awaits(x, q, w, pl, listed) ==
    /\ q # <<>> /\ Head(q).op = "moved" /\ Written(x.parent, Head(q))
    /\ Head(q).child \in Reach(x.parent, pl[1])
    /\ pl[2] \in Locals
    /\ w.pc \in {"sweep", "apply"} => pl[2] \in w.todo \/ pl \in listed

\* What the relay has at hand in a move.
Sweeps(x, q, w) ==
    /\ w.pc = "edge" => /\ ~Written(x.parent, Head(q))
                        /\ w.todo = Locals /\ w.show = {} /\ w.hide = {}
    /\ w.pc \in {"sweep", "apply"} =>
          /\ Written(x.parent, Head(q))
          /\ w.show \subseteq x.role
          /\ \A pl \in w.show : Seen(pl, x.parent)
          /\ \A pl \in w.hide : pl[2] \in Locals /\ ~Seen(pl, x.parent)
    /\ w.pc = "apply" => w.todo = {}

\* Every assignment in a scope that is there has its #role, and its edge unless the role is
\* not visible there by the tree of the store, or a sweep will show it.
Holds(x, q, w, T) ==
    /\ x.rooted
    /\ x.binding \subseteq x.role
    /\ \A k \in Key : x.held[k] # Absent /\ In(T, k[2][1]) => k[2] \in x.role
    /\ \A pl \in x.role \ x.binding : In(T, pl[1]) =>
          /\ pl[2] \in Locals
          /\ Seen(pl, x.parent) => Awaits(x, q, w, pl, w.show)

\* A binding that no stale grant hung is visible by the tree of the store or by one that it
\* is going to have, or a sweep will hide it.
Reaching(f, x, q, w, T, old) ==
    \A pl \in x.binding : pl[2] \in Known /\ In(T, pl[1]) =>
        \/ pl \in old
        \/ \E j \in 0..Len(q) : Seen(pl, f[j])
        \/ Awaits(x, q, w, pl, w.hide)

\* A grant under which the tree has not changed still sees its role.
CallsSeen == \A c \in Client :
    call[c].pc \in InGrant /\ ~call[c].moved => In(tree, call[c].key[2][1]) /\ Seen(call[c].key[2], tree)

Hangs ==
    /\ CallsSeen
    /\ Sweeps(st, queue, relay)
    /\ Holds(st, queue, relay, tree)
    /\ \E f : Run(f, st.parent, queue, tree) /\ Reaching(f, st, queue, relay, tree, stale)

LEMMA SeenNow ==
  ASSUME NEW pl
  PROVE  VisibleNow(pl) <=> In(tree, pl[1]) /\ Seen(pl, tree)
  BY DEF VisibleNow, Seen, In, Exists, Chain

\* What a change of the tree shows or hides is of a local role, at or below its child.
LEMMA ChangeShows ==
  ASSUME NEW E \in SUBSET (Scope \X Scope), NEW ch \in Change, NEW pl \in Place,
         \/ Seen(pl, E) /\ ~Seen(pl, Changed(ch, E))
         \/ ~Seen(pl, E) /\ Seen(pl, Changed(ch, E))
  PROVE  /\ pl[2] \in Locals
         /\ ch.child \in Reach(E, pl[1]) /\ ch.child \in Reach(Changed(ch, E), pl[1])
  <1> DEFINE F == Changed(ch, E)
  <1>1. F \in SUBSET (Scope \X Scope) /\ (\A e \in Scope \X Scope : e[1] # ch.child => (e \in E <=> e \in F))
        /\ pl[1] \in Scope
    BY ChangedType DEF Place
  <1>2. pl[2] \in Locals
    BY DEF Seen, Visible, Locals
  <1>3. Reach(F, pl[1]) # Reach(E, pl[1])
    BY DEF Seen
  <1> HIDE DEF F
  <1>4. ch.child \in Reach(E, pl[1])
    BY <1>1, <1>3, ReachSame
  <1>5. ch.child \in Reach(F, pl[1])
    BY <1>1, <1>4, ReachBoth
  <1> QED
    BY <1>2, <1>4, <1>5 DEF F

LEMMA HeadOne ==
  ASSUME Typed, queue # <<>>
  PROVE  Head(queue) = queue[1] /\ Head(queue) \in Change /\ Child \in Scope
         /\ Head(queue).parent \in Scope /\ 1 \in 1..Len(queue) /\ Child = Head(queue).child
  <1>1. queue \in Seq(Change) /\ Len(queue) \in Nat /\ Len(queue) > 0
    BY EmptySeq, LenProperties DEF Typed, StateOK
  <1>2. Head(queue) = queue[1] /\ queue[1] \in Change
    BY <1>1, HeadTailProperties
  <1> QED
    BY <1>1, <1>2 DEF Child, Change

-----------------------------------------------------------------------------
(* The tree changes.                                                       *)

\* What the consumer enqueues.
LEMMA ConsumeIs ==
  ASSUME Typed, NEW f, Run(f, st.parent, queue, tree),
         (\E s, p \in Scope : Move(s, p)) \/ (\E s \in Scope : Detach(s))
  PROVE  \E ch \in Change :
            /\ tree' = Changed(ch, tree) /\ queue' = Append(queue, ch)
            /\ Sane(ch, tree)
            /\ \A c \in Client : Ongoing(c) => call'[c].moved
            /\ UNCHANGED <<st, relay, stale>>
  <1>1. Whole(tree) /\ tree \in SUBSET (Scope \X Scope)
    <2>1. Len(queue) \in 0..Len(queue)
      BY LenProperties DEF Typed, StateOK
    <2> QED
      BY <2>1 DEF Run, Typed, StateOK
  <1>2. ASSUME NEW ch \in Change, NEW edges, Consume(edges, ch)
        PROVE  /\ queue' = Append(queue, ch) /\ UNCHANGED <<st, relay, stale>>
               /\ tree' = {e \in tree : e[1] # ch.child} \cup edges
               /\ \A c \in Client : Ongoing(c) => call'[c].moved
    <2>1. \A c \in Client : [call[c] EXCEPT !.moved = TRUE].moved
      BY MarkedSame DEF Typed, CallsOK
    <2> QED
      BY <1>2, <2>1 DEF Consume
  <1>3. CASE \E s, p \in Scope : Move(s, p)
    <2>1. PICK s \in Scope, p \in Scope : Move(s, p)
      BY <1>3
    <2>2. PICK ch \in Change : /\ Consume({<<s, p>>}, ch) /\ ch.op = "moved"
                               /\ ch.child = s /\ ch.parent = p
      BY <2>1, MoveConsumes
    <2>3. tree' = Changed(ch, tree)
      BY <1>2, <2>2 DEF Changed
    <2>4. In(tree, s) /\ In(tree, p) /\ s \notin Reach(tree, p)
      BY <2>1 DEF Move, Exists, In, Chain
    <2>5. Whole(Changed(ch, tree)) /\ \A e \in Changed(ch, tree) : In(tree, e[1])
      BY <1>1, <2>2, <2>4, MovedWhole
    <2> QED
      BY <1>2, <2>2, <2>3, <2>5 DEF Sane
  <1>4. CASE \E s \in Scope : Detach(s)
    <2>1. PICK s \in Scope : Detach(s)
      BY <1>4
    <2> DEFINE ch == [op |-> "detached", child |-> s, parent |-> Root]
    <2>2. ch \in Change /\ Consume({}, ch) /\ ch.op = "detached" /\ ch.child = s
      BY <2>1, FgaFactsAssumption DEF Detach, Change
    <2> HIDE DEF ch
    <2>3. tree' = Changed(ch, tree)
      BY <1>2, <2>2 DEF Changed
    <2>4. s # Root /\ \A e \in tree : e[2] # s
      BY <2>1 DEF Detach
    <2>5. Whole(Changed(ch, tree)) /\ \A e \in Changed(ch, tree) : In(tree, e[1])
      BY <1>1, <2>2, <2>4, DetachedWhole
    <2> QED
      BY <1>2, <2>2, <2>3, <2>4, <2>5 DEF Sane
  <1> QED
    BY <1>3, <1>4

LEMMA AppendAwaits ==
  ASSUME NEW q \in Seq(Change), NEW ch \in Change, NEW x, NEW w, NEW pl, NEW l, Awaits(x, q, w, pl, l)
  PROVE  Awaits(x, Append(q, ch), w, pl, l)
  <1>1. Len(q) > 0 /\ q # <<>>
    BY EmptySeq, LenProperties DEF Awaits
  <1>2. Append(q, ch) # <<>> /\ Head(Append(q, ch)) = Head(q)
    BY <1>1, AppendProperties
  <1> QED
    BY <1>2 DEF Awaits

LEMMA ConsumeHangs ==
  ASSUME Typed, Hangs, (\E s, p \in Scope : Move(s, p)) \/ (\E s \in Scope : Detach(s))
  PROVE  Hangs'
  <1>1. PICK f : Run(f, st.parent, queue, tree) /\ Reaching(f, st, queue, relay, tree, stale)
    BY DEF Hangs
  <1>2. PICK ch \in Change :
            /\ tree' = Changed(ch, tree) /\ queue' = Append(queue, ch)
            /\ Sane(ch, tree)
            /\ \A c \in Client : Ongoing(c) => call'[c].moved
            /\ UNCHANGED <<st, relay, stale>>
    BY <1>1, ConsumeIs
  <1>3. queue \in Seq(Change) /\ Len(queue) \in Nat
    BY LenProperties DEF Typed, StateOK
  <1> DEFINE q == Append(queue, ch)
             T == Changed(ch, tree)
  <1>4. \A s : In(T, s) => In(tree, s)
    BY <1>2 DEF In, Sane
  <1>5. \A pl, l : Awaits(st, queue, relay, pl, l) => Awaits(st, q, relay, pl, l)
    BY <1>3, AppendAwaits
  <1>6. PICK g : Run(g, st.parent, q, T) /\ \A i \in 0..Len(queue) : g[i] = f[i]
    <2>1. \E g : Extends(g, f, st.parent, queue, ch, tree)
      BY <1>1, <1>2, <1>3, RunAppend
    <2> QED
      BY <2>1 DEF Extends
  <1>7. Len(q) = Len(queue) + 1
    BY <1>3, AppendProperties
  <1> HIDE DEF q, T
  <1>8. Reaching(g, st, q, relay, T, stale)
    <2> SUFFICES ASSUME NEW pl \in st.binding, pl[2] \in Known, In(T, pl[1]), pl \notin stale,
                        ~Awaits(st, q, relay, pl, relay.hide)
                 PROVE  \E j \in 0..Len(q) : Seen(pl, g[j])
      BY DEF Reaching
    <2>1. PICK j \in 0..Len(queue) : Seen(pl, f[j])
      BY <1>1, <1>4, <1>5 DEF Reaching
    <2>2. j \in 0..Len(q) /\ Seen(pl, g[j])
      BY <1>3, <1>6, <1>7, <2>1
    <2> QED
      BY <2>2
  <1>9. Holds(st, q, relay, T)
    BY <1>4, <1>5 DEF Hangs, Holds
  <1>10. Sweeps(st, q, relay)
    <2>1. CASE relay.pc \in {"edge", "sweep", "apply"}
      <3>1. Head(q) = Head(queue)
        <4>1. queue # <<>>
          BY <2>1 DEF Typed, Handed
        <4> QED
          BY <1>2, <4>1, ConsumeQueue DEF Typed, q
      <3> QED
        BY <3>1 DEF Hangs, Sweeps
    <2>2. CASE relay.pc \notin {"edge", "sweep", "apply"}
      BY <2>2 DEF Sweeps
    <2> QED
      BY <2>1, <2>2
  <1>11. CallsSeen'
    <2> SUFFICES ASSUME NEW c \in Client, call'[c].pc \in InGrant, ~call'[c].moved PROVE FALSE
      BY DEF CallsSeen
    <2>1. Around(c)
      <3>1. PICK change \in Change : \E edges : Consume(edges, change)
        BY MoveConsumes, DetachConsumes
      <3>2. call[c] \in Call /\ Same(call[c], call[c])
        BY MarkedSame DEF Typed, CallsOK
      <3>3. call'[c] = IF Ongoing(c) THEN [call[c] EXCEPT !.moved = TRUE] ELSE call[c]
        BY <3>1 DEF Consume
      <3> QED
        BY <1>2, <3>2, <3>3, MarkedSame DEF Around
    <2>2. call[c].pc = call'[c].pc
      BY <2>1 DEF Around, Same
    <2>3. Ongoing(c)
      BY <2>2 DEF Ongoing, InGrant
    <2> QED
      BY <1>2, <2>3
  <1>12. (\E h : Run(h, st.parent, queue, tree) /\ Reaching(h, st, queue, relay, tree, stale))'
    <2>1. st' = st /\ queue' = q /\ tree' = T /\ relay' = relay /\ stale' = stale
      BY <1>2 DEF q, T
    <2> QED
      BY <1>6, <1>8, <2>1
  <1> QED
    BY <1>2, <1>9, <1>10, <1>11, <1>12 DEF Hangs, q, T

-----------------------------------------------------------------------------
(* The clients.                                                            *)

LEMMA SeenStep ==
  ASSUME Typed, CallsSeen, Step, tree' = tree
  PROVE  CallsSeen'
  <1> SUFFICES ASSUME NEW d \in Client, call'[d].pc \in InGrant, ~call'[d].moved
               PROVE  In(tree, call'[d].key[2][1]) /\ Seen(call'[d].key[2], tree)
    BY DEF CallsSeen
  <1>1. call[d] \in Call /\ CallsOK
    BY DEF Typed, CallsOK
  <1>2. ASSUME NEW n, call'[d] = n, call[d].pc \in InGrant, n.key = call[d].key,
               ~n.moved => ~call[d].moved
        PROVE  In(tree, n.key[2][1]) /\ Seen(n.key[2], tree)
    BY <1>2 DEF CallsSeen
  <1>3. CASE Around(d)
    BY <1>1, <1>2, <1>3 DEF Around, Same
  <1>4. CASE Client1(d) /\ Start(d)
    <2>1. PICK n \in Call : Begin(d, n) /\ Starts(d, n) /\ Blank(n)
      BY <1>4, StartBegins DEF Typed
    <2>2. call'[d] = n
      BY <2>1 DEF Begin, Typed, CallsOK
    <2>3. VisibleNow(n.key[2])
      BY <2>1, <2>2 DEF Starts, InGrant
    <2> QED
      BY <2>2, <2>3, SeenNow
  <1>5. CASE GoesOrFails(d)
    <2>1. PICK n \in Call : call' = [call EXCEPT ![d] = n] /\ (Goes(call[d], n) \/ Fails(d, n))
      BY <1>5 DEF GoesOrFails
    <2>2. call'[d] = n
      BY <1>1, <2>1 DEF CallsOK
    <2>3. ~Fails(d, n)
      BY <2>2, EndFields DEF Fails, InGrant
    <2>4. n.key = call[d].key /\ n.moved = call[d].moved /\ call[d].pc \in InGrant
      BY <1>1, <2>1, <2>2, <2>3, GoesFields DEF InGrant
    <2> QED
      BY <1>2, <2>2, <2>4
  <1>6. CASE Assigns(d) \/ Denies(d)
    <2>1. \E e : call'[d] = Returned(e, FALSE) \/ call'[d] = NoCall
      BY <1>6, OwnLand
    <2>2. call'[d].pc \in {"done", "idle"}
      BY <2>1, Ends
    <2> QED
      BY <2>2 DEF InGrant
  <1>7. CASE Unassigns(d)
    <2> DEFINE b == st.held[KeyOf(d)] # Absent
               n == [call[d] EXCEPT !.pc = "put", !.wrote = b]
    <2>1. call'[d] = n \/ call'[d] = NoCall
      BY <1>7, OwnLand
    <2>2. n.key = call[d].key /\ n.moved = call[d].moved /\ call[d].pc \in InGrant
      BY <1>1, <1>7 DEF Call, Unassigns, InGrant
    <2> HIDE DEF n
    <2>3. call'[d] = n
      BY <2>1, EndFields DEF InGrant
    <2> QED
      BY <1>2, <2>2, <2>3
  <1> QED
    BY <1>3, <1>4, <1>5, <1>6, <1>7, OtherSteps, ClientCases DEF Typed

\* A client hangs at most the place of its grant.
Grows(P) ==
    /\ st'.parent = st.parent /\ st'.rooted = st.rooted
    /\ st'.role = st.role \cup P /\ st'.binding = st.binding \cup P
    /\ \A k \in Key : st'.held[k] = st.held[k] \/ st'.held[k] = Absent \/ k[2] \in P
    /\ \A pl \in P : pl \in st.binding \/ pl \in stale' \/ (In(tree, pl[1]) /\ Seen(pl, tree))
    /\ stale \subseteq stale'
    /\ UNCHANGED <<tree, queue, relay>>

LEMMA StillGrows ==
  ASSUME UNCHANGED <<st, tree, queue, relay, stale>>
  PROVE  Grows({})
  BY DEF Grows

LEMMA LessGrows ==
  ASSUME st'.parent = st.parent, st'.rooted = st.rooted, st'.role = st.role, st'.binding = st.binding,
         \A k \in Key : st'.held[k] = st.held[k] \/ st'.held[k] = Absent,
         stale \subseteq stale', UNCHANGED <<tree, queue, relay>>
  PROVE  Grows({})
  BY DEF Grows

LEMMA LandGrows ==
  ASSUME Typed, CallsSeen, NEW c \in Client, Assigns(c) \/ Unassigns(c) \/ Denies(c)
  PROVE  \E P \in SUBSET Place : Grows(P)
  <1>1. call[c] \in Call /\ st \in Store /\ KeyOf(c) \in Key /\ KeyOf(c)[2] = PlaceOf(c) /\ PlaceOf(c) \in Place
    BY CallFields DEF Typed, CallsOK, StateOK, KeyOf, PlaceOf
  <1>2. CASE Assigns(c)
    <2> DEFINE new == Assign(st, KeyOf(c), call[c].exp)
               P == {PlaceOf(c)}
    <2>1. /\ st' = new /\ UNCHANGED <<tree, queue, relay>>
          /\ stale' = IF call[c].moved THEN stale \cup (new.binding \ st.binding) ELSE stale
      BY <1>2 DEF Assigns, Land
    <2>2. new.role = st.role \cup P /\ new.binding = st.binding \cup P
          /\ new.parent = st.parent /\ new.rooted = st.rooted
      BY <1>1, AssignRest
    <2>3. \A k \in Key : k # KeyOf(c) => new.held[k] = st.held[k]
      BY <1>1, AssignElse
    <2>4. ~call[c].moved => In(tree, PlaceOf(c)[1]) /\ Seen(PlaceOf(c), tree)
      BY <1>2 DEF Assigns, Assigning, CallsSeen, InGrant, PlaceOf
    <2> HIDE DEF new
    <2>5. \A pl \in P : pl \in st.binding \/ pl \in stale' \/ (In(tree, pl[1]) /\ Seen(pl, tree))
      <3>1. CASE call[c].moved
        BY <2>1, <2>2, <3>1
      <3>2. CASE ~call[c].moved
        BY <2>4, <3>2
      <3> QED
        BY <3>1, <3>2
    <2>6. \A k \in Key : st'.held[k] = st.held[k] \/ k[2] \in P
      BY <1>1, <2>1, <2>3
    <2> HIDE DEF P
    <2>7. Grows(P)
      BY <2>1, <2>2, <2>5, <2>6 DEF Grows
    <2> QED
      BY <1>1, <2>7 DEF P
  <1>3. CASE Unassigns(c)
    <2> DEFINE new == Unassign(st, {KeyOf(c)})
    <2>1. st' = new /\ stale \subseteq stale' /\ UNCHANGED <<tree, queue, relay>>
      BY <1>3 DEF Unassigns, Land
    <2>2. new.role = st.role /\ new.binding = st.binding /\ new.parent = st.parent /\ new.rooted = st.rooted
      <3>1. {KeyOf(c)} \in SUBSET Key
        BY <1>1
      <3> QED
        BY <1>1, <3>1, UnassignRest
    <2>3. \A k \in Key : new.held[k] = st.held[k] \/ new.held[k] = Absent
      BY <1>1, UnassignAt
    <2> HIDE DEF new
    <2>4. Grows({})
      BY <2>1, <2>2, <2>3, LessGrows
    <2> QED
      BY <2>4
  <1>4. CASE Denies(c)
    <2>1. PICK D \in SUBSET (Holder \X Scope \X Perm) :
             Land(c, [st EXCEPT !.denied = @ \cup D], Returned(Forever, FALSE))
      BY <1>4 DEF Denies
    <2> DEFINE new == [st EXCEPT !.denied = @ \cup D]
    <2>2. st' = new /\ stale \subseteq stale' /\ UNCHANGED <<tree, queue, relay>>
      BY <2>1 DEF Land
    <2>3. new.role = st.role /\ new.binding = st.binding /\ new.parent = st.parent /\ new.rooted = st.rooted
          /\ new.held = st.held
      BY <1>1 DEF Store
    <2> HIDE DEF new
    <2>4. Grows({})
      BY <2>2, <2>3, LessGrows
    <2> QED
      BY <2>4
  <1> QED
    BY <1>2, <1>3, <1>4

LEMMA OthersGrow ==
  ASSUME Typed, CallsSeen, Step, ~RelayWork, ~RelayFail,
         ~((\E s, p \in Scope : Move(s, p)) \/ (\E s \in Scope : Detach(s)))
  PROVE  \E P \in SUBSET Place : Grows(P)
  <1>1. StateOK /\ CallsOK /\ st \in Store
    BY DEF Typed, StateOK
  <1>2. ASSUME Grows({}) PROVE \E P \in SUBSET Place : Grows(P)
    BY <1>2
  <1>3. CASE \E c \in Client : Client1(c)
    <2>1. PICK c \in Client : Client1(c)
      BY <1>3
    <2>2. CASE Start(c)
      BY <1>1, <1>2, <2>2, StartBegins, StillGrows DEF Begin
    <2>3. CASE GoesOrFails(c)
      BY <1>2, <2>3, StillGrows DEF GoesOrFails, OnlyCall
    <2> QED
      BY <1>1, <2>1, <2>2, <2>3, LandGrows, ClientCases
  <1>4. CASE \E k \in Holder \X GrantAt : Revoke(k)
    <2>1. PICK k \in Holder \X GrantAt : Revoke(k)
      BY <1>4
    <2>2. k \in Key
      BY <1>1, RevokeType
    <2>3. st' = Unassign(st, {k}) /\ stale' = stale /\ UNCHANGED <<tree, queue, relay>>
      BY <2>1 DEF Revoke, TakeAway
    <2>4. st'.role = st.role /\ st'.binding = st.binding /\ st'.parent = st.parent /\ st'.rooted = st.rooted
      <3>1. {k} \in SUBSET Key
        BY <2>2
      <3> QED
        BY <1>1, <2>3, <3>1, UnassignRest
    <2>5. \A j \in Key : st'.held[j] = st.held[j] \/ st'.held[j] = Absent
      BY <1>1, <2>2, <2>3, UnassignAt
    <2>6. Grows({})
      BY <2>3, <2>4, <2>5, LessGrows
    <2> QED
      BY <1>2, <2>6
  <1>5. CASE \E x \in st.denied : RemoveDeny(<<x[1], <<x[2], AnyRole>>>>)
    <2>1. PICK k : TakeAway(k, [st EXCEPT !.denied = {d \in @ : ~(d[1] = k[1] /\ d[2] = k[2][1])}])
      BY <1>5 DEF RemoveDeny
    <2>2. st'.role = st.role /\ st'.binding = st.binding /\ st'.parent = st.parent /\ st'.rooted = st.rooted
          /\ st'.held = st.held /\ stale' = stale /\ UNCHANGED <<tree, queue, relay>>
      BY <1>1, <2>1 DEF TakeAway, Store
    <2>3. Grows({})
      BY <2>2, LessGrows
    <2> QED
      BY <1>2, <2>3
  <1>6. CASE Tick
    BY <1>2, <1>6, StillGrows DEF Tick
  <1> QED
    BY <1>3, <1>4, <1>5, <1>6 DEF Step

LEMMA GrowHangs ==
  ASSUME Typed, Hangs, Step, NEW P \in SUBSET Place, Grows(P)
  PROVE  Hangs'
  <1>1. /\ st'.parent = st.parent /\ st'.rooted = st.rooted
        /\ st'.role = st.role \cup P /\ st'.binding = st.binding \cup P
        /\ \A k \in Key : st'.held[k] = st.held[k] \/ st'.held[k] = Absent \/ k[2] \in P
        /\ \A pl \in P : pl \in st.binding \/ pl \in stale' \/ (In(tree, pl[1]) /\ Seen(pl, tree))
        /\ stale \subseteq stale'
        /\ tree' = tree /\ queue' = queue /\ relay' = relay
    BY DEF Grows
  <1>2. PICK f : Run(f, st.parent, queue, tree) /\ Reaching(f, st, queue, relay, tree, stale)
    BY DEF Hangs
  <1>3. \A pl, l : Awaits(st, queue, relay, pl, l) => Awaits(st', queue, relay, pl, l)
    BY <1>1 DEF Awaits
  <1>4. Sweeps(st', queue, relay)
    <2>1. Sweeps(st, queue, relay)
      BY DEF Hangs
    <2> QED
      BY <1>1, <2>1 DEF Sweeps
  <1>5. Holds(st', queue, relay, tree)
    <2>1. Holds(st, queue, relay, tree)
      BY DEF Hangs
    <2>2. \A k \in Key : st'.held[k] # Absent /\ In(tree, k[2][1]) => k[2] \in st'.role
      BY <1>1, <2>1 DEF Holds
    <2>3. ASSUME NEW pl \in st'.role \ st'.binding, In(tree, pl[1])
          PROVE  /\ pl[2] \in Locals
                 /\ Seen(pl, st'.parent) => Awaits(st', queue, relay, pl, relay.show)
      BY <1>1, <1>3, <2>1, <2>3 DEF Holds
    <2>4. st'.rooted /\ st'.binding \subseteq st'.role
      BY <1>1, <2>1 DEF Holds
    <2> QED
      BY <2>2, <2>3, <2>4 DEF Holds
  <1>6. Reaching(f, st', queue, relay, tree, stale')
    <2> SUFFICES ASSUME NEW pl \in st'.binding, pl[2] \in Known, In(tree, pl[1]), pl \notin stale',
                        ~Awaits(st', queue, relay, pl, relay.hide)
                 PROVE  \E j \in 0..Len(queue) : Seen(pl, f[j])
      BY DEF Reaching
    <2>1. CASE pl \in st.binding
      BY <1>1, <1>2, <1>3, <2>1 DEF Reaching
    <2>2. CASE pl \notin st.binding
      <3>1. Seen(pl, tree)
        BY <1>1, <2>2
      <3>2. Len(queue) \in 0..Len(queue) /\ f[Len(queue)] = tree
        BY <1>2, LenProperties DEF Run, Typed, StateOK
      <3> QED
        BY <3>1, <3>2
    <2> QED
      BY <2>1, <2>2
  <1>7. CallsSeen'
    BY <1>1, SeenStep DEF Hangs
  <1>8. (\E h : Run(h, st.parent, queue, tree) /\ Reaching(h, st, queue, relay, tree, stale))'
    BY <1>1, <1>2, <1>6
  <1> QED
    BY <1>1, <1>4, <1>5, <1>7, <1>8 DEF Hangs

-----------------------------------------------------------------------------
(* The relay moves.                                                        *)

LEMMA HangsMade ==
  ASSUME Typed, Hangs, Step, tree' = tree, Sweeps(st', queue', relay'), Holds(st', queue', relay', tree'),
         NEW f, Run(f, st'.parent, queue', tree'), Reaching(f, st', queue', relay', tree', stale')
  PROVE  Hangs'
  <1>1. CallsSeen'
    BY SeenStep DEF Hangs
  <1>2. (\E h : Run(h, st.parent, queue, tree) /\ Reaching(h, st, queue, relay, tree, stale))'
    OBVIOUS
  <1> QED
    BY <1>1, <1>2 DEF Hangs

LEMMA WrittenIs ==
  ASSUME NEW x \in Store, NEW ch \in Change
  PROVE  Parents(x, ch.child) = {ch.parent} <=> Written(x.parent, ch)
  <1>1. \A e \in x.parent : e = <<e[1], e[2]>>
    BY DEF Store
  <1>2. \A p : p \in Parents(x, ch.child) <=> \E e \in x.parent : e[1] = ch.child /\ e[2] = p
    BY DEF Parents
  <1>3. ASSUME Parents(x, ch.child) = {ch.parent} PROVE Written(x.parent, ch)
    BY <1>1, <1>2, <1>3 DEF Written
  <1>4. ASSUME Written(x.parent, ch) PROVE Parents(x, ch.child) = {ch.parent}
    <2>1. \A e : e \in x.parent /\ e[1] = ch.child <=> e = <<ch.child, ch.parent>>
      BY <1>4 DEF Written
    <2>2. \A p : p \in Parents(x, ch.child) <=> p = ch.parent
      <3>1. <<ch.child, ch.parent>> \in x.parent
        BY <2>1
      <3>2. \A e \in x.parent : e[1] = ch.child => e[2] = ch.parent
        BY <2>1
      <3> QED
        BY <1>2, <3>1, <3>2
    <2> QED
      BY <2>2
  <1> QED
    BY <1>3, <1>4

LEMMA ChangedWritten ==
  ASSUME NEW E \in SUBSET (Scope \X Scope), NEW ch \in Change, ch.op = "moved"
  PROVE  /\ Written(Changed(ch, E), ch)
         /\ Written(E, ch) => Changed(ch, E) = E
  BY DEF Written, Changed, Change

LEMMA TakeMoveHangs ==
  ASSUME Typed, Hangs, TakeMove
  PROVE  Hangs'
  <1> DEFINE pc == IF Parents(st, Child) = {Head(queue).parent} THEN AfterEdge ELSE "edge"
             w == [AtRest EXCEPT !.pc = pc, !.todo = Locals]
  <1>1. relay' = w /\ UNCHANGED <<st, tree, queue, stale>>
    BY DEF TakeMove, Think, Work
  <1>2. w.pc = pc /\ w.todo = Locals /\ w.show = {} /\ w.hide = {}
    BY DEF AtRest
  <1>3. pc = IF Written(st.parent, Head(queue)) THEN AfterEdge ELSE "edge"
    <2>1. queue # <<>>
      BY DEF TakeMove
    <2> QED
      BY <2>1, HeadOne, WrittenIs DEF Typed, StateOK
  <1>4. PICK f : Run(f, st.parent, queue, tree) /\ Reaching(f, st, queue, relay, tree, stale)
    BY DEF Hangs
  <1> HIDE DEF w, pc
  <1>5. Sweeps(st, queue, w)
    BY <1>2, <1>3 DEF Sweeps, AfterEdge
  <1>6. \A pl, l, m : Awaits(st, queue, relay, pl, l) => Awaits(st, queue, w, pl, m)
    BY <1>2 DEF Awaits
  <1>7. Holds(st, queue, w, tree)
    BY <1>6 DEF Hangs, Holds
  <1>8. Reaching(f, st, queue, w, tree, stale)
    BY <1>4, <1>6 DEF Reaching
  <1>9. Step
    BY DEF Step, RelayWork
  <1> QED
    BY <1>1, <1>4, <1>5, <1>7, <1>8, <1>9, HangsMade

LEMMA WriteEdgeHangs ==
  ASSUME Typed, Hangs, WriteEdge
  PROVE  Hangs'
  <1> DEFINE w == [relay EXCEPT !.pc = AfterEdge]
             ch == Head(queue)
             E == st.parent
             F == Changed(ch, E)
             x == Reparent(st, Child, {ch.parent})
  <1>1. relay' = w /\ st' = x /\ UNCHANGED <<tree, queue, stale>>
    BY DEF WriteEdge, Work
  <1>2. relay.pc = "edge" /\ queue # <<>> /\ ch.op = "moved" /\ st \in Store /\ relay \in Relay
        /\ queue \in Seq(Change)
    BY DEF WriteEdge, Typed, StateOK, Handed, Moving
  <1>3. ch = queue[1] /\ ch \in Change /\ Child \in Scope /\ ch.parent \in Scope /\ Child = ch.child
        /\ 1 \in 1..Len(queue)
    BY <1>2, HeadOne
  <1>4. /\ x.parent = {e \in E : e[1] # Child} \cup ({Child} \X {ch.parent})
        /\ x.role = st.role /\ x.binding = st.binding /\ x.held = st.held /\ x.rooted = st.rooted
    BY <1>2, <1>3, ReparentFields
  <1>5. x.parent = F /\ E \in SUBSET (Scope \X Scope)
    <2>1. F = {e \in E : e[1] # Child} \cup {<<Child, ch.parent>>}
      BY <1>2, <1>3 DEF Changed
    <2>2. {Child} \X {ch.parent} = {<<Child, ch.parent>>}
      OBVIOUS
    <2> HIDE DEF F, x
    <2> QED
      BY <1>2, <1>4, <2>1, <2>2 DEF Store
  <1>6. ~Written(E, ch) /\ relay.todo = Locals /\ relay.show = {} /\ relay.hide = {}
    BY <1>2 DEF Hangs, Sweeps
  <1>7. w.pc = AfterEdge /\ w.todo = Locals /\ w.show = {} /\ w.hide = {}
    <2>1. AfterEdge \in InPurge \cup Moving
      BY DEF AfterEdge, Moving
    <2> QED
      BY <1>2, <1>6, <2>1, RelayPc
  <1>8. PICK f : Run(f, E, queue, tree) /\ Reaching(f, st, queue, relay, tree, stale)
    BY DEF Hangs
  <1>9. Written(F, ch)
    BY <1>2, <1>3, <1>5, ChangedWritten
  <1>10. ASSUME NEW pl \in Place, NEW l, ch.child \in Reach(F, pl[1]), pl[2] \in Locals
         PROVE  Awaits(x, queue, w, pl, l)
    BY <1>2, <1>5, <1>7, <1>9, <1>10 DEF Awaits
  <1>11. \A pl, l : ~Awaits(st, queue, relay, pl, l)
    BY <1>6 DEF Awaits
  <1> HIDE DEF w, x
  <1>12. Sweeps(x, queue, w)
    BY <1>5, <1>7, <1>9 DEF Sweeps, AfterEdge
  <1>13. Holds(x, queue, w, tree)
    <2>1. Holds(st, queue, relay, tree)
      BY DEF Hangs
    <2>2. ASSUME NEW pl \in x.role \ x.binding, In(tree, pl[1])
          PROVE  pl[2] \in Locals /\ (Seen(pl, F) => Awaits(x, queue, w, pl, w.show))
      <3>1. pl \in Place /\ pl[2] \in Locals /\ ~Seen(pl, E)
        BY <1>2, <1>4, <1>11, <2>1, <2>2 DEF Holds, Store
      <3>2. Seen(pl, F) => ch.child \in Reach(F, pl[1])
        BY <1>3, <1>5, <3>1, ChangeShows
      <3> QED
        BY <1>10, <3>1, <3>2
    <2> QED
      BY <1>4, <1>5, <2>1, <2>2 DEF Holds
  <1> DEFINE g == [f EXCEPT ![0] = f[1]]
  <1>14. f[1] = F /\ Run(g, F, queue, tree)
    BY <1>2, <1>3, <1>8, RunEdge
  <1>15. g[0] = F /\ (\A j \in 1..Len(queue) : g[j] = f[j]) /\ f[0] = E /\ Len(queue) \in Nat
    BY <1>2, <1>8, <1>14, LenProperties DEF Run
  <1> HIDE DEF g
  <1>16. Reaching(g, x, queue, w, tree, stale)
    <2> SUFFICES ASSUME NEW pl \in x.binding, pl[2] \in Known, In(tree, pl[1]), pl \notin stale,
                        ~\E j \in 0..Len(queue) : Seen(pl, g[j])
                 PROVE  Awaits(x, queue, w, pl, w.hide)
      BY DEF Reaching
    <2>1. PICK j \in 0..Len(queue) : Seen(pl, f[j])
      BY <1>4, <1>8, <1>11 DEF Reaching
    <2>2. 0 \in 0..Len(queue) /\ ~Seen(pl, F)
      BY <1>15
    <2>3. j = 0
      BY <1>15, <2>1
    <2>4. pl \in Place /\ Seen(pl, E)
      BY <1>2, <1>4, <1>15, <2>1, <2>3 DEF Store
    <2>5. pl[2] \in Locals /\ ch.child \in Reach(F, pl[1])
      BY <1>3, <1>5, <2>2, <2>4, ChangeShows
    <2> QED
      BY <1>10, <2>4, <2>5
  <1>17. Step
    BY DEF Step, RelayWork
  <1> QED
    BY <1>1, <1>5, <1>12, <1>13, <1>14, <1>16, <1>17, HangsMade

LEMMA SweepReadHangs ==
  ASSUME Typed, Hangs, NEW r \in Locals, SweepRead(r)
  PROVE  Hangs'
  <1> DEFINE E == st.parent
             hung == {pl \in st.role : pl[2] = r /\ pl[1] \in Subtree}
             seen == {pl \in hung : Visible(Catalog[r], pl[1], Up(st, pl[1]))}
             pc == IF relay.todo = {r} THEN "apply" ELSE "sweep"
             w == [relay EXCEPT !.todo = @ \ {r}, !.show = @ \cup seen, !.hide = @ \cup (hung \ seen),
                                !.pc = pc]
  <1>1. relay' = w /\ UNCHANGED <<st, tree, queue, stale>>
    BY DEF SweepRead, Think, Work
  <1>2. relay.pc = "sweep" /\ r \in relay.todo /\ st \in Store /\ relay \in Relay /\ r \in Known
    BY DEF SweepRead, Typed, StateOK, Locals
  <1>3. /\ w.todo = relay.todo \ {r} /\ w.show = relay.show \cup seen
        /\ w.hide = relay.hide \cup (hung \ seen) /\ w.pc = pc
    <2> HIDE DEF hung, seen, pc
    <2> QED
      BY <1>2, SweepFields
  <1>4. /\ \A pl \in hung : pl \in st.role /\ pl[2] = r
        /\ \A pl \in st.role : pl[2] = r /\ Child \in Reach(E, pl[1]) => pl \in hung
        /\ \A pl \in hung : pl \in seen <=> Seen(pl, E)
        /\ seen \subseteq hung
    BY <1>2 DEF Subtree, Up, Seen, Store, Place
  <1>5. PICK f : Run(f, E, queue, tree) /\ Reaching(f, st, queue, relay, tree, stale)
    BY DEF Hangs
  <1>6. (pc = "apply" => relay.todo = {r}) /\ pc \in {"sweep", "apply"}
    OBVIOUS
  <1> HIDE DEF w, hung, seen, pc
  <1>7. Sweeps(st, queue, w)
    <2>1. Sweeps(st, queue, relay)
      BY DEF Hangs
    <2>2. w.show \subseteq st.role /\ \A pl \in w.show : Seen(pl, E)
      BY <1>2, <1>3, <1>4, <2>1 DEF Sweeps
    <2>3. \A pl \in w.hide : pl[2] \in Locals /\ ~Seen(pl, E)
      BY <1>2, <1>3, <1>4, <2>1 DEF Sweeps
    <2>4. w.pc = "apply" => w.todo = {}
      BY <1>3, <1>6
    <2> QED
      BY <1>2, <1>3, <1>6, <2>1, <2>2, <2>3, <2>4 DEF Sweeps
  <1>8. ASSUME NEW pl \in st.role, NEW l, NEW m, Awaits(st, queue, relay, pl, l), l \subseteq m,
               pl \in hung => pl \in m
        PROVE  Awaits(st, queue, w, pl, m)
    BY <1>2, <1>3, <1>4, <1>8 DEF Awaits, Child
  <1>9. Holds(st, queue, w, tree)
    <2>1. Holds(st, queue, relay, tree)
      BY DEF Hangs
    <2>2. ASSUME NEW pl \in st.role \ st.binding, In(tree, pl[1]), Seen(pl, E)
          PROVE  Awaits(st, queue, w, pl, w.show)
      <3>1. Awaits(st, queue, relay, pl, relay.show)
        BY <2>1, <2>2 DEF Holds
      <3>2. relay.show \subseteq w.show /\ (pl \in hung => pl \in w.show)
        BY <1>3, <1>4, <2>2
      <3> QED
        BY <1>8, <3>1, <3>2
    <2> QED
      BY <2>1, <2>2 DEF Holds
  <1>10. Reaching(f, st, queue, w, tree, stale)
    <2> SUFFICES ASSUME NEW pl \in st.binding, pl[2] \in Known, In(tree, pl[1]), pl \notin stale,
                        ~\E j \in 0..Len(queue) : Seen(pl, f[j])
                 PROVE  Awaits(st, queue, w, pl, w.hide)
      BY DEF Reaching
    <2>1. Awaits(st, queue, relay, pl, relay.hide)
      BY <1>5 DEF Reaching
    <2>2. 0 \in 0..Len(queue) /\ f[0] = E
      BY <1>5, LenProperties DEF Run, Typed, StateOK
    <2>3. pl \in st.role
      BY DEF Hangs, Holds
    <2>4. relay.hide \subseteq w.hide /\ (pl \in hung => pl \in w.hide)
      BY <1>3, <1>4, <2>2
    <2> QED
      BY <1>8, <2>1, <2>3, <2>4
  <1>11. Step
    BY DEF Step, RelayWork
  <1> QED
    BY <1>1, <1>5, <1>7, <1>9, <1>10, <1>11, HangsMade

\* What a tree that the queue has left behind leaves of what was visible.
LEMMA PopSeen ==
  ASSUME NEW f, NEW q \in Seq(Change), q # <<>>, NEW pl, NEW j \in 0..Len(q), Seen(pl, f[j]),
         j = 0 => Seen(pl, f[1])
  PROVE  \E i \in 0..Len(q) - 1 : Seen(pl, [k \in 0..Len(q) - 1 |-> f[k + 1]][i])
  <1>1. Len(q) \in Nat /\ Len(q) > 0
    BY EmptySeq, LenProperties
  <1>2. \A i \in 0..Len(q) - 1 : [k \in 0..Len(q) - 1 |-> f[k + 1]][i] = f[i + 1]
    OBVIOUS
  <1>3. CASE j = 0
    <2>1. 0 \in 0..Len(q) - 1 /\ 0 + 1 = 1
      BY <1>1
    <2>2. [k \in 0..Len(q) - 1 |-> f[k + 1]][0] = f[1]
      BY <1>2, <2>1
    <2> QED
      BY <1>3, <2>1, <2>2
  <1>4. CASE j # 0
    <2>1. j - 1 \in 0..Len(q) - 1 /\ (j - 1) + 1 = j
      BY <1>1, <1>4
    <2>2. [k \in 0..Len(q) - 1 |-> f[k + 1]][j - 1] = f[j]
      BY <1>2, <2>1
    <2> QED
      BY <2>1, <2>2
  <1> QED
    BY <1>3, <1>4

LEMMA SweepApplyHangs ==
  ASSUME Typed, Hangs, SweepApply
  PROVE  Hangs'
  <1> DEFINE E == st.parent
             B == (st.binding \ relay.hide) \cup relay.show
             x == [st EXCEPT !.binding = B]
             q == Tail(queue)
             old == stale \ relay.hide
  <1>1. relay' = AtRest /\ st' = x /\ tree' = tree /\ queue' = q /\ stale' = old
    BY DEF SweepApply, Work
  <1>2. relay.pc = "apply" /\ queue # <<>> /\ Head(queue).op = "moved" /\ st \in Store /\ relay \in Relay
        /\ queue \in Seq(Change)
    BY DEF SweepApply, Typed, StateOK, Handed, Moving
  <1>3. Head(queue) = queue[1] /\ queue[1] \in Change
    BY <1>2, HeadOne
  <1>4. B \in SUBSET Place
    BY <1>2 DEF Relay, Store
  <1>5. x.binding = B /\ x.parent = E /\ x.role = st.role /\ x.held = st.held /\ x.rooted = st.rooted
    <2> HIDE DEF B
    <2> QED
      BY <1>2, <1>4, BindingFields
  <1>6. /\ Written(E, queue[1])
        /\ relay.show \subseteq st.role /\ relay.todo = {}
        /\ \A pl \in relay.show : Seen(pl, E)
        /\ \A pl \in relay.hide : pl[2] \in Locals /\ ~Seen(pl, E)
    BY <1>2, <1>3 DEF Hangs, Sweeps
  <1>7. PICK f : Run(f, E, queue, tree) /\ Reaching(f, st, queue, relay, tree, stale)
    BY DEF Hangs
  <1>8. f[1] = E
    <2>1. E \in SUBSET (Scope \X Scope)
      BY <1>2 DEF Store
    <2>2. Changed(queue[1], E) = E
      BY <1>2, <1>3, <1>6, <2>1, ChangedWritten
    <2>3. 1 \in 1..Len(queue) /\ 1 - 1 = 0
      BY <1>2, HeadOne
    <2>4. f[1] = Changed(queue[1], f[1 - 1]) /\ f[0] = E
      BY <1>7, <2>3 DEF Run
    <2> QED
      BY <2>2, <2>3, <2>4
  <1> DEFINE g == [i \in 0..Len(queue) - 1 |-> f[i + 1]]
  <1>9. Run(g, E, q, tree) /\ Len(q) = Len(queue) - 1
    BY <1>2, <1>7, <1>8, RunPop
  <1>10. \A pl \in B : pl \in relay.show \/ (pl \in st.binding /\ pl \notin relay.hide)
    OBVIOUS
  <1>11. \A pl : (pl \in st.binding /\ pl \notin relay.hide) \/ pl \in relay.show => pl \in B
    OBVIOUS
  <1>12. \A pl \in Place : \A l : Awaits(st, queue, relay, pl, l) => pl \in l
    BY <1>2, <1>6 DEF Awaits
  <1> HIDE DEF B, x
  <1>13. Holds(x, q, AtRest, tree)
    <2>1. Holds(st, queue, relay, tree)
      BY DEF Hangs
    <2>2. ASSUME NEW pl \in st.role \ B, In(tree, pl[1])
          PROVE  pl[2] \in Locals /\ ~Seen(pl, E)
      <3>0. pl \in Place
        BY <1>2 DEF Store
      <3>1. CASE pl \in st.binding
        BY <1>6, <1>11, <2>2, <3>1
      <3>2. CASE pl \notin st.binding
        BY <1>11, <1>12, <2>1, <2>2, <3>0, <3>2 DEF Holds
      <3> QED
        BY <3>1, <3>2
    <2>3. x.binding \subseteq x.role
      BY <1>5, <1>6, <1>10, <2>1 DEF Holds
    <2> QED
      BY <1>5, <2>1, <2>2, <2>3 DEF Holds
  <1>14. Reaching(g, x, q, AtRest, tree, old)
    <2> SUFFICES ASSUME NEW pl \in B, pl[2] \in Known, In(tree, pl[1]), pl \notin old
                 PROVE  \E i \in 0..Len(queue) - 1 : Seen(pl, g[i])
      BY <1>5, <1>9 DEF Reaching
    <2>0. pl \in Place
      BY <1>4
    <2>1. \E j \in 0..Len(queue) : Seen(pl, f[j])
      <3>1. CASE pl \in relay.show
        <4>1. 0 \in 0..Len(queue) /\ f[0] = E
          BY <1>2, <1>7, LenProperties DEF Run
        <4> QED
          BY <1>6, <3>1, <4>1
      <3>2. CASE pl \in st.binding /\ pl \notin relay.hide
        BY <1>7, <1>12, <2>0, <3>2 DEF Reaching
      <3> QED
        BY <1>10, <3>1, <3>2
    <2>2. PICK j \in 0..Len(queue) : Seen(pl, f[j])
      BY <2>1
    <2>3. j = 0 => Seen(pl, f[1])
      BY <1>7, <1>8, <2>2 DEF Run
    <2> QED
      BY <1>2, <2>2, <2>3, PopSeen
  <1>15. Sweeps(x, q, AtRest)
    BY DEF Sweeps, AtRest
  <1>16. Step
    BY DEF Step, RelayWork
  <1> HIDE DEF g, q, old
  <1> QED
    BY <1>1, <1>5, <1>9, <1>13, <1>14, <1>15, <1>16, HangsMade

-----------------------------------------------------------------------------
(* The relay purges.                                                       *)

\* A purge only takes away, and only in its scope.
Prunes ==
    /\ st'.parent = st.parent /\ st'.rooted = st.rooted
    /\ st'.role \subseteq st.role /\ st'.binding \subseteq st.binding
    /\ st.binding \subseteq st.role => st'.binding \subseteq st'.role
    /\ \A pl \in st.role : pl[1] # Child => pl \in st'.role
    /\ \A pl \in st.binding : pl[1] # Child => pl \in st'.binding
    /\ \A k \in Key : st'.held[k] = st.held[k] \/ st'.held[k] = Absent

LEMMA PrunesWork ==
  ASSUME Typed,
         \/ TakeDetached \/ PurgeStructure \/ (\E r \in Known : PurgeReadFacts(r)) \/ PurgeFacts
         \/ PurgeStrays \/ PurgeReadDenies \/ PurgeDenies \/ PurgeResidue
  PROVE  /\ Prunes /\ UNCHANGED <<tree, queue, stale>>
         /\ queue # <<>> /\ Head(queue).op = "detached" /\ relay'.pc \notin Moving
  <1>1. st \in Store /\ relay \in Relay /\ relay.keys \in SUBSET Key
    BY DEF Typed, StateOK, Relay, Key
  <1>2. queue # <<>> /\ Head(queue).op = "detached" /\ relay'.pc \in InPurge \cup {"idle"}
    BY PurgeWork
  <1>3. relay'.pc \notin Moving
    BY <1>2 DEF InPurge, Moving
  <1>4. ASSUME UNCHANGED <<st, tree, queue, stale>> PROVE Prunes /\ UNCHANGED <<tree, queue, stale>>
    BY <1>4 DEF Prunes
  <1>5. CASE TakeDetached \/ (\E r \in Known : PurgeReadFacts(r)) \/ PurgeReadDenies \/ PurgeResidue
    <2>1. UNCHANGED <<st, tree, queue, stale>>
      BY <1>5 DEF TakeDetached, PurgeReadFacts, PurgeReadDenies, PurgeResidue, Think, Work
    <2> QED
      BY <1>2, <1>3, <1>4, <2>1
  <1>6. CASE PurgeStructure
    <2> DEFINE new == CutStructure(st, Objects(Child))
    <2>1. st' = new /\ UNCHANGED <<tree, queue, stale>>
      BY <1>6, Zenon DEF PurgeStructure, Work
    <2>2. Child \in Scope
      BY <1>2, HeadOne
    <2>3. Objects(Child) \in SUBSET Place /\ \A pl \in Objects(Child) : pl[1] = Child
      BY <2>2, ObjectsType
    <2>4. /\ new.role = st.role \ Objects(Child) /\ new.binding = st.binding \ Objects(Child)
          /\ new.parent = st.parent /\ new.rooted = st.rooted /\ new.held = st.held
      BY <1>1, <2>3, CutFields
    <2> HIDE DEF new
    <2> QED
      BY <1>2, <1>3, <2>1, <2>3, <2>4 DEF Prunes
  <1>7. CASE PurgeFacts
    <2> DEFINE new == Unassign(st, relay.keys)
    <2>1. st' = new /\ UNCHANGED <<tree, queue, stale>>
      BY <1>7, Zenon DEF PurgeFacts, Work
    <2>2. new.role = st.role /\ new.binding = st.binding /\ new.parent = st.parent /\ new.rooted = st.rooted
      BY <1>1, UnassignRest
    <2>3. \A k \in Key : new.held[k] = st.held[k] \/ new.held[k] = Absent
      BY <1>1, UnassignAt
    <2> HIDE DEF new
    <2> QED
      BY <1>2, <1>3, <2>1, <2>2, <2>3 DEF Prunes
  <1>8. CASE PurgeStrays
    <2> DEFINE strays == Hung(Child) \ Objects(Child)
               B == st.binding \ strays
               new == [st EXCEPT !.binding = B]
    <2>1. st' = new /\ UNCHANGED <<tree, queue, stale>>
      BY <1>8, Zenon DEF PurgeStrays, Work
    <2>2. B \in SUBSET Place /\ \A pl \in strays : pl[1] = Child
      BY <1>1 DEF Store, Hung
    <2> HIDE DEF strays
    <2>3. /\ new.role = st.role /\ new.binding = B
          /\ new.parent = st.parent /\ new.rooted = st.rooted /\ new.held = st.held
      <3> HIDE DEF B
      <3> QED
        BY <1>1, <2>2, BindingFields
    <2> HIDE DEF new
    <2> QED
      BY <1>2, <1>3, <2>1, <2>2, <2>3 DEF Prunes
  <1>9. CASE PurgeDenies
    <2> DEFINE D == st.denied \ relay.denies
               new == [st EXCEPT !.denied = D]
    <2>1. st' = new /\ UNCHANGED <<tree, queue, stale>>
      BY <1>9, Zenon DEF PurgeDenies, Work
    <2>2. D \in SUBSET (Holder \X Scope \X Perm)
      BY <1>1 DEF Store
    <2> HIDE DEF D
    <2>3. /\ new.role = st.role /\ new.binding = st.binding
          /\ new.parent = st.parent /\ new.rooted = st.rooted /\ new.held = st.held
      BY <1>1, <2>2, DeniedFields
    <2> HIDE DEF new
    <2> QED
      BY <1>2, <1>3, <2>1, <2>3 DEF Prunes
  <1> QED
    BY <1>5, <1>6, <1>7, <1>8, <1>9

\* A scope whose detachment is the first change is gone from the consumer's tree, and nothing
\* hung from it when it went.
LEMMA GoneChild ==
  ASSUME Typed, NEW f, Run(f, st.parent, queue, tree), queue # <<>>, Head(queue).op = "detached"
  PROVE  ~In(tree, Child) /\ f[1] = Changed(Head(queue), st.parent) /\ \A e \in st.parent : e[2] # Child
  <1>1. Head(queue) = queue[1] /\ Child = queue[1].child /\ 1 \in 1..Len(queue) /\ 1 - 1 = 0
        /\ 1 \in 0..Len(queue)
    BY HeadOne
  <1>2. f[1] = Changed(queue[1], f[1 - 1]) /\ f[0] = st.parent
        /\ Child # Root /\ \A e \in f[1 - 1] : e[2] # Child
    BY <1>1 DEF Run
  <1>3. \A e \in tree : In(f[1], e[1])
    BY <1>1 DEF Run
  <1>4. \A e \in f[1] : e[1] # Child
    BY <1>1, <1>2 DEF Changed
  <1> QED
    BY <1>1, <1>2, <1>3, <1>4 DEF In

LEMMA PrunesHangs ==
  ASSUME Typed, Hangs,
         \/ TakeDetached \/ PurgeStructure \/ (\E r \in Known : PurgeReadFacts(r)) \/ PurgeFacts
         \/ PurgeStrays \/ PurgeReadDenies \/ PurgeDenies \/ PurgeResidue
  PROVE  Hangs'
  <1>1. /\ Prunes /\ UNCHANGED <<tree, queue, stale>>
        /\ queue # <<>> /\ Head(queue).op = "detached" /\ relay'.pc \notin Moving
    BY PrunesWork
  <1>2. PICK f : Run(f, st.parent, queue, tree) /\ Reaching(f, st, queue, relay, tree, stale)
    BY DEF Hangs
  <1>3. ~In(tree, Child)
    BY <1>1, <1>2, GoneChild
  <1>4. \A pl, l : ~Awaits(st, queue, relay, pl, l)
    BY <1>1 DEF Awaits
  <1>5. Holds(st, queue, relay, tree)
    BY DEF Hangs
  <1>6. Holds(st', queue, relay', tree)
    <2>1. \A k \in Key : st'.held[k] # Absent /\ In(tree, k[2][1]) => k[2] \in st'.role
      BY <1>1, <1>3, <1>5 DEF Prunes, Holds
    <2>2. ASSUME NEW pl \in st'.role \ st'.binding, In(tree, pl[1])
          PROVE  pl[2] \in Locals /\ ~Seen(pl, st'.parent)
      BY <1>1, <1>3, <1>4, <1>5, <2>2 DEF Prunes, Holds
    <2> QED
      BY <1>1, <1>5, <2>1, <2>2 DEF Prunes, Holds
  <1>7. Reaching(f, st', queue, relay', tree, stale)
    BY <1>1, <1>2, <1>4 DEF Reaching, Prunes
  <1>8. Sweeps(st', queue, relay')
    BY <1>1 DEF Sweeps, Moving
  <1>9. Step
    BY DEF Step, RelayWork
  <1>10. st'.parent = st.parent
    BY <1>1 DEF Prunes
  <1> QED
    BY <1>1, <1>2, <1>6, <1>7, <1>8, <1>9, <1>10, HangsMade

LEMMA CutEdgeHangs ==
  ASSUME Typed, Hangs, CutEdge
  PROVE  Hangs'
  <1> DEFINE E == st.parent
             ch == Head(queue)
             F == Changed(ch, E)
             x == Reparent(st, Child, {})
             q == Tail(queue)
  <1>1. relay' = AtRest /\ st' = x /\ tree' = tree /\ queue' = q /\ stale' = stale
    BY DEF CutEdge, Finish, Work
  <1>2. queue # <<>> /\ ch.op = "detached" /\ st \in Store /\ queue \in Seq(Change)
    <2>1. queue # <<>> /\ ch.op # "moved" /\ st \in Store /\ queue \in Seq(Change)
      BY DEF CutEdge, Typed, StateOK, Handed, Moving
    <2>2. ch \in Change
      BY <2>1, HeadOne
    <2> QED
      BY <2>1, <2>2 DEF Change
  <1>3. ch = queue[1] /\ ch \in Change /\ Child \in Scope /\ Child = ch.child
    BY <1>2, HeadOne
  <1>4. /\ x.parent = {e \in E : e[1] # Child} \cup ({Child} \X {})
        /\ x.role = st.role /\ x.binding = st.binding /\ x.held = st.held /\ x.rooted = st.rooted
    BY <1>2, <1>3, ReparentFields
  <1>5. x.parent = F /\ E \in SUBSET (Scope \X Scope)
    <2>1. F = {e \in E : e[1] # Child}
      BY <1>2, <1>3 DEF Changed
    <2>2. {Child} \X {} = {}
      OBVIOUS
    <2> HIDE DEF F, x
    <2> QED
      BY <1>2, <1>4, <2>1, <2>2 DEF Store
  <1>6. PICK f : Run(f, E, queue, tree) /\ Reaching(f, st, queue, relay, tree, stale)
    BY DEF Hangs
  <1>7. ~In(tree, Child) /\ f[1] = F /\ \A e \in E : e[2] # Child
    BY <1>2, <1>6, GoneChild
  <1>8. ASSUME NEW pl \in Place, In(tree, pl[1])
        PROVE  Seen(pl, E) <=> Seen(pl, F)
    <2>1. pl[1] # Child /\ pl[1] \in Scope
      BY <1>7, <1>8 DEF Place
    <2>2. ch.child \notin Reach(E, pl[1])
      BY <1>3, <1>5, <1>7, <2>1, ReachLeaf
    <2> QED
      BY <1>3, <1>5, <2>2, ChangeShows
  <1> DEFINE g == [i \in 0..Len(queue) - 1 |-> f[i + 1]]
  <1>9. Run(g, F, q, tree) /\ Len(q) = Len(queue) - 1
    BY <1>2, <1>6, <1>7, RunPop
  <1>10. \A pl, l : ~Awaits(st, queue, relay, pl, l)
    BY <1>2 DEF Awaits
  <1> HIDE DEF x, F
  <1>11. Holds(x, q, AtRest, tree)
    <2>1. Holds(st, queue, relay, tree)
      BY DEF Hangs
    <2>2. ASSUME NEW pl \in st.role \ st.binding, In(tree, pl[1])
          PROVE  pl[2] \in Locals /\ ~Seen(pl, F)
      BY <1>2, <1>8, <1>10, <2>1, <2>2 DEF Holds, Store
    <2> QED
      BY <1>4, <1>5, <2>1, <2>2 DEF Holds
  <1>12. Reaching(g, x, q, AtRest, tree, stale)
    <2> SUFFICES ASSUME NEW pl \in st.binding, pl[2] \in Known, In(tree, pl[1]), pl \notin stale
                 PROVE  \E i \in 0..Len(queue) - 1 : Seen(pl, g[i])
      BY <1>4, <1>9 DEF Reaching
    <2>1. PICK j \in 0..Len(queue) : Seen(pl, f[j])
      BY <1>6, <1>10 DEF Reaching
    <2>2. pl \in Place
      BY <1>2 DEF Store
    <2>3. j = 0 => Seen(pl, f[1])
      BY <1>6, <1>7, <1>8, <2>1, <2>2 DEF Run
    <2> QED
      BY <1>2, <2>1, <2>3, PopSeen
  <1>13. Sweeps(x, q, AtRest)
    BY DEF Sweeps, AtRest
  <1>14. Step
    BY DEF Step, RelayWork
  <1> HIDE DEF g, q
  <1> QED
    BY <1>1, <1>5, <1>9, <1>11, <1>12, <1>13, <1>14, HangsMade

LEMMA FailHangs ==
  ASSUME Typed, Hangs, RelayFail
  PROVE  Hangs'
  <1>1. relay' = AtRest /\ UNCHANGED <<st, tree, queue, stale>> /\ AtRest.pc = "idle"
    BY DEF RelayFail, AtRest
  <1>2. PICK f : Run(f, st.parent, queue, tree) /\ Reaching(f, st, queue, relay, tree, stale)
    BY DEF Hangs
  <1>3. \A pl, l, m : Awaits(st, queue, relay, pl, l) => Awaits(st, queue, AtRest, pl, m)
    BY <1>1 DEF Awaits
  <1>4. Holds(st, queue, AtRest, tree)
    BY <1>3 DEF Hangs, Holds
  <1>5. Reaching(f, st, queue, AtRest, tree, stale)
    BY <1>2, <1>3 DEF Reaching
  <1>6. Sweeps(st, queue, AtRest)
    BY <1>1 DEF Sweeps
  <1>7. Step
    BY DEF Step
  <1> QED
    BY <1>1, <1>2, <1>4, <1>5, <1>6, <1>7, HangsMade

LEMMA HangsStep ==
  ASSUME Typed, Hangs, Step
  PROVE  Hangs'
  <1>1. CASE (\E s, p \in Scope : Move(s, p)) \/ (\E s \in Scope : Detach(s))
    BY <1>1, ConsumeHangs
  <1>2. CASE RelayFail
    BY <1>2, FailHangs
  <1>3. CASE RelayWork
    BY <1>3, TakeMoveHangs, WriteEdgeHangs, SweepReadHangs, SweepApplyHangs, PrunesHangs, CutEdgeHangs
       DEF RelayWork
  <1>4. CASE ~RelayWork /\ ~RelayFail
             /\ ~((\E s, p \in Scope : Move(s, p)) \/ (\E s \in Scope : Detach(s)))
    <2>1. CallsSeen
      BY DEF Hangs
    <2>2. PICK P \in SUBSET Place : Grows(P)
      BY <1>4, <2>1, OthersGrow
    <2> QED
      BY <2>2, GrowHangs
  <1> QED
    BY <1>1, <1>2, <1>3, <1>4

LEMMA HangsInit ==
  ASSUME Init
  PROVE  Hangs
  <1> DEFINE f == [i \in 0..0 |-> FirstTree]
  <1>1. /\ queue = <<>> /\ st.parent = FirstTree /\ tree = FirstTree
        /\ st.binding = Stray /\ st.role = Stray /\ st.rooted
        /\ st.held = [k \in Holder \X Place |-> Absent]
    BY DEF Init
  <1>2. Len(<<>>) = 0 /\ FirstTree \in SUBSET (Scope \X Scope)
    BY FgaFactsAssumption
  <1>3. Whole(FirstTree) /\ \A e \in FirstTree : In(FirstTree, e[1])
    BY FgaFactsAssumption DEF Whole, In
  <1>4. Run(f, FirstTree, <<>>, FirstTree)
    BY <1>2, <1>3 DEF Run
  <1>5. Reaching(f, st, queue, relay, tree, stale)
    BY <1>1, FgaFactsAssumption DEF Reaching
  <1>6. Holds(st, queue, relay, tree)
    <2>1. \A k \in Key : st.held[k] = Absent
      BY <1>1 DEF Key
    <2> QED
      BY <1>1, <2>1 DEF Holds
  <1>7. Sweeps(st, queue, relay)
    BY DEF Sweeps, Init, AtRest
  <1>8. CallsSeen
    <2>1. \A c \in Client : call[c] = NoCall
      BY DEF Init
    <2> QED
      BY <2>1, EndFields DEF CallsSeen, InGrant
  <1> QED
    BY <1>1, <1>4, <1>5, <1>6, <1>7, <1>8 DEF Hangs

-----------------------------------------------------------------------------
(* What the store is, at every instant and when all is quiet.              *)

Remembered == open \in [Client -> BOOLEAN] /\ crossed \in [Client -> BOOLEAN]

Wired == Typed /\ Hangs /\ Remembered

LEMMA WiredInit == Init => Wired
  BY TypedInit, HangsInit DEF Wired, Remembered, Init

LEMMA RememberType ==
  ASSUME Remembered, Remember
  PROVE  Remembered'
  <1>1. \A c \in Client : open[c] \in BOOLEAN /\ crossed[c] \in BOOLEAN
    BY DEF Remembered
  <1>2. open' \in [Client -> BOOLEAN]
    <2>1. \A c \in Client : (call[c].pc \in InList /\ (open[c] \/ Permitted(c))) \in BOOLEAN
      OBVIOUS
    <2> QED
      BY <2>1 DEF Remember
  <1>3. crossed' \in [Client -> BOOLEAN]
    <2>1. \A c \in Client : (call[c].pc \in InList \ {"listDenies"}
             /\ (crossed[c] \/ ~(st'.denied \subseteq st.denied))) \in BOOLEAN
      OBVIOUS
    <2> QED
      BY <2>1 DEF Remember
  <1> QED
    BY <1>2, <1>3 DEF Remembered

LEMMA HangsSame ==
  ASSUME Hangs, UNCHANGED vars
  PROVE  Hangs'
  <1>1. UNCHANGED <<st, tree, queue, call, relay, stale>>
    BY DEF vars
  <1>2. CallsSeen'
    BY <1>1 DEF Hangs, CallsSeen
  <1>3. Sweeps(st', queue', relay') /\ Holds(st', queue', relay', tree')
    BY <1>1 DEF Hangs
  <1>4. PICK f : Run(f, st.parent, queue, tree) /\ Reaching(f, st, queue, relay, tree, stale)
    BY DEF Hangs
  <1>5. Run(f, st'.parent, queue', tree') /\ Reaching(f, st', queue', relay', tree', stale')
    BY <1>1, <1>4
  <1>6. (\E h : Run(h, st.parent, queue, tree) /\ Reaching(h, st, queue, relay, tree, stale))'
    BY <1>5
  <1> QED
    BY <1>2, <1>3, <1>6 DEF Hangs

LEMMA WiredStep == Wired /\ [Next]_vars => Wired'
  <1>1. ASSUME Wired, Next PROVE Wired'
    BY <1>1, TypedAlways, HangsStep, RememberType DEF Wired, Next
  <1>2. ASSUME Wired, UNCHANGED vars PROVE Wired'
    <2>1. Remembered'
      BY <1>2 DEF Wired, Remembered, vars
    <2> QED
      BY <1>2, <2>1, TypedAlways, HangsSame DEF Wired
  <1> QED
    BY <1>1, <1>2

LEMMA WiredAlways == Spec => []Wired
  BY WiredInit, WiredStep, PTL DEF Spec

\* The run of the trees begins at the one of the store, and ends there with nothing to do.
LEMMA RunEnds ==
  ASSUME NEW f, NEW E, NEW T, NEW q, Run(f, E, q, T)
  PROVE  /\ Whole(E) /\ E \in SUBSET (Scope \X Scope)
         /\ \A e \in T : In(E, e[1])
         /\ q = <<>> => E = T /\ f[0] = E
  BY DEF Run

LEMMA OneParent ==
  ASSUME NEW x, Whole(x.parent), NEW s \in Scope
  PROVE  Cardinality(Parents(x, s)) <= 1
  <1>1. CASE Parents(x, s) = {}
    BY <1>1, FS_EmptySet
  <1>2. CASE Parents(x, s) # {}
    <2>1. PICK p : p \in Parents(x, s)
      BY <1>2
    <2>2. \A t \in Parents(x, s) : t = p
      BY <2>1 DEF Parents, Whole
    <2>3. Parents(x, s) = {p}
      BY <2>1, <2>2
    <2> QED
      BY <2>3, FS_Singleton
  <1> QED
    BY <1>1, <1>2

LEMMA TreesWhole ==
  ASSUME Typed, Hangs
  PROVE  TreeWhole
  <1>1. PICK f : Run(f, st.parent, queue, tree)
    BY DEF Hangs
  <1>2. /\ Whole(st.parent) /\ st.parent \in SUBSET (Scope \X Scope)
        /\ \A e \in tree : In(st.parent, e[1])
        /\ queue = <<>> => st.parent = tree
    BY <1>1, RunEnds
  <1>3. \A s \in Scope : Cardinality(Parents(st, s)) <= 1
    BY <1>2, OneParent
  <1>4. ASSUME NEW s \in Scope, Exists(s) PROVE Rooted(st, s)
    <2>1. In(st.parent, s)
      BY <1>2, <1>4 DEF Exists, In
    <2>2. Root \in Reach(st.parent, s)
      BY <1>2, <2>1, InRooted
    <2> QED
      BY <2>2 DEF Hangs, Holds, Rooted, Up
  <1> QED
    BY <1>2, <1>3, <1>4 DEF TreeWhole, Settled

LEMMA NoneInert ==
  ASSUME Typed, Hangs
  PROVE  NothingInert
  <1> SUFFICES ASSUME queue = <<>>, NEW k \in Key, st.held[k] # Absent, VisibleNow(k[2])
               PROVE  k[2] \in st.role \cap st.binding
    BY DEF NothingInert, Settled, Key
  <1>1. st.parent = tree
    BY RunEnds DEF Hangs
  <1>2. In(tree, k[2][1]) /\ Seen(k[2], st.parent)
    BY <1>1, SeenNow
  <1>3. Holds(st, queue, relay, tree)
    BY DEF Hangs
  <1>4. k[2] \in st.role
    BY <1>2, <1>3 DEF Holds
  <1>5. ~Awaits(st, queue, relay, k[2], relay.show)
    BY DEF Awaits
  <1> QED
    BY <1>2, <1>3, <1>4, <1>5 DEF Holds

LEMMA StaleOnly ==
  ASSUME Typed, Hangs
  PROVE  OnlyStaleGrantsReach
  <1> SUFFICES ASSUME queue = <<>>, NEW pl \in st.binding, pl[2] \in Known, Exists(pl[1]), pl \notin stale
               PROVE  VisibleNow(pl)
    BY DEF OnlyStaleGrantsReach, Settled
  <1>1. PICK f : Run(f, st.parent, queue, tree) /\ Reaching(f, st, queue, relay, tree, stale)
    BY DEF Hangs
  <1>2. f[0] = tree
    BY <1>1, RunEnds
  <1>3. In(tree, pl[1]) /\ ~Awaits(st, queue, relay, pl, relay.hide)
    BY DEF In, Exists, Awaits
  <1>4. PICK j \in 0..Len(queue) : Seen(pl, f[j])
    BY <1>1, <1>3 DEF Reaching
  <1>5. j = 0
    OBVIOUS
  <1> QED
    BY <1>2, <1>3, <1>4, <1>5, SeenNow

\* The store is whole at every instant: no scope has two parents, what the consumer has hangs
\* from the root, and once all is quiet the trees are one and every assignment of a visible
\* role has its edges, whatever moves, sweeps and purges failed or raced with the grants.
THEOREM StoreIsWhole == Spec => []StoreWhole
  <1>1. Wired => StoreWhole
    BY TreesWhole, NoneInert DEF Wired, StoreWhole, TypeOK, Typed, StateOK, CallsOK, Remembered
  <1> QED
    BY <1>1, WiredAlways, PTL

\* Once all is quiet a local role reaches only where its owner is in the chain, unless a grant
\* hung it whose check was older than a move: the sweep of onScopeMoved looks at the whole
\* subtree, and a pass that finds its edge written still sweeps.
THEOREM OnlyStaleReach == Spec => []OnlyStaleGrantsReach
  <1>1. Wired => OnlyStaleGrantsReach
    BY StaleOnly DEF Wired
  <1> QED
    BY <1>1, WiredAlways, PTL
=============================================================================
