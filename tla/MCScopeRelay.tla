---------------------------- MODULE MCScopeRelay ----------------------------
EXTENDS ScopeRelay, TLC

CONSTANTS a, b, r1, r2

MCScope == {a, b}
MCTree == (a :> Root) @@ (b :> a)

\* One relay and a queue that fails, in the order of the transactions.
InOrder == [relays |-> {r1}, attempts |-> 2, overlap |-> FALSE, plain |-> FALSE, apply |-> FALSE,
            drops |-> FALSE, several |-> FALSE, late |-> FALSE, entries |-> 3, faults |-> 1]

\* Two relays, transactions that overlap and an operator who requeues.
Racing == [relays |-> {r1, r2}, attempts |-> 1, overlap |-> TRUE, plain |-> TRUE, apply |-> TRUE,
           drops |-> FALSE, several |-> FALSE, late |-> FALSE, entries |-> 2, faults |-> 1]

\* Two relays that only take turns; and one relay under everything else,
\* its lease dropping too.
Meeting    == [Racing EXCEPT !.overlap = FALSE, !.plain = FALSE, !.apply = FALSE,
                                 !.several = TRUE]
Requeueing == [Racing EXCEPT !.relays = {r1}, !.drops = TRUE, !.several = TRUE]

\* A cron that comes late: five changes have committed, and no pass has run yet.  The
\* second names the scope of the first; the others come and go behind it.
Late == [relays |-> {r1}, attempts |-> 1, overlap |-> FALSE, plain |-> FALSE, apply |-> FALSE,
         drops |-> FALSE, several |-> FALSE, late |-> FALSE, entries |-> 5, faults |-> 1]

\* Two writers of the backend at a time: a lease that drops under its pass, and a Write
\* that outlives it.
Crossing == [Meeting EXCEPT !.drops = TRUE, !.late = TRUE, !.several = FALSE]

MCPlans == {InOrder, Racing, Meeting, Requeueing, Late, Crossing}

Waiting(op, child, parent) ==
    [op |-> op, child |-> child, parent |-> parent, attempts |-> 0, state |-> "queued"]

MCInit ==
    \/ Init /\ plan # Late
    \/ /\ plan = Late /\ faults = Late.faults
       /\ queue = <<Waiting("moved", a, Root), Waiting("moved", b, a), Waiting("detached", b, NoScope),
                    Waiting("attached", b, Root), Waiting("detached", b, NoScope)>>
       /\ tree = (a :> Root) @@ (b :> NoScope)
       /\ store = Edges(FirstTree) /\ written = [s \in Scope |-> 0]
       /\ lease = NoRelay /\ pass = [r \in Relay |-> Idle] /\ ticket = 0
       /\ edge = [r \in Relay |-> Unread("check", 0)] /\ late = {}

MCSpec == MCInit /\ [][Next]_vars /\ Fairness

\* One relay that is given receipts of several entries.
Receipts == {[InOrder EXCEPT !.attempts = 1, !.several = TRUE, !.entries = 4, !.faults = 0]}
===========================================================================
