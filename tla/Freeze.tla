------------------------------- MODULE Freeze -------------------------------
(***************************************************************************)
(* The durable freeze of the engine's writes (src/src/freeze.ts and the    *)
(* freeze part of src/src/manager.ts).                                     *)
(*                                                                         *)
(* One row of authz_catalog_version, shared by every process, says whether *)
(* the fleet may write.  A manager that runs a window (withFrozenWrites,   *)
(* reconcile) takes the row for a lease it renews on a timer, runs inside  *)
(* a window somebody already holds, or adopts the live window of the       *)
(* operator; when its pass ends it asks whether the window was lost        *)
(* (`lapsed`) and closes it.  Writers read the row before they write.      *)
(*                                                                         *)
(* Every UPDATE of the row is a statement in flight between the moment its *)
(* caller read the clock and the moment the database executes it, so it    *)
(* can land late, land after its caller died, or never land.               *)
(***************************************************************************)
EXTENDS Integers, FiniteSets

CONSTANTS
    Manager,    \* the processes of the fleet, each with its AuthorizationManager
    Writer,     \* the managers whose callers write facts
    Call,       \* calls of withFrozenWrites / reconcile, one window each
    Home,       \* the manager each call runs on
    Operator,   \* the holder of the windows of authz:freeze
    NoOwner,    \* freeze_reason and freeze_holder are NULL; also: no such call
    Lease,      \* leaseMs, in ticks of the clock
    RenewLag,   \* ticks a renewal may take from reading the clock to the row
    MaxClock,   \* bound: the clock stops there
    MaxFence    \* bound: successful acquisitions

ASSUME FreezeAssumption ==
    /\ Writer \subseteq Manager
    /\ Home \in [Call -> Manager]
    /\ Operator \notin Call
    /\ NoOwner \notin Call \cup {Operator}
    /\ Lease \in Nat \ {0}
    /\ RenewLag \in Nat
    /\ MaxClock \in Nat
    /\ MaxFence \in Nat

VARIABLES
    clock,      \* wall milliseconds of the config's clock
    row,        \* authz_catalog_version, id = 2
    sql,        \* UPDATEs of the row in flight
    held,       \* held[m]: the call whose token manager m holds (#heldFreeze)
    win,        \* win[c]: what call c knows of its window
    write,      \* write[m]: the nowMs of a write of m at its barrier, or Idle
    lifting     \* the token authz:unfreeze read and is about to release

vars == <<clock, row, sql, held, win, write, lifting>>

Never   == -1                       \* freeze_until_ms IS NULL
Idle    == -1                       \* no write at the barrier
Owner   == Call \cup {Operator, NoOwner}
Token   == [fence : Nat, owner : Owner]
NoToken == [fence |-> 0, owner |-> NoOwner]

PCs == {"idle", "probing", "acquiring", "taken", "refused", "running", "closing",
        "releasing", "done", "dead"}

(***************************************************************************)
(* A call: where it is, the nowMs it captured in freeze() or unfreeze(),   *)
(* whether acquireFreezeOutcome is on its second attempt, the shape and    *)
(* the token of its FrozenWindowContext, the `lapsed` flag of the          *)
(* HeldFreeze it created, and what its pass published as frozen.lapsed.    *)
(* The last three fields are history: while the pass ran, a write passed   *)
(* its barrier with no late renewal to blame, another window took the row, *)
(* authz:unfreeze lifted it.                                               *)
(***************************************************************************)
Window == [pc : PCs, now : Nat, retried : BOOLEAN,
           ctx : {"own", "enclosing", "operator"}, token : Token, lapsed : BOOLEAN,
           verdict : {"none", "certified", "lapsed"},
           admitted : BOOLEAN, overtaken : BOOLEAN, lifted : BOOLEAN]

\* A call that knows nothing: not started, or over.
Blank(pc) == [pc |-> pc, now |-> 0, retried |-> FALSE, ctx |-> "own",
              token |-> NoToken, lapsed |-> FALSE, verdict |-> "none",
              admitted |-> FALSE, overtaken |-> FALSE, lifted |-> FALSE]

TokenOf(r) == [fence |-> r.fence, owner |-> r.owner]

\* The row is the one of this token: fence and holder both match.
Mine(t) == TokenOf(row) = t

FreezeIsLive(r, at) ==
    /\ r.owner # NoOwner
    /\ r.until = Never \/ r.until > at

\* Bug: an expired window is free space, the operator's too.
AcquirableIfExpired(r, at) ==
    \/ r.owner = NoOwner
    \/ r.until # Never /\ r.until <= at

\* The WHERE of acquireFreezeOutcome: free, or expired and not the operator's.
Acquirable(r, at) ==
    \/ r.owner = NoOwner
    \/ r.until # Never /\ r.until <= at /\ r.owner # Operator

Released(r) == [r EXCEPT !.owner = NoOwner, !.until = Never]

\* Bug: the lease is not written.
TakenForever(r, owner, until) ==
    [owner |-> owner, until |-> Never, fence |-> r.fence + 1]

Taken(r, owner, until) ==
    [owner |-> owner, until |-> until, fence |-> r.fence + 1]

Statement(op, c, fence, at) == [op |-> op, call |-> c, fence |-> fence, now |-> at]

At(c, pc) == win[c].pc = pc

Goto(c, pc) == win' = [win EXCEPT ![c].pc = pc]

Finish(c) == win' = [win EXCEPT ![c] = Blank("done")]

Init ==
    /\ clock = 0
    /\ row = [owner |-> NoOwner, until |-> Never, fence |-> 0]
    /\ sql = {}
    /\ held = [m \in Manager |-> NoOwner]
    /\ win = [c \in Call |-> Blank("idle")]
    /\ write = [m \in Manager |-> Idle]
    /\ lifting = NoToken

-----------------------------------------------------------------------------
(* Opening a window: #durableFreezeContext and freeze().                   *)

\* The pass of call c starts inside the window of token t.
Enter(c, shape, t) ==
    win' = [win EXCEPT ![c] = [Blank("running") EXCEPT !.ctx = shape, !.token = t]]

\* Form 1: this manager already holds a freeze, the window runs inside it.
RunInside(c) ==
    /\ At(c, "idle")
    /\ held[Home[c]] # NoOwner
    /\ Enter(c, "enclosing", win[held[Home[c]]].token)
    /\ UNCHANGED <<clock, row, sql, held, write, lifting>>

\* freeze(): reads the clock and sends the conditional UPDATE.
SendAcquire(c) ==
    /\ held[Home[c]] = NoOwner
    /\ clock + Lease <= MaxClock
    /\ win' = [win EXCEPT ![c].pc = "acquiring", ![c].now = clock]
    /\ sql' = sql \cup {Statement("acquire", c, 0, clock)}
    /\ UNCHANGED <<clock, row, held, write, lifting>>

\* Form 3: nobody holds one here, take one.
OpenOwn(c) == At(c, "idle") /\ SendAcquire(c)

\* operatorAsContext: asks freezeStatus() before anything else.
OpenAsContext(c) ==
    /\ At(c, "idle")
    /\ held[Home[c]] = NoOwner
    /\ Goto(c, "probing")
    /\ UNCHANGED <<clock, row, sql, held, write, lifting>>

LiveOperator == row.owner = Operator /\ FreezeIsLive(row, clock)

\* Form 2: a live operator window is adopted.
AdoptOperator(c) ==
    /\ At(c, "probing")
    /\ LiveOperator
    /\ Enter(c, "operator", TokenOf(row))
    /\ UNCHANGED <<clock, row, sql, held, write, lifting>>

\* No live operator window: freeze(), which throws if another call of this
\* manager took one during the read.
FallBack(c) ==
    /\ At(c, "probing")
    /\ ~LiveOperator
    /\ \/ SendAcquire(c)
       \/ /\ held[Home[c]] # NoOwner
          /\ Finish(c)
          /\ UNCHANGED <<clock, row, sql, held, write, lifting>>

\* history: every running pass is overtaken when the row changes hands.
Overtake(w) == [c \in Call |-> [w[c] EXCEPT !.overtaken = @ \/ w[c].pc = "running"]]

\* The database executes an acquire; its caller may no longer be waiting.
ExecAcquire(s) ==
    LET Answer(w, pc) == [w EXCEPT ![s.call].pc = IF @ = "acquiring" THEN pc ELSE @]
    IN  /\ s.op = "acquire"
        /\ sql' = sql \ {s}
        /\ \/ /\ Acquirable(row, s.now)
              /\ row.fence < MaxFence
              /\ row' = Taken(row, s.call, s.now + Lease)
              /\ win' = Answer(Overtake(win), "taken")
           \/ /\ ~Acquirable(row, s.now)
              /\ win' = Answer(win, "refused")
              /\ UNCHANGED row
        /\ UNCHANGED <<clock, held, write, lifting>>

\* The UPDATE took the row: re-read it for the fence; hold it if still ours.
ConfirmAcquire(c) ==
    /\ At(c, "taken")
    /\ \/ /\ row.owner = c
          /\ Enter(c, "own", TokenOf(row))
          /\ held' = [held EXCEPT ![Home[c]] = c]
       \/ row.owner # c /\ Finish(c) /\ UNCHANGED held
    /\ UNCHANGED <<clock, row, sql, write, lifting>>

\* The UPDATE matched no row: 423 if a live freeze stands, 503 if an expired
\* operator window does, one retry with the same nowMs otherwise.
ExplainRefusal(c) ==
    LET contended == ~FreezeIsLive(row, win[c].now) /\ row.owner # Operator
    IN  /\ At(c, "refused")
        /\ \/ /\ contended /\ ~win[c].retried
              /\ win' = [win EXCEPT ![c].pc = "acquiring", ![c].retried = TRUE]
              /\ sql' = sql \cup {Statement("acquire", c, 0, win[c].now)}
           \/ /\ ~contended \/ win[c].retried
              /\ Finish(c)
              /\ UNCHANGED sql
        /\ UNCHANGED <<clock, row, held, write, lifting>>

-----------------------------------------------------------------------------
(* Holding it: the renewal timer.                                          *)

\* The timer of #renewHeldFreeze lives until unfreeze() clears it.
SendRenew(c) ==
    /\ held[Home[c]] = c
    /\ ~win[c].lapsed
    /\ clock + Lease <= MaxClock
    /\ sql' = sql \cup {Statement("renew", c, win[c].token.fence, clock)}
    /\ UNCHANGED <<clock, row, held, win, write, lifting>>

\* Bug: the renewal does not ask whether the lease still runs.
RenewableWhenever(r, s) == r.fence = s.fence /\ r.owner = s.call /\ r.until # Never

\* The WHERE of renewFreeze: fence, holder, not expired at the caller's nowMs.
Renewable(r, s) ==
    /\ r.fence = s.fence /\ r.owner = s.call
    /\ r.until # Never /\ r.until > s.now

ExecRenew(s) ==
    /\ s.op = "renew"
    /\ sql' = sql \ {s}
    /\ \/ /\ Renewable(row, s)
          /\ row' = [row EXCEPT !.until = s.now + Lease]
          /\ UNCHANGED win
       \/ /\ ~Renewable(row, s)
          /\ win' = [win EXCEPT ![s.call].lapsed = @ \/ win[s.call].token.fence = s.fence]
          /\ UNCHANGED row
    /\ UNCHANGED <<clock, held, write, lifting>>

-----------------------------------------------------------------------------
(* Closing a window: lapsed(), release(), unfreeze().                      *)

\* Bug: a row that is live is taken for ours.
TokenLapsedByClock(t) ==
    \/ t.owner \in Call /\ win[t.owner].lapsed
    \/ row.until # Never /\ row.until <= clock

\* #tokenLapsed: the flag of the held freeze, then the row, then the clock.
TokenLapsed(t) ==
    \/ t.owner \in Call /\ win[t.owner].lapsed
    \/ ~Mine(t)
    \/ row.until # Never /\ row.until <= clock

\* The pass ended and publishes whether its window was lost.
Certify(c) ==
    /\ At(c, "running")
    /\ win' = [win EXCEPT ![c].pc = "closing",
                          ![c].verdict = IF TokenLapsed(win[c].token)
                                         THEN "lapsed" ELSE "certified"]
    /\ UNCHANGED <<clock, row, sql, held, write, lifting>>

\* The pass threw: the finally closes the window, nothing is certified.
Abort(c) ==
    /\ At(c, "running")
    /\ Goto(c, "closing")
    /\ UNCHANGED <<clock, row, sql, held, write, lifting>>

\* The window was somebody else's: release() does nothing.
LeaveOuter(c) ==
    /\ At(c, "closing")
    /\ win[c].ctx # "own"
    /\ Finish(c)
    /\ UNCHANGED <<clock, row, sql, held, write, lifting>>

\* The end of unfreeze(): the held freeze of this token is forgotten, and its
\* timer with it.
Forget(c) ==
    /\ held' = [held EXCEPT ![Home[c]] = IF @ = c THEN NoOwner ELSE @]
    /\ Finish(c)

\* releaseFreeze reads the row: not ours, nothing to release; ours, the UPDATE.
CloseOwn(c) ==
    /\ At(c, "closing")
    /\ win[c].ctx = "own"
    /\ \/ /\ ~Mine(win[c].token)
          /\ Forget(c)
          /\ UNCHANGED sql
       \/ /\ Mine(win[c].token)
          /\ win' = [win EXCEPT ![c].pc = "releasing", ![c].now = clock]
          /\ sql' = sql \cup {Statement("release", c, win[c].token.fence, clock)}
          /\ UNCHANGED held
    /\ UNCHANGED <<clock, row, write, lifting>>

\* Bug: the release is not conditional on its token.
ExecReleaseAny(s) ==
    /\ s.op = "release"
    /\ sql' = sql \ {s}
    /\ row' = Released(row)
    /\ \/ At(s.call, "releasing") /\ Forget(s.call)
       \/ ~At(s.call, "releasing") /\ UNCHANGED <<held, win>>
    /\ UNCHANGED <<clock, write, lifting>>

ExecRelease(s) ==
    /\ s.op = "release"
    /\ sql' = sql \ {s}
    /\ row' = IF row.fence = s.fence /\ row.owner = s.call THEN Released(row) ELSE row
    /\ \/ At(s.call, "releasing") /\ Forget(s.call)
       \/ ~At(s.call, "releasing") /\ UNCHANGED <<held, win>>
    /\ UNCHANGED <<clock, write, lifting>>

\* The database never executes a statement: connection lost.
Drop(s) ==
    /\ sql' = sql \ {s}
    /\ UNCHANGED <<clock, row, held, win, write, lifting>>

\* The caller's deadline (503); its statement may still land.  freeze() throws.
DeadlineAcquire(c) ==
    /\ At(c, "acquiring")
    /\ Finish(c)
    /\ UNCHANGED <<clock, row, sql, held, write, lifting>>

\* release() swallows the 503 of unfreeze(), which did not reach the lines that
\* forget the held freeze and stop its timer.
DeadlineRelease(c) ==
    /\ At(c, "releasing")
    /\ win' = [win EXCEPT ![c] = [Blank("done") EXCEPT !.now = win[c].now,
                                     !.token = win[c].token, !.lapsed = win[c].lapsed]]
    /\ UNCHANGED <<clock, row, sql, held, write, lifting>>

-----------------------------------------------------------------------------
(* The operator's commands, each a process of its own that then exits.     *)

AuthzFreeze ==
    /\ Acquirable(row, clock)
    /\ row.fence < MaxFence
    /\ \E until \in {Never, clock + Lease} :
          /\ until <= MaxClock
          /\ row' = Taken(row, Operator, until)
    /\ win' = Overtake(win)
    /\ UNCHANGED <<clock, sql, held, write, lifting>>

\* unfreezePlan: `asked` is --fence (0 when absent).
AuthzUnfreezeRead(asked) ==
    /\ lifting = NoToken
    /\ row.owner # NoOwner
    /\ \/ ~FreezeIsLive(row, clock)
       \/ asked = row.fence
       \/ asked = 0 /\ row.owner = Operator
    /\ lifting' = TokenOf(row)
    /\ UNCHANGED <<clock, row, sql, held, win, write>>

AuthzUnfreezeLift ==
    /\ lifting # NoToken
    /\ lifting' = NoToken
    /\ row' = IF Mine(lifting) THEN Released(row) ELSE row
    /\ win' = [c \in Call |-> [win[c] EXCEPT !.lifted =
                  @ \/ (At(c, "running") /\ Mine(lifting) /\ win[c].token = lifting)]]
    /\ UNCHANGED <<clock, sql, held, write>>

-----------------------------------------------------------------------------
(* The rest of the fleet.                                                  *)

\* A write reaches #assertNotFrozen: refused at once while this manager holds
\* a freeze, otherwise it reads the clock and asks for the row.
StartWrite(m) ==
    /\ write[m] = Idle
    /\ held[m] = NoOwner
    /\ write' = [write EXCEPT ![m] = clock]
    /\ UNCHANGED <<clock, row, sql, held, win, lifting>>

\* A renewal of the window of the row read the clock before its lease ran out
\* and has not landed: it may still bring back a lease found expired meanwhile.
RenewalInFlight == \E s \in sql : s.op = "renew" /\ Renewable(row, s)

\* assertNotFrozenRow answers: the write goes on to the driver, or gets a 503.
PassBarrier(m) ==
    LET passes == ~FreezeIsLive(row, write[m])
    IN  /\ write[m] # Idle
        /\ write' = [write EXCEPT ![m] = Idle]
        /\ win' = [c \in Call |-> [win[c] EXCEPT !.admitted =
                      @ \/ (At(c, "running") /\ passes /\ ~RenewalInFlight)]]
        /\ UNCHANGED <<clock, row, sql, held, lifting>>

\* SIGKILL: the process forgets everything; its statements stay in flight.
Kill(m) ==
    /\ held' = [held EXCEPT ![m] = NoOwner]
    /\ write' = [write EXCEPT ![m] = Idle]
    /\ win' = [c \in Call |-> IF Home[c] = m /\ ~At(c, "idle")
                              THEN Blank("dead") ELSE win[c]]
    /\ UNCHANGED <<clock, row, sql, lifting>>

\* A renewal that has been on its way for RenewLag ticks lands now or never.
Due(s) == s.op = "renew" /\ clock - s.now >= RenewLag

\* Time passes.
Tick ==
    /\ clock < MaxClock
    /\ \A s \in sql : ~Due(s)
    /\ clock' = clock + 1
    /\ UNCHANGED <<row, sql, held, win, write, lifting>>

Open(c)  == RunInside(c) \/ OpenOwn(c) \/ OpenAsContext(c) \/ AdoptOperator(c)
            \/ FallBack(c) \/ ConfirmAcquire(c) \/ ExplainRefusal(c) \/ DeadlineAcquire(c)
Close(c) == Certify(c) \/ Abort(c) \/ LeaveOuter(c) \/ CloseOwn(c) \/ DeadlineRelease(c)
Exec(s)  == ExecAcquire(s) \/ ExecRenew(s) \/ ExecRelease(s) \/ Drop(s)

Next ==
    \/ \E c \in Call : Open(c) \/ SendRenew(c) \/ Close(c)
    \/ \E s \in sql : Exec(s)
    \/ AuthzFreeze
    \/ \E asked \in 0..MaxFence : AuthzUnfreezeRead(asked)
    \/ AuthzUnfreezeLift
    \/ \E m \in Writer : StartWrite(m) \/ PassBarrier(m)
    \/ \E m \in Manager : Kill(m)
    \/ Tick

Spec == Init /\ [][Next]_vars

\* Time passes, and the database executes or loses a renewal within RenewLag
\* (its own timeout): nothing is assumed of processes, writers or operators.
FairSpec == Spec /\ WF_vars(Tick) /\ WF_vars(\E s \in sql : Due(s) /\ Exec(s))

-----------------------------------------------------------------------------
(* Properties.                                                             *)

\* Every variable has its type.
TypeOK ==
    /\ clock \in Nat
    /\ row \in [owner : Owner, until : Nat \cup {Never}, fence : Nat]
    /\ sql \subseteq [op : {"acquire", "renew", "release"}, call : Call,
                      fence : Nat, now : Nat]
    /\ held \in [Manager -> Call \cup {NoOwner}]
    /\ win \in [Call -> Window]
    /\ write \in [Manager -> Nat \cup {Idle}]
    /\ lifting \in Token

\* A pass that publishes lapsed = false ran with the barrier up from its first
\* step to its certification (manager.ts, #tokenLapsed; the README's "demonstrated,
\* not assumed"), however late its renewals land: no write of any process passed it,
\* but in the one hole the code leaves, a lease that had run out while a renewal sent
\* in time was still on its way to the row.
CertifiedMeansFrozen ==
    \A c \in Call : win[c].verdict = "certified" => ~win[c].admitted

\* Two passes never interleave and both certify: if another window took the row
\* while this pass ran (its lease ran out), this pass publishes lapsed = true.
CertifiedMeansAlone ==
    \A c \in Call : win[c].verdict = "certified" => ~win[c].overtaken

\* The barrier of a running window stands until its lease runs out and another
\* owner takes the row, or the operator lifts it: no interior window's finally,
\* no stale release and no late statement of a dead process lowers it.
BarrierStands ==
    \A c \in Call :
        At(c, "running") /\ win[c].ctx = "own" =>
            Mine(win[c].token) \/ win[c].overtaken \/ win[c].lifted

\* An operator's window, expired or not, is only ever closed by authz:unfreeze
\* with the token of that very window: no pass takes it over, renews it or lifts
\* it (freeze.ts, acquireFreezeOutcome; manager.ts, the adopted context).
OperatorWindowIsEvidence ==
    [][row.owner = Operator => \/ row' = row
                               \/ row' = Released(row) /\ lifting = TokenOf(row)]_vars

\* After the process of a window dies nobody cleans up, and yet its freeze stops
\* being live by itself: the lease runs out.
FleetThaws ==
    \A c \in Call :
        At(c, "dead") /\ row.owner = c ~> ~(row.owner = c /\ FreezeIsLive(row, clock))

\* What the context of a window says when release() fails: the lease runs out by
\* itself, within one lease of the close.
ClosedWindowThaws ==
    \A c \in Call :
        At(c, "done") /\ row.owner = c => row.until <= win[c].now + Lease

=============================================================================
