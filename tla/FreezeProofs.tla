---------------------------- MODULE FreezeProofs ----------------------------
(* What holds of the freeze for every fleet, every lease and every bound.  *)
EXTENDS Freeze, TLAPS

USE FreezeAssumption DEF Never, Idle

\* Every variable keeps its type.
LEMMA InitType == Init => TypeOK
  BY DEF Init, TypeOK, Owner, Token, NoToken, Window, Blank, PCs

\* What Blank and its updates build are windows.
LEMMA BlankType ==
  ASSUME NEW pc \in PCs
  PROVE  Blank(pc) \in Window
  BY DEF Blank, Window, NoToken, Token, Owner

\* A window with a field or two set to values of their types is a window.
LEMMA UpdateType ==
  ASSUME NEW w \in Window, NEW pc \in PCs, NEW n \in Nat,
         NEW v \in {"none", "certified", "lapsed"}
  PROVE  /\ [w EXCEPT !.pc = pc, !.now = n] \in Window
         /\ [w EXCEPT !.pc = pc, !.retried = TRUE] \in Window
         /\ [w EXCEPT !.pc = pc, !.verdict = v] \in Window
         /\ [w EXCEPT !.pc = pc] \in Window
  BY DEF Window

LEMMA FlagType ==
  ASSUME NEW w \in Window, NEW b \in BOOLEAN
  PROVE  /\ [w EXCEPT !.lapsed = b] \in Window
         /\ [w EXCEPT !.admitted = b] \in Window
         /\ [w EXCEPT !.overtaken = b] \in Window
         /\ [w EXCEPT !.lifted = b] \in Window
  BY DEF Window

LEMMA EnterType ==
  ASSUME TypeOK, NEW c \in Call, NEW t \in Token,
         NEW shape \in {"own", "enclosing", "operator"}, Enter(c, shape, t)
  PROVE  win' \in [Call -> Window]
  BY DEF Enter, TypeOK, Blank, Window, PCs

LEMMA FinishType ==
  ASSUME TypeOK, NEW c \in Call, Finish(c)
  PROVE  win' \in [Call -> Window]
  BY BlankType DEF Finish, TypeOK, PCs

LEMMA GotoType ==
  ASSUME TypeOK, NEW c \in Call, NEW pc \in PCs, Goto(c, pc)
  PROVE  win' \in [Call -> Window]
  BY DEF Goto, TypeOK, Window

\* The marks of a window are Booleans, whatever sets them.
LEMMA MarkType ==
  ASSUME NEW w \in Window, NEW P
  PROVE  /\ [w EXCEPT !.lapsed = @ \/ P] \in Window
         /\ [w EXCEPT !.admitted = @ \/ P] \in Window
         /\ [w EXCEPT !.overtaken = @ \/ P] \in Window
         /\ [w EXCEPT !.lifted = @ \/ P] \in Window
  <1>1. \A b \in BOOLEAN : (b \/ P) \in BOOLEAN
    BY Zenon
  <1>2. \A b \in BOOLEAN : /\ [w EXCEPT !.lapsed = b] \in Window
                          /\ [w EXCEPT !.admitted = b] \in Window
                          /\ [w EXCEPT !.overtaken = b] \in Window
                          /\ [w EXCEPT !.lifted = b] \in Window
    BY FlagType, Zenon
  <1>3. /\ w.lapsed \in BOOLEAN /\ w.admitted \in BOOLEAN
        /\ w.overtaken \in BOOLEAN /\ w.lifted \in BOOLEAN
    BY DEF Window
  <1> QED
    BY <1>1, <1>2, <1>3, Zenon

LEMMA OvertakeType == TypeOK => Overtake(win) \in [Call -> Window]
  BY MarkType DEF Overtake, TypeOK

LEMMA RowTokenType == TypeOK => TokenOf(row) \in Token
  BY DEF TypeOK, TokenOf, Token

LEMMA SendAcquireType ==
  ASSUME TypeOK, NEW c \in Call, SendAcquire(c)
  PROVE  TypeOK'
  <1>1. win' \in [Call -> Window]
    BY UpdateType DEF SendAcquire, TypeOK, PCs
  <1> QED
    BY <1>1 DEF SendAcquire, TypeOK, Statement

LEMMA OpenType ==
  ASSUME TypeOK, NEW c \in Call, Open(c)
  PROVE  TypeOK'
  <1>1. CASE RunInside(c)
    <2>1. win[held[Home[c]]].token \in Token
      BY <1>1 DEF RunInside, TypeOK, Window
    <2>2. win' \in [Call -> Window]
      BY <1>1, <2>1, EnterType DEF RunInside
    <2> QED
      BY <1>1, <2>2 DEF RunInside, TypeOK
  <1>2. CASE OpenOwn(c)
    BY <1>2, SendAcquireType DEF OpenOwn
  <1>3. CASE OpenAsContext(c)
    BY <1>3, GotoType DEF OpenAsContext, TypeOK, PCs
  <1>4. CASE AdoptOperator(c)
    BY <1>4, EnterType, RowTokenType DEF AdoptOperator, TypeOK
  <1>5. CASE FallBack(c)
    BY <1>5, SendAcquireType, FinishType DEF FallBack, TypeOK
  <1>6. CASE ConfirmAcquire(c)
    BY <1>6, EnterType, FinishType, RowTokenType DEF ConfirmAcquire, TypeOK
  <1>7. CASE ExplainRefusal(c)
    <2>1. win' \in [Call -> Window]
      BY <1>7, FinishType DEF ExplainRefusal, TypeOK, Window, PCs
    <2>2. sql' \subseteq [op : {"acquire", "renew", "release"}, call : Call,
                          fence : Nat, now : Nat]
      BY <1>7 DEF ExplainRefusal, TypeOK, Statement, Window
    <2> QED
      BY <1>7, <2>1, <2>2 DEF ExplainRefusal, TypeOK
  <1>8. CASE DeadlineAcquire(c)
    BY <1>8, FinishType DEF DeadlineAcquire, TypeOK
  <1> QED
    BY <1>1, <1>2, <1>3, <1>4, <1>5, <1>6, <1>7, <1>8 DEF Open

LEMMA CloseType ==
  ASSUME TypeOK, NEW c \in Call, Close(c)
  PROVE  TypeOK'
  <1>1. CASE Certify(c)
    <2>1. win' \in [Call -> Window]
      BY <1>1, UpdateType DEF Certify, TypeOK, PCs
    <2> QED
      BY <1>1, <2>1 DEF Certify, TypeOK
  <1>2. CASE Abort(c)
    BY <1>2, GotoType DEF Abort, TypeOK, PCs
  <1>3. CASE LeaveOuter(c)
    BY <1>3, FinishType DEF LeaveOuter, TypeOK
  <1>4. CASE CloseOwn(c)
    <2>1. win' \in [Call -> Window]
      BY <1>4, FinishType DEF CloseOwn, Forget, TypeOK, Window, PCs
    <2>2. sql' \subseteq [op : {"acquire", "renew", "release"}, call : Call,
                          fence : Nat, now : Nat]
      BY <1>4 DEF CloseOwn, TypeOK, Statement, Window, Token
    <2> QED
      BY <1>4, <2>1, <2>2 DEF CloseOwn, Forget, TypeOK
  <1>5. CASE DeadlineRelease(c)
    <2>1. [Blank("done") EXCEPT !.now = win[c].now, !.token = win[c].token,
                                !.lapsed = win[c].lapsed] \in Window
      BY DEF TypeOK, Blank, Window, PCs
    <2> QED
      BY <1>5, <2>1 DEF DeadlineRelease, TypeOK
  <1> QED
    BY <1>1, <1>2, <1>3, <1>4, <1>5 DEF Close

LEMMA ExecType ==
  ASSUME TypeOK, NEW s \in sql, Exec(s)
  PROVE  TypeOK'
  <1>0. s \in [op : {"acquire", "renew", "release"}, call : Call, fence : Nat, now : Nat]
    BY DEF TypeOK
  <1>1. CASE ExecAcquire(s)
    <2>1. win' \in [Call -> Window]
      <3> DEFINE Answer(w, pc) == [w EXCEPT ![s.call].pc = IF @ = "acquiring" THEN pc ELSE @]
      <3>1. ASSUME NEW w \in [Call -> Window], NEW pc \in PCs
            PROVE  Answer(w, pc) \in [Call -> Window]
        BY <1>0, <3>1 DEF Window
      <3>2. Answer(Overtake(win), "taken") \in [Call -> Window]
        BY <3>1, OvertakeType DEF PCs
      <3>3. Answer(win, "refused") \in [Call -> Window]
        BY <3>1 DEF PCs, TypeOK
      <3> QED
        BY <1>1, <3>2, <3>3 DEF ExecAcquire
    <2>2. row' \in [owner : Owner, until : Nat \cup {Never}, fence : Nat]
      BY <1>0, <1>1 DEF ExecAcquire, Taken, TypeOK, Owner
    <2> QED
      BY <1>1, <2>1, <2>2 DEF ExecAcquire, TypeOK
  <1>2. CASE ExecRenew(s)
    <2>1. win' \in [Call -> Window]
      <3>1. win[s.call] \in Window /\ win \in [Call -> Window]
        BY <1>0 DEF TypeOK
      <3> DEFINE w == [win[s.call] EXCEPT !.lapsed = @ \/ win[s.call].token.fence = s.fence]
      <3>2. w \in Window
        BY <3>1, MarkType, Zenon
      <3>3. [win EXCEPT ![s.call] = w] \in [Call -> Window]
        <4> HIDE DEF w
        <4> QED BY <3>1, <3>2
      <3>4. [win EXCEPT ![s.call].lapsed = @ \/ win[s.call].token.fence = s.fence]
              \in [Call -> Window]
        BY <3>3, Zenon
      <3> QED
        BY <1>2, <3>1, <3>4 DEF ExecRenew
    <2>2. row' \in [owner : Owner, until : Nat \cup {Never}, fence : Nat]
      BY <1>0, <1>2 DEF ExecRenew, TypeOK
    <2> QED
      BY <1>2, <2>1, <2>2 DEF ExecRenew, TypeOK
  <1>3. CASE ExecRelease(s)
    <2>1. win' \in [Call -> Window]
      BY <1>0, <1>3, FinishType DEF ExecRelease, Forget, TypeOK
    <2>2. row' \in [owner : Owner, until : Nat \cup {Never}, fence : Nat]
      BY <1>3 DEF ExecRelease, Released, TypeOK, Owner
    <2> QED
      BY <1>0, <1>3, <2>1, <2>2 DEF ExecRelease, Forget, TypeOK
  <1>4. CASE Drop(s)
    BY <1>4 DEF Drop, TypeOK
  <1> QED
    BY <1>1, <1>2, <1>3, <1>4 DEF Exec

LEMMA StepType == TypeOK /\ [Next]_vars => TypeOK'
  <1> SUFFICES ASSUME TypeOK, [Next]_vars PROVE TypeOK'
    OBVIOUS
  <1>1. ASSUME NEW c \in Call, SendRenew(c) PROVE TypeOK'
    BY <1>1 DEF SendRenew, TypeOK, Statement, Window, Token
  <1>2. CASE AuthzFreeze
    <2>1. win' \in [Call -> Window]
      BY <1>2, OvertakeType DEF AuthzFreeze
    <2>2. row' \in [owner : Owner, until : Nat \cup {Never}, fence : Nat]
      BY <1>2 DEF AuthzFreeze, Taken, TypeOK, Owner
    <2> QED
      BY <1>2, <2>1, <2>2 DEF AuthzFreeze, TypeOK
  <1>3. ASSUME NEW asked \in 0..MaxFence, AuthzUnfreezeRead(asked) PROVE TypeOK'
    BY <1>3, RowTokenType DEF AuthzUnfreezeRead, TypeOK
  <1>4. CASE AuthzUnfreezeLift
    <2>1. win' \in [Call -> Window]
      BY <1>4, MarkType DEF AuthzUnfreezeLift, TypeOK
    <2>2. row' \in [owner : Owner, until : Nat \cup {Never}, fence : Nat]
      BY <1>4 DEF AuthzUnfreezeLift, Released, TypeOK, Owner
    <2> QED
      BY <1>4, <2>1, <2>2 DEF AuthzUnfreezeLift, TypeOK, NoToken, Token, Owner
  <1>5. ASSUME NEW m \in Writer, StartWrite(m) PROVE TypeOK'
    BY <1>5 DEF StartWrite, TypeOK
  <1>6. ASSUME NEW m \in Writer, PassBarrier(m) PROVE TypeOK'
    <2>1. win' \in [Call -> Window]
      BY <1>6, MarkType DEF PassBarrier, TypeOK
    <2> QED
      BY <1>6, <2>1 DEF PassBarrier, TypeOK
  <1>7. ASSUME NEW m \in Manager, Kill(m) PROVE TypeOK'
    BY <1>7, BlankType DEF Kill, TypeOK, PCs
  <1>8. CASE Tick
    BY <1>8 DEF Tick, TypeOK
  <1>9. CASE UNCHANGED vars
    BY <1>9 DEF vars, TypeOK
  <1> QED
    BY <1>1, <1>2, <1>3, <1>4, <1>5, <1>6, <1>7, <1>8, <1>9, OpenType, CloseType,
       ExecType DEF Next

\* The state of the freeze is always well formed, whatever lands late or dies.
THEOREM FreezeTyped == Spec => []TypeOK
  BY InitType, StepType, PTL DEF Spec

-----------------------------------------------------------------------------
(* Why a certificate can be believed.  The fence only grows, so a token that *)
(* was overtaken never matches the row again (Fenced); the freeze a manager   *)
(* holds is the token of a call of its own that took it (HeldOwn); a release  *)
(* is sent only by a call that has ended (ReleasesAreLate).                   *)

Over == {"releasing", "done", "dead"}

\* The token of a call that may still be held by its manager.
Holder(c) ==
    /\ win[c].pc \in {"running", "closing", "releasing", "done"}
    /\ win[c].ctx = "own"
    /\ win[c].token.owner = c

Fenced(c) ==
    /\ win[c].token.fence <= row.fence
    /\ win[c].verdict = "certified" => ~win[c].overtaken
    /\ win[c].pc = "running" =>
          /\ win[c].verdict = "none"
          /\ win[c].token.owner # NoOwner
          /\ win[c].overtaken => win[c].token.fence < row.fence
          /\ win[c].ctx = "own" =>
                /\ win[c].token.owner = c
                /\ Mine(win[c].token) \/ win[c].overtaken \/ win[c].lifted

HeldOwn ==
    \A m \in Manager : held[m] # NoOwner => Home[held[m]] = m /\ Holder(held[m])

ReleasesAreLate ==
    \A s \in sql : s.op = "release" => win[s.call].pc \in Over

FreezeInv ==
    /\ TypeOK
    /\ \A c \in Call : Fenced(c)
    /\ HeldOwn
    /\ ReleasesAreLate

LEMMA InitInv == Init => FreezeInv
  BY InitType DEF Init, FreezeInv, Fenced, HeldOwn, ReleasesAreLate, Blank, NoToken

\* A step of one call that leaves the row alone need only answer for that call.
LEMMA OneCall ==
  ASSUME FreezeInv, TypeOK', NEW c \in Call, UNCHANGED row,
         \A d \in Call \ {c} : win'[d] = win[d],
         Fenced(c)',
         win[c].pc \in Over => win'[c].pc \in Over,
         \A m \in Manager : \/ held'[m] = held[m] /\ held[m] # c
                            \/ held'[m] = NoOwner
                            \/ held'[m] = c /\ Home[c] = m /\ Holder(c)',
         \A s \in sql' : s \in sql \/ s.op # "release" \/ (s.call = c /\ win'[c].pc \in Over)
  PROVE  FreezeInv'
  <1>1. \A d \in Call : Fenced(d)'
    BY DEF FreezeInv, Fenced, Mine, TokenOf
  <1>2. HeldOwn'
    BY DEF FreezeInv, HeldOwn, Holder, TypeOK
  <1>3. ReleasesAreLate'
    BY DEF FreezeInv, ReleasesAreLate, TypeOK
  <1> QED
    BY <1>1, <1>2, <1>3 DEF FreezeInv

\* What the updates of a step make of the call they are about.
LEMMA EnterWin ==
  ASSUME TypeOK, NEW c \in Call, NEW shape, NEW t, Enter(c, shape, t)
  PROVE  /\ \A d \in Call \ {c} : win'[d] = win[d]
         /\ win'[c].pc = "running" /\ win'[c].ctx = shape /\ win'[c].token = t
         /\ win'[c].verdict = "none" /\ win'[c].overtaken = FALSE
         /\ win'[c].admitted = FALSE
  BY DEF Enter, TypeOK, Blank

LEMMA FinishWin ==
  ASSUME TypeOK, NEW c \in Call, Finish(c)
  PROVE  /\ \A d \in Call \ {c} : win'[d] = win[d]
         /\ win'[c].pc = "done" /\ win'[c].token.fence = 0
         /\ win'[c].verdict = "none" /\ win'[c].admitted = FALSE
  BY DEF Finish, TypeOK, Blank, NoToken

\* A call over which only pc, now and retried changed, and that does not run.
LEMMA MoveFenced ==
  ASSUME FreezeInv, NEW c \in Call, UNCHANGED row, win'[c].pc # "running",
         win'[c].token = win[c].token, win'[c].verdict = win[c].verdict,
         win'[c].overtaken = win[c].overtaken
  PROVE  Fenced(c)'
  BY DEF FreezeInv, Fenced

\* A call that is over knows nothing of any window.
LEMMA FinishKeeps ==
  ASSUME FreezeInv, TypeOK', NEW c \in Call, Finish(c), UNCHANGED <<row, sql>>,
         \A m \in Manager : \/ held'[m] = held[m] /\ held[m] # c
                            \/ held'[m] = NoOwner
  PROVE  FreezeInv'
  <1>0. TypeOK
    BY DEF FreezeInv
  <1>1. win'[c].pc = "done" /\ win'[c].token.fence = 0 /\ win'[c].verdict = "none"
    BY <1>0, FinishWin
  <1>2. Fenced(c)'
    BY <1>0, <1>1 DEF Fenced, TypeOK
  <1> QED
    BY <1>0, <1>1, <1>2, FinishWin, OneCall DEF Over

LEMMA EnterKeeps ==
  ASSUME FreezeInv, TypeOK', NEW c \in Call, NEW shape \in {"own", "enclosing", "operator"},
         NEW t \in Token, Enter(c, shape, t), UNCHANGED <<row, sql>>,
         win[c].pc \notin Over,
         t.owner # NoOwner, t.fence <= row.fence, 
         shape = "own" => t.owner = c /\ Mine(t),
         \A m \in Manager : \/ held'[m] = held[m] /\ held[m] # c
                            \/ held'[m] = c /\ Home[c] = m /\ shape = "own"
  PROVE  FreezeInv'
  <1>0. TypeOK
    BY DEF FreezeInv
  <1>1. /\ win'[c].pc = "running" /\ win'[c].ctx = shape /\ win'[c].token = t
        /\ win'[c].verdict = "none" /\ win'[c].overtaken = FALSE
    BY <1>0, EnterWin
  <1>2. Fenced(c)'
    BY <1>1 DEF Fenced, Mine, TokenOf
  <1>3. shape = "own" => Holder(c)'
    BY <1>1 DEF Holder
  <1> QED
    BY <1>0, <1>2, <1>3, EnterWin, OneCall

\* A call that has taken no window is not the one its manager holds.
LEMMA NotHeld ==
  ASSUME FreezeInv, NEW c \in Call,
         win[c].pc \notin {"running", "closing", "releasing", "done"} \/ win[c].ctx # "own"
  PROVE  \A m \in Manager : held[m] # c
  BY DEF FreezeInv, HeldOwn, Holder, TypeOK

LEMMA SendAcquireKeeps ==
  ASSUME FreezeInv, TypeOK', NEW c \in Call, SendAcquire(c), win[c].pc \in {"idle", "probing"}
  PROVE  FreezeInv'
  <1>1. /\ \A d \in Call \ {c} : win'[d] = win[d]
        /\ win'[c].pc = "acquiring" /\ win'[c].token = win[c].token
        /\ win'[c].verdict = win[c].verdict /\ win'[c].overtaken = win[c].overtaken
    BY DEF FreezeInv, SendAcquire, TypeOK, Window
  <1>2. Fenced(c)'
    BY <1>1, MoveFenced DEF SendAcquire
  <1>3. \A m \in Manager : held'[m] = held[m] /\ held[m] # c
    BY NotHeld DEF SendAcquire
  <1>4. \A s \in sql' : s \in sql \/ s.op # "release"
    BY DEF SendAcquire, Statement
  <1> QED
    BY <1>1, <1>2, <1>3, <1>4, OneCall DEF SendAcquire, Over

LEMMA OpenKeeps ==
  ASSUME FreezeInv, NEW c \in Call, Open(c)
  PROVE  FreezeInv'
  <1>0. TypeOK /\ TypeOK'
    BY OpenType DEF FreezeInv
  <1>1. CASE RunInside(c)
    <2> DEFINE h == held[Home[c]]
    <2>1. h \in Call /\ Holder(h)
      BY <1>0, <1>1 DEF RunInside, FreezeInv, HeldOwn, TypeOK
    <2>2. win[h].token \in Token /\ win[h].token.owner # NoOwner
          /\ win[h].token.fence <= row.fence
      BY <1>0, <2>1 DEF FreezeInv, TypeOK, Window, Holder, Fenced
    <2> QED
      BY <1>0, <1>1, <2>2, NotHeld, EnterKeeps DEF RunInside, At, Over
  <1>2. CASE OpenOwn(c)
    BY <1>0, <1>2, SendAcquireKeeps DEF OpenOwn, At
  <1>3. CASE OpenAsContext(c)
    <2>1. /\ \A d \in Call \ {c} : win'[d] = win[d]
          /\ win'[c] = [win[c] EXCEPT !.pc = "probing"]
      BY <1>0, <1>3 DEF OpenAsContext, Goto, TypeOK
    <2>2. win'[c].pc = "probing" /\ Fenced(c)'
      BY <1>0, <1>3, <2>1, MoveFenced DEF OpenAsContext, TypeOK, Window
    <2> QED
      BY <1>0, <1>3, <2>1, <2>2, NotHeld, OneCall DEF OpenAsContext, At, Over
  <1>4. CASE AdoptOperator(c)
    BY <1>0, <1>4, EnterKeeps, NotHeld, RowTokenType
    DEF AdoptOperator, LiveOperator, At, Over, TokenOf, TypeOK
  <1>5. CASE FallBack(c)
    BY <1>0, <1>5, SendAcquireKeeps, FinishKeeps, NotHeld DEF FallBack, At
  <1>6. CASE ConfirmAcquire(c)
    <2>1. CASE Finish(c) /\ UNCHANGED held
      BY <1>0, <1>6, <2>1, FinishKeeps, NotHeld DEF ConfirmAcquire, At
    <2>2. CASE row.owner = c /\ Enter(c, "own", TokenOf(row))
               /\ held' = [held EXCEPT ![Home[c]] = c]
      BY <1>0, <1>6, <2>2, EnterKeeps, NotHeld, RowTokenType
      DEF ConfirmAcquire, At, Over, TokenOf, Mine, TypeOK
    <2> QED
      BY <1>6, <2>1, <2>2 DEF ConfirmAcquire
  <1>7. CASE ExplainRefusal(c)
    <2>1. CASE Finish(c) /\ UNCHANGED sql
      BY <1>0, <1>7, <2>1, FinishKeeps, NotHeld DEF ExplainRefusal, At
    <2>2. CASE /\ win' = [win EXCEPT ![c].pc = "acquiring", ![c].retried = TRUE]
               /\ sql' = sql \cup {Statement("acquire", c, 0, win[c].now)}
      <3>1. /\ \A d \in Call \ {c} : win'[d] = win[d]
            /\ win'[c].pc = "acquiring" /\ win'[c].token = win[c].token
            /\ win'[c].verdict = win[c].verdict /\ win'[c].overtaken = win[c].overtaken
        BY <1>0, <2>2 DEF TypeOK, Window
      <3>2. Fenced(c)'
        BY <1>7, <3>1, MoveFenced DEF ExplainRefusal
      <3>3. \A s \in sql' : s \in sql \/ s.op # "release"
        BY <2>2 DEF Statement
      <3> QED
        BY <1>0, <1>7, <3>1, <3>2, <3>3, NotHeld, OneCall DEF ExplainRefusal, At, Over
    <2> QED
      BY <1>7, <2>1, <2>2 DEF ExplainRefusal
  <1>8. CASE DeadlineAcquire(c)
    BY <1>0, <1>8, FinishKeeps, NotHeld DEF DeadlineAcquire, At
  <1> QED
    BY <1>1, <1>2, <1>3, <1>4, <1>5, <1>6, <1>7, <1>8 DEF Open

LEMMA CloseKeeps ==
  ASSUME FreezeInv, NEW c \in Call, Close(c)
  PROVE  FreezeInv'
  <1>0. TypeOK /\ TypeOK'
    BY CloseType DEF FreezeInv
  <1>h. \A m \in Manager : held[m] = c => Home[c] = m /\ Holder(c)
    BY DEF FreezeInv, HeldOwn
  <1>1. CASE Certify(c)
    <2>1. /\ \A d \in Call \ {c} : win'[d] = win[d]
          /\ win'[c] = [win[c] EXCEPT !.pc = "closing",
                          !.verdict = IF TokenLapsed(win[c].token) THEN "lapsed" ELSE "certified"]
      BY <1>0, <1>1 DEF Certify, TypeOK
    <2>2. /\ win'[c].pc = "closing" /\ win'[c].token = win[c].token /\ win'[c].ctx = win[c].ctx
          /\ win'[c].overtaken = win[c].overtaken
          /\ win'[c].verdict = "certified" => Mine(win[c].token)
      BY <1>0, <2>1 DEF TypeOK, Window, TokenLapsed
    <2>3. Mine(win[c].token) => ~win[c].overtaken
      BY <1>0, <1>1 DEF Certify, At, FreezeInv, Fenced, Mine, TokenOf, TypeOK
    <2>4. Fenced(c)'
      BY <1>1, <2>2, <2>3 DEF Certify, FreezeInv, Fenced
    <2>5. \A m \in Manager : held'[m] = held[m] /\ (held[m] = c => Holder(c)')
      BY <1>1, <1>h, <2>2 DEF Certify, Holder
    <2> QED
      BY <1>0, <1>1, <1>h, <2>1, <2>4, <2>5, OneCall DEF Certify, At, Over
  <1>2. CASE Abort(c)
    <2>1. /\ \A d \in Call \ {c} : win'[d] = win[d]
          /\ win'[c].pc = "closing" /\ win'[c].token = win[c].token /\ win'[c].ctx = win[c].ctx
          /\ win'[c].verdict = win[c].verdict /\ win'[c].overtaken = win[c].overtaken
      BY <1>0, <1>2 DEF Abort, Goto, TypeOK, Window
    <2>2. Fenced(c)'
      BY <1>2, <2>1, MoveFenced DEF Abort
    <2>3. \A m \in Manager : held'[m] = held[m] /\ (held[m] = c => Holder(c)')
      BY <1>2, <1>h, <2>1 DEF Abort, Holder
    <2> QED
      BY <1>0, <1>2, <1>h, <2>1, <2>2, <2>3, OneCall DEF Abort, At, Over
  <1>3. CASE LeaveOuter(c)
    BY <1>0, <1>3, FinishKeeps, NotHeld DEF LeaveOuter
  <1>4. CASE CloseOwn(c)
    <2>1. CASE Forget(c) /\ UNCHANGED sql
      <3>1. \A m \in Manager : \/ held'[m] = held[m] /\ held[m] # c
                               \/ held'[m] = NoOwner
        BY <1>0, <1>h, <2>1 DEF Forget, TypeOK
      <3> QED
        BY <1>0, <1>4, <2>1, <3>1, FinishKeeps DEF CloseOwn, Forget
    <2>2. CASE /\ win' = [win EXCEPT ![c].pc = "releasing", ![c].now = clock]
               /\ sql' = sql \cup {Statement("release", c, win[c].token.fence, clock)}
               /\ UNCHANGED held
      <3>1. /\ \A d \in Call \ {c} : win'[d] = win[d]
            /\ win'[c].pc = "releasing" /\ win'[c].token = win[c].token
            /\ win'[c].ctx = win[c].ctx
            /\ win'[c].verdict = win[c].verdict /\ win'[c].overtaken = win[c].overtaken
        BY <1>0, <2>2 DEF TypeOK, Window
      <3>2. Fenced(c)'
        BY <1>4, <3>1, MoveFenced DEF CloseOwn
      <3>3. \A m \in Manager : held'[m] = held[m] /\ (held[m] = c => Holder(c)')
        BY <1>h, <2>2, <3>1 DEF Holder
      <3>4. \A s \in sql' : s \in sql \/ s.call = c
        BY <2>2 DEF Statement
      <3> QED
        BY <1>0, <1>4, <1>h, <3>1, <3>2, <3>3, <3>4, OneCall DEF CloseOwn, Over
    <2> QED
      BY <1>4, <2>1, <2>2 DEF CloseOwn
  <1>5. CASE DeadlineRelease(c)
    <2>1. /\ \A d \in Call \ {c} : win'[d] = win[d]
          /\ win'[c].pc = "done" /\ win'[c].token = win[c].token /\ win'[c].ctx = "own"
          /\ win'[c].verdict = "none"
      BY <1>0, <1>5 DEF DeadlineRelease, TypeOK, Blank, Window
    <2>2. Fenced(c)'
      BY <1>5, <2>1 DEF DeadlineRelease, FreezeInv, Fenced
    <2>3. \A m \in Manager : held'[m] = held[m] /\ (held[m] = c => Holder(c)')
      BY <1>5, <1>h, <2>1 DEF DeadlineRelease, Holder
    <2> QED
      BY <1>0, <1>5, <1>h, <2>1, <2>2, <2>3, OneCall DEF DeadlineRelease, At, Over
  <1> QED
    BY <1>1, <1>2, <1>3, <1>4, <1>5 DEF Close

\* A new owner of the row: every running pass is overtaken and fenced off.
LEMMA TakeKeeps ==
  ASSUME FreezeInv, TypeOK', row'.fence = row.fence + 1, UNCHANGED held, sql' \subseteq sql,
         \A d \in Call :
            /\ win'[d].token = win[d].token /\ win'[d].ctx = win[d].ctx
            /\ win'[d].verdict = win[d].verdict
            /\ win'[d].pc = win[d].pc \/ (win[d].pc = "acquiring" /\ win'[d].pc = "taken")
            /\ win[d].pc # "running" => win'[d].overtaken = win[d].overtaken
            /\ win[d].pc = "running" => win'[d].overtaken = TRUE
  PROVE  FreezeInv'
  <1>0. TypeOK
    BY DEF FreezeInv
  <1>1. ASSUME NEW d \in Call PROVE Fenced(d)'
    <2>1. row.fence \in Nat /\ win[d].token.fence \in Nat
      BY <1>0 DEF TypeOK, Window, Token
    <2> QED
      BY <1>1, <2>1 DEF FreezeInv, Fenced
  <1>2. HeldOwn'
    BY <1>0 DEF FreezeInv, HeldOwn, Holder, TypeOK
  <1>3. ReleasesAreLate'
    BY <1>0 DEF FreezeInv, ReleasesAreLate, TypeOK, Over
  <1> QED
    BY <1>1, <1>2, <1>3 DEF FreezeInv

LEMMA OvertakeWin ==
  ASSUME TypeOK, NEW d \in Call
  PROVE  /\ Overtake(win)[d].pc = win[d].pc /\ Overtake(win)[d].token = win[d].token
         /\ Overtake(win)[d].ctx = win[d].ctx /\ Overtake(win)[d].verdict = win[d].verdict
         /\ win[d].pc # "running" => Overtake(win)[d].overtaken = win[d].overtaken
         /\ win[d].pc = "running" => Overtake(win)[d].overtaken = TRUE
  <1>1. win[d] \in Window /\ win[d].overtaken \in BOOLEAN
    BY DEF TypeOK, Window
  <1>2. Overtake(win)[d] = [win[d] EXCEPT !.overtaken = @ \/ win[d].pc = "running"]
    BY DEF Overtake
  <1>3. Overtake(win)[d].overtaken = (win[d].overtaken \/ win[d].pc = "running")
    BY <1>1, <1>2 DEF Window
  <1> QED
    BY <1>1, <1>2, <1>3 DEF Window

\* A call but for its now, retried, lapsed, admitted and lifted fields.
SameWindow(d) ==
    /\ win'[d].token = win[d].token /\ win'[d].ctx = win[d].ctx
    /\ win'[d].verdict = win[d].verdict /\ win'[d].overtaken = win[d].overtaken

\* A step that marks windows, answers acquires and leaves the token of the row.
LEMMA QuietKeeps ==
  ASSUME FreezeInv, TypeOK', UNCHANGED held, row'.fence = row.fence, row'.owner = row.owner,
         \A s \in sql' : s \in sql \/ s.op # "release",
         \A d \in Call :
            /\ SameWindow(d)
            /\ win'[d].pc = win[d].pc \/ (win[d].pc = "acquiring" /\ win'[d].pc = "refused")
            /\ win[d].lifted => win'[d].lifted
  PROVE  FreezeInv'
  <1>0. TypeOK
    BY DEF FreezeInv
  <1>1. ASSUME NEW d \in Call PROVE Fenced(d)'
    BY <1>1 DEF FreezeInv, Fenced, SameWindow, Mine, TokenOf
  <1>2. HeldOwn'
    BY <1>0 DEF FreezeInv, HeldOwn, Holder, TypeOK, SameWindow
  <1>3. ReleasesAreLate'
    BY <1>0 DEF FreezeInv, ReleasesAreLate, TypeOK, Over
  <1> QED
    BY <1>1, <1>2, <1>3 DEF FreezeInv

LEMMA ExecKeeps ==
  ASSUME FreezeInv, NEW s \in sql, Exec(s)
  PROVE  FreezeInv'
  <1>0. TypeOK /\ TypeOK' /\ s.call \in Call
    BY ExecType DEF FreezeInv, TypeOK
  <1>1. CASE ExecAcquire(s)
    <2> DEFINE Answer(w, pc) == [w EXCEPT ![s.call].pc = IF @ = "acquiring" THEN pc ELSE @]
    <2>a. ASSUME NEW w \in [Call -> Window], NEW pc, NEW d \in Call
          PROVE  /\ Answer(w, pc)[d].pc = w[d].pc
                    \/ (w[d].pc = "acquiring" /\ Answer(w, pc)[d].pc = pc)
                 /\ Answer(w, pc)[d].token = w[d].token /\ Answer(w, pc)[d].ctx = w[d].ctx
                 /\ Answer(w, pc)[d].verdict = w[d].verdict
                 /\ Answer(w, pc)[d].overtaken = w[d].overtaken
                 /\ Answer(w, pc)[d].lifted = w[d].lifted
      BY <1>0, <2>a DEF Window
    <2> HIDE DEF Answer
    <2>1. CASE row' = Taken(row, s.call, s.now + Lease) /\ win' = Answer(Overtake(win), "taken")
      <3>1. row'.fence = row.fence + 1
        BY <2>1 DEF Taken
      <3>2. Overtake(win) \in [Call -> Window]
        BY <1>0, OvertakeType
      <3>3. \A d \in Call :
              /\ win'[d].token = win[d].token /\ win'[d].ctx = win[d].ctx
              /\ win'[d].verdict = win[d].verdict
              /\ win'[d].pc = win[d].pc \/ (win[d].pc = "acquiring" /\ win'[d].pc = "taken")
              /\ win[d].pc # "running" => win'[d].overtaken = win[d].overtaken
              /\ win[d].pc = "running" => win'[d].overtaken = TRUE
        <4> DEFINE o == Overtake(win)
        <4>1. ASSUME NEW d \in Call
              PROVE  /\ win'[d].pc = o[d].pc \/ (o[d].pc = "acquiring" /\ win'[d].pc = "taken")
                     /\ win'[d].token = o[d].token /\ win'[d].ctx = o[d].ctx
                     /\ win'[d].verdict = o[d].verdict /\ win'[d].overtaken = o[d].overtaken
          BY <2>a, <2>1, <3>2
        <4> HIDE DEF o
        <4>2. ASSUME NEW d \in Call
              PROVE  /\ o[d].pc = win[d].pc /\ o[d].token = win[d].token
                     /\ o[d].ctx = win[d].ctx /\ o[d].verdict = win[d].verdict
                     /\ win[d].pc # "running" => o[d].overtaken = win[d].overtaken
                     /\ win[d].pc = "running" => o[d].overtaken = TRUE
          BY <1>0, OvertakeWin DEF o
        <4> QED
          BY <4>1, <4>2
      <3>4. UNCHANGED held /\ sql' \subseteq sql
        BY <1>1 DEF ExecAcquire
      <3> QED
        BY <1>0, <3>1, <3>3, <3>4, TakeKeeps
    <2>2. CASE win' = Answer(win, "refused") /\ UNCHANGED row
      <3>0. win \in [Call -> Window]
        BY <1>0 DEF TypeOK
      <3>1. \A d \in Call :
              /\ SameWindow(d)
              /\ win'[d].pc = win[d].pc \/ (win[d].pc = "acquiring" /\ win'[d].pc = "refused")
              /\ win'[d].lifted = win[d].lifted
        <4> SUFFICES ASSUME NEW d \in Call
                     PROVE  /\ SameWindow(d)
                            /\ win'[d].pc = win[d].pc
                                 \/ (win[d].pc = "acquiring" /\ win'[d].pc = "refused")
                            /\ win'[d].lifted = win[d].lifted
          OBVIOUS
        <4>1. win'[d] = Answer(win, "refused")[d]
          BY <2>2
        <4> QED
          BY <2>a, <3>0, <4>1 DEF SameWindow
      <3>2. UNCHANGED held /\ sql' \subseteq sql
        BY <1>1 DEF ExecAcquire
      <3> QED
        BY <1>0, <2>2, <3>1, <3>2, QuietKeeps
    <2> QED
      BY <1>1, <2>1, <2>2 DEF ExecAcquire, Answer
  <1>2. CASE ExecRenew(s)
    <2>1. \A d \in Call : SameWindow(d) /\ win'[d].pc = win[d].pc /\ win'[d].lifted = win[d].lifted
      BY <1>0, <1>2 DEF ExecRenew, SameWindow, TypeOK, Window
    <2>2. row'.fence = row.fence /\ row'.owner = row.owner
      BY <1>0, <1>2 DEF ExecRenew, TypeOK
    <2>3. UNCHANGED held /\ sql' \subseteq sql
      BY <1>2 DEF ExecRenew
    <2> QED
      BY <1>0, <2>1, <2>2, <2>3, QuietKeeps
  <1>3. CASE ExecRelease(s)
    <2> DEFINE c == s.call
    <2>1. win[c].pc \in Over
      BY <1>3 DEF ExecRelease, FreezeInv, ReleasesAreLate
    <2>2. \A d \in Call : win'[d] = win[d] \/ (d = c /\ win'[d] = Blank("done"))
      BY <1>0, <1>3 DEF ExecRelease, Forget, Finish, TypeOK
    <2>3. row'.fence = row.fence
          /\ (row'.owner = row.owner \/ (row.owner = c /\ row'.owner = NoOwner))
      BY <1>0, <1>3 DEF ExecRelease, Released, TypeOK
    <2>4. ASSUME NEW d \in Call PROVE Fenced(d)'
      <3>1. CASE win'[d] = Blank("done")
        BY <1>0, <3>1 DEF Fenced, Blank, NoToken, TypeOK
      <3>2. CASE win'[d] = win[d] /\ d # c
        BY <2>3, <2>4, <3>2 DEF FreezeInv, Fenced, Mine, TokenOf
      <3>3. CASE win'[d] = win[d] /\ d = c
        BY <2>1, <2>3, <2>4, <3>3 DEF FreezeInv, Fenced, Over
      <3> QED
        BY <2>2, <3>1, <3>2, <3>3
    <2>5. HeldOwn'
      <3>1. ASSUME NEW m \in Manager, held'[m] # NoOwner
            PROVE  held'[m] = held[m] /\ win'[held[m]] = win[held[m]]
        BY <1>0, <1>3, <3>1 DEF ExecRelease, Forget, Finish, FreezeInv, HeldOwn, TypeOK
      <3> QED
        BY <3>1 DEF FreezeInv, HeldOwn, Holder
    <2>6. ReleasesAreLate'
      BY <1>0, <1>3, <2>2 DEF ExecRelease, FreezeInv, ReleasesAreLate, TypeOK, Over, Blank
    <2> QED
      BY <1>0, <2>4, <2>5, <2>6 DEF FreezeInv
  <1>4. CASE Drop(s)
    BY <1>0, <1>4, QuietKeeps DEF Drop, SameWindow
  <1> QED
    BY <1>1, <1>2, <1>3, <1>4 DEF Exec

LEMMA InvStep == FreezeInv /\ [Next]_vars => FreezeInv'
  <1> SUFFICES ASSUME FreezeInv, [Next]_vars PROVE FreezeInv'
    OBVIOUS
  <1>0. TypeOK /\ TypeOK'
    BY StepType DEF FreezeInv
  <1>1. ASSUME NEW c \in Call, SendRenew(c) PROVE FreezeInv'
    BY <1>0, <1>1, QuietKeeps DEF SendRenew, SameWindow, Statement
  <1>2. CASE AuthzFreeze
    <2>1. row'.fence = row.fence + 1
      BY <1>2 DEF AuthzFreeze, Taken
    <2> QED
      BY <1>0, <1>2, <2>1, OvertakeWin, TakeKeeps DEF AuthzFreeze
  <1>3. ASSUME NEW asked \in 0..MaxFence, AuthzUnfreezeRead(asked) PROVE FreezeInv'
    BY <1>0, <1>3, QuietKeeps DEF AuthzUnfreezeRead, SameWindow
  <1>4. CASE AuthzUnfreezeLift
    <2>1. ASSUME NEW d \in Call
          PROVE  /\ SameWindow(d) /\ win'[d].pc = win[d].pc
                 /\ win'[d].lifted = (win[d].lifted
                        \/ (At(d, "running") /\ Mine(lifting) /\ win[d].token = lifting))
      <3>1. win[d] \in Window
        BY <1>0 DEF TypeOK
      <3>2. win'[d] = [win[d] EXCEPT !.lifted =
                         @ \/ (At(d, "running") /\ Mine(lifting) /\ win[d].token = lifting)]
        BY <1>4 DEF AuthzUnfreezeLift
      <3> QED
        BY <3>1, <3>2 DEF SameWindow, Window
    <2>2. CASE Mine(lifting)
      <3>1. row'.fence = row.fence /\ row'.owner = NoOwner
        BY <1>0, <1>4, <2>2 DEF AuthzUnfreezeLift, Released, TypeOK
      <3>2. ASSUME NEW d \in Call PROVE Fenced(d)'
        <4>0. /\ win[d].lifted => win'[d].lifted
              /\ win[d].pc = "running" /\ win[d].token = lifting => win'[d].lifted
          BY <2>1, <2>2, Zenon DEF At
        <4>1. CASE win[d].token = lifting /\ win[d].pc = "running"
          BY <2>1, <3>1, <4>0, <4>1 DEF FreezeInv, Fenced, SameWindow
        <4>2. CASE win[d].token # lifting /\ win[d].pc = "running"
          BY <2>1, <2>2, <3>1, <4>0, <4>2 DEF FreezeInv, Fenced, SameWindow, Mine
        <4>3. CASE win[d].pc # "running"
          BY <2>1, <3>1, <3>2, <4>3 DEF FreezeInv, Fenced, SameWindow
        <4> QED
          BY <4>1, <4>2, <4>3
      <3>3. HeldOwn'
        BY <1>0, <1>4, <2>1 DEF AuthzUnfreezeLift, FreezeInv, HeldOwn, Holder, TypeOK, SameWindow
      <3>4. ReleasesAreLate'
        BY <1>0, <1>4, <2>1 DEF AuthzUnfreezeLift, FreezeInv, ReleasesAreLate, TypeOK
      <3> QED
        BY <1>0, <3>2, <3>3, <3>4 DEF FreezeInv
    <2>3. CASE ~Mine(lifting)
      <3>1. UNCHANGED <<row, held, sql>>
        BY <1>4, <2>3 DEF AuthzUnfreezeLift
      <3>2. \A d \in Call : /\ SameWindow(d) /\ win'[d].pc = win[d].pc
                            /\ win[d].lifted => win'[d].lifted
        BY <2>1
      <3> QED
        BY <1>0, <3>1, <3>2, QuietKeeps
    <2> QED
      BY <2>2, <2>3
  <1>5. ASSUME NEW m \in Writer, StartWrite(m) PROVE FreezeInv'
    BY <1>0, <1>5, QuietKeeps DEF StartWrite, SameWindow
  <1>6. ASSUME NEW m \in Writer, PassBarrier(m) PROVE FreezeInv'
    <2>1. \A d \in Call : SameWindow(d) /\ win'[d].pc = win[d].pc /\ win'[d].lifted = win[d].lifted
      BY <1>0, <1>6 DEF PassBarrier, SameWindow, TypeOK, Window
    <2> QED
      BY <1>0, <1>6, <2>1, QuietKeeps DEF PassBarrier
  <1>7. ASSUME NEW m \in Manager, Kill(m) PROVE FreezeInv'
    <2>1. ASSUME NEW d \in Call
          PROVE  win'[d] = win[d] \/ (Home[d] = m /\ win'[d] = Blank("dead"))
      BY <1>7, <2>1 DEF Kill
    <2>2. UNCHANGED <<row, sql>>
      BY <1>7 DEF Kill
    <2>3. ASSUME NEW d \in Call PROVE Fenced(d)'
      <3>1. CASE win'[d] = win[d]
        BY <2>2, <2>3, <3>1 DEF FreezeInv, Fenced, Mine, TokenOf
      <3>2. CASE win'[d] = Blank("dead")
        BY <1>0, <3>2 DEF Fenced, Blank, NoToken, TypeOK
      <3> QED
        BY <2>1, <3>1, <3>2
    <2>4. HeldOwn'
      <3>1. ASSUME NEW n \in Manager, held'[n] # NoOwner
            PROVE  held'[n] = held[n] /\ n # m /\ Home[held[n]] = n /\ Holder(held[n])
        BY <1>0, <1>7, <3>1 DEF Kill, FreezeInv, HeldOwn, TypeOK
      <3>2. ASSUME NEW n \in Manager, held'[n] # NoOwner
            PROVE  held[n] \in Call /\ win'[held[n]] = win[held[n]]
        BY <1>0, <1>7, <2>1, <3>1, <3>2 DEF TypeOK
      <3> QED
        BY <3>1, <3>2 DEF HeldOwn, Holder
    <2>5. ReleasesAreLate'
      BY <1>0, <2>1, <2>2 DEF FreezeInv, ReleasesAreLate, TypeOK, Over, Blank
    <2> QED
      BY <1>0, <2>3, <2>4, <2>5 DEF FreezeInv
  <1>8. CASE Tick
    BY <1>0, <1>8, QuietKeeps DEF Tick, SameWindow
  <1>9. CASE UNCHANGED vars
    BY <1>0, <1>9, QuietKeeps DEF vars, SameWindow
  <1> QED
    BY <1>1, <1>2, <1>3, <1>4, <1>5, <1>6, <1>7, <1>8, <1>9, OpenKeeps, CloseKeeps,
       ExecKeeps DEF Next

LEMMA FreezeHolds == Spec => []FreezeInv
  BY InitInv, InvStep, PTL DEF Spec

\* No two passes interleave and both certify, however late a renewal lands,
\* whoever dies and whatever the operator does.
THEOREM CertificatesExclude == Spec => []CertifiedMeansAlone
  <1>1. FreezeInv => CertifiedMeansAlone
    BY DEF FreezeInv, Fenced, CertifiedMeansAlone
  <1> QED
    BY <1>1, FreezeHolds, PTL

\* Only an expiry followed by a takeover, or the operator, lowers the barrier of
\* a window that runs.
THEOREM BarrierHolds == Spec => []BarrierStands
  <1>1. FreezeInv => BarrierStands
    BY DEF FreezeInv, Fenced, BarrierStands, At
  <1> QED
    BY <1>1, FreezeHolds, PTL

\* No pass takes over, renews or lifts a window of the operator.
THEOREM OperatorKeepsWindow == Spec => OperatorWindowIsEvidence
  <1>1. TypeOK /\ [Next]_vars =>
          (row.owner = Operator => \/ row' = row
                                   \/ row' = Released(row) /\ lifting = TokenOf(row))
    <2> SUFFICES ASSUME TypeOK, [Next]_vars, row.owner = Operator
                 PROVE  row' = row \/ (row' = Released(row) /\ lifting = TokenOf(row))
      OBVIOUS
    <2>1. ASSUME NEW s \in sql, Exec(s) PROVE row' = row
      <3>1. s.call \in Call
        BY DEF TypeOK
      <3> QED
        BY <2>1, <3>1 DEF Exec, ExecAcquire, ExecRenew, ExecRelease, Drop, Acquirable, Renewable
    <2>2. ASSUME NEW c \in Call, Open(c) \/ SendRenew(c) \/ Close(c) PROVE row' = row
      BY <2>2 DEF Open, RunInside, OpenOwn, OpenAsContext, AdoptOperator, FallBack, SendAcquire,
         ConfirmAcquire, ExplainRefusal, DeadlineAcquire, SendRenew, Close, Certify, Abort,
         LeaveOuter, CloseOwn, DeadlineRelease
    <2>3. CASE AuthzUnfreezeLift
      BY <2>3 DEF AuthzUnfreezeLift, Mine
    <2>4. CASE AuthzFreeze
      BY <2>4 DEF AuthzFreeze, Acquirable
    <2> QED
      BY <2>1, <2>2, <2>3, <2>4 DEF Next, AuthzUnfreezeRead, StartWrite, PassBarrier, Kill, Tick, vars
  <1> QED
    BY <1>1, FreezeTyped, PTL DEF Spec, OperatorWindowIsEvidence

-----------------------------------------------------------------------------
(* What the freeze promises, however late its renewals land.  An expired lease *)
(* comes back only by a renewal sent before it ran out: with none on its way,  *)
(* a window a write slipped through is lost for good, and cannot certify.      *)

Lost(t) == ~Mine(t) \/ (row.until # Never /\ row.until <= clock /\ ~RenewalInFlight)

Clean(c) ==
    /\ win[c].pc = "running" /\ win[c].admitted => Lost(win[c].token)
    /\ win[c].verdict = "certified" => ~win[c].admitted

SlipInv ==
    /\ FreezeInv
    /\ \A m \in Manager : write[m] <= clock
    /\ \A c \in Call : Clean(c)

LEMMA InitSlip == Init => SlipInv
  BY InitInv DEF Init, SlipInv, Clean, Blank

\* Once lost, always lost: a lapsed certificate is the only one it can get.
LEMMA LostStays ==
  ASSUME SlipInv, [Next]_vars, NEW d \in Call, win[d].pc = "running", Lost(win[d].token)
  PROVE  Lost(win[d].token)' \/ win'[d].token # win[d].token
  <1>0. TypeOK /\ Fenced(d) /\ win[d].token.owner # NoOwner /\ win[d].token.fence <= row.fence
    BY DEF SlipInv, FreezeInv, Fenced
  <1>n. row.fence \in Nat /\ win[d].token \in Token /\ clock \in Nat
    BY <1>0 DEF TypeOK, Window
  <1>1. CASE /\ UNCHANGED row /\ clock' >= clock /\ clock' \in Nat
             /\ \A s \in sql' : s \in sql \/ s.op # "renew" \/ s.now = clock
    <2>1. CASE ~Mine(win[d].token)
      BY <1>1, <2>1 DEF Lost, Mine, TokenOf
    <2>2. CASE row.until # Never /\ row.until <= clock /\ ~RenewalInFlight
      <3>1. row.until \in Nat \cup {Never}
        BY <1>0 DEF TypeOK
      <3>2. ~RenewalInFlight'
        BY <1>1, <1>n, <2>2, <3>1 DEF RenewalInFlight, Renewable
      <3> QED
        BY <1>1, <1>n, <2>2, <3>1, <3>2 DEF Lost, Mine, TokenOf
    <2> QED
      BY <2>1, <2>2 DEF Lost
  <1>2. CASE row'.owner = NoOwner
    BY <1>0, <1>2, <1>n DEF Lost, Mine, TokenOf, Token
  <1>3. CASE row'.fence = row.fence + 1
    BY <1>0, <1>3, <1>n DEF Lost, Mine, TokenOf, Token
  <1>4. ASSUME NEW s \in sql, Exec(s) PROVE Lost(win[d].token)' \/ win'[d].token # win[d].token
    <2>1. UNCHANGED clock /\ sql' \subseteq sql
      BY <1>4 DEF Exec, ExecAcquire, ExecRenew, ExecRelease, Drop
    <2>2. CASE ExecRenew(s) /\ Renewable(row, s)
      <3>1. ~Mine(win[d].token)
        BY <2>2 DEF Lost, RenewalInFlight, ExecRenew
      <3>2. TokenOf(row') = TokenOf(row)
        BY <1>0, <2>2 DEF ExecRenew, TokenOf, TypeOK
      <3> QED
        BY <3>1, <3>2 DEF Lost, Mine, TokenOf
    <2>3. CASE UNCHANGED row
      BY <1>1, <1>n, <2>1, <2>3
    <2>4. CASE ExecAcquire(s)
      BY <1>3, <2>3, <2>4 DEF ExecAcquire, Taken
    <2>5. CASE ExecRelease(s)
      BY <1>0, <1>2, <2>3, <2>5 DEF ExecRelease, Released, TypeOK
    <2> QED
      BY <1>4, <2>2, <2>3, <2>4, <2>5 DEF Exec, ExecRenew, Drop
  <1>5. ASSUME NEW c \in Call, Open(c) \/ SendRenew(c) \/ Close(c)
        PROVE  /\ UNCHANGED <<row, clock>>
               /\ \A s \in sql' : s \in sql \/ s.op # "renew" \/ s.now = clock
    BY <1>5 DEF Open, RunInside, OpenOwn, OpenAsContext, AdoptOperator, FallBack, SendAcquire,
       ConfirmAcquire, ExplainRefusal, DeadlineAcquire, SendRenew, Close, Certify, Abort,
       LeaveOuter, CloseOwn, DeadlineRelease, Statement
  <1>6. CASE AuthzFreeze
    BY <1>3, <1>6 DEF AuthzFreeze, Taken
  <1>7. CASE AuthzUnfreezeLift
    BY <1>0, <1>1, <1>2, <1>7, <1>n DEF AuthzUnfreezeLift, Released, TypeOK
  <1>8. CASE Tick
    BY <1>1, <1>8, <1>n DEF Tick
  <1>9. CASE UNCHANGED <<row, clock, sql>>
    BY <1>1, <1>9, <1>n
  <1> QED
    BY <1>4, <1>5, <1>1, <1>n, <1>6, <1>7, <1>8, <1>9
    DEF Next, AuthzUnfreezeRead, StartWrite, PassBarrier, Kill, vars

\* A call a step leaves as it was, or that starts or stops with no write to answer for.
Kept(d) ==
    \/ win'[d].admitted = FALSE
    \/ /\ win'[d].admitted = win[d].admitted /\ win'[d].token = win[d].token
       /\ win'[d].verdict = win[d].verdict
       /\ win'[d].pc = "running" => win[d].pc = "running"

LEMMA KeptClean ==
  ASSUME SlipInv, [Next]_vars, NEW d \in Call, Kept(d)
  PROVE  Clean(d)'
  <1>1. Clean(d)
    BY DEF SlipInv
  <1>2. CASE win'[d].admitted = FALSE
    BY <1>2 DEF Clean
  <1>3. CASE /\ win'[d].admitted = win[d].admitted /\ win'[d].token = win[d].token
             /\ win'[d].verdict = win[d].verdict
             /\ win'[d].pc = "running" => win[d].pc = "running"
    <2>1. win[d].pc = "running" /\ Lost(win[d].token) => Lost(win[d].token)'
      BY <1>3, LostStays
    <2> QED
      BY <1>1, <1>3, <2>1 DEF Clean
  <1> QED
    BY <1>2, <1>3 DEF Kept

\* A pass is certified only if its token is not lost, hence nothing slipped through.
LEMMA CertifyClean ==
  ASSUME SlipInv, NEW c \in Call, Certify(c)
  PROVE  Clean(c)'
  <1>1. TypeOK /\ Clean(c) /\ win[c].pc = "running"
    BY DEF SlipInv, FreezeInv, Certify, At
  <1>2. win'[c] = [win[c] EXCEPT !.pc = "closing",
                      !.verdict = IF TokenLapsed(win[c].token) THEN "lapsed" ELSE "certified"]
    BY <1>1 DEF Certify, TypeOK
  <1>3. /\ win'[c].pc = "closing" /\ win'[c].admitted = win[c].admitted
        /\ win'[c].verdict = "certified" => ~TokenLapsed(win[c].token)
    BY <1>1, <1>2 DEF TypeOK, Window
  <1>4. Lost(win[c].token) => TokenLapsed(win[c].token)
    BY DEF Lost, TokenLapsed
  <1> QED
    BY <1>1, <1>3, <1>4 DEF Clean

\* A write that passes its barrier now or passed it long ago finds the row free.
LEMMA PassClean ==
  ASSUME SlipInv, NEW m \in Writer, PassBarrier(m), NEW d \in Call
  PROVE  Clean(d)'
  <1>1. TypeOK /\ Clean(d) /\ Fenced(d) /\ m \in Manager /\ write[m] <= clock
    BY DEF SlipInv, FreezeInv
  <1>2. win[d] \in Window /\ write[m] \in Nat /\ clock \in Nat
        /\ row.until \in Nat \cup {Never}
    BY <1>1 DEF TypeOK, PassBarrier
  <1>3. win'[d] = [win[d] EXCEPT !.admitted =
                     @ \/ (At(d, "running") /\ ~FreezeIsLive(row, write[m])
                                                    /\ ~RenewalInFlight)]
    BY DEF PassBarrier
  <1>4. /\ win'[d].pc = win[d].pc /\ win'[d].token = win[d].token
        /\ win'[d].verdict = win[d].verdict
        /\ win'[d].admitted =
              (win[d].admitted \/ (At(d, "running") /\ ~FreezeIsLive(row, write[m])
                                                    /\ ~RenewalInFlight))
    BY <1>2, <1>3 DEF Window
  <1>5. UNCHANGED <<row, clock, sql>>
    BY DEF PassBarrier
  <1>6. win[d].pc = "running" /\ ~FreezeIsLive(row, write[m]) /\ ~RenewalInFlight
        => Lost(win[d].token)
    BY <1>1, <1>2 DEF Fenced, FreezeIsLive, Lost, Mine, TokenOf
  <1>7. Lost(win[d].token) => Lost(win[d].token)'
    BY <1>4, <1>5 DEF Lost, Mine, TokenOf, RenewalInFlight
  <1>8. CASE win[d].pc = "running"
    BY <1>1, <1>4, <1>6, <1>7, <1>8 DEF Clean, Fenced, At
  <1>9. CASE win[d].pc # "running"
    BY <1>1, <1>4, <1>9 DEF Clean, At
  <1> QED
    BY <1>8, <1>9

LEMMA KeptExec ==
  ASSUME TypeOK, NEW s \in sql, Exec(s), NEW d \in Call
  PROVE  Kept(d)
  <1>0. s.call \in Call /\ win[d] \in Window
    BY DEF TypeOK
  <1>1. CASE ExecAcquire(s)
    <2> DEFINE Answer(w, pc) == [w EXCEPT ![s.call].pc = IF @ = "acquiring" THEN pc ELSE @]
               o == Overtake(win)
    <2>1. ASSUME NEW w \in [Call -> Window], NEW pc \in {"taken", "refused"}
          PROVE  /\ Answer(w, pc)[d].token = w[d].token
                 /\ Answer(w, pc)[d].verdict = w[d].verdict
                 /\ Answer(w, pc)[d].admitted = w[d].admitted
                 /\ Answer(w, pc)[d].pc = "running" => w[d].pc = "running"
      BY <1>0, <2>1 DEF Window
    <2>2. o \in [Call -> Window]
      BY OvertakeType
    <2>3. /\ o[d].token = win[d].token /\ o[d].verdict = win[d].verdict
          /\ o[d].admitted = win[d].admitted /\ o[d].pc = win[d].pc
      BY <1>0 DEF Overtake, Window
    <2>4. win' = Answer(o, "taken") \/ win' = Answer(win, "refused")
      BY <1>1 DEF ExecAcquire
    <2> HIDE DEF Answer, o
    <2>5. CASE win' = Answer(o, "taken")
      BY <2>1, <2>2, <2>3, <2>5 DEF Kept
    <2>6. win \in [Call -> Window]
      BY DEF TypeOK
    <2>7. CASE win' = Answer(win, "refused")
      BY <2>1, <2>6, <2>7 DEF Kept
    <2> QED
      BY <2>4, <2>5, <2>7
  <1>2. CASE ExecRenew(s)
    BY <1>0, <1>2 DEF ExecRenew, Kept, TypeOK, Window
  <1>3. CASE ExecRelease(s)
    BY <1>0, <1>3 DEF ExecRelease, Forget, Finish, Blank, Kept, TypeOK
  <1>4. CASE Drop(s)
    BY <1>4 DEF Drop, Kept
  <1> QED
    BY <1>1, <1>2, <1>3, <1>4 DEF Exec

LEMMA KeptCall ==
  ASSUME TypeOK, NEW c \in Call, Open(c) \/ SendRenew(c) \/ (Close(c) /\ ~Certify(c)),
         NEW d \in Call
  PROVE  Kept(d)
  <1>0. win[d] \in Window /\ win[c] \in Window
    BY DEF TypeOK
  <1>e. ASSUME NEW shape, NEW t, Enter(c, shape, t) PROVE Kept(d)
    BY <1>e, EnterWin DEF Kept
  <1>f. ASSUME Finish(c) PROVE Kept(d)
    BY <1>f, FinishWin DEF Kept
  <1>s. ASSUME SendAcquire(c) PROVE Kept(d)
    BY <1>0, <1>s DEF SendAcquire, Kept, TypeOK, Window
  <1>1. ASSUME Open(c) PROVE Kept(d)
    <2>1. CASE OpenAsContext(c)
      BY <1>0, <2>1 DEF OpenAsContext, Goto, Kept, TypeOK, Window
    <2>2. CASE ExplainRefusal(c)
      <3>1. CASE win' = [win EXCEPT ![c].pc = "acquiring", ![c].retried = TRUE]
        BY <1>0, <3>1 DEF Kept, TypeOK, Window
      <3> QED
        BY <1>f, <2>2, <3>1 DEF ExplainRefusal
    <2> QED
      BY <1>1, <1>e, <1>f, <1>s, <2>1, <2>2
      DEF Open, RunInside, OpenOwn, AdoptOperator, FallBack, ConfirmAcquire, DeadlineAcquire
  <1>2. ASSUME Close(c), ~Certify(c) PROVE Kept(d)
    <2>1. CASE Abort(c)
      BY <1>0, <2>1 DEF Abort, Goto, Kept, TypeOK, Window
    <2>2. CASE win' = [win EXCEPT ![c].pc = "releasing", ![c].now = clock]
      BY <1>0, <2>2 DEF Kept, TypeOK, Window
    <2>3. CASE DeadlineRelease(c)
      BY <1>0, <2>3 DEF DeadlineRelease, Blank, Kept, TypeOK
    <2> QED
      BY <1>2, <1>f, <2>1, <2>2, <2>3 DEF Close, LeaveOuter, CloseOwn, Forget
  <1>3. ASSUME SendRenew(c) PROVE Kept(d)
    BY <1>3 DEF SendRenew, Kept
  <1> QED
    BY <1>1, <1>2, <1>3

LEMMA WritesPast ==
  ASSUME SlipInv, [Next]_vars
  PROVE  (\A m \in Manager : write[m] <= clock)'
  <1>0. TypeOK /\ clock \in Nat /\ \A m \in Manager : write[m] \in Nat \cup {Idle}
    BY DEF SlipInv, FreezeInv, TypeOK
  <1>1. CASE UNCHANGED <<clock, write>>
    BY <1>1 DEF SlipInv
  <1>2. CASE Tick
    BY <1>0, <1>2 DEF Tick, SlipInv
  <1>3. ASSUME NEW m \in Manager, StartWrite(m) \/ PassBarrier(m) \/ Kill(m)
        PROVE  (\A n \in Manager : write[n] <= clock)'
    BY <1>0, <1>3 DEF StartWrite, PassBarrier, Kill, SlipInv, TypeOK
  <1>4. ASSUME NEW s \in sql, Exec(s) PROVE UNCHANGED <<clock, write>>
    BY <1>4 DEF Exec, ExecAcquire, ExecRenew, ExecRelease, Drop
  <1>5. ASSUME NEW c \in Call, Open(c) \/ SendRenew(c) \/ Close(c) PROVE UNCHANGED <<clock, write>>
    BY <1>5 DEF Open, RunInside, OpenOwn, OpenAsContext, AdoptOperator, FallBack, SendAcquire,
       ConfirmAcquire, ExplainRefusal, DeadlineAcquire, SendRenew, Close, Certify, Abort,
       LeaveOuter, CloseOwn, DeadlineRelease
  <1> QED
    BY <1>1, <1>2, <1>3, <1>4, <1>5, FreezeAssumption
    DEF Next, AuthzFreeze, AuthzUnfreezeRead, AuthzUnfreezeLift, vars

LEMMA SlipStep == SlipInv /\ [Next]_vars => SlipInv'
  <1> SUFFICES ASSUME SlipInv, [Next]_vars PROVE SlipInv'
    OBVIOUS
  <1>0. TypeOK /\ FreezeInv'
    BY InvStep DEF SlipInv, FreezeInv
  <1>1. ASSUME NEW d \in Call PROVE Clean(d)'
    <2>1. ASSUME NEW c \in Call, Certify(c) PROVE Clean(d)'
      <3>1. d # c => Kept(d)
        BY <1>0, <2>1 DEF Certify, Kept, TypeOK
      <3> QED
        BY <2>1, <3>1, CertifyClean, KeptClean
    <2>2. ASSUME NEW c \in Call, Open(c) \/ SendRenew(c) \/ (Close(c) /\ ~Certify(c))
          PROVE  Clean(d)'
      BY <1>0, <2>2, KeptCall, KeptClean
    <2>3. ASSUME NEW s \in sql, Exec(s) PROVE Clean(d)'
      BY <1>0, <2>3, KeptExec, KeptClean
    <2>4. ASSUME NEW m \in Writer, PassBarrier(m) PROVE Clean(d)'
      BY <2>4, PassClean
    <2>5. CASE AuthzFreeze \/ AuthzUnfreezeLift
      <3>1. Kept(d)
        BY <1>0, <2>5 DEF AuthzFreeze, AuthzUnfreezeLift, Overtake, Kept, TypeOK, Window
      <3> QED
        BY <3>1, KeptClean
    <2>6. ASSUME NEW m \in Manager, Kill(m) PROVE Clean(d)'
      <3>1. Kept(d)
        BY <2>6 DEF Kill, Blank, Kept
      <3> QED
        BY <3>1, KeptClean
    <2>7. CASE UNCHANGED win
      <3>1. Kept(d)
        BY <2>7 DEF Kept
      <3> QED
        BY <3>1, KeptClean
    <2> QED
      BY <2>1, <2>2, <2>3, <2>4, <2>5, <2>6, <2>7
      DEF Next, AuthzUnfreezeRead, StartWrite, Tick, vars
  <1> QED
    BY <1>0, <1>1, WritesPast DEF SlipInv

\* A certified pass was never slipped past by a write, however late the renewals
\* of the fleet land: only while one sent in time is on its way may one pass.
THEOREM CertificatesHold == Spec => []CertifiedMeansFrozen
  <1>1. SlipInv => CertifiedMeansFrozen
    BY DEF SlipInv, Clean, CertifiedMeansFrozen
  <1> QED
    BY <1>1, InitSlip, SlipStep, PTL DEF Spec
=============================================================================
