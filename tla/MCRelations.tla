---------------------------- MODULE MCRelations ----------------------------
(* A holder, a group h in a group g, and an object doc of one partition and  *)
(* memo of another.  Editors are viewers.                                    *)
EXTENDS Relations, TLC

CONSTANTS u, g, h, doc, memo, viewer, editor, east, west, c1, c2

MCIncludes == viewer :> {editor} @@ editor :> {}
MCPartOf   == [o \in Group \cup Object |-> IF o = memo THEN west ELSE east]

Opted == [o \in Object |-> "write"]

\* A pass alone, over every store of a universe and every source.
Passes(sources, stores, phase, knows, prune, atomic, fails, ticks) ==
    [src |-> sources, dst |-> stores, phase |-> phase, knows |-> knows, prune |-> prune, atomic |-> atomic,
     asks |-> {}, calls |-> 0, passes |-> 1 + fails, fails |-> fails, ticks |-> ticks]

\* Groups that grant and groups that deny, with no expiries.
Tangled == {In(u, g), In(u, h), In(h, g), Allow(h, editor, doc), Allow(u, viewer, doc),
            Deny(g, viewer, doc)}

\* A group that grants nothing and carries a deny, with expiries that come and go.
Fading == {In(u, g), Allow(u, editor, doc), Deny(g, viewer, doc)}

\* Two partitions, and a destination that may not declare or take what it is sent.
Parted == {In(u, h), Deny(h, viewer, doc), Allow(u, viewer, doc), Allow(u, viewer, memo)}

\* A pass that brings u into g, which grants, and into h, which denies, while g is in h for an
\* instant more.
Lapsing == {In(u, g), In(u, h), In(g, h), Allow(g, viewer, doc), Deny(h, viewer, doc)}

Kept == [t \in Lapsing |-> IF t = In(g, h) THEN 1 ELSE Forever]

\* What clients do to one store.
Clients(U, stores, menu, atomic, calls) ==
    [src |-> {[t \in U |-> Absent]}, dst |-> stores, phase |-> {Opted}, knows |-> {TRUE},
     prune |-> {FALSE}, atomic |-> atomic,
     asks |-> menu, calls |-> calls, passes |-> 0, fails |-> 1, ticks |-> 1]

Doing(op, t, e) == [op |-> op, t |-> t, e |-> e]

Filled(U, d) == [t \in U |-> IF t \in DOMAIN d THEN d[t] ELSE Absent]

Nested == {In(u, h), In(h, g), Allow(u, editor, doc), Deny(g, viewer, doc)}

Renewals ==
    {Clients(Nested,
             {Filled(Nested, In(u, h) :> 2 @@ In(h, g) :> Forever @@ Allow(u, editor, doc) :> Forever),
              Filled(Nested, In(u, h) :> 2 @@ Deny(g, viewer, doc) :> Forever @@ In(h, g) :> 1)},
             menu, BOOLEAN, 2) :
        menu \in {{Doing("relate", In(u, h), Forever), Doing("deny", Deny(g, viewer, doc), Omitted),
                   Doing("relate", In(h, g), 2), Doing("unrelate", In(h, g), Omitted)},
                  {Doing("relate", In(u, h), 1), Doing("relate", In(u, h), Omitted),
                   Doing("removeDeny", Deny(g, viewer, doc), Omitted)}}}

Whole == {In(u, h), In(h, g), Allow(h, editor, doc), Deny(h, viewer, doc), Deny(g, editor, doc),
          Allow(u, editor, doc)}

Purges ==
    {Clients(Whole, {Filled(Whole, [t \in U |-> Forever]) : U \in {Whole \ {t} : t \in Whole}},
             menu, {FALSE}, 2) :
        menu \in {{Doing("purgeSubject", In(h, g), Omitted), Doing("relate", Allow(h, editor, doc), Omitted)},
                  {Doing("purgeObject", Allow(u, viewer, doc), Omitted), Doing("deny", Deny(h, viewer, doc), Omitted)},
                  {Doing("purgeObject", In(u, g), Omitted)}}}

\* A pass that begins with a call under way.
Straggler ==
    [Passes({Filled(Nested, t :> Forever) : t \in Nested},
            {Filled(Nested, In(u, h) :> 2 @@ In(h, g) :> Forever @@ Allow(u, editor, doc) :> Forever)},
            {Opted}, {TRUE}, {TRUE}, {FALSE}, 0, 0)
        EXCEPT !.calls = 1,
               !.asks = {Doing("relate", In(u, h), Forever), Doing("deny", Deny(g, viewer, doc), Omitted),
                         Doing("purgeSubject", In(h, g), Omitted)}]

MCScenes ==
    Renewals \cup Purges \cup {Straggler}
    \cup {Passes([Tangled -> {Absent, Forever}], [Tangled -> {Absent, Forever}], {Opted}, {TRUE},
                 BOOLEAN, {FALSE}, 0, 0),
          Passes([Fading -> {Absent, 2, Forever}], [Fading -> {Absent, 1, Forever}], {Opted}, {TRUE},
                 {TRUE}, BOOLEAN, 1, 1),
          Passes([Parted -> {Absent, Forever}], [Parted -> {Absent, 1}],
                 {[o \in Object |-> IF o = doc THEN p ELSE r] : p \in Phases, r \in {"undeclared", "write"}},
                 BOOLEAN, {TRUE}, BOOLEAN, 0, 0),
          Passes({Kept}, {[t \in Lapsing |-> IF t.user = u THEN Absent ELSE Kept[t]]}, {Opted}, BOOLEAN,
                 {FALSE}, BOOLEAN, 0, 1)}
=============================================================================
