---------------------------- MODULE MCScopeReads ----------------------------
(* Three scopes.  Every table of them, with cycles and missing parents; and  *)
(* trees of an organization with what hangs from it.                         *)
EXTENDS ScopeReads, TLC

Bare == [rows |-> {}, grants |-> {{}}, denies |-> {{}}, maxDepth |-> {3}, maxNodes |-> {3},
           maxScopes |-> {3}, page |-> {2}, ofType |-> {Node}, ops |-> {}, moves |-> {}, facts |-> {},
           writes |-> 0, calls |-> 1]

Every == Node \X (Scope \cup {NoRow})

\* Any table, and any write of a row while it is read.
Climbs == [Bare EXCEPT !.rows = Table, !.ops = {"isWithin"}, !.maxDepth = {2, 3},
                         !.moves = Every, !.writes = 1]
Paged == [Bare EXCEPT !.rows = Table, !.ops = {"enumerateEdges"}, !.page = {1, 2, 3},
                        !.moves = Every, !.writes = 2]
Walks == [Bare EXCEPT !.rows = Table, !.ops = {"authorizedScopes"}, !.grants = {{1}, {1, 2}},
                        !.maxNodes = {1, 2, 3}]

Chain == [n \in Node |-> n - 1]
Fork  == [n \in Node |-> IF n = 1 THEN Root ELSE 1]

\* Lists over trees that move under them.
Moving == [Bare EXCEPT !.rows = {Chain, Fork}, !.ops = {"authorizedScopes"},
                         !.grants = {{1}, {1, 2}, {2, 3}}, !.denies = {{}, {2}, {1}},
                         !.maxScopes = {1, 3}, !.ofType = {Node, {3}},
                         !.moves = {<<3, 1>>, <<3, 2>>, <<2, Root>>, <<2, NoRow>>}, !.facts = {1, 2},
                         !.writes = 2, !.calls = 2]

\* A permission on the root, and what is left out of it.
Whole == [Bare EXCEPT !.rows = {Chain, Fork}, !.ops = {"authorizedScopes", "expandExcludedSubtrees"},
                        !.grants = {{Root}, {Root, 2}}, !.denies = {{2}, {1, 2}, {2, 3}},
                        !.maxScopes = {2, 3}, !.moves = {<<3, 1>>, <<3, 2>>, <<2, Root>>, <<2, NoRow>>},
                        !.facts = {Root, 2}, !.writes = 2, !.calls = 2]

MCScenes == {Climbs, Paged, Walks, Moving, Whole}
=============================================================================
