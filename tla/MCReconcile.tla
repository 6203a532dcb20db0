----------------------------- MODULE MCReconcile -----------------------------
(* A unit u of the organization a, with a second spelling in the store, a    *)
(* role of a and one of everybody; a permission that the model does not      *)
(* declare; two keys of one factory for the tables, and a second factory for *)
(* the store.                                                                *)
EXTENDS Reconcile, TLC

CONSTANTS h, p, q, root, a, u, upper, local, general, retired

MCFactory == [database |-> "tables", legacy |-> "tables", openfga |-> "store", mirror |-> "twin"]
MCBuilds  == [tables |-> "sql", store |-> "fga", twin |-> "fga"]
MCKey     == DOMAIN MCFactory
MCCatalog == local :> [owner |-> a, type |-> "unit", perms |-> {p}]
               @@ general :> [owner |-> Global, type |-> "unit", perms |-> {p, q}]
MCCanon   == [s \in Scope |-> IF s = upper THEN u ELSE s]
MCTree    == {<<a, root>>, <<u, a>>}
MCMoves   == {<<u, root>>, <<a, u>>}

Held(x, es) == [x EXCEPT !.held = [k \in DOMAIN x.held |->
                   IF k[2] \in DOMAIN es THEN es[k[2]] ELSE Absent]]

Granting == [Held(Bare, <<u, general>> :> Forever) EXCEPT !.denied = {<<h, a, p>>, <<h, u, q>>}]
Expiring == [Held(Bare, <<u, local>> :> 1) EXCEPT !.denied = {<<h, a, p>>}]
Retired  == Held(Bare, <<u, retired>> :> Forever)

\* A store that served before u came to a, and has a deny of the tables, and one with facts in two spellings.
Moved ==
    [Held(Bare, <<u, local>> :> Forever) EXCEPT
        !.rooted = TRUE, !.parent = {<<a, root>>, <<u, root>>}, !.permits = {},
        !.role = {<<u, local>>}, !.denied = {<<h, a, p>>, <<h, u, q>>}]
Spelled ==
    [Held(Bare, <<u, local>> :> 1 @@ <<upper, local>> :> Forever) EXCEPT
        !.rooted = TRUE, !.parent = {<<a, root>>, <<u, a>>}, !.permits = {<<local, q>>},
        !.role = {<<u, local>>, <<upper, local>>}, !.binding = {<<u, local>>},
        !.denied = {<<h, u, q>>}]

MCStarts == {[sql |-> Granting, fga |-> Bare], [sql |-> Expiring, fga |-> Moved],
             [sql |-> Retired, fga |-> Spelled]}

Ask(to, from, prune) == [to |-> to, from |-> from, prune |-> prune]

MCPasses ==
    {Ask("openfga", "none", FALSE), Ask("openfga", "none", TRUE), Ask("openfga", "database", TRUE),
     Ask("mirror", "none", TRUE), Ask("mirror", "openfga", FALSE), Ask("legacy", "openfga", TRUE)}

MCOps ==
    {[op |-> "grant", key |-> <<h, <<u, local>>>>, exp |-> Forever],
     [op |-> "revoke", key |-> <<h, <<u, general>>>>, exp |-> Forever],
     [op |-> "deny", deny |-> <<h, u, p>>], [op |-> "removeDeny", deny |-> <<h, a, p>>]}
=============================================================================
