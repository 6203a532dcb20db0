------------------------------- MODULE MCRoles -------------------------------
(* An organization a with a unit u.  adm is global and of the app, op global   *)
(* and of the organization; x is a local role of u, and z one of a.            *)
EXTENDS Roles, TLC

CONSTANTS c1, c2, boss, sub, p, q, adm, op, g, w, x, y, z, nAdm, nOp, n, m, root, a, u

Symmetry == Permutations(Client)

MCTypeOf  == root :> "app" @@ a :> "org" @@ u :> "unit"
MCLevelOf == nAdm :> "app" @@ nOp :> "org" @@ n :> "unit" @@ m :> "unit"

GlobalRow(name, rank, perms) == [name |-> name, owner |-> Global, rank |-> rank, perms |-> perms]

MCCatalog ==
    [rows |-> adm :> GlobalRow(nAdm, 3, {p, q}) @@ op :> GlobalRow(nOp, 2, {p})
              @@ x :> [name |-> n, owner |-> u, rank |-> 2, perms |-> {p}]
              @@ z :> [name |-> m, owner |-> a, rank |-> 1, perms |-> {p}]
              @@ g :> None @@ w :> None @@ y :> None,
     levels |-> p :> {"app", "org", "unit"} @@ q :> {"app", "org", "unit"}]

MCTree  == {<<a, root>>, <<u, a>>}
MCKnown == {{root, a, u}, {root, a}}
MCMoves == {<<u, root>>}
MCHeld  == {<<boss, root, adm>>, <<sub, a, op>>}
MCAskAt == {<<sub, u, x>>}
MCDenyAt == {<<boss, a, p>>}

AskOf(rank, perms) == [name |-> n, rank |-> rank, perms |-> perms]
MCDefines == {<<boss, a, AskOf(1, {p})>>, <<boss, u, AskOf(1, {p})>>, <<sub, a, AskOf(1, {p})>>}
MCUpdates == {<<boss, x, AskOf(None, {p, q})>>, <<boss, x, AskOf(1, None)>>}
MCDeletes == {<<boss, x>>}

ConfigOf(perms, roles) == [perms |-> perms, roles |-> roles]
Levels == {"app", "org", "unit"}
All    == p :> Levels @@ q :> Levels
AdmP   == ConfigOf(All, nAdm :> [uuid |-> adm, rank |-> 3, perms |-> {p}])
AdmPQ  == ConfigOf([v \in {} |-> Levels], nAdm :> [uuid |-> adm, rank |-> 3, perms |-> {p, q}])
WithN  == ConfigOf([v \in {} |-> Levels], n :> [uuid |-> g, rank |-> 1, perms |-> {p}])
MCPlans == {<<AdmP, WithN>>, <<AdmP, AdmPQ>>}
=============================================================================
