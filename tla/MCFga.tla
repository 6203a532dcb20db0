------------------------------- MODULE MCFga -------------------------------
(* A unit u that moves in and out of the organization a, with v below it: a  *)
(* role of a, and a retired one.                                             *)
EXTENDS FgaFacts, TLC

CONSTANTS c1, c2, h, p, root, a, u, v, local, retired

MCCatalog == local :> [owner |-> a, type |-> "unit", perms |-> {p}]
Symmetry == Permutations(Client)
MCTree    == {<<a, root>>, <<u, a>>, <<v, u>>}
MCMoves   == {<<u, a>>, <<u, root>>}
MCStray   == {<<v, retired>>}
MCGrantAt == {<<v, local>>}
MCDenied  == {<<h, u, p>>}
MCDenyAt  == {v}
MCAsked   == {Omitted, 1}
=============================================================================
