-------------------------- MODULE MCCatalogCache --------------------------
EXTENDS CatalogCache, TLC

CONSTANTS q1, q2, p1, r1

MCQuestion == {q1, q2}
MCPerm == {p1}
MCRole == {r1}

\* Nothing, and a role with its permission.
MCFirst == {[perms |-> {}, roles |-> {}, links |-> {}],
            [perms |-> MCPerm, roles |-> MCRole, links |-> MCRole \X MCPerm]}

Symmetry == Permutations(MCQuestion)
===========================================================================
