----------------------------- MODULE MCSqlFacts -----------------------------
EXTENDS SqlFacts, FiniteSets, TLC

CONSTANTS c1, c2, r1, top, unit

MCClient == {c1, c2}
MCRole == {r1}
MCScope == {top, unit}
MCChain == (top :> {top}) @@ (unit :> {unit, top})

\* Some grants name no expiry, some take it away and some name tomorrow.
Mixed == {Omitted, Forever, 2}
OneDay == {1}

ClientSymmetry == Permutations(MCClient)
=============================================================================
