------------------------------ MODULE MCFreeze ------------------------------
EXTENDS Freeze, TLC

CONSTANTS m1, m2, c1, c2

MCManager == {m1, m2}
MCWriter == {m2}
NoWriter == {}
MCCall == {c1, c2}

\* Two windows on two processes: they race for the row and take it over.
Apart == (c1 :> m1) @@ (c2 :> m2)

\* Two windows on one process: the second runs inside the first, or races it.
Together == (c1 :> m1) @@ (c2 :> m1)
=============================================================================
