---------------------------- MODULE MCResultCursor ----------------------------
EXTENDS ResultCursor, TLC
CONSTANTS c1, c2, r, s

MCCursors == {c1, c2}

\* Two rows whose texts differ in size.
MCRows == {r, s}
MCSize == (r :> 1) @@ (s :> 3)
=============================================================================
