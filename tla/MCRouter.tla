------------------------------ MODULE MCRouter -------------------------------
EXTENDS Router
CONSTANTS p1, p2, a, b

MCPipes == {p1, p2}
MCNames == {a, b}
=============================================================================
