---------------------------- MODULE MCEnvironment ----------------------------
EXTENDS Environment, TLC
CONSTANTS main, t1, t2, k, l, x, y, n

MCThreads == {main, t1, t2}

\* Threads other than main's are interchangeable, and so are settings and strings.
Symmetry == Permutations({t1, t2}) \cup Permutations({k, l}) \cup Permutations({x, y})
=============================================================================
