--------------------------- MODULE MCNodeRegistry ----------------------------
EXTENDS NodeRegistry
CONSTANTS main, t1, t2, o1, o2, o3, a, b, c

\* The router's thread, and the slots for node threads.
MCThreads == {main, t1, t2}
MCObjects == {o1, o2, o3}
=============================================================================
