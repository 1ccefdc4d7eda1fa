----------------------------- MODULE MCNetServer -----------------------------
EXTENDS NetServer
CONSTANTS s1, s2

MCSessions == {s1, s2}
=============================================================================
