---------------------------- MODULE MCFrameCodec -----------------------------
EXTENDS FrameCodec

\* With bytes of two values, all packets of up to three bytes: the header's high
\* byte is in use, and the memory of two bytes must be extended.
MCPackets == UNION {[1 .. n -> 0 .. 1] : n \in 0 .. 3}
=============================================================================
