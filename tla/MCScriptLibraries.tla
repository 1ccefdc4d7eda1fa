------------------------- MODULE MCScriptLibraries --------------------------
(* Small instances of the libraries that scripts use. *)
EXTENDS ScriptLibraries

CONSTANTS a, b, c1, c2

\* zlib: content in pieces shorter and longer than the room, ends and flaws anywhere.
MCPieces == {<<>>, <<a>>, <<a, b, a>>, <<b, a, a, b>>, <<a, Mark>>, <<Mark, b>>, <<b, Flaw, a>>}
MCSumPieces == {<<a>>, <<b, a>>}

\* base64 with one bit for two: every input of up to two bytes, and longer ones; every
\* text of up to four characters over half the alphabet and what is not in it, and
\* the longer ones that matter.
MCDatas == UNION {[1 .. n -> 0 .. 15] : n \in 0 .. 2}
           \cup {<<x, 9, y>> : x, y \in 0 .. 15} \cup {<<1, 2, 3, 4>>, <<15, 0, 9, 8, 7, 6>>}
MCTexts == UNION {[1 .. n -> {0, 1, 2, 4} \cup {Pad, Space, Nul, Strange}] : n \in 0 .. 4}
           \cup [1 .. 5 -> {0, 4, Pad, Space}]

\* RSA with blocks of two items in four cells and room for three blocks.
MCMessages == {SubSeq(<<a, b, b, a, a, a, b>>, 1, n) : n \in 1 .. 7}
MCStreamed == UNION {[1 .. n -> {0, 1}] : n \in 0 .. 3}
MCStream == <<1, 0, 0, 1, 1, 1>>
=============================================================================
