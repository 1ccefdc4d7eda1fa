---------------------------- MODULE ZlibChecksum ----------------------------
(***************************************************************************)
(* The running checksums of a script: lz_checksum of                       *)
(* src/src/lualib/lua_zlib.c.  A checksum is a closure that holds a digest *)
(* and a length; it takes a string, or a function that returns the digest  *)
(* and the length of what is to follow.  That function is the script's: it *)
(* may call any checksum, this one too, before it returns.                 *)
(*                                                                         *)
(* A digest is the sequence of the items digested.  libz combines two      *)
(* digests rightly if it is given the length of the second.                *)
(***************************************************************************)
EXTENDS Naturals, Sequences

CONSTANTS Sums,         \* the closures
          SumPieces,    \* what a script may pass
          MaxSum,       \* how many items a closure is fed
          Garbage, None

\* What is digested.
SumItems == UNION {{piece[i] : i \in DOMAIN piece} : piece \in SumPieces}

ASSUME SumsAssumption == None \notin Sums /\ SumPieces \subseteq Seq(SumItems)

VARIABLES
    digest, length,     \* upvalues 3 and 4 of each closure
    asking,             \* the closure that runs a function of the script's
    fed                 \* what each closure was to digest, in the order the calls end

sumVars == <<digest, length, asking, fed>>

\* adler32_combine, crc32_combine
Combined(first, second, n) == IF n = Len(second) THEN first \o second ELSE <<Garbage>>

SumInit == /\ digest = [c \in Sums |-> <<>>]
           /\ length = [c \in Sums |-> 0]
           /\ asking = None
           /\ fed = [c \in Sums |-> <<>>]

SumUpdate(c, piece) ==
    /\ Len(fed[c]) + Len(piece) <= MaxSum
    /\ digest' = [digest EXCEPT ![c] = @ \o piece]
    /\ length' = [length EXCEPT ![c] = @ + Len(piece)]
    /\ fed' = [fed EXCEPT ![c] = @ \o piece]
    /\ UNCHANGED asking

\* The argument is a function: it is called before the upvalues are read.  One such
\* call at a time is modelled.
SumAsk(c) == /\ asking = None
             /\ asking' = c
             /\ UNCHANGED <<digest, length, fed>>

\* Mutant: the length of what was added is forgotten.
LengthKept(c, d) == length[c]

NewLength(c, d) == length[c] + length[d]

\* The function returns what closure d, called without arguments, returns.
SumCombine(d) ==
    LET c == asking
    IN  /\ c # None
        /\ Len(fed[c]) + Len(fed[d]) <= MaxSum
        /\ digest' = [digest EXCEPT ![c] = Combined(@, digest[d], length[d])]
        /\ length' = [length EXCEPT ![c] = NewLength(c, d)]
        /\ fed' = [fed EXCEPT ![c] = @ \o fed[d]]
        /\ asking' = None

\* It does not return two numbers, or it fails: an error, and nothing changes.
SumRefuse == asking # None /\ asking' = None /\ UNCHANGED <<digest, length, fed>>

SumNext == \/ \E c \in Sums, piece \in SumPieces : SumUpdate(c, piece)
           \/ \E c \in Sums : SumAsk(c) \/ SumCombine(c)
           \/ SumRefuse

SumSpec == SumInit /\ [][SumNext]_sumVars

-----------------------------------------------------------------------------
\* Type correctness.
SumTypeOK == /\ length \in [Sums -> Nat]
             /\ asking \in Sums \cup {None}

\* However checksums are fed from each other, and whatever a script does in the
\* function that a checksum calls, each one is that of all it was given.
SumsOfAllFed == \A c \in Sums : digest[c] = fed[c]
=============================================================================
