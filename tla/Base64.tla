------------------------------- MODULE Base64 -------------------------------
(***************************************************************************)
(* Base64 for scripts: b64_ntop, b64_pton and the functions encode and     *)
(* decode of src/src/lualib/lua_b64.c.                                     *)
(*                                                                         *)
(* Three bytes make four characters.  A byte is four units of bits and a   *)
(* character stands for three of them.  A unit has 4 values in the source, *)
(* where it is two bits, and 2 where all inputs are to be enumerated.  A   *)
(* character of the alphabet is its number; the others are Pad, Space, Nul *)
(* and Strange.                                                            *)
(***************************************************************************)
EXTENDS Naturals, SequencesExt

CONSTANTS Unit,             \* the values of a unit
          Pad, Space, Nul, Strange,
          Failed, Crash,    \* a call raises an error, or ends the process
          Datas, Texts64    \* what scripts encode and decode

VARIABLE coded  \* the last call of encode or decode: what it was, was given and returned

\* The values of k units.
P(k) == CASE k = 1 -> Unit
          [] k = 2 -> Unit * Unit
          [] k = 3 -> Unit * Unit * Unit
          [] k = 4 -> Unit * Unit * Unit * Unit

\* What a byte can be, and the numbers of the alphabet.
Bytes == 0 .. P(4) - 1
Alphabet == 0 .. P(3) - 1

\* All that a text is made of.
Characters == Alphabet \cup {Pad, Space, Nul, Strange}

\* The other characters differ from each other and from those of the alphabet.
ASSUME Base64Assumption ==
    /\ Unit \in Nat \ {0, 1}
    /\ Pad \notin Alphabet /\ Space \notin Alphabet /\ Nul \notin Alphabet
    /\ Pad # Space /\ Pad # Nul /\ Space # Nul
    /\ Datas \subseteq Seq(Bytes)
    /\ Texts64 \subseteq Seq(Characters)

-----------------------------------------------------------------------------
(* encode *)

\* Mutant: the second character takes its bits of the second byte one place too high.
FourSlipped(a, b, c) == <<a \div P(1), (a % P(1)) * P(2) + (b \div P(3)),
                          (b % P(2)) * P(1) + (c \div P(3)), c % P(3)>>

Four(a, b, c) == <<a \div P(1), (a % P(1)) * P(2) + (b \div P(2)),
                   (b % P(2)) * P(1) + (c \div P(3)), c % P(3)>>

\* B64_CHARS
Chars(n) == ((n + 2) \div 3) * 4

\* B64_ENCODE_LEN.  B64_CHARS(0) - 1 is the largest size_t: no memory has that room.
EncodeRoom(n) == Chars(n) + ((Chars(n) - 1) \div 76) + 1

\* The bytes behind the last are zero.
ByteAt(data, i) == IF i \in DOMAIN data THEN data[i] ELSE 0

\* The i-th character that b64_ntop makes of the groups of three bytes.
CharAt(data, i) ==
    LET g == 3 * ((i - 1) \div 4)
    IN  Four(ByteAt(data, g + 1), ByteAt(data, g + 2), ByteAt(data, g + 3))[((i - 1) % 4) + 1]

\* How many bytes the last group lacks.
Pads(n) == (3 - (n % 3)) % 3

\* b64_ntop with room enough; the characters that stand for missing bytes alone are pads.
Ntop(data) ==
    LET n == Len(data)
    IN  [i \in 1 .. Chars(n) |-> IF i > Chars(n) - Pads(n) THEN Pad ELSE CharAt(data, i)]

\* The terminating NUL is written last; for the empty string it is written to the
\* NULL that malloc returned.
Encode(data) == IF data = <<>> THEN Crash
                ELSE IF Len(Ntop(data)) < EncodeRoom(Len(data)) THEN Ntop(data)
                ELSE Failed

-----------------------------------------------------------------------------
(* decode *)

\* Mutant: the division rounds down.
DecodeRoomDown(n) == (n * 3) \div 4

\* B64_DECODE_LEN
DecodeRoom(n) == (n * 3 + 3) \div 4

\* Where b64_pton is: what it reads next, its state, the bytes it has completed and
\* the one it has begun.
Fresh64 == [at |-> "chars", state |-> 0, bytes |-> <<>>, begun |-> 0]

Bad(d, why) == [d EXCEPT !.at = why]

\* A character of the alphabet; a byte that is begun needs its place in the buffer.
Digit(d, v, room) ==
    IF Len(d.bytes) + (IF d.state \in {1, 2} THEN 1 ELSE 0) >= room THEN Bad(d, "short")
    ELSE CASE d.state = 0 -> [d EXCEPT !.state = 1, !.begun = v * P(1)]
           [] d.state = 1 -> [d EXCEPT !.state = 2, !.begun = (v % P(2)) * P(2),
                                       !.bytes = Append(@, d.begun + (v \div P(2)))]
           [] d.state = 2 -> [d EXCEPT !.state = 3, !.begun = (v % P(1)) * P(3),
                                       !.bytes = Append(@, d.begun + (v \div P(1)))]
           [] d.state = 3 -> [d EXCEPT !.state = 0, !.begun = 0,
                                       !.bytes = Append(@, d.begun + v)]

\* Mutant: the bits that slopped past the last byte are not looked at.
SlopIgnored(d) == FALSE

\* They must be zero, or the text is not the only one for its bytes.
Slop(d) == d.begun # 0

\* The end of the string.
Finished(d) == CASE d.at = "chars" /\ d.state = 0   -> Bad(d, "end")
                 [] d.at = "spaces" /\ ~Slop(d)     -> Bad(d, "end")
                 [] OTHER                           -> Bad(d, "wrong")

\* The loop of b64_pton ("chars"), the search for the second pad ("pad") and for
\* anything but spaces after the last one ("spaces").
Step64(d, ch, room) ==
    IF d.at \in {"end", "wrong", "short"} \/ ch = Space THEN d
    ELSE IF ch = Nul THEN Finished(d)
    ELSE IF d.at = "chars" /\ ch = Pad
         THEN Bad(d, CASE d.state = 2 -> "pad" [] d.state = 3 -> "spaces" [] OTHER -> "wrong")
    ELSE IF d.at = "chars" /\ ch \in Alphabet THEN Digit(d, ch, room)
    ELSE Bad(d, IF d.at = "pad" /\ ch = Pad THEN "spaces" ELSE "wrong")

\* Where b64_pton is after each character of a text and the NUL at its end.
Reading(text) ==
    LET all == Append(text, Nul)
        read[k \in 0 .. Len(all)] ==
            IF k = 0 THEN Fresh64 ELSE Step64(read[k - 1], all[k], DecodeRoom(Len(text)))
    IN  read

Pton(text) == Reading(text)[Len(text) + 1]

\* The result -1 is taken for a size, the largest there is, which lua_pushlstring
\* refuses with an error.
Decode(text) == IF Pton(text).at = "end" THEN Pton(text).bytes ELSE Failed

-----------------------------------------------------------------------------
CodingInit == coded = [call |-> "none", given |-> <<>>, returned |-> <<>>]

EncodeCall(data) == coded' = [call |-> "encode", given |-> data, returned |-> Encode(data)]

DecodeCall(text) == coded' = [call |-> "decode", given |-> text, returned |-> Decode(text)]

\* The functions keep nothing between calls, so one call is enough.
CodingNext == /\ coded.call = "none"
              /\ \/ \E data \in Datas : EncodeCall(data)
                 \/ \E text \in Texts64 : DecodeCall(text)

-----------------------------------------------------------------------------
\* What a script encodes it decodes again, unless it is the empty string, whose
\* encoding ends the process.
DecodesEncoded == coded.call = "encode" /\ coded.given # <<>> => Decode(coded.returned) = coded.given

\* The characters that isspace is false for.
WithoutSpaces(text) ==
    FlattenSeq([i \in DOMAIN text |-> IF text[i] = Space THEN <<>> ELSE <<text[i]>>])

\* decode accepts one text for a result only, but for spaces and what follows a NUL:
\* the one that encode makes.
OnlyOneText ==
    coded.call = "decode" /\ coded.returned # Failed =>
        \E n \in 0 .. Len(coded.given) :
           /\ n = Len(coded.given) \/ coded.given[n + 1] = Nul
           /\ \A i \in 1 .. n : coded.given[i] # Nul
           /\ WithoutSpaces(SubSeq(coded.given, 1, n)) = Ntop(coded.returned)

\* No text is refused because the buffer of decode is too small for it.
RoomToDecode == coded.call = "decode" => Pton(coded.given).at # "short"

\* encode and decode map bytes and texts one to one.
TextsOneToOne == DecodesEncoded /\ OnlyOneText /\ RoomToDecode
=============================================================================
