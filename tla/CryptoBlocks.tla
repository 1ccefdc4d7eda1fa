---------------------------- MODULE CryptoBlocks ----------------------------
(***************************************************************************)
(* Encryption for scripts: the RSA objects, which cut a message up into    *)
(* blocks, and the AES objects of src/src/lualib/lua_crypto.c.             *)
(*                                                                         *)
(* RSA turns a block of at most Modulus - Overhead items into Modulus      *)
(* cells, and such cells of one block back into it.  A cell is a record of *)
(* the block it belongs to, its place, and the key it was made with.       *)
(*                                                                         *)
(* AES in output feedback mode adds a stream, which key and initial vector *)
(* determine, to the message; here both are sequences of bits.             *)
(***************************************************************************)
EXTENDS Integers, SequencesExt

CONSTANTS Modulus,      \* RSA_size, in bytes
          Overhead,     \* what PKCS #1 padding needs of it: 11
          MaxBuf,       \* MAX_RSA_BUF
          Messages,     \* what scripts encrypt with RSA
          Streamed,     \* what scripts encrypt with AES
          Stream        \* the bits that AES generates, from the initial vector on

\* No message is empty, and the stream is as long as needed.
ASSUME CryptoAssumption ==
    /\ Modulus \in Nat /\ Overhead \in 1 .. Modulus - 1 /\ MaxBuf \in Nat
    /\ \A m \in Messages : m # <<>> /\ m \in Seq(Range(m))
    /\ Streamed \subseteq Seq({0, 1}) /\ Stream \in Seq({0, 1})
    /\ \A m \in Streamed : Len(m) <= Len(Stream)

VARIABLES
    rsaKey,     \* the key in the RSA object: "none", "public" or "private"
    rsaCall,    \* the last message encrypted, and what the call returned
    aesAt,      \* how far the vector in the AES object is from the initial one
    aesCall     \* the last message encrypted with AES, and its encryption

cryptoVars == <<rsaKey, rsaCall, aesAt, aesCall>>

BlockSize == Modulus - Overhead
OtherHalf(half) == IF half = "public" THEN "private" ELSE "public"

\* What a key can do: a private key has both halves.
CanUse(half) == rsaKey = "private" \/ rsaKey = half

-----------------------------------------------------------------------------
(* RSA *)

Part(s, from, n) == SubSeq(s, from, IF from + n - 1 < Len(s) THEN from + n - 1 ELSE Len(s))

\* How many steps of n items there are in a sequence.
Steps(s, n) == (Len(s) \div n) + (IF Len(s) % n > 0 THEN 1 ELSE 0)

\* One call of RSA_public_encrypt or RSA_private_encrypt
Cells(block, half) == [i \in 1 .. Modulus |-> [of |-> block, place |-> i, with |-> half]]

\* Mutant: the last, shorter block is not counted.
NeededWhole(message) == Modulus * (Len(message) \div BlockSize)

Needed(message) == Modulus * Steps(message, BlockSize)

\* do_rsa_encrypt, for a message that is not empty
RsaEncrypt(message, half) ==
    IF Needed(message) > MaxBuf \/ ~CanUse(half) THEN <<>>
    ELSE FlattenSeq([b \in 1 .. Steps(message, BlockSize) |->
                        Cells(Part(message, (b - 1) * BlockSize + 1, BlockSize), half)])

\* Mutant: the room needed is that of the encrypted message.
BackWide(cells) == Modulus * (Len(cells) \div BlockSize)

\* The room that do_rsa_decrypt asks for.
Back(cells) == BlockSize * (Len(cells) \div Modulus)

\* What one call of RSA_private_decrypt or RSA_public_decrypt is given, and whether it is a
\* whole block made with the other half of the key.
BlockAt(cells, b) == SubSeq(cells, (b - 1) * Modulus + 1, b * Modulus)
Right(block, half) == block = Cells(block[1].of, OtherHalf(half))

\* do_rsa_decrypt, which stops at the first block that is not right and then returns nothing.
RsaDecrypt(cells, half) ==
    LET blocks == 1 .. Len(cells) \div Modulus
    IN  IF \/ Len(cells) % Modulus # 0
           \/ Back(cells) > MaxBuf
           \/ ~CanUse(half)
           \/ \E b \in blocks : ~Right(BlockAt(cells, b), half)
        THEN <<>>
        ELSE FlattenSeq([b \in blocks |-> BlockAt(cells, b)[1].of])

\* setPubKey, setPriKey: the structure in the object is overwritten as a whole.
SetKey(k) == rsaKey' = k /\ UNCHANGED <<rsaCall, aesAt, aesCall>>

\* pubEncrypt, priEncrypt.  Without a key RSA_size ends the process, and an empty message
\* fails an assertion: no script does either.
RsaCall(message, half) ==
    /\ rsaKey # "none"
    /\ rsaCall' = [given |-> message, half |-> half, returned |-> RsaEncrypt(message, half)]
    /\ UNCHANGED <<rsaKey, aesAt, aesCall>>

-----------------------------------------------------------------------------
(* AES *)

Ofb(message, at) == [i \in DOMAIN message |-> (message[i] + Stream[at + i]) % 2]

\* Mutant: the vector that AES_ofb128_encrypt goes on from is the object's own.
AtAfterOwn(message) == (aesAt + Len(message)) % (Len(Stream) \div 2)

\* It is a copy.
AtAfter(message) == aesAt

\* encrypt, and decrypt, which does the same
AesCall(message) == /\ aesCall' = [given |-> message, returned |-> Ofb(message, aesAt)]
                    /\ aesAt' = AtAfter(message)
                    /\ UNCHANGED <<rsaKey, rsaCall>>

-----------------------------------------------------------------------------
CryptoInit == /\ rsaKey = "none"
              /\ rsaCall = [given |-> <<>>, half |-> "public", returned |-> <<>>]
              /\ aesAt = 0
              /\ aesCall = [given |-> <<>>, returned |-> <<>>]

CryptoNext == \/ \E k \in {"public", "private"} : SetKey(k)
              \/ \E m \in Messages, half \in {"public", "private"} : RsaCall(m, half)
              \/ \E m \in Streamed : AesCall(m)

CryptoSpec == CryptoInit /\ [][CryptoNext]_cryptoVars

-----------------------------------------------------------------------------
\* What the object has been given room for is never exceeded: all that do_rsa_encrypt
\* writes lies in its buffer.
RsaInBuffer == Len(rsaCall.returned) <= MaxBuf

\* What was encrypted with one half of a key, the holder of the other half decrypts:
\* the message comes back whole, and no part of the encryption is taken for another
\* message.
RsaDecrypts ==
    (rsaCall.returned # <<>> /\ CanUse(OtherHalf(rsaCall.half))) =>
        /\ RsaDecrypt(rsaCall.returned, OtherHalf(rsaCall.half)) = rsaCall.given
        /\ \A i \in 1 .. Len(rsaCall.returned) : \A j \in i .. Len(rsaCall.returned) :
              LET read == RsaDecrypt(SubSeq(rsaCall.returned, i, j), OtherHalf(rsaCall.half))
              IN  read = SubSeq(rsaCall.given, (i \div Modulus) * BlockSize + 1,
                                ((i \div Modulus) * BlockSize) + Len(read))

\* An AES object decrypts what it encrypted, whatever it was used for before.
AesDecrypts == Ofb(aesCall.returned, aesAt) = aesCall.given

\* Encryption and decryption fit each other, in size and in content.
Decrypts == RsaInBuffer /\ RsaDecrypts /\ AesDecrypts
=============================================================================
