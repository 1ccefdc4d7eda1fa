-------------------------- MODULE FrameCodec_proofs --------------------------
(***************************************************************************)
(* Proofs about FrameCodec, for bytes of any size, memory of any initial   *)
(* size, and any packets that fit a header: libuv is never given memory    *)
(* outside the session's, nor no memory at all, the script never sees      *)
(* memory that was not received, and it is given the packets of the client *)
(* one by one, in order and unchanged (StreamKept and the safety of        *)
(* PacketStream).  That they arrive at last is left to TLC.                *)
(***************************************************************************)
EXTENDS FrameCodec, SequenceLemmas, TLAPS

\* A header of two bytes can say every size below Width, and no other.
LEMMA SizeRange ==
    ASSUME NEW hi \in Byte, NEW lo \in Byte
    PROVE  SizeOf(hi, lo) \in 0 .. Width - 1
<1>1. Base \in Nat /\ hi \in Nat /\ lo \in Nat /\ hi <= Base - 1 /\ lo <= Base - 1
  BY CodecAssumption DEF Byte
<1>2. hi * Base \in Nat  BY <1>1
<1>3. hi * Base <= (Base - 1) * Base
  BY <1>1, SMT
<1>4. (Base - 1) * Base + Base = Base * Base  BY <1>1
<1> QED  BY <1>1, <1>2, <1>3, <1>4 DEF SizeOf, Width

\* The two bytes of a size are bytes.
LEMMA HeaderRange ==
    ASSUME NEW n \in 0 .. Width - 1
    PROVE  Header(n) \in Seq(Byte)
<1>1. Base \in Nat /\ Base > 0 /\ n \in Nat /\ n < Base * Base
  BY CodecAssumption DEF Width
<1>2. n % Base \in 0 .. Base - 1  BY <1>1
<1>3. n \div Base \in Nat  BY <1>1
<1>4. n \div Base < Base  BY <1>1
<1> QED  BY <1>1, <1>2, <1>3, <1>4 DEF Header, Byte

\* uint16_t keeps what is below its range.
LEMMA NoWrap ==
    ASSUME NEW n \in 0 .. Width - 1  PROVE n % Width = n
<1>1. Width \in Nat /\ Width > 0  BY CodecAssumption DEF Width
<1> HIDE DEF Width
<1> QED  BY <1>1

-----------------------------------------------------------------------------
(* The memory invariant: RoomInBuffer, with what it takes to keep it *)

\* What has been received is bytes, and the rest may be anything.
Received == \A i \in 1 .. recv_bytes : recv_buf[i] \in Byte

MemoryInv ==
    /\ wire \in Seq(Byte)
    /\ buf_size \in Nat /\ buf_size >= HeaderSize
    /\ recv_buf \in [1 .. buf_size -> Byte \cup {Junk}]
    /\ recv_bytes \in Nat
    /\ body_size \in 0 .. Width - 1
    /\ RoomInBuffer
    /\ Received
    /\ told \in Seq(Byte)

\* A new session's memory holds a header.
LEMMA InitMemory == Init => MemoryInv
<1> SUFFICES ASSUME Init PROVE MemoryInv  OBVIOUS
<1>1. Width \in Nat /\ Width > 0  BY CodecAssumption DEF Width
<1>2. DefaultSize \in Nat /\ DefaultSize >= 2  BY CodecAssumption DEF HeaderSize
<1> HIDE DEF Width
<1> QED  BY <1>1, <1>2 DEF Init, MemoryInv, RoomInBuffer, Room, Received, Fresh, HeaderSize

\* Sending touches nothing but the wire, and puts bytes there.
LEMMA WriteMemory ==
    ASSUME MemoryInv, NEW p \in Packets, Write(p)
    PROVE  MemoryInv'
<1>1. p \in Seq(Byte) /\ Len(p) \in 0 .. Width - 1
  <2>1. p \in Seq(Byte) /\ Len(p) < Width  BY CodecAssumption
  <2>2. Len(p) \in Nat  BY <2>1
  <2> QED  BY <2>1, <2>2, CodecAssumption DEF Width
<1>2. Encode(p) \in Seq(Byte)  BY <1>1, HeaderRange DEF Encode
<1>3. wire' \in Seq(Byte)  BY <1>2 DEF Write, MemoryInv
<1> QED  BY <1>3 DEF Write, MemoryInv, RoomInBuffer, Room, Received

\* Reading n bytes puts them behind those already there, inside the memory.
LEMMA FilledBytes ==
    ASSUME MemoryInv, NEW n \in 1 .. Len(wire), n <= Room
    PROVE  /\ Filled(n) \in [1 .. buf_size -> Byte \cup {Junk}]
           /\ recv_bytes + n <= buf_size
           /\ \A i \in 1 .. recv_bytes + n : Filled(n)[i] \in Byte
<1>1. /\ Room \in Int /\ recv_bytes + Room <= buf_size /\ DOMAIN recv_buf = 1 .. buf_size
      /\ recv_bytes \in Nat /\ buf_size \in Nat /\ Len(wire) \in Nat /\ n \in Nat
  BY DEF MemoryInv, RoomInBuffer, Room, HeaderSize
<1>2. recv_bytes + n <= buf_size  BY <1>1
<1>3. \A i \in recv_bytes + 1 .. recv_bytes + n : i - recv_bytes \in 1 .. Len(wire)
  BY <1>1
<1>4. \A i \in 1 .. Len(wire) : wire[i] \in Byte  BY DEF MemoryInv
<1>5. \A i \in 1 .. buf_size :
         Filled(n)[i] = IF i \in recv_bytes + 1 .. recv_bytes + n THEN wire[i - recv_bytes]
                                                                  ELSE recv_buf[i]
  BY <1>1 DEF Filled
<1>6. \A i \in 1 .. buf_size : recv_buf[i] \in Byte \cup {Junk}  BY DEF MemoryInv
<1>7. \A i \in 1 .. recv_bytes + n : Filled(n)[i] \in Byte
  <2> SUFFICES ASSUME NEW i \in 1 .. recv_bytes + n  PROVE Filled(n)[i] \in Byte  OBVIOUS
  <2>1. i \in 1 .. buf_size  BY <1>1, <1>2
  <2>2. CASE i \in recv_bytes + 1 .. recv_bytes + n  BY <2>1, <2>2, <1>3, <1>4, <1>5
  <2>3. CASE i \in 1 .. recv_bytes  BY <2>1, <2>3, <1>1, <1>5, SMTT(40) DEF MemoryInv, Received
  <2> QED  BY <1>1, <2>2, <2>3
<1>8. Filled(n) \in [1 .. buf_size -> Byte \cup {Junk}]
  BY <1>1, <1>3, <1>4, <1>6 DEF Filled
<1> QED  BY <1>2, <1>7, <1>8

\* Every call of on_session_read leaves room inside the memory for the next one.
LEMMA ReadMemory ==
    ASSUME MemoryInv, NEW n \in 1 .. Len(wire), Read(n)
    PROVE  MemoryInv'
<1>1. /\ n \in Nat /\ n >= 1 /\ n <= Len(wire) /\ n <= Room /\ Len(wire) \in Nat
      /\ recv_bytes \in Nat /\ buf_size \in Nat /\ buf_size >= 2
      /\ body_size \in 0 .. Width - 1 /\ Width \in Nat /\ Width >= 4
  <2>1. Base \in Nat /\ Base >= 2  BY CodecAssumption
  <2>2. Width \in Nat /\ Width >= 4
    <3>1. Base * Base >= 2 * Base  BY <2>1
    <3> QED  BY <2>1, <3>1 DEF Width
  <2> QED  BY <2>2 DEF Read, MemoryInv, HeaderSize
<1>2. wire' \in Seq(Byte)
  BY <1>1 DEF Read, MemoryInv
<1>3. /\ Filled(n) \in [1 .. buf_size -> Byte \cup {Junk}]
      /\ recv_bytes + n <= buf_size
      /\ \A i \in 1 .. recv_bytes + n : Filled(n)[i] \in Byte
  BY <1>1, FilledBytes
<1> HIDE DEF Width
<1>4. ASSUME Collect(n), Room > n  PROVE MemoryInv'
  <2>1. recv_bytes + n \in 0 .. Width - 1
    BY <1>1, <1>4 DEF Room, HeaderSize
  <2>2. recv_bytes' = recv_bytes + n  BY <1>4, <2>1, NoWrap DEF Collect
  <2>3. Room' = Room - n /\ RoomInBuffer'
    BY <1>1, <1>4, <2>2, SMTT(40) DEF Collect, Room, MemoryInv, RoomInBuffer, HeaderSize
  <2>4. Received'  BY <1>1, <1>3, <1>4, <2>2 DEF Collect, Received
  <2> QED  BY <1>1, <1>2, <1>3, <1>4, <2>2, <2>3, <2>4 DEF Collect, MemoryInv
<1>5. ASSUME TakeHeader(n), recv_bytes + n = 2  PROVE MemoryInv'
  <2>1. Filled(n)[1] \in Byte /\ Filled(n)[2] \in Byte  BY <1>3, <1>5
  <2> DEFINE size == SizeOf(Filled(n)[1], Filled(n)[2])
  <2>2. size \in 0 .. Width - 1  BY <2>1, SizeRange
  <2>3. body_size' = size /\ recv_bytes' = 0 /\ Grow(n, size) /\ told' = told
    BY <1>5 DEF TakeHeader
  <2> HIDE DEF size
  <2>4. /\ buf_size' \in Nat /\ buf_size' >= buf_size /\ buf_size' >= size
        /\ recv_buf' \in [1 .. buf_size' -> Byte \cup {Junk}]
    <3>1. CASE size > buf_size
      BY <1>1, <2>2, <2>3, <3>1 DEF Grow, Fresh
    <3>2. CASE ~(size > buf_size)
      BY <1>1, <1>3, <2>2, <2>3, <3>2 DEF Grow
    <3> QED  BY <3>1, <3>2
  <2>5. RoomInBuffer'  BY <1>1, <2>2, <2>3, <2>4 DEF RoomInBuffer, Room, HeaderSize
  <2>6. Received'  BY <2>3 DEF Received
  <2> QED  BY <1>1, <1>2, <2>2, <2>3, <2>4, <2>5, <2>6 DEF MemoryInv, HeaderSize
<1>6. ASSUME TakeContent(n), recv_bytes + n = body_size  PROVE MemoryInv'
  <2>1. /\ told' = SubSeq(Filled(n), 1, body_size) /\ recv_bytes' = 0 /\ body_size' = 0
        /\ recv_buf' = Filled(n) /\ buf_size' = buf_size
    BY <1>6 DEF TakeContent
  <2>2. told' \in Seq(Byte)
    <3>1. told' = [i \in 1 .. body_size |-> Filled(n)[i]]
      BY <1>1, <2>1
    <3>2. \A i \in 1 .. body_size : Filled(n)[i] \in Byte  BY <1>3, <1>6
    <3> QED  BY <1>1, <3>1, <3>2
  <2>3. RoomInBuffer' /\ Received'
    BY <1>1, <2>1 DEF RoomInBuffer, Room, HeaderSize, Received
  <2> QED  BY <1>1, <1>2, <1>3, <2>1, <2>2, <2>3 DEF MemoryInv, HeaderSize
<1>7. CASE body_size = 0
  <2>1. Room = 2 - recv_bytes  BY <1>7 DEF Room, HeaderSize
  <2>2. CASE recv_bytes + n = 2  BY <1>5, <1>7, <2>2 DEF Read, HeaderSize
  <2>3. CASE recv_bytes + n # 2
    BY <1>1, <1>4, <1>7, <2>1, <2>3 DEF Read, HeaderSize
  <2> QED  BY <2>2, <2>3
<1>8. CASE body_size # 0
  <2>1. Room = body_size - recv_bytes  BY <1>8 DEF Room
  <2>2. CASE recv_bytes + n = body_size  BY <1>6, <1>8, <2>2 DEF Read
  <2>3. CASE recv_bytes + n # body_size
    BY <1>1, <1>4, <1>8, <2>1, <2>3 DEF Read
  <2> QED  BY <2>2, <2>3
<1> QED  BY <1>7, <1>8

-----------------------------------------------------------------------------
\* The invariant is inductive.
THEOREM MemoryInvariance == Spec => []MemoryInv
<1>1. MemoryInv /\ [Next]_vars => MemoryInv'
  <2> SUFFICES ASSUME MemoryInv, [Next]_vars PROVE MemoryInv'  OBVIOUS
  <2>1. CASE \E p \in Packets : Write(p)  BY <2>1, WriteMemory
  <2>2. CASE \E n \in 1 .. Len(wire) : Read(n)  BY <2>2, ReadMemory
  <2>3. CASE UNCHANGED vars
    BY <2>3 DEF vars, MemoryInv, RoomInBuffer, Room, Received
  <2> QED  BY <2>1, <2>2, <2>3 DEF Next
<1> QED  BY InitMemory, <1>1, PTL DEF Spec

\* on_session_alloc never gives libuv room outside recv_buf, nor none.
THEOREM RoomStaysInBuffer == Spec => []RoomInBuffer
<1>1. MemoryInv => RoomInBuffer  BY DEF MemoryInv
<1> QED  BY <1>1, MemoryInvariance, PTL

\* The script is only ever given bytes that were received.
THEOREM NoJunkTold == Spec => [](told \in Seq(Byte))
<1>1. MemoryInv => told \in Seq(Byte)  BY DEF MemoryInv
<1> QED  BY <1>1, MemoryInvariance, PTL

\* The variables of the codec keep their ranges: no sum of sizes leaves uint16_t, and
\* buf_size is the size of the memory.
THEOREM CodecTypeCorrect == Spec => []TypeOK
<1>1. MemoryInv => TypeOK
  <2> SUFFICES ASSUME MemoryInv PROVE TypeOK
    OBVIOUS
  <2>1. Width \in Nat /\ Width >= HeaderSize
    <3>1. Base \in Nat /\ Base > 1
      BY CodecAssumption
    <3>2. Base * Base >= 2 * Base
      BY <3>1
    <3> QED
      BY <3>1, <3>2 DEF Width, HeaderSize
  <2>2. recv_bytes < Width
    BY <2>1 DEF MemoryInv, RoomInBuffer, Room, HeaderSize
  <2> HIDE DEF Width
  <2> QED
    BY <2>1, <2>2 DEF MemoryInv, TypeOK
<1> QED
  BY <1>1, MemoryInvariance, PTL

-----------------------------------------------------------------------------
(* The stream invariant: StreamKept *)

\* The sizes that a header says are those that were put in it.
LEMMA HeaderOfSize ==
    ASSUME NEW hi \in Byte, NEW lo \in Byte  PROVE Header(SizeOf(hi, lo)) = <<hi, lo>>
<1>1. Base \in Nat /\ Base > 1 /\ hi \in Nat /\ lo \in Nat /\ lo < Base  BY CodecAssumption DEF Byte
<1>2. (hi * Base + lo) \div Base = hi /\ (hi * Base + lo) % Base = lo
  BY <1>1
<1> QED  BY <1>2 DEF Header, SizeOf

\* ntohs undoes htons on every size.
LEMMA SizeOfHeader ==
    ASSUME NEW n \in 0 .. Width - 1  PROVE SizeOf(Header(n)[1], Header(n)[2]) = n
<1>1. Base \in Nat /\ Base > 1 /\ n \in Nat  BY CodecAssumption
<1>2. (n \div Base) * Base + (n % Base) = n  BY <1>1
<1> QED  BY <1>2 DEF Header, SizeOf

\* The packets under way, as they are put on the wire.
Encoded(ps) == [i \in DOMAIN ps |-> Encode(ps[i])]

\* With the memory, the stream: what is under way is what was sent.
StreamInv == MemoryInv /\ queue \in Seq(Packets) /\ StreamKept

\* A packet on the wire is bytes, the first two of them its size.
LEMMA PacketsEncoded ==
    ASSUME NEW p \in Packets
    PROVE  /\ p \in Seq(Byte) /\ Len(p) \in 0 .. Width - 1
           /\ Header(Len(p)) \in Seq(Byte) /\ Len(Header(Len(p))) = 2
           /\ Encode(p) \in Seq(Byte)
<1>1. p \in Seq(Byte) /\ Len(p) < Width  BY CodecAssumption
<1>2. Len(p) \in Nat /\ Width \in Nat  BY <1>1, CodecAssumption DEF Width
<1> HIDE DEF Width
<1>3. Len(p) \in 0 .. Width - 1  BY <1>1, <1>2
<1>4. Header(Len(p)) \in Seq(Byte) /\ Len(Header(Len(p))) = 2  BY <1>3, HeaderRange DEF Header
<1> QED  BY <1>1, <1>3, <1>4 DEF Encode

\* The packets under way are bytes.
LEMMA EncodedSeq ==
    ASSUME NEW ps \in Seq(Packets)
    PROVE  /\ Encoded(ps) \in Seq(Seq(Byte)) /\ Len(Encoded(ps)) = Len(ps)
           /\ FlattenSeq(Encoded(ps)) \in Seq(Byte)
<1>1. DOMAIN ps = 1 .. Len(ps) /\ Len(ps) \in Nat  OBVIOUS
<1>2. \A i \in 1 .. Len(ps) : Encode(ps[i]) \in Seq(Byte)  BY PacketsEncoded
<1>3. Encoded(ps) \in Seq(Seq(Byte)) /\ Len(Encoded(ps)) = Len(ps)  BY <1>1, <1>2 DEF Encoded
<1> QED  BY <1>3, FlattenType

\* A packet sent is encoded behind the others.
LEMMA EncodedAppend ==
    ASSUME NEW ps \in Seq(Packets), NEW p \in Packets
    PROVE  FlattenSeq(Encoded(Append(ps, p))) = FlattenSeq(Encoded(ps)) \o Encode(p)
<1> DEFINE n == Len(ps)
           qs == Append(ps, p)
<1>1. /\ n \in Nat /\ DOMAIN ps = 1 .. n /\ DOMAIN qs = 1 .. n + 1
      /\ \A i \in 1 .. n : qs[i] = ps[i]
      /\ qs[n + 1] = p /\ qs \in Seq(Packets) /\ Len(qs) = n + 1
  BY AppendProperties
<1>2. /\ Encoded(ps) \in Seq(Seq(Byte)) /\ Len(Encoded(ps)) = n
      /\ Encoded(qs) \in Seq(Seq(Byte)) /\ Len(Encoded(qs)) = n + 1
  BY <1>1, EncodedSeq
<1>3. Encode(p) \in Seq(Byte)  BY PacketsEncoded
<1> HIDE DEF n, qs
<1>4. /\ Append(Encoded(ps), Encode(p)) \in Seq(Seq(Byte))
      /\ Len(Append(Encoded(ps), Encode(p))) = n + 1
      /\ \A i \in 1 .. n : Append(Encoded(ps), Encode(p))[i] = Encoded(ps)[i]
      /\ Append(Encoded(ps), Encode(p))[n + 1] = Encode(p)
  BY <1>2, <1>3, AppendProperties
<1>5. ASSUME NEW i \in 1 .. n + 1  PROVE Encoded(qs)[i] = Append(Encoded(ps), Encode(p))[i]
  <2>1. Encoded(qs)[i] = Encode(qs[i])  BY <1>1 DEF Encoded
  <2>2. CASE i \in 1 .. n
    <3>1. Encoded(ps)[i] = Encode(ps[i])  BY <1>1, <2>2 DEF Encoded
    <3> QED  BY <1>1, <1>4, <2>1, <2>2, <3>1
  <2>3. CASE i = n + 1  BY <1>1, <1>4, <2>1, <2>3
  <2>4. i \in 1 .. n \/ i = n + 1  BY <1>1
  <2> QED  BY <2>2, <2>3, <2>4
<1>6. Encoded(qs) = Append(Encoded(ps), Encode(p))
  BY <1>2, <1>4, <1>5, SeqEqual
<1>7. FlattenSeq(Append(Encoded(ps), Encode(p))) = FlattenSeq(Encoded(ps)) \o Encode(p)
  BY <1>2, <1>3, FlattenAppend
<1> QED  BY <1>6, <1>7 DEF qs

\* The first packet under way is encoded before the others.
LEMMA EncodedTail ==
    ASSUME NEW ps \in Seq(Packets), ps # <<>>
    PROVE  /\ Head(ps) \in Packets /\ Tail(ps) \in Seq(Packets)
           /\ FlattenSeq(Encoded(ps)) = Encode(Head(ps)) \o FlattenSeq(Encoded(Tail(ps)))
<1> DEFINE n == Len(ps)
           qs == Tail(ps)
<1>1. /\ n \in Nat /\ n # 0 /\ DOMAIN ps = 1 .. n /\ DOMAIN qs = 1 .. n - 1
      /\ \A i \in 1 .. n - 1 : qs[i] = ps[i + 1]
      /\ qs \in Seq(Packets) /\ Head(ps) = ps[1] /\ Head(ps) \in Packets
  BY HeadTailProperties
<1>9. Len(qs) = n - 1  BY <1>1, SMTT(40)
<1> HIDE DEF qs
<1>2. /\ Encoded(ps) \in Seq(Seq(Byte)) /\ Len(Encoded(ps)) = n
      /\ Encoded(qs) \in Seq(Seq(Byte)) /\ Len(Encoded(qs)) = n - 1
  BY <1>1, <1>9, EncodedSeq
<1> HIDE DEF n
<1>3. Encoded(ps) # <<>>  BY <1>1, <1>2
<1>4. /\ Head(Encoded(ps)) = Encoded(ps)[1]
      /\ Tail(Encoded(ps)) \in Seq(Seq(Byte)) /\ Len(Tail(Encoded(ps))) = n - 1
      /\ \A i \in 1 .. n - 1 : Tail(Encoded(ps))[i] = Encoded(ps)[i + 1]
  BY <1>2, <1>3, HeadTailProperties
<1>5. Head(Encoded(ps)) = Encode(Head(ps))  BY <1>1, <1>4 DEF Encoded
<1>6. ASSUME NEW i \in 1 .. n - 1  PROVE Tail(Encoded(ps))[i] = Encoded(qs)[i]
  <2>1. i + 1 \in 1 .. n  BY <1>1
  <2>2. Encoded(ps)[i + 1] = Encode(ps[i + 1]) /\ Encoded(qs)[i] = Encode(qs[i])
    BY <1>1, <2>1 DEF Encoded
  <2> QED  BY <1>1, <1>4, <2>2
<1>7. Tail(Encoded(ps)) = Encoded(qs)  BY <1>2, <1>4, <1>6, SeqEqual
<1>8. FlattenSeq(Encoded(ps)) = Head(Encoded(ps)) \o FlattenSeq(Tail(Encoded(ps)))
  BY <1>2, <1>3, FlattenHead
<1> QED  BY <1>1, <1>5, <1>7, <1>8 DEF qs

\* StreamKept in terms of Encoded.
LEMMA StreamNow == StreamKept <=> Collected \o wire = FlattenSeq(Encoded(queue))
  BY DEF StreamKept, Encoded

\* Reading moves bytes from the front of the wire to the end of what is there.
LEMMA FilledStream ==
    ASSUME MemoryInv, NEW n \in 1 .. Len(wire), n <= Room
    PROVE  LET old   == SubSeq(recv_buf, 1, recv_bytes)
               front == SubSeq(Filled(n), 1, recv_bytes + n)
               rest  == SubSeq(wire, n + 1, Len(wire))
           IN  /\ old \in Seq(Byte)
               /\ front \in Seq(Byte) /\ Len(front) = recv_bytes + n
               /\ \A i \in 1 .. recv_bytes + n : front[i] = Filled(n)[i]
               /\ rest \in Seq(Byte)
               /\ front \o rest = old \o wire
<1> DEFINE r == recv_bytes
           L == Len(wire)
           old == SubSeq(recv_buf, 1, r)
           front == SubSeq(Filled(n), 1, r + n)
           rest == SubSeq(wire, n + 1, L)
<1>1. /\ r \in Nat /\ L \in Nat /\ n \in Nat /\ n <= L /\ n >= 1 /\ buf_size \in Nat
      /\ wire \in Seq(Byte) /\ recv_buf \in [1 .. buf_size -> Byte \cup {Junk}]
      /\ \A i \in 1 .. r : recv_buf[i] \in Byte
  BY DEF MemoryInv, Received
<1>2. /\ Filled(n) \in [1 .. buf_size -> Byte \cup {Junk}]
      /\ r + n <= buf_size
      /\ \A i \in 1 .. r + n : Filled(n)[i] \in Byte
  BY FilledBytes
<1>3. \A i \in 1 .. r + n : Filled(n)[i] = IF i > r THEN wire[i - r] ELSE recv_buf[i]
  BY <1>1, <1>2 DEF Filled
<1>4. old = [i \in 1 .. r |-> recv_buf[i]]  BY <1>1, <1>2
<1>5. front = [i \in 1 .. r + n |-> Filled(n)[i]]  BY <1>1, <1>2
<1>6. rest = [i \in 1 .. L - n |-> wire[n + i]]
  <2>1. rest = [i \in 1 .. L - (n + 1) + 1 |-> wire[(n + 1) + i - 1]]  BY <1>1
  <2>2. L - (n + 1) + 1 = L - n /\ \A i \in 1 .. L - n : (n + 1) + i - 1 = n + i  BY <1>1
  <2> HIDE DEF rest
  <2> QED  BY <2>1, <2>2
<1> HIDE DEF old, front, rest
<1>7. old \in Seq(Byte) /\ Len(old) = r  BY <1>1, <1>4
<1>8. /\ front \in Seq(Byte) /\ Len(front) = r + n
      /\ \A i \in 1 .. r + n : front[i] = Filled(n)[i]
  BY <1>1, <1>2, <1>5
<1>9. rest \in Seq(Byte) /\ Len(rest) = L - n /\ \A i \in 1 .. L - n : rest[i] = wire[n + i]
  <2>1. \A i \in 1 .. L - n : wire[n + i] \in Byte  BY <1>1
  <2>2. L - n \in Nat  BY <1>1
  <2> QED  BY <1>6, <2>1, <2>2
<1> HIDE DEF r, L
<1>10. /\ front \o rest \in Seq(Byte) /\ Len(front \o rest) = r + L
       /\ \A i \in 1 .. r + L : (front \o rest)[i] = IF i <= r + n THEN front[i]
                                                                  ELSE rest[i - (r + n)]
  <2>1. (r + n) + (L - n) = r + L  BY <1>1
  <2>2. /\ front \o rest \in Seq(Byte) /\ Len(front \o rest) = Len(front) + Len(rest)
        /\ \A i \in 1 .. Len(front) + Len(rest) :
              (front \o rest)[i] = IF i <= Len(front) THEN front[i] ELSE rest[i - Len(front)]
    BY <1>8, <1>9, ConcatProperties
  <2>3. Len(front) = r + n /\ Len(front) + Len(rest) = r + L  BY <1>8, <1>9, <2>1
  <2> QED  BY <2>2, <2>3
<1>11. /\ old \o wire \in Seq(Byte) /\ Len(old \o wire) = r + L
       /\ \A i \in 1 .. r + L : (old \o wire)[i] = IF i <= r THEN old[i] ELSE wire[i - r]
  BY <1>1, <1>7, ConcatProperties DEF L
<1>12. ASSUME NEW i \in 1 .. r + L  PROVE (front \o rest)[i] = (old \o wire)[i]
  <2>1. CASE i <= r
    <3>1. i \in 1 .. r /\ i \in 1 .. r + n /\ i <= r + n /\ ~(i > r)  BY <1>1, <2>1
    <3>2. (front \o rest)[i] = recv_buf[i]  BY <1>3, <1>8, <1>10, <3>1
    <3>3. old[i] = recv_buf[i]  BY <1>4, <3>1
    <3>4. (old \o wire)[i] = old[i]  BY <1>11, <2>1
    <3> QED  BY <3>2, <3>3, <3>4
  <2>2. CASE i > r /\ i <= r + n
    <3>1. i \in 1 .. r + n /\ ~(i <= r)  BY <1>1, <2>2
    <3>2. (front \o rest)[i] = wire[i - r]  BY <1>3, <1>8, <1>10, <2>2, <3>1
    <3>3. (old \o wire)[i] = wire[i - r]  BY <1>11, <3>1
    <3> QED  BY <3>2, <3>3
  <2>3. CASE i > r + n
    <3>1. /\ ~(i <= r + n) /\ ~(i <= r) /\ i - (r + n) \in 1 .. L - n
          /\ n + (i - (r + n)) = i - r
      BY <1>1, <2>3
    <3>2. (front \o rest)[i] = wire[i - r]  BY <1>9, <1>10, <3>1
    <3>3. (old \o wire)[i] = wire[i - r]  BY <1>11, <3>1
    <3> QED  BY <3>2, <3>3
  <2>4. i <= r \/ (i > r /\ i <= r + n) \/ i > r + n  BY <1>1
  <2> QED  BY <2>1, <2>2, <2>3, <2>4
<1>13. front \o rest = old \o wire  BY <1>10, <1>11, <1>12, SeqEqual
<1> QED  BY <1>7, <1>8, <1>9, <1>13 DEF old, front, rest, r, L

\* An empty connection.
LEMMA InitStream == Init => StreamInv
<1> SUFFICES ASSUME Init PROVE StreamInv  OBVIOUS
<1>1. MemoryInv  BY InitMemory
<1>2. queue = <<>> /\ queue \in Seq(Packets)  BY DEF Init
<1>3. Encoded(queue) = <<>>  BY <1>2 DEF Encoded
<1>4. Collected \o wire = <<>>
  <2>1. SubSeq(recv_buf, 1, recv_bytes) = <<>> /\ wire = <<>> /\ body_size = 0  BY DEF Init, Fresh
  <2> QED  BY <2>1 DEF Collected
<1> QED  BY <1>1, <1>2, <1>3, <1>4, StreamNow, FlattenEmpty DEF StreamInv

\* What has been collected is bytes.
LEMMA CollectedBytes ==
    ASSUME MemoryInv
    PROVE  /\ SubSeq(recv_buf, 1, recv_bytes) \in Seq(Byte)
           /\ Header(body_size) \in Seq(Byte) /\ Len(Header(body_size)) = 2
           /\ Collected \in Seq(Byte)
<1>1. recv_bytes \in Nat /\ \A i \in 1 .. recv_bytes : recv_buf[i] \in Byte
  BY DEF MemoryInv, Received
<1>2. SubSeq(recv_buf, 1, recv_bytes) = [i \in 1 .. recv_bytes |-> recv_buf[i]]  BY <1>1
<1>3. SubSeq(recv_buf, 1, recv_bytes) \in Seq(Byte)  BY <1>1, <1>2
<1>4. Header(body_size) \in Seq(Byte) /\ Len(Header(body_size)) = 2
  BY HeaderRange DEF MemoryInv, Header
<1> QED  BY <1>3, <1>4 DEF Collected

\* A packet is sent behind the others.
LEMMA WriteStream ==
    ASSUME StreamInv, NEW p \in Packets, Write(p)
    PROVE  queue' \in Seq(Packets) /\ StreamKept'
<1>1. queue' = Append(queue, p) /\ wire' = wire \o Encode(p) /\ Collected' = Collected
  BY DEF Write, Collected
<1>2. queue \in Seq(Packets) /\ queue' \in Seq(Packets)  BY <1>1 DEF StreamInv
<1>3. Collected \in Seq(Byte) /\ wire \in Seq(Byte) /\ Encode(p) \in Seq(Byte)
  BY CollectedBytes, PacketsEncoded DEF StreamInv, MemoryInv
<1>4. Collected \o (wire \o Encode(p)) = (Collected \o wire) \o Encode(p)
  BY ONLY <1>3, Associative, SMTT(40)
<1>5. FlattenSeq(Encoded(queue')) = FlattenSeq(Encoded(queue)) \o Encode(p)
  BY <1>1, <1>2, EncodedAppend
<1>6. Collected \o wire = FlattenSeq(Encoded(queue))  BY StreamNow DEF StreamInv
<1>7. Collected' \o wire' = FlattenSeq(Encoded(queue'))  BY <1>1, <1>4, <1>5, <1>6
<1> QED  BY <1>2, <1>7 DEF StreamKept, Encoded

\* Bytes are collected, and no packet is complete.
LEMMA CollectStream ==
    ASSUME StreamInv, NEW n \in 1 .. Len(wire), Read(n), recv_bytes' = recv_bytes + n, Collect(n)
    PROVE  StreamKept'
<1> DEFINE old == SubSeq(recv_buf, 1, recv_bytes)
           front == SubSeq(Filled(n), 1, recv_bytes + n)
           rest == SubSeq(wire, n + 1, Len(wire))
           head == Header(body_size)
<1>1. /\ old \in Seq(Byte) /\ front \in Seq(Byte) /\ rest \in Seq(Byte) /\ head \in Seq(Byte)
      /\ wire \in Seq(Byte)
      /\ front \o rest = old \o wire
  BY FilledStream, CollectedBytes DEF StreamInv, Read, MemoryInv
<1>2. /\ wire' = rest /\ queue' = queue
      /\ Collected = IF body_size = 0 THEN old ELSE head \o old
      /\ Collected' = IF body_size = 0 THEN front ELSE head \o front
  BY DEF Read, Collect, Collected
<1>3. Collected \o wire = FlattenSeq(Encoded(queue))  BY StreamNow DEF StreamInv
<1> HIDE DEF old, front, rest, head
<1>0. /\ old \in Seq(Byte) /\ front \in Seq(Byte) /\ rest \in Seq(Byte) /\ head \in Seq(Byte)
      /\ wire \in Seq(Byte)
  BY <1>1
<1>4. (head \o front) \o rest = head \o (front \o rest)
  <2>1. head \in Seq(Byte) /\ front \in Seq(Byte) /\ rest \in Seq(Byte)  BY <1>0
  <2> QED  BY ONLY <2>1, Associative, SMTT(40)
<1>5. (head \o old) \o wire = head \o (old \o wire)
  <2>1. head \in Seq(Byte) /\ old \in Seq(Byte) /\ wire \in Seq(Byte)  BY <1>0
  <2> QED  BY ONLY <2>1, Associative, SMTT(40)
<1>6. Collected' \o wire' = Collected \o wire
  <2>1. CASE body_size = 0  BY <1>1, <1>2, <2>1
  <2>2. CASE body_size # 0  BY <1>1, <1>2, <1>4, <1>5, <2>2
  <2> QED  BY <2>1, <2>2
<1>7. Collected' \o wire' = FlattenSeq(Encoded(queue'))  BY <1>2, <1>3, <1>6
<1> QED  BY <1>7 DEF StreamKept, Encoded

\* When something is under way a packet is, and its bytes come first.
LEMMA FirstPacket ==
    ASSUME StreamInv, NEW a \in Seq(Byte), NEW b \in Seq(Byte),
           Collected \o wire = a \o b, Len(a) # 0
    PROVE  /\ queue # <<>> /\ Head(queue) \in Packets /\ Tail(queue) \in Seq(Packets)
           /\ FlattenSeq(Encoded(Tail(queue))) \in Seq(Byte)
           /\ a \o b = Header(Len(Head(queue)))
                           \o (Head(queue) \o FlattenSeq(Encoded(Tail(queue))))
<1>1. a \o b = FlattenSeq(Encoded(queue)) /\ queue \in Seq(Packets)
  BY StreamNow DEF StreamInv
<1>2. Len(a \o b) = Len(a) + Len(b) /\ Len(a) \in Nat /\ Len(b) \in Nat  BY ConcatProperties
<1>3. queue # <<>>
  <2> SUFFICES ASSUME queue = <<>>  PROVE FALSE  OBVIOUS
  <2>1. Encoded(queue) = <<>>  BY DEF Encoded
  <2>2. a \o b = <<>>  BY <1>1, <2>1, FlattenEmpty
  <2>3. Len(a \o b) = 0  BY <2>2
  <2> QED  BY <1>2, <2>3
<1> DEFINE p == Head(queue)
           q == FlattenSeq(Encoded(Tail(queue)))
           h == Header(Len(p))
<1>4. p \in Packets /\ Tail(queue) \in Seq(Packets) /\ a \o b = Encode(p) \o q
  BY <1>1, <1>3, EncodedTail
<1>5. p \in Seq(Byte) /\ h \in Seq(Byte)  BY <1>4, PacketsEncoded
<1>6. q \in Seq(Byte)  BY <1>4, EncodedSeq
<1>7. Encode(p) = h \o p  BY DEF Encode
<1> HIDE DEF p, q, h
<1>8. (h \o p) \o q = h \o (p \o q)  BY ONLY <1>5, <1>6, Associative, SMTT(40)
<1> QED  BY <1>3, <1>4, <1>6, <1>7, <1>8 DEF p, q, h

\* A header is complete: it is that of the first packet, and when that is empty it is
\* the whole of it.
LEMMA HeaderStream ==
    ASSUME StreamInv, NEW n \in 1 .. Len(wire), Read(n),
           body_size = 0, recv_bytes + n = 2, TakeHeader(n)
    PROVE  /\ queue' \in Seq(Packets) /\ StreamKept' /\ told' = told
           /\ \/ queue' = queue
              \/ queue # <<>> /\ Head(queue) = <<>> /\ queue' = Tail(queue)
<1> DEFINE old == SubSeq(recv_buf, 1, recv_bytes)
           front == SubSeq(Filled(n), 1, recv_bytes + n)
           rest == SubSeq(wire, n + 1, Len(wire))
           size == SizeOf(Filled(n)[1], Filled(n)[2])
<1>1. /\ old \in Seq(Byte) /\ front \in Seq(Byte) /\ rest \in Seq(Byte)
      /\ Len(front) = 2 /\ front[1] = Filled(n)[1] /\ front[2] = Filled(n)[2]
      /\ front \o rest = old \o wire
  <2>1. n <= Room /\ MemoryInv  BY DEF Read, StreamInv
  <2>2. /\ old \in Seq(Byte) /\ front \in Seq(Byte) /\ rest \in Seq(Byte)
        /\ Len(front) = recv_bytes + n /\ front \o rest = old \o wire
        /\ \A i \in 1 .. recv_bytes + n : front[i] = Filled(n)[i]
    BY <2>1, FilledStream
  <2>3. 1 \in 1 .. recv_bytes + n /\ 2 \in 1 .. recv_bytes + n  OBVIOUS
  <2> HIDE DEF front
  <2> QED  BY <2>2, <2>3
<1>2. /\ wire' = rest /\ told' = told /\ recv_bytes' = 0 /\ body_size' = size
      /\ queue' = IF size = 0 THEN Tail(queue) ELSE queue
      /\ Collected = old
  BY DEF Read, TakeHeader, Collected
<1>3. Collected' = IF size = 0 THEN <<>> ELSE Header(size)
  <2>1. SubSeq(recv_buf', 1, 0) = <<>>  BY SubSeqEmpty
  <2>2. \A s : Header(s) \o <<>> = Header(s)  BY DEF Header
  <2> QED  BY <1>2, <2>1, <2>2 DEF Collected
<1>4. front[1] \in Byte /\ front[2] \in Byte  BY <1>1
<1> HIDE DEF old, rest
<1>5. Header(size) = front
  <2>1. Header(size) = <<front[1], front[2]>>  BY <1>1, <1>4, HeaderOfSize
  <2> HIDE DEF front
  <2>2. <<front[1], front[2]>> = front  BY <1>1
  <2> QED  BY <2>1, <2>2
<1>6. Collected \o wire = front \o rest  BY <1>1, <1>2
<1> HIDE DEF front, size
<1>7. CASE size # 0
  <2>1. Collected' \o wire' = Collected \o wire /\ queue' = queue  BY <1>2, <1>3, <1>5, <1>6, <1>7
  <2>2. Collected' \o wire' = FlattenSeq(Encoded(queue'))  BY <2>1, StreamNow DEF StreamInv
  <2> QED  BY <1>2, <2>1, <2>2 DEF StreamKept, Encoded, StreamInv
<1>8. CASE size = 0
  <2> DEFINE p == Head(queue)
             q == FlattenSeq(Encoded(Tail(queue)))
  <2>1. /\ queue # <<>> /\ p \in Packets /\ Tail(queue) \in Seq(Packets) /\ q \in Seq(Byte)
        /\ front \o rest = Header(Len(p)) \o (p \o q)
    <3>1. Len(front) # 0  BY <1>1
    <3> QED  BY ONLY StreamInv, <1>1, <1>6, <3>1, FirstPacket, Zenon
  <2>2. /\ p \in Seq(Byte) /\ Len(p) \in 0 .. Width - 1
        /\ Header(Len(p)) \in Seq(Byte) /\ Len(Header(Len(p))) = 2
    BY <2>1, PacketsEncoded
  <2> HIDE DEF p, q
  <2>3. p \o q \in Seq(Byte)  BY <2>1, <2>2
  <2>4. front = Header(Len(p)) /\ rest = p \o q  BY <1>1, <2>1, <2>2, <2>3, SameCut
  <2>5. size = Len(p)
    <3>1. SizeOf(Header(Len(p))[1], Header(Len(p))[2]) = Len(p)  BY <2>2, SizeOfHeader
    <3> QED  BY <1>1, <2>4, <3>1 DEF size
  <2>6. p = <<>>  BY <1>8, <2>2, <2>5
  <2>7. rest = q  BY <2>1, <2>4, <2>6, ConcatEmptySeq
  <2>8. Collected' \o wire' = q  BY <1>1, <1>2, <1>3, <1>8, <2>7, ConcatEmptySeq
  <2>9. queue' = Tail(queue)  BY <1>2, <1>8
  <2>10. Collected' \o wire' = FlattenSeq(Encoded(queue'))  BY <2>8, <2>9 DEF q
  <2> QED  BY <1>2, <2>1, <2>6, <2>9, <2>10 DEF StreamKept, Encoded, p
<1> QED  BY <1>7, <1>8

\* A content is complete: it is the first packet.
LEMMA ContentStream ==
    ASSUME StreamInv, NEW n \in 1 .. Len(wire), Read(n),
           body_size # 0, recv_bytes + n = body_size, TakeContent(n)
    PROVE  /\ queue' \in Seq(Packets) /\ StreamKept'
           /\ queue # <<>> /\ Head(queue) # <<>>
           /\ told' = Head(queue) /\ queue' = Tail(queue)
<1> DEFINE old == SubSeq(recv_buf, 1, recv_bytes)
           front == SubSeq(Filled(n), 1, recv_bytes + n)
           rest == SubSeq(wire, n + 1, Len(wire))
           head == Header(body_size)
           p == Head(queue)
           q == FlattenSeq(Encoded(Tail(queue)))
<1>1. /\ old \in Seq(Byte) /\ front \in Seq(Byte) /\ rest \in Seq(Byte) /\ wire \in Seq(Byte)
      /\ Len(front) = body_size
      /\ front \o rest = old \o wire
  <2>1. n <= Room /\ MemoryInv  BY DEF Read, StreamInv
  <2> QED  BY <2>1, FilledStream DEF MemoryInv
<1>2. /\ wire' = rest /\ told' = front /\ recv_bytes' = 0 /\ body_size' = 0
      /\ queue' = Tail(queue)
      /\ Collected = head \o old
  BY DEF Read, TakeContent, Collected
<1>3. head \in Seq(Byte) /\ Len(head) = 2 /\ body_size \in 0 .. Width - 1
  BY CollectedBytes DEF StreamInv, MemoryInv
<1>4. Collected' = <<>>
  <2>1. SubSeq(recv_buf', 1, 0) = <<>>  BY SubSeqEmpty
  <2> QED  BY <1>2, <2>1 DEF Collected
<1> HIDE DEF old, front, rest, head
<1>0. old \in Seq(Byte) /\ head \in Seq(Byte) /\ wire \in Seq(Byte)  BY <1>1, <1>3
<1>5. (head \o old) \o wire = head \o (old \o wire)  BY ONLY <1>0, Associative, SMTT(40)
<1>6. Collected \o wire = head \o (front \o rest)  BY <1>1, <1>2, <1>5
<1>7. front \o rest \in Seq(Byte)  BY <1>1
<1>8. /\ queue # <<>> /\ p \in Packets /\ Tail(queue) \in Seq(Packets) /\ q \in Seq(Byte)
      /\ head \o (front \o rest) = Header(Len(p)) \o (p \o q)
  <2>1. Len(head) # 0  BY <1>3
  <2> QED  BY ONLY StreamInv, <1>3, <1>6, <1>7, <2>1, FirstPacket, Zenon
<1>9. /\ p \in Seq(Byte) /\ Len(p) \in 0 .. Width - 1
      /\ Header(Len(p)) \in Seq(Byte) /\ Len(Header(Len(p))) = 2
  BY <1>8, PacketsEncoded
<1> HIDE DEF p, q
<1>10. p \o q \in Seq(Byte)  BY <1>8, <1>9
<1>11. head = Header(Len(p)) /\ front \o rest = p \o q
  BY <1>3, <1>7, <1>8, <1>9, <1>10, SameCut
<1>12. body_size = Len(p)
  <2>1. SizeOf(head[1], head[2]) = body_size  BY <1>3, SizeOfHeader DEF head
  <2>2. SizeOf(Header(Len(p))[1], Header(Len(p))[2]) = Len(p)  BY <1>9, SizeOfHeader
  <2> QED  BY <1>11, <2>1, <2>2
<1>13. front = p /\ rest = q  BY <1>1, <1>8, <1>9, <1>11, <1>12, SameCut
<1>14. p # <<>>  BY <1>9, <1>12
<1>15. Collected' \o wire' = q  BY <1>2, <1>4, <1>8, <1>13, ConcatEmptySeq
<1>16. Collected' \o wire' = FlattenSeq(Encoded(queue'))  BY <1>2, <1>15 DEF q
<1> QED  BY <1>2, <1>8, <1>13, <1>14, <1>16 DEF StreamKept, Encoded, p

\* What a call of on_session_read does to the stream: nothing, or the next packet has
\* gone to the script, or an empty one has been passed over.
LEMMA ReadStream ==
    ASSUME StreamInv, NEW n \in 1 .. Len(wire), Read(n)
    PROVE  /\ queue' \in Seq(Packets) /\ StreamKept'
           /\ \/ UNCHANGED <<queue, told>>
              \/ Stream!Deliver
              \/ Stream!PassOver
<1>1. /\ n \in Nat /\ n <= Room /\ recv_bytes \in Nat /\ body_size \in 0 .. Width - 1
      /\ Width \in Nat /\ Width >= 4 /\ queue \in Seq(Packets)
  <2>1. Base \in Nat /\ Base >= 2  BY CodecAssumption
  <2>2. Width \in Nat /\ Width >= 4
    <3>1. Base * Base >= 2 * Base  BY <2>1
    <3> QED  BY <2>1, <3>1 DEF Width
  <2> QED  BY <2>2 DEF Read, StreamInv, MemoryInv
<1> HIDE DEF Width
<1>2. CASE Collect(n) /\ recv_bytes + n <= Width - 1
  <2>1. recv_bytes' = recv_bytes + n  BY <1>1, <1>2, NoWrap, SMTT(40) DEF Collect
  <2>2. StreamKept'  BY ONLY StreamInv, n \in 1 .. Len(wire), Read(n), <1>2, <2>1, CollectStream, Zenon
  <2> QED  BY <1>1, <1>2, <2>2 DEF Collect
<1>3. CASE body_size = 0 /\ recv_bytes + n = 2 /\ TakeHeader(n)
  <2>1. /\ queue' \in Seq(Packets) /\ StreamKept' /\ told' = told
        /\ \/ queue' = queue
           \/ queue # <<>> /\ Head(queue) = <<>> /\ queue' = Tail(queue)
    BY ONLY StreamInv, n \in 1 .. Len(wire), Read(n), <1>3, HeaderStream, Zenon
  <2> QED  BY <2>1, Zenon DEF Stream!PassOver
<1>4. CASE body_size # 0 /\ recv_bytes + n = body_size /\ TakeContent(n)
  <2>1. /\ queue' \in Seq(Packets) /\ StreamKept'
        /\ queue # <<>> /\ Head(queue) # <<>>
        /\ told' = Head(queue) /\ queue' = Tail(queue)
    BY ONLY StreamInv, n \in 1 .. Len(wire), Read(n), <1>4, ContentStream, Zenon
  <2> QED  BY <2>1, Zenon DEF Stream!Deliver
<1>5. CASE body_size = 0
  <2>1. n <= 2 - recv_bytes  BY <1>1, <1>5 DEF Room, HeaderSize
  <2>2. CASE recv_bytes + n = 2  BY <1>3, <1>5, <2>2 DEF Read, HeaderSize
  <2>3. CASE recv_bytes + n # 2
    <3>1. recv_bytes + n <= Width - 1  BY <1>1, <2>1
    <3> QED  BY <1>2, <1>5, <2>3, <3>1 DEF Read, HeaderSize
  <2> QED  BY <2>2, <2>3
<1>6. CASE body_size # 0
  <2>1. n <= body_size - recv_bytes  BY <1>1, <1>6 DEF Room
  <2>2. CASE recv_bytes + n = body_size  BY <1>4, <1>6, <2>2 DEF Read
  <2>3. CASE recv_bytes + n # body_size
    <3>1. recv_bytes + n <= Width - 1  BY <1>1, <2>1
    <3> QED  BY <1>2, <1>6, <2>3, <3>1 DEF Read
  <2> QED  BY <2>2, <2>3
<1> QED  BY <1>5, <1>6

\* Every step keeps the stream, and is a step of the stream of packets or none.
LEMMA StreamStep ==
    ASSUME StreamInv, [Next]_vars
    PROVE  StreamInv' /\ [Stream!Next]_(Stream!vars)
<1>1. MemoryInv'
  <2>1. MemoryInv  BY DEF StreamInv
  <2>2. CASE \E p \in Packets : Write(p)  BY <2>1, <2>2, WriteMemory
  <2>3. CASE \E n \in 1 .. Len(wire) : Read(n)  BY <2>1, <2>3, ReadMemory
  <2>4. CASE UNCHANGED vars
    BY <2>1, <2>4 DEF vars, MemoryInv, RoomInBuffer, Room, Received
  <2> QED  BY <2>2, <2>3, <2>4 DEF Next
<1>2. ASSUME NEW p \in Packets, Write(p)
      PROVE  queue' \in Seq(Packets) /\ StreamKept' /\ [Stream!Next]_(Stream!vars)
  <2>1. queue' \in Seq(Packets) /\ StreamKept'  BY <1>2, WriteStream
  <2>2. Stream!Send(p)  BY <1>2 DEF Write, Stream!Send
  <2> QED  BY <2>1, <2>2 DEF Stream!Next
<1>3. ASSUME NEW n \in 1 .. Len(wire), Read(n)
      PROVE  queue' \in Seq(Packets) /\ StreamKept' /\ [Stream!Next]_(Stream!vars)
  <2>1. /\ queue' \in Seq(Packets) /\ StreamKept'
        /\ UNCHANGED <<queue, told>> \/ Stream!Deliver \/ Stream!PassOver
    BY <1>3, ReadStream
  <2> QED  BY <2>1 DEF Stream!Next, Stream!vars
<1>4. CASE UNCHANGED vars
  <2>1. UNCHANGED <<wire, queue, told, recv_buf, buf_size, recv_bytes, body_size>>
    BY <1>4 DEF vars
  <2>2. queue' \in Seq(Packets)  BY <2>1 DEF StreamInv
  <2>3. StreamKept'  BY <2>1 DEF StreamInv, StreamKept, Collected
  <2> QED  BY <1>1, <2>1, <2>2, <2>3 DEF StreamInv, Stream!vars
<1> QED  BY <1>1, <1>2, <1>3, <1>4 DEF Next, StreamInv

\* on_session_alloc and on_session_read lose, double and mix up nothing: what has been
\* collected and what is under way are together the packets under way.
THEOREM StreamIsKept == Spec => []StreamKept
<1>1. StreamInv => StreamKept  BY DEF StreamInv
<1>2. StreamInv /\ [Next]_vars => StreamInv'  BY StreamStep
<1> QED  BY InitStream, <1>1, <1>2, PTL DEF Spec

\* However the bytes of a connection are cut up, the script is given the client's packets
\* one by one, in order and unchanged, and only the empty ones are passed over.
THEOREM CodecImplementsPacketStream == Spec => ImplementsPacketStream
<1>1. Init => Stream!Init  BY DEF Init, Stream!Init
<1>2. StreamInv /\ [Next]_vars => StreamInv' /\ [Stream!Next]_(Stream!vars)  BY StreamStep
<1> QED  BY InitStream, <1>1, <1>2, PTL DEF Spec, ImplementsPacketStream, Stream!Spec
=============================================================================
