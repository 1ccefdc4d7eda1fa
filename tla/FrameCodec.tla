----------------------------- MODULE FrameCodec ------------------------------
(***************************************************************************)
(* The packets on a connection of the TCP server: do_session_write puts    *)
(* them on the wire, on_session_alloc and on_session_read put them         *)
(* together again (src/src/net/qsf_net_server.c).                          *)
(*                                                                         *)
(* A packet is a header of two bytes, its size in network order, and the   *)
(* content.  libuv asks on_session_alloc for memory, reads at most as many *)
(* bytes as it was given room for, and calls on_session_read.  The header  *)
(* is collected in the memory that will receive the content.               *)
(***************************************************************************)
EXTENDS Naturals, SequencesExt

CONSTANTS Base,         \* the number of values of a byte: 256
          DefaultSize,  \* DEFAULT_RECV_BUF_SIZE: 128
          Packets,      \* the contents a client may send
          MaxQueue,     \* bound: packets under way
          Junk          \* what malloc leaves in memory

Byte == 0 .. Base - 1
Width == Base * Base    \* uint16_t holds 0 .. Width - 1
HeaderSize == 2         \* sizeof(body_size)

ASSUME CodecAssumption ==
    /\ Base \in Nat /\ Base > 1
    /\ DefaultSize \in Nat /\ DefaultSize >= HeaderSize
    /\ Packets \subseteq {p \in Seq(Byte) : Len(p) < Width}
    /\ MaxQueue \in Nat
    /\ Junk \notin Byte

VARIABLES
    wire,        \* the bytes under way
    queue,       \* history: the packets of which bytes are under way
    told,        \* the packet the script was given last
    recv_buf,    \* the memory of the session, from its first byte
    buf_size,    \* its size
    recv_bytes,  \* how many bytes of the header or of the content are there
    body_size    \* the size of the content; 0 while the header is collected

vars == <<wire, queue, told, recv_buf, buf_size, recv_bytes, body_size>>

\* malloc: memory of any content.
Fresh(n) == [i \in 1 .. n |-> Junk]

\* session_create
Init == /\ wire = <<>>
        /\ queue = <<>>
        /\ told = <<>>
        /\ recv_buf = Fresh(DefaultSize)
        /\ buf_size = DefaultSize
        /\ recv_bytes = 0
        /\ body_size = 0

\* Mutant: the size is read in the order of the host.
SizeOfHost(hi, lo) == lo * Base + hi

\* htons and ntohs
Header(n) == <<n \div Base, n % Base>>
SizeOf(hi, lo) == hi * Base + lo

\* do_session_write: one buffer with the header before the content.
Encode(p) == Header(Len(p)) \o p

\* A client sends a packet.
Write(p) == /\ Len(queue) < MaxQueue
            /\ wire' = wire \o Encode(p)
            /\ queue' = Append(queue, p)
            /\ UNCHANGED <<told, recv_buf, buf_size, recv_bytes, body_size>>

\* Mutant: the last byte of the content is kept for a terminator.
RoomButOne == IF body_size = 0 THEN HeaderSize - recv_bytes
              ELSE IF body_size > recv_bytes THEN body_size - recv_bytes - 1 ELSE 0

\* on_session_alloc: room for the rest of the header or of the content, and no more.
Room == IF body_size = 0 THEN HeaderSize - recv_bytes ELSE body_size - recv_bytes

\* n bytes arrive in the room.
Filled(n) == [i \in DOMAIN recv_buf |->
                IF i \in recv_bytes + 1 .. recv_bytes + n THEN wire[i - recv_bytes]
                                                          ELSE recv_buf[i]]

\* The bytes do not complete what is being collected.
Collect(n) == /\ recv_bytes' = (recv_bytes + n) % Width
              /\ recv_buf' = Filled(n)
              /\ UNCHANGED <<queue, told, buf_size, body_size>>

\* Mutant: the memory is never extended.
GrowNever(n, size) == recv_buf' = Filled(n) /\ UNCHANGED buf_size

\* The memory is extended for a content larger than it; the header in it is done with.
Grow(n, size) == IF size > buf_size
                 THEN /\ recv_buf' = Fresh(size)
                      /\ buf_size' = size
                 ELSE /\ recv_buf' = Filled(n)
                      /\ UNCHANGED buf_size

\* The header is complete.  Of an empty packet nothing else follows.
TakeHeader(n) ==
    LET size == SizeOf(Filled(n)[1], Filled(n)[2])
    IN  /\ body_size' = size
        /\ recv_bytes' = 0
        /\ Grow(n, size)
        /\ queue' = IF size = 0 THEN Tail(queue) ELSE queue
        /\ UNCHANGED told

\* Mutant: the state of the last packet is kept.
TakeContentKeeping(n) ==
    /\ told' = SubSeq(Filled(n), 1, body_size)
    /\ recv_bytes' = 0
    /\ recv_buf' = Filled(n)
    /\ queue' = Tail(queue)
    /\ UNCHANGED <<buf_size, body_size>>

\* The content is complete: the script is called.
TakeContent(n) ==
    /\ told' = SubSeq(Filled(n), 1, body_size)
    /\ recv_bytes' = 0
    /\ body_size' = 0
    /\ recv_buf' = Filled(n)
    /\ queue' = Tail(queue)
    /\ UNCHANGED buf_size

\* on_session_read with n bytes.
Read(n) == /\ n <= Room /\ n <= Len(wire)
           /\ wire' = SubSeq(wire, n + 1, Len(wire))
           /\ IF body_size = 0
              THEN IF recv_bytes + n = HeaderSize THEN TakeHeader(n) ELSE Collect(n)
              ELSE IF recv_bytes + n = body_size THEN TakeContent(n) ELSE Collect(n)

Next == \/ \E p \in Packets : Write(p)
        \/ \E n \in 1 .. Len(wire) : Read(n)

\* The loop reads what has arrived.
Spec == Init /\ [][Next]_vars /\ WF_vars(\E n \in 1 .. Len(wire) : Read(n))

-----------------------------------------------------------------------------
\* Every variable of the program keeps its range, and buf_size says how large recv_buf
\* really is.
TypeOK ==
    /\ wire \in Seq(Byte)
    /\ told \in Seq(Byte)
    /\ buf_size \in Nat
    /\ recv_buf \in [1 .. buf_size -> Byte \cup {Junk}]
    /\ recv_bytes \in 0 .. Width - 1
    /\ body_size \in 0 .. Width - 1

\* libuv is never given room outside recv_buf, whatever the sizes in the headers
\* and however the bytes arrive; and never given none, which would end the session.
RoomInBuffer == Room > 0 /\ recv_bytes + Room <= buf_size

\* Nothing is lost, doubled or mixed up between packets: what has been collected
\* and what is under way are together the packets under way.
Collected == IF body_size = 0 THEN SubSeq(recv_buf, 1, recv_bytes)
             ELSE Header(body_size) \o SubSeq(recv_buf, 1, recv_bytes)
StreamKept ==
    Collected \o wire = FlattenSeq([i \in DOMAIN queue |-> Encode(queue[i])])

\* The codec implements the stream of packets.
Stream == INSTANCE PacketStream
ImplementsPacketStream == Stream!Spec

\* Every packet under way arrives: no header makes the session wait for more than was sent.
PacketsArrive == Stream!Fairness
=============================================================================
