----------------------------- MODULE ZmqSocket ------------------------------
(***************************************************************************)
(* ZeroMQ sockets in the hands of a script: creation, send, recv, close    *)
(* and collection in src/src/lualib/lua_zmq.c, here of two connected       *)
(* sockets, of which A sends to B.                                         *)
(*                                                                         *)
(* A frame is sent alone or with more to follow.  Empty is the frame       *)
(* without content.  libzmq delivers the frames of a message together.     *)
(***************************************************************************)
EXTENDS Naturals, SequencesExt

CONSTANTS A, B,
          Frames, Empty,
          Water,        \* the high-water mark, in messages
          MaxSent       \* how many frames a script sends

ASSUME SocketAssumption == A # B /\ Water \in Nat

VARIABLES
    udata,      \* the pointer in each userdata: "none", "open", "closed", "collected"
    closes,     \* how many times zmq_close was called on each socket
    wire,       \* the messages between the sockets, sequences of frames
    begun,      \* frames sent with more to follow
    rest,       \* frames of the message that recv is in
    sent,       \* the frames that send took from the script
    got         \* the frames that recv gave the script

socketVars == <<udata, closes, wire, begun, rest, sent, got>>

SocketInit == /\ udata = [s \in {A, B} |-> "none"]
              /\ closes = [s \in {A, B} |-> 0]
              /\ wire = <<>> /\ begun = <<>> /\ rest = <<>>
              /\ sent = <<>> /\ got = <<>>

\* zmq.socket(type), which raises an error if the library refuses; bind or connect.
Create(s) == /\ udata[s] = "none"
             /\ udata' = [udata EXCEPT ![s] = "open"]
             /\ UNCHANGED <<closes, wire, begun, rest, sent, got>>

\* zmq_send takes a frame: with room for one more message, to a connected socket.
\* Otherwise it waits or fails, and send returns nil with the reason.
SendFrame(frame, more) ==
    /\ Len(sent) < MaxSent
    /\ udata[A] = "open" /\ udata[B] = "open" /\ Len(wire) < Water
    /\ begun' = IF more THEN Append(begun, frame) ELSE <<>>
    /\ wire' = IF more THEN wire ELSE Append(wire, Append(begun, frame))
    /\ sent' = Append(sent, frame)
    /\ UNCHANGED <<udata, closes, rest, got>>

\* What recv returns for a frame: nothing for an empty one, which it has taken.
Shown(frame) == IF frame = Empty THEN <<>> ELSE <<frame>>

\* Mutant: recv throws the other frames of a message away.
OthersDropped(message) == <<>>

\* The frames of a message that are left for the next calls.
Others(message) == Tail(message)

RecvFrame ==
    /\ udata[B] = "open"
    /\ \/ /\ rest # <<>>
          /\ got' = got \o Shown(Head(rest))
          /\ rest' = Tail(rest)
          /\ UNCHANGED wire
       \/ /\ rest = <<>> /\ wire # <<>>
          /\ got' = got \o Shown(Head(wire)[1])
          /\ rest' = Others(Head(wire))
          /\ wire' = Tail(wire)
    /\ UNCHANGED <<udata, closes, begun, sent>>

\* Mutant: the pointer is left in the userdata.
ClosedKeeping(s) == IF udata[s] = "none" THEN "closed" ELSE udata[s]

Closed(s) == "closed"

\* close, and __gc, which is the same function; a frame with more to follow is lost
\* with the sender, and what is on the way is with the receiver.
CloseSocket(s, to) ==
    /\ udata[s] \in {"open", "closed"}
    /\ udata' = [udata EXCEPT ![s] = IF to = "collected" THEN to ELSE Closed(s)]
    /\ closes' = IF udata[s] = "open" THEN [closes EXCEPT ![s] = @ + 1] ELSE closes
    /\ UNCHANGED <<wire, begun, rest, sent, got>>

SocketNext == \/ \E s \in {A, B} : Create(s)
              \/ \E frame \in Frames, more \in BOOLEAN : SendFrame(frame, more)
              \/ RecvFrame
              \/ \E s \in {A, B}, to \in {"closed", "collected"} : CloseSocket(s, to)

SocketSpec == SocketInit /\ [][SocketNext]_socketVars

-----------------------------------------------------------------------------
\* Type correctness.
SocketTypeOK == /\ udata \in [{A, B} -> {"none", "open", "closed", "collected"}]
                /\ closes \in [{A, B} -> Nat]
                /\ Len(wire) <= Water

\* However a script closes its sockets and forgets them, libzmq is told to close each
\* one once, and none is forgotten.
ClosedOnce == \A s \in {A, B} : closes[s] = IF udata[s] \in {"closed", "collected"} THEN 1 ELSE 0

\* The frames with content.
NotEmpty(s) == FlattenSeq([i \in DOMAIN s |-> IF s[i] # Empty THEN <<s[i]>> ELSE <<>>])

\* Across both ends the script gets the frames it sent, in order, except the empty
\* ones; and it gets none of a message that is not whole.
FramesInOrder == NotEmpty(sent) = got \o NotEmpty(rest \o FlattenSeq(wire) \o begun)
=============================================================================
