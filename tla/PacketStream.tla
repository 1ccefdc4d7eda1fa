---------------------------- MODULE PacketStream -----------------------------
(***************************************************************************)
(* What the framing of src/src/net promises: however the bytes of a        *)
(* connection are cut up on the way, the script gets the packets of the    *)
(* client one by one, in order and unchanged.  An empty packet is passed   *)
(* over.                                                                   *)
(***************************************************************************)
EXTENDS Sequences

CONSTANT Packets     \* sequences of bytes

VARIABLES queue,     \* the packets under way
          told       \* the packet the script was given last

vars == <<queue, told>>

Init == queue = <<>> /\ told = <<>>

Send(p) == queue' = Append(queue, p) /\ UNCHANGED told

Deliver == /\ queue # <<>> /\ Head(queue) # <<>>
           /\ told' = Head(queue)
           /\ queue' = Tail(queue)

PassOver == /\ queue # <<>> /\ Head(queue) = <<>>
            /\ queue' = Tail(queue)
            /\ UNCHANGED told

Next == (\E p \in Packets : Send(p)) \/ Deliver \/ PassOver

Spec == Init /\ [][Next]_vars

\* What is under way arrives.
Fairness == WF_vars(Deliver \/ PassOver)
=============================================================================
