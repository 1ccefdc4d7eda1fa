------------------------------- MODULE Router --------------------------------
(***************************************************************************)
(* Messages between nodes: qsf_node_send and qsf_node_recv of              *)
(* src/src/qsf_node.c, and the router of src/src/qsf_start.c, which runs   *)
(* dispatch_message in a loop on the thread of main().                     *)
(*                                                                         *)
(* Every node has a dealer socket connected to the one router socket over  *)
(* inproc, that is, a pair of bounded pipes.  The library side of the      *)
(* sockets (attaching a pipe under the dealer's identity, dropping it once *)
(* the dealer is closed, blocking at the high-water mark) is modelled from *)
(* how the code uses it.  A message is its sender's pipe, its receiver's   *)
(* name and its number among those of its sender.                          *)
(***************************************************************************)
EXTENDS Naturals, SequencesExt

CONSTANTS Pipes,      \* a pair of pipes per dealer socket ever opened
          Names,      \* node names; NodeRegistry keeps those of open dealers unique
          UpLimit,    \* the high-water mark from a dealer to the router
          DownLimit,  \* the high-water mark from the router to a dealer
          MaxSent,    \* bound: messages a dealer sends
          None        \* no name, no message

ASSUME RouterAssumption ==
    /\ UpLimit \in Nat \ {0}
    /\ DownLimit \in Nat \ {0}
    /\ MaxSent \in Nat
    /\ None \notin Names

VARIABLES
    mandatory,  \* the setting router_mandatory: ZMQ_ROUTER_MANDATORY
    identity,   \* the identity of each pipe's dealer, None before it connects
    open,       \* the pipes whose dealer has not been closed
    routes,     \* the pipes the router reads from and routes to
    mute,       \* the pipes attached while their identity was taken
    up,         \* what is under way from each dealer to the router
    down,       \* what is under way from the router to each dealer
    sent,       \* the number of messages each dealer has sent
    hand,       \* the message dispatch_message has received and not sent
    pc          \* dispatch_message: "receive" or "send"; "stopped" after the loop

Message == [from : Pipes, to : Names, number : 1 .. MaxSent]

dealers == <<identity, open, sent>>
vars == <<mandatory, dealers, routes, mute, up, down, hand, pc>>

Init == /\ mandatory \in BOOLEAN
        /\ identity = [p \in Pipes |-> None]
        /\ open = {}
        /\ routes = {}
        /\ mute = {}
        /\ up = [p \in Pipes |-> <<>>]
        /\ down = [p \in Pipes |-> <<>>]
        /\ sent = [p \in Pipes |-> 0]
        /\ hand = None
        /\ pc = "receive"

\* A pipe over its mark holds, last, the message its dealer is blocked on.
Blocked(p) == Len(up[p]) > UpLimit
HasRoom(p) == Len(down[p]) < DownLimit
Named(ps, n) == {p \in ps : identity[p] = n}

-----------------------------------------------------------------------------
(* The nodes *)

\* qsf_create_dealer, up to zmq_connect.
Connect(p, n) == /\ identity[p] = None
                 /\ Named(open, n) = {}
                 /\ identity' = [identity EXCEPT ![p] = n]
                 /\ open' = open \cup {p}
                 /\ UNCHANGED <<mandatory, routes, mute, up, down, sent, hand, pc>>

\* qsf_node_send: both frames in one message, to a name that need not exist.
Send(p, n) == /\ p \in open /\ ~Blocked(p)
              /\ sent[p] < MaxSent
              /\ sent' = [sent EXCEPT ![p] = @ + 1]
              /\ up' = [up EXCEPT ![p] =
                          Append(@, [from |-> p, to |-> n, number |-> sent'[p]])]
              /\ UNCHANGED <<mandatory, identity, open, routes, mute, down, hand, pc>>

\* qsf_node_recv, when there is a message; without one it blocks, or returns
\* nothing with ZMQ_DONTWAIT.
Recv(p) == /\ p \in open /\ ~Blocked(p)
           /\ down[p] # <<>>
           /\ down' = [down EXCEPT ![p] = Tail(@)]
           /\ UNCHANGED <<mandatory, dealers, routes, mute, up, hand, pc>>

\* cleanup_node closes the dealer: what it has not read is lost, and ZMQ_LINGER
\* is 0, so some of what it sent last may be.
Close(p) == /\ p \in open /\ ~Blocked(p)
            /\ open' = open \ {p}
            /\ down' = [down EXCEPT ![p] = <<>>]
            /\ \E kept \in 0 .. Len(up[p]) : up' = [up EXCEPT ![p] = SubSeq(@, 1, kept)]
            /\ UNCHANGED <<mandatory, identity, routes, mute, sent, hand, pc>>

-----------------------------------------------------------------------------
(* The router socket, on the thread that runs dispatch_message *)

\* A connected dealer is known from here on, unless its identity is still taken.
Attach(p) == /\ pc # "stopped"
             /\ identity[p] # None /\ p \notin routes \cup mute
             /\ IF Named(routes, identity[p]) = {}
                THEN routes' = routes \cup {p} /\ UNCHANGED mute
                ELSE mute' = mute \cup {p} /\ UNCHANGED routes
             /\ UNCHANGED <<mandatory, dealers, up, down, hand, pc>>

\* A closed dealer's pipe goes once it has been read to its end.
Detach(p) == /\ pc = "receive"
             /\ p \in routes \ open /\ up[p] = <<>>
             /\ routes' = routes \ {p}
             /\ UNCHANGED <<mandatory, dealers, mute, up, down, hand, pc>>

\* The three zmq_msg_recv of dispatch_message.
Receive(p) == /\ pc = "receive"
              /\ p \in routes /\ up[p] # <<>>
              /\ hand' = Head(up[p])
              /\ up' = [up EXCEPT ![p] = Tail(@)]
              /\ pc' = "send"
              /\ UNCHANGED <<mandatory, dealers, routes, mute, down>>

\* Mutant: the message overtakes the ones that wait.
DeliverFirst(p) ==
    /\ pc = "send"
    /\ p \in Named(routes, hand.to) /\ HasRoom(p)
    /\ down' = IF p \in open THEN [down EXCEPT ![p] = <<hand>> \o @] ELSE down
    /\ hand' = None
    /\ pc' = "receive"
    /\ UNCHANGED <<mandatory, dealers, routes, mute, up>>

\* The three zmq_msg_send, when the receiver's pipe has room.  A dealer that was
\* closed keeps its route for a while.
Deliver(p) == /\ pc = "send"
              /\ p \in Named(routes, hand.to) /\ HasRoom(p)
              /\ down' = IF p \in open THEN [down EXCEPT ![p] = Append(@, hand)] ELSE down
              /\ hand' = None
              /\ pc' = "receive"
              /\ UNCHANGED <<mandatory, dealers, routes, mute, up>>

\* Mutants: the message goes back to the pipe it came from; the option
\* router_mandatory is not set on the socket.
DiscardNever == /\ pc = "send" /\ ~mandatory
                /\ \A p \in Named(routes, hand.to) : ~HasRoom(p)
                /\ up' = [up EXCEPT ![hand.from] = <<hand>> \o @]
                /\ hand' = None
                /\ pc' = "receive"
                /\ UNCHANGED <<mandatory, dealers, routes, mute, down>>
DiscardAlways == /\ pc = "send"
                 /\ \A p \in Named(routes, hand.to) : ~HasRoom(p)
                 /\ hand' = None
                 /\ pc' = "receive"
                 /\ UNCHANGED <<mandatory, dealers, routes, mute, up, down>>

\* Without router_mandatory, a message that cannot go out now is discarded ...
Discard == /\ pc = "send" /\ ~mandatory
           /\ \A p \in Named(routes, hand.to) : ~HasRoom(p)
           /\ hand' = None
           /\ pc' = "receive"
           /\ UNCHANGED <<mandatory, dealers, routes, mute, up, down>>

\* Mutant: the message is tried again instead.
UnreachableRetried == /\ pc = "send" /\ mandatory
                      /\ Named(routes, hand.to) = {}
                      /\ UNCHANGED vars

\* ... with it, the router waits for a full pipe and fails on a missing one:
\* the error ends the loop of qsf_start, and qsf_exit follows.
Unreachable == /\ pc = "send" /\ mandatory
               /\ Named(routes, hand.to) = {}
               /\ hand' = None
               /\ pc' = "stopped"
               /\ UNCHANGED <<mandatory, dealers, routes, mute, up, down>>

\* A signal interrupts the call dispatch_message is blocked in.
Interrupted == /\ pc # "stopped"
               /\ hand' = None
               /\ pc' = "stopped"
               /\ UNCHANGED <<mandatory, dealers, routes, mute, up, down>>

-----------------------------------------------------------------------------
Dispatch == (\E p \in Pipes : Deliver(p)) \/ Discard \/ Unreachable

Next == \/ \E p \in Pipes : \/ \E n \in Names : Connect(p, n) \/ Send(p, n)
                            \/ Recv(p) \/ Close(p)
                            \/ Attach(p) \/ Detach(p) \/ Receive(p)
        \/ Dispatch
        \/ Interrupted

\* The router's thread keeps going, and its socket reads its pipes in turn.
\* Nodes need not do anything.
Spec == Init /\ [][Next]_vars
FairSpec == /\ Spec
            /\ WF_vars(Dispatch)
            /\ \A p \in Pipes : WF_vars(Attach(p)) /\ SF_vars(Receive(p))

-----------------------------------------------------------------------------
\* Every variable keeps its range: a message stays whole (sender, receiver,
\* content) on its way through the three frames of dispatch_message.
TypeOK ==
    /\ mandatory \in BOOLEAN
    /\ identity \in [Pipes -> Names \cup {None}]
    /\ open \in SUBSET Pipes
    /\ routes \in SUBSET Pipes
    /\ mute \in SUBSET Pipes
    /\ up \in [Pipes -> Seq(Message)]
    /\ down \in [Pipes -> Seq(Message)]
    /\ sent \in [Pipes -> 0 .. MaxSent]
    /\ hand \in Message \cup {None}
    /\ pc \in {"receive", "send", "stopped"}

Before(m, k) == m.from = k.from => m.number < k.number

\* Between two nodes nothing is reordered or doubled: of two messages of one
\* sender, the one ahead on the way was sent first.
InOrder ==
    /\ \A q \in Pipes : \A i, j \in DOMAIN down[q] :
          i < j => Before(down[q][i], down[q][j])
    /\ hand # None =>
          /\ \A q \in Pipes : \A i \in DOMAIN down[q] : Before(down[q][i], hand)
          /\ \A p \in Pipes : \A j \in DOMAIN up[p] : Before(hand, up[p][j])
    /\ \A p, q \in Pipes : \A i \in DOMAIN down[q], j \in DOMAIN up[p] :
          Before(down[q][i], up[p][j])
    /\ \A p \in Pipes : \A i, j \in DOMAIN up[p] : i < j => Before(up[p][i], up[p][j])

\* Of the messages of a sequence, those from p to n.
Letters(s, p, n) ==
    LET upto[k \in 0 .. Len(s)] ==
            IF k = 0 THEN <<>>
            ELSE IF s[k].from = p /\ s[k].to = n THEN Append(upto[k - 1], s[k].number)
            ELSE upto[k - 1]
    IN  upto[Len(s)]

\* What waits for the open node of that name, and what the router holds.
Waiting(n) == IF Named(open, n) = {} THEN <<>> ELSE down[CHOOSE q \in Named(open, n) : TRUE]
Held == IF pc = "send" THEN <<hand>> ELSE <<>>

\* The router implements the mailboxes of MessageService: its way from p to the
\* open node named n is the down pipe, then its own hand, then the up pipe.
Mail == [p \in Pipes |-> [n \in Names |-> Letters(Waiting(n) \o Held \o up[p], p, n)]]

Service == INSTANCE MessageService
    WITH Peers <- Pipes, Messages <- 1 .. MaxSent,
         present <- open, known <- identity, halted <- pc = "stopped", mail <- Mail

ImplementsMessageService == Service!Spec

\* While the nodes keep taking what is sent to them, the router never stays with
\* a message in its hand.
ReadersKeepUp == \A q \in Pipes : []<>HasRoom(q)
RouterProgress == ReadersKeepUp => (pc = "send" ~> pc # "send")

\* While they do, no node stays blocked in qsf_node_send, unless its identity
\* was taken when it connected or the router has stopped.
SendersProgress ==
    ReadersKeepUp =>
        \A p \in Pipes : Blocked(p) ~> (~Blocked(p) \/ p \in mute \/ pc = "stopped")

\* Neither the router nor a sender waits for ever while the receivers read.
NobodyStuck == RouterProgress /\ SendersProgress
=============================================================================
