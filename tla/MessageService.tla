--------------------------- MODULE MessageService ----------------------------
(***************************************************************************)
(* What the router promises to the nodes: every node has a mailbox per     *)
(* sender, in which messages keep the order they were sent in and none     *)
(* appears twice.  With router_mandatory set, a message may be lost only   *)
(* when a node of the receiver's name has left, when its sender leaves, or *)
(* when the process halts; without it, any message may be lost.  The       *)
(* router, its pipes and their limits are Router's business.               *)
(***************************************************************************)
EXTENDS Naturals, Sequences

CONSTANTS Peers,      \* the nodes, one after the other, of the whole run
          Names,      \* the names nodes go by
          Messages,   \* what they may say
          None        \* not a name

VARIABLES mandatory,  \* the setting router_mandatory
          present,    \* the peers that have joined and not left
          known,      \* the name of each peer, None before it joins
          mail,       \* by sender and receiver's name: what is under way
          halted      \* the process is going down

vars == <<mandatory, present, known, mail, halted>>

Init == /\ mandatory \in BOOLEAN
        /\ present = {}
        /\ known = [p \in Peers |-> None]
        /\ mail = [p \in Peers |-> [n \in Names |-> <<>>]]
        /\ halted = FALSE

Without(s, i) == SubSeq(s, 1, i - 1) \o SubSeq(s, i + 1, Len(s))
Drop(p, n, i) == mail' = [mail EXCEPT ![p][n] = Without(@, i)]

\* A name is taken by one peer at a time.
Join(p, n) == /\ known[p] = None
              /\ \A q \in present : known[q] # n
              /\ known' = [known EXCEPT ![p] = n]
              /\ present' = present \cup {p}
              /\ UNCHANGED <<mandatory, halted, mail>>

Post(p, n, m) == /\ p \in present
                 /\ UNCHANGED <<mandatory, present, known, halted>>
                 /\ mail' = [mail EXCEPT ![p][n] = Append(@, m)]

\* A peer takes the oldest message that some sender has under way to it.
Take(q, p) == /\ q \in present
              /\ UNCHANGED <<mandatory, present, known, halted>>
              /\ mail[p][known[q]] # <<>>
              /\ mail' = [mail EXCEPT ![p][known[q]] = Tail(@)]

\* A namesake of the receiver has left, so the message may be on its way to it.
Excused(n) == ~mandatory \/ \E q \in Peers : known[q] = n /\ q \notin present

Lose(p, n) == /\ Excused(n)
              /\ UNCHANGED <<mandatory, present, known, halted>>
              /\ \E i \in DOMAIN mail[p][n] : Drop(p, n, i)

\* With a peer go the messages waiting for it, and some of the last it sent.
Leave(q) ==
    /\ q \in present
    /\ present' = present \ {q}
    /\ UNCHANGED <<mandatory, known, halted>>
    /\ \A p \in Peers, n \in Names :
          LET box == mail[p][n]
          IN  \/ mail'[p][n] = box
              \/ /\ p = q \/ n = known[q]
                 /\ \E first \in 1 .. Len(box) + 1, last \in 0 .. Len(box) :
                       /\ n = known[q] \/ first = 1
                       /\ p = q \/ last = Len(box)
                       /\ mail'[p][n] = SubSeq(box, first, last)

\* The router gives up, perhaps with a message in its hands.
Halt == /\ ~halted
        /\ halted' = TRUE
        /\ \/ UNCHANGED mail
           \/ \E p \in Peers, n \in Names : \E i \in DOMAIN mail[p][n] : Drop(p, n, i)
        /\ UNCHANGED <<mandatory, present, known>>

Next == \/ \E p \in Peers, n \in Names :
              \/ Join(p, n)
              \/ \E m \in Messages : Post(p, n, m)
              \/ Lose(p, n)
        \/ \E p, q \in Peers : Take(q, p)
        \/ \E q \in Peers : Leave(q)
        \/ Halt

Spec == Init /\ [][Next]_vars
=============================================================================
