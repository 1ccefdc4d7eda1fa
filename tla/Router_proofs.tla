---------------------------- MODULE Router_proofs ----------------------------
(***************************************************************************)
(* Proofs about Router, for any set of pipes and names and any high-water  *)
(* marks: messages stay whole, those of one sender stay in the order they  *)
(* were sent in, and the router and its dealers are a MessageService.  The *)
(* order needs to be known on the whole way at once, from the sender's     *)
(* pipe through the router's hand to the receivers' pipes, and with it     *)
(* that no message has a number that its sender has not yet given out.     *)
(*                                                                         *)
(* For the service, the mailbox of a sender and a name is cut in the same  *)
(* three parts: what waits for the open node of the name, what the router  *)
(* holds, what has not left the sender.  A step moves a message from one   *)
(* part into the next, where it changes no mailbox, or it changes one end. *)
(***************************************************************************)
EXTENDS Router, SequenceLemmas

\* The sender of m has given out m's number.
Counted(m) == m.number <= sent[m.from]

\* The hand is full while dispatch_message sends, and only then.
HandUsed == IF pc = "send" THEN hand \in Message /\ Counted(hand) ELSE hand = None

\* A pipe holds its own dealer's messages, and no number is used before it is given.
Origins == /\ \A p \in Pipes : \A i \in DOMAIN up[p] : up[p][i].from = p /\ Counted(up[p][i])
           /\ \A q \in Pipes : \A i \in DOMAIN down[q] : Counted(down[q][i])

\* What a receiver has still to read is in order.
DownOrder == \A q \in Pipes : \A i, j \in DOMAIN down[q] : i < j => Before(down[q][i], down[q][j])

\* What has not left its sender is in order.
UpOrder == \A p \in Pipes : \A i, j \in DOMAIN up[p] : i < j => Before(up[p][i], up[p][j])

\* What a receiver has still to read was sent before what has not left its sender.
DownFirst == \A p, q \in Pipes : \A i \in DOMAIN down[q], j \in DOMAIN up[p] :
                Before(down[q][i], up[p][j])

\* What the router holds was sent after the former and before the latter.
HandBetween ==
    pc = "send" =>
        /\ \A q \in Pipes : \A i \in DOMAIN down[q] : Before(down[q][i], hand)
        /\ \A p \in Pipes : \A j \in DOMAIN up[p] : Before(hand, up[p][j])

\* Whole messages, and the order of the whole way: an inductive invariant.
RouterInv == /\ TypeOK /\ HandUsed /\ Origins
             /\ DownOrder /\ UpOrder /\ DownFirst /\ HandBetween

\* Nothing is under way when the router starts.
LEMMA InitInv == Init => RouterInv
  BY RouterAssumption, EmptySeq DEF Init, RouterInv, TypeOK, HandUsed, Origins, DownOrder, UpOrder,
       DownFirst, HandBetween

\* The messages of s, from some place on.
Within(s, t) == \E d \in Nat : \A i \in DOMAIN s : i + d \in DOMAIN t /\ s[i] = t[i + d]

\* Taking messages away from the ends of the pipes, or out of the hand, disturbs no order.
LEMMA LessKeeps ==
    ASSUME RouterInv, TypeOK', sent' = sent,
           \A p \in Pipes : Within(up[p]', up[p]) /\ Within(down[p]', down[p]),
           pc' = "send" => pc = "send" /\ hand' = hand,
           pc' # "send" => hand' = None
    PROVE  RouterInv'
<1> USE DEF RouterInv
<1>1. HandUsed'
  BY DEF HandUsed, Counted
<1>2. Origins'
  BY DEF Origins, Within, Counted
<1>3. DownOrder'
  <2> SUFFICES ASSUME NEW q \in Pipes, NEW i \in DOMAIN down[q]', NEW j \in DOMAIN down[q]', i < j
               PROVE  Before(down[q][i], down[q][j])'
    BY DEF DownOrder
  <2>1. PICK d \in Nat : \A k \in DOMAIN down[q]' : k + d \in DOMAIN down[q]
                                                    /\ down[q]'[k] = down[q][k + d]
    BY DEF Within
  <2>2. i \in Nat /\ j \in Nat
    BY DEF TypeOK
  <2> QED
    BY <2>1, <2>2 DEF DownOrder, Before
<1>4. UpOrder'
  <2> SUFFICES ASSUME NEW p \in Pipes, NEW i \in DOMAIN up[p]', NEW j \in DOMAIN up[p]', i < j
               PROVE  Before(up[p][i], up[p][j])'
    BY DEF UpOrder
  <2>1. PICK d \in Nat : \A k \in DOMAIN up[p]' : k + d \in DOMAIN up[p]
                                                  /\ up[p]'[k] = up[p][k + d]
    BY DEF Within
  <2>2. i \in Nat /\ j \in Nat
    BY DEF TypeOK
  <2> QED
    BY <2>1, <2>2 DEF UpOrder, Before
<1>5. DownFirst'
  BY DEF DownFirst, Within, Before
<1>6. HandBetween'
  BY DEF HandBetween, Within, Before
<1> QED
  BY <1>1, <1>2, <1>3, <1>4, <1>5, <1>6

\* What is left of a sequence is within it.
LEMMA LeftWithin ==
    ASSUME NEW S, NEW s \in Seq(S)
    PROVE  /\ Within(s, s)
           /\ Within(<<>>, s)
           /\ s # <<>> => Within(Tail(s), s)
           /\ \A k \in 0 .. Len(s) : Within(SubSeq(s, 1, k), s)
<1>1. Within(s, s)
  <2>1. \A i \in DOMAIN s : i + 0 \in DOMAIN s /\ s[i] = s[i + 0]
    OBVIOUS
  <2> QED
    BY <2>1 DEF Within
<1>2. Within(<<>>, s)
  BY DEF Within
<1>3. ASSUME s # <<>> PROVE Within(Tail(s), s)
  <2>1. \A i \in DOMAIN Tail(s) : i + 1 \in DOMAIN s /\ Tail(s)[i] = s[i + 1]
    BY <1>3, HeadTailProperties
  <2> QED
    BY <2>1 DEF Within
<1>4. ASSUME NEW k \in 0 .. Len(s) PROVE Within(SubSeq(s, 1, k), s)
  <2>1. \A i \in 1 .. k : s[i] \in S
    OBVIOUS
  <2>2. /\ SubSeq(s, 1, k) \in Seq(S)
        /\ Len(SubSeq(s, 1, k)) = IF 1 <= k THEN k - 1 + 1 ELSE 0
        /\ \A i \in 1 .. k - 1 + 1 : SubSeq(s, 1, k)[i] = s[1 + i - 1]
    BY <2>1, SubSeqProperties
  <2>3. \A i \in DOMAIN SubSeq(s, 1, k) : i + 0 \in DOMAIN s /\ SubSeq(s, 1, k)[i] = s[i + 0]
    BY <2>2
  <2> QED
    BY <2>3 DEF Within
<1> QED
  BY <1>1, <1>2, <1>3, <1>4

\* A sent message has a number that none of its sender's had before.
LEMMA SendKeeps ==
    ASSUME RouterInv, NEW p \in Pipes, NEW n \in Names, Send(p, n)
    PROVE  RouterInv'
<1> DEFINE m == [from |-> p, to |-> n, number |-> sent[p] + 1]
<1> USE DEF RouterInv
<1>1. m \in Message /\ sent'[p] = sent[p] + 1 /\ sent' \in [Pipes -> 0 .. MaxSent]
  BY RouterAssumption DEF Send, TypeOK, Message
<1>2. up' = [up EXCEPT ![p] = Append(@, m)]
  BY <1>1 DEF Send
<1>3. /\ \A q \in Pipes : up'[q] \in Seq(Message)
      /\ \A q \in Pipes \ {p} : up'[q] = up[q]
      /\ Len(up'[p]) = Len(up[p]) + 1 /\ Len(up[p]) \in Nat
      /\ \A i \in 1 .. Len(up[p]) : up'[p][i] = up[p][i]
      /\ up'[p][Len(up[p]) + 1] = m
  BY <1>1, <1>2, AppendProperties DEF TypeOK
<1>4. UNCHANGED <<down, hand, pc, identity, open, routes, mute, mandatory>>
  BY DEF Send
<1>5. TypeOK'
  BY <1>1, <1>2, <1>3, <1>4 DEF TypeOK
<1>6. \A q \in Pipes : sent[q] \in Nat /\ sent'[q] \in Nat /\ sent[q] <= sent'[q]
  BY <1>1 DEF TypeOK, Send
<1>7. /\ hand' = hand /\ \A q \in Pipes : down[q] \in Seq(Message) /\ up[q] \in Seq(Message)
  BY <1>4 DEF TypeOK
<1>8. \A k \in Message : /\ k.from \in Pipes /\ k.number \in Nat
                         /\ Counted(k) => k.number <= sent'[k.from]
  BY <1>6, RouterAssumption DEF Message, Counted
<1> HIDE DEF m
<1>9. m.from = p /\ m.number = sent[p] + 1
  BY DEF m
<1>10. \A q \in Pipes : \A i \in DOMAIN up'[q] :
          \/ i \in DOMAIN up[q] /\ up'[q][i] = up[q][i] /\ up[q][i] \in Message
          \/ q = p /\ i = Len(up[p]) + 1 /\ up'[q][i] = m
  <2> SUFFICES ASSUME NEW q \in Pipes, NEW i \in DOMAIN up'[q]
               PROVE  \/ i \in DOMAIN up[q] /\ up'[q][i] = up[q][i] /\ up[q][i] \in Message
                      \/ q = p /\ i = Len(up[p]) + 1 /\ up'[q][i] = m
    OBVIOUS
  <2>1. CASE q # p
    BY <2>1, <1>3, <1>7
  <2>2. CASE q = p
    <3>1. DOMAIN up[p] = 1 .. Len(up[p]) /\ DOMAIN up'[p] = 1 .. Len(up[p]) + 1
      BY <1>3, <1>7, LenProperties
    <3> QED
      BY <2>2, <3>1, <1>3, <1>7, SMTT(40)
  <2> QED
    BY <2>1, <2>2
<1>11. \A q \in Pipes : \A i \in DOMAIN down[q] : down[q][i] \in Message
  BY <1>7
<1>12. \A k \in Message : Counted(k) => Before(k, m)
  BY <1>8, <1>9, RouterAssumption DEF Message, TypeOK, Counted, Before
<1>13. HandUsed'
  BY <1>4, <1>8 DEF HandUsed, Counted
<1>14. Origins'
  <2>1. ASSUME NEW q \in Pipes, NEW i \in DOMAIN up'[q]
        PROVE  up'[q][i].from = q /\ up'[q][i].number <= sent'[up'[q][i].from]
    BY <1>1, <1>8, <1>9, <1>6, <1>10 DEF Origins
  <2>2. ASSUME NEW q \in Pipes, NEW i \in DOMAIN down[q]
        PROVE  down[q][i].number <= sent'[down[q][i].from]
    BY <1>8, <1>11 DEF Origins
  <2> QED
    BY <2>1, <2>2, <1>4 DEF Origins, Counted
<1>15. UpOrder'
  <2> SUFFICES ASSUME NEW q \in Pipes, NEW i \in DOMAIN up'[q], NEW j \in DOMAIN up'[q], i < j
               PROVE  Before(up'[q][i], up'[q][j])
    BY DEF UpOrder, Before
  <2>1. j \in DOMAIN up[q] => i \in DOMAIN up[q]
    BY <1>3, <1>7, LenProperties
  <2>2. CASE j \in DOMAIN up[q]
    <3>1. j # Len(up[p]) + 1 \/ q # p
      BY <2>2, <1>7, LenProperties
    <3>2. i # Len(up[p]) + 1 \/ q # p
      BY <2>1, <2>2, <1>7, LenProperties
    <3> QED
      BY <2>1, <2>2, <3>1, <3>2, <1>10 DEF UpOrder
  <2>3. CASE j \notin DOMAIN up[q]
    <3>1. q = p /\ j = Len(up[p]) + 1 /\ up'[q][j] = m
      BY <2>3, <1>10
    <3>2. i \in DOMAIN up[q] /\ up'[q][i] = up[q][i] /\ up[q][i] \in Message
      BY <3>1, <1>10
    <3> QED
      BY <3>1, <3>2, <1>12 DEF Origins
  <2> QED
    BY <2>2, <2>3
<1>16. DownFirst'
  <2> SUFFICES ASSUME NEW r \in Pipes, NEW q \in Pipes,
                      NEW i \in DOMAIN down[q], NEW j \in DOMAIN up'[r]
               PROVE  Before(down[q][i], up'[r][j])
    BY <1>4 DEF DownFirst, Before
  <2>1. CASE j \in DOMAIN up[r] /\ up'[r][j] = up[r][j]
    BY <2>1 DEF DownFirst
  <2>2. CASE up'[r][j] = m
    BY <2>2, <1>11, <1>12 DEF Origins
  <2> QED
    BY <2>1, <2>2, <1>10
<1>17. HandBetween'
  <2> SUFFICES ASSUME pc = "send"
               PROVE  /\ \A q \in Pipes : \A i \in DOMAIN down[q] : Before(down[q][i], hand)
                      /\ \A r \in Pipes : \A j \in DOMAIN up'[r] : Before(hand, up'[r][j])
    BY <1>4 DEF HandBetween, Before
  <2>1. ASSUME NEW r \in Pipes, NEW j \in DOMAIN up'[r] PROVE Before(hand, up'[r][j])
    <3>1. CASE j \in DOMAIN up[r] /\ up'[r][j] = up[r][j]
      BY <3>1 DEF HandBetween
    <3>2. CASE up'[r][j] = m
      BY <3>2, <1>12 DEF HandUsed
    <3> QED
      BY <3>1, <3>2, <1>10
  <2> QED
    BY <2>1 DEF HandBetween
<1>18. DownOrder'
  BY <1>4 DEF DownOrder, Before
<1> QED
  BY <1>5, <1>13, <1>14, <1>15, <1>16, <1>17, <1>18

\* The message in the hand is older than what its sender still has under way, and
\* newer than what was delivered.
LEMMA ReceiveKeeps ==
    ASSUME RouterInv, NEW p \in Pipes, Receive(p)
    PROVE  RouterInv'
<1> USE DEF RouterInv
<1>1. /\ up[p] \in Seq(Message) /\ up[p] # <<>>
      /\ hand' = up[p][1] /\ 1 \in DOMAIN up[p] /\ hand' \in Message
      /\ Tail(up[p]) \in Seq(Message)
  BY HeadTailProperties DEF Receive, TypeOK
<1>2. up' = [up EXCEPT ![p] = Tail(@)] /\ pc' = "send"
  BY DEF Receive
<1>3. UNCHANGED <<mandatory, identity, open, sent, routes, mute, down>>
  BY DEF Receive, dealers
<1>4. TypeOK'
  BY <1>1, <1>2, <1>3 DEF TypeOK
<1>5. \A i \in DOMAIN up'[p] : i \in Nat \ {0} /\ i + 1 \in DOMAIN up[p] /\ up'[p][i] = up[p][i + 1]
  BY <1>1, <1>2, HeadTailProperties, LenProperties DEF TypeOK
<1>6. \A q \in Pipes : q # p => up'[q] = up[q]
  BY <1>2 DEF TypeOK
<1>7. HandUsed'
  BY <1>1, <1>2, <1>3 DEF HandUsed, Origins, Counted
<1>8. Origins'
  BY <1>3, <1>5, <1>6 DEF Origins, Counted
<1>9. DownOrder'
  BY <1>3 DEF DownOrder, Before
<1>10. UpOrder'
  <2> SUFFICES ASSUME NEW q \in Pipes, NEW i \in DOMAIN up'[q], NEW j \in DOMAIN up'[q], i < j
               PROVE  Before(up'[q][i], up'[q][j])
    BY DEF UpOrder, Before
  <2>1. CASE q # p
    BY <2>1, <1>6 DEF UpOrder
  <2>2. CASE q = p
    <3>1. i + 1 < j + 1
      BY <2>2, <1>5
    <3> QED
      BY <2>2, <3>1, <1>5 DEF UpOrder
  <2> QED
    BY <2>1, <2>2
<1>11. DownFirst'
  BY <1>3, <1>5, <1>6 DEF DownFirst, Before
<1>12. HandBetween'
  <2>1. ASSUME NEW q \in Pipes, NEW i \in DOMAIN down[q] PROVE Before(down[q][i], hand')
    BY <1>1 DEF DownFirst
  <2>2. ASSUME NEW r \in Pipes, NEW j \in DOMAIN up'[r] PROVE Before(hand', up'[r][j])
    <3>1. CASE r = p
      <4>1. j + 1 \in DOMAIN up[p] /\ 1 < j + 1
        BY <3>1, <1>5
      <4> QED
        BY <3>1, <4>1, <1>1, <1>5 DEF UpOrder
    <3>2. CASE r # p
      BY <3>2, <1>1, <1>6 DEF Origins, Before
    <3> QED
      BY <3>1, <3>2
  <2> QED
    BY <2>1, <2>2, <1>3 DEF HandBetween, Before
<1> QED
  BY <1>4, <1>7, <1>8, <1>9, <1>10, <1>11, <1>12

\* What dispatch_message sends is put behind what its receiver has.
LEMMA DeliverKeeps ==
    ASSUME RouterInv, NEW p \in Pipes, Deliver(p)
    PROVE  RouterInv'
<1> USE DEF RouterInv
<1>1. hand \in Message /\ Counted(hand) /\ hand' = None /\ pc' = "receive"
  BY DEF Deliver, HandUsed
<1>2. UNCHANGED <<mandatory, identity, open, sent, routes, mute, up>>
  BY DEF Deliver, dealers
<1>3. CASE p \notin open
  <2>1. UNCHANGED down
    BY <1>3 DEF Deliver
  <2> QED
    BY <1>1, <1>2, <2>1 DEF TypeOK, HandUsed, Origins, DownOrder, UpOrder, DownFirst, HandBetween,
                            Before, Counted
<1>4. CASE p \in open
  <2>1. down' = [down EXCEPT ![p] = Append(@, hand)]
    BY <1>4 DEF Deliver
  <2>2. /\ down'[p] \in Seq(Message)
        /\ Len(down'[p]) = Len(down[p]) + 1 /\ Len(down[p]) \in Nat
        /\ \A i \in 1 .. Len(down[p]) : down'[p][i] = down[p][i]
        /\ down'[p][Len(down[p]) + 1] = hand
    BY <1>1, <2>1, AppendProperties DEF TypeOK
  <2>3. \A q \in Pipes : q # p => down'[q] = down[q]
    BY <2>1 DEF TypeOK
  <2>4. TypeOK'
    BY <1>1, <1>2, <2>1, <2>2 DEF TypeOK
  <2>5. DOMAIN down[p] = 1 .. Len(down[p]) /\ DOMAIN down'[p] = 1 .. Len(down[p]) + 1
    BY <2>2, LenProperties DEF TypeOK
  <2>6. \A q \in Pipes : \A i \in DOMAIN down'[q] :
            \/ i \in DOMAIN down[q] /\ down'[q][i] = down[q][i]
            \/ q = p /\ i = Len(down[p]) + 1 /\ down'[q][i] = hand
    BY <2>2, <2>3, <2>5
  <2>7. \A q \in Pipes : \A i \in DOMAIN down[q] : Before(down[q][i], hand)
    BY DEF Deliver, HandBetween
  <2>8. \A r \in Pipes : \A j \in DOMAIN up[r] : Before(hand, up[r][j])
    BY DEF Deliver, HandBetween
  <2>9. HandUsed'
    BY <1>1 DEF HandUsed
  <2>10. Origins'
    BY <1>1, <1>2, <2>6 DEF Origins, Counted
  <2>11. DownOrder'
    <3> SUFFICES ASSUME NEW q \in Pipes, NEW i \in DOMAIN down'[q], NEW j \in DOMAIN down'[q], i < j
                 PROVE  Before(down'[q][i], down'[q][j])
      BY DEF DownOrder, Before
    <3>1. CASE q # p
      BY <3>1, <2>3 DEF DownOrder
    <3>2. CASE q = p
      <4>1. i \in DOMAIN down[p] /\ down'[p][i] = down[p][i]
        BY <3>2, <2>2, <2>5
      <4> QED
        BY <3>2, <4>1, <2>6, <2>7 DEF DownOrder
    <3> QED
      BY <3>1, <3>2
  <2>12. UpOrder'
    BY <1>2 DEF UpOrder, Before
  <2>13. DownFirst'
    BY <1>2, <2>6, <2>8 DEF DownFirst, Before
  <2>14. HandBetween'
    BY <1>1 DEF HandBetween
  <2> QED
    BY <2>4, <2>9, <2>10, <2>11, <2>12, <2>13, <2>14
<1> QED
  BY <1>3, <1>4

\* Every other step moves no message, or takes some away.
LEMMA OthersKeep ==
    ASSUME RouterInv,
           \/ \E p \in Pipes : \/ \E n \in Names : Connect(p, n)
                               \/ Recv(p) \/ Close(p) \/ Attach(p) \/ Detach(p)
           \/ Discard \/ Unreachable \/ Interrupted \/ UNCHANGED vars
    PROVE  RouterInv'
<1>1. \A p \in Pipes : up[p] \in Seq(Message) /\ down[p] \in Seq(Message)
  BY DEF RouterInv, TypeOK
<1>2. \A p \in Pipes : Within(up[p], up[p]) /\ Within(down[p], down[p])
  BY <1>1, LeftWithin
<1>3. pc # "send" => hand = None
  BY DEF RouterInv, HandUsed
<1>4. ASSUME NEW p \in Pipes, NEW n \in Names, Connect(p, n) PROVE RouterInv'
  <2>1. TypeOK' /\ UNCHANGED <<up, down, sent, hand, pc>>
    BY <1>4 DEF Connect, RouterInv, TypeOK
  <2> QED
    BY <2>1, <1>2, <1>3, LessKeeps
<1>5. ASSUME NEW p \in Pipes, Recv(p) PROVE RouterInv'
  <2>1. UNCHANGED <<up, sent, hand, pc>> /\ down' = [down EXCEPT ![p] = Tail(@)]
    BY <1>5 DEF Recv, dealers
  <2>2. Tail(down[p]) \in Seq(Message) /\ Within(Tail(down[p]), down[p])
    BY <1>1, <1>5, LeftWithin, HeadTailProperties DEF Recv
  <2>3. TypeOK'
    BY <1>5, <2>1, <2>2 DEF Recv, RouterInv, TypeOK, dealers
  <2>4. \A q \in Pipes : down'[q] = IF q = p THEN Tail(down[p]) ELSE down[q]
    BY <2>1 DEF RouterInv, TypeOK
  <2> QED
    BY <2>1, <2>2, <2>3, <2>4, <1>2, <1>3, LessKeeps
<1>6. ASSUME NEW p \in Pipes, Close(p) PROVE RouterInv'
  <2>1. PICK kept \in 0 .. Len(up[p]) : up' = [up EXCEPT ![p] = SubSeq(@, 1, kept)]
    BY <1>6 DEF Close
  <2>2. UNCHANGED <<sent, hand, pc>> /\ down' = [down EXCEPT ![p] = <<>>]
    BY <1>6 DEF Close
  <2>3. Within(SubSeq(up[p], 1, kept), up[p]) /\ Within(<<>>, down[p])
    BY <1>1, LeftWithin
  <2>4. \A i \in 1 .. kept : up[p][i] \in Message
    BY <1>1, LenProperties
  <2>5. SubSeq(up[p], 1, kept) \in Seq(Message) /\ <<>> \in Seq(Message)
    BY <2>4, SubSeqProperties, EmptySeq
  <2>6. TypeOK'
    BY <1>6, <2>1, <2>2, <2>5 DEF Close, RouterInv, TypeOK
  <2>7. /\ \A q \in Pipes : up'[q] = IF q = p THEN SubSeq(up[p], 1, kept) ELSE up[q]
        /\ \A q \in Pipes : down'[q] = IF q = p THEN <<>> ELSE down[q]
    BY <2>1, <2>2 DEF RouterInv, TypeOK
  <2> QED
    BY <2>2, <2>3, <2>6, <2>7, <1>2, <1>3, LessKeeps
<1>7. ASSUME NEW p \in Pipes, Attach(p) \/ Detach(p) PROVE RouterInv'
  <2>1. TypeOK' /\ UNCHANGED <<up, down, sent, hand, pc>>
    BY <1>7 DEF Attach, Detach, dealers, RouterInv, TypeOK
  <2> QED
    BY <2>1, <1>2, <1>3, LessKeeps
<1>8. ASSUME Discard \/ Unreachable \/ Interrupted PROVE RouterInv'
  <2>1. UNCHANGED <<up, down, sent>> /\ hand' = None /\ pc' # "send"
    BY <1>8 DEF Discard, Unreachable, Interrupted, dealers
  <2>2. TypeOK'
    BY <1>8, <2>1 DEF Discard, Unreachable, Interrupted, dealers, RouterInv, TypeOK
  <2> QED
    BY <2>1, <2>2, <1>2, LessKeeps
<1>9. ASSUME UNCHANGED vars PROVE RouterInv'
  <2>1. TypeOK' /\ UNCHANGED <<up, down, sent, hand, pc>>
    BY <1>9 DEF vars, dealers, RouterInv, TypeOK
  <2> QED
    BY <2>1, <1>2, <1>3, LessKeeps
<1> QED
  BY <1>4, <1>5, <1>6, <1>7, <1>8, <1>9

\* In every reachable state the invariant holds.
THEOREM RouterInvariance == Spec => []RouterInv
<1>1. RouterInv /\ [Next]_vars => RouterInv'
  <2> SUFFICES ASSUME RouterInv, [Next]_vars PROVE RouterInv'
    OBVIOUS
  <2> QED
    BY SendKeeps, ReceiveKeeps, DeliverKeeps, OthersKeep DEF Next, Dispatch
<1> QED
  BY <1>1, InitInv, PTL DEF Spec

\* A message stays whole through the three frames of dispatch_message, and no variable
\* leaves its range.
THEOREM RouterTypeCorrect == Spec => []TypeOK
<1>1. RouterInv => TypeOK
  BY DEF RouterInv
<1> QED
  BY <1>1, RouterInvariance, PTL

\* qsf_node_send, dispatch_message and qsf_node_recv keep the messages of one sender
\* in order, and double none, for any number of nodes that come and go.
THEOREM MessagesStayInOrder == Spec => []InOrder
<1>1. RouterInv => InOrder
  BY DEF RouterInv, HandUsed, DownOrder, UpOrder, DownFirst, HandBetween, InOrder
<1> QED
  BY <1>1, RouterInvariance, PTL

-----------------------------------------------------------------------------
(* The mailboxes: MessageService.  A mailbox holds the numbers of the       *)
(* messages from one pipe to one name that are on the way of three parts.   *)

\* What a mailbox holds of a message.
Numbers == 1 .. MaxSent

\* m is a message from p to n.
Of(m, p, n) == m.from = p /\ m.to = n

\* f says what the first places of s contribute, up to the k-th.
Upto(f, s, p, n, k) ==
    f = [i \in 0 .. k |->
            IF i = 0 THEN <<>>
            ELSE IF s[i].from = p /\ s[i].to = n THEN Append(f[i - 1], s[i].number)
            ELSE f[i - 1]]

\* There is such a function, by induction on k.
LEMMA UptoExists ==
    ASSUME NEW s, NEW p, NEW n, NEW k \in Nat  PROVE \E f : Upto(f, s, p, n, k)
<1> DEFINE S == {j \in Nat : \E f : Upto(f, s, p, n, j)}
<1>1. 0 \in S
  <2>1. Upto([i \in 0 .. 0 |-> <<>>], s, p, n, 0)  BY DEF Upto
  <2> QED  BY <2>1
<1>2. ASSUME NEW j \in Nat, j \in S  PROVE j + 1 \in S
  <2>1. PICK f : Upto(f, s, p, n, j)  BY <1>2
  <2> DEFINE last == IF s[j + 1].from = p /\ s[j + 1].to = n THEN Append(f[j], s[j + 1].number)
                     ELSE f[j]
             g == [i \in 0 .. j + 1 |-> IF i <= j THEN f[i] ELSE last]
  <2>2. ASSUME NEW i \in 0 .. j + 1
        PROVE  g[i] = IF i = 0 THEN <<>>
                      ELSE IF s[i].from = p /\ s[i].to = n THEN Append(g[i - 1], s[i].number)
                      ELSE g[i - 1]
    <3>1. CASE i <= j
      <4>1. i \in 0 .. j  BY <3>1
      <4>2. f[i] = IF i = 0 THEN <<>>
                   ELSE IF s[i].from = p /\ s[i].to = n THEN Append(f[i - 1], s[i].number)
                   ELSE f[i - 1]
        BY <4>1, <2>1 DEF Upto
      <4>3. g[i] = f[i]  BY <3>1
      <4>4. i # 0 => g[i - 1] = f[i - 1]  BY <3>1
      <4> HIDE DEF g
      <4> QED  BY <4>2, <4>3, <4>4
    <3>2. CASE i = j + 1
      <4>1. g[i] = last /\ g[j] = f[j] /\ i # 0 /\ i - 1 = j  BY <3>2
      <4> HIDE DEF g
      <4> QED  BY <3>2, <4>1
    <3> QED  BY <3>1, <3>2
  <2>3. Upto(g, s, p, n, j + 1)
    <3>1. g = [i \in 0 .. j + 1 |-> g[i]]  OBVIOUS
    <3> HIDE DEF g
    <3> QED  BY <2>2, <3>1 DEF Upto
  <2> QED  BY <2>3
<1> HIDE DEF S
<1>3. Nat \subseteq S  BY <1>1, <1>2, InductiveSet
<1> QED  BY <1>3 DEF S

\* What Letters is, place by place.
LEMMA LettersFrom ==
    ASSUME NEW s \in Seq(Message), NEW p \in Pipes, NEW n \in Names
    PROVE  \E f \in [0 .. Len(s) -> Seq(Numbers)] :
              /\ f[0] = <<>>
              /\ \A i \in 1 .. Len(s) : f[i] = IF Of(s[i], p, n) THEN Append(f[i - 1], s[i].number)
                                               ELSE f[i - 1]
              /\ Letters(s, p, n) = f[Len(s)]
<1> DEFINE f == CHOOSE f : Upto(f, s, p, n, Len(s))
<1>0. Len(s) \in Nat /\ \A i \in 1 .. Len(s) : s[i].number \in Numbers
  <2>1. \A i \in 1 .. Len(s) : s[i] \in Message  OBVIOUS
  <2> QED  BY <2>1 DEF Message, Numbers
<1>1. Upto(f, s, p, n, Len(s))  BY <1>0, UptoExists
<1>2. Letters(s, p, n) = f[Len(s)]  BY DEF Letters, Upto
<1> HIDE DEF f
<1>3. DOMAIN f = 0 .. Len(s) /\ f[0] = <<>>  BY <1>0, <1>1 DEF Upto
<1>4. ASSUME NEW i \in 1 .. Len(s)
      PROVE  f[i] = IF Of(s[i], p, n) THEN Append(f[i - 1], s[i].number) ELSE f[i - 1]
  <2>1. i \in 0 .. Len(s) /\ i # 0  OBVIOUS
  <2> QED  BY <1>1, <2>1 DEF Upto, Of
<1> DEFINE S == {j \in Nat : j \in 0 .. Len(s) => f[j] \in Seq(Numbers)}
<1>5. 0 \in S  BY <1>3
<1>6. ASSUME NEW j \in Nat, j \in S  PROVE j + 1 \in S
  <2> SUFFICES ASSUME j + 1 \in 0 .. Len(s)  PROVE f[j + 1] \in Seq(Numbers)  OBVIOUS
  <2>1. j \in 0 .. Len(s) /\ j + 1 \in 1 .. Len(s) /\ (j + 1) - 1 = j  BY <1>0
  <2>2. f[j] \in Seq(Numbers) /\ s[j + 1].number \in Numbers  BY <1>0, <1>6, <2>1
  <2>3. Append(f[j], s[j + 1].number) \in Seq(Numbers)  BY ONLY <2>2, AppendProperties
  <2> QED  BY <1>4, <2>1, <2>2, <2>3
<1> HIDE DEF S
<1>7. Nat \subseteq S  BY <1>5, <1>6, InductiveSet
<1>8. \A j \in 0 .. Len(s) : f[j] \in Seq(Numbers)  BY <1>7 DEF S
<1>9. f = [j \in 0 .. Len(s) |-> f[j]]  BY <1>1 DEF Upto
<1>10. f \in [0 .. Len(s) -> Seq(Numbers)]  BY <1>8, <1>9
<1> QED  BY <1>2, <1>3, <1>4, <1>10

\* A sequence of numbers.
LEMMA LettersType ==
    ASSUME NEW s \in Seq(Message), NEW p \in Pipes, NEW n \in Names
    PROVE  Letters(s, p, n) \in Seq(Numbers)
<1>1. Len(s) \in 0 .. Len(s)  OBVIOUS
<1> QED  BY <1>1, LettersFrom

\* No messages, no letters.
LEMMA LettersEmpty == ASSUME NEW p \in Pipes, NEW n \in Names  PROVE Letters(<<>>, p, n) = <<>>
<1>1. <<>> \in Seq(Message) /\ Len(<<>>) = 0  OBVIOUS
<1>2. \E f \in [0 .. Len(<<>>) -> Seq(Numbers)] :
         f[0] = <<>> /\ Letters(<<>>, p, n) = f[Len(<<>>)]
  BY <1>1, LettersFrom, ZenonT(40)
<1> QED  BY <1>1, <1>2

\* A message at the end.
LEMMA LettersAppend ==
    ASSUME NEW s \in Seq(Message), NEW m \in Message, NEW p \in Pipes, NEW n \in Names
    PROVE  Letters(Append(s, m), p, n)
              = IF Of(m, p, n) THEN Append(Letters(s, p, n), m.number) ELSE Letters(s, p, n)
<1> DEFINE k == Len(s)
           t == Append(s, m)
<1>1. /\ k \in Nat /\ t \in Seq(Message) /\ Len(t) = k + 1
      /\ \A i \in 1 .. k : t[i] = s[i]
      /\ t[k + 1] = m
  BY AppendProperties
<1>2. PICK f \in [0 .. k -> Seq(Numbers)] :
         /\ f[0] = <<>>
         /\ \A i \in 1 .. k : f[i] = IF Of(s[i], p, n) THEN Append(f[i - 1], s[i].number)
                                     ELSE f[i - 1]
         /\ Letters(s, p, n) = f[k]
  BY LettersFrom
<1> HIDE DEF k, t
<1>3. PICK g \in [0 .. Len(t) -> Seq(Numbers)] :
         /\ g[0] = <<>>
         /\ \A i \in 1 .. Len(t) : g[i] = IF Of(t[i], p, n) THEN Append(g[i - 1], t[i].number)
                                          ELSE g[i - 1]
         /\ Letters(t, p, n) = g[Len(t)]
  BY <1>1, LettersFrom
<1> DEFINE S == {j \in Nat : j \in 0 .. k => g[j] = f[j]}
<1>4. 0 \in S  BY <1>2, <1>3
<1>5. ASSUME NEW j \in Nat, j \in S  PROVE j + 1 \in S
  <2> SUFFICES ASSUME j + 1 \in 0 .. k  PROVE g[j + 1] = f[j + 1]  OBVIOUS
  <2>1. j \in 0 .. k /\ j + 1 \in 1 .. k /\ j + 1 \in 1 .. k + 1 /\ (j + 1) - 1 = j  BY <1>1
  <2> QED  BY <1>1, <1>2, <1>3, <1>5, <2>1, ZenonT(40)
<1> HIDE DEF S
<1>6. Nat \subseteq S  BY <1>4, <1>5, InductiveSet
<1>7. g[k] = f[k]  BY <1>1, <1>6 DEF S
<1>8. g[k + 1] = IF Of(m, p, n) THEN Append(g[k], m.number) ELSE g[k]
  <2>1. (k + 1) - 1 = k /\ k + 1 \in 1 .. Len(t)  BY <1>1
  <2> QED  BY <1>1, <1>3, <2>1
<1> QED  BY <1>1, <1>2, <1>3, <1>7, <1>8 DEF t

\* The letters of a concatenation, when the second part is one longer.
Apart(s, t, p, n) == Letters(s \o t, p, n) = Letters(s, p, n) \o Letters(t, p, n)

\* One message more in the second part.
LEMMA LettersApart ==
    ASSUME NEW s \in Seq(Message), NEW v \in Seq(Message), NEW m \in Message,
           NEW p \in Pipes, NEW n \in Names,
           Apart(s, v, p, n)
    PROVE  Apart(s, Append(v, m), p, n)
<1>1. s \o Append(v, m) = Append(s \o v, m) /\ s \o v \in Seq(Message)  BY ConcatAppend
<1>2. Letters(Append(s \o v, m), p, n)
         = IF Of(m, p, n) THEN Append(Letters(s \o v, p, n), m.number) ELSE Letters(s \o v, p, n)
  BY <1>1, LettersAppend
<1>3. Letters(Append(v, m), p, n)
         = IF Of(m, p, n) THEN Append(Letters(v, p, n), m.number) ELSE Letters(v, p, n)
  BY LettersAppend
<1> DEFINE a == Letters(s, p, n)
           b == Letters(v, p, n)
           e == m.number
<1>4. a \in Seq(Numbers) /\ b \in Seq(Numbers) /\ e \in Numbers
  BY LettersType DEF Message, Numbers
<1>5. Letters(s \o v, p, n) = a \o b  BY DEF Apart
<1> HIDE DEF a, b, e
<1>6. a \o Append(b, e) = Append(a \o b, e)  BY ONLY <1>4, ConcatAppend
<1> QED  BY <1>1, <1>2, <1>3, <1>5, <1>6 DEF a, b, e, Apart

\* The letters of two sequences, by induction on the length of the second.
LEMMA LettersConcat ==
    ASSUME NEW s \in Seq(Message), NEW t \in Seq(Message), NEW p \in Pipes, NEW n \in Names
    PROVE  Letters(s \o t, p, n) = Letters(s, p, n) \o Letters(t, p, n)
<1> DEFINE N == {k \in Nat : \A u \in Seq(Message) : Len(u) = k => Apart(s, u, p, n)}
<1>1. \A u \in Seq(Message) : Len(u) = 0 => Apart(s, u, p, n)
  <2> SUFFICES ASSUME NEW u \in Seq(Message), Len(u) = 0  PROVE Apart(s, u, p, n)  OBVIOUS
  <2>1. u = <<>> /\ s \o <<>> = s  BY ConcatEmptySeq
  <2>2. Letters(s, p, n) \o <<>> = Letters(s, p, n)  BY LettersType, ConcatEmptySeq
  <2> QED  BY <2>1, <2>2, LettersEmpty DEF Apart
<1>3. 0 \in N  BY <1>1
<1>4. ASSUME NEW k \in Nat, k \in N  PROVE k + 1 \in N
  <2> SUFFICES ASSUME NEW u \in Seq(Message), Len(u) = k + 1  PROVE Apart(s, u, p, n)  OBVIOUS
  <2> DEFINE v == [i \in 1 .. k |-> u[i]]
             m == u[k + 1]
  <2>1. v \in Seq(Message) /\ Len(v) = k /\ m \in Message /\ u = Append(v, m)  BY FrontAndLast
  <2> HIDE DEF v, m
  <2>2. Apart(s, v, p, n)  BY <1>4, <2>1
  <2> QED  BY <2>1, <2>2, LettersApart
<1> HIDE DEF N
<1>5. Nat \subseteq N  BY <1>3, <1>4, InductiveSet
<1>6. Len(t) \in N  BY <1>5
<1> QED  BY <1>6 DEF N, Apart

\* A single message.
LEMMA LettersOne ==
    ASSUME NEW m \in Message, NEW p \in Pipes, NEW n \in Names
    PROVE  /\ <<m>> \in Seq(Message)
           /\ Letters(<<m>>, p, n) = IF Of(m, p, n) THEN <<m.number>> ELSE <<>>
<1>1. <<m>> \in Seq(Message) /\ <<>> \in Seq(Message) /\ <<m>> = Append(<<>>, m)
      /\ Append(<<>>, m.number) = <<m.number>>
  OBVIOUS
<1>2. Letters(Append(<<>>, m), p, n)
         = IF Of(m, p, n) THEN Append(Letters(<<>>, p, n), m.number) ELSE Letters(<<>>, p, n)
  BY <1>1, LettersAppend
<1> QED  BY <1>1, <1>2, LettersEmpty

\* A message at the front.
LEMMA LettersHead ==
    ASSUME NEW s \in Seq(Message), s # <<>>, NEW p \in Pipes, NEW n \in Names
    PROVE  /\ Head(s) \in Message /\ Tail(s) \in Seq(Message)
           /\ Letters(s, p, n) = IF Of(Head(s), p, n)
                                 THEN <<Head(s).number>> \o Letters(Tail(s), p, n)
                                 ELSE Letters(Tail(s), p, n)
<1> DEFINE m == Head(s)
           t == Tail(s)
<1>1. m \in Message /\ t \in Seq(Message) /\ s = <<m>> \o t  OBVIOUS
<1> HIDE DEF m, t
<1>2. <<m>> \in Seq(Message)  BY <1>1, LettersOne
<1>3. Letters(s, p, n) = Letters(<<m>>, p, n) \o Letters(t, p, n)
  BY <1>1, <1>2, LettersConcat, ZenonT(40)
<1>4. Letters(t, p, n) \in Seq(Numbers)  BY <1>1, LettersType
<1>5. <<>> \o Letters(t, p, n) = Letters(t, p, n)  BY <1>4, ConcatEmptySeq
<1>6. Letters(<<m>>, p, n) = IF Of(m, p, n) THEN <<m.number>> ELSE <<>>  BY <1>1, LettersOne
<1> QED  BY <1>1, <1>3, <1>5, <1>6 DEF m, t

\* Nothing of a sequence none of whose messages is from p to n.
LEMMA LettersNone ==
    ASSUME NEW s \in Seq(Message), NEW p \in Pipes, NEW n \in Names,
           \A i \in 1 .. Len(s) : ~Of(s[i], p, n)
    PROVE  Letters(s, p, n) = <<>>
<1>1. PICK f \in [0 .. Len(s) -> Seq(Numbers)] :
         /\ f[0] = <<>>
         /\ \A i \in 1 .. Len(s) : f[i] = IF Of(s[i], p, n) THEN Append(f[i - 1], s[i].number)
                                          ELSE f[i - 1]
         /\ Letters(s, p, n) = f[Len(s)]
  BY LettersFrom
<1> DEFINE S == {j \in Nat : j \in 0 .. Len(s) => f[j] = <<>>}
<1>2. 0 \in S  BY <1>1
<1>3. ASSUME NEW j \in Nat, j \in S  PROVE j + 1 \in S
  <2> SUFFICES ASSUME j + 1 \in 0 .. Len(s)  PROVE f[j + 1] = <<>>  OBVIOUS
  <2>1. j \in 0 .. Len(s) /\ j + 1 \in 1 .. Len(s) /\ (j + 1) - 1 = j  OBVIOUS
  <2> QED  BY <1>1, <1>3, <2>1
<1> HIDE DEF S
<1>4. Nat \subseteq S  BY <1>2, <1>3, InductiveSet
<1>5. f[Len(s)] = <<>>  BY <1>4 DEF S
<1> QED  BY <1>1, <1>5

-----------------------------------------------------------------------------
(* The parts of the way, and the names of open pipes.                       *)

\* The pipes of open dealers have a name each; those of others hold nothing.
OpenPipes ==
    /\ \A p \in Pipes : identity[p] = None => p \notin open
    /\ \A p \in Pipes : p \notin open => down[p] = <<>>
    /\ \A p, q \in open : identity[p] = identity[q] => p = q

\* No pipe is open.
LEMMA InitOpen == Init => OpenPipes
  BY DEF Init, OpenPipes

\* A step that neither connects nor closes.
LEMMA OpenSame ==
    ASSUME TypeOK, OpenPipes, UNCHANGED <<identity, open>>,
           \A p \in Pipes : p \notin open => down'[p] = down[p]
    PROVE  OpenPipes'
  BY DEF OpenPipes

\* A dealer connects under a name that no open one has.
LEMMA OpenStep == ASSUME TypeOK, OpenPipes, [Next]_vars  PROVE OpenPipes'
<1> USE DEF TypeOK
<1>1. ASSUME NEW p \in Pipes, NEW n \in Names, Connect(p, n)  PROVE OpenPipes'
  <2>1. /\ identity[p] = None /\ n # None
        /\ \A q \in open : identity[q] # n
        /\ identity' = [identity EXCEPT ![p] = n]
        /\ open' = open \cup {p} /\ down' = down
    BY <1>1, RouterAssumption DEF Connect, Named
  <2>2. p \notin open  BY <2>1 DEF OpenPipes
  <2>3. identity'[p] = n /\ \A q \in Pipes : q # p => identity'[q] = identity[q]  BY <2>1
  <2>4. \A q \in Pipes : identity'[q] = None => q \notin open'
    BY <2>1, <2>3 DEF OpenPipes
  <2>5. \A q \in Pipes : q \notin open' => down'[q] = <<>>  BY <2>1 DEF OpenPipes
  <2>6. \A q, r \in open' : identity'[q] = identity'[r] => q = r
    BY <2>1, <2>2, <2>3 DEF OpenPipes
  <2> QED  BY <2>4, <2>5, <2>6 DEF OpenPipes
<1>2. ASSUME NEW p \in Pipes, NEW n \in Names, Send(p, n)  PROVE OpenPipes'
  BY <1>2, OpenSame DEF Send
<1>3. ASSUME NEW p \in Pipes, Recv(p)  PROVE OpenPipes'
  <2>1. UNCHANGED <<identity, open>> /\ \A q \in Pipes : q \notin open => down'[q] = down[q]
    BY <1>3 DEF Recv, dealers
  <2> QED  BY <2>1, OpenSame
<1>4. ASSUME NEW p \in Pipes, Close(p)  PROVE OpenPipes'
  <2>1. identity' = identity /\ open' = open \ {p} /\ down' = [down EXCEPT ![p] = <<>>]
    BY <1>4 DEF Close
  <2>2. \A q \in Pipes : q \notin open' => down'[q] = <<>>  BY <2>1 DEF OpenPipes
  <2> QED  BY <2>1, <2>2 DEF OpenPipes
<1>5. ASSUME NEW p \in Pipes, Attach(p) \/ Detach(p) \/ Receive(p)  PROVE OpenPipes'
  BY <1>5, OpenSame DEF Attach, Detach, Receive, dealers
<1>6. ASSUME NEW p \in Pipes, Deliver(p)  PROVE OpenPipes'
  <2>1. UNCHANGED <<identity, open>> /\ \A q \in Pipes : q \notin open => down'[q] = down[q]
    BY <1>6 DEF Deliver, dealers
  <2> QED  BY <2>1, OpenSame
<1>7. CASE Discard \/ Unreachable \/ Interrupted \/ UNCHANGED vars
  BY <1>7, OpenSame DEF Discard, Unreachable, Interrupted, dealers, vars
<1> QED  BY <1>1, <1>2, <1>3, <1>4, <1>5, <1>6, <1>7 DEF Next, Dispatch

-----------------------------------------------------------------------------
\* What waits for a name, said of any pipes.
WaitingOf(op, id, dn, n) ==
    IF {p \in op : id[p] = n} = {} THEN <<>> ELSE dn[CHOOSE q \in {p \in op : id[p] = n} : TRUE]

\* Names of open pipes being unique, it is what the pipe of that name holds.
LEMMA WaitingAt ==
    ASSUME NEW op, NEW id, NEW dn, \A p, q \in op : id[p] = id[q] => p = q, NEW q \in op
    PROVE  WaitingOf(op, id, dn, id[q]) = dn[q]
<1>1. {p \in op : id[p] = id[q]} = {q}  OBVIOUS
<1>2. (CHOOSE r \in {q} : TRUE) = q  OBVIOUS
<1>3. {q} # {}  OBVIOUS
<1> QED  BY <1>1, <1>2, <1>3 DEF WaitingOf

\* Nothing, where no open pipe has the name.
LEMMA WaitingNone ==
    ASSUME NEW op, NEW id, NEW dn, NEW n, \A q \in op : id[q] # n
    PROVE  WaitingOf(op, id, dn, n) = <<>>
  BY DEF WaitingOf

\* A way of three parts: what waits for the receiver, what the router holds, what the sender
\* has under way.
Box(w, h, u, p, n) == (Letters(w, p, n) \o Letters(h, p, n)) \o Letters(u, p, n)

\* The letters of the way are those of its parts.
LEMMA BoxIs ==
    ASSUME NEW w \in Seq(Message), NEW h \in Seq(Message), NEW u \in Seq(Message),
           NEW p \in Pipes, NEW n \in Names
    PROVE  /\ Letters((w \o h) \o u, p, n) = Box(w, h, u, p, n)
           /\ Box(w, h, u, p, n) \in Seq(Numbers)
<1>1. w \o h \in Seq(Message)  OBVIOUS
<1>2. Letters((w \o h) \o u, p, n) = Letters(w \o h, p, n) \o Letters(u, p, n)
  BY <1>1, LettersConcat, ZenonT(40)
<1>3. Letters(w \o h, p, n) = Letters(w, p, n) \o Letters(h, p, n)  BY LettersConcat
<1>4. (w \o h) \o u \in Seq(Message)  BY <1>1
<1>5. Letters((w \o h) \o u, p, n) \in Seq(Numbers)
  <2> HIDE DEF Box
  <2> QED  BY <1>4, LettersType
<1> QED  BY <1>2, <1>3, <1>5 DEF Box

\* The invariant that the mapping rests on.
WayInv == RouterInv /\ OpenPipes

\* The parts of the way are sequences of messages.
LEMMA WaitingType ==
    ASSUME NEW op \in SUBSET Pipes, NEW id, NEW dn \in [Pipes -> Seq(Message)], NEW n,
           \A p, q \in op : id[p] = id[q] => p = q
    PROVE  WaitingOf(op, id, dn, n) \in Seq(Message)
<1>1. ASSUME NEW q \in op, id[q] = n  PROVE WaitingOf(op, id, dn, n) \in Seq(Message)
  <2>1. WaitingOf(op, id, dn, id[q]) = dn[q]  BY WaitingAt
  <2> QED  BY <1>1, <2>1
<1>2. CASE \A q \in op : id[q] # n
  <2>1. WaitingOf(op, id, dn, n) = <<>>  BY <1>2, WaitingNone
  <2> QED  BY <2>1
<1> QED  BY <1>1, <1>2

\* A mailbox before a step.
LEMMA MailNow ==
    ASSUME WayInv, NEW p \in Pipes, NEW n \in Names
    PROVE  /\ Waiting(n) = WaitingOf(open, identity, down, n)
           /\ Waiting(n) \in Seq(Message) /\ Held \in Seq(Message) /\ up[p] \in Seq(Message)
           /\ Mail[p][n] = Box(Waiting(n), Held, up[p], p, n)
           /\ Mail[p][n] \in Seq(Numbers)
<1>1. Waiting(n) = WaitingOf(open, identity, down, n)  BY DEF Waiting, WaitingOf, Named
<1>0. /\ open \in SUBSET Pipes /\ down \in [Pipes -> Seq(Message)]
      /\ \A q, r \in open : identity[q] = identity[r] => q = r
  BY DEF WayInv, OpenPipes, RouterInv, TypeOK
<1>2. Waiting(n) \in Seq(Message)  BY <1>0, <1>1, WaitingType
<1>3. Held \in Seq(Message)  BY DEF WayInv, RouterInv, HandUsed, Held
<1>4. up[p] \in Seq(Message)  BY DEF WayInv, RouterInv, TypeOK
<1>5. Mail[p][n] = Letters((Waiting(n) \o Held) \o up[p], p, n)  BY DEF Mail
<1> QED  BY <1>1, <1>2, <1>3, <1>4, <1>5, BoxIs

\* And after it.
LEMMA MailNext ==
    ASSUME WayInv', NEW p \in Pipes, NEW n \in Names
    PROVE  /\ Waiting(n)' = WaitingOf(open', identity', down', n)
           /\ Waiting(n)' \in Seq(Message) /\ Held' \in Seq(Message) /\ up'[p] \in Seq(Message)
           /\ Mail'[p][n] = Box(Waiting(n)', Held', up'[p], p, n)
           /\ Mail'[p][n] \in Seq(Numbers)
<1>1. Waiting(n)' = WaitingOf(open', identity', down', n)  BY DEF Waiting, WaitingOf, Named
<1>0. /\ open' \in SUBSET Pipes /\ down' \in [Pipes -> Seq(Message)]
      /\ \A q, r \in open' : identity'[q] = identity'[r] => q = r
  BY DEF WayInv, OpenPipes, RouterInv, TypeOK
<1>2. Waiting(n)' \in Seq(Message)  BY <1>0, <1>1, WaitingType
<1>3. Held' \in Seq(Message)  BY DEF WayInv, RouterInv, HandUsed, Held
<1>4. up'[p] \in Seq(Message)  BY DEF WayInv, RouterInv, TypeOK
<1>5. Mail'[p][n] = Letters((Waiting(n)' \o Held') \o up'[p], p, n)  BY DEF Mail
<1> QED  BY <1>1, <1>2, <1>3, <1>4, <1>5, BoxIs

\* The mailboxes as a function.
LEMMA MailIs ==
    ASSUME WayInv  PROVE Mail \in [Pipes -> [Names -> Seq(Numbers)]]
<1>1. \A p \in Pipes, n \in Names : Mail[p][n] \in Seq(Numbers)  BY MailNow
<1>2. Mail = [p \in Pipes |-> [n \in Names |-> Mail[p][n]]]  BY DEF Mail
<1> HIDE DEF Mail
<1> QED  BY <1>1, <1>2

\* Also after a step.
LEMMA MailIsNext ==
    ASSUME WayInv'  PROVE Mail' \in [Pipes -> [Names -> Seq(Numbers)]]
<1>1. \A p \in Pipes, n \in Names : Mail'[p][n] \in Seq(Numbers)  BY MailNext
<1>2. Mail' = [p \in Pipes |-> [n \in Names |-> Mail'[p][n]]]  BY DEF Mail
<1> HIDE DEF Mail
<1> QED  BY <1>1, <1>2

\* Two sets of mailboxes that are the same, or the same but for one.
LEMMA SameBoxes ==
    ASSUME NEW T, NEW f \in [Pipes -> [Names -> T]], NEW g \in [Pipes -> [Names -> T]],
           \A p \in Pipes, n \in Names : g[p][n] = f[p][n]
    PROVE  g = f
<1>1. \A p \in Pipes : g[p] = f[p]
  <2> SUFFICES ASSUME NEW p \in Pipes  PROVE g[p] = f[p]  OBVIOUS
  <2>1. f[p] \in [Names -> T] /\ g[p] \in [Names -> T]  OBVIOUS
  <2> QED  BY <2>1
<1> QED  BY <1>1

\* One mailbox that is not.
LEMMA OneBox ==
    ASSUME NEW T, NEW f \in [Pipes -> [Names -> T]], NEW g \in [Pipes -> [Names -> T]],
           NEW p \in Pipes, NEW n \in Names, NEW x \in T, g[p][n] = x,
           \A q \in Pipes, k \in Names : q # p \/ k # n => g[q][k] = f[q][k]
    PROVE  g = [f EXCEPT ![p][n] = x]
<1> DEFINE h == [f EXCEPT ![p][n] = x]
<1>1. h \in [Pipes -> [Names -> T]]
      /\ \A q \in Pipes, k \in Names : h[q][k] = IF q = p /\ k = n THEN x ELSE f[q][k]
  OBVIOUS
<1> HIDE DEF h
<1>2. \A q \in Pipes, k \in Names : g[q][k] = h[q][k]  BY <1>1
<1>3. g = h  BY <1>1, <1>2, SameBoxes
<1> QED  BY <1>3 DEF h

-----------------------------------------------------------------------------
(* What each step does to the mailboxes.                                    *)

\* Parts whose letters are the same make the same way.
LEMMA SameMail ==
    ASSUME WayInv, WayInv', NEW p \in Pipes, NEW n \in Names,
           Letters(Waiting(n)', p, n) = Letters(Waiting(n), p, n),
           Letters(Held', p, n) = Letters(Held, p, n),
           Letters(up'[p], p, n) = Letters(up[p], p, n)
    PROVE  Mail'[p][n] = Mail[p][n]
<1>1. Mail[p][n] = Box(Waiting(n), Held, up[p], p, n)  BY MailNow
<1>2. Mail'[p][n] = Box(Waiting(n)', Held', up'[p], p, n)  BY MailNext
<1> QED  BY <1>1, <1>2 DEF Box

\* What waits for a name is as it was where no pipe of that name changes.
LEMMA SameWaiting ==
    ASSUME WayInv, WayInv', UNCHANGED <<open, identity>>, NEW n \in Names,
           \A q \in open : identity[q] = n => down'[q] = down[q]
    PROVE  Waiting(n)' = Waiting(n)
<1>1. Waiting(n) = WaitingOf(open, identity, down, n)
      /\ Waiting(n)' = WaitingOf(open, identity, down', n)
  BY DEF Waiting, WaitingOf, Named
<1>2. \A q, r \in open : identity[q] = identity[r] => q = r  BY DEF WayInv, OpenPipes
<1>3. ASSUME NEW q \in open, identity[q] = n  PROVE Waiting(n)' = Waiting(n)
  <2>1. WaitingOf(open, identity, down, identity[q]) = down[q]
        /\ WaitingOf(open, identity, down', identity[q]) = down'[q]
    BY <1>2, WaitingAt
  <2> QED  BY <1>1, <1>3, <2>1
<1>4. CASE \A q \in open : identity[q] # n
  BY <1>1, <1>4, WaitingNone
<1> QED  BY <1>3, <1>4

\* A step that the service does not see.
LEMMA Unseen ==
    ASSUME WayInv, WayInv', UNCHANGED <<mandatory, open, identity>>,
           pc' = "stopped" <=> pc = "stopped",
           \A p \in Pipes, n \in Names : Mail'[p][n] = Mail[p][n]
    PROVE  [Service!Next]_(Service!vars)
<1>1. Mail \in [Pipes -> [Names -> Seq(Numbers)]] /\ Mail' \in [Pipes -> [Names -> Seq(Numbers)]]
  BY MailIs, MailIsNext
<1> HIDE DEF Mail
<1>2. Mail' = Mail  BY <1>1, SameBoxes
<1>3. (pc = "stopped")' = (pc = "stopped")  OBVIOUS
<1> QED  BY <1>2, <1>3 DEF Service!vars

\* A dealer that connects finds nothing in its mailboxes.
LEMMA ConnectStep ==
    ASSUME WayInv, WayInv', NEW p \in Pipes, NEW n \in Names, Connect(p, n)
    PROVE  Service!Join(p, n)
<1>1. /\ identity[p] = None /\ n # None
      /\ \A q \in open : identity[q] # n
      /\ identity' = [identity EXCEPT ![p] = n]
      /\ open' = open \cup {p}
      /\ UNCHANGED <<mandatory, up, down, hand, pc>>
  BY RouterAssumption DEF Connect, Named
<1>2. p \notin open /\ down[p] = <<>>  BY <1>1 DEF WayInv, OpenPipes
<1>3. /\ identity \in [Pipes -> Names \cup {None}] /\ open \in SUBSET Pipes
      /\ down \in [Pipes -> Seq(Message)]
  BY DEF WayInv, RouterInv, TypeOK
<1>4. identity'[p] = n /\ \A q \in Pipes : q # p => identity'[q] = identity[q]  BY <1>1, <1>3
<1>5. /\ \A q, r \in open : identity[q] = identity[r] => q = r
      /\ \A q, r \in open' : identity'[q] = identity'[r] => q = r
  BY DEF WayInv, OpenPipes
<1>6. ASSUME NEW k \in Names  PROVE Waiting(k)' = Waiting(k)
  <2>1. Waiting(k) = WaitingOf(open, identity, down, k)
        /\ Waiting(k)' = WaitingOf(open', identity', down', k)
    BY DEF Waiting, WaitingOf, Named
  <2>2. CASE k = n
    <3>1. WaitingOf(open, identity, down, n) = <<>>  BY <1>1, WaitingNone
    <3>2. p \in open'  BY <1>1
    <3>3. WaitingOf(open', identity', down', identity'[p]) = down'[p]  BY <1>5, <3>2, WaitingAt
    <3> QED  BY <2>1, <2>2, <3>1, <3>3, <1>1, <1>2, <1>4
  <2>3. ASSUME k # n, NEW q \in open, identity[q] = k  PROVE Waiting(k)' = Waiting(k)
    <3>1. q \in open' /\ identity'[q] = k  BY <1>1, <1>2, <1>3, <1>4, <2>3
    <3>2. WaitingOf(open', identity', down', identity'[q]) = down'[q]
      <4>1. q \in open' /\ \A r, t \in open' : identity'[r] = identity'[t] => r = t  BY <1>5, <3>1
      <4> QED  BY ONLY <4>1, WaitingAt
    <3>3. WaitingOf(open, identity, down, identity[q]) = down[q]  BY <1>5, WaitingAt
    <3> QED  BY <2>1, <2>3, <3>1, <3>2, <3>3, <1>1
  <2>4. CASE k # n /\ \A q \in open : identity[q] # k
    <3>1. \A q \in open' : identity'[q] # k  BY <1>1, <1>3, <1>4, <2>4
    <3>2. WaitingOf(open', identity', down', k) = <<>>  BY <3>1, WaitingNone
    <3>3. WaitingOf(open, identity, down, k) = <<>>  BY <2>4, WaitingNone
    <3> QED  BY <2>1, <3>2, <3>3
  <2> QED  BY <2>2, <2>3, <2>4
<1>7. Held' = Held  BY <1>1 DEF Held
<1>8. \A q \in Pipes, k \in Names : Mail'[q][k] = Mail[q][k]
  <2> SUFFICES ASSUME NEW q \in Pipes, NEW k \in Names  PROVE Mail'[q][k] = Mail[q][k]
    BY DEF Mail
  <2>1. up'[q] = up[q]  BY <1>1
  <2> QED  BY <1>6, <1>7, <2>1, SameMail
<1>9. Mail \in [Pipes -> [Names -> Seq(Numbers)]] /\ Mail' \in [Pipes -> [Names -> Seq(Numbers)]]
  BY MailIs, MailIsNext
<1> HIDE DEF Mail
<1>10. Mail' = Mail  BY <1>8, <1>9, SameBoxes
<1>11. (pc = "stopped")' = (pc = "stopped")  BY <1>1
<1> QED  BY <1>1, <1>10, <1>11 DEF Service!Join

\* What is sent is the last in its mailbox.
LEMMA SendStep ==
    ASSUME WayInv, WayInv', NEW p \in Pipes, NEW n \in Names, Send(p, n)
    PROVE  Service!Post(p, n, sent[p] + 1) /\ sent[p] + 1 \in 1 .. MaxSent
<1> DEFINE m == [from |-> p, to |-> n, number |-> sent[p] + 1]
<1>1. /\ p \in open /\ sent[p] + 1 \in 1 .. MaxSent
      /\ up' = [up EXCEPT ![p] = Append(@, m)]
      /\ UNCHANGED <<mandatory, identity, open, down, hand, pc>>
  BY RouterAssumption DEF Send, WayInv, RouterInv, TypeOK
<1>2. m \in Message /\ m.from = p /\ m.to = n /\ m.number = sent[p] + 1
  BY <1>1 DEF Message
<1>3. up \in [Pipes -> Seq(Message)]  BY DEF WayInv, RouterInv, TypeOK
<1>4. up'[p] = Append(up[p], m) /\ \A q \in Pipes : q # p => up'[q] = up[q]  BY <1>1, <1>3
<1> HIDE DEF m
<1>5. \A k \in Names : Waiting(k)' = Waiting(k)  BY <1>1 DEF Waiting, Named
<1>6. Held' = Held  BY <1>1 DEF Held
<1>7. ASSUME NEW q \in Pipes, NEW k \in Names, q # p \/ k # n  PROVE Mail'[q][k] = Mail[q][k]
  <2>1. CASE q # p
    <3>1. up'[q] = up[q]  BY <1>4, <2>1
    <3> QED  BY <1>5, <1>6, <3>1, SameMail
  <2>2. CASE q = p /\ k # n
    <3>1. Letters(Append(up[p], m), p, k) =
             IF Of(m, p, k) THEN Append(Letters(up[p], p, k), m.number)
                            ELSE Letters(up[p], p, k)
      BY <1>2, <1>3, LettersAppend
    <3>2. ~Of(m, p, k)  BY <1>2, <2>2 DEF Of
    <3>3. Letters(up'[q], q, k) = Letters(up[q], q, k)  BY <1>4, <2>2, <3>1, <3>2
    <3> QED  BY <1>5, <1>6, <3>3, SameMail
  <2> QED  BY <1>7, <2>1, <2>2
<1>8. Mail'[p][n] = Append(Mail[p][n], sent[p] + 1)
  <2> DEFINE a == Letters(Waiting(n), p, n) \o Letters(Held, p, n)
             b == Letters(up[p], p, n)
             e == m.number
  <2>1. Mail[p][n] = a \o b  BY MailNow DEF Box
  <2>2. /\ Mail'[p][n] = a \o Letters(up'[p], p, n)
    BY <1>5, <1>6, MailNext DEF Box
  <2>3. Of(m, p, n)  BY <1>2 DEF Of
  <2>4. Letters(up'[p], p, n) = Append(b, e)  BY <1>2, <1>3, <1>4, <2>3, LettersAppend
  <2>5. Waiting(n) \in Seq(Message) /\ Held \in Seq(Message)  BY MailNow
  <2>6. Letters(Waiting(n), p, n) \in Seq(Numbers) /\ Letters(Held, p, n) \in Seq(Numbers)
    BY <2>5, LettersType
  <2>7. a \in Seq(Numbers) /\ b \in Seq(Numbers) /\ e \in Numbers
    BY <1>1, <1>2, <1>3, <2>6, LettersType DEF Numbers
  <2> HIDE DEF a, b, e
  <2>8. a \o Append(b, e) = Append(a \o b, e)  BY ONLY <2>7, ConcatAppend
  <2> QED  BY <1>2, <2>1, <2>2, <2>4, <2>8 DEF e
<1>9. Mail \in [Pipes -> [Names -> Seq(Numbers)]] /\ Mail' \in [Pipes -> [Names -> Seq(Numbers)]]
  BY MailIs, MailIsNext
<1>10. Append(Mail[p][n], sent[p] + 1) \in Seq(Numbers)
  <2>1. Mail[p][n] \in Seq(Numbers) /\ sent[p] + 1 \in Numbers  BY <1>1, MailNow DEF Numbers
  <2> QED  BY ONLY <2>1, AppendProperties
<1> HIDE DEF Mail
<1>11. Mail' = [Mail EXCEPT ![p][n] = Append(Mail[p][n], sent[p] + 1)]
  BY <1>7, <1>8, <1>9, <1>10, OneBox
<1>12. Mail' = [Mail EXCEPT ![p][n] = Append(@, sent[p] + 1)]  BY <1>9, <1>11
<1>13. (pc = "stopped")' = (pc = "stopped")  BY <1>1
<1> QED  BY <1>1, <1>12, <1>13 DEF Service!Post

\* What waits for the name of an open pipe is what is in that pipe.
LEMMA WaitingAtOpen ==
    ASSUME WayInv, NEW q \in open
    PROVE  identity[q] \in Names /\ \A n : n = identity[q] => Waiting(n) = down[q]
<1>1. \A p, r \in open : identity[p] = identity[r] => p = r  BY DEF WayInv, OpenPipes
<1>2. WaitingOf(open, identity, down, identity[q]) = down[q]  BY <1>1, WaitingAt
<1>3. identity[q] \in Names  BY DEF WayInv, OpenPipes, RouterInv, TypeOK
<1> QED  BY <1>2, <1>3 DEF Waiting, WaitingOf, Named

\* Also after a step.
LEMMA WaitingAtOpenNext ==
    ASSUME WayInv', NEW q \in open, UNCHANGED <<open, identity>>, NEW n, n = identity[q]
    PROVE  Waiting(n)' = down'[q]
<1>1. \A p, r \in open : identity[p] = identity[r] => p = r  BY DEF WayInv, OpenPipes
<1>2. WaitingOf(open, identity, down', identity[q]) = down'[q]  BY <1>1, WaitingAt
<1> QED  BY <1>2 DEF Waiting, WaitingOf, Named

\* What is received was the first in its mailbox.
LEMMA RecvStep ==
    ASSUME WayInv, WayInv', NEW q \in Pipes, Recv(q), NEW n \in Names, n = identity[q]
    PROVE  [\E p \in Pipes : Service!Take(q, p)]_(Service!vars)
<1> DEFINE s == down[q]
           m == Head(s)
<1>1. /\ q \in open /\ s # <<>> /\ down' = [down EXCEPT ![q] = Tail(@)]
      /\ UNCHANGED <<mandatory, identity, open, up, hand, pc>>
  BY DEF Recv, dealers
<1>2. down \in [Pipes -> Seq(Message)]  BY DEF WayInv, RouterInv, TypeOK
<1>3. s \in Seq(Message) /\ down'[q] = Tail(s) /\ \A r \in Pipes : r # q => down'[r] = down[r]
  BY <1>1, <1>2
<1>4. Waiting(n) = s /\ Waiting(n)' = Tail(s)
  BY <1>1, <1>3, WaitingAtOpen, WaitingAtOpenNext
<1>5. \A r \in open : identity[r] = n => r = q  BY <1>1 DEF WayInv, OpenPipes
<1>6. open \in SUBSET Pipes  BY DEF WayInv, RouterInv, TypeOK
<1>7. ASSUME NEW k \in Names, k # n  PROVE Waiting(k)' = Waiting(k)
  <2>1. \A r \in open : identity[r] = k => down'[r] = down[r]  BY <1>3, <1>6, <1>7
  <2> QED  BY <1>1, <2>1, SameWaiting
<1> HIDE DEF s
<1>8. m \in Message /\ Tail(s) \in Seq(Message)
      /\ \A p \in Pipes, k \in Names :
            Letters(s, p, k) = IF Of(m, p, k) THEN <<m.number>> \o Letters(Tail(s), p, k)
                               ELSE Letters(Tail(s), p, k)
  BY <1>1, <1>3, LettersHead
<1> HIDE DEF m
<1>9. Held' = Held  BY <1>1 DEF Held
<1>10. ASSUME NEW p \in Pipes, NEW k \in Names, ~Of(m, p, k) \/ k # n
       PROVE  Mail'[p][k] = Mail[p][k]
  <2>1. up'[p] = up[p]  BY <1>1
  <2>2. Letters(Waiting(k)', p, k) = Letters(Waiting(k), p, k)
    <3>1. CASE k # n  BY <1>7, <3>1
    <3>2. CASE k = n /\ ~Of(m, p, k)
      <4>1. Letters(s, p, k) = Letters(Tail(s), p, k)  BY <1>8, <3>2
      <4> QED  BY <1>4, <3>2, <4>1
    <3> QED  BY <1>10, <3>1, <3>2
  <2> QED  BY <1>9, <2>1, <2>2, SameMail
<1>11. Mail \in [Pipes -> [Names -> Seq(Numbers)]] /\ Mail' \in [Pipes -> [Names -> Seq(Numbers)]]
  BY MailIs, MailIsNext
<1>12. (pc = "stopped")' = (pc = "stopped")  BY <1>1
<1>13. CASE m.to # n
  <2>1. \A p \in Pipes, k \in Names : Mail'[p][k] = Mail[p][k]  BY <1>10, <1>13 DEF Of
  <2> HIDE DEF Mail
  <2>2. Mail' = Mail  BY <1>11, <2>1, SameBoxes
  <2> QED  BY <1>1, <1>12, <2>2 DEF Service!vars
<1>14. CASE m.to = n
  <2> DEFINE p == m.from
             x == <<m.number>>
             a == Letters(Tail(s), p, n)
             h == Letters(Held, p, n)
             u == Letters(up[p], p, n)
  <2>1. p \in Pipes /\ m.number \in Numbers  BY <1>8 DEF Message, Numbers
  <2>2. Of(m, p, n)  BY <1>14 DEF Of
  <2>3. Held \in Seq(Message) /\ up[p] \in Seq(Message)  BY <1>4, <2>1, MailNow
  <2>4. a \in Seq(Numbers) /\ h \in Seq(Numbers) /\ u \in Seq(Numbers) /\ x \in Seq(Numbers)
    <3>1. x \in Seq(Numbers)  BY <2>1
    <3>2. Tail(s) \in Seq(Message)  BY <1>8
    <3> HIDE DEF x, p
    <3>3. a \in Seq(Numbers)  BY <2>1, <3>2, LettersType
    <3>4. h \in Seq(Numbers) /\ u \in Seq(Numbers)  BY <2>1, <2>3, LettersType
    <3> QED  BY <3>1, <3>3, <3>4
  <2>5. Mail[p][n] = ((x \o a) \o h) \o u
    <3>1. Letters(s, p, n) = x \o a  BY <1>4, <1>8, <2>1, <2>2
    <3> QED  BY <1>4, <2>1, <3>1, MailNow DEF Box
  <2>6. Mail'[p][n] = (a \o h) \o u
    <3> HIDE DEF p
    <3>1. up'[p] = up[p]  BY <1>1
    <3>2. Mail'[p][n] = Box(Waiting(n)', Held', up'[p], p, n)  BY <2>1, MailNext
    <3> QED  BY <1>4, <1>9, <3>1, <3>2 DEF Box
  <2>7. m.number \in Numbers /\ x = <<m.number>>  BY <2>1
  <2> HIDE DEF p, x, a, h, u
  <2>8. ((x \o a) \o h) \o u = x \o ((a \o h) \o u)
    <3>1. (x \o a) \o h = x \o (a \o h)  BY ONLY <2>4, Associative, SMTT(40)
    <3> DEFINE ah == a \o h
    <3>2. ah \in Seq(Numbers)  BY ONLY <2>4
    <3>3. x \in Seq(Numbers) /\ ah \in Seq(Numbers) /\ u \in Seq(Numbers)  BY <2>4, <3>2
    <3> HIDE DEF ah
    <3>4. (x \o ah) \o u = x \o (ah \o u)  BY ONLY <3>3, Associative, SMTT(40)
    <3> QED  BY <3>1, <3>4 DEF ah
  <2>9. (a \o h) \o u \in Seq(Numbers)  BY ONLY <2>4
  <2>10. Mail[p][n] # <<>> /\ Mail'[p][n] = Tail(Mail[p][n])
    <3> DEFINE y == (a \o h) \o u
    <3>1. y \in Seq(Numbers)  BY <2>9
    <3>2. Mail[p][n] = x \o y /\ Mail'[p][n] = y  BY <2>5, <2>6, <2>8
    <3> HIDE DEF y
    <3>3. x \o y # <<>> /\ Tail(x \o y) = y
      BY ONLY <2>7, <3>1
    <3> QED  BY <3>2, <3>3
  <2>11. \A r \in Pipes, k \in Names : r # p \/ k # n => Mail'[r][k] = Mail[r][k]
    <3> SUFFICES ASSUME NEW r \in Pipes, NEW k \in Names, r # p \/ k # n
                 PROVE  Mail'[r][k] = Mail[r][k]
      OBVIOUS
    <3>1. ~Of(m, r, k) \/ k # n  BY DEF Of, p
    <3> QED  BY <1>10, <3>1
  <2>12. Tail(Mail[p][n]) \in Seq(Numbers)  BY <2>6, <2>9, <2>10
  <2> HIDE DEF Mail
  <2>13. Mail' = [Mail EXCEPT ![p][n] = Tail(Mail[p][n])]
    BY <1>4, <1>11, <2>1, <2>10, <2>11, <2>12, OneBox
  <2>14. Mail' = [Mail EXCEPT ![p][n] = Tail(@)]  BY <1>4, <1>11, <2>1, <2>13
  <2>15. Service!Take(q, p)  BY <1>1, <1>12, <2>10, <2>14 DEF Service!Take
  <2> QED  BY <2>1, <2>15
<1> QED  BY <1>13, <1>14

\* Routes are no part of a mailbox.
LEMMA AttachStep ==
    ASSUME WayInv, WayInv', NEW p \in Pipes, Attach(p) \/ Detach(p)
    PROVE  [Service!Next]_(Service!vars)
<1>1. UNCHANGED <<mandatory, identity, open, up, down, hand, pc>>
  BY DEF Attach, Detach, dealers
<1>2. Held' = Held  BY <1>1 DEF Held
<1>3. ASSUME NEW q \in Pipes, NEW n \in Names  PROVE Mail'[q][n] = Mail[q][n]
  <2>1. Waiting(n)' = Waiting(n)  BY <1>1 DEF Waiting, Named
  <2>2. up'[q] = up[q]  BY <1>1
  <2> QED  BY <1>2, <2>1, <2>2, SameMail
<1> QED  BY <1>1, <1>3, Unseen

\* The router takes a message into its hand: this is on the way it was on.
LEMMA ReceiveStep ==
    ASSUME WayInv, WayInv', NEW p \in Pipes, Receive(p)
    PROVE  [Service!Next]_(Service!vars)
<1> DEFINE m == Head(up[p])
<1>1. /\ pc = "receive" /\ pc' = "send" /\ up[p] # <<>>
      /\ hand' = m /\ up' = [up EXCEPT ![p] = Tail(@)]
      /\ UNCHANGED <<mandatory, identity, open, down>>
  BY DEF Receive, dealers
<1>2. up \in [Pipes -> Seq(Message)]  BY DEF WayInv, RouterInv, TypeOK
<1>3. up'[p] = Tail(up[p]) /\ \A q \in Pipes : q # p => up'[q] = up[q]  BY <1>1, <1>2
<1>4. m.from = p
  <2>1. 1 \in DOMAIN up[p] /\ m = up[p][1]  BY <1>1, <1>2
  <2> QED  BY <2>1 DEF WayInv, RouterInv, Origins
<1>5. m \in Message /\ Tail(up[p]) \in Seq(Message)
      /\ \A q \in Pipes, n \in Names :
            Letters(up[p], q, n) = IF Of(m, q, n) THEN <<m.number>> \o Letters(Tail(up[p]), q, n)
                                   ELSE Letters(Tail(up[p]), q, n)
  <2>1. up[p] \in Seq(Message) /\ up[p] # <<>>  BY <1>1, <1>2
  <2>2. m \in Message /\ Tail(up[p]) \in Seq(Message)  BY <2>1
  <2> QED  BY <2>1, <2>2, LettersHead DEF Of
<1>6. Held = <<>> /\ Held' = <<m>>  BY <1>1 DEF Held
<1> HIDE DEF m
<1>7. \A n \in Names : Waiting(n)' = Waiting(n)  BY <1>1 DEF Waiting, Named
<1>8. ASSUME NEW q \in Pipes, NEW n \in Names  PROVE Mail'[q][n] = Mail[q][n]
  <2>1. Letters(<<>>, q, n) = <<>>
        /\ Letters(<<m>>, q, n) = IF Of(m, q, n) THEN <<m.number>> ELSE <<>>
    BY <1>5, LettersEmpty, LettersOne
  <2>2. CASE ~Of(m, q, n)
    <3>1. Letters(Held', q, n) = Letters(Held, q, n)  BY <1>6, <2>1, <2>2
    <3>2. Letters(up'[q], q, n) = Letters(up[q], q, n)  BY <1>3, <1>5, <2>2
    <3> QED  BY <1>7, <3>1, <3>2, SameMail
  <2>3. CASE Of(m, q, n)
    <3> DEFINE x == <<m.number>>
               w == Letters(Waiting(n), q, n)
               t == Letters(Tail(up[p]), q, n)
    <3>1. q = p  BY <1>4, <2>3 DEF Of
    <3>2. m.number \in Numbers /\ Waiting(n) \in Seq(Message)  BY <1>5, MailNow DEF Message, Numbers
    <3>3. w \in Seq(Numbers) /\ t \in Seq(Numbers) /\ x \in Seq(Numbers)
      <4>1. x \in Seq(Numbers)  BY <3>2
      <4> HIDE DEF x
      <4>2. w \in Seq(Numbers) /\ t \in Seq(Numbers)  BY <1>5, <3>2, LettersType
      <4> QED  BY <4>1, <4>2
    <3>4. Mail[q][n] = (w \o <<>>) \o (x \o t)
      BY <1>5, <1>6, <2>1, <2>3, <3>1, MailNow DEF Box
    <3>5. Mail'[q][n] = (w \o x) \o t
      BY <1>3, <1>6, <1>7, <2>1, <2>3, <3>1, MailNext DEF Box
    <3> HIDE DEF w, x, t
    <3>6. w \o <<>> = w  BY <3>3, ConcatEmptySeq
    <3>7. (w \o x) \o t = w \o (x \o t)  BY ONLY <3>3, Associative, SMTT(40)
    <3> QED  BY <3>4, <3>5, <3>6, <3>7
  <2> QED  BY <2>2, <2>3
<1> QED  BY <1>1, <1>8, Unseen

\* A message in the hand goes into the receiver's pipe.
LEMMA DeliverStep ==
    ASSUME WayInv, WayInv', NEW p \in Pipes, Deliver(p), p \in open
    PROVE  [Service!Next]_(Service!vars)
<1> DEFINE m == hand
<1>1. /\ pc = "send" /\ pc' = "receive" /\ identity[p] = m.to
      /\ down' = [down EXCEPT ![p] = Append(@, m)]
      /\ UNCHANGED <<mandatory, identity, open, up>>
  BY DEF Deliver, Named, dealers
<1>2. m \in Message  BY <1>1 DEF WayInv, RouterInv, HandUsed
<1>3. down \in [Pipes -> Seq(Message)]  BY DEF WayInv, RouterInv, TypeOK
<1>4. down'[p] = Append(down[p], m) /\ \A q \in Pipes : q # p => down'[q] = down[q]
  BY <1>1, <1>3
<1>5. Held = <<m>> /\ Held' = <<>>  BY <1>1 DEF Held
<1> HIDE DEF m
<1>6. ASSUME NEW n \in Names, n # m.to  PROVE Waiting(n)' = Waiting(n)
  <2>1. open \in SUBSET Pipes  BY DEF WayInv, RouterInv, TypeOK
  <2>2. \A q \in open : identity[q] = n => down'[q] = down[q]  BY <1>1, <1>4, <1>6, <2>1
  <2> QED  BY <1>1, <2>2, SameWaiting
<1>7. ASSUME NEW n \in Names, n = identity[p]
      PROVE  Waiting(n) = down[p] /\ Waiting(n)' = Append(down[p], m)
  BY <1>1, <1>4, <1>7, WaitingAtOpen, WaitingAtOpenNext
<1>8. ASSUME NEW q \in Pipes, NEW n \in Names  PROVE Mail'[q][n] = Mail[q][n]
  <2>1. Letters(<<>>, q, n) = <<>>
        /\ Letters(<<m>>, q, n) = IF Of(m, q, n) THEN <<m.number>> ELSE <<>>
    BY <1>2, LettersEmpty, LettersOne
  <2>2. up'[q] = up[q]  BY <1>1
  <2>3. CASE n # m.to
    <3>1. Letters(Held', q, n) = Letters(Held, q, n)  BY <1>5, <2>1, <2>3 DEF Of
    <3> QED  BY <1>6, <2>2, <2>3, <3>1, SameMail
  <2>4. CASE n = m.to
    <3> DEFINE w == Letters(down[p], q, n)
               x == Letters(<<m>>, q, n)
               u == Letters(up[q], q, n)
    <3>1. Waiting(n) = down[p] /\ Waiting(n)' = Append(down[p], m)  BY <1>1, <1>7, <2>4
    <3>2. down[p] \in Seq(Message) /\ up[q] \in Seq(Message) /\ <<m>> \in Seq(Message)
      BY <1>2, <1>3, LettersOne DEF WayInv, RouterInv, TypeOK
    <3>3. Append(down[p], m) = down[p] \o <<m>>  BY <1>2, <3>2, AppendIsConcat
    <3>4. Letters(Append(down[p], m), q, n) = w \o x
      <4> DEFINE one == <<m>>
      <4>1. one \in Seq(Message) /\ down[p] \in Seq(Message)  BY <3>2
      <4> HIDE DEF one
      <4>2. Letters(down[p] \o one, q, n) = Letters(down[p], q, n) \o Letters(one, q, n)
        BY <4>1, LettersConcat, ZenonT(40)
      <4> QED  BY <3>3, <4>2 DEF one
    <3>5. w \in Seq(Numbers) /\ x \in Seq(Numbers) /\ u \in Seq(Numbers)  BY <3>2, LettersType
    <3>6. Mail[q][n] = (w \o x) \o u  BY <1>5, <3>1, MailNow DEF Box
    <3>7. Mail'[q][n] = ((w \o x) \o <<>>) \o u
      <4>1. Mail'[q][n] = Box(Waiting(n)', Held', up'[q], q, n)  BY MailNext
      <4> QED  BY <1>5, <2>1, <2>2, <3>1, <3>4, <4>1 DEF Box
    <3> HIDE DEF w, x, u
    <3>8. w \o x \in Seq(Numbers)  BY ONLY <3>5
    <3>9. (w \o x) \o <<>> = w \o x  BY <3>8, ConcatEmptySeq
    <3> QED  BY <3>6, <3>7, <3>9
  <2> QED  BY <2>3, <2>4
<1> QED  BY <1>1, <1>8, Unseen

\* A message in the hand goes nowhere.
LEMMA HandLost ==
    ASSUME WayInv, WayInv', pc = "send", pc' # "send", UNCHANGED <<identity, open, up, down>>
    PROVE  /\ hand.from \in Pipes /\ hand.to \in Names
           /\ \E i \in DOMAIN Mail[hand.from][hand.to] : Service!Drop(hand.from, hand.to, i)
<1>1. hand \in Message  BY DEF WayInv, RouterInv, HandUsed
<1>2. Held = <<hand>> /\ Held' = <<>>  BY DEF Held
<1>3. PICK m \in Message : m = hand  BY <1>1
<1>4. PICK p \in Pipes, n \in Names : p = m.from /\ n = m.to  BY <1>1, <1>3 DEF Message
<1>5. m.number \in Numbers  BY <1>3 DEF Message, Numbers
<1>6. \A k \in Names : Waiting(k)' = Waiting(k)  BY DEF Waiting, Named
<1>7. \A q \in Pipes, k \in Names :
         /\ Letters(<<>>, q, k) = <<>>
         /\ Letters(<<m>>, q, k) = IF Of(m, q, k) THEN <<m.number>> ELSE <<>>
  BY LettersEmpty, LettersOne
<1>8. ASSUME NEW q \in Pipes, NEW k \in Names, q # p \/ k # n  PROVE Mail'[q][k] = Mail[q][k]
  <2>1. ~Of(m, q, k)  BY <1>4, <1>8 DEF Of
  <2>2. Letters(Held', q, k) = Letters(Held, q, k)  BY <1>2, <1>3, <1>7, <2>1
  <2>3. up'[q] = up[q]  OBVIOUS
  <2> QED  BY <1>6, <2>2, <2>3, SameMail
<1> DEFINE w == Letters(Waiting(n), p, n)
           u == Letters(up[p], p, n)
           e == m.number
<1>9. Waiting(n) \in Seq(Message) /\ up[p] \in Seq(Message)  BY MailNow
<1>10. w \in Seq(Numbers) /\ u \in Seq(Numbers) /\ e \in Numbers  BY <1>5, <1>9, LettersType
<1>11. Of(m, p, n)  BY <1>4 DEF Of
<1>12. Mail[p][n] = (w \o <<e>>) \o u
  <2>1. Mail[p][n] = Box(Waiting(n), Held, up[p], p, n)  BY MailNow
  <2>2. Letters(Held, p, n) = <<e>>  BY <1>2, <1>3, <1>7, <1>11
  <2> QED  BY <2>1, <2>2 DEF Box
<1>13. Mail'[p][n] = (w \o <<>>) \o u
  <2>1. Mail'[p][n] = Box(Waiting(n)', Held', up'[p], p, n)  BY MailNext
  <2>2. Letters(Held', p, n) = <<>>  BY <1>2, <1>7
  <2> QED  BY <1>6, <2>1, <2>2 DEF Box
<1>14. Mail \in [Pipes -> [Names -> Seq(Numbers)]] /\ Mail' \in [Pipes -> [Names -> Seq(Numbers)]]
  BY MailIs, MailIsNext
<1>15. Mail'[p][n] \in Seq(Numbers)  BY MailNext
<1> HIDE DEF w, u, e, Mail
<1>16. Mail'[p][n] = w \o u
  <2>1. w \o <<>> = w  BY <1>10, ConcatEmptySeq
  <2> QED  BY <1>13, <2>1
<1>17. PICK i \in DOMAIN Mail[p][n] : RemoveAt(Mail[p][n], i) = w \o u
  <2> DEFINE box == Mail[p][n]
  <2> DEFINE one == <<e>>
  <2>1. box = (w \o one) \o u  BY <1>12
  <2>2. box \in Seq(Numbers)  BY MailNow
  <2>3. one \in Seq(Numbers) /\ Len(one) = 1  BY <1>10
  <2> HIDE DEF box, one
  <2>4. w \in Seq(Numbers) /\ u \in Seq(Numbers)  BY <1>10
  <2>5. \E i \in DOMAIN ((w \o one) \o u) : RemoveAt((w \o one) \o u, i) = w \o u
    BY ONLY <2>3, <2>4, TakenOut
  <2>6. \E i \in DOMAIN box : RemoveAt(box, i) = w \o u  BY <2>1, <2>5
  <2> QED  BY <2>6 DEF box
<1>18. Mail' = [Mail EXCEPT ![p][n] = w \o u]  BY <1>8, <1>14, <1>15, <1>16, OneBox
<1>19. Service!Without(Mail[p][n], i) = w \o u  BY <1>17 DEF Service!Without, RemoveAt
<1>20. Mail' = [Mail EXCEPT ![p][n] = Service!Without(@, i)]  BY <1>14, <1>18, <1>19
<1>21. Service!Drop(p, n, i)  BY <1>20 DEF Service!Drop
<1> QED  BY <1>3, <1>4, <1>21

\* A message that cannot be delivered.
LEMMA LoseStep ==
    ASSUME WayInv, WayInv', Discard \/ \E p \in Pipes : Deliver(p) /\ p \notin open
    PROVE  \E p \in Pipes, n \in Names : Service!Lose(p, n)
<1>1. /\ pc = "send" /\ pc' = "receive"
      /\ UNCHANGED <<mandatory, identity, open, up, down>>
  BY DEF Deliver, Discard, dealers
<1>2. /\ hand.from \in Pipes /\ hand.to \in Names
      /\ \E i \in DOMAIN Mail[hand.from][hand.to] : Service!Drop(hand.from, hand.to, i)
  BY <1>1, HandLost
<1>3. Service!Excused(hand.to)
  BY DEF Deliver, Discard, Named, Service!Excused
<1>4. (pc = "stopped")' = (pc = "stopped")  BY <1>1
<1>5. Service!Lose(hand.from, hand.to)
  <2> HIDE DEF Mail
  <2> QED  BY <1>1, <1>2, <1>3, <1>4 DEF Service!Lose
<1> QED  BY <1>2, <1>5

\* The router stops, and what it holds is lost.
LEMMA HaltStep ==
    ASSUME WayInv, WayInv', Unreachable \/ Interrupted
    PROVE  Service!Halt
<1>1. /\ pc # "stopped" /\ pc' = "stopped"
      /\ UNCHANGED <<mandatory, identity, open, up, down>>
  BY DEF Unreachable, Interrupted, dealers
<1>2. CASE pc = "send"
  <2>1. /\ hand.from \in Pipes /\ hand.to \in Names
        /\ \E i \in DOMAIN Mail[hand.from][hand.to] : Service!Drop(hand.from, hand.to, i)
    BY <1>1, <1>2, HandLost
  <2> HIDE DEF Mail
  <2> QED  BY <1>1, <2>1 DEF Service!Halt
<1>3. CASE pc # "send"
  <2>1. Held' = Held  BY <1>1, <1>3 DEF Held
  <2>2. ASSUME NEW q \in Pipes, NEW n \in Names  PROVE Mail'[q][n] = Mail[q][n]
    <3>1. Waiting(n)' = Waiting(n)  BY <1>1 DEF Waiting, Named
    <3>2. up'[q] = up[q]  BY <1>1
    <3> QED  BY <2>1, <3>1, <3>2, SameMail
  <2>3. Mail \in [Pipes -> [Names -> Seq(Numbers)]] /\ Mail' \in [Pipes -> [Names -> Seq(Numbers)]]
    BY MailIs, MailIsNext
  <2> HIDE DEF Mail
  <2>4. Mail' = Mail  BY <2>2, <2>3, SameBoxes
  <2> QED  BY <1>1, <2>4 DEF Service!Halt
<1> QED  BY <1>2, <1>3

\* y is what SubSeq leaves of box without the front x and the back b.
Part(x, y, b, box) ==
    \E first \in 1 .. Len(box) + 1, last \in 0 .. Len(box) :
       /\ x = <<>> => first = 1
       /\ b = <<>> => last = Len(box)
       /\ y = SubSeq(box, first, last)

\* It is what SubSeq makes of the way, with these bounds.
LEMMA PartOfWay ==
    ASSUME NEW T, NEW x \in Seq(T), NEW y \in Seq(T), NEW b \in Seq(T)
    PROVE  Part(x, y, b, (x \o y) \o b)
<1> DEFINE xy == x \o y
           box == (x \o y) \o b
<1>1. xy \in Seq(T) /\ Len(xy) = Len(x) + Len(y)  BY ConcatProperties
<1>2. Len(xy \o b) = Len(xy) + Len(b)
  <2> HIDE DEF xy
  <2> QED  BY <1>1, ConcatProperties
<1>3. Len(box) = Len(x) + Len(y) + Len(b)  BY <1>1, <1>2
<1>4. Len(x) \in Nat /\ Len(y) \in Nat /\ Len(b) \in Nat  OBVIOUS
<1>5. x = <<>> => Len(x) + 1 = 1  BY EmptySeq
<1>6. b = <<>> => Len(x) + Len(y) = Len(box)  BY <1>3, <1>4, EmptySeq
<1>7. Len(x) + 1 \in 1 .. Len(box) + 1 /\ Len(x) + Len(y) \in 0 .. Len(box)  BY <1>3, <1>4
<1>8. SubSeq((x \o y) \o b, Len(x) + 1, Len(x) + Len(y)) = y  BY MiddleOf
<1> HIDE DEF xy
<1>9. y = SubSeq(box, Len(x) + 1, Len(x) + Len(y))  BY <1>8
<1> HIDE DEF box
<1>10. Part(x, y, b, box)  BY <1>5, <1>6, <1>7, <1>9 DEF Part
<1> QED  BY <1>10 DEF box

\* With its dealer, a node loses what waits for it and some of what it sent last.
LEMMA CloseStep ==
    ASSUME WayInv, WayInv', NEW q \in Pipes, Close(q)
    PROVE  Service!Leave(q)
<1>1. /\ q \in open /\ open' = open \ {q} /\ down' = [down EXCEPT ![q] = <<>>]
      /\ UNCHANGED <<mandatory, identity, hand, pc>>
  BY DEF Close
<1>2. PICK kept \in 0 .. Len(up[q]) : up' = [up EXCEPT ![q] = SubSeq(@, 1, kept)]
  BY DEF Close
<1>3. up \in [Pipes -> Seq(Message)] /\ down \in [Pipes -> Seq(Message)] /\ open \in SUBSET Pipes
  BY DEF WayInv, RouterInv, TypeOK
<1>4. PICK id \in Names : id = identity[q]  BY <1>1, WaitingAtOpen
<1>5. Waiting(id)' = <<>>
  <2>1. \A r \in open' : identity'[r] # id  BY <1>1, <1>4 DEF WayInv, OpenPipes
  <2>2. WaitingOf(open', identity', down', id) = <<>>  BY ONLY <2>1, WaitingNone
  <2> QED  BY <2>2, MailNext
<1>6. ASSUME NEW n \in Names, n # id  PROVE Waiting(n)' = Waiting(n)
  <2>1. Waiting(n) = WaitingOf(open, identity, down, n)
        /\ Waiting(n)' = WaitingOf(open', identity', down', n)
    BY DEF Waiting, WaitingOf, Named
  <2>2. \A r \in open : identity[r] = n => r # q /\ r \in open' /\ down'[r] = down[r]
    BY <1>1, <1>3, <1>4, <1>6
  <2>3. /\ \A r, t \in open : identity[r] = identity[t] => r = t
        /\ \A r, t \in open' : identity'[r] = identity'[t] => r = t
    BY DEF WayInv, OpenPipes
  <2>4. ASSUME NEW r \in open, identity[r] = n  PROVE Waiting(n)' = Waiting(n)
    <3>1. WaitingOf(open, identity, down, identity[r]) = down[r]  BY <2>3, WaitingAt
    <3>2. r \in open' /\ \A t, s \in open' : identity'[t] = identity'[s] => t = s
      BY <2>2, <2>3, <2>4
    <3>3. WaitingOf(open', identity', down', identity'[r]) = down'[r]  BY ONLY <3>2, WaitingAt
    <3> QED  BY <1>1, <2>1, <2>2, <2>4, <3>1, <3>3
  <2>5. CASE \A r \in open : identity[r] # n
    <3>1. \A r \in open' : identity'[r] # n  BY <1>1, <2>5
    <3>2. WaitingOf(open', identity', down', n) = <<>>  BY ONLY <3>1, WaitingNone
    <3>3. WaitingOf(open, identity, down, n) = <<>>  BY ONLY <2>5, WaitingNone
    <3> QED  BY <2>1, <3>2, <3>3
  <2> QED  BY <2>4, <2>5
<1>7. Held' = Held  BY <1>1 DEF Held
<1> DEFINE front == SubSeq(up[q], 1, kept)
           back == SubSeq(up[q], kept + 1, Len(up[q]))
<1>8. front \in Seq(Message) /\ back \in Seq(Message) /\ front \o back = up[q]
  <2>1. up[q] \in Seq(Message) /\ kept \in 0 .. Len(up[q])  BY <1>3
  <2> QED  BY ONLY <2>1, CutInTwo
<1>9. up'[q] = front /\ \A p \in Pipes : p # q => up'[p] = up[p]  BY <1>2, <1>3
<1> HIDE DEF front, back
<1>10. ASSUME NEW p \in Pipes, NEW n \in Names
       PROVE  LET box == Mail[p][n]
              IN  \/ Mail'[p][n] = box
                  \/ /\ p = q \/ n = identity[q]
                     /\ \E first \in 1 .. Len(box) + 1, last \in 0 .. Len(box) :
                           /\ n = identity[q] \/ first = 1
                           /\ p = q \/ last = Len(box)
                           /\ Mail'[p][n] = SubSeq(box, first, last)
  <2>1. CASE p # q /\ n # id
    <3>1. up'[p] = up[p] /\ Waiting(n)' = Waiting(n)  BY <1>6, <1>9, <2>1
    <3>2. Mail'[p][n] = Mail[p][n]  BY <1>7, <3>1, SameMail
    <3> QED  BY <3>2
  <2>2. CASE p = q \/ n = id
    <3> DEFINE w == Letters(Waiting(n), p, n)
               h == Letters(Held, p, n)
               x == IF n = id THEN w ELSE <<>>
               v == IF n = id THEN <<>> ELSE w
               a == IF p = q THEN Letters(front, p, n) ELSE Letters(up[p], p, n)
               b == IF p = q THEN Letters(back, p, n) ELSE <<>>
    <3>1. Waiting(n) \in Seq(Message) /\ Held \in Seq(Message) /\ up[p] \in Seq(Message)
      BY MailNow
    <3>2. w \in Seq(Numbers) /\ h \in Seq(Numbers) /\ Letters(up[p], p, n) \in Seq(Numbers)
          /\ Letters(front, p, n) \in Seq(Numbers) /\ Letters(back, p, n) \in Seq(Numbers)
      BY <1>8, <3>1, LettersType
    <3>3. w = x \o v
      <4> HIDE DEF w
      <4>1. w \o <<>> = w /\ <<>> \o w = w  BY <3>2, ConcatEmptySeq
      <4> QED  BY <4>1
    <3>4. Letters(up[p], p, n) = a \o b
      <4>1. CASE p = q
        <5>1. Letters(front \o back, p, n) = Letters(front, p, n) \o Letters(back, p, n)
          BY <1>8, LettersConcat
        <5> QED  BY <1>8, <4>1, <5>1
      <4>2. CASE p # q
        <5>1. Letters(up[p], p, n) \o <<>> = Letters(up[p], p, n)  BY <3>2, ConcatEmptySeq
        <5> QED  BY <4>2, <5>1
      <4> QED  BY <4>1, <4>2
    <3>5. Letters(up'[p], p, n) = a  BY <1>9
    <3>6. Letters(Waiting(n)', p, n) = v
      <4>1. CASE n = id
        <5>1. Waiting(n)' = <<>>  BY <1>5, <4>1
        <5> QED  BY <4>1, <5>1, LettersEmpty
      <4>2. CASE n # id
        <5>1. Waiting(n)' = Waiting(n)  BY <1>6, <4>2
        <5> QED  BY <4>2, <5>1
      <4> QED  BY <4>1, <4>2
    <3>7. Mail[p][n] = ((x \o v) \o h) \o (a \o b)  BY <3>3, <3>4, MailNow DEF Box
    <3>8. Mail'[p][n] = (v \o h) \o a
      <4>1. Mail'[p][n] = Box(Waiting(n)', Held', up'[p], p, n)  BY MailNext
      <4> QED  BY <1>7, <3>5, <3>6, <4>1 DEF Box
    <3>9. x \in Seq(Numbers) /\ v \in Seq(Numbers) /\ h \in Seq(Numbers)
          /\ a \in Seq(Numbers) /\ b \in Seq(Numbers)
      BY <3>2
    <3>10. (n # id => x = <<>>) /\ (p # q => b = <<>>)  OBVIOUS
    <3> HIDE DEF w, h, x, v, a, b
    <3> DEFINE y == (v \o h) \o a
               box == Mail[p][n]
    <3>11. y \in Seq(Numbers) /\ ((x \o v) \o h) \o (a \o b) = (x \o y) \o b
      <4> DEFINE vh == v \o h
                 xvh == x \o vh
      <4>1. x \in Seq(Numbers) /\ v \in Seq(Numbers) /\ h \in Seq(Numbers)  BY <3>9
      <4>2. (x \o v) \o h = xvh  BY ONLY <4>1, Associative, SMTT(40)
      <4>3. x \in Seq(Numbers) /\ vh \in Seq(Numbers) /\ a \in Seq(Numbers)  BY <3>9
      <4>4. y = vh \o a  OBVIOUS
      <4> HIDE DEF vh, y
      <4>5. xvh \o a = x \o (vh \o a)  BY ONLY <4>3, Associative, SMTT(40)
      <4>6. y \in Seq(Numbers)  BY <4>3, <4>4
      <4>7. xvh \in Seq(Numbers) /\ a \in Seq(Numbers) /\ b \in Seq(Numbers)  BY <3>9, <4>3
      <4> HIDE DEF xvh
      <4>8. (xvh \o a) \o b = xvh \o (a \o b)  BY ONLY <4>7, Associative, SMTT(40)
      <4> QED  BY <4>2, <4>4, <4>5, <4>6, <4>8
    <3>12. box = (x \o y) \o b /\ Mail'[p][n] = y  BY <3>7, <3>8, <3>11
    <3>13. x \in Seq(Numbers) /\ y \in Seq(Numbers) /\ b \in Seq(Numbers)  BY <3>9, <3>11
    <3> HIDE DEF y, box
    <3>14. Part(x, y, b, box)
      <4>1. Part(x, y, b, (x \o y) \o b)  BY ONLY <3>13, PartOfWay
      <4> QED  BY <3>12, <4>1
    <3>15. \E first \in 1 .. Len(box) + 1, last \in 0 .. Len(box) :
              /\ n = identity[q] \/ first = 1
              /\ p = q \/ last = Len(box)
              /\ Mail'[p][n] = SubSeq(box, first, last)
      BY <1>4, <3>10, <3>12, <3>14 DEF Part
    <3> QED  BY <1>4, <2>2, <3>15 DEF box
  <2> QED  BY <2>1, <2>2
<1>11. (pc = "stopped")' = (pc = "stopped")  BY <1>1
<1> HIDE DEF Mail
<1> QED  BY <1>1, <1>10, <1>11 DEF Service!Leave

-----------------------------------------------------------------------------
\* All mailboxes are empty at first.
LEMMA InitMail == Init => Service!Init
<1> SUFFICES ASSUME Init  PROVE Service!Init  OBVIOUS
<1>1. ASSUME NEW p \in Pipes, NEW n \in Names
      PROVE  Letters(Waiting(n) \o Held \o up[p], p, n) = <<>>
  <2>1. Waiting(n) = <<>> /\ Held = <<>> /\ up[p] = <<>>
    BY DEF Init, Waiting, Named, Held
  <2>2. <<>> \in Seq(Message)  OBVIOUS
  <2>3. <<>> \o <<>> = <<>>  BY <2>2, ConcatEmptySeq
  <2> QED  BY <2>1, <2>3, LettersEmpty
<1>2. Mail = [p \in Pipes |-> [n \in Names |-> <<>>]]  BY <1>1 DEF Mail
<1>3. (pc = "stopped") = FALSE  BY DEF Init
<1> HIDE DEF Mail
<1> QED  BY <1>2, <1>3 DEF Init, Service!Init

\* Each step of the router, and of the nodes, is one of the service or none.
LEMMA ServiceStep ==
    ASSUME WayInv, WayInv', [Next]_vars  PROVE [Service!Next]_(Service!vars)
<1>1. ASSUME NEW p \in Pipes, NEW n \in Names, Connect(p, n)
      PROVE  [Service!Next]_(Service!vars)
  <2>1. Service!Join(p, n)  BY <1>1, ConnectStep
  <2> QED  BY <2>1 DEF Service!Next
<1>2. ASSUME NEW p \in Pipes, NEW n \in Names, Send(p, n)
      PROVE  [Service!Next]_(Service!vars)
  <2>1. Service!Post(p, n, sent[p] + 1) /\ sent[p] + 1 \in 1 .. MaxSent  BY <1>2, SendStep
  <2> QED  BY <2>1 DEF Service!Next
<1>3. ASSUME NEW q \in Pipes, Recv(q)  PROVE [Service!Next]_(Service!vars)
  <2>1. q \in open  BY <1>3 DEF Recv
  <2>2. PICK n \in Names : n = identity[q]  BY <2>1, WaitingAtOpen
  <2>3. [\E p \in Pipes : Service!Take(q, p)]_(Service!vars)  BY <1>3, <2>2, RecvStep
  <2> QED  BY <2>3 DEF Service!Next
<1>4. ASSUME NEW q \in Pipes, Close(q)  PROVE [Service!Next]_(Service!vars)
  <2>1. Service!Leave(q)  BY <1>4, CloseStep
  <2> QED  BY <2>1 DEF Service!Next
<1>5. ASSUME NEW p \in Pipes, Attach(p) \/ Detach(p)  PROVE [Service!Next]_(Service!vars)
  BY <1>5, AttachStep
<1>6. ASSUME NEW p \in Pipes, Receive(p)  PROVE [Service!Next]_(Service!vars)
  BY <1>6, ReceiveStep
<1>7. ASSUME NEW p \in Pipes, Deliver(p), p \in open  PROVE [Service!Next]_(Service!vars)
  BY <1>7, DeliverStep
<1>8. CASE Discard \/ \E p \in Pipes : Deliver(p) /\ p \notin open
  <2>1. \E p \in Pipes, n \in Names : Service!Lose(p, n)  BY <1>8, LoseStep
  <2> QED  BY <2>1 DEF Service!Next
<1>9. CASE Unreachable \/ Interrupted
  <2>1. Service!Halt  BY <1>9, HaltStep
  <2> QED  BY <2>1 DEF Service!Next
<1>10. CASE UNCHANGED vars
  <2>1. UNCHANGED <<mandatory, identity, open, up, down, hand, pc>>  BY <1>10 DEF vars, dealers
  <2>2. Held' = Held  BY <2>1 DEF Held
  <2>3. ASSUME NEW q \in Pipes, NEW n \in Names  PROVE Mail'[q][n] = Mail[q][n]
    <3>1. Waiting(n)' = Waiting(n)  BY <2>1 DEF Waiting, Named
    <3>2. up'[q] = up[q]  BY <2>1
    <3> QED  BY <2>2, <3>1, <3>2, SameMail
  <2> QED  BY <2>1, <2>3, Unseen
<1> QED  BY <1>1, <1>2, <1>3, <1>4, <1>5, <1>6, <1>7, <1>8, <1>9, <1>10 DEF Next, Dispatch

\* qsf_node_send, dispatch_message and qsf_node_recv are mailboxes for each sender and
\* receiver's name: in order and without duplicates; with router_mandatory a message is lost
\* only if a namesake of its receiver or its sender has left, or the process halts.
THEOREM RouterImplementsMessageService == Spec => ImplementsMessageService
<1>1. Init => OpenPipes  BY InitOpen
<1>2. RouterInv /\ OpenPipes /\ [Next]_vars => OpenPipes'
  BY OpenStep DEF RouterInv
<1>3. RouterInv /\ OpenPipes /\ RouterInv' /\ OpenPipes' /\ [Next]_vars
         => [Service!Next]_(Service!vars)
  BY ServiceStep DEF WayInv
<1>4. Init => Service!Init  BY InitMail
<1> QED
  BY <1>1, <1>2, <1>3, <1>4, RouterInvariance, PTL
     DEF Spec, ImplementsMessageService, Service!Spec
=============================================================================
