----------------------- MODULE ScriptLibraries_proofs ------------------------
(***************************************************************************)
(* Proofs about the libraries of scripts, for every value of the           *)
(* constants: each library's invariant is kept by its own steps, and no    *)
(* step of another library touches its variables.                          *)
(***************************************************************************)
EXTENDS ScriptLibraries, SequenceLemmas, FiniteSetTheorems, TLAPS

-----------------------------------------------------------------------------
(* zlib: ZlibFilter *)

\* What a stream may be passed.
Item == Data \cup {Mark, Flaw}

\* The items before the first Mark or Flaw.
LEMMA PlainFront ==
    ASSUME NEW s \in Seq(Item)
    PROVE  \E n \in 0 .. Len(s) :
              /\ Plain(s) = SubSeq(s, 1, n)
              /\ \A i \in 1 .. n : s[i] \in Data
              /\ n < Len(s) => s[n + 1] \in {Mark, Flaw}
<1> DEFINE stops == {i \in DOMAIN s : s[i] \in {Mark, Flaw}}
<1>1. /\ Len(s) \in Nat /\ DOMAIN s = 1 .. Len(s)
      /\ \A i \in 1 .. Len(s) : s[i] \in Data \/ s[i] \in {Mark, Flaw}
  BY DEF Item
<1>2. Plain(s) = IF stops = {} THEN s ELSE SubSeq(s, 1, Min(stops) - 1)  BY SMTT(40) DEF Plain
<1>3. CASE stops = {}
  <2>1. \A i \in 1 .. Len(s) : s[i] \in Data  BY <1>1, <1>3
  <2>2. SubSeq(s, 1, Len(s)) = s
    <3>1. /\ SubSeq(s, 1, Len(s)) \in Seq(Item) /\ Len(SubSeq(s, 1, Len(s))) = Len(s)
          /\ \A i \in 1 .. Len(s) : SubSeq(s, 1, Len(s))[i] = s[i]
      <4>1. Len(s) \in 0 .. Len(s)  BY <1>1
      <4> QED  BY <4>1, CutInTwo
    <3> QED  BY <3>1, SeqEqual
  <2>3. Len(s) \in 0 .. Len(s) /\ ~(Len(s) < Len(s))  BY <1>1
  <2> QED  BY <1>2, <1>3, <2>1, <2>2, <2>3
<1>4. CASE stops # {}
  <2> DEFINE m == Min(stops)
  <2>1. m \in stops /\ \A k \in stops : m <= k
    <3>1. stops \in SUBSET Nat  BY <1>1
    <3> HIDE DEF stops
    <3> QED  BY <1>4, <3>1, MinIsLeast
  <2> HIDE DEF m
  <2>2. m \in 1 .. Len(s) /\ s[m] \in {Mark, Flaw}  BY <1>1, <2>1
  <2>3. m - 1 \in 0 .. Len(s) /\ (m - 1) + 1 = m  BY <1>1, <2>2
  <2>4. \A i \in 1 .. m - 1 : s[i] \in Data
    <3> SUFFICES ASSUME NEW i \in 1 .. m - 1  PROVE s[i] \in Data  OBVIOUS
    <3>1. i \in 1 .. Len(s) /\ ~(m <= i)  BY <1>1, <2>2
    <3> QED  BY <1>1, <2>1, <3>1
  <2>5. Plain(s) = SubSeq(s, 1, m - 1)  BY <1>2, <1>4 DEF m
  <2> QED  BY <2>2, <2>3, <2>4, <2>5
<1> QED  BY <1>3, <1>4

\* Of these a call of libz takes the first; the unread begins where it stopped.
LEMMA PlainType ==
    ASSUME NEW s \in Seq(Item)
    PROVE  /\ Plain(s) \in Seq(Data) /\ Len(Plain(s)) \in 0 .. Len(s)
           /\ \A i \in 1 .. Len(Plain(s)) : s[i] \in Data
<1>1. PICK n \in 0 .. Len(s) : /\ Plain(s) = SubSeq(s, 1, n)
                               /\ \A i \in 1 .. n : s[i] \in Data
  BY PlainFront
<1>2. n \in Nat /\ 1 \in Int /\ n \in Int /\ (1 <= n => n - 1 + 1 = n) /\ (~(1 <= n) => n = 0)
  OBVIOUS
<1>3. /\ SubSeq(s, 1, n) \in Seq(Data)
      /\ Len(SubSeq(s, 1, n)) = IF 1 <= n THEN n - 1 + 1 ELSE 0
  BY <1>1, <1>2, SubSeqProperties
<1>4. Len(SubSeq(s, 1, n)) = n  BY <1>2, <1>3
<1> QED  BY <1>1, <1>3, <1>4

\* What has neither is plain.
LEMMA PlainIsWhole ==
    ASSUME NEW s \in Seq(Data)  PROVE s \in Seq(Item) /\ Plain(s) = s
<1>1. s \in Seq(Item)  BY DEF Item
<1>2. {i \in DOMAIN s : s[i] \in {Mark, Flaw}} = {}
  <2>1. \A i \in DOMAIN s : s[i] \in Data  OBVIOUS
  <2> QED  BY <2>1, FilterAssumption
<1> QED  BY <1>1, <1>2 DEF Plain

\* What is before the first of them is plain.
LEMMA PlainCut ==
    ASSUME NEW x \in Seq(Data), NEW e \in {Mark, Flaw}, NEW y \in Seq(Item)
    PROVE  Plain(x \o (<<e>> \o y)) = x
<1> DEFINE t == <<e>> \o y
           s == x \o t
           l == Len(x)
<1>1. x \in Seq(Item)  BY PlainIsWhole
<1>2. t \in Seq(Item) /\ Len(t) = 1 + Len(y) /\ t[1] = e
  <2>1. <<e>> \in Seq(Item) /\ Len(<<e>>) = 1 /\ <<e>>[1] = e  BY DEF Item
  <2>2. Len(y) \in Nat /\ 1 \in 1 .. 1 + Len(y)  OBVIOUS
  <2> QED  BY <2>1, <2>2, ConcatProperties
<1> HIDE DEF t
<1>3. l \in Nat /\ Len(t) \in Nat /\ l + 1 \in 1 .. l + Len(t) /\ ~(l + 1 <= l) /\ (l + 1) - l = 1
  <2>1. l \in Nat /\ Len(y) \in Nat  OBVIOUS
  <2> HIDE DEF l
  <2> QED  BY <1>2, <2>1
<1>4. /\ s \in Seq(Item) /\ Len(s) = l + Len(t)
      /\ \A i \in 1 .. l + Len(t) : s[i] = IF i <= l THEN x[i] ELSE t[i - l]
  <2>1. x \in Seq(Item) /\ t \in Seq(Item)  BY <1>1, <1>2
  <2>2. /\ x \o t \in Seq(Item) /\ Len(x \o t) = Len(x) + Len(t)
        /\ \A i \in 1 .. Len(x) + Len(t) : (x \o t)[i] = IF i <= Len(x) THEN x[i] ELSE t[i - Len(x)]
    BY ONLY <2>1, ConcatProperties
  <2> QED  BY ONLY <2>2
<1>5. \A i \in 1 .. l : x[i] \in Data /\ x[i] = s[i]
  <2>1. \A i \in 1 .. l : x[i] \in Data  OBVIOUS
  <2>2. \A i \in 1 .. l : i \in 1 .. l + Len(t) /\ i <= l  BY <1>3
  <2> QED  BY <1>4, <2>1, <2>2
<1>6. s[l + 1] = e  BY <1>2, <1>3, <1>4
<1> HIDE DEF s
<1>7. PICK n \in 0 .. Len(s) : /\ Plain(s) = SubSeq(s, 1, n)
                               /\ \A i \in 1 .. n : s[i] \in Data
                               /\ n < Len(s) => s[n + 1] \in {Mark, Flaw}
  BY <1>4, PlainFront
<1>8. n = l
  <2>1. n \in Nat /\ n <= Len(s) /\ l < Len(s)
    BY <1>2, <1>3, <1>4
  <2>2. e \notin Data  BY FilterAssumption
  <2>3. ~(l < n)
    <3> SUFFICES ASSUME l < n  PROVE FALSE  OBVIOUS
    <3>1. l + 1 \in 1 .. n  BY <1>3, <2>1
    <3> QED  BY <1>6, <1>7, <2>2, <3>1
  <2>4. ~(n < l)
    <3> SUFFICES ASSUME n < l  PROVE FALSE  OBVIOUS
    <3>1. n + 1 \in 1 .. l /\ n < Len(s)  BY <1>3, <2>1
    <3> QED  BY <1>5, <1>7, <3>1, FilterAssumption
  <2> QED  BY <1>3, <2>1, <2>3, <2>4
<1>9. /\ SubSeq(s, 1, n) \in Seq(Item) /\ Len(SubSeq(s, 1, n)) = n
      /\ \A i \in 1 .. n : SubSeq(s, 1, n)[i] = s[i]
  BY <1>4, CutInTwo
<1>10. SubSeq(s, 1, n) = x
  <2>1. \A i \in 1 .. l : SubSeq(s, 1, n)[i] = x[i]  BY <1>5, <1>8, <1>9
  <2>2. Len(SubSeq(s, 1, n)) = Len(x)  BY <1>8, <1>9
  <2> QED  BY <1>1, <1>9, <2>1, <2>2, SeqEqual
<1> QED  BY <1>7, <1>10 DEF s, t

\* Everything the stream holds is of its type; Mark and Flaw are not passed on.
FilterHolds ==
    /\ kind \in {"deflate", "inflate"}
    /\ inside \in Seq(Data) /\ buff \in Seq(Data) /\ shown \in Seq(Data)
    /\ input \in Seq(Item) /\ given \in Seq(Item)
    /\ kind = "deflate" => given \in Seq(Data)
    /\ flush # "none" => kind = "deflate"

\* An open stream holds what it was given: between two calls inside libz only.
FilterFlow ==
    zstate = "open" =>
        /\ stage = "idle" => remainder = <<>> /\ shown \o inside = given
        /\ stage # "idle" => ((shown \o buff) \o inside) \o input = given

\* A stream that has come to its end has put out what was plain, and the call in which
\* it did is not over; after it the closure has let go of it.
FilterEnds ==
    /\ zstate = "done" => stage # "idle" /\ shown \o buff = Plain(given)
    /\ ~handle => zstate = "ended" /\ stage = "idle" /\ shown = Plain(given)

\* The loop is left when libz has put out what it was to put out.
FilterLeaves ==
    stage = "leave" =>
        /\ zstate \in {"open", "done"}
        /\ result = "end" <=> zstate = "done"
        /\ zstate = "open" => input = <<>> /\ (flush # "none" => inside = <<>>)

\* The invariant of a stream.
FilterInv == /\ FilterTypeOK /\ FilterHolds /\ FilterFlow /\ FilterEnds /\ FilterLeaves
             /\ meta <=> zstate # "ended"

\* A new stream.
LEMMA InitFilter == FilterInit => FilterInv
<1> SUFFICES ASSUME FilterInit  PROVE FilterInv  OBVIOUS
<1>1. FilterTypeOK
  <2>1. Room \in 0 .. Room  BY FilterAssumption
  <2> QED  BY <2>1 DEF FilterInit, FilterTypeOK
<1>2. FilterHolds  BY DEF FilterInit, FilterHolds
<1>3. FilterFlow
  <2>1. <<>> \o <<>> = <<>>  BY ConcatEmptySeq
  <2> QED  BY <2>1 DEF FilterInit, FilterFlow
<1>4. FilterEnds  BY DEF FilterInit, FilterEnds
<1>5. FilterLeaves  BY DEF FilterInit, FilterLeaves
<1>6. meta <=> zstate # "ended"  BY DEF FilterInit
<1> QED  BY <1>1, <1>2, <1>3, <1>4, <1>5, <1>6 DEF FilterInv

\* The invariant says that the stream is whole.
LEMMA FilterWhole == FilterInv => StreamWhole
<1> SUFFICES ASSUME FilterInv  PROVE StreamWhole  OBVIOUS
<1>1. ContentKept
  <2>1. /\ shown \in Seq(Item) /\ inside \in Seq(Item)
    BY PlainIsWhole DEF FilterInv, FilterHolds
  <2>2. shown \o <<>> = shown /\ (shown \o inside) \o <<>> = shown \o inside
    <3>1. shown \o inside \in Seq(Item)  BY <2>1
    <3> QED  BY <2>1, <3>1, ConcatEmptySeq
  <2> QED  BY <2>2 DEF ContentKept, FilterInv, FilterFlow
<1>2. EndsWhole  BY DEF EndsWhole, FilterInv, FilterEnds
<1> QED  BY <1>1, <1>2 DEF StreamWhole

\* A call of the closure.
LEMMA EnterStep ==
    ASSUME FilterInv, NEW piece \in Pieces, NEW option \in {"none", "sync", "finish"},
           Enter(piece, option)
    PROVE  FilterInv'
<1>1. FilterTypeOK /\ FilterHolds /\ FilterFlow /\ FilterEnds /\ FilterLeaves
      /\ (meta <=> zstate # "ended")
  BY DEF FilterInv
<1>2. ASSUME NEW a, a \in {"more", "end", "error"}, Answer(a), UNCHANGED given
      PROVE  FilterInv'
  <2>1. /\ answer' = a
        /\ UNCHANGED <<kind, zstate, handle, meta, remainder, inside, stage, input, flush, buff,
                       room, result, shown, given>>
    BY <1>2 DEF Answer, filterState, filterCall
  <2>2. FilterTypeOK'  BY <1>1, <1>2, <2>1 DEF FilterTypeOK
  <2>3. FilterHolds'  BY <1>1, <2>1 DEF FilterHolds
  <2>4. FilterFlow'  BY <1>1, <2>1 DEF FilterFlow
  <2>5. FilterEnds'  BY <1>1, <2>1 DEF FilterEnds, Plain
  <2>6. FilterLeaves'  BY <1>1, <2>1 DEF FilterLeaves
  <2> QED  BY <1>1, <2>1, <2>2, <2>3, <2>4, <2>5, <2>6 DEF FilterInv
<1>3. CASE /\ stage = "idle" /\ handle
           /\ kind = "inflate" => option = "none"
           /\ kind = "deflate" => piece = Plain(piece)
           /\ input' = WholeInput(piece) /\ flush' = option /\ buff' = <<>>
           /\ given' = given \o piece /\ stage' = "turn" /\ answer' = "none"
           /\ UNCHANGED <<filterState, remainder, inside, room, result, shown>>
  <2>1. UNCHANGED <<kind, zstate, handle, meta, remainder, inside, room, result, shown>>
    BY <1>3 DEF filterState
  <2>2. piece \in Seq(Item) /\ remainder \in Seq(Item) /\ given \in Seq(Item)
        /\ inside \in Seq(Item) /\ shown \in Seq(Item)
    BY <1>1, FilterAssumption, PlainIsWhole DEF FilterTypeOK, FilterHolds, Item
  <2>3. input' = piece \o remainder /\ input' \in Seq(Item) /\ given' \in Seq(Item)
    BY <1>3, <2>2 DEF WholeInput
  <2>4. FilterTypeOK'  BY <1>1, <1>3, <2>1 DEF FilterTypeOK
  <2>5. FilterHolds'
    <3>1. kind = "deflate" => given' \in Seq(Data)
      <4> SUFFICES ASSUME kind = "deflate"  PROVE given' \in Seq(Data)  OBVIOUS
      <4>1. piece \in Seq(Data)  BY <1>3, <2>2, PlainType
      <4>2. given \in Seq(Data)  BY <1>1 DEF FilterHolds
      <4> QED  BY <1>3, <4>1, <4>2
    <3>2. flush' # "none" => kind = "deflate"  BY <1>1, <1>3 DEF FilterHolds
    <3>3. buff' \in Seq(Data)  BY <1>3
    <3> QED  BY <1>1, <2>1, <2>3, <3>1, <3>2, <3>3 DEF FilterHolds
  <2>6. FilterFlow'
    <3> SUFFICES ASSUME zstate = "open"
                 PROVE  ((shown \o <<>>) \o inside) \o input' = given'
      BY <1>3, <2>1 DEF FilterFlow
    <3>1. remainder = <<>> /\ shown \o inside = given  BY <1>1, <1>3 DEF FilterFlow
    <3>2. input' = piece /\ shown \o <<>> = shown  BY <2>2, <2>3, <3>1, ConcatEmptySeq
    <3> QED  BY <1>3, <3>1, <3>2
  <2>7. FilterEnds'
    <3>1. zstate # "done"  BY <1>1, <1>3 DEF FilterEnds
    <3> QED  BY <1>3, <2>1, <3>1 DEF FilterEnds
  <2>8. FilterLeaves'  BY <1>3 DEF FilterLeaves
  <2> QED  BY <1>1, <2>1, <2>4, <2>5, <2>6, <2>7, <2>8 DEF FilterInv
<1> QED  BY <1>2, <1>3 DEF Enter

\* What libz takes and puts out is the next of the same stream.
LEMMA LibzTakes ==
    ASSUME FilterHolds, NEW n \in 0 .. Len(Plain(input)), NEW m \in Nat,
           m <= Len(inside) + n, Takes(n, m)
    PROVE  LET unread == SubSeq(input, n + 1, Len(input))
           IN  /\ inside' \in Seq(Data) /\ buff' \in Seq(Data) /\ unread \in Seq(Item)
               /\ ((shown \o buff') \o inside') \o unread = ((shown \o buff) \o inside) \o input
               /\ m = Len(inside) + n => inside' = <<>>
               /\ m = 0 => buff' = buff
<1> DEFINE unread == SubSeq(input, n + 1, Len(input))
           first == SubSeq(input, 1, n)
           have == inside \o first
           h == SubSeq(have, 1, m)
           k == SubSeq(have, m + 1, Len(have))
<1>1. inside \in Seq(Data) /\ buff \in Seq(Data) /\ shown \in Seq(Data) /\ input \in Seq(Item)
  BY DEF FilterHolds
<1>2. Len(Plain(input)) \in 0 .. Len(input) /\ \A i \in 1 .. Len(Plain(input)) : input[i] \in Data
  BY <1>1, PlainType
<1>3. n \in 0 .. Len(input) /\ n \in Nat
  <2>1. Len(input) \in Nat  BY <1>1
  <2> QED  BY <1>2, <2>1
<1>4. \A i \in 1 .. n : input[i] \in Data
  <2>1. \A i \in 1 .. n : i \in 1 .. Len(Plain(input))  BY <1>2
  <2> QED  BY <1>2, <2>1
<1>5. first \in Seq(Data) /\ Len(first) = n
  <2>1. Len(first) = n  BY <1>1, <1>3, CutInTwo
  <2>2. first \in Seq(Data)  BY <1>3, <1>4, SubSeqProperties
  <2> QED  BY <2>1, <2>2
<1>6. unread \in Seq(Item) /\ first \o unread = input  BY <1>1, <1>3, CutInTwo
<1> HIDE DEF first, unread
<1>7. have \in Seq(Data) /\ Len(have) = Len(inside) + n  BY <1>1, <1>5, ConcatProperties
<1>8. inside' = k /\ buff' = buff \o h  BY DEF Takes, first
<1> HIDE DEF have
<1>9. m \in 0 .. Len(have)
  <2>1. Len(inside) \in Nat  BY <1>1
  <2> QED  BY <1>3, <1>7, <2>1
<1>10. h \in Seq(Data) /\ k \in Seq(Data) /\ h \o k = have /\ Len(k) = Len(have) - m
       /\ Len(h) = m
  BY <1>7, <1>9, CutInTwo, ZenonT(40)
<1> HIDE DEF h, k
<1>11. m = Len(inside) + n => k = <<>>
  <2> SUFFICES ASSUME m = Len(inside) + n  PROVE k = <<>>  OBVIOUS
  <2>1. Len(k) = 0  BY <1>7, <1>9, <1>10
  <2> QED  BY <1>10, <2>1, EmptySeq
<1>12. ((shown \o (buff \o h)) \o k) \o unread = ((shown \o buff) \o inside) \o input
  <2> DEFINE now == shown \o buff
             all == now \o inside
  <2>1. h \o k = inside \o first /\ first \o unread = input  BY <1>6, <1>10 DEF have
  <2>2. shown \in Seq(Item) /\ buff \in Seq(Item) /\ h \in Seq(Item)
    BY <1>1, <1>10, PlainIsWhole
  <2>3. shown \o (buff \o h) = (shown \o buff) \o h  BY ONLY <2>2, Associative, SMTT(40)
  <2>4. now \in Seq(Item) /\ h \in Seq(Item) /\ k \in Seq(Item)
    BY <1>10, <2>2, PlainIsWhole, ConcatProperties
  <2>5. now \in Seq(Item) /\ inside \in Seq(Item) /\ first \in Seq(Item)
    BY <1>1, <1>5, <2>4, PlainIsWhole
  <2>6. all \in Seq(Item) /\ first \in Seq(Item) /\ unread \in Seq(Item)
    BY <1>6, <2>5, ConcatProperties
  <2> HIDE DEF now
  <2>7. (now \o h) \o k = now \o (h \o k)  BY ONLY <2>4, Associative, SMTT(40)
  <2>8. now \o (inside \o first) = (now \o inside) \o first  BY ONLY <2>5, Associative, SMTT(40)
  <2> HIDE DEF all
  <2>9. (all \o first) \o unread = all \o (first \o unread)  BY ONLY <2>6, Associative, SMTT(40)
  <2> QED  BY <2>1, <2>3, <2>7, <2>8, <2>9 DEF now, all
<1>14. m = 0 => buff \o h = buff
  <2> SUFFICES ASSUME m = 0  PROVE buff \o h = buff  OBVIOUS
  <2>1. h = <<>>  BY <1>10, EmptySeq
  <2> QED  BY <1>1, <2>1, ConcatEmptySeq
<1>13. buff \o h \in Seq(Data)  BY <1>1, <1>10
<1> QED  BY <1>6, <1>8, <1>10, <1>11, <1>12, <1>13, <1>14 DEF unread

\* What an open stream holds after libz was called.
LEMMA LibzFlows ==
    ASSUME FilterHolds, FilterFlow, zstate = "open", stage = "turn",
           NEW n \in 0 .. Len(Plain(input)), NEW m \in Nat, m <= Len(inside) + n, Takes(n, m)
    PROVE  LET unread == SubSeq(input, n + 1, Len(input))
           IN  /\ ((shown \o buff') \o inside') \o unread = given
               /\ m = Len(inside) + n
                     => shown \o buff' \in Seq(Data) /\ (shown \o buff') \o unread = given
<1> DEFINE unread == SubSeq(input, n + 1, Len(input))
<1>1. ((shown \o buff) \o inside) \o input = given  BY DEF FilterFlow
<1>2. /\ inside' \in Seq(Data) /\ buff' \in Seq(Data) /\ unread \in Seq(Item)
      /\ ((shown \o buff') \o inside') \o unread = ((shown \o buff) \o inside) \o input
      /\ m = Len(inside) + n => inside' = <<>>
  BY LibzTakes
<1>3. shown \in Seq(Data)  BY DEF FilterHolds
<1> HIDE DEF unread
<1>4. shown \o buff' \in Seq(Data)  BY <1>2, <1>3
<1>5. (shown \o buff') \o <<>> = shown \o buff'  BY <1>4, ConcatEmptySeq
<1> QED  BY <1>1, <1>2, <1>4, <1>5 DEF unread

\* A turn of the loop: the five ways in which libz may return.
LEMMA TurnStep ==
    ASSUME FilterInv, Turn  PROVE FilterInv'
<1>1. FilterTypeOK /\ FilterHolds /\ FilterFlow /\ FilterEnds /\ FilterLeaves
      /\ (meta <=> zstate # "ended")
  BY DEF FilterInv
<1>2. /\ stage = "turn"
      /\ stage' = IF result' = "error" THEN "idle" ELSE IF room' = 0 THEN "turn" ELSE "leave"
      /\ answer' = IF result' = "error" THEN "error" ELSE answer
      /\ UNCHANGED <<kind, handle, meta, remainder, flush, given, shown>>
  BY DEF Turn, Again
<1>3. PICK n \in 0 .. Len(Plain(input)), m \in 0 .. Room :
         m <= Len(inside) + n /\ Takes(n, m) /\ Returns(n, m)
  BY DEF Turn, Libz
<1> DEFINE unread == SubSeq(input, n + 1, Len(input))
           out == m = Len(inside) + n
           full == m = Room
<1>4. m \in Nat /\ room' = Room - m /\ room' \in 0 .. Room /\ (room' = 0 <=> full)
  BY <1>3, FilterAssumption DEF Takes
<1>5. /\ inside' \in Seq(Data) /\ buff' \in Seq(Data) /\ unread \in Seq(Item)
      /\ out => inside' = <<>>
      /\ m = 0 => buff' = buff
  BY <1>1, <1>3, <1>4, LibzTakes
<1>6. zstate = "open" =>
         /\ ((shown \o buff') \o inside') \o unread = given
         /\ out => shown \o buff' \in Seq(Data) /\ (shown \o buff') \o unread = given
  BY <1>1, <1>2, <1>3, <1>4, LibzFlows
<1>7. handle  BY <1>1, <1>2 DEF FilterEnds
<1>8. input \in Seq(Item) /\ given \in Seq(Item)  BY <1>1 DEF FilterHolds
<1> SUFFICES ASSUME zstate' \in {"open", "bad", "done", "ended"},
                    result' \in {"ok", "no progress", "end", "error"},
                    input' \in Seq(Item),
                    meta' <=> zstate' # "ended",
                    FilterFlow', FilterEnds', FilterLeaves'
             PROVE  FilterInv'
  <2>1. CASE zstate = "done" /\ n + m = 0 /\ result' = "end" /\ input' = unread /\ zstate' = zstate
    <3>1. buff' = buff
      <4>1. m = 0  BY <1>3, <1>4, <2>1
      <4> QED  BY <1>5, <4>1
    <3>2. FilterEnds'
      <4>1. shown \o buff = Plain(given) /\ stage' # "idle"  BY <1>1, <1>2, <2>1 DEF FilterEnds
      <4>2. Plain(given)' = Plain(given)  BY <1>2 DEF Plain
      <4> QED  BY <1>2, <1>7, <3>1, <4>1, <4>2 DEF FilterEnds
    <3>3. FilterFlow' /\ FilterLeaves'  BY <2>1 DEF FilterFlow, FilterLeaves
    <3>4. meta' <=> zstate' # "ended"  BY <1>1, <1>2, <2>1
    <3> HIDE DEF unread
    <3> QED  BY <1>5, <2>1, <3>2, <3>3, <3>4
  <2>2. CASE zstate \in {"bad", "ended"} /\ n + m = 0 /\ result' = "error"
             /\ input' = input /\ zstate' = zstate
    <3>1. FilterFlow' /\ FilterLeaves' /\ FilterEnds'
      BY <1>2, <1>7, <2>2 DEF FilterFlow, FilterLeaves, FilterEnds
    <3>2. meta' <=> zstate' # "ended"  BY <1>1, <1>2, <2>2
    <3> QED  BY <1>8, <2>2, <3>1, <3>2
  <2>3. CASE /\ zstate = "open"
             /\ full \/ (unread = <<>> /\ (kind = "inflate" \/ flush # "none" => out))
             /\ result' \in {"ok", "no progress"}
             /\ input' = unread /\ zstate' = zstate
    <3>1. FilterFlow'
      <4>1. stage' # "idle"  BY <1>2, <2>3
      <4> HIDE DEF unread
      <4> QED  BY <1>2, <1>6, <2>3, <4>1 DEF FilterFlow
    <3>2. FilterLeaves'
      <4> SUFFICES ASSUME stage' = "leave"
                   PROVE  input' = <<>> /\ (flush' # "none" => inside' = <<>>)
        BY <2>3 DEF FilterLeaves
      <4>1. ~full  BY <1>2, <1>4, <2>3
      <4> QED  BY <1>2, <1>5, <2>3, <4>1
    <3>3. FilterEnds'  BY <1>2, <1>7, <2>3 DEF FilterEnds
    <3>4. meta' <=> zstate' # "ended"  BY <1>1, <1>2, <2>3
    <3> HIDE DEF unread
    <3> QED  BY <1>5, <2>3, <3>1, <3>2, <3>3, <3>4
  <2>4. CASE /\ zstate = "open" /\ flush = "finish" /\ unread = <<>> /\ out
             /\ result' = "end" /\ zstate' = "done" /\ input' = unread
    <3>1. shown \o buff' = Plain(given)
      <4>1. shown \o buff' = given
        <5>1. shown \o buff' \in Seq(Data) /\ (shown \o buff') \o <<>> = given  BY <1>6, <2>4
        <5> QED  BY <5>1, ConcatEmptySeq
      <4>2. given \in Seq(Data)  BY <1>1, <2>4 DEF FilterHolds
      <4> QED  BY <4>1, <4>2, PlainIsWhole
    <3>2. FilterEnds'
      <4>1. stage' # "idle"  BY <1>2, <2>4
      <4>2. Plain(given)' = Plain(given)  BY <1>2 DEF Plain
      <4> QED  BY <1>2, <1>7, <3>1, <4>1, <4>2 DEF FilterEnds
    <3>3. FilterFlow' /\ FilterLeaves'  BY <2>4 DEF FilterFlow, FilterLeaves
    <3>4. meta' <=> zstate' # "ended"  BY <1>1, <1>2, <2>4
    <3> HIDE DEF unread
    <3> QED  BY <1>5, <2>4, <3>2, <3>3, <3>4
  <2>5. CASE /\ zstate = "open" /\ unread # <<>> /\ out /\ Head(unread) \in {Mark, Flaw}
             /\ result' = (IF Head(unread) = Mark THEN "end" ELSE "error")
             /\ zstate' = (IF Head(unread) = Mark THEN "done" ELSE "bad")
             /\ input' = Tail(unread)
    <3> DEFINE e == Head(unread)
               y == Tail(unread)
    <3>1. y \in Seq(Item) /\ unread = <<e>> \o y
      <4> HIDE DEF unread
      <4> QED  BY <1>5, <2>5
    <3>2. shown \o buff' = Plain(given)
      <4> DEFINE x == shown \o buff'
      <4>1. x \in Seq(Data) /\ x \o unread = given  BY <1>6, <2>5
      <4>2. e \in {Mark, Flaw}  BY <2>5
      <4> HIDE DEF x, e, y, unread
      <4>3. Plain(x \o (<<e>> \o y)) = x  BY ONLY <3>1, <4>1, <4>2, PlainCut
      <4> QED  BY <3>1, <4>1, <4>3 DEF x
    <3>3. FilterEnds'
      <4>1. zstate' = "done" => stage' # "idle"  BY <1>2, <2>5
      <4> QED  BY <1>2, <1>7, <3>2, <4>1 DEF FilterEnds, Plain
    <3>4. FilterFlow' /\ FilterLeaves'  BY <1>2, <2>5 DEF FilterFlow, FilterLeaves
    <3>5. meta' <=> zstate' # "ended"  BY <1>1, <1>2, <2>5
    <3>6. input' \in Seq(Item)  BY <2>5, <3>1
    <3> HIDE DEF unread
    <3> QED  BY <2>5, <3>3, <3>4, <3>5, <3>6
  <2> HIDE DEF out, full
  <2>6. zstate = "open" /\ result' \in (IF n + m = 0 THEN {"no progress", "ok"} ELSE {"ok"})
        => result' \in {"ok", "no progress"}
    OBVIOUS
  <2> QED  BY <1>3, <2>1, <2>2, <2>3, <2>4, <2>5, <2>6 DEF Returns, out, full
<1> HIDE DEF unread, out, full
<1>9. FilterTypeOK'  BY <1>1, <1>2, <1>4 DEF FilterTypeOK
<1>10. FilterHolds'  BY <1>1, <1>2, <1>5 DEF FilterHolds
<1> QED  BY <1>9, <1>10 DEF FilterInv

\* The stream that has come to its end is ended, and only then.
LEMMA LeaveStep ==
    ASSUME FilterInv, Leave  PROVE FilterInv'
<1>1. FilterTypeOK /\ FilterHolds /\ FilterFlow /\ FilterEnds /\ FilterLeaves
      /\ (meta <=> zstate # "ended")
  BY DEF FilterInv
<1>2. /\ stage = "leave" /\ stage' = "idle" /\ shown' = shown \o buff /\ remainder' = input
      /\ answer' = IF result = "end" THEN "end" ELSE "more"
      /\ IF result = "end" THEN handle' = FALSE /\ zstate' = "ended" /\ meta' = FALSE
                           ELSE UNCHANGED <<zstate, handle, meta>>
      /\ UNCHANGED <<kind, inside, input, flush, buff, room, result, given>>
  BY DEF Leave, WithOutput, End, filterCall
<1>3. /\ zstate \in {"open", "done"} /\ (result = "end" <=> zstate = "done") /\ handle
      /\ zstate = "open" => input = <<>>
  BY <1>1, <1>2 DEF FilterLeaves, FilterEnds
<1>4. FilterTypeOK'
  <2>1. remainder' \in Seq(Data \cup {Mark, Flaw})  BY <1>1, <1>2 DEF FilterHolds, Item
  <2> QED  BY <1>1, <1>2, <2>1 DEF FilterTypeOK
<1>5. FilterHolds'
  <2>1. shown \o buff \in Seq(Data)
    <3>1. shown \in Seq(Data) /\ buff \in Seq(Data)  BY <1>1 DEF FilterHolds
    <3> QED  BY <3>1
  <2> QED  BY <1>1, <1>2, <2>1 DEF FilterHolds
<1>6. FilterFlow'
  <2> SUFFICES ASSUME zstate' = "open"
               PROVE  remainder' = <<>> /\ shown' \o inside' = given'
    BY <1>2 DEF FilterFlow
  <2>1. zstate = "open" /\ input = <<>>  BY <1>2, <1>3
  <2>2. ((shown \o buff) \o inside) \o <<>> = given  BY <1>1, <1>2, <2>1 DEF FilterFlow
  <2>3. (shown \o buff) \o inside \in Seq(Data)
    <3>1. shown \in Seq(Data) /\ buff \in Seq(Data) /\ inside \in Seq(Data)
      BY <1>1 DEF FilterHolds
    <3> QED  BY <3>1
  <2>4. (shown \o buff) \o inside = given  BY <2>2, <2>3, ConcatEmptySeq
  <2> QED  BY <1>2, <2>1, <2>4
<1>7. FilterEnds'
  <2>1. CASE result = "end"
    <3>1. shown \o buff = Plain(given)  BY <1>1, <1>3, <2>1 DEF FilterEnds
    <3> QED  BY <1>2, <2>1, <3>1 DEF FilterEnds, Plain
  <2>2. CASE result # "end"
    <3>1. zstate' = "open" /\ handle'  BY <1>2, <1>3, <2>2
    <3> QED  BY <3>1 DEF FilterEnds
  <2> QED  BY <2>1, <2>2
<1>8. FilterLeaves'  BY <1>2 DEF FilterLeaves
<1>9. meta' <=> zstate' # "ended"  BY <1>1, <1>2
<1> QED  BY <1>4, <1>5, <1>6, <1>7, <1>8, <1>9 DEF FilterInv

\* All operations of a stream.
LEMMA FilterStep ==
    ASSUME FilterInv, FilterNext \/ UNCHANGED filterVars  PROVE FilterInv'
<1>1. ASSUME NEW piece \in Pieces, NEW option \in {"none", "sync", "finish"}, Enter(piece, option)
      PROVE  FilterInv'
  BY <1>1, EnterStep
<1>2. CASE Turn  BY <1>2, TurnStep
<1>3. CASE Leave  BY <1>3, LeaveStep
<1>4. CASE Finalize
  <2>1. /\ stage = "idle" /\ meta' = FALSE /\ zstate' = "ended"
        /\ UNCHANGED <<kind, handle, remainder, inside, stage, input, flush, buff, room, result,
                       given, shown, answer>>
    BY <1>4 DEF Finalize, filterCall
  <2>2. FilterTypeOK' /\ FilterHolds'  BY <2>1 DEF FilterInv, FilterTypeOK, FilterHolds
  <2>3. FilterFlow' /\ FilterLeaves'  BY <2>1 DEF FilterFlow, FilterLeaves
  <2>4. FilterEnds'  BY <2>1 DEF FilterInv, FilterEnds, Plain
  <2> QED  BY <2>1, <2>2, <2>3, <2>4 DEF FilterInv
<1>5. CASE UNCHANGED filterVars
  <2>1. UNCHANGED <<kind, zstate, handle, meta, remainder, inside, stage, input, flush, buff, room,
                    result, given, shown, answer>>
    BY <1>5 DEF filterVars, filterState, filterCall
  <2>2. FilterTypeOK' /\ FilterHolds'  BY <2>1, ZenonT(40) DEF FilterInv, FilterTypeOK, FilterHolds
  <2>3. FilterFlow' /\ FilterLeaves'  BY <2>1 DEF FilterInv, FilterFlow, FilterLeaves
  <2>4. FilterEnds'  BY <2>1 DEF FilterInv, FilterEnds, Plain
  <2> QED  BY <2>1, <2>2, <2>3, <2>4 DEF FilterInv
<1> QED  BY <1>1, <1>2, <1>3, <1>4, <1>5 DEF FilterNext

\* The finalizer is taken away, never put back.
LEMMA MetaStep ==
    ASSUME FilterNext \/ UNCHANGED filterVars  PROVE meta' = meta \/ meta' = FALSE
<1>1. ASSUME NEW piece \in Pieces, NEW option \in {"none", "sync", "finish"}, Enter(piece, option)
      PROVE  meta' = meta
  BY <1>1 DEF Enter, Answer, filterState
<1>2. CASE Turn  BY <1>2 DEF Turn
<1>3. CASE Leave  BY <1>3 DEF Leave, End
<1>4. CASE Finalize  BY <1>4 DEF Finalize
<1>5. CASE UNCHANGED filterVars  BY <1>5 DEF filterVars, filterState
<1> QED  BY <1>1, <1>2, <1>3, <1>4, <1>5 DEF FilterNext

\* A step ends a stream that has not been ended, or none.
LEMMA EndedByStep ==
    ASSUME FilterInv, FilterInv', FilterNext \/ UNCHANGED filterVars
    PROVE  [/\ meta # meta' => zstate # "ended"
            /\ ~meta' <=> zstate' = "ended"]_filterVars
<1>1. /\ meta \in BOOLEAN /\ meta' \in BOOLEAN
      /\ meta <=> zstate # "ended"
      /\ meta' <=> zstate' # "ended"
  BY DEF FilterInv, FilterTypeOK
<1>2. meta' = meta \/ meta' = FALSE  BY MetaStep
<1>3. meta # meta' => zstate # "ended"  BY <1>1, <1>2
<1>4. ~meta' <=> zstate' = "ended"  BY <1>1
<1> QED  BY <1>3, <1>4

\* Leaving a call with a flush option, the script has been returned all.
LEMMA FlushedByStep ==
    ASSUME FilterInv, FilterNext \/ UNCHANGED filterVars
    PROVE  [stage = "leave" /\ flush # "none" => shown' = given]_filterVars
<1>1. FilterHolds /\ FilterFlow /\ FilterEnds /\ FilterLeaves  BY DEF FilterInv
<1>2. ASSUME stage = "leave", flush # "none", Leave  PROVE shown' = given
  <2>1. shown' = shown \o buff  BY <1>2 DEF Leave, WithOutput
  <2>2. zstate \in {"open", "done"} /\ (zstate = "open" => input = <<>> /\ inside = <<>>)
    BY <1>1, <1>2 DEF FilterLeaves
  <2>3. given \in Seq(Data) /\ shown \o buff \in Seq(Data)
    <3>1. given \in Seq(Data) /\ shown \in Seq(Data) /\ buff \in Seq(Data)
      BY <1>1, <1>2 DEF FilterHolds
    <3> QED  BY <3>1
  <2>4. CASE zstate = "open"
    <3>1. ((shown \o buff) \o <<>>) \o <<>> = given  BY <1>1, <1>2, <2>2, <2>4 DEF FilterFlow
    <3>2. (shown \o buff) \o <<>> = shown \o buff  BY <2>3, ConcatEmptySeq
    <3> QED  BY <2>1, <3>1, <3>2
  <2>5. CASE zstate = "done"
    <3>1. shown \o buff = Plain(given)  BY <1>1, <2>5 DEF FilterEnds
    <3>2. Plain(given) = given  BY <2>3, PlainIsWhole
    <3> QED  BY <2>1, <3>1, <3>2
  <2> QED  BY <2>2, <2>4, <2>5
<1>3. ASSUME stage = "leave", FilterNext  PROVE Leave
  <2>1. ASSUME NEW piece \in Pieces, NEW option \in {"none", "sync", "finish"}, Enter(piece, option)
        PROVE  FALSE
    BY <1>3, <2>1 DEF Enter
  <2>2. ~Turn /\ ~Finalize  BY <1>3 DEF Turn, Finalize
  <2> QED  BY <1>3, <2>1, <2>2 DEF FilterNext
<1> QED  BY <1>2, <1>3

-----------------------------------------------------------------------------
(* zlib: ZlibChecksum *)

\* A closure has digested what it was fed, and knows how long that is.
SumInv ==
    /\ SumTypeOK
    /\ digest = fed
    /\ fed \in [Sums -> Seq(SumItems)]
    /\ \A c \in Sums : length[c] = Len(fed[c])

\* Nothing digested, nothing fed.
LEMMA InitSum == SumInit => SumInv /\ SumsOfAllFed
<1> SUFFICES ASSUME SumInit  PROVE SumInv /\ SumsOfAllFed  OBVIOUS
<1>1. SumTypeOK  BY DEF SumInit, SumTypeOK
<1>2. digest = fed /\ fed \in [Sums -> Seq(SumItems)]  BY DEF SumInit
<1>3. \A c \in Sums : length[c] = Len(fed[c])  BY DEF SumInit
<1> QED  BY <1>1, <1>2, <1>3 DEF SumInv, SumsOfAllFed

\* The invariant says that the sums are right.
LEMMA SumFed == SumInv => SumsOfAllFed
  BY DEF SumInv, SumsOfAllFed

\* What every closure has digested after one has digested more.
LEMMA SumAdded ==
    ASSUME SumInv, NEW c \in Sums, NEW more \in Seq(SumItems),
           fed' = [fed EXCEPT ![c] = @ \o more],
           digest' = [digest EXCEPT ![c] = @ \o more],
           length' = [length EXCEPT ![c] = @ + Len(more)],
           asking' \in Sums \cup {None}
    PROVE  SumInv'
<1>1. /\ digest = fed /\ fed \in [Sums -> Seq(SumItems)] /\ length \in [Sums -> Nat]
      /\ \A d \in Sums : length[d] = Len(fed[d])
  BY DEF SumInv, SumTypeOK
<1>2. fed[c] \in Seq(SumItems)  BY <1>1
<1>3. fed[c] \o more \in Seq(SumItems) /\ Len(fed[c] \o more) = Len(fed[c]) + Len(more)
  BY <1>2, ConcatProperties
<1>4. fed' \in [Sums -> Seq(SumItems)] /\ digest' = fed'  BY <1>1, <1>3
<1>5. length' \in [Sums -> Nat]  BY <1>1
<1>6. ASSUME NEW d \in Sums  PROVE length'[d] = Len(fed'[d])
  <2>1. CASE d = c  BY <1>1, <1>3, <2>1
  <2>2. CASE d # c  BY <1>1, <2>2
  <2> QED  BY <2>1, <2>2
<1> QED  BY <1>4, <1>5, <1>6 DEF SumInv, SumTypeOK

\* What is added is a string, or what another closure has digested.
LEMMA SumStep ==
    ASSUME SumInv, SumNext \/ UNCHANGED sumVars  PROVE SumInv'
<1>1. ASSUME NEW c \in Sums, NEW piece \in SumPieces, SumUpdate(c, piece)  PROVE SumInv'
  <2>1. piece \in Seq(SumItems)  BY SumsAssumption
  <2>2. /\ fed' = [fed EXCEPT ![c] = @ \o piece]
        /\ digest' = [digest EXCEPT ![c] = @ \o piece]
        /\ length' = [length EXCEPT ![c] = @ + Len(piece)]
        /\ asking' = asking
    BY <1>1 DEF SumUpdate
  <2>3. asking' \in Sums \cup {None}  BY <2>2 DEF SumInv, SumTypeOK
  <2> QED  BY <2>1, <2>2, <2>3, SumAdded
<1>2. ASSUME NEW c \in Sums, SumAsk(c)  PROVE SumInv'
  BY <1>2 DEF SumAsk, SumInv, SumTypeOK
<1>3. ASSUME NEW d \in Sums, SumCombine(d)  PROVE SumInv'
  <2> DEFINE c == asking
  <2>1. c \in Sums  BY <1>3 DEF SumCombine, SumInv, SumTypeOK
  <2>2. /\ digest[d] = fed[d] /\ fed[d] \in Seq(SumItems) /\ length[d] = Len(fed[d])
        /\ digest = fed
    BY DEF SumInv
  <2>3. /\ fed' = [fed EXCEPT ![c] = @ \o fed[d]]
        /\ length' = [length EXCEPT ![c] = @ + Len(fed[d])]
        /\ asking' = None
    BY <1>3, <2>2 DEF SumCombine, NewLength
  <2>4. Combined(digest[c], digest[d], length[d]) = digest[c] \o fed[d]
    BY <2>2 DEF Combined
  <2>5. digest' = [digest EXCEPT ![c] = Combined(@, digest[d], length[d])]
    BY <1>3 DEF SumCombine
  <2>6. digest' = [digest EXCEPT ![c] = @ \o fed[d]]  BY <2>4, <2>5
  <2> HIDE DEF c
  <2> QED  BY <2>1, <2>2, <2>3, <2>6, SumAdded
<1>4. CASE SumRefuse
  BY <1>4 DEF SumRefuse, SumInv, SumTypeOK
<1>5. CASE UNCHANGED sumVars
  BY <1>5 DEF sumVars, SumInv, SumTypeOK
<1> QED  BY <1>1, <1>2, <1>3, <1>4, <1>5 DEF SumNext

-----------------------------------------------------------------------------
(* ZmqOptions *)

\* How a row of a table says that a value passes.
Ways == {"integer", "boolean", "number", "text", "pointer", "key32", "key40", "key48"}

\* A table of such rows.
Passes(table) == \A x \in DOMAIN table : table[x].as \in Ways

\* A row of some tables together is a row of one of them.
LEMMA RowsFrom ==
    ASSUME NEW tables
    PROVE  \A x \in DOMAIN Rows(tables) : \E t \in tables : x \in DOMAIN t /\ Rows(tables)[x] = t[x]
<1> DEFINE table(x) == CHOOSE t \in tables : x \in DOMAIN t
<1>1. ASSUME NEW x \in UNION {DOMAIN t : t \in tables}
      PROVE  Rows(tables)[x] = table(x)[x] /\ table(x) \in tables /\ x \in DOMAIN table(x)
  <2>1. \E t \in tables : x \in DOMAIN t  OBVIOUS
  <2> QED  BY <2>1 DEF Rows
<1>2. DOMAIN Rows(tables) = UNION {DOMAIN t : t \in tables}  BY DEF Rows
<1> HIDE DEF table
<1> QED  BY <1>1, <1>2

\* The table of the setters.
LEMMA SetterRows == Passes(Setter)
<1>1. Passes(SetFlow)  BY DEF Passes, SetFlow, Integer, Number, Ways
<1>2. Passes(SetNames)  BY DEF Passes, SetNames, Text, Ways
<1>3. Passes(SetTransport)  BY DEF Passes, SetTransport, Integer, Text, Boolean, Ways
<1>4. Passes(SetPatterns)  BY DEF Passes, SetPatterns, Integer, Ways
<1>5. Passes(SetKeepalive)  BY DEF Passes, SetKeepalive, Integer, Number, Ways
<1>6. Passes(SetSecurity)  BY DEF Passes, SetSecurity, Boolean, Pointer, Key, Ways
<1>7. Passes(SetAddresses)  BY DEF Passes, SetAddresses, Boolean, Ways
<1> DEFINE tables == {SetFlow, SetNames, SetTransport, SetPatterns, SetKeepalive, SetSecurity,
                      SetAddresses}
<1>8. \A t \in tables : Passes(t)  BY <1>1, <1>2, <1>3, <1>4, <1>5, <1>6, <1>7
<1>9. Setter = Rows(tables)  BY DEF Setter
<1> HIDE DEF tables
<1> QED  BY <1>8, <1>9, RowsFrom DEF Passes

\* The values of an option.
Stores == {"default", "0", "1", "rounded", "address"} \cup Texts

\* What a setter accepts becomes a value of an option.
LEMMA Converted ==
    ASSUME NEW as \in Ways, NEW v \in LuaValues, Accepts(as, v)
    PROVE  ToC(as, v) \in Stores
<1>1. CASE as = "integer"  BY <1>1 DEF Accepts, ToC, Stores
<1>2. CASE as = "number"  BY <1>2 DEF Accepts, ToC, Stores
<1>3. CASE as = "boolean"  BY <1>3 DEF ToC, Stores
<1>4. CASE as = "pointer"  BY <1>4 DEF ToC, Stores
<1>5. CASE as = "text"  BY <1>5 DEF Accepts, ToC, Stores
<1>6. CASE as \in {"key32", "key40", "key48"}
  <2>1. v = as  BY <1>6 DEF Accepts
  <2>2. v \in Texts  BY <1>6, <2>1 DEF LuaValues, Texts
  <2>3. ToC(as, v) = v  BY <1>6 DEF ToC
  <2> QED  BY <2>2, <2>3 DEF Stores
<1> QED  BY <1>1, <1>2, <1>3, <1>4, <1>5, <1>6 DEF Ways

\* A new socket.
LEMMA InitOptionTypes == OptionsInit => OptionsTypeOK
<1> SUFFICES ASSUME OptionsInit  PROVE OptionsTypeOK  OBVIOUS
<1>1. sets \in 0 .. MaxSets  BY OptionsAssumption DEF OptionsInit
<1>2. /\ options = [o \in Options |-> "default"]
      /\ asked = [x \in DOMAIN Setter |-> "nothing"]
  BY DEF OptionsInit
<1> QED  BY <1>1, <1>2 DEF OptionsTypeOK

\* A setter stores a value that its option may have.
LEMMA OptionTypesStep ==
    ASSUME OptionsTypeOK, OptionsNext \/ UNCHANGED optionVars  PROVE OptionsTypeOK'
<1>1. /\ options \in [Options -> Stores]
      /\ asked \in [DOMAIN Setter -> LuaValues \cup {"nothing"}]
      /\ sets \in 0 .. MaxSets
  BY DEF OptionsTypeOK, Stores
<1>2. ASSUME NEW x \in DOMAIN Setter, NEW v \in LuaValues, Set(x, v)  PROVE OptionsTypeOK'
  <2> DEFINE as == Setter[x].as
             option == Setter[x].option
             c == ToC(as, v)
  <2>1. as \in Ways  BY SetterRows DEF Passes
  <2>2. Accepts(as, v) /\ options' = Stored(option, c) /\ sets < MaxSets /\ sets' = sets + 1
    BY <1>2 DEF Set
  <2>3. asked' = IF x = "Ipv4only"
                 THEN [asked EXCEPT ![x] = v, !["Ipv6"] = IF v = "false" THEN "true" ELSE "false"]
                 ELSE [asked EXCEPT ![x] = v]
    BY <1>2 DEF Set
  <2> HIDE DEF as, option
  <2>4. c \in Stores  BY <2>1, <2>2, Converted
  <2> HIDE DEF c
  <2>5. options' \in [Options -> Stores]
    <3>1. CASE option = "IPV4ONLY"
      <4>1. options' = [options EXCEPT !["IPV6"] = IF c = "0" THEN "1" ELSE "0"]
        BY <2>2, <3>1 DEF Stored
      <4>2. (IF c = "0" THEN "1" ELSE "0") \in Stores  BY DEF Stores
      <4> QED  BY <1>1, <4>1, <4>2
    <3>2. CASE option # "IPV4ONLY"
      <4>1. options' = [options EXCEPT ![option] = c]  BY <2>2, <3>2 DEF Stored
      <4> QED  BY <1>1, <2>4, <4>1
    <3> QED  BY <3>1, <3>2
  <2>6. asked' \in [DOMAIN Setter -> LuaValues \cup {"nothing"}]
    <3>1. "true" \in LuaValues /\ "false" \in LuaValues  BY DEF LuaValues
    <3> QED  BY <1>1, <2>3, <3>1
  <2>7. sets' \in 0 .. MaxSets  BY <1>1, <2>2, OptionsAssumption
  <2> QED  BY <2>5, <2>6, <2>7 DEF OptionsTypeOK, Stores
<1>3. CASE UNCHANGED optionVars  BY <1>3 DEF optionVars, OptionsTypeOK
<1> QED  BY <1>2, <1>3 DEF OptionsNext

\* The methods whose values a script can read back, with what both tables have for them.
Agreed ==
    [SendHWM |-> Integer("SNDHWM"), RecvHWM |-> Integer("RCVHWM"), SendBuf |-> Integer("SNDBUF"),
     RecvBuf |-> Integer("RCVBUF"), SendTimeout |-> Integer("SNDTIMEO"),
     RecvTimeout |-> Integer("RCVTIMEO"), Affinity |-> Number("AFFINITY"), Rate |-> Integer("RATE"),
     RecoveryInterval |-> Integer("RECOVERY_IVL"), ReconnectInterval |-> Integer("RECONNECT_IVL"),
     ReconnectIntervalMax |-> Integer("RECONNECT_IVL_MAX"), Backlog |-> Integer("BACKLOG"),
     Linger |-> Integer("LINGER"), TcpKeepalive |-> Integer("TCP_KEEPALIVE"),
     TcpKeepaliveIdle |-> Integer("TCP_KEEPALIVE_IDLE"),
     TcpKeepaliveCount |-> Integer("TCP_KEEPALIVE_CNT"),
     TcpKeepaliveInterval |-> Integer("TCP_KEEPALIVE_INTVL"),
     MulticastHops |-> Integer("MULTICAST_HOPS"), Ipv6 |-> Boolean("IPV6")]

\* The setters that have no getter.
SetOnly == {"Subscribe", "Unsubscribe", "AcceptFilter", "Mandatory", "ProbeRouter", "XpubVerbose",
            "ReqRelaxed", "ReqCorrelate", "Conflate", "PlainServer", "CurveServer", "Ipv4only"}

\* A row of a setter is the agreed one, or names an option that no agreed row names; only
\* one names the inverted option.
SetsAgreed(table) ==
    \A x \in DOMAIN table :
        /\ \/ x \in DOMAIN Agreed /\ table[x] = Agreed[x]
           \/ /\ x \in Unreadable \cup SetOnly /\ x \notin DOMAIN Agreed
              /\ \A y \in DOMAIN Agreed : Agreed[y].option # table[x].option
        /\ table[x].option = "IPV4ONLY" <=> x = "Ipv4only"
        /\ x = "Ipv4only" => table[x] = Boolean("IPV4ONLY")

\* A row of a getter is the agreed one if there is one.
GetsAgreed(table) ==
    \A x \in DOMAIN table : x \notin SetOnly /\ (x \in DOMAIN Agreed => table[x] = Agreed[x])

\* The setters.
LEMMA SettersAgree == SetsAgreed(Setter)
<1> USE DEF SetsAgreed, Agreed, SetOnly, Unreadable, Integer, Boolean, Number, Text
<1>1. SetsAgreed(SetFlow)  BY DEF SetFlow
<1>2. SetsAgreed(SetNames)  BY DEF SetNames
<1>3. SetsAgreed(SetTransport)  BY DEF SetTransport
<1>4. SetsAgreed(SetPatterns)  BY DEF SetPatterns
<1>5. SetsAgreed(SetKeepalive)  BY DEF SetKeepalive
<1>6. SetsAgreed(SetSecurity)  BY DEF SetSecurity, Pointer, Key
<1>7. SetsAgreed(SetAddresses)  BY DEF SetAddresses
<1> DEFINE tables == {SetFlow, SetNames, SetTransport, SetPatterns, SetKeepalive, SetSecurity,
                      SetAddresses}
<1> HIDE DEF SetsAgreed, Agreed, SetOnly, Unreadable, Integer, Boolean, Number, Text
<1>8. \A t \in tables : SetsAgreed(t)  BY <1>1, <1>2, <1>3, <1>4, <1>5, <1>6, <1>7
<1>9. Setter = Rows(tables)  BY DEF Setter
<1> HIDE DEF tables
<1> QED  BY <1>8, <1>9, RowsFrom DEF SetsAgreed

\* The getters.
LEMMA GettersAgree == GetsAgreed(Getter)
<1> USE DEF GetsAgreed, Agreed, SetOnly, Integer, Boolean, Number, Text
<1>1. GetsAgreed(GetSocket)  BY DEF GetSocket
<1>2. GetsAgreed(GetTransport)  BY DEF GetTransport
<1>3. GetsAgreed(GetLimits)  BY DEF GetLimits
<1>4. GetsAgreed(GetKeepalive)  BY DEF GetKeepalive
<1>5. GetsAgreed(GetSecurity)  BY DEF GetSecurity, Key
<1> HIDE DEF Agreed, SetOnly, Integer, Boolean, Number, Text
<1> QED  BY <1>1, <1>2, <1>3, <1>4, <1>5, RowsFrom DEF Getter

\* No two agreed rows name one option, and none passes a text.
LEMMA AgreedRows ==
    \A x \in DOMAIN Agreed :
        /\ Agreed[x].as \in {"integer", "number", "boolean"}
        /\ Agreed[x].option \notin {"MAXMSGSIZE", "IPV4ONLY"}
        /\ Agreed[x].option = "IPV6" <=> x = "Ipv6"
        /\ \A y \in DOMAIN Agreed : Agreed[x].option = Agreed[y].option => x = y
  BY DEF Agreed, Integer, Number, Boolean

\* The rows that OptionsKept is about.
LEMMA ReadableRows ==
    ASSUME NEW x \in (DOMAIN Setter \cap DOMAIN Getter) \ Unreadable
    PROVE  x \in DOMAIN Agreed /\ Setter[x] = Agreed[x] /\ Getter[x] = Agreed[x]
  BY SettersAgree, GettersAgree DEF SetsAgreed, GetsAgreed

\* What setX was given last is what its option is.
AskedStored ==
    \A x \in DOMAIN Setter \cap DOMAIN Agreed :
        /\ asked[x] = "nothing" => options[Agreed[x].option] = "default"
        /\ asked[x] # "nothing" => /\ Accepts(Agreed[x].as, asked[x])
                                   /\ options[Agreed[x].option] = ToC(Agreed[x].as, asked[x])

\* The types, and that.
OptionsInv == OptionsTypeOK /\ AskedStored

\* What was given to a setter that can be read back is read back.
LEMMA OptionsRead == OptionsInv => OptionsKept
<1> SUFFICES ASSUME OptionsInv  PROVE OptionsKept  OBVIOUS
<1>1. asked \in [DOMAIN Setter -> LuaValues \cup {"nothing"}]  BY DEF OptionsInv, OptionsTypeOK
<1>2. ASSUME NEW x \in (DOMAIN Setter \cap DOMAIN Getter) \ Unreadable
      PROVE  /\ asked[x] \notin {"nothing", "big"} =>
                   Get(x) = {IF Getter[x].as = "boolean" /\ asked[x] # "false" THEN "true"
                             ELSE asked[x]}
             /\ options[Getter[x].option] \notin {"default", "rounded"} =>
                   \A v \in Get(x) : /\ Accepts(Setter[x].as, v)
                                     /\ ToC(Setter[x].as, v) = options[Getter[x].option]
  <2> DEFINE g == Agreed[x]
             as == g.as
             c == options[g.option]
             a == asked[x]
  <2>1. x \in DOMAIN Agreed /\ Setter[x] = g /\ Getter[x] = g  BY ReadableRows
  <2>2. as \in {"integer", "number", "boolean"} /\ g.option # "MAXMSGSIZE"
    BY <2>1, AgreedRows
  <2>3. /\ a = "nothing" => c = "default"
        /\ a # "nothing" => Accepts(as, a) /\ c = ToC(as, a)
    BY <2>1 DEF OptionsInv, AskedStored
  <2>4. Get(x) = ToLua(g, c)  BY <2>1 DEF Get
  <2>5. a \in LuaValues \cup {"nothing"}  BY <1>1
  <2>6. Get(x) = {IF as = "boolean" THEN IF c \in {"0", "default"} THEN "false" ELSE "true" ELSE c}
    BY <2>2, <2>4 DEF ToLua, SizeFits
  <2>7. Setter[x].as = as /\ Getter[x].as = as /\ options[Getter[x].option] = c  BY <2>1
  <2> HIDE DEF g, as, c, a
  <2>8. CASE as = "integer"
    <3>1. a # "nothing" => a \in {"0", "1", "big"} /\ c = IF a = "big" THEN "1" ELSE a
      BY <2>3, <2>8 DEF Accepts, ToC
    <3>2. Get(x) = {c}  BY <2>6, <2>8
    <3>3. a # "nothing" => Accepts(as, c) /\ ToC(as, c) = c  BY <2>8, <3>1 DEF Accepts, ToC
    <3> QED  BY <2>3, <2>8, <2>7, <3>1, <3>2, <3>3 DEF a
  <2>9. CASE as = "number"
    <3>1. a # "nothing" => a \in {"0", "1", "big"} /\ c = IF a = "big" THEN "rounded" ELSE a
      BY <2>3, <2>9 DEF Accepts, ToC
    <3>2. Get(x) = {c}  BY <2>6, <2>9
    <3>3. a # "nothing" /\ c # "rounded" => Accepts(as, c) /\ ToC(as, c) = c
      BY <2>9, <3>1 DEF Accepts, ToC
    <3> QED  BY <2>3, <2>9, <2>7, <3>1, <3>2, <3>3 DEF a
  <2>10. CASE as = "boolean"
    <3>1. a # "nothing" => c = IF a = "false" THEN "0" ELSE "1"
      BY <2>3, <2>10 DEF ToC
    <3>2. Get(x) = {IF c \in {"0", "default"} THEN "false" ELSE "true"}  BY <2>6, <2>10
    <3>3. \A v : Accepts(as, v) /\ ToC(as, v) = IF v = "false" THEN "0" ELSE "1"
      BY <2>10 DEF Accepts, ToC
    <3> QED  BY <2>3, <2>10, <2>7, <3>1, <3>2, <3>3 DEF a
  <2> QED  BY <2>2, <2>8, <2>9, <2>10
<1>3. ReadsBack  BY <1>2 DEF ReadsBack
<1>4. CopyKeeps  BY <1>2 DEF CopyKeeps
<1> QED  BY <1>3, <1>4 DEF OptionsKept

\* Of a new socket nothing was asked.
LEMMA InitOptions == OptionsInit => OptionsInv
<1> SUFFICES ASSUME OptionsInit  PROVE OptionsInv  OBVIOUS
<1>1. ASSUME NEW x \in DOMAIN Setter \cap DOMAIN Agreed
      PROVE  asked[x] = "nothing" /\ options[Agreed[x].option] = "default"
  <2>1. Setter[x] = Agreed[x]  BY SettersAgree DEF SetsAgreed
  <2>2. Agreed[x].option \in Options  BY <2>1 DEF Options
  <2> QED  BY <2>2 DEF OptionsInit
<1> QED  BY <1>1, InitOptionTypes DEF OptionsInv, AskedStored

\* A setter changes its own option and no other that can be read back, except that of
\* the inverted one, which is asked for with it.
LEMMA OptionsStep ==
    ASSUME OptionsInv, OptionsNext \/ UNCHANGED optionVars  PROVE OptionsInv'
<1>1. /\ DOMAIN options = Options
      /\ asked \in [DOMAIN Setter -> LuaValues \cup {"nothing"}]
  BY DEF OptionsInv, OptionsTypeOK
<1>2. ASSUME NEW x \in DOMAIN Setter, NEW v \in LuaValues, Set(x, v)  PROVE AskedStored'
  <2>1. /\ Accepts(Setter[x].as, v)
        /\ options' = Stored(Setter[x].option, ToC(Setter[x].as, v))
        /\ asked' = IF x = "Ipv4only"
                    THEN [asked EXCEPT ![x] = v,
                                       !["Ipv6"] = IF v = "false" THEN "true" ELSE "false"]
                    ELSE [asked EXCEPT ![x] = v]
    BY <1>2 DEF Set
  <2> SUFFICES ASSUME NEW y \in DOMAIN Setter \cap DOMAIN Agreed
               PROVE  /\ asked'[y] = "nothing" => options'[Agreed[y].option] = "default"
                      /\ asked'[y] # "nothing" =>
                            /\ Accepts(Agreed[y].as, asked'[y])
                            /\ options'[Agreed[y].option] = ToC(Agreed[y].as, asked'[y])
    BY DEF AskedStored
  <2>2. Setter[y] = Agreed[y]  BY SettersAgree DEF SetsAgreed
  <2>3. Agreed[y].option \in DOMAIN options  BY <1>1, <2>2 DEF Options
  <2>4. /\ asked[y] = "nothing" => options[Agreed[y].option] = "default"
        /\ asked[y] # "nothing" => /\ Accepts(Agreed[y].as, asked[y])
                                   /\ options[Agreed[y].option] = ToC(Agreed[y].as, asked[y])
    BY DEF OptionsInv, AskedStored
  <2>5. "nothing" \notin LuaValues  BY DEF LuaValues, Texts
  <2>6. CASE x = "Ipv4only"
    <3>1. Setter[x] = Boolean("IPV4ONLY")  BY <2>6, SettersAgree DEF SetsAgreed
    <3>2. Setter[x].as = "boolean" /\ Setter[x].option = "IPV4ONLY"  BY <3>1 DEF Boolean
    <3>3. ToC(Setter[x].as, v) = IF v = "false" THEN "0" ELSE "1"  BY <3>2 DEF ToC
    <3>4. options' = [options EXCEPT !["IPV6"] = IF ToC(Setter[x].as, v) = "0" THEN "1" ELSE "0"]
      BY <2>1, <3>2 DEF Stored
    <3>5. options' = [options EXCEPT !["IPV6"] = IF v = "false" THEN "1" ELSE "0"]
      BY <3>3, <3>4
    <3>6. CASE y = "Ipv6"
      <4>1. Agreed[y] = Boolean("IPV6")  BY <3>6 DEF Agreed
      <4>2. asked'[y] = IF v = "false" THEN "true" ELSE "false"  BY <1>1, <2>1, <2>6, <3>6
      <4>3. options'[Agreed[y].option] = IF v = "false" THEN "1" ELSE "0"
        BY <2>3, <3>5, <4>1 DEF Boolean
      <4>4. /\ Accepts("boolean", asked'[y])
            /\ ToC("boolean", asked'[y]) = IF v = "false" THEN "1" ELSE "0"
        BY <4>2 DEF Accepts, ToC
      <4>5. Agreed[y].as = "boolean"  BY <4>1 DEF Boolean
      <4> QED  BY <4>2, <4>3, <4>4, <4>5
    <3>7. CASE y # "Ipv6"
      <4>1. Agreed[y].option # "IPV6"  BY <3>7, AgreedRows
      <4>2. options'[Agreed[y].option] = options[Agreed[y].option]  BY <2>3, <3>5, <4>1
      <4>3. y # x
        <5>1. "Ipv4only" \notin DOMAIN Agreed  BY DEF Agreed
        <5> QED  BY <2>6, <5>1
      <4>4. asked'[y] = asked[y]  BY <1>1, <2>1, <2>6, <3>7, <4>3
      <4> QED  BY <2>4, <4>2, <4>4
    <3> QED  BY <3>6, <3>7
  <2>7. CASE x # "Ipv4only" /\ y # x
    <3>1. Setter[x].option # Agreed[y].option
      BY <2>7, SettersAgree, AgreedRows DEF SetsAgreed
    <3>2. Setter[x].option # "IPV4ONLY"  BY <2>7, SettersAgree DEF SetsAgreed
    <3>3. options' = [options EXCEPT ![Setter[x].option] = ToC(Setter[x].as, v)]
      BY <2>1, <3>2 DEF Stored
    <3>4. options'[Agreed[y].option] = options[Agreed[y].option]  BY <2>3, <3>1, <3>3
    <3>5. asked'[y] = asked[y]  BY <1>1, <2>1, <2>7
    <3> QED  BY <2>4, <3>4, <3>5
  <2>8. CASE x # "Ipv4only" /\ y = x
    <3>1. Setter[x].option # "IPV4ONLY"  BY <2>8, SettersAgree DEF SetsAgreed
    <3>2. options' = [options EXCEPT ![Setter[x].option] = ToC(Setter[x].as, v)]
      BY <2>1, <3>1 DEF Stored
    <3>3. options'[Agreed[y].option] = ToC(Agreed[y].as, v)  BY <2>2, <2>3, <2>8, <3>2
    <3>4. asked'[y] = v  BY <1>1, <2>1, <2>8
    <3> QED  BY <2>1, <2>2, <2>5, <2>8, <3>3, <3>4
  <2> QED  BY <2>6, <2>7, <2>8
<1>3. ASSUME UNCHANGED optionVars  PROVE AskedStored'
  BY <1>3 DEF optionVars, OptionsInv, AskedStored
<1>4. OptionsTypeOK'  BY OptionTypesStep DEF OptionsInv
<1>5. AskedStored'  BY <1>2, <1>3 DEF OptionsNext
<1> QED  BY <1>4, <1>5 DEF OptionsInv

-----------------------------------------------------------------------------
(* ZmqSocket *)

\* The frames that recv shows.
Content == Frames \ {Empty}

\* The frames on their way, in the order in which they will come out.
UnderWay == rest \o FlattenSeq(wire) \o begun

\* What the sockets hold, and that it is the stream that was sent.
SocketInv ==
    /\ SocketTypeOK
    /\ ClosedOnce
    /\ wire \in Seq(Seq(Frames) \ {<<>>})
    /\ begun \in Seq(Frames) /\ rest \in Seq(Frames)
    /\ sent \in Seq(Frames) /\ got \in Seq(Frames)
    /\ FramesInOrder

\* The frames with content, as what is kept of a sequence.
LEMMA NotEmptyKept ==
    ASSUME NEW s \in Seq(Frames)  PROVE NotEmpty(s) = Kept(s, Content)
<1>1. \A i \in DOMAIN s : s[i] # Empty <=> s[i] \in Content  BY DEF Content
<1>2. [i \in DOMAIN s |-> IF s[i] # Empty THEN <<s[i]>> ELSE <<>>]
         = [i \in DOMAIN s |-> IF s[i] \in Content THEN <<s[i]>> ELSE <<>>]
  BY <1>1
<1> QED  BY <1>2 DEF NotEmpty, Kept

\* The same after a step.
LEMMA NotEmptyAfter ==
    ASSUME sent' \in Seq(Frames), UnderWay' \in Seq(Frames)
    PROVE  /\ NotEmpty(sent)' = Kept(sent', Content)
           /\ NotEmpty(UnderWay)' = Kept(UnderWay', Content)
<1>1. NotEmpty(sent') = Kept(sent', Content) /\ NotEmpty(UnderWay') = Kept(UnderWay', Content)
  BY NotEmptyKept
<1> QED  BY <1>1 DEF NotEmpty

\* One frame.
LEMMA KeptSingle ==
    ASSUME NEW frame \in Frames  PROVE Kept(<<frame>>, Content) = KeptOne(frame, Content)
<1>1. <<frame>> = Append(<<>>, frame) /\ <<>> \in Seq(Frames)  OBVIOUS
<1>2. KeptOne(frame, Content) \in Seq(Frames)  BY DEF KeptOne
<1>3. <<>> \o KeptOne(frame, Content) = KeptOne(frame, Content)  BY <1>2, ConcatEmptySeq
<1>4. Kept(Append(<<>>, frame), Content) = Kept(<<>>, Content) \o KeptOne(frame, Content)
  BY <1>1, KeptAppend
<1>5. Kept(<<>>, Content) = <<>>  BY KeptEmpty
<1> QED  BY <1>1, <1>3, <1>4, <1>5

\* recv returns of a frame what is kept of it.
LEMMA ShownKept ==
    ASSUME NEW frame \in Frames
    PROVE  Shown(frame) = KeptOne(frame, Content) /\ Shown(frame) \in Seq(Frames)
  BY DEF Shown, KeptOne, Content

\* The property, said of what is under way.
LEMMA SocketStreamNow ==
    ASSUME sent \in Seq(Frames), UnderWay \in Seq(Frames)
    PROVE  FramesInOrder <=> Kept(sent, Content) = got \o Kept(UnderWay, Content)
  BY NotEmptyKept DEF FramesInOrder, UnderWay

\* What is under way are frames.
LEMMA UnderWayFrames ==
    ASSUME wire \in Seq(Seq(Frames) \ {<<>>}), begun \in Seq(Frames), rest \in Seq(Frames)
    PROVE  /\ wire \in Seq(Seq(Frames))
           /\ FlattenSeq(wire) \in Seq(Frames)
           /\ rest \o FlattenSeq(wire) \in Seq(Frames)
           /\ UnderWay \in Seq(Frames)
<1>1. wire \in Seq(Seq(Frames))  OBVIOUS
<1>2. FlattenSeq(wire) \in Seq(Frames)  BY <1>1, FlattenType
<1>3. rest \o FlattenSeq(wire) \in Seq(Frames)  BY <1>2
<1> QED  BY <1>1, <1>2, <1>3 DEF UnderWay

\* Also after a step.
LEMMA UnderWayAfter ==
    ASSUME wire' \in Seq(Seq(Frames) \ {<<>>}), begun' \in Seq(Frames), rest' \in Seq(Frames)
    PROVE  UnderWay' \in Seq(Frames)
<1>1. wire' \in Seq(Seq(Frames))  OBVIOUS
<1>2. FlattenSeq(wire') \in Seq(Frames)  BY <1>1, FlattenType
<1>3. rest' \o FlattenSeq(wire') \in Seq(Frames)  BY <1>2
<1> QED  BY <1>2, <1>3 DEF UnderWay

\* A frame sent is the last one under way.
LEMMA SendStream ==
    ASSUME SocketInv, NEW frame \in Frames, NEW more \in BOOLEAN, SendFrame(frame, more)
    PROVE  /\ wire' \in Seq(Seq(Frames) \ {<<>>}) /\ begun' \in Seq(Frames)
           /\ rest' = rest /\ got' = got /\ sent' = Append(sent, frame)
           /\ UnderWay' = Append(UnderWay, frame)
<1>1. /\ wire \in Seq(Seq(Frames) \ {<<>>}) /\ begun \in Seq(Frames) /\ rest \in Seq(Frames)
  BY DEF SocketInv
<1>2. /\ rest' = rest /\ got' = got /\ sent' = Append(sent, frame)
      /\ begun' = IF more THEN Append(begun, frame) ELSE <<>>
      /\ wire' = IF more THEN wire ELSE Append(wire, Append(begun, frame))
  BY DEF SendFrame
<1>3. /\ wire \in Seq(Seq(Frames)) /\ FlattenSeq(wire) \in Seq(Frames)
      /\ rest \o FlattenSeq(wire) \in Seq(Frames) /\ UnderWay \in Seq(Frames)
  BY <1>1, UnderWayFrames
<1>4. Append(begun, frame) \in Seq(Frames) /\ Append(begun, frame) # <<>>  BY <1>1, SMTT(40)
<1>5. wire' \in Seq(Seq(Frames) \ {<<>>}) /\ begun' \in Seq(Frames)
  <2>1. Append(begun, frame) \in Seq(Frames) \ {<<>>}  BY <1>4
  <2>2. Append(wire, Append(begun, frame)) \in Seq(Seq(Frames) \ {<<>>})
    BY ONLY <1>1, <2>1, AppendProperties
  <2>3. <<>> \in Seq(Frames)  OBVIOUS
  <2>4. CASE more  BY ONLY <1>1, <1>2, <1>4, <2>4
  <2>5. CASE ~more  BY ONLY <1>2, <2>2, <2>3, <2>5
  <2> QED  BY <2>4, <2>5
<1>6. (rest \o FlattenSeq(wire)) \o Append(begun, frame) = Append(UnderWay, frame)
  BY <1>1, <1>3, ConcatAppend DEF UnderWay
<1>7. CASE more
  <2>1. UnderWay' = (rest \o FlattenSeq(wire)) \o Append(begun, frame)
    BY <1>2, <1>7 DEF UnderWay
  <2> QED  BY <1>2, <1>5, <1>6, <2>1
<1>8. CASE ~more
  <2>1. FlattenSeq(wire') = FlattenSeq(wire) \o Append(begun, frame)
    BY <1>2, <1>3, <1>4, <1>8, FlattenAppend
  <2>2. UnderWay' = (rest \o (FlattenSeq(wire) \o Append(begun, frame))) \o <<>>
    BY <1>2, <1>8, <2>1 DEF UnderWay
  <2>3. /\ rest \in Seq(Frames) /\ FlattenSeq(wire) \in Seq(Frames)
        /\ Append(begun, frame) \in Seq(Frames)
    BY <1>1, <1>3, <1>4
  <2>4. (rest \o FlattenSeq(wire)) \o Append(begun, frame)
           = rest \o (FlattenSeq(wire) \o Append(begun, frame))
    <3> DEFINE a == FlattenSeq(wire)
               b == Append(begun, frame)
    <3>1. rest \in Seq(Frames) /\ a \in Seq(Frames) /\ b \in Seq(Frames)  BY <2>3
    <3> HIDE DEF a, b
    <3>2. (rest \o a) \o b = rest \o (a \o b)  BY ONLY <3>1, Associative, SMTT(40)
    <3> QED  BY <3>2 DEF a, b
  <2>5. Append(UnderWay, frame) \o <<>> = Append(UnderWay, frame)
    <3>1. Append(UnderWay, frame) \in Seq(Frames)  BY <1>3
    <3> QED  BY <3>1, ConcatEmptySeq
  <2>6. UnderWay' = Append(UnderWay, frame)  BY <1>6, <2>2, <2>4, <2>5
  <2> QED  BY <1>2, <1>5, <2>6
<1> QED  BY <1>7, <1>8

\* The frame received is the first one under way.
LEMMA RecvStream ==
    ASSUME SocketInv, RecvFrame
    PROVE  /\ wire' \in Seq(Seq(Frames) \ {<<>>}) /\ rest' \in Seq(Frames)
           /\ begun' = begun /\ sent' = sent
           /\ \E frame \in Frames : /\ got' = got \o Shown(frame)
                                    /\ UnderWay = <<frame>> \o UnderWay'
<1>1. /\ wire \in Seq(Seq(Frames) \ {<<>>}) /\ begun \in Seq(Frames) /\ rest \in Seq(Frames)
  BY DEF SocketInv
<1>2. /\ wire \in Seq(Seq(Frames)) /\ FlattenSeq(wire) \in Seq(Frames)
      /\ rest \o FlattenSeq(wire) \in Seq(Frames) /\ UnderWay \in Seq(Frames)
  BY <1>1, UnderWayFrames
<1>3. begun' = begun /\ sent' = sent  BY DEF RecvFrame
<1> DEFINE flat == FlattenSeq(wire)
<1>4. CASE rest # <<>> /\ got' = got \o Shown(Head(rest)) /\ rest' = Tail(rest) /\ wire' = wire
  <2> DEFINE f == Head(rest)
             t == Tail(rest)
  <2>1. f \in Frames /\ t \in Seq(Frames) /\ rest = <<f>> \o t  BY <1>1, <1>4
  <2> HIDE DEF f, t
  <2>2. <<f>> \in Seq(Frames) /\ t \in Seq(Frames) /\ flat \in Seq(Frames) /\ begun \in Seq(Frames)
        /\ t \o flat \in Seq(Frames)
    BY <1>1, <1>2, <2>1
  <2>3. UnderWay = (<<f>> \o t) \o flat \o begun  BY <2>1 DEF UnderWay
  <2>4. UnderWay' = t \o flat \o begun  BY <1>3, <1>4 DEF UnderWay, t
  <2> HIDE DEF flat
  <2>5. (<<f>> \o t) \o flat = <<f>> \o (t \o flat)  BY ONLY <2>2, Associative, SMTT(40)
  <2>6. (<<f>> \o (t \o flat)) \o begun = <<f>> \o ((t \o flat) \o begun)
    BY ONLY <2>2, Associative, SMTT(40)
  <2>7. UnderWay = <<f>> \o UnderWay'  BY <2>3, <2>4, <2>5, <2>6
  <2>8. rest' \in Seq(Frames) /\ wire' \in Seq(Seq(Frames) \ {<<>>})  BY <1>1, <1>4, <2>1 DEF t
  <2>9. got' = got \o Shown(f)  BY <1>4 DEF f
  <2> QED  BY <1>3, <2>1, <2>7, <2>8, <2>9
<1>5. CASE /\ rest = <<>> /\ wire # <<>>
           /\ got' = got \o Shown(Head(wire)[1])
           /\ rest' = Others(Head(wire))
           /\ wire' = Tail(wire)
  <2> DEFINE m == Head(wire)
             f == m[1]
             t == Tail(m)
             more == FlattenSeq(Tail(wire))
  <2>1. m \in Seq(Frames) /\ m # <<>> /\ Tail(wire) \in Seq(Seq(Frames) \ {<<>>})  BY <1>1, <1>5
  <2> HIDE DEF m
  <2>2. f \in Frames /\ t \in Seq(Frames) /\ m = <<f>> \o t  BY <2>1
  <2>3. more \in Seq(Frames)
    <3>1. Tail(wire) \in Seq(Seq(Frames))  BY <2>1
    <3> QED  BY <3>1, FlattenType
  <2>4. flat = m \o more  BY <1>2, <1>5, FlattenHead DEF m
  <2>5. UnderWay = flat \o begun
    <3>1. <<>> \o flat = flat  BY <1>2, ConcatEmptySeq
    <3> QED  BY <1>5, <3>1 DEF UnderWay
  <2>6. UnderWay' = t \o more \o begun  BY <1>3, <1>5 DEF UnderWay, Others, m
  <2>9. got' = got \o Shown(f) /\ rest' = t  BY <1>5 DEF Others, m
  <2> HIDE DEF f, t, more
  <2>7. /\ <<f>> \in Seq(Frames) /\ t \in Seq(Frames) /\ more \in Seq(Frames)
        /\ begun \in Seq(Frames) /\ t \o more \in Seq(Frames)
    BY <1>1, <2>2, <2>3
  <2>10. (<<f>> \o t) \o more = <<f>> \o (t \o more)  BY ONLY <2>7, Associative, SMTT(40)
  <2>11. (<<f>> \o (t \o more)) \o begun = <<f>> \o ((t \o more) \o begun)
    BY ONLY <2>7, Associative, SMTT(40)
  <2>12. UnderWay = <<f>> \o UnderWay'  BY <2>2, <2>4, <2>5, <2>6, <2>10, <2>11
  <2>13. wire' \in Seq(Seq(Frames) \ {<<>>})  BY <1>5, <2>1
  <2> QED  BY <1>3, <2>2, <2>9, <2>12, <2>13
<1> QED  BY <1>4, <1>5 DEF RecvFrame

\* Two sockets that are not there yet.
LEMMA InitSocket == SocketInit => SocketInv
<1> SUFFICES ASSUME SocketInit  PROVE SocketInv  OBVIOUS
<1>1. SocketTypeOK /\ ClosedOnce
  BY SocketAssumption DEF SocketInit, SocketTypeOK, ClosedOnce
<1>2. /\ wire \in Seq(Seq(Frames) \ {<<>>}) /\ begun \in Seq(Frames) /\ rest \in Seq(Frames)
      /\ sent \in Seq(Frames) /\ got \in Seq(Frames)
  BY DEF SocketInit
<1>3. UnderWay = <<>>
  <2>1. FlattenSeq(<<>>) = <<>>  BY FlattenEmpty
  <2>2. <<>> \o <<>> = <<>>  BY ConcatEmptySeq
  <2> QED  BY <2>1, <2>2 DEF UnderWay, SocketInit
<1>4. FramesInOrder
  <2>1. Kept(<<>>, Content) = <<>> \o Kept(<<>>, Content)
    <3>1. Kept(<<>>, Content) = <<>>  BY KeptEmpty
    <3>2. <<>> \o <<>> = <<>>  BY ConcatEmptySeq
    <3> QED  BY <3>1, <3>2
  <2>2. UnderWay \in Seq(Frames)  BY <1>3
  <2> QED  BY <1>2, <1>3, <2>1, <2>2, SocketStreamNow DEF SocketInit
<1> QED  BY <1>1, <1>2, <1>4 DEF SocketInv

\* A frame that is sent is the last under way and the last that was sent.
LEMMA SendStep ==
    ASSUME SocketInv, NEW frame \in Frames, NEW more \in BOOLEAN, SendFrame(frame, more)
    PROVE  SocketInv'
<1>1. /\ SocketTypeOK /\ ClosedOnce /\ sent \in Seq(Frames) /\ got \in Seq(Frames)
      /\ wire \in Seq(Seq(Frames) \ {<<>>}) /\ begun \in Seq(Frames) /\ rest \in Seq(Frames)
      /\ FramesInOrder
  BY DEF SocketInv
<1>2. /\ wire' \in Seq(Seq(Frames) \ {<<>>}) /\ begun' \in Seq(Frames)
      /\ rest' = rest /\ got' = got /\ sent' = Append(sent, frame)
      /\ UnderWay' = Append(UnderWay, frame)
  BY SendStream
<1>3. UnderWay \in Seq(Frames) /\ UnderWay' \in Seq(Frames) /\ sent' \in Seq(Frames)
  <2>1. UnderWay \in Seq(Frames)  BY <1>1, UnderWayFrames
  <2> QED  BY <1>1, <1>2, <2>1, AppendProperties
<1>4. SocketTypeOK' /\ ClosedOnce'
  <2>1. /\ udata' = udata /\ closes' = closes /\ Len(wire) < Water
        /\ wire' = IF more THEN wire ELSE Append(wire, Append(begun, frame))
    BY DEF SendFrame
  <2>2. Len(wire') <= Water
    <3>1. Len(wire) \in Nat /\ Water \in Nat  BY <1>1, SocketAssumption
    <3>2. Len(Append(wire, Append(begun, frame))) = Len(wire) + 1
      <4>1. Append(begun, frame) \in Seq(Frames) \ {<<>>}
        <5>1. begun \in Seq(Frames)  BY <1>1
        <5> QED  BY ONLY <5>1, AppendProperties
      <4> QED  BY ONLY <1>1, <4>1, AppendProperties
    <3> QED  BY <2>1, <3>1, <3>2
  <2> QED  BY <1>1, <2>1, <2>2 DEF SocketTypeOK, ClosedOnce
<1>5. Kept(sent', Content) = got' \o Kept(UnderWay', Content)
  <2>1. Kept(sent, Content) = got \o Kept(UnderWay, Content)  BY <1>1, <1>3, SocketStreamNow
  <2>2. Kept(sent', Content) = Kept(sent, Content) \o KeptOne(frame, Content)
    BY <1>1, <1>2, KeptAppend
  <2>3. Kept(UnderWay', Content) = Kept(UnderWay, Content) \o KeptOne(frame, Content)
    BY <1>2, <1>3, KeptAppend
  <2> DEFINE u == Kept(UnderWay, Content)
             one == KeptOne(frame, Content)
  <2>4. got \in Seq(Frames) /\ u \in Seq(Frames) /\ one \in Seq(Frames)
    <3>1. one \in Seq(Frames)  BY DEF KeptOne
    <3>2. u \in Seq(Frames)  BY <1>3, KeptType
    <3> QED  BY <1>1, <3>1, <3>2
  <2> HIDE DEF u, one
  <2>5. (got \o u) \o one = got \o (u \o one)  BY ONLY <2>4, Associative, SMTT(40)
  <2> QED  BY <1>2, <2>1, <2>2, <2>3, <2>5 DEF u, one
<1>6. FramesInOrder'
  <2>1. /\ NotEmpty(sent)' = Kept(sent', Content)
        /\ NotEmpty(UnderWay)' = Kept(UnderWay', Content)
    BY <1>3, NotEmptyAfter
  <2> QED  BY <1>5, <2>1 DEF FramesInOrder, UnderWay
<1> QED  BY <1>1, <1>2, <1>3, <1>4, <1>6 DEF SocketInv

\* A frame that is received leaves what is under way and comes to what was got.
LEMMA RecvStep ==
    ASSUME SocketInv, RecvFrame  PROVE SocketInv'
<1>1. /\ SocketTypeOK /\ ClosedOnce /\ sent \in Seq(Frames) /\ got \in Seq(Frames)
      /\ wire \in Seq(Seq(Frames) \ {<<>>}) /\ begun \in Seq(Frames) /\ rest \in Seq(Frames)
      /\ FramesInOrder
  BY DEF SocketInv
<1>2. PICK frame \in Frames : /\ got' = got \o Shown(frame)
                              /\ UnderWay = <<frame>> \o UnderWay'
  BY RecvStream
<1>3. /\ wire' \in Seq(Seq(Frames) \ {<<>>}) /\ rest' \in Seq(Frames)
      /\ begun' = begun /\ sent' = sent
  BY RecvStream
<1>4. UnderWay \in Seq(Frames) /\ UnderWay' \in Seq(Frames)
  <2>1. UnderWay \in Seq(Frames)  BY <1>1, UnderWayFrames
  <2>2. begun' \in Seq(Frames)  BY <1>1, <1>3
  <2>3. UnderWay' \in Seq(Frames)  BY <1>3, <2>2, UnderWayAfter
  <2> QED  BY <2>1, <2>3
<1>5. SocketTypeOK' /\ ClosedOnce'
  <2>1. /\ udata' = udata /\ closes' = closes
        /\ wire' = wire \/ (wire # <<>> /\ wire' = Tail(wire))
    BY DEF RecvFrame
  <2>2. Len(wire') <= Water
    <3>1. Len(wire) \in Nat /\ Water \in Nat /\ Len(wire) <= Water
      BY <1>1, SocketAssumption DEF SocketTypeOK
    <3>2. wire # <<>> => Len(Tail(wire)) <= Len(wire)  BY <1>1
    <3> QED  BY <2>1, <3>1, <3>2
  <2> QED  BY <1>1, <2>1, <2>2 DEF SocketTypeOK, ClosedOnce
<1>6. got' \in Seq(Frames)
  <2>1. Shown(frame) \in Seq(Frames)  BY ShownKept
  <2> QED  BY <1>1, <1>2, <2>1
<1>7. Kept(sent', Content) = got' \o Kept(UnderWay', Content)
  <2> DEFINE u == Kept(UnderWay', Content)
             one == Shown(frame)
  <2>1. Kept(sent, Content) = got \o Kept(UnderWay, Content)  BY <1>1, <1>4, SocketStreamNow
  <2>2. Kept(UnderWay, Content) = one \o u
    <3>1. <<frame>> \in Seq(Frames)  OBVIOUS
    <3>2. Kept(UnderWay, Content) = Kept(<<frame>>, Content) \o Kept(UnderWay', Content)
      <4> DEFINE after == UnderWay'
                 first == <<frame>>
      <4>1. after \in Seq(Frames) /\ first \in Seq(Frames)  BY <1>4, <3>1
      <4> HIDE DEF after, first
      <4>2. Kept(first \o after, Content) = Kept(first, Content) \o Kept(after, Content)
        BY ONLY <4>1, KeptConcat
      <4> QED  BY <1>2, <4>2 DEF after, first
    <3>3. Kept(<<frame>>, Content) = Shown(frame)
      <4>1. Kept(<<frame>>, Content) = KeptOne(frame, Content)  BY KeptSingle
      <4>2. Shown(frame) = KeptOne(frame, Content)  BY ShownKept
      <4> QED  BY <4>1, <4>2
    <3> QED  BY <3>2, <3>3
  <2>3. got \in Seq(Frames) /\ u \in Seq(Frames) /\ one \in Seq(Frames)
    <3>1. one \in Seq(Frames)  BY ShownKept
    <3>2. u \in Seq(Frames)  BY <1>4, KeptType
    <3> QED  BY <1>1, <3>1, <3>2
  <2> HIDE DEF u, one
  <2>4. (got \o one) \o u = got \o (one \o u)  BY ONLY <2>3, Associative, SMTT(40)
  <2> QED  BY <1>2, <1>3, <2>1, <2>2, <2>4 DEF u, one
<1>8. FramesInOrder'
  <2>1. sent' \in Seq(Frames)  BY <1>1, <1>3
  <2>2. /\ NotEmpty(sent)' = Kept(sent', Content)
        /\ NotEmpty(UnderWay)' = Kept(UnderWay', Content)
    BY <1>4, <2>1, NotEmptyAfter
  <2> QED  BY <1>7, <2>2 DEF FramesInOrder, UnderWay
<1> QED  BY <1>1, <1>3, <1>5, <1>6, <1>8 DEF SocketInv

\* The four operations.
LEMMA SocketStep ==
    ASSUME SocketInv, SocketNext \/ UNCHANGED socketVars  PROVE SocketInv'
<1>1. ASSUME NEW s \in {A, B}, Create(s)  PROVE SocketInv'
  <2>1. UNCHANGED <<closes, wire, begun, rest, sent, got>>
        /\ udata[s] = "none" /\ udata' = [udata EXCEPT ![s] = "open"]
    BY <1>1 DEF Create
  <2>2. SocketTypeOK' /\ ClosedOnce'
    BY <2>1 DEF SocketInv, SocketTypeOK, ClosedOnce
  <2> QED  BY <2>1, <2>2 DEF SocketInv, FramesInOrder, NotEmpty
<1>2. ASSUME NEW frame \in Frames, NEW more \in BOOLEAN, SendFrame(frame, more)  PROVE SocketInv'
  BY <1>2, SendStep
<1>3. CASE RecvFrame  BY <1>3, RecvStep
<1>4. ASSUME NEW s \in {A, B}, NEW to \in {"closed", "collected"}, CloseSocket(s, to)
      PROVE  SocketInv'
  <2>1. /\ UNCHANGED <<wire, begun, rest, sent, got>>
        /\ udata[s] \in {"open", "closed"}
        /\ udata' = [udata EXCEPT ![s] = to]
        /\ closes' = IF udata[s] = "open" THEN [closes EXCEPT ![s] = @ + 1] ELSE closes
    BY <1>4 DEF CloseSocket, Closed
  <2>2. SocketTypeOK /\ ClosedOnce  BY DEF SocketInv
  <2>3. SocketTypeOK'
    <3>1. udata' \in [{A, B} -> {"none", "open", "closed", "collected"}]
      BY <2>1, <2>2 DEF SocketTypeOK
    <3>2. closes' \in [{A, B} -> Nat]  BY <2>1, <2>2 DEF SocketTypeOK
    <3> QED  BY <2>1, <2>2, <3>1, <3>2 DEF SocketTypeOK
  <2>4. ClosedOnce'
    <3> SUFFICES ASSUME NEW r \in {A, B}
                 PROVE  closes'[r] = IF udata'[r] \in {"closed", "collected"} THEN 1 ELSE 0
      BY DEF ClosedOnce
    <3>1. closes[r] = IF udata[r] \in {"closed", "collected"} THEN 1 ELSE 0
      BY <2>2 DEF ClosedOnce
    <3>2. udata'[r] = IF r = s THEN to ELSE udata[r]  BY <2>1, <2>2 DEF SocketTypeOK
    <3>3. closes'[r] = IF r = s /\ udata[s] = "open" THEN closes[s] + 1 ELSE closes[r]
      BY <2>1, <2>2 DEF SocketTypeOK
    <3>4. closes[s] = IF udata[s] \in {"closed", "collected"} THEN 1 ELSE 0
      BY <2>2 DEF ClosedOnce
    <3> QED  BY <2>1, <3>1, <3>2, <3>3, <3>4
  <2> QED  BY <2>1, <2>3, <2>4 DEF SocketInv, FramesInOrder, NotEmpty
<1>5. CASE UNCHANGED socketVars
  <2>1. UNCHANGED <<udata, closes, wire, begun, rest, sent, got>>  BY <1>5 DEF socketVars
  <2> QED  BY <2>1 DEF SocketInv, SocketTypeOK, ClosedOnce, FramesInOrder, NotEmpty
<1> QED  BY <1>1, <1>2, <1>3, <1>4, <1>5 DEF SocketNext

-----------------------------------------------------------------------------
(* LuvTimer *)

\* The states of a timer.
TimerStates == {"none", "active", "stopped", "closing", "freed", "lost"}

\* A timer that has a function has a reference of its own to it; only the timer in whose
\* callback the loop is may have been stopped.
TimerInv ==
    /\ timer \in [Timers -> [state : TimerStates, repeats : BOOLEAN, ref : Refs \cup {NoRef}]]
    /\ registry \in [Refs -> Timers \cup {NoRef}]
    /\ firing \in Timers \cup {NoRef}
    /\ \A t \in Timers : timer[t].state \in {"active", "stopped"} =>
                            timer[t].ref \in Refs /\ registry[timer[t].ref] = t
    /\ firing \in Timers => timer[firing].state \in {"active", "stopped"}
    /\ \A t \in Timers : timer[t].state = "stopped" => firing = t
    /\ RunsItsOwn

\* No timer, no reference.
LEMMA InitTimers == TimerInit => TimerInv
  BY TimersAssumption DEF TimerInit, TimerInv, TimerStates, RunsItsOwn

\* References are given out that stand for nothing, and given back by the timer that has them.
LEMMA TimerStep == TimerInv /\ [TimerNext]_timerVars => TimerInv'
<1> SUFFICES ASSUME TimerInv, [TimerNext]_timerVars PROVE TimerInv'  OBVIOUS
<1> USE TimersAssumption DEF TimerInv, TimerStates
<1>1. ASSUME NEW t \in Timers, NEW repeats \in BOOLEAN, CreateTimer(t, repeats)
      PROVE  TimerInv'
  <2>1. PICK r \in Refs : /\ registry[r] = NoRef
                          /\ registry' = [registry EXCEPT ![r] = t]
                          /\ timer' = [timer EXCEPT ![t] = [state |-> "active",
                                                            repeats |-> repeats, ref |-> r]]
    BY <1>1 DEF CreateTimer
  <2> QED  BY <1>1, <2>1 DEF CreateTimer, RunsItsOwn
<1>2. ASSUME NEW t \in Timers, CreateFails(t)  PROVE TimerInv'
  BY <1>2 DEF CreateFails, RunsItsOwn
<1>3. ASSUME NEW t \in Timers, Fire(t)  PROVE TimerInv'
  <2>1. RunsItsOwn'  BY <1>3 DEF Fire, RunsItsOwn
  <2> QED  BY <1>3, <2>1 DEF Fire
<1>4. ASSUME NEW t \in Timers, Fired(t)  PROVE TimerInv'
  BY <1>4 DEF Fired, Done, GivesBack, RunsItsOwn
<1>5. ASSUME NEW t \in Timers, TimerClosed(t)  PROVE TimerInv'
  BY <1>5 DEF TimerClosed, RunsItsOwn
<1>6. CASE UNCHANGED timerVars  BY <1>6 DEF timerVars, RunsItsOwn
<1> QED  BY <1>1, <1>2, <1>3, <1>4, <1>5, <1>6 DEF TimerNext

-----------------------------------------------------------------------------
(* FileSystem *)

\* Locks and the lock files.
LocksInv ==
    /\ cwd \in Dirs
    /\ links \in [Dirs -> Locks \cup {Free}]
    /\ path \in [Locks -> Dirs \cup {Here, Free}]
    /\ locked \in [Locks -> Dirs \cup {Free}]
    /\ relative \in BOOLEAN
    /\ ~relative => \A l \in Locks : path[l] = locked[l]
    /\ LockHeld

\* Iterators; one that is not there has closed nothing.
DirsInv ==
    /\ dir \in [Iterators -> {"none", "open", "closed", "collected"}]
    /\ closedirs \in [Iterators -> Nat]
    /\ \A i \in Iterators : dir[i] = "none" => closedirs[i] = 0
    /\ DirClosedOnce

\* A thread is in perm2string.
Busy(t) == at[t] # 0

\* What the buffer holds for a thread that nobody has disturbed: so far cleared, or so
\* far filled in.
BufferFor(t) ==
    /\ at[t] \in 1 .. Places => \A p \in perms : p >= at[t]
    /\ at[t] > Places => \A p \in 1 .. Places : p \in perms <=> p \in mode[t] /\ Places + p < at[t]

\* The buffer of perm2string: two threads that use it at a time are both disturbed.
PermsInv ==
    /\ at \in [Threads -> 0 .. 2 * Places + 1]
    /\ mode \in [Threads -> SUBSET Bits9]
    /\ perms \in SUBSET Bits9
    /\ told \in [Threads -> SUBSET Bits9]
    /\ disturbed \in SUBSET Threads
    /\ \A t \in Threads, u \in Threads : (t # u /\ Busy(t) /\ Busy(u)) => t \in disturbed
    /\ \A t \in Threads \ disturbed : Busy(t) => BufferFor(t)
    /\ PermsOfFile

\* The file system as a whole.
FilesInv == LocksInv /\ DirsInv /\ PermsInv

\* The places of a permission string are numbered.
LEMMA PlacesInOrder == Places \in Nat /\ Bits9 = 1 .. Places
  BY FilesAssumption, FS_CardinalityType DEF Places

\* Nothing is locked or open, and nobody asks.
LEMMA InitFiles == FilesInit => FilesInv
<1> SUFFICES ASSUME FilesInit PROVE FilesInv  OBVIOUS
<1>1. LocksInv  BY FilesAssumption DEF FilesInit, LocksInv, LockHeld
<1>2. DirsInv  BY DEF FilesInit, DirsInv, DirClosedOnce
<1>3. PermsInv  BY PlacesInOrder DEF FilesInit, PermsInv, PermsOfFile, Busy
<1> QED  BY <1>1, <1>2, <1>3 DEF FilesInv

\* A lock is taken where there is none and given up by who has it.
LEMMA LocksStep == LocksInv /\ (LocksNext \/ UNCHANGED lockVars) => LocksInv'
<1> SUFFICES ASSUME LocksInv, LocksNext \/ UNCHANGED lockVars PROVE LocksInv'  OBVIOUS
<1>1. CASE UNCHANGED lockVars  BY <1>1 DEF lockVars, LocksInv, LockHeld
<1>2. ASSUME NEW d \in Dirs, ChangeDir(d)  PROVE LocksInv'
  BY <1>2 DEF ChangeDir, LocksInv, LockHeld
<1>3. ASSUME NEW l \in Locks, UnlockDir(l)  PROVE LocksInv'
  <2> DEFINE d == Resolved(path[l])
  <2>1. d \in Dirs  BY <1>3 DEF UnlockDir, Resolved, LocksInv
  <2>2. ~relative => locked[l] = d
    BY <1>3, FilesAssumption DEF UnlockDir, Resolved, LocksInv
  <2> HIDE DEF d
  <2>3. /\ links' = [links EXCEPT ![d] = Free] /\ path' = [path EXCEPT ![l] = Free]
        /\ locked' = [locked EXCEPT ![l] = Free] /\ UNCHANGED <<cwd, relative>>
    BY <1>3 DEF UnlockDir, NoPath, d
  <2>4. LockHeld'
    <3> SUFFICES ASSUME ~relative, NEW m \in Locks, NEW e \in Dirs
                 PROVE  locked'[m] = e <=> links'[e] = m
      BY <2>3 DEF LockHeld
    <3>1. (locked[l] = e <=> links[e] = l) /\ (locked[m] = e <=> links[e] = m)
      BY DEF LocksInv, LockHeld
    <3> QED  BY <2>1, <2>2, <2>3, <3>1, FilesAssumption DEF LocksInv
  <2> QED  BY <2>1, <2>3, <2>4 DEF LocksInv
<1>4. ASSUME NEW l \in Locks, NEW p \in Dirs \cup {Here}, LockDir(l, p)  PROVE LocksInv'
  <2> DEFINE d == Resolved(p)
  <2>1. d \in Dirs  BY DEF Resolved, LocksInv
  <2>2. ~relative' => p = d  BY <1>4 DEF LockDir, Resolved
  <2> HIDE DEF d
  <2>3. /\ links[d] = Free /\ locked[l] = Free /\ links' = [links EXCEPT ![d] = l]
        /\ path' = [path EXCEPT ![l] = p]
        /\ locked' = [locked EXCEPT ![l] = d] /\ UNCHANGED cwd
        /\ relative' = (relative \/ p = Here)
    BY <1>4 DEF LockDir, d
  <2>4. LockHeld'
    <3> SUFFICES ASSUME ~relative', NEW m \in Locks, NEW e \in Dirs
                 PROVE  locked'[m] = e <=> links'[e] = m
      BY DEF LockHeld
    <3>1. (locked[l] = e <=> links[e] = l) /\ (locked[m] = e <=> links[e] = m)
      BY <2>3 DEF LocksInv, LockHeld
    <3> QED  BY <2>1, <2>3, <3>1, FilesAssumption DEF LocksInv
  <2>5. relative' \in BOOLEAN  BY <2>3
  <2>6. ~relative' => \A m \in Locks : path'[m] = locked'[m]
    BY <2>1, <2>2, <2>3 DEF LocksInv
  <2> QED  BY <2>1, <2>3, <2>4, <2>5, <2>6 DEF LocksInv
<1> QED  BY <1>1, <1>2, <1>3, <1>4 DEF LocksNext

\* A directory that is closed was open.
LEMMA DirsStep == DirsInv /\ (DirsNext \/ UNCHANGED dirVars) => DirsInv'
<1> SUFFICES ASSUME DirsInv, DirsNext \/ UNCHANGED dirVars PROVE DirsInv'  OBVIOUS
<1> USE DEF DirsInv, DirClosedOnce
<1>1. CASE UNCHANGED dirVars  BY <1>1 DEF dirVars
<1>2. ASSUME NEW i \in Iterators, OpenDir(i)  PROVE DirsInv'  BY <1>2 DEF OpenDir
<1>3. ASSUME NEW i \in Iterators, NextEntry(i)  PROVE DirsInv'
  BY <1>3 DEF NextEntry, AfterLast
<1>4. ASSUME NEW i \in Iterators, NEW to \in {"closed", "collected"}, CloseDir(i, to)
      PROVE  DirsInv'
  BY <1>4 DEF CloseDir
<1> QED  BY <1>1, <1>2, <1>3, <1>4 DEF DirsNext

\* A thread that is alone clears and fills the buffer from its first place to its last.
LEMMA PermsStep == PermsInv /\ (PermsNext \/ UNCHANGED permVars) => PermsInv'
<1> SUFFICES ASSUME PermsInv, PermsNext \/ UNCHANGED permVars PROVE PermsInv'  OBVIOUS
<1>0. Places \in Nat /\ Bits9 = 1 .. Places /\ Places' = Places
  BY PlacesInOrder DEF Places
<1>1. CASE UNCHANGED permVars
  BY <1>1 DEF permVars, PermsInv, PermsOfFile, Busy, BufferFor
<1>2. ASSUME NEW t \in Threads, NEW m \in SUBSET Bits9, Attributes(t, m)  PROVE PermsInv'
  <2> DEFINE others == {u \in Threads \ {t} : at[u] # 0}
  <2>1. /\ at[t] = 0
        /\ mode' = [mode EXCEPT ![t] = m]
        /\ at' = [at EXCEPT ![t] = 1]
        /\ disturbed' = (disturbed \ {t}) \cup others \cup (IF others = {} THEN {} ELSE {t})
        /\ UNCHANGED <<perms, told>>
    BY <1>2 DEF Attributes
  <2>2. /\ at' \in [Threads -> 0 .. 2 * Places + 1] /\ mode' \in [Threads -> SUBSET Bits9]
        /\ perms' \in SUBSET Bits9 /\ told' \in [Threads -> SUBSET Bits9]
        /\ disturbed' \in SUBSET Threads
    BY <1>0, <2>1 DEF PermsInv
  <2>3. ASSUME NEW u \in Threads, NEW w \in Threads, u # w, at'[u] # 0, at'[w] # 0
        PROVE  u \in disturbed'
    BY <2>1, <2>3 DEF PermsInv, Busy
  <2>4. ASSUME NEW u \in Threads \ disturbed', at'[u] # 0  PROVE BufferFor(u)'
    <3>1. CASE u = t
      <4>1. at'[t] = 1 /\ \A p \in perms' : p >= 1  BY <1>0, <2>1, <2>2 DEF PermsInv
      <4>2. 1 > Places => 1 .. Places = {}  BY <1>0
      <4> QED  BY <1>0, <3>1, <4>1, <4>2 DEF BufferFor
    <3>2. CASE u # t  BY <2>1, <2>4, <3>2 DEF PermsInv
    <3> QED  BY <3>1, <3>2
  <2>5. PermsOfFile'
    <3> SUFFICES ASSUME NEW u \in Threads \ disturbed', at'[u] = 0  PROVE told'[u] = mode'[u]
      BY DEF PermsOfFile
    <3>1. u # t /\ u \notin disturbed /\ at[u] = 0  BY <2>1 DEF PermsInv
    <3> QED  BY <2>1, <3>1 DEF PermsInv, PermsOfFile
  <2> QED  BY <2>2, <2>3, <2>4, <2>5 DEF PermsInv, Busy
<1>3. ASSUME NEW t \in Threads, at[t] # 0, t \in Threads \ disturbed
      PROVE  \A u \in Threads \ disturbed : u # t => at[u] = 0
  BY <1>3 DEF PermsInv, Busy
<1>4. ASSUME NEW t \in Threads, ClearPlace(t)  PROVE PermsInv'
  <2>1. /\ at[t] \in 1 .. Places /\ perms' = perms \ {at[t]} /\ at' = [at EXCEPT ![t] = @ + 1]
        /\ UNCHANGED <<mode, told, disturbed>>
    BY <1>4 DEF ClearPlace, Cleared
  <2>2. /\ at' \in [Threads -> 0 .. 2 * Places + 1] /\ mode' \in [Threads -> SUBSET Bits9]
        /\ perms' \in SUBSET Bits9 /\ told' \in [Threads -> SUBSET Bits9]
        /\ disturbed' \in SUBSET Threads
    <3>1. at[t] + 1 \in 0 .. 2 * Places + 1  BY <1>0, <2>1
    <3>2. perms' \in SUBSET Bits9  BY <1>0, <2>1 DEF PermsInv
    <3> QED  BY <2>1, <3>1, <3>2 DEF PermsInv
  <2>3. \A u \in Threads : at'[u] # 0 <=> at[u] # 0  BY <1>0, <2>1 DEF PermsInv
  <2>4. ASSUME NEW u \in Threads \ disturbed, at'[u] # 0  PROVE BufferFor(u)'
    <3>1. at[u] # 0  BY <2>3, <2>4
    <3>2. u = t
      <4> SUFFICES ASSUME u # t PROVE FALSE  OBVIOUS
      <4> QED  BY <1>0, <2>1, <3>1 DEF PermsInv, Busy
    <3>3. \A p \in perms : p >= at[t] /\ p \in 1 .. Places
      BY <1>0, <2>1, <3>1, <3>2 DEF PermsInv, Busy, BufferFor
    <3>4. at'[t] = at[t] + 1  BY <2>1 DEF PermsInv
    <3>5. \A p \in perms' : p >= at[t] + 1  BY <1>0, <2>1, <3>3
    <3>6. at[t] + 1 > Places =>
             \A p \in 1 .. Places : p \notin perms' /\ ~(Places + p < at[t] + 1)
      BY <1>0, <2>1, <3>3
    <3> QED  BY <3>2, <3>4, <3>5, <3>6, <1>0 DEF BufferFor
  <2>5. PermsOfFile'  BY <2>1, <2>3 DEF PermsInv, PermsOfFile
  <2> QED  BY <2>1, <2>2, <2>3, <2>4, <2>5 DEF PermsInv, Busy
<1>5. ASSUME NEW t \in Threads, SetPlace(t)  PROVE PermsInv'
  <2>1. /\ at[t] \in Places + 1 .. 2 * Places
        /\ perms' = perms \cup ({at[t] - Places} \cap mode[t])
        /\ at' = [at EXCEPT ![t] = @ + 1]
        /\ UNCHANGED <<mode, told, disturbed>>
    BY <1>5 DEF SetPlace
  <2>2. /\ at' \in [Threads -> 0 .. 2 * Places + 1] /\ mode' \in [Threads -> SUBSET Bits9]
        /\ perms' \in SUBSET Bits9 /\ told' \in [Threads -> SUBSET Bits9]
        /\ disturbed' \in SUBSET Threads
    <3>1. at[t] + 1 \in 0 .. 2 * Places + 1  BY <1>0, <2>1
    <3>2. perms' \in SUBSET Bits9  BY <1>0, <2>1 DEF PermsInv
    <3> QED  BY <2>1, <3>1, <3>2 DEF PermsInv
  <2>3. \A u \in Threads : at'[u] # 0 <=> at[u] # 0  BY <1>0, <2>1 DEF PermsInv
  <2>4. ASSUME NEW u \in Threads \ disturbed, at'[u] # 0  PROVE BufferFor(u)'
    <3>1. at[u] # 0  BY <2>3, <2>4
    <3>2. u = t
      <4> SUFFICES ASSUME u # t PROVE FALSE  OBVIOUS
      <4> QED  BY <1>0, <2>1, <3>1 DEF PermsInv, Busy
    <3>3. \A p \in 1 .. Places : p \in perms <=> p \in mode[t] /\ Places + p < at[t]
      BY <1>0, <2>1, <3>1, <3>2 DEF PermsInv, Busy, BufferFor
    <3>4. at'[t] = at[t] + 1 /\ mode'[t] = mode[t]  BY <2>1 DEF PermsInv
    <3>5. \A p \in 1 .. Places : Places + p < at[t] + 1 <=> Places + p < at[t] \/ p = at[t] - Places
      BY <1>0, <2>1
    <3>6. \A p \in 1 .. Places : p \in perms' <=> p \in mode[t] /\ Places + p < at[t] + 1
      BY <2>1, <3>3, <3>5
    <3>7. at[t] + 1 \notin 1 .. Places  BY <1>0, <2>1
    <3> QED  BY <3>2, <3>4, <3>6, <3>7, <1>0 DEF BufferFor
  <2>5. PermsOfFile'  BY <2>1, <2>3 DEF PermsInv, PermsOfFile
  <2> QED  BY <2>1, <2>2, <2>3, <2>4, <2>5 DEF PermsInv, Busy
<1>6. ASSUME NEW t \in Threads, PushPerm(t)  PROVE PermsInv'
  <2>1. /\ at[t] = 2 * Places + 1 /\ told' = [told EXCEPT ![t] = perms]
        /\ at' = [at EXCEPT ![t] = 0] /\ UNCHANGED <<mode, perms, disturbed>>
    BY <1>6 DEF PushPerm
  <2>2. /\ at' \in [Threads -> 0 .. 2 * Places + 1] /\ mode' \in [Threads -> SUBSET Bits9]
        /\ perms' \in SUBSET Bits9 /\ told' \in [Threads -> SUBSET Bits9]
        /\ disturbed' \in SUBSET Threads
    BY <1>0, <2>1 DEF PermsInv
  <2>3. at[t] # 0 /\ \A u \in Threads : at'[u] # 0 => u # t /\ at[u] # 0
    BY <1>0, <2>1 DEF PermsInv
  <2>4. ASSUME NEW u \in Threads \ disturbed, at'[u] # 0  PROVE BufferFor(u)'
    BY <2>3, <2>4 DEF PermsInv, Busy
  <2>5. PermsOfFile'
    <3> SUFFICES ASSUME NEW u \in Threads \ disturbed, at'[u] = 0  PROVE told'[u] = mode[u]
      BY <2>1 DEF PermsOfFile
    <3>1. CASE u = t
      <4>1. \A p \in 1 .. Places : p \in perms <=> p \in mode[t] /\ Places + p < at[t]
        BY <1>0, <2>1, <2>3, <3>1 DEF PermsInv, Busy, BufferFor
      <4>2. mode[t] \subseteq 1 .. Places /\ perms \subseteq 1 .. Places  BY <1>0 DEF PermsInv
      <4>3. \A p \in 1 .. Places : Places + p < at[t]  BY <1>0, <2>1
      <4>4. perms = mode[t]  BY <4>1, <4>2, <4>3
      <4> QED  BY <2>1, <3>1, <4>4 DEF PermsInv
    <3>2. CASE u # t  BY <2>1, <3>2 DEF PermsInv, PermsOfFile
    <3> QED  BY <3>1, <3>2
  <2> QED  BY <2>1, <2>2, <2>3, <2>4, <2>5 DEF PermsInv, Busy
<1> QED  BY <1>1, <1>2, <1>4, <1>5, <1>6 DEF PermsNext

-----------------------------------------------------------------------------
(* Encryption: CryptoBlocks *)

\* The sizes of blocks.
LEMMA Sizes == /\ BlockSize \in Nat \ {0} /\ Modulus \in Nat \ {0, 1} /\ BlockSize < Modulus
               /\ MaxBuf \in Nat
  BY CryptoAssumption DEF BlockSize

\* The b-th block of a message.
Block(message, b) == Part(message, (b - 1) * BlockSize + 1, BlockSize)

\* Where it ends.
EndOf(message, b) == IF b * BlockSize < Len(message) THEN b * BlockSize ELSE Len(message)

\* Only the last block may be short, and it is not empty.
LEMMA StepsCover ==
    ASSUME NEW T, NEW s \in Seq(T), s # <<>>
    PROVE  /\ Steps(s, BlockSize) \in Nat \ {0}
           /\ (Steps(s, BlockSize) - 1) * BlockSize < Len(s)
           /\ Len(s) <= Steps(s, BlockSize) * BlockSize
<1> DEFINE Size == BlockSize
           L == Len(s)
           q == L \div Size
           r == L % Size
<1>1. Size \in Nat \ {0} /\ L \in Nat \ {0}  BY Sizes
<1>2. Steps(s, BlockSize) = q + (IF r > 0 THEN 1 ELSE 0)  BY DEF Steps
<1> HIDE DEF Size, L
<1>3. q \in Nat /\ r \in 0 .. Size - 1 /\ q * Size + r = L  BY <1>1, Division
<1> HIDE DEF q, r
<1>4. /\ q * Size \in Nat /\ (q + 1) * Size = q * Size + Size
      /\ (q - 1) * Size = q * Size - Size /\ (q + 1) - 1 = q
      /\ q = 0 => q * Size = 0
  BY <1>1, <1>3
<1>5. CASE r > 0
  <2>1. Steps(s, BlockSize) = q + 1  BY <1>2, <1>5
  <2> QED  BY <1>1, <1>3, <1>4, <1>5, <2>1 DEF Size, L
<1>6. CASE r = 0
  <2>1. Steps(s, BlockSize) = q  BY <1>2, <1>3, <1>6
  <2>2. q # 0  BY <1>1, <1>3, <1>4, <1>6
  <2> QED  BY <1>1, <1>3, <1>4, <1>6, <2>1, <2>2 DEF Size, L
<1> QED  BY <1>3, <1>5, <1>6

\* The b-th block.
LEMMA PartIs ==
    ASSUME NEW T, NEW s \in Seq(T), s # <<>>, NEW b \in 1 .. Steps(s, BlockSize)
    PROVE  /\ Block(s, b)
                = SubSeq(s, (b - 1) * BlockSize + 1, EndOf(s, b))
           /\ Block(s, b) \in Seq(T)
           /\ (b - 1) * BlockSize \in Nat /\ (b - 1) * BlockSize < Len(s)
           /\ EndOf(s, b) \in (b - 1) * BlockSize + 1 .. Len(s)
<1> DEFINE Size == BlockSize
           L == Len(s)
           n == Steps(s, BlockSize)
           x == (b - 1) * Size
<1>1. Size \in Nat \ {0} /\ L \in Nat \ {0}  BY Sizes
<1>2. n \in Nat /\ (n - 1) * Size < L  BY StepsCover
<1>3. b - 1 \in Nat /\ b - 1 <= n - 1 /\ b \in Nat  BY <1>2
<1>4. EndOf(s, b) = IF b * Size < L THEN b * Size ELSE L  BY DEF EndOf
<1>5. Block(s, b)
         = SubSeq(s, x + 1, IF (x + 1) + Size - 1 < L THEN (x + 1) + Size - 1 ELSE L)
  BY DEF Block, Part
<1> HIDE DEF Size, L, n
<1>6. x \in Nat /\ x <= (n - 1) * Size /\ b * Size = x + Size  BY <1>1, <1>2, <1>3
<1>7. (n - 1) * Size \in Int  BY <1>1, <1>2
<1> HIDE DEF x
<1>8. x < L  BY <1>1, <1>2, <1>6, <1>7
<1>9. (x + 1) + Size - 1 = b * Size  BY <1>1, <1>6
<1>10. EndOf(s, b) \in x + 1 .. L  BY <1>1, <1>4, <1>6, <1>8
<1>11. Block(s, b) = SubSeq(s, x + 1, EndOf(s, b))
  BY <1>4, <1>5, <1>9
<1>12. SubSeq(s, x + 1, EndOf(s, b)) \in Seq(T)
  <2>1. \A i \in x + 1 .. EndOf(s, b) : s[i] \in T  BY <1>1, <1>6, <1>10 DEF L
  <2>2. x + 1 \in Int /\ EndOf(s, b) \in Int  BY <1>1, <1>6, <1>10
  <2> QED  BY ONLY <2>1, <2>2, SubSeqProperties
<1> QED  BY <1>6, <1>8, <1>10, <1>11, <1>12 DEF x, Size, L

\* Some blocks that follow each other, put together.
LEMMA PartsJoin ==
    ASSUME NEW T, NEW s \in Seq(T), s # <<>>, NEW q \in Nat, NEW t \in Nat,
           q < Steps(s, BlockSize), q + t <= Steps(s, BlockSize)
    PROVE  FlattenSeq([b \in 1 .. t |-> Block(s, q + b)])
              = SubSeq(s, q * BlockSize + 1, EndOf(s, q + t))
<1> DEFINE n == Steps(s, BlockSize)
           f == [b \in 1 .. t |-> Block(s, q + b)]
           g(j) == [b \in 1 .. j |-> f[b]]
           Joined(j) == FlattenSeq(g(j)) = SubSeq(s, q * BlockSize + 1, EndOf(s, q + j))
           S == {j \in Nat : j <= t => Joined(j)}
<1>1. n \in Nat  BY StepsCover
<1>2. /\ BlockSize \in Nat \ {0} /\ Len(s) \in Nat  BY Sizes
<1>3. f \in [1 .. t -> Seq(T)]
  <2>1. ASSUME NEW b \in 1 .. t  PROVE Block(s, q + b) \in Seq(T)
    <3>1. q + b \in 1 .. n  BY <1>1
    <3> QED  BY <3>1, PartIs
  <2> QED  BY <2>1
<1>4. ASSUME NEW j \in Nat, q + j < n
      PROVE  EndOf(s, q + j) = (q + j) * BlockSize /\ (q + j) * BlockSize < Len(s)
             /\ (q + j) * BlockSize \in Nat
  <2>1. (q + j) + 1 \in 1 .. n /\ ((q + j) + 1) - 1 = q + j  BY <1>1, <1>4
  <2>2. (q + j) * BlockSize \in Nat /\ (q + j) * BlockSize < Len(s)  BY <2>1, PartIs
  <2> QED  BY <2>2 DEF EndOf
<1> HIDE DEF n
<1>5. 0 \in S
  <2>1. g(0) = <<>>  OBVIOUS
  <2> HIDE DEF g
  <2>2. q + 0 = q /\ 0 \in Nat /\ q + 0 < n  BY <1>1 DEF n
  <2>3. EndOf(s, q + 0) = q * BlockSize /\ q * BlockSize \in Nat  BY <1>4, <2>2
  <2>4. SubSeq(s, q * BlockSize + 1, EndOf(s, q + 0)) = <<>>
    <3>1. q * BlockSize + 1 \in Int /\ q * BlockSize \in Int /\ q * BlockSize < q * BlockSize + 1
      BY <2>3
    <3> QED  BY <2>3, <3>1, SubSeqEmpty
  <2>5. Joined(0)  BY <2>1, <2>4, FlattenEmpty
  <2> HIDE DEF Joined
  <2> QED  BY <2>5
<1>6. ASSUME NEW j \in Nat, j \in S  PROVE j + 1 \in S
  <2> HIDE DEF g, Joined, f
  <2> SUFFICES ASSUME j + 1 <= t  PROVE Joined(j + 1)  OBVIOUS
  <2>1. Joined(j) /\ j \in 0 .. t - 1 /\ j + 1 \in 1 .. t  BY <1>6
  <2>2. g(j) \in Seq(Seq(T)) /\ g(j + 1) = Append(g(j), f[j + 1])
    BY <1>3, <2>1, OneMore DEF g
  <2>3. f[j + 1] \in Seq(T)  BY <1>3, <2>1
  <2>4. FlattenSeq(g(j + 1)) = FlattenSeq(g(j)) \o f[j + 1]
    <3>1. FlattenSeq(Append(g(j), f[j + 1])) = FlattenSeq(g(j)) \o f[j + 1]
      BY ONLY <2>2, <2>3, FlattenAppend
    <3> QED  BY <2>2, <3>1
  <2> DEFINE x == q * BlockSize
             y == (q + j) * BlockSize
             e == EndOf(s, q + (j + 1))
  <2>5. q + j < n /\ q + (j + 1) \in 1 .. n /\ (q + (j + 1)) - 1 = q + j
    BY <1>1, <2>1 DEF n
  <2>6. EndOf(s, q + j) = y /\ y \in Nat /\ y < Len(s)  BY <1>4, <2>5
  <2>7. f[j + 1] = SubSeq(s, y + 1, e) /\ e \in y + 1 .. Len(s)
    <3>1. f[j + 1] = Block(s, q + (j + 1))  BY <2>1 DEF f
    <3> QED  BY <2>5, <3>1, PartIs DEF n
  <2>8. x \in Nat /\ x <= y  BY <1>2
  <2>9. FlattenSeq(g(j)) = SubSeq(s, x + 1, y)  BY <2>1, <2>6 DEF Joined
  <2> HIDE DEF x, y, e
  <2>10. SubSeq(s, x + 1, y) \o SubSeq(s, y + 1, e) = SubSeq(s, x + 1, e)
    <3>1. y \in x .. Len(s) /\ e \in y .. Len(s)  BY <1>2, <2>6, <2>7, <2>8
    <3> QED  BY <2>8, <3>1, PartsMeet
  <2> QED  BY <2>4, <2>7, <2>9, <2>10 DEF Joined, x, e
<1>7. t \in S
  <2> HIDE DEF S
  <2> QED  BY <1>5, <1>6, InductiveSet
<1>8. g(t) = f  OBVIOUS
<1> HIDE DEF g
<1>9. Joined(t)
  <2> HIDE DEF Joined
  <2> QED  BY <1>7
<1> QED  BY <1>8, <1>9

\* The cells of a message's blocks, made with one half of the key.
CellsOf(T, half) == [of : Seq(T), place : 1 .. Modulus, with : {half}]

\* The encryption of a message, block by block.
Encryption(s, half) ==
    FlattenSeq([b \in 1 .. Steps(s, BlockSize) |-> Cells(Block(s, b), half)])

\* Each cell of it is where it should be.
LEMMA EncryptionCells ==
    ASSUME NEW T, NEW s \in Seq(T), s # <<>>, NEW half
    PROVE  /\ Encryption(s, half) \in Seq(CellsOf(T, half))
           /\ Len(Encryption(s, half)) = Steps(s, BlockSize) * Modulus
           /\ \A b \in 1 .. Steps(s, BlockSize), k \in 1 .. Modulus :
                 Encryption(s, half)[(b - 1) * Modulus + k]
                    = [of |-> Block(s, b), place |-> k, with |-> half]
<1> DEFINE n == Steps(s, BlockSize)
           C == CellsOf(T, half)
           f == [b \in 1 .. n |-> Cells(Block(s, b), half)]
<1>1. n \in Nat  BY StepsCover
<1>2. Modulus \in Nat  BY Sizes
<1>3. ASSUME NEW b \in 1 .. n
      PROVE  /\ Cells(Block(s, b), half) \in Seq(C) /\ Len(Cells(Block(s, b), half)) = Modulus
             /\ \A k \in 1 .. Modulus :
                   Cells(Block(s, b), half)[k] = [of |-> Block(s, b), place |-> k, with |-> half]
  <2>1. Block(s, b) \in Seq(T)  BY PartIs
  <2>2. Cells(Block(s, b), half) \in [1 .. Modulus -> C]  BY <2>1 DEF Cells, CellsOf
  <2>3. Cells(Block(s, b), half) \in Seq(C)  BY <1>2, <2>2, FunctionsAreSequences
  <2>4. Len(Cells(Block(s, b), half)) = Modulus  BY <1>2, <2>2, <2>3
  <2> QED  BY <2>3, <2>4 DEF Cells
<1>4. f \in [1 .. n -> Seq(C)] /\ \A b \in 1 .. n : Len(f[b]) = Modulus  BY <1>3
<1>5. \A b \in 1 .. n, k \in 1 .. Modulus :
         f[b][k] = [of |-> Block(s, b), place |-> k, with |-> half]
  BY <1>3
<1>6. Encryption(s, half) = FlattenSeq(f)  BY DEF Encryption
<1> HIDE DEF n, C, f
<1>7. /\ FlattenSeq(f) \in Seq(C) /\ Len(FlattenSeq(f)) = n * Modulus
      /\ EachInPlace(FlattenSeq(f), f, n, Modulus)
  <2>1. Modulus \in Nat /\ n \in Nat  BY <1>1, <1>2
  <2>2. f \in [1 .. n -> Seq(C)]  BY <1>4
  <2>3. \A b \in 1 .. n : Len(f[b]) = Modulus  BY <1>4
  <2> QED  BY ONLY <2>1, <2>2, <2>3, FlattenEqual
<1>8. \A b \in 1 .. n, k \in 1 .. Modulus : FlattenSeq(f)[(b - 1) * Modulus + k] = f[b][k]
  BY <1>7, Zenon DEF EachInPlace
<1> QED  BY <1>5, <1>6, <1>7, <1>8 DEF n, C

\* Some whole blocks of an encryption, as do_rsa_decrypt goes through them.
LEMMA BlocksOfPart ==
    ASSUME NEW T, NEW s \in Seq(T), s # <<>>, NEW half, NEW q \in Nat, NEW t \in Nat,
           q + t <= Steps(s, BlockSize), NEW b \in 1 .. t
    PROVE  BlockAt(SubSeq(Encryption(s, half), q * Modulus + 1, (q + t) * Modulus), b)
              = Cells(Block(s, q + b), half)
<1> DEFINE n == Steps(s, BlockSize)
           C == CellsOf(T, half)
           E == Encryption(s, half)
           M == Modulus
           c == SubSeq(E, q * M + 1, (q + t) * M)
           d == Cells(Block(s, q + b), half)
           a == BlockAt(c, b)
<1>1. n \in Nat /\ M \in Nat \ {0}  BY StepsCover, Sizes
<1>2. /\ E \in Seq(C) /\ Len(E) = n * M
      /\ \A x \in 1 .. n, k \in 1 .. M :
            E[(x - 1) * M + k] = [of |-> Block(s, x), place |-> k, with |-> half]
  BY EncryptionCells
<1>3. /\ a = SubSeq(c, (b - 1) * M + 1, b * M)
  BY DEF BlockAt
<1>4. /\ d \in Seq(C) /\ Len(d) = M
      /\ \A k \in 1 .. M : d[k] = [of |-> Block(s, q + b), place |-> k, with |-> half]
  <2>1. q + b \in 1 .. n  BY <1>1
  <2>2. Block(s, q + b) \in Seq(T)  BY <2>1, PartIs
  <2>3. d \in [1 .. M -> C]  BY <2>2 DEF Cells, CellsOf
  <2>4. d \in Seq(C)  BY <1>1, <2>3, FunctionsAreSequences
  <2>5. Len(d) = M  BY <1>1, <2>3, <2>4
  <2> QED  BY <2>4, <2>5 DEF Cells
<1>5. q * M \in Nat /\ (q + t) * M \in q * M .. n * M /\ (q + t) * M - q * M = t * M
  <2>1. /\ q * M \in Nat /\ t * M \in Nat /\ n * M \in Nat
        /\ (q + t) * M = q * M + t * M /\ (q + t) * M <= n * M
    BY <1>1
  <2> QED  BY <2>1
<1>6. /\ (b - 1) * M \in Nat /\ b * M \in (b - 1) * M .. t * M /\ b * M - (b - 1) * M = M
  <2>1. /\ (b - 1) * M \in Nat /\ b * M = (b - 1) * M + M /\ t * M \in Nat /\ b * M <= t * M
    BY <1>1
  <2> QED  BY <1>1, <2>1
<1>7. \A k \in 1 .. M : q * M + ((b - 1) * M + k) = ((q + b) - 1) * M + k
  BY <1>1
<1>8. q + b \in 1 .. n  BY <1>1
<1> HIDE DEF n, C, E, M, d
<1>9. /\ c \in Seq(C) /\ Len(c) = t * M /\ \A i \in 1 .. t * M : c[i] = E[q * M + i]
  <2> DEFINE x == q * M
             y == (q + t) * M
  <2>1. x \in Nat /\ y \in x .. Len(E) /\ y - x = t * M  BY <1>2, <1>5
  <2> HIDE DEF x, y
  <2>2. /\ SubSeq(E, x + 1, y) \in Seq(C) /\ Len(SubSeq(E, x + 1, y)) = y - x
        /\ \A i \in 1 .. y - x : SubSeq(E, x + 1, y)[i] = E[x + i]
    <3>1. E \in Seq(C) /\ x \in Nat /\ y \in x .. Len(E)  BY <1>2, <2>1
    <3> QED  BY ONLY <3>1, PartOf
  <2> QED  BY <2>1, <2>2 DEF x, y
<1> HIDE DEF c
<1>10. a \in Seq(C) /\ Len(a) = M /\ \A k \in 1 .. M : a[k] = c[(b - 1) * M + k]
  <2> DEFINE x == (b - 1) * M
             y == b * M
  <2>1. x \in Nat /\ y \in x .. Len(c) /\ y - x = M  BY <1>6, <1>9
  <2> HIDE DEF x, y
  <2>2. /\ SubSeq(c, x + 1, y) \in Seq(C) /\ Len(SubSeq(c, x + 1, y)) = y - x
        /\ \A i \in 1 .. y - x : SubSeq(c, x + 1, y)[i] = c[x + i]
    <3>1. c \in Seq(C) /\ x \in Nat /\ y \in x .. Len(c)  BY <1>9, <2>1
    <3> QED  BY ONLY <3>1, PartOf
  <2> QED  BY <1>3, <2>1, <2>2 DEF x, y
<1> HIDE DEF a
<1>11. ASSUME NEW k \in 1 .. M  PROVE a[k] = d[k]
  <2>1. (b - 1) * M + k \in 1 .. t * M
    <3> DEFINE x == (b - 1) * M
    <3>1. x \in Nat /\ t * M \in Nat /\ x + M <= t * M  BY <1>1, <1>6
    <3> HIDE DEF x
    <3>2. x + k \in 1 .. t * M  BY <1>1, <3>1
    <3> QED  BY <3>2 DEF x
  <2>2. a[k] = E[q * M + ((b - 1) * M + k)]  BY <1>9, <1>10, <2>1
  <2>3. a[k] = E[((q + b) - 1) * M + k]  BY <1>7, <2>2
  <2> QED  BY <1>2, <1>4, <1>8, <2>3
<1>12. a = d  BY <1>4, <1>10, <1>11, SeqEqual
<1> QED  BY <1>12 DEF a, c, d, E, M

\* Whole blocks of an encryption are read with the other half of the key: the part of the
\* message comes back that they were made from.
LEMMA ReadPart ==
    ASSUME NEW T, NEW s \in Seq(T), s # <<>>, NEW half \in {"public", "private"},
           NEW q \in Nat, NEW t \in Nat \ {0}, q + t <= Steps(s, BlockSize),
           Needed(s) <= MaxBuf, CanUse(OtherHalf(half))
    PROVE  RsaDecrypt(SubSeq(Encryption(s, half), q * Modulus + 1, (q + t) * Modulus),
                      OtherHalf(half))
              = SubSeq(s, q * BlockSize + 1, EndOf(s, q + t))
<1> DEFINE n == Steps(s, BlockSize)
           M == Modulus
           E == Encryption(s, half)
           c == SubSeq(E, q * M + 1, (q + t) * M)
<1>1. n \in Nat /\ M \in Nat \ {0} /\ BlockSize \in Nat \ {0} /\ BlockSize < M /\ MaxBuf \in Nat
      /\ q < n /\ t <= n
  <2>1. n \in Nat  BY StepsCover
  <2> QED  BY <2>1, Sizes
<1>2. E \in Seq(CellsOf(T, half)) /\ Len(E) = n * M  BY EncryptionCells
<1>3. Needed(s) = M * n  BY DEF Needed
<1>4. \A b \in 1 .. t : BlockAt(c, b) = Cells(Block(s, q + b), half)
  <2>1. ASSUME NEW b \in 1 .. t  PROVE BlockAt(c, b) = Cells(Block(s, q + b), half)
    BY BlocksOfPart
  <2> QED  BY <2>1
<1>5. SUFFICES RsaDecrypt(c, OtherHalf(half)) = SubSeq(s, q * BlockSize + 1, EndOf(s, q + t))
  OBVIOUS
<1>6. FlattenSeq([b \in 1 .. t |-> Block(s, q + b)])
         = SubSeq(s, q * BlockSize + 1, EndOf(s, q + t))
  BY <1>1, PartsJoin
<1> HIDE DEF n, M, E
<1>7. q * M \in Nat /\ (q + t) * M \in q * M .. n * M /\ (q + t) * M - q * M = t * M
  <2>1. /\ q * M \in Nat /\ t * M \in Nat /\ n * M \in Nat
        /\ (q + t) * M = q * M + t * M /\ (q + t) * M <= n * M
    BY <1>1 DEF n
  <2> QED  BY <2>1
<1>8. Len(c) = t * M
  <2> DEFINE x == q * M
             y == (q + t) * M
  <2>1. x \in Nat /\ y \in x .. Len(E) /\ y - x = t * M  BY <1>2, <1>7
  <2> HIDE DEF x, y
  <2>2. Len(SubSeq(E, x + 1, y)) = y - x
    <3>1. E \in Seq(CellsOf(T, half)) /\ x \in Nat /\ y \in x .. Len(E)  BY <1>2, <2>1
    <3> QED  BY ONLY <3>1, PartOf
  <2> QED  BY <2>1, <2>2 DEF x, y
<1> HIDE DEF c
<1>9. Len(c) \div M = t /\ Len(c) % M = 0
  <2>1. (t * M + 0) \div M = t /\ (t * M + 0) % M = 0
    <3>1. 0 \in 0 .. M - 1 /\ t \in Nat  BY <1>1
    <3> HIDE DEF M
    <3> QED  BY ONLY <1>1, <3>1, DivisionIs
  <2>2. t * M + 0 = t * M  BY <1>1
  <2> QED  BY <1>8, <2>1, <2>2
<1>10. Back(c) <= MaxBuf
  <2>1. Back(c) = BlockSize * t  BY <1>9 DEF Back, M
  <2>2. BlockSize * t <= M * t /\ M * t <= M * n /\ BlockSize * t \in Nat /\ M * t \in Nat
        /\ M * n \in Nat
    BY <1>1
  <2> QED  BY <1>1, <1>3, <2>1, <2>2
<1>11. OtherHalf(OtherHalf(half)) = half  BY DEF OtherHalf
<1>12. ASSUME NEW b \in 1 .. t
       PROVE  BlockAt(c, b)[1].of = Block(s, q + b) /\ Right(BlockAt(c, b), OtherHalf(half))
  <2>1. BlockAt(c, b)[1] = [of |-> Block(s, q + b), place |-> 1, with |-> half]
    <3>1. 1 \in 1 .. Modulus  BY Sizes
    <3> QED  BY <1>4, <3>1 DEF Cells
  <2>2. BlockAt(c, b)[1].of = Block(s, q + b)  BY <2>1
  <2> QED  BY <1>4, <1>11, <2>2 DEF Right
<1>13. [b \in 1 .. t |-> BlockAt(c, b)[1].of] = [b \in 1 .. t |-> Block(s, q + b)]
  BY <1>12
<1>14. RsaDecrypt(c, OtherHalf(half)) = FlattenSeq([b \in 1 .. t |-> BlockAt(c, b)[1].of])
  <2>1. Len(c) % Modulus = 0 /\ 1 .. Len(c) \div Modulus = 1 .. t  BY <1>9 DEF M
  <2>2. ~(Back(c) > MaxBuf)
    <3>1. Back(c) \in Int  BY <1>1, <1>9 DEF Back, M
    <3> QED  BY <1>1, <1>10, <3>1
  <2>3. ~ \E b \in 1 .. t : ~Right(BlockAt(c, b), OtherHalf(half))  BY <1>12
  <2> QED  BY <2>1, <2>2, <2>3, Zenon DEF RsaDecrypt
<1> QED  BY <1>6, <1>13, <1>14

\* From i to j, an encryption consists of whole blocks.
WholeBlocks(s, i, j) ==
    \E q \in Nat, t \in Nat \ {0} :
       q + t <= Steps(s, BlockSize) /\ i = q * Modulus + 1 /\ j = (q + t) * Modulus

\* Nothing but whole blocks is read: what begins or ends within a block is refused.
LEMMA ReadWhole ==
    ASSUME NEW T, NEW s \in Seq(T), s # <<>>, NEW half \in {"public", "private"},
           NEW i \in 1 .. Len(Encryption(s, half)), NEW j \in i .. Len(Encryption(s, half)),
           RsaDecrypt(SubSeq(Encryption(s, half), i, j), OtherHalf(half)) # <<>>
    PROVE  WholeBlocks(s, i, j)
<1> DEFINE n == Steps(s, BlockSize)
           M == Modulus
           C == CellsOf(T, half)
           E == Encryption(s, half)
           c == SubSeq(E, i, j)
           t == Len(c) \div M
           q == (i - 1) \div M
           r == (i - 1) % M
           a == BlockAt(c, 1)
<1>1. n \in Nat /\ M \in Nat \ {0, 1}  BY StepsCover, Sizes
<1>2. /\ E \in Seq(C) /\ Len(E) = n * M
      /\ \A b \in 1 .. n, k \in 1 .. M :
            E[(b - 1) * M + k] = [of |-> Block(s, b), place |-> k, with |-> half]
  BY EncryptionCells
<1>3. Len(c) % M = 0 /\ \A b \in 1 .. t : Right(BlockAt(c, b), OtherHalf(half))
  BY Zenon DEF RsaDecrypt
<1>4. a = SubSeq(c, (1 - 1) * M + 1, 1 * M)  BY DEF BlockAt
<1> HIDE DEF n, M, C, E
<1>5. i \in Nat /\ j \in Nat /\ 1 <= i /\ i <= j /\ j <= n * M /\ n * M \in Nat
  <2>1. n * M \in Nat  BY <1>1
  <2> QED  BY <1>2, <2>1 DEF E
<1>6. c \in Seq(C) /\ Len(c) = j - (i - 1) /\ \A k \in 1 .. j - (i - 1) : c[k] = E[(i - 1) + k]
  <2> DEFINE x == i - 1
  <2>1. x \in Nat /\ j \in x .. Len(E) /\ x + 1 = i  BY <1>2, <1>5
  <2> HIDE DEF x
  <2>2. /\ SubSeq(E, x + 1, j) \in Seq(C) /\ Len(SubSeq(E, x + 1, j)) = j - x
        /\ \A k \in 1 .. j - x : SubSeq(E, x + 1, j)[k] = E[x + k]
    <3>1. E \in Seq(C) /\ x \in Nat /\ j \in x .. Len(E)  BY <1>2, <2>1
    <3> QED  BY ONLY <3>1, PartOf
  <2> QED  BY <2>1, <2>2 DEF x
<1> HIDE DEF c
<1>7. t \in Nat /\ t * M = Len(c)
  <2>1. Len(c) \in Nat /\ M \in Nat \ {0}  BY <1>1, <1>6
  <2>2. t \in Nat /\ (Len(c) % M) \in 0 .. M - 1 /\ t * M + (Len(c) % M) = Len(c)
    BY ONLY <2>1, Division
  <2> HIDE DEF t
  <2>3. t * M \in Nat  BY <1>1, <2>2
  <2> QED  BY <1>3, <2>2, <2>3
<1>8. q \in Nat /\ r \in 0 .. M - 1 /\ q * M + r = i - 1
  <2>1. (i - 1) \in Nat /\ M \in Nat \ {0}  BY <1>1, <1>5
  <2> QED  BY ONLY <2>1, Division
<1> HIDE DEF t, q, r
<1>9. t \in Nat \ {0} /\ M <= Len(c)
  <2>1. Len(c) \in Nat /\ Len(c) >= 1  BY <1>5, <1>6
  <2>2. t # 0  BY <1>1, <1>7, <2>1
  <2>3. 1 * M <= t * M  BY <1>1, <1>7, <2>2
  <2> QED  BY <1>1, <1>7, <2>2, <2>3
<1>10. a[1] = c[1]
  <2>1. (1 - 1) * M = 0 /\ 1 * M = M  BY <1>1
  <2> DEFINE z == SubSeq(c, 0 + 1, M)
  <2>2. a = z  BY <1>4, <2>1
  <2>3. \A k \in 1 .. M - 0 : z[k] = c[0 + k]
    <3>1. c \in Seq(C) /\ 0 \in Nat /\ M \in 0 .. Len(c)  BY <1>1, <1>6, <1>9
    <3> QED  BY ONLY <3>1, PartOf
  <2> HIDE DEF z, a
  <2>4. 1 \in 1 .. M - 0 /\ 0 + 1 = 1  BY <1>1
  <2> QED  BY <2>2, <2>3, <2>4
<1>11. c[1] = E[i]
  <2>1. 1 \in 1 .. j - (i - 1) /\ (i - 1) + 1 = i  BY <1>5
  <2> QED  BY <1>6, <2>1
<1>12. a[1].place = 1
  <2>1. 1 \in 1 .. t  BY <1>9
  <2>2. a = Cells(a[1].of, OtherHalf(OtherHalf(half)))  BY <1>3, <2>1 DEF Right
  <2>3. 1 \in 1 .. Modulus  BY Sizes
  <2> HIDE DEF a
  <2> DEFINE w == a[1].of
  <2> HIDE DEF w
  <2>4. Cells(w, OtherHalf(OtherHalf(half)))[1].place = 1  BY <2>3 DEF Cells
  <2> QED  BY <2>2, <2>4 DEF w
<1> HIDE DEF a
<1>13. q + 1 \in 1 .. n
  <2>1. q * M < n * M /\ q * M \in Nat  BY <1>1, <1>5, <1>8
  <2>2. ~(n <= q)
    <3> SUFFICES ASSUME n <= q PROVE FALSE  OBVIOUS
    <3>1. n * M <= q * M  BY <1>1, <1>8
    <3> QED  BY <1>5, <2>1, <3>1
  <2> QED  BY <1>1, <1>8, <2>2
<1>14. E[i] = [of |-> Block(s, q + 1), place |-> r + 1, with |-> half]
  <2>1. r + 1 \in 1 .. M  BY <1>1, <1>8
  <2>2. ((q + 1) - 1) * M + (r + 1) = i
    <3>1. (q + 1) - 1 = q /\ q * M \in Nat  BY <1>1, <1>8
    <3> QED  BY <1>1, <1>5, <1>8, <3>1
  <2> QED  BY <1>2, <1>13, <2>1, <2>2
<1>15. r = 0
  <2>1. E[i].place = r + 1  BY <1>14
  <2> QED  BY <1>8, <1>10, <1>11, <1>12, <2>1
<1>16. i = q * M + 1 /\ q * M \in Nat
  <2>1. q * M \in Nat  BY <1>1, <1>8
  <2> QED  BY <1>5, <1>8, <1>15, <2>1
<1>17. (q + t) * M = q * M + t * M /\ t * M \in Nat  BY <1>1, <1>8, <1>9
<1>18. j = (q + t) * M  BY <1>5, <1>6, <1>7, <1>16, <1>17
<1>19. q + t <= n
  <2> DEFINE u == q + t
  <2>1. u \in Nat /\ u * M <= n * M  BY <1>5, <1>8, <1>9, <1>18
  <2> HIDE DEF u
  <2>2. ~(n + 1 <= u)
    <3> SUFFICES ASSUME n + 1 <= u PROVE FALSE  OBVIOUS
    <3>1. (n + 1) * M <= u * M /\ (n + 1) * M = n * M + M /\ u * M \in Nat  BY <1>1, <2>1
    <3> QED  BY <1>1, <1>5, <2>1, <3>1
  <2>3. u <= n  BY <1>1, <2>1, <2>2
  <2> QED  BY <2>3 DEF u
<1> QED  BY <1>8, <1>9, <1>16, <1>18, <1>19 DEF WholeBlocks, n, M

\* What the holder of the other half of a key makes of cells that a message was turned into.
Reads(s, half, cells) ==
    /\ RsaDecrypt(cells, OtherHalf(half)) = s
    /\ \A i \in 1 .. Len(cells) : \A j \in i .. Len(cells) :
          LET read == RsaDecrypt(SubSeq(cells, i, j), OtherHalf(half))
          IN  read = SubSeq(s, (i \div Modulus) * BlockSize + 1,
                            ((i \div Modulus) * BlockSize) + Len(read))

\* A message that fits is read from its encryption, whole or in parts.
LEMMA DecryptsMessage ==
    ASSUME NEW s \in Messages, NEW half \in {"public", "private"},
           Needed(s) <= MaxBuf, CanUse(OtherHalf(half))
    PROVE  Reads(s, half, Encryption(s, half))
<1> DEFINE T == Range(s)
           n == Steps(s, BlockSize)
           M == Modulus
           Size == BlockSize
           E == Encryption(s, half)
           C == CellsOf(T, half)
<1>1. s \in Seq(T) /\ s # <<>>  BY CryptoAssumption
<1> HIDE DEF T
<1>2. n \in Nat \ {0} /\ Len(s) <= n * Size  BY <1>1, StepsCover
<1>3. M \in Nat \ {0, 1} /\ Size \in Nat \ {0} /\ Len(s) \in Nat  BY <1>1, Sizes
<1>4. E \in Seq(C) /\ Len(E) = n * M  BY <1>1, EncryptionCells
<1>5. RsaDecrypt(E, OtherHalf(half)) = s
  <2>1. RsaDecrypt(SubSeq(E, 0 * M + 1, (0 + n) * M), OtherHalf(half))
           = SubSeq(s, 0 * Size + 1, EndOf(s, 0 + n))
    <3>1. 0 \in Nat /\ 0 + n <= n  BY <1>2
    <3> QED  BY <1>1, <1>2, <3>1, ReadPart
  <2> HIDE DEF n, M, Size, E, C
  <2>2. 0 * M = 0 /\ 0 * Size = 0 /\ (0 + n) * M = Len(E) /\ 0 + n = n  BY <1>2, <1>3, <1>4
  <2>3. EndOf(s, n) = Len(s)
    <3>1. n * Size \in Nat  BY <1>2, <1>3
    <3> QED  BY <1>2, <1>3, <3>1 DEF EndOf, Size
  <2>4. SubSeq(s, 0 + 1, Len(s)) = s  BY <1>1, WholePart
  <2>5. SubSeq(E, 0 + 1, Len(E)) = E  BY <1>4, WholePart
  <2>6. RsaDecrypt(SubSeq(E, 0 + 1, Len(E)), OtherHalf(half)) = SubSeq(s, 0 + 1, Len(s))
    BY <2>1, <2>2, <2>3
  <2> QED  BY <2>4, <2>5, <2>6
<1>6. ASSUME NEW i \in 1 .. Len(E), NEW j \in i .. Len(E),
             NEW read, read = RsaDecrypt(SubSeq(E, i, j), OtherHalf(half))
      PROVE  read = SubSeq(s, (i \div M) * Size + 1, ((i \div M) * Size) + Len(read))
  <2>1. ASSUME read = <<>>
        PROVE  read = SubSeq(s, (i \div M) * Size + 1, ((i \div M) * Size) + Len(read))
    <3> DEFINE x == (i \div M) * Size
    <3>1. x \in Nat
      <4>1. i \in Nat  BY <1>4, <1>2, <1>3
      <4>2. i \div M \in Nat  BY <1>3, <4>1, Division
      <4> QED  BY <1>3, <4>2
    <3> HIDE DEF x
    <3>2. Len(read) = 0  BY <2>1
    <3>3. x + 1 \in Int /\ x + 0 \in Int /\ x + 0 < x + 1  BY <3>1
    <3>4. SubSeq(s, x + 1, x + 0) = <<>>  BY <1>1, <3>3, SubSeqEmpty
    <3> QED  BY <2>1, <3>2, <3>4 DEF x
  <2>2. ASSUME read # <<>>
        PROVE  read = SubSeq(s, (i \div M) * Size + 1, ((i \div M) * Size) + Len(read))
    <3>1. PICK q \in Nat, t \in Nat \ {0} : q + t <= n /\ i = q * M + 1 /\ j = (q + t) * M
      <4>1. RsaDecrypt(SubSeq(Encryption(s, half), i, j), OtherHalf(half)) # <<>>
        BY <1>6, <2>2
      <4>2. i \in 1 .. Len(Encryption(s, half)) /\ j \in i .. Len(Encryption(s, half))
        OBVIOUS
      <4>3. WholeBlocks(s, i, j)
        <5> HIDE DEF n, M, Size, E, C
        <5> QED  BY <1>1, <4>1, <4>2, ReadWhole
      <4> QED  BY <4>3, Zenon DEF WholeBlocks
    <3>2. read = SubSeq(s, q * Size + 1, EndOf(s, q + t))  BY <1>1, <1>6, <3>1, ReadPart
    <3>3. i \div M = q
      <4>1. 1 \in 0 .. M - 1 /\ M \in Nat \ {0}  BY <1>3
      <4> HIDE DEF M
      <4>2. (q * M + 1) \div M = q  BY <4>1, DivisionIs
      <4> QED  BY <3>1, <4>2
    <3> DEFINE x == q * Size
               e == EndOf(s, q + t)
    <3>4. x \in Nat /\ e \in x .. Len(s)
      <4>1. q + t \in 1 .. n  BY <1>2, <3>1
      <4>2. EndOf(s, q + t) \in ((q + t) - 1) * Size + 1 .. Len(s) /\ ((q + t) - 1) * Size \in Nat
        BY <1>1, <4>1, PartIs
      <4>3. q * Size <= ((q + t) - 1) * Size /\ q * Size \in Nat
        <5>1. (q + t) - 1 \in Nat /\ q <= (q + t) - 1  OBVIOUS
        <5> DEFINE y == (q + t) - 1
        <5> HIDE DEF y
        <5> QED  BY <1>3, <5>1 DEF y
      <4> HIDE DEF Size
      <4> QED  BY <1>3, <4>2, <4>3
    <3> HIDE DEF x, e
    <3>5. Len(SubSeq(s, x + 1, e)) = e - x  BY ONLY <1>1, <3>4, PartOf
    <3>6. x + (e - x) = e  BY <1>3, <3>4
    <3>7. read = SubSeq(s, x + 1, x + Len(read))  BY <3>2, <3>5, <3>6 DEF x, e
    <3> QED  BY <3>3, <3>7 DEF x
  <2> QED  BY <2>1, <2>2
<1> QED  BY <1>5, <1>6 DEF Reads

\* An AES object decrypts by encrypting: the bits of the stream cancel out.
LEMMA StreamCancels ==
    ASSUME NEW m \in Streamed \cup {<<>>}
    PROVE  Ofb(Ofb(m, 0), 0) = m
<1>1. m \in Seq({0, 1}) /\ Len(m) <= Len(Stream) /\ Stream \in Seq({0, 1}) /\ Len(m) \in Nat
  <2>1. <<>> \in Seq({0, 1}) /\ Len(<<>>) = 0 /\ Len(Stream) \in Nat  BY CryptoAssumption
  <2>2. CASE m = <<>>  BY <2>1, <2>2, CryptoAssumption
  <2>3. CASE m \in Streamed
    <3>1. m \in Seq({0, 1}) /\ Len(m) <= Len(Stream)  BY <2>3, CryptoAssumption
    <3>2. Len(m) \in Nat  BY <3>1
    <3> QED  BY <3>1, <3>2, CryptoAssumption
  <2> QED  BY <2>2, <2>3
<1>2. DOMAIN m = 1 .. Len(m) /\ m \in [1 .. Len(m) -> {0, 1}]  BY <1>1
<1>3. ASSUME NEW i \in 1 .. Len(m)
      PROVE  (((m[i] + Stream[0 + i]) % 2) + Stream[0 + i]) % 2 = m[i]
  <2>1. m[i] \in {0, 1}
    <3> HIDE <1>1
    <3> QED  BY <1>2
  <2>2. Stream[0 + i] \in {0, 1}
    <3>1. 0 + i \in 1 .. Len(Stream)  BY <1>1
    <3> QED  BY <1>1, <3>1
  <2> DEFINE x == m[i]
             y == Stream[0 + i]
  <2> HIDE DEF x, y
  <2>3. x \in {0, 1} /\ y \in {0, 1}  BY <2>1, <2>2 DEF x, y
  <2>4. (((x + y) % 2) + y) % 2 = x  BY ONLY <2>3
  <2> QED  BY <2>4 DEF x, y
<1>4. Ofb(m, 0) = [i \in 1 .. Len(m) |-> (m[i] + Stream[0 + i]) % 2]  BY <1>2 DEF Ofb
<1>5. Ofb(Ofb(m, 0), 0) = [i \in 1 .. Len(m) |-> (((m[i] + Stream[0 + i]) % 2) + Stream[0 + i]) % 2]
  BY <1>4 DEF Ofb
<1>6. Ofb(Ofb(m, 0), 0) = [i \in 1 .. Len(m) |-> m[i]]  BY <1>3, <1>5
<1> QED  BY <1>2, <1>6

\* What lua_crypto.c keeps between the calls of a script.
CryptoInv ==
    /\ rsaCall.half \in {"public", "private"}
    /\ \/ rsaCall.returned = <<>>
       \/ /\ rsaCall.given \in Messages /\ Needed(rsaCall.given) <= MaxBuf
          /\ rsaCall.returned = Encryption(rsaCall.given, rsaCall.half)
    /\ aesAt = 0
    /\ aesCall.given \in Streamed \cup {<<>>} /\ aesCall.returned = Ofb(aesCall.given, 0)

\* Nothing was encrypted yet.
LEMMA InitCrypto == CryptoInit => CryptoInv
<1> SUFFICES ASSUME CryptoInit  PROVE CryptoInv  OBVIOUS
<1>1. Ofb(<<>>, 0) = <<>>  BY DEF Ofb
<1> QED  BY <1>1 DEF CryptoInit, CryptoInv

\* A message that fits is encrypted block by block; the vector in the object stays.
LEMMA CryptoStep ==
    ASSUME CryptoInv, CryptoNext \/ UNCHANGED cryptoVars
    PROVE  CryptoInv'
<1>1. CASE UNCHANGED cryptoVars
  BY <1>1 DEF CryptoInv, cryptoVars, Needed
<1>2. ASSUME NEW k \in {"public", "private"}, SetKey(k)  PROVE CryptoInv'
  BY <1>2 DEF CryptoInv, SetKey
<1>3. ASSUME NEW m \in Messages, NEW half \in {"public", "private"}, RsaCall(m, half)
      PROVE  CryptoInv'
  <2> DEFINE c == [given |-> m, half |-> half, returned |-> RsaEncrypt(m, half)]
  <2>1. rsaCall' = c /\ aesAt' = aesAt /\ aesCall' = aesCall  BY <1>3 DEF RsaCall
  <2>2. c.half = half /\ c.given = m /\ c.returned = RsaEncrypt(m, half)  OBVIOUS
  <2> HIDE DEF c
  <2>3. \/ RsaEncrypt(m, half) = <<>>
        \/ Needed(m) <= MaxBuf /\ RsaEncrypt(m, half) = Encryption(m, half)
    <3>1. CASE Needed(m) > MaxBuf \/ ~CanUse(half)  BY <3>1 DEF RsaEncrypt
    <3>2. CASE ~(Needed(m) > MaxBuf \/ ~CanUse(half))
      <4>1. Needed(m) <= MaxBuf
        <5>1. Needed(m) \in Int /\ MaxBuf \in Int
          <6>1. m \in Seq(Range(m)) /\ m # <<>>  BY CryptoAssumption
          <6>2. Steps(m, BlockSize) \in Nat  BY <6>1, StepsCover
          <6> QED  BY <6>2, Sizes DEF Needed
        <5> QED  BY <3>2, <5>1
      <4>2. RsaEncrypt(m, half) = Encryption(m, half)
        BY <3>2 DEF RsaEncrypt, Encryption, Block
      <4> QED  BY <4>1, <4>2
    <3> QED  BY <3>1, <3>2
  <2> QED  BY <2>1, <2>2, <2>3 DEF CryptoInv, Needed
<1>4. ASSUME NEW m \in Streamed, AesCall(m)  PROVE CryptoInv'
  <2> DEFINE c == [given |-> m, returned |-> Ofb(m, aesAt)]
  <2>1. aesCall' = c /\ aesAt' = aesAt /\ rsaCall' = rsaCall  BY <1>4 DEF AesCall, AtAfter
  <2>2. c.given = m /\ c.returned = Ofb(m, aesAt) /\ aesAt = 0  BY DEF CryptoInv
  <2> HIDE DEF c
  <2> QED  BY <2>1, <2>2 DEF CryptoInv, Needed
<1> QED  BY <1>1, <1>2, <1>3, <1>4 DEF CryptoNext

\* What is decrypted is what was encrypted.
LEMMA CryptoReads == CryptoInv => Decrypts
<1> SUFFICES ASSUME CryptoInv  PROVE Decrypts  OBVIOUS
<1> DEFINE s == rsaCall.given
           half == rsaCall.half
           E == rsaCall.returned
<1>1. /\ half \in {"public", "private"}
      /\ E = <<>> \/ (s \in Messages /\ Needed(s) <= MaxBuf /\ E = Encryption(s, half))
  BY DEF CryptoInv
<1> HIDE DEF s, half, E
<1>2. RsaInBuffer
  <2>1. ASSUME E = <<>>  PROVE Len(E) <= MaxBuf  BY <2>1, Sizes
  <2>2. ASSUME E # <<>>  PROVE Len(E) <= MaxBuf
    <3>1. s \in Messages /\ Needed(s) <= MaxBuf /\ E = Encryption(s, half)  BY <1>1, <2>2
    <3>2. s \in Seq(Range(s)) /\ s # <<>>  BY <3>1, CryptoAssumption
    <3>3. Len(E) = Steps(s, BlockSize) * Modulus /\ Steps(s, BlockSize) \in Nat
      BY <3>1, <3>2, EncryptionCells, StepsCover
    <3>4. Needed(s) = Len(E)  BY <3>3, Sizes DEF Needed
    <3> QED  BY <3>1, <3>4
  <2> QED  BY <2>1, <2>2 DEF RsaInBuffer, E
<1>3. ASSUME E # <<>>, CanUse(OtherHalf(half))  PROVE Reads(s, half, E)
  <2>1. s \in Messages /\ Needed(s) <= MaxBuf /\ E = Encryption(s, half)  BY <1>1, <1>3
  <2>2. Reads(s, half, Encryption(s, half))  BY <1>1, <1>3, <2>1, DecryptsMessage
  <2> QED  BY <2>1, <2>2
<1>4. RsaDecrypts  BY <1>3, Zenon DEF RsaDecrypts, Reads, s, half, E
<1>5. AesDecrypts
  <2>1. /\ aesAt = 0 /\ aesCall.given \in Streamed \cup {<<>>}
        /\ aesCall.returned = Ofb(aesCall.given, 0)
    BY DEF CryptoInv
  <2>2. Ofb(Ofb(aesCall.given, 0), 0) = aesCall.given  BY <2>1, StreamCancels
  <2> QED  BY <2>1, <2>2 DEF AesDecrypts
<1> QED  BY <1>2, <1>4, <1>5 DEF Decrypts

-----------------------------------------------------------------------------
(* base64: Base64 *)

\* The powers of a unit, and how they make up each other.
LEMMA Powers ==
    /\ P(1) \in Nat \ {0} /\ P(2) \in Nat \ {0} /\ P(3) \in Nat \ {0}
    /\ P(1) * P(3) = P(4) /\ P(3) * P(1) = P(4) /\ P(2) * P(2) = P(4)
    /\ P(2) * P(1) = P(3) /\ P(1) * P(2) = P(3)
<1> DEFINE u == Unit
<1>1. u \in Nat \ {0}  BY Base64Assumption
<1>2. P(1) = u /\ P(2) = u * u /\ P(3) = u * u * u /\ P(4) = u * u * u * u  BY DEF P
<1> HIDE DEF u
<1>3. u * u \in Nat \ {0}  BY <1>1
<1> DEFINE v == u * u
<1> HIDE DEF v
<1>4. v \in Nat \ {0} /\ u * u = v  BY <1>3 DEF v
<1>5. v * u \in Nat \ {0} /\ v * u = u * v  BY <1>1, <1>4
<1> DEFINE w == v * u
<1> HIDE DEF w
<1>6. w \in Nat \ {0} /\ v * u = w /\ u * v = w  BY <1>5 DEF w
<1>7. P(1) = u /\ P(2) = v /\ P(3) = w /\ P(4) = w * u  BY <1>2, <1>4, <1>6
<1>8. u * w = w * u  BY <1>1, <1>6
<1>9. w * u = v * v
  <2>1. (v * u) * u = v * (u * u)  BY <1>1, <1>4
  <2> QED  BY <1>4, <1>6, <2>1
<1> QED  BY <1>1, <1>4, <1>6, <1>7, <1>8, <1>9

\* How a character is split between the byte begun and the next one.
LEMMA CharParts ==
    ASSUME NEW v \in Alphabet
    PROVE  /\ v \div P(2) \in 0 .. P(1) - 1 /\ v % P(2) \in 0 .. P(2) - 1
           /\ (v \div P(2)) * P(2) + (v % P(2)) = v
           /\ v \div P(1) \in 0 .. P(2) - 1 /\ v % P(1) \in 0 .. P(1) - 1
           /\ (v \div P(1)) * P(1) + (v % P(1)) = v
<1>1. v \in 0 .. P(2) * P(1) - 1 /\ v \in 0 .. P(1) * P(2) - 1  BY Powers DEF Alphabet
<1>2. P(1) \in Nat \ {0} /\ P(2) \in Nat \ {0}  BY Powers
<1>3. /\ v \div P(2) \in 0 .. P(1) - 1 /\ v % P(2) \in 0 .. P(2) - 1
      /\ (v \div P(2)) * P(2) + (v % P(2)) = v
  BY <1>1, <1>2, InTwo
<1>4. /\ v \div P(1) \in 0 .. P(2) - 1 /\ v % P(1) \in 0 .. P(1) - 1
      /\ (v \div P(1)) * P(1) + (v % P(1)) = v
  BY <1>1, <1>2, InTwo
<1> QED  BY <1>3, <1>4

\* A byte made of what the characters before and after carry of it, x of the one, y of the
\* other, can be split again; k is how many units the first carries.
ByteOf(k, x, y) == x * P(4 - k) + y

\* The three ways to do it.
LEMMA ByteParts ==
    ASSUME NEW k \in {1, 2, 3}, NEW x \in 0 .. P(k) - 1, NEW y \in 0 .. P(4 - k) - 1
    PROVE  ByteOf(k, x, y) \div P(4 - k) = x /\ ByteOf(k, x, y) % P(4 - k) = y
<1>1. P(k) \in Nat \ {0} /\ P(4 - k) \in Nat \ {0}
  <2>1. CASE k = 1  BY <2>1, Powers
  <2>2. CASE k = 2  BY <2>2, Powers
  <2>3. CASE k = 3  BY <2>3, Powers
  <2> QED  BY <2>1, <2>2, <2>3
<1> DEFINE m == P(4 - k)
           n == P(k)
<1>2. m \in Nat \ {0} /\ n \in Nat \ {0} /\ x \in 0 .. n - 1 /\ y \in 0 .. m - 1  BY <1>1
<1>3. ByteOf(k, x, y) = x * m + y  BY DEF ByteOf
<1> HIDE DEF m, n
<1>4. (x * m + y) \div m = x /\ (x * m + y) % m = y  BY <1>2, OfTwo
<1> QED  BY <1>3, <1>4 DEF m

\* What a character that is read in state s leaves for the byte that is begun, and what it
\* adds to the byte begun before.
Carry(s, v) == CASE s = 0 -> v * P(1)
                 [] s = 1 -> (v % P(2)) * P(2)
                 [] s = 2 -> (v % P(1)) * P(3)
                 [] s = 3 -> 0
Fill(s, v) == CASE s = 1 -> v \div P(2)
                [] s = 2 -> v \div P(1)
                [] s = 3 -> v

\* The r-th of the three bytes that four characters of the alphabet make.
ByteFor(r, x, y) == Carry(r - 1, x) + Fill(r, y)

\* Both are numbers.
LEMMA CarryType ==
    ASSUME NEW v \in Alphabet
    PROVE  /\ \A s \in 0 .. 3 : Carry(s, v) \in Nat
           /\ \A s \in 1 .. 3 : Fill(s, v) \in Nat
<1>1. /\ P(1) \in Nat /\ P(2) \in Nat /\ P(3) \in Nat /\ v \in Nat  BY Powers DEF Alphabet
<1>2. /\ v \div P(2) \in Nat /\ v % P(2) \in Nat /\ v \div P(1) \in Nat /\ v % P(1) \in Nat
  BY CharParts, Powers
<1>3. /\ v * P(1) \in Nat /\ (v % P(2)) * P(2) \in Nat /\ (v % P(1)) * P(3) \in Nat
  <2> DEFINE x == v % P(2)
             y == v % P(1)
             a == P(1)
             b == P(2)
             c == P(3)
  <2>1. x \in Nat /\ y \in Nat /\ a \in Nat /\ b \in Nat /\ c \in Nat  BY <1>1, <1>2
  <2> HIDE DEF x, y, a, b, c
  <2>2. v * a \in Nat /\ x * b \in Nat /\ y * c \in Nat  BY <1>1, <2>1
  <2> QED  BY <2>2 DEF x, y, a, b, c
<1>4. ASSUME NEW s \in 0 .. 3  PROVE Carry(s, v) \in Nat
  <2>1. CASE s = 0  BY <1>3, <2>1 DEF Carry
  <2>2. CASE s = 1  BY <1>3, <2>2 DEF Carry
  <2>3. CASE s = 2  BY <1>3, <2>3 DEF Carry
  <2>4. CASE s = 3  BY <2>4 DEF Carry
  <2> QED  BY <2>1, <2>2, <2>3, <2>4
<1>5. ASSUME NEW s \in 1 .. 3  PROVE Fill(s, v) \in Nat
  <2>1. CASE s = 1  BY <1>2, <2>1 DEF Fill
  <2>2. CASE s = 2  BY <1>2, <2>2 DEF Fill
  <2>3. CASE s = 3  BY <1>1, <2>3 DEF Fill
  <2> QED  BY <2>1, <2>2, <2>3
<1> QED  BY <1>4, <1>5

\* The bytes of four characters.
LEMMA BytesFor ==
    ASSUME NEW x, NEW y
    PROVE  /\ ByteFor(1, x, y) = x * P(1) + (y \div P(2))
           /\ ByteFor(2, x, y) = (x % P(2)) * P(2) + (y \div P(1))
           /\ ByteFor(3, x, y) = (x % P(1)) * P(3) + y
<1>1. Carry(0, x) = x * P(1) /\ Carry(1, x) = (x % P(2)) * P(2) /\ Carry(2, x) = (x % P(1)) * P(3)
  BY DEF Carry
<1>2. Fill(1, y) = y \div P(2) /\ Fill(2, y) = y \div P(1) /\ Fill(3, y) = y  BY DEF Fill
<1>3. /\ ByteFor(1, x, y) = Carry(0, x) + Fill(1, y)
      /\ ByteFor(2, x, y) = Carry(1, x) + Fill(2, y)
      /\ ByteFor(3, x, y) = Carry(2, x) + Fill(3, y)
  <2>1. 1 - 1 = 0 /\ 2 - 1 = 1 /\ 3 - 1 = 2  OBVIOUS
  <2> QED  BY <2>1 DEF ByteFor
<1> QED  BY <1>1, <1>2, <1>3

\* What the four characters were, the three bytes are encoded to.
LEMMA FourOfBytes ==
    ASSUME NEW c1 \in Alphabet, NEW c2 \in Alphabet, NEW c3 \in Alphabet, NEW c4 \in Alphabet
    PROVE  Four(ByteFor(1, c1, c2), ByteFor(2, c2, c3), ByteFor(3, c3, c4)) = <<c1, c2, c3, c4>>
<1> DEFINE b1 == ByteFor(1, c1, c2)
           b2 == ByteFor(2, c2, c3)
           b3 == ByteFor(3, c3, c4)
<1>1. c1 \in 0 .. P(3) - 1 /\ c4 \in 0 .. P(3) - 1  BY DEF Alphabet
<1>2. /\ c2 \div P(2) \in 0 .. P(1) - 1 /\ c2 % P(2) \in 0 .. P(2) - 1
      /\ (c2 \div P(2)) * P(2) + (c2 % P(2)) = c2
  BY CharParts
<1>3. /\ c3 \div P(1) \in 0 .. P(2) - 1 /\ c3 % P(1) \in 0 .. P(1) - 1
      /\ (c3 \div P(1)) * P(1) + (c3 % P(1)) = c3
  BY CharParts
<1>4. b1 = ByteOf(3, c1, c2 \div P(2))
  <2>1. 4 - 3 = 1  OBVIOUS
  <2> QED  BY BytesFor, <2>1 DEF ByteOf
<1>5. b2 = ByteOf(2, c2 % P(2), c3 \div P(1))
  <2>1. 4 - 2 = 2  OBVIOUS
  <2> QED  BY BytesFor, <2>1 DEF ByteOf
<1>6. b3 = ByteOf(1, c3 % P(1), c4)
  <2>1. 4 - 1 = 3  OBVIOUS
  <2> QED  BY BytesFor, <2>1 DEF ByteOf
<1>7. b1 \div P(1) = c1 /\ b1 % P(1) = c2 \div P(2)
  <2>1. 4 - 3 = 1 /\ 3 \in {1, 2, 3}  OBVIOUS
  <2>2. c2 \div P(2) \in 0 .. P(4 - 3) - 1  BY <1>2, <2>1
  <2>3. ByteOf(3, c1, c2 \div P(2)) \div P(4 - 3) = c1
        /\ ByteOf(3, c1, c2 \div P(2)) % P(4 - 3) = c2 \div P(2)
    BY ONLY <1>1, <2>1, <2>2, ByteParts
  <2> QED  BY <1>4, <2>1, <2>3
<1>8. b2 \div P(2) = c2 % P(2) /\ b2 % P(2) = c3 \div P(1)
  <2>1. 4 - 2 = 2 /\ 2 \in {1, 2, 3}  OBVIOUS
  <2>2. c3 \div P(1) \in 0 .. P(4 - 2) - 1  BY <1>3, <2>1
  <2>3. ByteOf(2, c2 % P(2), c3 \div P(1)) \div P(4 - 2) = c2 % P(2)
        /\ ByteOf(2, c2 % P(2), c3 \div P(1)) % P(4 - 2) = c3 \div P(1)
    BY ONLY <1>2, <2>1, <2>2, ByteParts
  <2> QED  BY <1>5, <2>1, <2>3
<1>9. b3 \div P(3) = c3 % P(1) /\ b3 % P(3) = c4
  <2>1. 4 - 1 = 3 /\ 1 \in {1, 2, 3}  OBVIOUS
  <2>2. c4 \in 0 .. P(4 - 1) - 1  BY <1>1, <2>1
  <2>3. ByteOf(1, c3 % P(1), c4) \div P(4 - 1) = c3 % P(1)
        /\ ByteOf(1, c3 % P(1), c4) % P(4 - 1) = c4
    BY ONLY <1>3, <2>1, <2>2, ByteParts
  <2> QED  BY <1>6, <2>1, <2>3
<1> HIDE DEF b1, b2, b3
<1>10. Four(b1, b2, b3) = <<c1, (c2 \div P(2)) * P(2) + (c2 % P(2)),
                            (c3 \div P(1)) * P(1) + (c3 % P(1)), c4>>
  BY <1>7, <1>8, <1>9 DEF Four
<1>11. Four(b1, b2, b3) = <<c1, c2, c3, c4>>  BY <1>2, <1>3, <1>10
<1> QED  BY <1>11 DEF b1, b2, b3

\* The characters of three bytes, by themselves.
LEMMA FourIs ==
    ASSUME NEW x, NEW y, NEW z
    PROVE  /\ Four(x, y, z)[1] = x \div P(1)
           /\ Four(x, y, z)[2] = (x % P(1)) * P(2) + (y \div P(2))
           /\ Four(x, y, z)[3] = (y % P(2)) * P(1) + (z \div P(3))
           /\ Four(x, y, z)[4] = z % P(3)
  BY DEF Four

\* What the three bytes were, the four characters are decoded to.
LEMMA BytesOfFour ==
    ASSUME NEW b1 \in Bytes, NEW b2 \in Bytes, NEW b3 \in Bytes
    PROVE  /\ \A t \in 1 .. 4 : Four(b1, b2, b3)[t] \in Alphabet
           /\ ByteFor(1, Four(b1, b2, b3)[1], Four(b1, b2, b3)[2]) = b1
           /\ ByteFor(2, Four(b1, b2, b3)[2], Four(b1, b2, b3)[3]) = b2
           /\ ByteFor(3, Four(b1, b2, b3)[3], Four(b1, b2, b3)[4]) = b3
<1> DEFINE c1 == Four(b1, b2, b3)[1]
           c2 == Four(b1, b2, b3)[2]
           c3 == Four(b1, b2, b3)[3]
           c4 == Four(b1, b2, b3)[4]
<1>1. /\ c1 = b1 \div P(1) /\ c2 = (b1 % P(1)) * P(2) + (b2 \div P(2))
      /\ c3 = (b2 % P(2)) * P(1) + (b3 \div P(3)) /\ c4 = b3 % P(3)
  BY FourIs
<1> HIDE DEF c1, c2, c3, c4
<1>2. /\ P(1) \in Nat \ {0} /\ P(2) \in Nat \ {0} /\ P(3) \in Nat \ {0}
      /\ b1 \in 0 .. P(1) * P(3) - 1 /\ b2 \in 0 .. P(2) * P(2) - 1 /\ b3 \in 0 .. P(3) * P(1) - 1
  BY Powers DEF Bytes
<1>3. /\ b1 \div P(1) \in 0 .. P(3) - 1 /\ b1 % P(1) \in 0 .. P(1) - 1
      /\ (b1 \div P(1)) * P(1) + (b1 % P(1)) = b1
  BY ONLY <1>2, InTwo
<1>4. /\ b2 \div P(2) \in 0 .. P(2) - 1 /\ b2 % P(2) \in 0 .. P(2) - 1
      /\ (b2 \div P(2)) * P(2) + (b2 % P(2)) = b2
  BY ONLY <1>2, InTwo
<1>5. /\ b3 \div P(3) \in 0 .. P(1) - 1 /\ b3 % P(3) \in 0 .. P(3) - 1
      /\ (b3 \div P(3)) * P(3) + (b3 % P(3)) = b3
  BY ONLY <1>2, InTwo
<1>6. c2 \in Alphabet /\ c2 \div P(2) = b1 % P(1) /\ c2 % P(2) = b2 \div P(2)
  <2> DEFINE x == b1 % P(1)
             y == b2 \div P(2)
             m == P(2)
             n == P(1)
  <2>1. x \in 0 .. n - 1 /\ y \in 0 .. m - 1 /\ m \in Nat \ {0} /\ n \in Nat \ {0}
    BY <1>2, <1>3, <1>4
  <2>2. c2 = x * m + y /\ 0 .. m * n - 1 = Alphabet  BY <1>1, Powers DEF Alphabet
  <2> HIDE DEF x, y, m, n
  <2>3. x * m + y \in 0 .. m * n - 1 /\ (x * m + y) \div m = x /\ (x * m + y) % m = y
    BY ONLY <2>1, OfTwo
  <2>4. c2 \in Alphabet /\ c2 \div m = x /\ c2 % m = y  BY <2>2, <2>3
  <2> QED  BY <2>4 DEF x, y, m
<1>7. c3 \in Alphabet /\ c3 \div P(1) = b2 % P(2) /\ c3 % P(1) = b3 \div P(3)
  <2> DEFINE x == b2 % P(2)
             y == b3 \div P(3)
             m == P(1)
             n == P(2)
  <2>1. x \in 0 .. n - 1 /\ y \in 0 .. m - 1 /\ m \in Nat \ {0} /\ n \in Nat \ {0}
    BY <1>2, <1>4, <1>5
  <2>2. c3 = x * m + y /\ 0 .. m * n - 1 = Alphabet  BY <1>1, Powers DEF Alphabet
  <2> HIDE DEF x, y, m, n
  <2>3. x * m + y \in 0 .. m * n - 1 /\ (x * m + y) \div m = x /\ (x * m + y) % m = y
    BY ONLY <2>1, OfTwo
  <2>4. c3 \in Alphabet /\ c3 \div m = x /\ c3 % m = y  BY <2>2, <2>3
  <2> QED  BY <2>4 DEF x, y, m
<1>8. c1 \in Alphabet /\ c4 \in Alphabet  BY <1>1, <1>3, <1>5 DEF Alphabet
<1>9. ByteFor(1, c1, c2) = b1
  <2>1. ByteFor(1, c1, c2) = c1 * P(1) + (c2 \div P(2))  BY BytesFor
  <2> QED  BY <1>1, <1>3, <1>6, <2>1
<1>10. ByteFor(2, c2, c3) = b2
  <2>1. ByteFor(2, c2, c3) = (c2 % P(2)) * P(2) + (c3 \div P(1))  BY BytesFor
  <2> QED  BY <1>4, <1>6, <1>7, <2>1
<1>11. ByteFor(3, c3, c4) = b3
  <2>1. ByteFor(3, c3, c4) = (c3 % P(1)) * P(3) + c4  BY BytesFor
  <2> QED  BY <1>1, <1>5, <1>7, <2>1
<1>12. c1 \in Alphabet /\ c2 \in Alphabet /\ c3 \in Alphabet /\ c4 \in Alphabet
  BY <1>6, <1>7, <1>8
<1>13. \A t \in 1 .. 4 : t = 1 \/ t = 2 \/ t = 3 \/ t = 4  OBVIOUS
<1> QED  BY <1>9, <1>10, <1>11, <1>12, <1>13 DEF c1, c2, c3, c4

\* bytes are those that the characters of w make.
Made(bytes, w) ==
    \A g \in Nat, r \in 1 .. 3 : 3 * g + r <= Len(bytes) =>
        bytes[3 * g + r] = ByteFor(r, w[4 * g + r], w[4 * g + r + 1])

\* What b64_pton keeps while it has found no end.
Open == [at : {"chars", "pad", "spaces"}, state : 0 .. 3, bytes : Seq(Nat), begun : Nat]

\* b64_pton has read the characters w of the alphabet, q groups of four and some more.
Word(d, w, q) ==
    /\ d \in Open
    /\ w \in Seq(Alphabet) /\ q \in Nat /\ Len(w) = 4 * q + d.state
    /\ Len(d.bytes) = 3 * q + (IF d.state = 0 THEN 0 ELSE d.state - 1)
    /\ d.begun = IF d.state = 0 THEN 0 ELSE Carry(d.state - 1, w[Len(w)])
    /\ Made(d.bytes, w)

\* A character that is left out of sight changes nothing.
LEMMA MadeMore ==
    ASSUME NEW w \in Seq(Alphabet), NEW v \in Alphabet, NEW q \in Nat, NEW s \in 0 .. 3,
           NEW bytes \in Seq(Nat), Made(bytes, w), Len(w) = 4 * q + s,
           Len(bytes) = 3 * q + (IF s = 0 THEN 0 ELSE s - 1)
    PROVE  /\ Made(bytes, Append(w, v))
           /\ s # 0 => Made(Append(bytes, ByteFor(s, w[Len(w)], v)), Append(w, v))
<1> DEFINE u == Append(w, v)
           b == ByteFor(s, w[Len(w)], v)
           more == Append(bytes, b)
<1>1. Len(w) \in Nat /\ Len(bytes) \in Nat  OBVIOUS
<1>2. /\ Len(u) = Len(w) + 1 /\ u[Len(w) + 1] = v
      /\ \A i \in 1 .. Len(w) : u[i] = w[i]
  BY AppendProperties, SMTT(40)
<1>3. ASSUME NEW g \in Nat, NEW r \in 1 .. 3, 3 * g + r <= Len(bytes)
      PROVE  bytes[3 * g + r] = ByteFor(r, u[4 * g + r], u[4 * g + r + 1])
  <2>1. 4 * g + r \in 1 .. Len(w) /\ 4 * g + r + 1 \in 1 .. Len(w)  BY <1>1, <1>3
  <2>2. u[4 * g + r] = w[4 * g + r] /\ u[4 * g + r + 1] = w[4 * g + r + 1]
    <3> HIDE DEF u
    <3> QED  BY <1>2, <2>1
  <2>3. bytes[3 * g + r] = ByteFor(r, w[4 * g + r], w[4 * g + r + 1])  BY <1>3 DEF Made
  <2> HIDE DEF u
  <2> QED  BY <2>2, <2>3
<1>4. Made(bytes, u)
  <2> HIDE DEF u
  <2> QED  BY <1>3 DEF Made
<1>5. ASSUME s # 0  PROVE Made(more, u)
  <2>1. s \in 1 .. 3 /\ w[Len(w)] \in Alphabet  BY <1>1, <1>5
  <2>2. b \in Nat
    <3>1. Carry(s - 1, w[Len(w)]) \in Nat
      <4>1. s - 1 \in 0 .. 3 /\ w[Len(w)] \in Alphabet  BY <2>1
      <4> QED  BY ONLY <4>1, CarryType
    <3>2. Fill(s, v) \in Nat  BY <2>1, CarryType
    <3> QED  BY <3>1, <3>2 DEF ByteFor
  <2> HIDE DEF b
  <2>3. /\ Len(more) = Len(bytes) + 1 /\ more[Len(bytes) + 1] = b
        /\ \A i \in 1 .. Len(bytes) : more[i] = bytes[i]
    BY <2>2, AppendProperties
  <2> HIDE DEF u, more
  <2>4. ASSUME NEW g \in Nat, NEW r \in 1 .. 3, 3 * g + r <= Len(more)
        PROVE  more[3 * g + r] = ByteFor(r, u[4 * g + r], u[4 * g + r + 1])
    <3>1. CASE 3 * g + r <= Len(bytes)
      <4>1. 3 * g + r \in 1 .. Len(bytes)  BY <1>1, <3>1
      <4> QED  BY <1>3, <2>3, <3>1, <4>1
    <3>2. CASE 3 * g + r = Len(bytes) + 1
      <4>1. g = q /\ r = s  BY <1>1, <2>1, <3>2
      <4>2. 4 * g + r = Len(w) /\ Len(w) \in 1 .. Len(w)  BY <1>1, <2>1, <4>1
      <4>3. u[4 * g + r] = w[Len(w)] /\ u[4 * g + r + 1] = v  BY <1>2, <4>2
      <4> QED  BY <2>3, <3>2, <4>1, <4>3 DEF b
    <3>3. 3 * g + r <= Len(bytes) \/ 3 * g + r = Len(bytes) + 1  BY <1>1, <2>3, <2>4
    <3> QED  BY <3>1, <3>2, <3>3
  <2> QED  BY <2>4 DEF Made
<1> QED  BY <1>4, <1>5 DEF u, more, b

\* The place that Digit asks for.
Fits(d, size) == Len(d.bytes) + (IF d.state \in {1, 2} THEN 1 ELSE 0) < size

\* How Digit goes on.
LEMMA DigitIs ==
    ASSUME NEW d \in Open, NEW v \in Alphabet, NEW size \in Nat, Fits(d, size)
    PROVE  /\ Digit(d, v, size) \in Open
           /\ Digit(d, v, size).at = d.at
           /\ Digit(d, v, size).state = IF d.state = 3 THEN 0 ELSE d.state + 1
           /\ d.state = 0 => Digit(d, v, size).bytes = d.bytes
           /\ d.state # 0 => Digit(d, v, size).bytes = Append(d.bytes, d.begun + Fill(d.state, v))
           /\ Digit(d, v, size).begun = Carry(d.state, v)
<1> DEFINE s == d.state
           x == IF s = 3 THEN 0 ELSE s + 1
           y == Carry(s, v)
           z == Append(d.bytes, d.begun + Fill(s, v))
           e == Digit(d, v, size)
<1>1. s \in 0 .. 3 /\ d.bytes \in Seq(Nat) /\ Len(d.bytes) \in Nat /\ d.begun \in Nat  BY DEF Open
<1>2. ~(Len(d.bytes) + (IF s \in {1, 2} THEN 1 ELSE 0) >= size)
  <2> DEFINE n == Len(d.bytes)
             k == IF s \in {1, 2} THEN 1 ELSE 0
  <2>1. n \in Nat /\ k \in Nat /\ n + k < size  BY <1>1 DEF Fits
  <2> HIDE DEF n, k
  <2>2. ~(n + k >= size)  BY <2>1
  <2> QED  BY <2>2 DEF n, k
<1>3. x \in 0 .. 3 /\ y \in Nat  BY <1>1, CarryType
<1>4. ASSUME s # 0  PROVE z \in Seq(Nat)
  <2>1. s \in 1 .. 3  BY <1>1, <1>4
  <2>2. Fill(s, v) \in Nat  BY <2>1, CarryType
  <2>3. d.begun + Fill(s, v) \in Nat  BY <1>1, <2>2
  <2> QED  BY <1>1, <2>3
<1>5. s = 0 => e = [d EXCEPT !.state = x, !.begun = y]
  <2> SUFFICES ASSUME s = 0  PROVE e = [d EXCEPT !.state = x, !.begun = y]  OBVIOUS
  <2>1. e = [d EXCEPT !.state = 1, !.begun = v * P(1)]  BY <1>2 DEF Digit
  <2>2. Carry(0, v) = v * P(1)  BY DEF Carry
  <2>3. x = 1 /\ y = v * P(1)  BY <2>2
  <2> HIDE DEF e, x, y, s
  <2> QED  BY <2>1, <2>3
<1>6. s = 1 => e = [d EXCEPT !.state = x, !.begun = y, !.bytes = z]
  <2> SUFFICES ASSUME s = 1  PROVE e = [d EXCEPT !.state = x, !.begun = y, !.bytes = z]  OBVIOUS
  <2>1. e = [d EXCEPT !.state = 2, !.begun = (v % P(2)) * P(2),
                      !.bytes = Append(d.bytes, d.begun + (v \div P(2)))]
    BY <1>2 DEF Digit
  <2>2. Carry(1, v) = (v % P(2)) * P(2) /\ Fill(1, v) = v \div P(2)  BY DEF Carry, Fill
  <2>3. x = 2 /\ y = (v % P(2)) * P(2) /\ z = Append(d.bytes, d.begun + (v \div P(2)))
    BY <2>2
  <2> HIDE DEF e, x, y, z, s
  <2> QED  BY <2>1, <2>3
<1>7. s = 2 => e = [d EXCEPT !.state = x, !.begun = y, !.bytes = z]
  <2> SUFFICES ASSUME s = 2  PROVE e = [d EXCEPT !.state = x, !.begun = y, !.bytes = z]  OBVIOUS
  <2>1. e = [d EXCEPT !.state = 3, !.begun = (v % P(1)) * P(3),
                      !.bytes = Append(d.bytes, d.begun + (v \div P(1)))]
    BY <1>2 DEF Digit
  <2>2. Carry(2, v) = (v % P(1)) * P(3) /\ Fill(2, v) = v \div P(1)  BY DEF Carry, Fill
  <2>3. x = 3 /\ y = (v % P(1)) * P(3) /\ z = Append(d.bytes, d.begun + (v \div P(1)))
    BY <2>2
  <2> HIDE DEF e, x, y, z, s
  <2> QED  BY <2>1, <2>3
<1>8. s = 3 => e = [d EXCEPT !.state = x, !.begun = y, !.bytes = z]
  <2> SUFFICES ASSUME s = 3  PROVE e = [d EXCEPT !.state = x, !.begun = y, !.bytes = z]  OBVIOUS
  <2>1. e = [d EXCEPT !.state = 0, !.begun = 0, !.bytes = Append(d.bytes, d.begun + v)]
    BY <1>2 DEF Digit
  <2>2. Carry(3, v) = 0 /\ Fill(3, v) = v  BY DEF Carry, Fill
  <2>3. x = 0 /\ y = 0 /\ z = Append(d.bytes, d.begun + v)
    BY <2>2
  <2> HIDE DEF e, x, y, z, s
  <2> QED  BY <2>1, <2>3
<1>9. /\ s = 0 => e = [d EXCEPT !.state = x, !.begun = y]
      /\ s # 0 => e = [d EXCEPT !.state = x, !.begun = y, !.bytes = z]
  <2> HIDE DEF e, x, y, z
  <2>1. s = 0 \/ s = 1 \/ s = 2 \/ s = 3  BY <1>1
  <2> QED  BY <1>5, <1>6, <1>7, <1>8, <2>1
<1> HIDE DEF e, x, y, z, s
<1>10. /\ s = 0 => e \in Open /\ e.at = d.at /\ e.state = x /\ e.bytes = d.bytes /\ e.begun = y
       /\ s # 0 => e \in Open /\ e.at = d.at /\ e.state = x /\ e.bytes = z /\ e.begun = y
  <2>1. CASE s = 0
    <3> DEFINE f == [d EXCEPT !.state = x, !.begun = y]
    <3>1. f \in Open /\ f.at = d.at /\ f.state = x /\ f.bytes = d.bytes /\ f.begun = y
      BY ONLY <1>3, d \in Open DEF Open
    <3>2. e = f  BY <1>9, <2>1
    <3> HIDE DEF f
    <3> QED  BY <2>1, <3>1, <3>2
  <2>2. CASE s # 0
    <3> DEFINE f == [d EXCEPT !.state = x, !.begun = y, !.bytes = z]
    <3>1. f \in Open /\ f.at = d.at /\ f.state = x /\ f.bytes = z /\ f.begun = y
      BY ONLY d \in Open, <1>3, <1>4, <2>2 DEF Open
    <3>2. e = f  BY <1>9, <2>2
    <3> HIDE DEF f
    <3> QED  BY <2>2, <3>1, <3>2
  <2> QED  BY <2>1, <2>2
<1> QED  BY <1>10 DEF e, x, y, z, s

\* Another character of the alphabet.
LEMMA WordDigit ==
    ASSUME NEW d, NEW w, NEW q, Word(d, w, q), NEW v \in Alphabet, NEW size \in Nat, Fits(d, size)
    PROVE  /\ Word(Digit(d, v, size), Append(w, v), IF d.state = 3 THEN q + 1 ELSE q)
           /\ Digit(d, v, size).at = d.at
<1>1. /\ d \in Open
      /\ w \in Seq(Alphabet) /\ q \in Nat /\ Len(w) = 4 * q + d.state
      /\ Len(d.bytes) = 3 * q + (IF d.state = 0 THEN 0 ELSE d.state - 1)
      /\ d.begun = IF d.state = 0 THEN 0 ELSE Carry(d.state - 1, w[Len(w)])
      /\ Made(d.bytes, w)
  BY DEF Word
<1> DEFINE s == d.state
           u == Append(w, v)
           e == Digit(d, v, size)
           b == ByteFor(s, w[Len(w)], v)
<1>2. /\ s \in 0 .. 3 /\ d.bytes \in Seq(Nat) /\ Len(w) \in Nat /\ Len(d.bytes) \in Nat
      /\ d.at \in {"chars", "pad", "spaces"}
  BY <1>1 DEF Open
<1>3. /\ e \in Open /\ e.at = d.at /\ e.state = (IF s = 3 THEN 0 ELSE s + 1)
      /\ s = 0 => e.bytes = d.bytes
      /\ s # 0 => e.bytes = Append(d.bytes, d.begun + Fill(s, v))
      /\ e.begun = Carry(s, v)
  BY <1>1, DigitIs
<1> HIDE DEF e
<1>4. s # 0 => d.begun + Fill(s, v) = b  BY <1>1 DEF ByteFor
<1>5. s # 0 => b \in Nat
  <2> SUFFICES ASSUME s # 0  PROVE b \in Nat  OBVIOUS
  <2>1. s \in 1 .. 3 /\ w[Len(w)] \in Alphabet  BY <1>1, <1>2
  <2>2. Fill(s, v) \in Nat  BY <2>1, CarryType
  <2>3. d.begun \in Nat  BY <1>1 DEF Open
  <2>4. d.begun + Fill(s, v) = b  BY <1>4
  <2> HIDE DEF b, s
  <2> QED  BY <2>2, <2>3, <2>4
<1>6. Made(d.bytes, u) /\ (s # 0 => Made(Append(d.bytes, b), u))
  BY <1>1, <1>2, MadeMore
<1>7. u \in Seq(Alphabet) /\ Len(u) = Len(w) + 1 /\ u[Len(u)] = v  BY <1>1
<1>8. Carry(s, v) \in Nat  BY <1>2, CarryType
<1>9. Made(e.bytes, u)
  <2> HIDE DEF u, b, s
  <2> QED  BY <1>3, <1>4, <1>6
<1>10. e.bytes \in Seq(Nat) /\ Len(e.bytes) = Len(d.bytes) + (IF s = 0 THEN 0 ELSE 1)
  <2>1. s # 0 => Append(d.bytes, b) \in Seq(Nat) /\ Len(Append(d.bytes, b)) = Len(d.bytes) + 1
    <3> HIDE DEF b
    <3> QED  BY <1>2, <1>5
  <2>2. e.bytes = IF s = 0 THEN d.bytes ELSE Append(d.bytes, b)
    <3> HIDE DEF b, s
    <3> QED  BY <1>3, <1>4
  <2> HIDE DEF b
  <2>3. CASE s = 0  BY <1>2, <2>2, <2>3
  <2>4. CASE s # 0
    <3>1. e.bytes = Append(d.bytes, b)  BY <2>2, <2>4
    <3>2. e.bytes \in Seq(Nat) /\ Len(e.bytes) = Len(d.bytes) + 1  BY <2>1, <2>4, <3>1
    <3> QED  BY <2>4, <3>2
  <2> QED  BY <2>3, <2>4
<1> HIDE DEF u, b
<1>11. e.state = (IF s = 3 THEN 0 ELSE s + 1) /\ e.begun = Carry(s, v)  BY <1>3
<1> HIDE DEF s
<1> DEFINE p == IF s = 3 THEN q + 1 ELSE q
<1>14. p \in Nat /\ Len(u) = 4 * p + e.state
  <2>1. Len(u) = 4 * q + s + 1  BY <1>1, <1>2, <1>7 DEF s
  <2>2. CASE s = 3  BY <1>1, <1>11, <2>1, <2>2
  <2>3. CASE s # 3  BY <1>1, <1>2, <1>11, <2>1, <2>3
  <2> QED  BY <2>2, <2>3
<1>15. Len(e.bytes) = 3 * p + (IF e.state = 0 THEN 0 ELSE e.state - 1)
  <2>1. Len(e.bytes) = 3 * q + s
    <3>1. Len(e.bytes) = Len(d.bytes) + (IF s = 0 THEN 0 ELSE 1)  BY <1>10
    <3>2. Len(d.bytes) = 3 * q + (IF s = 0 THEN 0 ELSE s - 1)  BY <1>1 DEF s
    <3>3. Len(d.bytes) \in Nat  BY <1>2
    <3>4. CASE s = 0  BY <1>1, <3>1, <3>2, <3>4
    <3>5. CASE s # 0  BY <1>1, <1>2, <3>1, <3>2, <3>5
    <3> QED  BY <3>4, <3>5
  <2>2. CASE s = 3  BY <1>1, <1>11, <2>1, <2>2
  <2>3. CASE s # 3  BY <1>1, <1>2, <1>11, <2>1, <2>3
  <2> QED  BY <2>2, <2>3
<1>16. e.begun = IF e.state = 0 THEN 0 ELSE Carry(e.state - 1, u[Len(u)])
  <2>1. CASE s = 3
    <3>1. Carry(3, v) = 0  BY DEF Carry
    <3> QED  BY <1>11, <2>1, <3>1
  <2>2. CASE s # 3
    <3>1. e.state = s + 1 /\ e.state # 0 /\ e.state - 1 = s  BY <1>2, <1>11, <2>2
    <3> QED  BY <1>7, <1>11, <3>1
  <2> QED  BY <2>1, <2>2
<1> QED  BY <1>3, <1>7, <1>9, <1>14, <1>15, <1>16 DEF Word, e, u, s

\* The bits behind the last are zero.
LEMMA ZeroBits ==
    /\ 0 \in Alphabet
    /\ \A s \in 1 .. 3 : Fill(s, 0) = 0
    /\ ByteFor(3, 0, 0) = 0
<1>1. P(1) \in Nat \ {0} /\ P(2) \in Nat \ {0} /\ P(3) \in Nat \ {0}  BY Powers
<1>2. 0 \div P(1) = 0 /\ 0 \div P(2) = 0 /\ 0 % P(1) = 0 /\ 0 * P(3) = 0
  <2> DEFINE a == P(1)
             b == P(2)
             c == P(3)
  <2>1. a \in Nat \ {0} /\ b \in Nat \ {0} /\ c \in Nat  BY <1>1
  <2> HIDE DEF a, b, c
  <2>2. 0 \div a = 0 /\ 0 \div b = 0 /\ 0 % a = 0 /\ 0 * c = 0
    <3>1. ASSUME NEW m \in Nat \ {0}  PROVE 0 \div m = 0 /\ 0 % m = 0
      <4>1. 0 * m + 0 = 0 /\ 0 \in 0 .. m - 1  OBVIOUS
      <4>2. (0 * m + 0) \div m = 0 /\ (0 * m + 0) % m = 0  BY <4>1, DivisionIs
      <4> QED  BY <4>1, <4>2
    <3> QED  BY <2>1, <3>1
  <2> QED  BY <2>2 DEF a, b, c
<1>3. Fill(1, 0) = 0 /\ Fill(2, 0) = 0 /\ Fill(3, 0) = 0  BY <1>2 DEF Fill
<1>4. ByteFor(3, 0, 0) = 0
  <2>1. ByteFor(3, 0, 0) = (0 % P(1)) * P(3) + 0  BY BytesFor
  <2> QED  BY <1>2, <2>1
<1>5. \A s \in 1 .. 3 : s = 1 \/ s = 2 \/ s = 3  OBVIOUS
<1> QED  BY <1>1, <1>3, <1>4, <1>5 DEF Alphabet

\* Which group a character is of, and which of it.
LEMMA PlaceOf ==
    ASSUME NEW g \in Nat, NEW t \in 1 .. 4
    PROVE  (4 * g + t - 1) \div 4 = g /\ (4 * g + t - 1) % 4 = t - 1
<1>1. t - 1 \in 0 .. 4 - 1 /\ g * 4 + (t - 1) = 4 * g + t - 1  OBVIOUS
<1>2. (g * 4 + (t - 1)) \div 4 = g /\ (g * 4 + (t - 1)) % 4 = t - 1
  BY ONLY <1>1, g \in Nat, DivisionIs
<1> QED  BY <1>1, <1>2

\* The character at a place.
LEMMA CharPlace ==
    ASSUME NEW g \in Nat, NEW t \in 1 .. 4, NEW data
    PROVE  CharAt(data, 4 * g + t) =
             Four(ByteAt(data, 3 * g + 1), ByteAt(data, 3 * g + 2), ByteAt(data, 3 * g + 3))[t]
<1>1. (4 * g + t - 1) \div 4 = g /\ (4 * g + t - 1) % 4 = t - 1  BY PlaceOf
<1>2. t - 1 + 1 = t  OBVIOUS
<1> QED  BY <1>1, <1>2 DEF CharAt

\* Of bytes that are a word, with nothing begun, b64_ntop makes the word again.
LEMMA CharOfWord ==
    ASSUME NEW d, NEW w, NEW q, Word(d, w, q), d.begun = 0, d.state # 1,
           NEW g \in Nat, NEW t \in 1 .. 4, 4 * g + t <= Len(w)
    PROVE  CharAt(d.bytes, 4 * g + t) = w[4 * g + t]
<1> DEFINE s == d.state
           bytes == d.bytes
           z(i) == IF i \in 1 .. Len(w) THEN w[i] ELSE 0
           c(i) == z(4 * g + i)
<1>1. /\ s \in 0 .. 3 /\ s # 1 /\ bytes \in Seq(Nat) /\ q \in Nat /\ w \in Seq(Alphabet)
      /\ Len(w) = 4 * q + s /\ Len(bytes) = 3 * q + (IF s = 0 THEN 0 ELSE s - 1)
      /\ (s # 0 => Carry(s - 1, w[Len(w)]) = 0) /\ Made(bytes, w)
      /\ Len(w) \in Nat /\ Len(bytes) \in Nat /\ DOMAIN bytes = 1 .. Len(bytes)
  BY DEF Word, Open
<1> HIDE DEF s, bytes
<1>2. \A i \in Nat : z(i) \in Alphabet  BY <1>1, ZeroBits
<1>3. ASSUME NEW r \in 1 .. 3
      PROVE  ByteAt(bytes, 3 * g + r) = ByteFor(r, z(4 * g + r), z(4 * g + r + 1))
  <2>1. CASE 3 * g + r <= Len(bytes)
    <3>1. 3 * g + r \in DOMAIN bytes  BY <1>1, <2>1
    <3>2. 4 * g + r \in 1 .. Len(w) /\ 4 * g + r + 1 \in 1 .. Len(w)  BY <1>1, <2>1
    <3>3. z(4 * g + r) = w[4 * g + r] /\ z(4 * g + r + 1) = w[4 * g + r + 1]  BY <3>2
    <3>4. bytes[3 * g + r] = ByteFor(r, w[4 * g + r], w[4 * g + r + 1])  BY <1>1, <2>1 DEF Made
    <3> HIDE DEF z
    <3> QED  BY <3>1, <3>3, <3>4 DEF ByteAt
  <2>2. CASE 3 * g + r > Len(bytes)
    <3>1. ByteAt(bytes, 3 * g + r) = 0  BY <1>1, <2>2 DEF ByteAt
    <3>2. g = q /\ s \in {2, 3} /\ r \in s .. 3  BY <1>1, <2>2, SMTT(40)
    <3>3. CASE r = s
      <4>1. 4 * g + r = Len(w) /\ Len(w) \in 1 .. Len(w) /\ ~(Len(w) + 1 \in 1 .. Len(w))
        BY <1>1, <3>2, <3>3
      <4>2. z(4 * g + r) = w[Len(w)] /\ z(4 * g + r + 1) = 0  BY <4>1
      <4> HIDE DEF z
      <4>3. ByteFor(r, w[Len(w)], 0) = Carry(s - 1, w[Len(w)]) + Fill(s, 0)
        BY <3>3 DEF ByteFor
      <4>4. Fill(s, 0) = 0 /\ Carry(s - 1, w[Len(w)]) = 0  BY <1>1, <3>2, ZeroBits
      <4> QED  BY <3>1, <4>2, <4>3, <4>4
    <3>4. CASE r # s
      <4>1. s = 2 /\ r = 3  BY <3>2, <3>4
      <4>2. ~(4 * g + r \in 1 .. Len(w)) /\ ~(4 * g + r + 1 \in 1 .. Len(w))
        BY <1>1, <3>2, <4>1
      <4>3. z(4 * g + r) = 0 /\ z(4 * g + r + 1) = 0  BY <4>2
      <4> HIDE DEF z
      <4> QED  BY <3>1, <4>1, <4>3, ZeroBits
    <3> QED  BY <3>3, <3>4
  <2>3. 3 * g + r <= Len(bytes) \/ 3 * g + r > Len(bytes)  BY <1>1
  <2> QED  BY <2>1, <2>2, <2>3
<1>4. /\ c(1) \in Alphabet /\ c(2) \in Alphabet /\ c(3) \in Alphabet /\ c(4) \in Alphabet
  <2>1. 4 * g + 1 \in Nat /\ 4 * g + 2 \in Nat /\ 4 * g + 3 \in Nat /\ 4 * g + 4 \in Nat  OBVIOUS
  <2> HIDE DEF z
  <2> QED  BY <1>2, <2>1
<1>5. c(t) = w[4 * g + t]
  <2>1. 4 * g + t \in 1 .. Len(w)  BY <1>1
  <2> QED  BY <2>1
<1>6. /\ ByteAt(bytes, 3 * g + 1) = ByteFor(1, c(1), c(2))
      /\ ByteAt(bytes, 3 * g + 2) = ByteFor(2, c(2), c(3))
      /\ ByteAt(bytes, 3 * g + 3) = ByteFor(3, c(3), c(4))
  <2> HIDE DEF z
  <2>1. 4 * g + 1 + 1 = 4 * g + 2 /\ 4 * g + 2 + 1 = 4 * g + 3 /\ 4 * g + 3 + 1 = 4 * g + 4  OBVIOUS
  <2>2. ByteAt(bytes, 3 * g + 1) = ByteFor(1, z(4 * g + 1), z(4 * g + 1 + 1))  BY <1>3
  <2>3. ByteAt(bytes, 3 * g + 2) = ByteFor(2, z(4 * g + 2), z(4 * g + 2 + 1))  BY <1>3
  <2>4. ByteAt(bytes, 3 * g + 3) = ByteFor(3, z(4 * g + 3), z(4 * g + 3 + 1))  BY <1>3
  <2> QED  BY <2>1, <2>2, <2>3, <2>4
<1> DEFINE c1 == c(1)
           c2 == c(2)
           c3 == c(3)
           c4 == c(4)
<1>7. c1 \in Alphabet /\ c2 \in Alphabet /\ c3 \in Alphabet /\ c4 \in Alphabet  BY <1>4
<1>8. CharAt(bytes, 4 * g + t) = Four(ByteFor(1, c1, c2), ByteFor(2, c2, c3), ByteFor(3, c3, c4))[t]
  <2>1. CharAt(bytes, 4 * g + t) = Four(ByteAt(bytes, 3 * g + 1), ByteAt(bytes, 3 * g + 2),
                                       ByteAt(bytes, 3 * g + 3))[t]
    BY CharPlace
  <2> HIDE DEF c
  <2> QED  BY <1>6, <2>1
<1>9. t = 1 \/ t = 2 \/ t = 3 \/ t = 4  OBVIOUS
<1>10. (t = 1 => c1 = w[4 * g + t]) /\ (t = 2 => c2 = w[4 * g + t])
       /\ (t = 3 => c3 = w[4 * g + t]) /\ (t = 4 => c4 = w[4 * g + t])
  <2> HIDE DEF c
  <2> QED  BY <1>5
<1> HIDE DEF c1, c2, c3, c4
<1>11. Four(ByteFor(1, c1, c2), ByteFor(2, c2, c3), ByteFor(3, c3, c4)) = <<c1, c2, c3, c4>>
  BY <1>7, FourOfBytes
<1>12. CharAt(bytes, 4 * g + t) = <<c1, c2, c3, c4>>[t]  BY <1>8, <1>11
<1>13. CharAt(bytes, 4 * g + t) = w[4 * g + t]
  <2>1. CASE t = 1  BY <1>12, <1>10, <2>1
  <2>2. CASE t = 2  BY <1>12, <1>10, <2>2
  <2>3. CASE t = 3  BY <1>12, <1>10, <2>3
  <2>4. CASE t = 4  BY <1>12, <1>10, <2>4
  <2> QED  BY <1>9, <2>1, <2>2, <2>3, <2>4
<1> QED  BY <1>13 DEF bytes

\* Signs that are missing at the end of a group are pads.
Padded(w, s) == CASE s = 0 -> w
                  [] s = 2 -> Append(Append(w, Pad), Pad)
                  [] s = 3 -> Append(w, Pad)

\* How many characters bytes have.
LEMMA CharsOf ==
    ASSUME NEW q \in Nat
    PROVE  /\ Chars(3 * q) = 4 * q /\ Pads(3 * q) = 0
           /\ Chars(3 * q + 1) = 4 * q + 4 /\ Pads(3 * q + 1) = 2
           /\ Chars(3 * q + 2) = 4 * q + 4 /\ Pads(3 * q + 2) = 1
  BY DEF Chars, Pads

\* All of them.
LEMMA NtopOfWord ==
    ASSUME NEW d, NEW w, NEW q, Word(d, w, q), d.begun = 0, d.state # 1
    PROVE  Ntop(d.bytes) = Padded(w, d.state)
<1> DEFINE s == d.state
           bytes == d.bytes
           n == Len(bytes)
           x == Ntop(bytes)
           y == Padded(w, s)
<1>1. /\ s \in 0 .. 3 /\ s # 1 /\ bytes \in Seq(Nat) /\ q \in Nat /\ w \in Seq(Alphabet)
      /\ Len(w) = 4 * q + s /\ n = 3 * q + (IF s = 0 THEN 0 ELSE s - 1)
      /\ Len(w) \in Nat /\ n \in Nat
  BY DEF Word, Open
<1>2. /\ Chars(n) - Pads(n) = Len(w) /\ Chars(n) \in Nat
      /\ Chars(n) = Len(w) + (IF s = 0 THEN 0 ELSE 4 - s)
  <2> HIDE DEF n, s
  <2>1. CASE s = 0
    <3>1. n = 3 * q  BY <1>1, <2>1
    <3> QED  BY <1>1, <2>1, <3>1, CharsOf
  <2>2. CASE s = 2
    <3>1. n = 3 * q + 1  BY <1>1, <2>2
    <3> QED  BY <1>1, <2>2, <3>1, CharsOf
  <2>3. CASE s = 3
    <3>1. n = 3 * q + 2  BY <1>1, <2>3
    <3> QED  BY <1>1, <2>3, <3>1, CharsOf
  <2> QED  BY <1>1, <2>1, <2>2, <2>3
<1>3. x = [i \in 1 .. Chars(n) |-> IF i > Len(w) THEN Pad ELSE CharAt(bytes, i)]
  BY <1>2 DEF Ntop
<1>4. ASSUME NEW i \in 1 .. Len(w)  PROVE CharAt(bytes, i) = w[i]
  <2> DEFINE g == (i - 1) \div 4
             t == ((i - 1) % 4) + 1
  <2>1. g \in Nat /\ t \in 1 .. 4 /\ 4 * g + t = i
    <3>1. i - 1 \in Nat /\ 4 \in Nat \ {0}  BY <1>1
    <3>2. (i - 1) \div 4 \in Nat /\ (i - 1) % 4 \in 0 .. 4 - 1
          /\ ((i - 1) \div 4) * 4 + ((i - 1) % 4) = i - 1
      BY ONLY <3>1, Division
    <3> QED  BY <3>1, <3>2
  <2> HIDE DEF g, t
  <2>2. 4 * g + t <= Len(w)  BY <1>1, <2>1
  <2>3. CharAt(bytes, 4 * g + t) = w[4 * g + t]  BY <2>1, <2>2, CharOfWord
  <2> QED  BY <2>1, <2>3
<1>5. w \in Seq(Characters) /\ Pad \in Characters
  <2>1. Alphabet \subseteq Characters /\ Pad \in Characters  BY DEF Characters
  <2> QED  BY <1>1, <2>1
<1>6. /\ y \in Seq(Characters) /\ Len(y) = Chars(n)
      /\ \A i \in 1 .. Len(w) : y[i] = w[i]
      /\ \A i \in 1 .. Chars(n) : i > Len(w) => y[i] = Pad
  <2> HIDE DEF n, s, y
  <2> DEFINE w1 == Append(w, Pad)
             w2 == Append(w1, Pad)
  <2>1. /\ w1 \in Seq(Characters) /\ Len(w1) = Len(w) + 1 /\ w1[Len(w) + 1] = Pad
        /\ \A i \in 1 .. Len(w) : w1[i] = w[i]
    BY <1>5, AppendProperties
  <2> HIDE DEF w1
  <2>2. /\ w2 \in Seq(Characters) /\ Len(w2) = Len(w) + 2 /\ w2[Len(w) + 2] = Pad
        /\ \A i \in 1 .. Len(w) + 1 : w2[i] = w1[i]
    <3>1. /\ w2 \in Seq(Characters) /\ Len(w2) = Len(w1) + 1 /\ w2[Len(w1) + 1] = Pad
          /\ \A i \in 1 .. Len(w1) : w2[i] = w1[i]
      BY <1>5, <2>1, AppendProperties
    <3>2. Len(w1) + 1 = Len(w) + 2  BY <1>1, <2>1
    <3> QED  BY <2>1, <3>1, <3>2
  <2> HIDE DEF w2
  <2>3. CASE s = 0
    <3>1. y = w  BY <2>3 DEF Padded, y
    <3> QED  BY <1>1, <1>2, <1>5, <2>3, <3>1
  <2>4. CASE s = 2
    <3>1. y = w2  BY <2>4 DEF Padded, w1, w2, y
    <3>2. Chars(n) = Len(w) + 2  BY <1>2, <2>4
    <3>3. \A i \in 1 .. Len(w) : w2[i] = w[i]  BY <1>1, <2>1, <2>2
    <3>4. ASSUME NEW i \in 1 .. Len(w) + 2, i > Len(w)  PROVE w2[i] = Pad
      <4>1. i = Len(w) + 1 \/ i = Len(w) + 2  BY <1>1, <3>4
      <4> QED  BY <1>1, <2>1, <2>2, <4>1
    <3> QED  BY <2>2, <3>1, <3>2, <3>3, <3>4
  <2>5. CASE s = 3
    <3>1. y = w1  BY <2>5 DEF Padded, w1, y
    <3>2. Chars(n) = Len(w) + 1  BY <1>2, <2>5
    <3>4. ASSUME NEW i \in 1 .. Len(w) + 1, i > Len(w)  PROVE w1[i] = Pad
      <4>1. i = Len(w) + 1  BY <1>1, <3>4
      <4> QED  BY <2>1, <4>1
    <3> QED  BY <2>1, <3>1, <3>2, <3>4
  <2> QED  BY <1>1, <2>3, <2>4, <2>5
<1>7. x \in Seq(Characters) /\ Len(x) = Chars(n) /\ \A i \in 1 .. Chars(n) : x[i] = y[i]
  <2> HIDE DEF n, y, bytes
  <2>1. ASSUME NEW i \in 1 .. Chars(n)
        PROVE  (IF i > Len(w) THEN Pad ELSE CharAt(bytes, i)) = y[i]
    <3>1. CASE i > Len(w)  BY <1>6, <3>1
    <3>2. CASE ~(i > Len(w))
      <4>1. i \in 1 .. Len(w)  BY <1>1, <1>2, <3>2
      <4> QED  BY <1>4, <1>6, <3>2, <4>1
    <3> QED  BY <3>1, <3>2
  <2>2. \A i \in 1 .. Chars(n) : y[i] \in Characters  BY <1>6
  <2>3. x = [i \in 1 .. Chars(n) |-> y[i]]  BY <1>3, <2>1
  <2> HIDE DEF x
  <2>4. x \in [1 .. Chars(n) -> Characters]  BY <2>2, <2>3
  <2>5. x \in Seq(Characters)  BY <1>2, <2>4, FunctionsAreSequences
  <2>6. Len(x) = Chars(n)  BY <1>2, <2>4, <2>5
  <2> QED  BY <2>3, <2>5, <2>6
<1> HIDE DEF x, y, n
<1>8. x = y  BY <1>6, <1>7, SeqEqual
<1> QED  BY <1>8 DEF x, y

\* f is what b64_pton has of the first n characters of all.
ReadsSo(f, all, size, n) ==
    f = [k \in 0 .. n |-> IF k = 0 THEN Fresh64 ELSE Step64(f[k - 1], all[k], size)]

\* There is such a function, although it is defined by itself.
LEMMA ReadsExist == ASSUME NEW all, NEW size, NEW n \in Nat  PROVE \E f : ReadsSo(f, all, size, n)
<1> DEFINE S == {k \in Nat : \E f : ReadsSo(f, all, size, k)}
<1>1. 0 \in S
  <2> DEFINE f == [k \in 0 .. 0 |-> Fresh64]
  <2>1. ReadsSo(f, all, size, 0)  BY DEF ReadsSo
  <2> QED  BY <2>1
<1>2. ASSUME NEW m \in Nat, m \in S  PROVE m + 1 \in S
  <2>1. PICK f : ReadsSo(f, all, size, m)  BY <1>2
  <2> DEFINE g == [k \in 0 .. m + 1 |-> IF k <= m THEN f[k] ELSE Step64(f[m], all[m + 1], size)]
  <2>2. ASSUME NEW k \in 0 .. m + 1
        PROVE  g[k] = IF k = 0 THEN Fresh64 ELSE Step64(g[k - 1], all[k], size)
    <3>1. CASE k <= m
      <4>1. k \in 0 .. m  BY <3>1
      <4>2. f[k] = IF k = 0 THEN Fresh64 ELSE Step64(f[k - 1], all[k], size)
        BY <4>1, <2>1 DEF ReadsSo
      <4>3. k # 0 => g[k - 1] = f[k - 1]  BY <3>1
      <4> QED  BY <3>1, <4>2, <4>3
    <3>2. CASE k = m + 1
      <4>1. m \in 0 .. m + 1 /\ g[m] = f[m] /\ k - 1 = m /\ k # 0 /\ ~(k <= m)  BY <3>2
      <4> QED  BY <3>2, <4>1
    <3> QED  BY <3>1, <3>2
  <2>3. ReadsSo(g, all, size, m + 1)  BY <2>2 DEF ReadsSo
  <2> QED  BY <2>3
<1> HIDE DEF S
<1>3. Nat \subseteq S  BY <1>1, <1>2, InductiveSet
<1> QED  BY <1>3 DEF S

\* Reading a text, character by character.
LEMMA ReadingSteps ==
    ASSUME NEW text \in Seq(Characters)
    PROVE  /\ Reading(text)[0] = Fresh64
           /\ \A k \in 1 .. Len(text) :
                Reading(text)[k] = Step64(Reading(text)[k - 1], text[k], DecodeRoom(Len(text)))
           /\ Reading(text)[Len(text) + 1]
                = Step64(Reading(text)[Len(text)], Nul, DecodeRoom(Len(text)))
<1> DEFINE all == Append(text, Nul)
           L == Len(text)
           size == DecodeRoom(L)
           f == CHOOSE f : ReadsSo(f, all, size, Len(all))
<1>1. L \in Nat /\ Len(all) = L + 1 /\ all[L + 1] = Nul /\ \A k \in 1 .. L : all[k] = text[k]
  <2>1. Nul \in Characters  BY DEF Characters
  <2> QED  BY <2>1, AppendProperties
<1>2. Reading(text) = f  BY DEF Reading, ReadsSo
<1> HIDE DEF all, size
<1>3. ReadsSo(f, all, size, Len(all))
  <2>1. Len(all) \in Nat  BY <1>1
  <2> QED  BY <2>1, ReadsExist
<1> HIDE DEF f
<1>4. ASSUME NEW k \in 0 .. L + 1
      PROVE  f[k] = IF k = 0 THEN Fresh64 ELSE Step64(f[k - 1], all[k], size)
  BY <1>1, <1>3 DEF ReadsSo
<1>5. f[0] = Fresh64  BY <1>1, <1>4
<1>6. \A k \in 1 .. L : f[k] = Step64(f[k - 1], text[k], size)
  <2> SUFFICES ASSUME NEW k \in 1 .. L  PROVE f[k] = Step64(f[k - 1], text[k], size)  OBVIOUS
  <2>1. k \in 0 .. L + 1 /\ k # 0 /\ all[k] = text[k]  BY <1>1
  <2> QED  BY <1>4, <2>1
<1>7. f[L + 1] = Step64(f[L], Nul, size)
  <2>1. L + 1 \in 0 .. L + 1 /\ L + 1 # 0 /\ L + 1 - 1 = L  BY <1>1
  <2>2. f[L + 1] = Step64(f[L + 1 - 1], all[L + 1], size)  BY <1>4, <2>1
  <2> QED  BY <1>1, <2>1, <2>2
<1> QED  BY <1>2, <1>5, <1>6, <1>7 DEF size

\* The buffer has room for all that can be read: another character of the text fits
\* as long as not all of its L are read.
LEMMA RoomFor ==
    ASSUME NEW d, NEW w, NEW q, Word(d, w, q), NEW L \in Nat, Len(w) < L
    PROVE  DecodeRoom(L) \in Nat /\ Fits(d, DecodeRoom(L))
<1> DEFINE s == d.state
           k == IF s \in {1, 2} THEN 1 ELSE 0
           n == Len(d.bytes)
           size == DecodeRoom(L)
<1>1. /\ s \in 0 .. 3 /\ q \in Nat /\ Len(w) = 4 * q + s
      /\ n = 3 * q + (IF s = 0 THEN 0 ELSE s - 1)
  BY DEF Word, Open
<1>2. size \in Nat /\ 4 * size + 3 >= 3 * L + 3  BY DEF DecodeRoom
<1>3. 4 * q + s + 1 <= L  BY <1>1
<1> HIDE DEF s, n, size
<1>4. n + k < size
  <2>1. CASE s = 0  BY <1>1, <1>2, <1>3, <2>1
  <2>2. CASE s = 1  BY <1>1, <1>2, <1>3, <2>2
  <2>3. CASE s = 2  BY <1>1, <1>2, <1>3, <2>3
  <2>4. CASE s = 3  BY <1>1, <1>2, <1>3, <2>4
  <2> QED  BY <1>1, <2>1, <2>2, <2>3, <2>4
<1> QED  BY <1>2, <1>4 DEF Fits, s, n, size

-----------------------------------------------------------------------------
\* b64_pton has read u, spaces aside, and found no end: a word, and the pads it sees behind it.
Live(d, u) ==
    \E w, q : /\ Word(d, w, q)
              /\ \/ d.at = "chars" /\ u = w
                 \/ d.at = "pad" /\ d.state = 2 /\ u = Append(w, Pad)
                 \/ d.at = "spaces" /\ d.state = 2 /\ u = Append(Append(w, Pad), Pad)
                 \/ d.at = "spaces" /\ d.state = 3 /\ u = Append(w, Pad)

\* It goes on to look for pads or spaces.
LEMMA WordAt ==
    ASSUME NEW d, NEW w, NEW q, Word(d, w, q), NEW a \in {"chars", "pad", "spaces"}
    PROVE  Word(Bad(d, a), w, q) /\ Bad(d, a).at = a /\ Bad(d, a).state = d.state
<1>1. d \in Open  BY DEF Word
<1>2. /\ Bad(d, a) \in Open /\ Bad(d, a).at = a /\ Bad(d, a).state = d.state
      /\ Bad(d, a).bytes = d.bytes /\ Bad(d, a).begun = d.begun
  BY <1>1 DEF Bad, Open
<1> QED  BY <1>2 DEF Word

\* It gives up.
LEMMA WrongAt ==
    ASSUME NEW d \in Open, NEW a \in {"end", "wrong"}
    PROVE  Bad(d, a).at = a /\ Bad(d, a).bytes = d.bytes
  BY DEF Bad, Open

\* Each sign that is neither a space nor the end.
LEMMA LiveStep ==
    ASSUME NEW d, NEW u \in Seq(Characters), Live(d, u), NEW L \in Nat, Len(u) < L,
           NEW ch \in Characters \ {Space, Nul}
    PROVE  \/ Step64(d, ch, DecodeRoom(L)).at = "wrong"
           \/ Live(Step64(d, ch, DecodeRoom(L)), Append(u, ch))
<1>1. PICK w, q :
        /\ Word(d, w, q)
        /\ \/ d.at = "chars" /\ u = w
           \/ d.at = "pad" /\ d.state = 2 /\ u = Append(w, Pad)
           \/ d.at = "spaces" /\ d.state = 2 /\ u = Append(Append(w, Pad), Pad)
           \/ d.at = "spaces" /\ d.state = 3 /\ u = Append(w, Pad)
  BY DEF Live
<1>2. d \in Open /\ w \in Seq(Alphabet) /\ d.at \in {"chars", "pad", "spaces"}
  BY <1>1 DEF Word, Open
<1> DEFINE size == DecodeRoom(L)
           e == Step64(d, ch, size)
<1> HIDE DEF size
<1>3. e = IF d.at = "chars" /\ ch = Pad
          THEN Bad(d, CASE d.state = 2 -> "pad" [] d.state = 3 -> "spaces" [] OTHER -> "wrong")
          ELSE IF d.at = "chars" /\ ch \in Alphabet THEN Digit(d, ch, size)
          ELSE Bad(d, IF d.at = "pad" /\ ch = Pad THEN "spaces" ELSE "wrong")
  <2>1. ~(d.at \in {"end", "wrong", "short"} \/ ch = Space) /\ ch # Nul  BY <1>2
  <2> QED  BY <2>1 DEF Step64
<1> HIDE DEF e
<1>4. CASE d.at = "chars" /\ ch = Pad
  <2>1. u = w  BY <1>1, <1>4
  <2>2. CASE d.state = 2
    <3>1. e = Bad(d, "pad")  BY <1>3, <1>4, <2>2
    <3>2. Word(e, w, q) /\ e.at = "pad" /\ e.state = 2  BY <1>1, <2>2, <3>1, WordAt
    <3> QED  BY <1>4, <2>1, <3>2 DEF Live, e, size
  <2>3. CASE d.state = 3
    <3>1. e = Bad(d, "spaces")  BY <1>3, <1>4, <2>3
    <3>2. Word(e, w, q) /\ e.at = "spaces" /\ e.state = 3  BY <1>1, <2>3, <3>1, WordAt
    <3> QED  BY <1>4, <2>1, <3>2 DEF Live, e, size
  <2>4. CASE d.state # 2 /\ d.state # 3
    <3>1. e = Bad(d, "wrong")  BY <1>3, <1>4, <2>4
    <3> QED  BY <1>2, <3>1, WrongAt DEF e, size
  <2> QED  BY <2>2, <2>3, <2>4
<1>5. CASE d.at = "chars" /\ ch # Pad /\ ch \in Alphabet
  <2>1. u = w /\ e = Digit(d, ch, size)  BY <1>1, <1>3, <1>5
  <2>2. size \in Nat /\ Fits(d, size)  BY <1>1, <2>1, RoomFor DEF size
  <2>3. /\ Word(Digit(d, ch, size), Append(w, ch), IF d.state = 3 THEN q + 1 ELSE q)
        /\ Digit(d, ch, size).at = d.at
    BY ONLY <1>1, <1>5, <2>2, WordDigit
  <2>4. Live(e, Append(u, ch))  BY <1>5, <2>1, <2>3 DEF Live
  <2> QED  BY <2>4 DEF e, size
<1>6. CASE d.at = "pad" /\ ch = Pad
  <2>1. d.state = 2 /\ u = Append(w, Pad) /\ e = Bad(d, "spaces")  BY <1>1, <1>3, <1>6
  <2>2. Word(e, w, q) /\ e.at = "spaces" /\ e.state = 2  BY <1>1, <2>1, WordAt
  <2> QED  BY <1>6, <2>1, <2>2 DEF Live, e, size
<1>7. CASE ~(d.at = "chars" /\ ch = Pad) /\ ~(d.at = "chars" /\ ch \in Alphabet)
           /\ ~(d.at = "pad" /\ ch = Pad)
  <2>1. e = Bad(d, "wrong")  BY <1>3, <1>7
  <2> QED  BY <1>2, <2>1, WrongAt DEF e, size
<1> QED  BY <1>4, <1>5, <1>6, <1>7

\* The end of the text.
LEMMA LiveEnd ==
    ASSUME NEW d, NEW u, Live(d, u), NEW size
    PROVE  \/ Step64(d, Nul, size).at = "wrong"
           \/ Step64(d, Nul, size).at = "end" /\ u = Ntop(Step64(d, Nul, size).bytes)
<1>1. PICK w, q :
        /\ Word(d, w, q)
        /\ \/ d.at = "chars" /\ u = w
           \/ d.at = "pad" /\ d.state = 2 /\ u = Append(w, Pad)
           \/ d.at = "spaces" /\ d.state = 2 /\ u = Append(Append(w, Pad), Pad)
           \/ d.at = "spaces" /\ d.state = 3 /\ u = Append(w, Pad)
  BY DEF Live
<1>2. d \in Open /\ d.at \in {"chars", "pad", "spaces"}
  BY <1>1 DEF Word, Open
<1> DEFINE e == Step64(d, Nul, size)
<1>3. e = Finished(d)
  <2>1. ~(d.at \in {"end", "wrong", "short"} \/ Nul = Space)  BY <1>2, Base64Assumption
  <2> QED  BY <2>1 DEF Step64
<1> HIDE DEF e
<1>4. CASE d.at = "chars" /\ d.state = 0
  <2>1. e = Bad(d, "end")  BY <1>3, <1>4 DEF Finished
  <2>2. e.at = "end" /\ e.bytes = d.bytes  BY <1>2, <2>1, WrongAt
  <2>3. d.begun = 0  BY <1>1, <1>4 DEF Word
  <2>4. Ntop(d.bytes) = Padded(w, d.state)  BY <1>1, <1>4, <2>3, NtopOfWord
  <2>5. Padded(w, 0) = w  BY DEF Padded
  <2> QED  BY <1>1, <1>4, <2>2, <2>4, <2>5 DEF e
<1>5. CASE d.at = "spaces" /\ ~Slop(d)
  <2>1. e = Bad(d, "end")  BY <1>3, <1>5 DEF Finished
  <2>2. e.at = "end" /\ e.bytes = d.bytes  BY <1>2, <2>1, WrongAt
  <2>3. d.begun = 0 /\ d.state \in {2, 3}  BY <1>1, <1>5 DEF Slop
  <2>4. Ntop(d.bytes) = Padded(w, d.state)  BY <1>1, <2>3, NtopOfWord
  <2>5. Padded(w, 2) = Append(Append(w, Pad), Pad) /\ Padded(w, 3) = Append(w, Pad)  BY DEF Padded
  <2> QED  BY <1>1, <1>5, <2>2, <2>3, <2>4, <2>5 DEF e
<1>6. CASE ~(d.at = "chars" /\ d.state = 0) /\ ~(d.at = "spaces" /\ ~Slop(d))
  <2>1. e = Bad(d, "wrong")  BY <1>3, <1>6 DEF Finished
  <2> QED  BY <1>2, <2>1, WrongAt DEF e
<1> QED  BY <1>4, <1>5, <1>6

\* Leaving out the spaces is keeping the others.
LEMMA SpacesOut ==
    ASSUME NEW s \in Seq(Characters)
    PROVE  WithoutSpaces(s) = Kept(s, Characters \ {Space})
<1> DEFINE S == Characters \ {Space}
<1>1. \A i \in DOMAIN s : s[i] \in Characters  OBVIOUS
<1>2. ASSUME NEW i \in DOMAIN s
      PROVE  (IF s[i] = Space THEN <<>> ELSE <<s[i]>>) = (IF s[i] \in S THEN <<s[i]>> ELSE <<>>)
  BY <1>1
<1>3. [i \in DOMAIN s |-> IF s[i] = Space THEN <<>> ELSE <<s[i]>>]
        = [i \in DOMAIN s |-> IF s[i] \in S THEN <<s[i]>> ELSE <<>>]
  BY <1>2
<1> QED  BY <1>3 DEF WithoutSpaces, Kept

\* One character more.
LEMMA SpacesAppend ==
    ASSUME NEW s \in Seq(Characters), NEW e \in Characters
    PROVE  /\ WithoutSpaces(s) \in Seq(Characters)
           /\ e = Space => WithoutSpaces(Append(s, e)) = WithoutSpaces(s)
           /\ e # Space => WithoutSpaces(Append(s, e)) = Append(WithoutSpaces(s), e)
<1> DEFINE S == Characters \ {Space}
           k == Kept(s, S)
<1>1. Append(s, e) \in Seq(Characters)  OBVIOUS
<1>2. WithoutSpaces(s) = k /\ WithoutSpaces(Append(s, e)) = Kept(Append(s, e), S)
  BY <1>1, SpacesOut
<1>3. k \in Seq(Characters)  BY KeptType
<1>4. Kept(Append(s, e), S) = k \o KeptOne(e, S)  BY KeptAppend
<1> HIDE DEF k
<1>5. e = Space => k \o KeptOne(e, S) = k
  <2>1. e = Space => KeptOne(e, S) = <<>>  BY DEF KeptOne
  <2>2. k \o <<>> = k  BY <1>3
  <2> QED  BY <2>1, <2>2
<1>6. e # Space => k \o KeptOne(e, S) = Append(k, e)
  <2>1. e # Space => KeptOne(e, S) = <<e>>  BY DEF KeptOne
  <2>2. Append(k, e) = k \o <<e>>  BY <1>3, AppendIsConcat
  <2> QED  BY <2>1, <2>2
<1> QED  BY <1>2, <1>3, <1>4, <1>5, <1>6

\* The first k characters of a text, and those of them that are no spaces.
First(text, k) == SubSeq(text, 1, k)
Seen(text, k) == WithoutSpaces(First(text, k))

\* The next one.
LEMMA NextSeen ==
    ASSUME NEW text \in Seq(Characters), NEW k \in 0 .. Len(text) - 1
    PROVE  /\ First(text, k) \in Seq(Characters) /\ text[k + 1] \in Characters
           /\ Seen(text, k) \in Seq(Characters)
           /\ First(text, k + 1) = Append(First(text, k), text[k + 1])
           /\ text[k + 1] = Space => Seen(text, k + 1) = Seen(text, k)
           /\ text[k + 1] # Space => Seen(text, k + 1) = Append(Seen(text, k), text[k + 1])
<1> DEFINE p == First(text, k)
           r == First(text, k + 1)
           c == text[k + 1]
<1>1. /\ Len(text) \in Nat /\ k \in Nat /\ k + 1 \in Nat /\ k \in 0 .. Len(text)
      /\ k + 1 \in 0 .. Len(text) /\ c \in Characters /\ 0 \in Nat /\ 0 + 1 = 1
  OBVIOUS
<1>2. p \in Seq(Characters) /\ Len(p) = k /\ \A i \in 1 .. k : p[i] = text[i]
  <2>1. /\ SubSeq(text, 0 + 1, k) \in Seq(Characters) /\ Len(SubSeq(text, 0 + 1, k)) = k - 0
        /\ \A i \in 1 .. k - 0 : SubSeq(text, 0 + 1, k)[i] = text[0 + i]
    BY ONLY <1>1, text \in Seq(Characters), PartOf
  <2>2. k - 0 = k /\ \A i \in 1 .. k : 0 + i = i  BY <1>1
  <2> QED  BY <1>1, <2>1, <2>2 DEF First
<1>3. r \in Seq(Characters) /\ Len(r) = k + 1 /\ \A i \in 1 .. k + 1 : r[i] = text[i]
  <2>1. /\ SubSeq(text, 0 + 1, k + 1) \in Seq(Characters)
        /\ Len(SubSeq(text, 0 + 1, k + 1)) = k + 1 - 0
        /\ \A i \in 1 .. k + 1 - 0 : SubSeq(text, 0 + 1, k + 1)[i] = text[0 + i]
    BY ONLY <1>1, text \in Seq(Characters), PartOf
  <2>2. k + 1 - 0 = k + 1 /\ \A i \in 1 .. k + 1 : 0 + i = i  BY <1>1
  <2> QED  BY <1>1, <2>1, <2>2 DEF First
<1> HIDE DEF p, r
<1>4. /\ Append(p, c) \in Seq(Characters) /\ Len(Append(p, c)) = k + 1
      /\ \A i \in 1 .. k : Append(p, c)[i] = p[i]
      /\ Append(p, c)[k + 1] = c
  <2> HIDE DEF c
  <2> QED  BY <1>1, <1>2, AppendProperties
<1>5. \A i \in 1 .. k + 1 : r[i] = Append(p, c)[i]
  <2> SUFFICES ASSUME NEW i \in 1 .. k + 1  PROVE r[i] = Append(p, c)[i]  OBVIOUS
  <2>1. i \in 1 .. k \/ i = k + 1  BY <1>1
  <2>2. r[i] = text[i]  BY <1>3
  <2>3. CASE i \in 1 .. k  BY <1>2, <1>4, <2>2, <2>3
  <2>4. CASE i = k + 1  BY <1>4, <2>2, <2>4
  <2> QED  BY <2>1, <2>3, <2>4
<1>6. r = Append(p, c)
  <2> HIDE DEF c
  <2> QED  BY <1>3, <1>4, <1>5, SeqEqual
<1> HIDE DEF c
<1>7. /\ WithoutSpaces(p) \in Seq(Characters)
      /\ c = Space => WithoutSpaces(Append(p, c)) = WithoutSpaces(p)
      /\ c # Space => WithoutSpaces(Append(p, c)) = Append(WithoutSpaces(p), c)
  BY <1>1, <1>2, SpacesAppend
<1> QED  BY <1>1, <1>2, <1>6, <1>7 DEF Seen, p, r, c

\* bytes are what is encoded in the text up to its end or the first NUL, spaces aside.
OneText(text, bytes) ==
    \E n \in 0 .. Len(text) : /\ n = Len(text) \/ text[n + 1] = Nul
                              /\ \A i \in 1 .. n : text[i] # Nul
                              /\ Seen(text, n) = Ntop(bytes)

\* Where b64_pton can be when it has read k characters.
Progress(d, text, k) ==
    \/ d.at = "wrong"
    \/ d.at = "end" /\ OneText(text, d.bytes)
    \/ /\ k \in 0 .. Len(text)
       /\ \A i \in 1 .. k : text[i] # Nul
       /\ Live(d, Seen(text, k)) /\ Seen(text, k) \in Seq(Characters) /\ Len(Seen(text, k)) <= k

\* It has not read anything.
LEMMA ProgressFirst == ASSUME NEW text \in Seq(Characters)  PROVE Progress(Fresh64, text, 0)
<1>1. First(text, 0) = <<>>
  <2>1. First(text, 0) = SubSeq(text, 1, 0)  BY DEF First
  <2> QED  BY <2>1, SubSeqEmpty
<1>2. Seen(text, 0) = <<>>
  <2>1. <<>> \in Seq(Characters)  OBVIOUS
  <2>2. WithoutSpaces(<<>>) = <<>>  BY <2>1, SpacesOut, KeptEmpty
  <2> QED  BY <1>1, <2>2 DEF Seen
<1>3. Word(Fresh64, <<>>, 0)
  <2>1. Fresh64 \in Open  BY DEF Fresh64, Open
  <2>2. Made(<<>>, <<>>)
    <3>1. \A g \in Nat, r \in 1 .. 3 : ~(3 * g + r <= 0)  OBVIOUS
    <3>2. Len(<<>>) = 0  OBVIOUS
    <3> QED  BY <3>1, <3>2 DEF Made
  <2> QED  BY <2>1, <2>2 DEF Word, Fresh64
<1>4. Live(Fresh64, <<>>)  BY <1>3 DEF Live, Fresh64
<1>5. 0 \in 0 .. Len(text) /\ 1 .. 0 = {} /\ <<>> \in Seq(Characters) /\ Len(<<>>) = 0  OBVIOUS
<1> DEFINE u == Seen(text, 0)
           d == Fresh64
<1>6. /\ 0 \in 0 .. Len(text) /\ \A i \in 1 .. 0 : text[i] # Nul
      /\ Live(d, u) /\ u \in Seq(Characters) /\ Len(u) <= 0
  <2>1. u = <<>> /\ Live(d, <<>>)  BY <1>2, <1>4
  <2> HIDE DEF u, d
  <2>2. u \in Seq(Characters) /\ Len(u) = 0 /\ 0 <= 0  BY <1>5, <2>1
  <2>3. Live(d, u) /\ u \in Seq(Characters) /\ Len(u) <= 0  BY <2>1, <2>2
  <2> QED  BY <1>5, <2>3
<1> HIDE DEF d
<1> QED  BY <1>6 DEF Progress, d

\* What is over stays so.
LEMMA OverStays ==
    ASSUME NEW d, d.at \in {"end", "wrong"}, NEW ch, NEW size  PROVE Step64(d, ch, size) = d
  BY DEF Step64

\* It reads the next character.
LEMMA ProgressNext ==
    ASSUME NEW text \in Seq(Characters), NEW k \in 0 .. Len(text) - 1, NEW d, Progress(d, text, k)
    PROVE  Progress(Step64(d, text[k + 1], DecodeRoom(Len(text))), text, k + 1)
<1> DEFINE ch == text[k + 1]
           size == DecodeRoom(Len(text))
           e == Step64(d, ch, size)
           u == Seen(text, k)
<1>1. /\ Len(text) \in Nat /\ k \in Nat /\ k + 1 \in 0 .. Len(text) /\ k < Len(text)
      /\ k \in 0 .. Len(text)
  OBVIOUS
<1>2. /\ ch \in Characters /\ u \in Seq(Characters)
      /\ ch = Space => Seen(text, k + 1) = u
      /\ ch # Space => Seen(text, k + 1) = Append(u, ch)
  BY NextSeen
<1>3. CASE d.at \in {"end", "wrong"}
  <2>1. e = d  BY <1>3, OverStays
  <2>2. d.at = "wrong" \/ (d.at = "end" /\ OneText(text, d.bytes))
    <3>1. ~Live(d, u)  BY <1>3 DEF Live
    <3> QED  BY <3>1, <1>3 DEF Progress
  <2> HIDE DEF e
  <2>3. Progress(e, text, k + 1)  BY <2>1, <2>2 DEF Progress
  <2> QED  BY <2>3 DEF e
<1>4. CASE ~(d.at \in {"end", "wrong"})
  <2>1. (\A i \in 1 .. k : text[i] # Nul) /\ Live(d, u) /\ Len(u) <= k  BY <1>4 DEF Progress
  <2>2. ASSUME ch # Nul  PROVE \A i \in 1 .. k + 1 : text[i] # Nul
    <3> SUFFICES ASSUME NEW i \in 1 .. k + 1  PROVE text[i] # Nul  OBVIOUS
    <3>1. i \in 1 .. k \/ i = k + 1  BY <1>1
    <3> QED  BY <2>1, <2>2, <3>1
  <2> HIDE DEF ch, u
  <2>3. CASE ch = Space
    <3>1. e = d /\ ch # Nul  BY <2>3, Base64Assumption DEF Step64
    <3>2. Seen(text, k + 1) = u  BY <1>2, <2>3
    <3>3. \A i \in 1 .. k + 1 : text[i] # Nul  BY <2>2, <3>1
    <3>4. Len(u) \in Nat /\ Len(u) <= k + 1  BY <1>1, <1>2, <2>1
    <3> HIDE DEF e
    <3>5. Progress(e, text, k + 1)  BY <1>1, <1>2, <2>1, <3>1, <3>2, <3>3, <3>4 DEF Progress
    <3> QED  BY <3>5 DEF e, ch
  <2>4. CASE ch = Nul
    <3>1. e.at = "wrong" \/ (e.at = "end" /\ u = Ntop(e.bytes))  BY <2>1, <2>4, LiveEnd
    <3> HIDE DEF e
    <3>2. ASSUME u = Ntop(e.bytes)  PROVE OneText(text, e.bytes)
      BY <1>1, <2>1, <2>4, <3>2 DEF OneText, ch, u
    <3>3. Progress(e, text, k + 1)  BY <3>1, <3>2 DEF Progress
    <3> QED  BY <3>3 DEF e, ch
  <2>5. CASE ch # Space /\ ch # Nul
    <3>1. ch \in Characters \ {Space, Nul} /\ Len(u) \in Nat /\ Len(u) < Len(text)
      BY <1>1, <1>2, <2>1, <2>5
    <3>2. e.at = "wrong" \/ Live(e, Append(u, ch))  BY <1>1, <1>2, <2>1, <3>1, LiveStep
    <3>3. Append(u, ch) \in Seq(Characters) /\ Len(Append(u, ch)) = Len(u) + 1  BY <1>2
    <3>4. \A i \in 1 .. k + 1 : text[i] # Nul  BY <2>2, <2>5
    <3>5. Len(Append(u, ch)) <= k + 1  BY <1>1, <2>1, <3>1, <3>3
    <3>6. Seen(text, k + 1) = Append(u, ch)  BY <1>2, <2>5
    <3> HIDE DEF e
    <3>7. Progress(e, text, k + 1)  BY <1>1, <3>2, <3>3, <3>4, <3>5, <3>6 DEF Progress
    <3> QED  BY <3>7 DEF e, ch
  <2> QED  BY <2>3, <2>4, <2>5
<1> QED  BY <1>3, <1>4

\* It reaches the end of the text.
LEMMA ProgressLast ==
    ASSUME NEW text \in Seq(Characters), NEW d, Progress(d, text, Len(text)), NEW size
    PROVE  \/ Step64(d, Nul, size).at = "wrong"
           \/ Step64(d, Nul, size).at = "end" /\ OneText(text, Step64(d, Nul, size).bytes)
<1> DEFINE e == Step64(d, Nul, size)
           u == Seen(text, Len(text))
<1>1. CASE d.at \in {"end", "wrong"}
  <2>1. e = d  BY <1>1, OverStays
  <2>2. d.at = "wrong" \/ (d.at = "end" /\ OneText(text, d.bytes))
    <3>1. ~Live(d, u)  BY <1>1 DEF Live
    <3> QED  BY <3>1, <1>1 DEF Progress
  <2> QED  BY <2>1, <2>2
<1>2. CASE ~(d.at \in {"end", "wrong"})
  <2>1. (\A i \in 1 .. Len(text) : text[i] # Nul) /\ Live(d, u)  BY <1>2 DEF Progress
  <2>2. e.at = "wrong" \/ (e.at = "end" /\ u = Ntop(e.bytes))  BY <2>1, LiveEnd
  <2> HIDE DEF e
  <2>3. ASSUME u = Ntop(e.bytes)  PROVE OneText(text, e.bytes)
    <3>1. Len(text) \in 0 .. Len(text)  OBVIOUS
    <3> QED  BY <2>1, <2>3, <3>1 DEF OneText, u
  <2> QED  BY <2>2, <2>3 DEF e
<1> QED  BY <1>1, <1>2

\* b64_pton refuses a text as wrong or accepts it as the one that is encoded; it never runs
\* out of room.
LEMMA PtonIs ==
    ASSUME NEW text \in Seq(Characters)
    PROVE  \/ Pton(text).at = "wrong"
           \/ Pton(text).at = "end" /\ OneText(text, Pton(text).bytes)
<1> DEFINE f == Reading(text)
           L == Len(text)
           size == DecodeRoom(L)
           S == {k \in Nat : k <= L => Progress(f[k], text, k)}
<1>1. L \in Nat  OBVIOUS
<1>2. /\ f[0] = Fresh64 /\ \A k \in 1 .. L : f[k] = Step64(f[k - 1], text[k], size)
      /\ f[L + 1] = Step64(f[L], Nul, size)
  BY ReadingSteps
<1> HIDE DEF f
<1>3. 0 \in S  BY <1>2, ProgressFirst
<1>4. ASSUME NEW k \in Nat, k \in S  PROVE k + 1 \in S
  <2> SUFFICES ASSUME k + 1 <= L  PROVE Progress(f[k + 1], text, k + 1)  OBVIOUS
  <2>1. k \in 0 .. Len(text) - 1 /\ Progress(f[k], text, k)  BY <1>1, <1>4
  <2>2. Progress(Step64(f[k], text[k + 1], size), text, k + 1)  BY <2>1, ProgressNext
  <2>3. k + 1 \in 1 .. L /\ k + 1 - 1 = k  BY <1>1, <2>1
  <2>4. f[k + 1] = Step64(f[k + 1 - 1], text[k + 1], size)  BY <1>2, <2>3
  <2> QED  BY <2>2, <2>3, <2>4
<1>5. Progress(f[L], text, L)
  <2> HIDE DEF S
  <2>1. Nat \subseteq S  BY <1>3, <1>4, InductiveSet
  <2>2. L \in S  BY <1>1, <2>1
  <2> QED  BY <1>1, <2>2 DEF S
<1>6. \/ f[L + 1].at = "wrong"
      \/ f[L + 1].at = "end" /\ OneText(text, f[L + 1].bytes)
  BY <1>2, <1>5, ProgressLast
<1> QED  BY <1>6 DEF f, Pton

\* A byte of the data, or the zero behind it.
LEMMA ByteAtType == ASSUME NEW data \in Seq(Bytes), NEW i  PROVE ByteAt(data, i) \in Bytes
<1>1. 0 \in Bytes
  <2> DEFINE a == P(1)
             b == P(3)
  <2>1. a \in Nat \ {0} /\ b \in Nat \ {0} /\ P(4) = a * b  BY Powers
  <2> HIDE DEF a, b
  <2>2. a * b \in Nat \ {0}  BY <2>1
  <2> QED  BY <2>1, <2>2 DEF Bytes
<1> QED  BY <1>1 DEF ByteAt

\* What b64_ntop makes of data is of the alphabet, and the data can be made of it.
LEMMA EncodedGroups ==
    ASSUME NEW data \in Seq(Bytes), NEW g \in Nat
    PROVE  /\ \A t \in 1 .. 4 : CharAt(data, 4 * g + t) \in Alphabet
           /\ \A r \in 1 .. 3 :
                ByteAt(data, 3 * g + r)
                  = ByteFor(r, CharAt(data, 4 * g + r), CharAt(data, 4 * g + r + 1))
<1> DEFINE b1 == ByteAt(data, 3 * g + 1)
           b2 == ByteAt(data, 3 * g + 2)
           b3 == ByteAt(data, 3 * g + 3)
<1>1. b1 \in Bytes /\ b2 \in Bytes /\ b3 \in Bytes  BY ByteAtType
<1>2. \A t \in 1 .. 4 : CharAt(data, 4 * g + t) = Four(b1, b2, b3)[t]
  <2> SUFFICES ASSUME NEW t \in 1 .. 4  PROVE CharAt(data, 4 * g + t) = Four(b1, b2, b3)[t]  OBVIOUS
  <2> QED  BY CharPlace
<1> HIDE DEF b1, b2, b3
<1>3. /\ \A t \in 1 .. 4 : Four(b1, b2, b3)[t] \in Alphabet
      /\ ByteFor(1, Four(b1, b2, b3)[1], Four(b1, b2, b3)[2]) = b1
      /\ ByteFor(2, Four(b1, b2, b3)[2], Four(b1, b2, b3)[3]) = b2
      /\ ByteFor(3, Four(b1, b2, b3)[3], Four(b1, b2, b3)[4]) = b3
  BY <1>1, BytesOfFour
<1>4. \A t \in 1 .. 4 : CharAt(data, 4 * g + t) \in Alphabet  BY <1>2, <1>3
<1>5. /\ CharAt(data, 4 * g + 1) = Four(b1, b2, b3)[1]
      /\ CharAt(data, 4 * g + 2) = Four(b1, b2, b3)[2]
      /\ CharAt(data, 4 * g + 3) = Four(b1, b2, b3)[3]
      /\ CharAt(data, 4 * g + 4) = Four(b1, b2, b3)[4]
  BY <1>2
<1>6. 4 * g + 1 + 1 = 4 * g + 2 /\ 4 * g + 2 + 1 = 4 * g + 3 /\ 4 * g + 3 + 1 = 4 * g + 4  OBVIOUS
<1>7. ASSUME NEW r \in 1 .. 3
      PROVE  ByteAt(data, 3 * g + r)
               = ByteFor(r, CharAt(data, 4 * g + r), CharAt(data, 4 * g + r + 1))
  <2>1. CASE r = 1
    <3>1. ByteAt(data, 3 * g + 1) = b1  BY DEF b1
    <3>2. ByteFor(1, CharAt(data, 4 * g + 1), CharAt(data, 4 * g + 1 + 1)) = b1
      BY <1>3, <1>5, <1>6
    <3> QED  BY <2>1, <3>1, <3>2
  <2>2. CASE r = 2
    <3>1. ByteAt(data, 3 * g + 2) = b2  BY DEF b2
    <3>2. ByteFor(2, CharAt(data, 4 * g + 2), CharAt(data, 4 * g + 2 + 1)) = b2
      BY <1>3, <1>5, <1>6
    <3> QED  BY <2>2, <3>1, <3>2
  <2>3. CASE r = 3
    <3>1. ByteAt(data, 3 * g + 3) = b3  BY DEF b3
    <3>2. ByteFor(3, CharAt(data, 4 * g + 3), CharAt(data, 4 * g + 3 + 1)) = b3
      BY <1>3, <1>5, <1>6
    <3> QED  BY <2>3, <3>1, <3>2
  <2> QED  BY <2>1, <2>2, <2>3
<1> QED  BY <1>4, <1>7

\* What a text of n bytes looks like: q groups, s characters of another one and its pads.
Shape(n, q, s) ==
    /\ q \in Nat /\ s \in {0, 2, 3} /\ n = 3 * q + (IF s = 0 THEN 0 ELSE s - 1)
    /\ Chars(n) - Pads(n) = 4 * q + s
    /\ Chars(n) = 4 * q + (IF s = 0 THEN 0 ELSE 4)

\* Every number has one.
LEMMA ShapeOf == ASSUME NEW n \in Nat  PROVE \E q, s : Shape(n, q, s)
<1> DEFINE q == n \div 3
           r == n % 3
<1>1. q \in Nat /\ r \in 0 .. 3 - 1 /\ q * 3 + r = n
  <2>1. 3 \in Nat \ {0} /\ n \in Nat  OBVIOUS
  <2> QED  BY ONLY <2>1, Division
<1> HIDE DEF q, r
<1>2. /\ Chars(3 * q) = 4 * q /\ Pads(3 * q) = 0
      /\ Chars(3 * q + 1) = 4 * q + 4 /\ Pads(3 * q + 1) = 2
      /\ Chars(3 * q + 2) = 4 * q + 4 /\ Pads(3 * q + 2) = 1
  BY <1>1, CharsOf
<1>3. CASE r = 0
  <2>1. n = 3 * q  BY <1>1, <1>3
  <2>2. Shape(n, q, 0)  BY <1>1, <1>2, <2>1 DEF Shape
  <2> QED  BY <2>2
<1>4. CASE r = 1
  <2>1. n = 3 * q + 1  BY <1>1, <1>4
  <2>2. Shape(n, q, 2)  BY <1>1, <1>2, <2>1 DEF Shape
  <2> QED  BY <2>2
<1>5. CASE r = 2
  <2>1. n = 3 * q + 2  BY <1>1, <1>5
  <2>2. Shape(n, q, 3)  BY <1>1, <1>2, <2>1 DEF Shape
  <2> QED  BY <2>2
<1>6. r = 0 \/ r = 1 \/ r = 2  BY <1>1
<1> QED  BY <1>3, <1>4, <1>5, <1>6

\* The text of some bytes.
LEMMA EncodedText ==
    ASSUME NEW data \in Seq(Bytes), NEW q, NEW s, Shape(Len(data), q, s)
    PROVE  /\ Ntop(data) \in Seq(Characters)
           /\ Len(Ntop(data)) = 4 * q + (IF s = 0 THEN 0 ELSE 4)
           /\ \A i \in 1 .. 4 * q + s : /\ Ntop(data)[i] = CharAt(data, i)
                                        /\ CharAt(data, i) \in Alphabet
           /\ \A i \in 1 .. Len(Ntop(data)) : i > 4 * q + s => Ntop(data)[i] = Pad
<1> DEFINE n == Len(data)
           m == 4 * q + s
           L == 4 * q + (IF s = 0 THEN 0 ELSE 4)
           x == Ntop(data)
<1>1. /\ q \in Nat /\ s \in {0, 2, 3} /\ m \in Nat /\ L \in Nat /\ m <= L
      /\ Chars(n) - Pads(n) = m /\ Chars(n) = L
  BY DEF Shape
<1>2. x = [i \in 1 .. L |-> IF i > m THEN Pad ELSE CharAt(data, i)]
  <2> HIDE DEF m, L
  <2> QED  BY <1>1 DEF Ntop
<1> HIDE DEF m, L, n, x
<1>3. ASSUME NEW i \in 1 .. m  PROVE CharAt(data, i) \in Alphabet
  <2>1. i \in Nat \ {0} /\ 4 \in Nat \ {0}  BY <1>1
  <2>2. PICK g \in Nat, t \in 1 .. 4 : i = 4 * g + t  BY ONLY <2>1, InGroup
  <2> QED  BY <2>2, EncodedGroups
<1>4. Alphabet \subseteq Characters /\ Pad \in Characters  BY DEF Characters
<1>5. x \in [1 .. L -> Characters]
  <2>1. ASSUME NEW i \in 1 .. L  PROVE (IF i > m THEN Pad ELSE CharAt(data, i)) \in Characters
    <3>1. CASE i > m  BY <1>4, <3>1
    <3>2. CASE ~(i > m)
      <4>1. i \in 1 .. m  BY <1>1, <3>2
      <4> QED  BY <1>3, <1>4, <3>2, <4>1
    <3> QED  BY <3>1, <3>2
  <2> QED  BY <1>2, <2>1
<1>6. x \in Seq(Characters) /\ Len(x) = L
  <2>1. x \in Seq(Characters)  BY <1>1, <1>5, FunctionsAreSequences
  <2> QED  BY <1>1, <1>5, <2>1
<1>7. \A i \in 1 .. m : x[i] = CharAt(data, i)
  <2> SUFFICES ASSUME NEW i \in 1 .. m  PROVE x[i] = CharAt(data, i)  OBVIOUS
  <2>1. i \in 1 .. L /\ ~(i > m)  BY <1>1
  <2> QED  BY <1>2, <2>1
<1>8. \A i \in 1 .. L : i > m => x[i] = Pad  BY <1>2
<1>9. \A i \in 1 .. m : x[i] = CharAt(data, i) /\ CharAt(data, i) \in Alphabet  BY <1>3, <1>7
<1> QED  BY <1>6, <1>8, <1>9 DEF m, L, x

-----------------------------------------------------------------------------
\* A sign of the alphabet is read as such.
LEMMA AlphabetStep ==
    ASSUME NEW d, d.at = "chars", NEW ch \in Alphabet, NEW size
    PROVE  Step64(d, ch, size) = Digit(d, ch, size)
<1>1. ch # Pad /\ ch # Space /\ ch # Nul  BY Base64Assumption
<1>2. ~(d.at \in {"end", "wrong", "short"} \/ ch = Space) /\ ch # Nul
      /\ ~(d.at = "chars" /\ ch = Pad) /\ d.at = "chars" /\ ch \in Alphabet
  BY <1>1
<1> QED  BY <1>2 DEF Step64

\* The word that is the first i characters of a text.
WordSo(d, text, i) ==
    /\ d.at = "chars"
    /\ \E w, q : Word(d, w, q) /\ Len(w) = i /\ \A j \in 1 .. i : w[j] = text[j]

\* b64_pton reads a text as long as it is of the alphabet.
LEMMA ReadsWord ==
    ASSUME NEW text \in Seq(Characters), NEW m \in 0 .. Len(text),
           \A i \in 1 .. m : text[i] \in Alphabet
    PROVE  WordSo(Reading(text)[m], text, m)
<1> DEFINE f == Reading(text)
           L == Len(text)
           size == DecodeRoom(L)
           S == {k \in Nat : k <= m => WordSo(f[k], text, k)}
<1>1. L \in Nat /\ m \in Nat /\ m <= L  OBVIOUS
<1>2. f[0] = Fresh64 /\ \A k \in 1 .. L : f[k] = Step64(f[k - 1], text[k], size)
  BY ReadingSteps
<1> HIDE DEF f
<1>3. 0 \in S
  <2>1. Word(Fresh64, <<>>, 0)
    <3>1. Fresh64 \in Open  BY DEF Fresh64, Open
    <3>2. Made(<<>>, <<>>)
      <4>1. \A g \in Nat, r \in 1 .. 3 : ~(3 * g + r <= 0)  OBVIOUS
      <4>2. Len(<<>>) = 0  OBVIOUS
      <4> QED  BY <4>1, <4>2 DEF Made
    <3> QED  BY <3>1, <3>2 DEF Word, Fresh64
  <2>2. Len(<<>>) = 0 /\ 1 .. 0 = {} /\ Fresh64.at = "chars"  BY DEF Fresh64
  <2>3. WordSo(Fresh64, text, 0)
    <3> DEFINE d == Fresh64
    <3>1. Word(d, <<>>, 0) /\ Len(<<>>) = 0 /\ d.at = "chars" /\ \A j \in 1 .. 0 : <<>>[j] = text[j]
      BY <2>1, <2>2
    <3> HIDE DEF d
    <3>2. WordSo(d, text, 0)  BY <3>1 DEF WordSo
    <3> QED  BY <3>2 DEF d
  <2> QED  BY <1>2, <2>3
<1>4. ASSUME NEW k \in Nat, k \in S  PROVE k + 1 \in S
  <2> SUFFICES ASSUME k + 1 <= m  PROVE WordSo(f[k + 1], text, k + 1)  OBVIOUS
  <2> DEFINE d == f[k]
             ch == text[k + 1]
             e == Digit(d, ch, size)
  <2>1. k + 1 \in 1 .. m /\ k + 1 \in 1 .. L /\ k + 1 - 1 = k /\ k < L /\ k <= m  BY <1>1
  <2>2. WordSo(d, text, k)  BY <1>4, <2>1
  <2>3. ch \in Alphabet  BY <2>1
  <2>4. PICK w, q : Word(d, w, q) /\ Len(w) = k /\ \A j \in 1 .. k : w[j] = text[j]
    BY <2>2 DEF WordSo
  <2>5. f[k + 1] = Step64(d, ch, size)
    <3>1. f[k + 1] = Step64(f[k + 1 - 1], text[k + 1], size)  BY <1>2, <2>1
    <3> QED  BY <2>1, <3>1
  <2> HIDE DEF ch, d
  <2>6. d.at = "chars"  BY <2>2 DEF WordSo
  <2>7. f[k + 1] = e  BY <2>3, <2>5, <2>6, AlphabetStep
  <2>8. size \in Nat /\ Fits(d, size)  BY <1>1, <2>1, <2>4, RoomFor
  <2> DEFINE u == Append(w, ch)
             p == IF d.state = 3 THEN q + 1 ELSE q
  <2>9. Word(e, u, p) /\ e.at = d.at  BY <2>3, <2>4, <2>8, WordDigit
  <2>10. w \in Seq(Alphabet)  BY <2>4 DEF Word
  <2>11. Len(u) = k + 1 /\ u[k + 1] = ch /\ \A j \in 1 .. k : u[j] = w[j]
    BY <2>3, <2>4, <2>10, AppendProperties
  <2> HIDE DEF u, p, e
  <2>12. \A j \in 1 .. k + 1 : u[j] = text[j]
    <3> SUFFICES ASSUME NEW j \in 1 .. k + 1  PROVE u[j] = text[j]  OBVIOUS
    <3>1. j \in 1 .. k \/ j = k + 1  OBVIOUS
    <3> QED  BY <2>4, <2>11, <3>1 DEF ch
  <2> QED  BY <2>6, <2>7, <2>9, <2>11, <2>12 DEF WordSo
<1> HIDE DEF S
<1>5. Nat \subseteq S  BY <1>3, <1>4, InductiveSet
<1>6. m \in S  BY <1>1, <1>5
<1> QED  BY <1>1, <1>6 DEF S, f

\* Pads behind a word, and the end.
LEMMA PadStep ==
    ASSUME NEW d, NEW size
    PROVE  /\ d.at = "chars" /\ d.state = 2 => Step64(d, Pad, size) = Bad(d, "pad")
           /\ d.at = "chars" /\ d.state = 3 => Step64(d, Pad, size) = Bad(d, "spaces")
           /\ d.at = "pad" => Step64(d, Pad, size) = Bad(d, "spaces")
           /\ d.at = "chars" /\ d.state = 0 => Step64(d, Nul, size) = Bad(d, "end")
           /\ d.at = "spaces" /\ d.begun = 0 => Step64(d, Nul, size) = Bad(d, "end")
<1>1. Pad # Space /\ Pad # Nul /\ Nul # Space  BY Base64Assumption
<1>2. d.at = "chars" /\ d.state = 2 => Step64(d, Pad, size) = Bad(d, "pad")  BY <1>1 DEF Step64
<1>3. d.at = "chars" /\ d.state = 3 => Step64(d, Pad, size) = Bad(d, "spaces")  BY <1>1 DEF Step64
<1>4. d.at = "pad" => Step64(d, Pad, size) = Bad(d, "spaces")  BY <1>1 DEF Step64
<1>5. d.at = "chars" /\ d.state = 0 => Step64(d, Nul, size) = Bad(d, "end")
  BY <1>1 DEF Step64, Finished
<1>6. d.at = "spaces" /\ d.begun = 0 => Step64(d, Nul, size) = Bad(d, "end")
  BY <1>1 DEF Step64, Finished, Slop
<1> QED  BY <1>2, <1>3, <1>4, <1>5, <1>6

\* The word of encoded bytes has the bytes again, and begins none behind them.
LEMMA WordOfBytes ==
    ASSUME NEW data \in Seq(Bytes), NEW q, NEW s, Shape(Len(data), q, s),
           NEW d, NEW w, NEW p, Word(d, w, p), Len(w) = 4 * q + s,
           \A i \in 1 .. 4 * q + s : w[i] = CharAt(data, i)
    PROVE  d.state = s /\ d.bytes = data /\ d.begun = 0
<1> DEFINE n == Len(data)
           bytes == d.bytes
<1>1. /\ q \in Nat /\ s \in {0, 2, 3} /\ n = 3 * q + (IF s = 0 THEN 0 ELSE s - 1)
      /\ n \in Nat /\ DOMAIN data = 1 .. n
  BY DEF Shape
<1>2. /\ p \in Nat /\ d.state \in 0 .. 3 /\ w \in Seq(Alphabet) /\ bytes \in Seq(Nat)
      /\ Len(w) = 4 * p + d.state /\ Len(bytes) = 3 * p + (IF d.state = 0 THEN 0 ELSE d.state - 1)
      /\ d.begun = (IF d.state = 0 THEN 0 ELSE Carry(d.state - 1, w[Len(w)]))
      /\ Made(bytes, w)
  BY DEF Word, Open
<1>3. p = q /\ d.state = s
  <2>1. 4 * p + d.state = 4 * q + s  BY <1>2
  <2>2. s \in 0 .. 3  BY <1>1
  <2> QED  BY <1>1, <1>2, <2>1, <2>2, SMTT(40)
<1>4. Len(bytes) = n  BY <1>1, <1>2, <1>3
<1> HIDE DEF n, bytes
<1>5. ASSUME NEW j \in 1 .. n  PROVE bytes[j] = data[j]
  <2>1. j \in Nat \ {0} /\ 3 \in Nat \ {0}  BY <1>1
  <2>2. PICK g \in Nat, r \in 1 .. 3 : j = 3 * g + r  BY ONLY <2>1, InGroup
  <2>3. bytes[3 * g + r] = ByteFor(r, w[4 * g + r], w[4 * g + r + 1])
    <3>1. 3 * g + r <= Len(bytes)  BY <1>1, <1>4, <2>2
    <3> QED  BY <1>2, <3>1 DEF Made
  <2>4. 4 * g + r \in 1 .. 4 * q + s /\ 4 * g + r + 1 \in 1 .. 4 * q + s
    <3>1. 3 * g + r <= n  BY <1>1, <2>2
    <3>2. CASE s = 0  BY <1>1, <2>2, <3>1, <3>2
    <3>3. CASE s = 2  BY <1>1, <2>2, <3>1, <3>3
    <3>4. CASE s = 3  BY <1>1, <2>2, <3>1, <3>4
    <3> QED  BY <1>1, <3>2, <3>3, <3>4
  <2>5. w[4 * g + r] = CharAt(data, 4 * g + r) /\ w[4 * g + r + 1] = CharAt(data, 4 * g + r + 1)
    BY <2>4
  <2>6. ByteAt(data, 3 * g + r)
          = ByteFor(r, CharAt(data, 4 * g + r), CharAt(data, 4 * g + r + 1))
    BY EncodedGroups
  <2>7. ByteAt(data, 3 * g + r) = data[j]  BY <1>1, <2>2 DEF ByteAt
  <2> QED  BY <2>2, <2>3, <2>5, <2>6, <2>7
<1>6. bytes = data
  <2>1. Bytes \subseteq Nat  BY Powers DEF Bytes
  <2>2. data \in Seq(Nat)
    <3>1. Len(data) \in Nat /\ data \in [1 .. Len(data) -> Bytes]  OBVIOUS
    <3>2. data \in [1 .. Len(data) -> Nat]  BY <2>1, <3>1
    <3> QED  BY ONLY <3>1, <3>2, FunctionsAreSequences
  <2>3. Len(data) = n  BY DEF n
  <2> QED  BY <1>2, <1>4, <1>5, <2>2, <2>3, SeqEqual
<1>7. d.begun = 0
  <2>1. CASE s = 0  BY <1>2, <1>3, <2>1
  <2>2. CASE s # 0
    <3>1. s \in 1 .. 3 /\ s - 1 \in 0 .. 3 /\ Len(w) = 4 * q + s /\ Len(w) \in 1 .. 4 * q + s
      BY <1>1, <2>2
    <3>2. d.begun = Carry(s - 1, CharAt(data, 4 * q + s))
      <4>1. w[Len(w)] = CharAt(data, 4 * q + s)  BY <3>1
      <4> QED  BY <1>2, <1>3, <2>2, <4>1
    <3>3. ByteAt(data, 3 * q + s) = 0
      <4>1. ~(3 * q + s \in DOMAIN data)  BY <1>1, <3>1
      <4> QED  BY <4>1 DEF ByteAt
    <3>4. ByteAt(data, 3 * q + s)
            = ByteFor(s, CharAt(data, 4 * q + s), CharAt(data, 4 * q + s + 1))
      BY <1>1, <3>1, EncodedGroups
    <3>5. CharAt(data, 4 * q + s) \in Alphabet /\ CharAt(data, 4 * q + s + 1) \in Alphabet
      <4>1. /\ \A t \in 1 .. 4 : CharAt(data, 4 * q + t) \in Alphabet  BY <1>1, EncodedGroups
      <4>2. s \in 1 .. 4 /\ s + 1 \in 1 .. 4 /\ 4 * q + s + 1 = 4 * q + (s + 1)  BY <1>1, <3>1
      <4>3. CharAt(data, 4 * q + (s + 1)) \in Alphabet  BY <4>1, <4>2
      <4> QED  BY <4>1, <4>2, <4>3
    <3> DEFINE x == Carry(s - 1, CharAt(data, 4 * q + s))
               y == Fill(s, CharAt(data, 4 * q + s + 1))
    <3>6. x \in Nat /\ y \in Nat
      <4>1. x \in Nat  BY ONLY <3>1, <3>5, CarryType
      <4>2. y \in Nat  BY ONLY <3>1, <3>5, CarryType
      <4> QED  BY <4>1, <4>2
    <3>7. x + y = 0  BY <3>3, <3>4 DEF ByteFor
    <3> HIDE DEF x, y
    <3>8. x = 0  BY <3>6, <3>7
    <3> QED  BY <3>2, <3>8 DEF x
  <2> QED  BY <2>1, <2>2
<1> QED  BY <1>3, <1>6, <1>7 DEF bytes

\* What b64_ntop makes of bytes, b64_pton accepts and makes the bytes of.
LEMMA PtonOfNtop ==
    ASSUME NEW data \in Seq(Bytes)
    PROVE  Pton(Ntop(data)).at = "end" /\ Pton(Ntop(data)).bytes = data
<1>1. PICK q, s : Shape(Len(data), q, s)
  <2>1. Len(data) \in Nat  OBVIOUS
  <2> QED  BY <2>1, ShapeOf
<1> DEFINE text == Ntop(data)
           L == Len(text)
           m == 4 * q + s
           f == Reading(text)
           d == f[m]
           size == DecodeRoom(L)
<1>2. /\ text \in Seq(Characters) /\ L = 4 * q + (IF s = 0 THEN 0 ELSE 4)
      /\ \A i \in 1 .. m : text[i] = CharAt(data, i) /\ CharAt(data, i) \in Alphabet
      /\ \A i \in 1 .. L : i > m => text[i] = Pad
  BY <1>1, EncodedText
<1>3. q \in Nat /\ s \in {0, 2, 3} /\ m \in 0 .. L /\ m \in Nat /\ L \in Nat
  BY <1>1, <1>2 DEF Shape
<1>4. (\A i \in 1 .. m : text[i] \in Alphabet)  BY <1>2
<1> HIDE DEF text, m
<1>5. WordSo(d, text, m)  BY <1>2, <1>3, <1>4, ReadsWord
<1>6. /\ \A k \in 1 .. L : f[k] = Step64(f[k - 1], text[k], size)
      /\ f[L + 1] = Step64(f[L], Nul, size)
  BY <1>2, ReadingSteps
<1> HIDE DEF f, d
<1>7. PICK w, p : Word(d, w, p) /\ Len(w) = m /\ \A j \in 1 .. m : w[j] = text[j]
  BY <1>5 DEF WordSo
<1>8. d.at = "chars" /\ d \in Open  BY <1>5, <1>7 DEF WordSo, Word
<1>9. d.state = s /\ d.bytes = data /\ d.begun = 0
  <2>1. \A i \in 1 .. m : w[i] = CharAt(data, i)  BY <1>2, <1>7
  <2> QED  BY <1>1, <1>7, <2>1, WordOfBytes DEF m
<1> DEFINE e == f[L + 1]
<1>10. e.at = "end" /\ e.bytes = data
  <2>1. CASE s = 0
    <3>1. L = m  BY <1>2, <1>3, <2>1 DEF m
    <3>2. e = Bad(d, "end")  BY <1>6, <1>8, <1>9, <2>1, <3>1, PadStep DEF d
    <3> HIDE DEF e
    <3> QED  BY <1>8, <1>9, <3>2, WrongAt
  <2>2. CASE s = 3
    <3>1. L = m + 1 /\ L \in 1 .. L /\ L > m /\ L - 1 = m  BY <1>2, <1>3, <2>2 DEF m
    <3>2. f[L] = Step64(d, Pad, size)  BY <1>2, <1>6, <3>1 DEF d
    <3> DEFINE c == Bad(d, "spaces")
    <3>3. f[L] = c  BY <1>8, <1>9, <2>2, <3>2, PadStep
    <3>4. c \in Open /\ c.at = "spaces" /\ c.begun = 0 /\ c.bytes = data
      BY <1>8, <1>9 DEF Bad, Open
    <3> HIDE DEF c
    <3>5. e = Bad(c, "end")  BY <1>6, <3>3, <3>4, PadStep
    <3> HIDE DEF e
    <3> QED  BY <3>4, <3>5, WrongAt
  <2>3. CASE s = 2
    <3>1. L = m + 2 /\ m + 1 \in 1 .. L /\ m + 1 > m /\ m + 1 - 1 = m
          /\ m + 2 \in 1 .. L /\ m + 2 > m /\ m + 2 - 1 = m + 1
      BY <1>2, <1>3, <2>3 DEF m
    <3>2. f[m + 1] = Step64(d, Pad, size) /\ f[m + 2] = Step64(f[m + 1], Pad, size)
      <4>1. text[m + 1] = Pad /\ text[m + 2] = Pad  BY <1>2, <3>1
      <4> HIDE DEF size
      <4>2. ASSUME NEW k \in 1 .. L  PROVE f[k] = Step64(f[k - 1], text[k], size)
        BY <1>6 DEF size
      <4> DEFINE i == m + 1
                 j == m + 2
      <4> HIDE DEF i, j
      <4>3. i \in 1 .. L /\ i - 1 = m /\ j \in 1 .. L /\ j - 1 = i  BY <1>3, <3>1 DEF i, j
      <4>4. f[i] = Step64(f[m], text[i], size)  BY <4>2, <4>3
      <4>5. f[j] = Step64(f[i], text[j], size)  BY <4>2, <4>3
      <4> QED  BY <4>1, <4>4, <4>5 DEF d, i, j
    <3> DEFINE b == Bad(d, "pad")
               c == Bad(b, "spaces")
    <3>3. f[m + 1] = b  BY <1>8, <1>9, <2>3, <3>2, PadStep
    <3>4. b \in Open /\ b.at = "pad" /\ b.begun = 0 /\ b.bytes = data
      BY <1>8, <1>9 DEF Bad, Open
    <3> HIDE DEF b
    <3>5. f[m + 2] = c  BY <3>2, <3>3, <3>4, PadStep
    <3>6. c \in Open /\ c.at = "spaces" /\ c.begun = 0 /\ c.bytes = data
      BY <3>4 DEF Bad, Open
    <3> HIDE DEF c
    <3>7. e = Bad(c, "end")  BY <1>6, <3>1, <3>5, <3>6, PadStep
    <3> HIDE DEF e
    <3> QED  BY <3>6, <3>7, WrongAt
  <2> QED  BY <1>3, <2>1, <2>2, <2>3
<1>11. Pton(text) = e  BY DEF Pton, f
<1> QED  BY <1>10, <1>11 DEF text

\* The room of encode is enough.
LEMMA EncodeIs ==
    ASSUME NEW data \in Seq(Bytes), data # <<>>
    PROVE  Encode(data) = Ntop(data)
<1> DEFINE n == Len(data)
           c == Chars(n)
<1>1. n \in Nat /\ n # 0  OBVIOUS
<1>2. PICK q, s : Shape(n, q, s)  BY <1>1, ShapeOf
<1>3. Len(Ntop(data)) = c /\ c \in Nat \ {0}
  <2>1. Len(Ntop(data)) = 4 * q + (IF s = 0 THEN 0 ELSE 4)  BY <1>2, EncodedText
  <2>2. /\ q \in Nat /\ s \in {0, 2, 3} /\ n = 3 * q + (IF s = 0 THEN 0 ELSE s - 1)
        /\ c = 4 * q + (IF s = 0 THEN 0 ELSE 4)
    BY <1>2 DEF Shape
  <2> HIDE DEF n, c
  <2>3. c \in Nat \ {0}  BY <1>1, <2>2
  <2> QED  BY <2>1, <2>2, <2>3
<1> HIDE DEF c
<1>4. (c - 1) \div 76 \in Nat
  <2>1. c - 1 \in Nat /\ 76 \in Nat \ {0}  BY <1>3
  <2> QED  BY ONLY <2>1, Division
<1>5. c < c + ((c - 1) \div 76) + 1
  <2> DEFINE k == (c - 1) \div 76
  <2> HIDE DEF k
  <2>1. k \in Nat  BY <1>4 DEF k
  <2>2. c < c + k + 1  BY <1>3, <2>1
  <2> QED  BY <2>2 DEF k
<1>6. EncodeRoom(n) = c + ((c - 1) \div 76) + 1  BY DEF EncodeRoom, c
<1>7. Len(Ntop(data)) < EncodeRoom(Len(data))  BY <1>3, <1>5, <1>6
<1> QED  BY <1>7 DEF Encode

-----------------------------------------------------------------------------
\* What the last call was given and has returned.
CodingInv ==
    \/ coded.call = "none"
    \/ coded.call = "encode" /\ coded.given \in Datas /\ coded.returned = Encode(coded.given)
    \/ coded.call = "decode" /\ coded.given \in Texts64 /\ coded.returned = Decode(coded.given)

\* encode and decode keep it.
LEMMA InitCoding == CodingInit => CodingInv  BY DEF CodingInit, CodingInv

LEMMA CodingStep ==
    ASSUME CodingInv, CodingNext \/ UNCHANGED coded
    PROVE  CodingInv'
<1>1. CASE UNCHANGED coded  BY <1>1 DEF CodingInv
<1>2. ASSUME NEW data \in Datas, EncodeCall(data)  PROVE CodingInv'
  BY <1>2 DEF CodingInv, EncodeCall
<1>3. ASSUME NEW text \in Texts64, DecodeCall(text)  PROVE CodingInv'
  BY <1>3 DEF CodingInv, DecodeCall
<1> QED  BY <1>1, <1>2, <1>3 DEF CodingNext

\* It means that bytes and texts correspond one to one.
LEMMA OneToOne == CodingInv => TextsOneToOne
<1> SUFFICES ASSUME CodingInv  PROVE TextsOneToOne  OBVIOUS
<1> DEFINE g == coded.given
<1>1. ASSUME coded.call = "encode", g # <<>>  PROVE Decode(coded.returned) = g
  <2>1. g \in Datas /\ coded.returned = Encode(g)  BY <1>1 DEF CodingInv
  <2>2. g \in Seq(Bytes)  BY <2>1, Base64Assumption
  <2> HIDE DEF g
  <2>3. coded.returned = Ntop(g)  BY <1>1, <2>1, <2>2, EncodeIs
  <2>4. Pton(Ntop(g)).at = "end" /\ Pton(Ntop(g)).bytes = g  BY <2>2, PtonOfNtop
  <2> QED  BY <2>3, <2>4 DEF Decode
<1>2. ASSUME coded.call = "decode"
      PROVE  /\ Pton(g).at # "short"
             /\ coded.returned # Failed => OneText(g, coded.returned)
  <2>1. g \in Texts64 /\ coded.returned = Decode(g)  BY <1>2 DEF CodingInv
  <2>2. g \in Seq(Characters)  BY <2>1, Base64Assumption
  <2> HIDE DEF g
  <2>3. Pton(g).at = "wrong" \/ (Pton(g).at = "end" /\ OneText(g, Pton(g).bytes))
    BY <2>2, PtonIs
  <2>4. Pton(g).at # "short"  BY <2>3
  <2>5. ASSUME coded.returned # Failed  PROVE OneText(g, coded.returned)
    <3>1. Pton(g).at = "end" /\ coded.returned = Pton(g).bytes  BY <2>1, <2>5 DEF Decode
    <3> QED  BY <2>3, <3>1
  <2> QED  BY <2>4, <2>5
<1>3. DecodesEncoded  BY <1>1 DEF DecodesEncoded
<1>4. OnlyOneText  BY <1>2 DEF OnlyOneText, OneText, Seen, First
<1>5. RoomToDecode  BY <1>2 DEF RoomToDecode
<1> QED  BY <1>3, <1>4, <1>5 DEF TextsOneToOne

-----------------------------------------------------------------------------
(* The libraries together *)

\* The invariants of all libraries.
LibrariesInv == /\ FilterInv /\ SumInv /\ CodingInv /\ CryptoInv /\ OptionsInv
                /\ SocketInv /\ TimerInv /\ FilesInv

\* Each of them starts as its module says.
LEMMA InitLibraries == LibrariesInit => LibrariesInv
<1> SUFFICES ASSUME LibrariesInit  PROVE LibrariesInv  OBVIOUS
<1>1. /\ FilterInit /\ SumInit /\ CodingInit /\ CryptoInit /\ OptionsInit
      /\ SocketInit /\ TimerInit /\ FilesInit
  BY DEF LibrariesInit
<1> QED
  BY <1>1, InitFilter, InitSum, InitCoding, InitCrypto, InitOptions, InitSocket, InitTimers,
     InitFiles DEF LibrariesInv

\* A step is one of each library, which may rest.
LEMMA OneLibrarySteps ==
    ASSUME [LibrariesNext]_allVars
    PROVE  /\ FilterNext \/ UNCHANGED filterVars
           /\ SumNext \/ UNCHANGED sumVars
           /\ CodingNext \/ UNCHANGED coded
           /\ CryptoNext \/ UNCHANGED cryptoVars
           /\ OptionsNext \/ UNCHANGED optionVars
           /\ SocketNext \/ UNCHANGED socketVars
           /\ [TimerNext]_timerVars
           /\ LocksNext \/ UNCHANGED lockVars
           /\ DirsNext \/ UNCHANGED dirVars
           /\ PermsNext \/ UNCHANGED permVars
<1>1. CASE UNCHANGED allVars  BY <1>1 DEF allVars, fileVars
<1>2. CASE Only("zlib") /\ FilterNext  BY <1>2 DEF Only, fileVars
<1>3. CASE Only("checksum") /\ SumNext  BY <1>3 DEF Only, fileVars
<1>4. CASE Only("base64") /\ CodingNext  BY <1>4 DEF Only, fileVars
<1>5. CASE Only("crypto") /\ CryptoNext  BY <1>5 DEF Only, fileVars
<1>6. CASE Only("options") /\ OptionsNext  BY <1>6 DEF Only, fileVars
<1>7. CASE Only("sockets") /\ SocketNext  BY <1>7 DEF Only, fileVars
<1>8. CASE Only("timers") /\ TimerNext  BY <1>8 DEF Only, fileVars
<1>9. CASE Only("locks") /\ LocksNext /\ UNCHANGED <<dirVars, permVars>>  BY <1>9 DEF Only
<1>10. CASE Only("dirs") /\ DirsNext /\ UNCHANGED <<lockVars, permVars>>  BY <1>10 DEF Only
<1>11. CASE Only("permissions") /\ PermsNext /\ UNCHANGED <<lockVars, dirVars>>  BY <1>11 DEF Only
<1> QED
  BY <1>1, <1>2, <1>3, <1>4, <1>5, <1>6, <1>7, <1>8, <1>9, <1>10, <1>11 DEF LibrariesNext

\* Each library keeps its own.
LEMMA LibrariesStep == LibrariesInv /\ [LibrariesNext]_allVars => LibrariesInv'
<1> SUFFICES ASSUME LibrariesInv, [LibrariesNext]_allVars  PROVE LibrariesInv'  OBVIOUS
<1>1. /\ FilterInv /\ SumInv /\ CodingInv /\ CryptoInv /\ OptionsInv /\ SocketInv
      /\ TimerInv /\ LocksInv /\ DirsInv /\ PermsInv
  BY DEF LibrariesInv, FilesInv
<1>2. FilterInv' /\ SumInv' /\ CodingInv' /\ CryptoInv' /\ OptionsInv' /\ SocketInv'
  BY <1>1, OneLibrarySteps, FilterStep, SumStep, CodingStep, CryptoStep, OptionsStep, SocketStep
<1>3. TimerInv' /\ LocksInv' /\ DirsInv' /\ PermsInv'
  BY <1>1, OneLibrarySteps, TimerStep, LocksStep, DirsStep, PermsStep
<1> QED  BY <1>2, <1>3 DEF LibrariesInv, FilesInv

\* The invariant of all holds.
LEMMA LibrariesHold == LibrariesSpec => []LibrariesInv
  BY InitLibraries, LibrariesStep, PTL DEF LibrariesSpec

\* Type correctness.
THEOREM LibrariesTypeCorrect == LibrariesSpec => []TypeOK
<1>1. LibrariesInv => TypeOK
  <2> SUFFICES ASSUME LibrariesInv  PROVE TypeOK  OBVIOUS
  <2>1. FilterTypeOK /\ SumTypeOK /\ OptionsTypeOK /\ SocketTypeOK
    BY DEF LibrariesInv, FilterInv, SumInv, OptionsInv, SocketInv
  <2>2. TimerTypeOK  BY DEF LibrariesInv, TimerInv, TimerTypeOK
  <2>3. FilesTypeOK  BY DEF LibrariesInv, FilesInv, LocksInv, DirsInv, PermsInv, FilesTypeOK
  <2> QED  BY <2>1, <2>2, <2>3 DEF TypeOK
<1> QED  BY <1>1, LibrariesHold, PTL

\* A zlib stream gives the script what it was fed, alive or ended, for all pieces and all
\* sizes of the buffer of lz_filter_impl.
THEOREM StreamsStayWhole == LibrariesSpec => []StreamWhole
<1>1. LibrariesInv => StreamWhole  BY FilterWhole DEF LibrariesInv
<1> QED  BY <1>1, LibrariesHold, PTL

\* What a script asked deflate to flush it has been returned when the call returns.
THEOREM FlushesReturnAll == LibrariesSpec => FlushedOut
<1>1. LibrariesInv /\ [LibrariesNext]_allVars
         => [stage = "leave" /\ flush # "none" => shown' = given]_filterVars
  BY OneLibrarySteps, FlushedByStep DEF LibrariesInv
<1> QED  BY <1>1, LibrariesHold, PTL DEF LibrariesSpec, FlushedOut

\* A checksum is that of all it was given, whichever closures a script combines.
THEOREM SumsAreRight == LibrariesSpec => []SumsOfAllFed
<1>1. LibrariesInv => SumsOfAllFed  BY SumFed DEF LibrariesInv
<1> QED  BY <1>1, LibrariesHold, PTL

\* encode and decode map bytes and texts one to one: what is encoded is decoded again, for a
\* result decode accepts one text only, and it never runs out of room.
THEOREM TextsStayOneToOne == LibrariesSpec => []TextsOneToOne
<1>1. LibrariesInv => TextsOneToOne  BY OneToOne DEF LibrariesInv
<1> QED  BY <1>1, LibrariesHold, PTL

\* What was encrypted with one half of a key the other half turns back into the message, a
\* part of the encryption gives that part of the message or nothing, no encryption exceeds
\* the buffer, and AES decrypts whatever the object was used for before.
THEOREM DecryptionFits == LibrariesSpec => []Decrypts
<1>1. LibrariesInv => Decrypts  BY CryptoReads DEF LibrariesInv
<1> QED  BY <1>1, LibrariesHold, PTL

\* What setX of a ZeroMQ socket was given getX returns, whatever else was set since, and it
\* gives another socket the same option, unless the code cannot read the option back.
THEOREM OptionsStayReadable == LibrariesSpec => []OptionsKept
<1>1. LibrariesInv => OptionsKept  BY OptionsRead DEF LibrariesInv
<1> QED  BY <1>1, LibrariesHold, PTL

\* The frames that a script gets from a socket are those sent, in order.
THEOREM FramesStayInOrder == LibrariesSpec => []FramesInOrder
<1>1. LibrariesInv => FramesInOrder  BY DEF LibrariesInv, SocketInv
<1> QED  BY <1>1, LibrariesHold, PTL

\* A timer runs the function it was given, however references to functions are reused.
THEOREM TimersRunTheirOwn == LibrariesSpec => []RunsItsOwn
<1>1. LibrariesInv => RunsItsOwn  BY DEF LibrariesInv, TimerInv
<1> QED  BY <1>1, LibrariesHold, PTL

\* Locks by absolute paths are one node's, and a permission string is that of the file
\* asked about unless two threads are in perm2string at a time.
THEOREM NodesShareFiles == LibrariesSpec => []SharedStateKept
<1>1. LibrariesInv => SharedStateKept
  BY DEF LibrariesInv, FilesInv, LocksInv, PermsInv, SharedStateKept
<1> QED  BY <1>1, LibrariesHold, PTL

\* A stream of libz is ended once, a socket closed once, a directory closed once.
THEOREM LibrariesRelease == LibrariesSpec => ReleasedOnce
<1>1. LibrariesInv => ClosedOnce /\ DirClosedOnce
  BY DEF LibrariesInv, SocketInv, FilesInv, DirsInv
<1>2. LibrariesInv /\ LibrariesInv' /\ [LibrariesNext]_allVars
         => [/\ meta # meta' => zstate # "ended"
             /\ ~meta' <=> zstate' = "ended"]_filterVars
  BY OneLibrarySteps, EndedByStep DEF LibrariesInv
<1> QED  BY <1>1, <1>2, LibrariesHold, PTL DEF LibrariesSpec, ReleasedOnce, EndedOnce
=============================================================================
