--------------------------- MODULE NetServer_proofs ---------------------------
(***************************************************************************)
(* Proofs about NetServer, for any number of sessions and connections and  *)
(* serial numbers of any width: the serial numbers of live sessions are    *)
(* distinct, also after they have wrapped around, and whatever the script  *)
(* does in a callback, on_session_read and the heart-beat go on with       *)
(* sessions that are still in the table.                                   *)
(***************************************************************************)
EXTENDS NetServer, SequenceLemmas, TLAPS

\* The session a is in the table, and b behind it.
Before(table, a, b) == \E i, j \in DOMAIN table : i < j /\ table[i] = a /\ table[j] = b

\* A callback that announces an end is about a live session, and the heart-beat
\* goes on with one that is behind it.
EventInv ==
    /\ event.kind \in {"none", "limit", "data", "error", "timeout"}
    /\ event.kind \in Ends => event.session \in Live
    /\ event.next # Nobody => /\ event.kind = "timeout"
                              /\ Before(map, event.session, event.next)

\* The sessions in the table and those being closed are all there are.
TableInv ==
    /\ IsInjective(map)
    /\ Live \cup closing = allocated
    /\ Live \cap closing = {}
    /\ reading \subseteq Live

\* A server that has been stopped has no sessions.
StopInv == phase \in {"stopped", "destroyed"} => map = <<>>

\* The inductive invariant.
ServerInv == TypeOK /\ TableInv /\ SerialsUnique /\ EventInv /\ StopInv

-----------------------------------------------------------------------------
\* Deleting a live session from the table deletes nothing else.
LEMMA HashDelOf ==
    ASSUME TypeOK, IsInjective(map), NEW s \in Live
    PROVE  /\ Position(s) \in 1 .. Len(map) /\ map[Position(s)] = s
           /\ HashDel(s) \in Seq(Sessions)
           /\ IsInjective(HashDel(s))
           /\ ToSet(HashDel(s)) = Live \ {s}
<1>1. map \in Seq(Sessions) /\ DOMAIN map = 1 .. Len(map)  BY DEF TypeOK
<1>2. \E i \in DOMAIN map : map[i] = s  BY DEF Live, ToSet
<1>3. Position(s) \in 1 .. Len(map) /\ map[Position(s)] = s  BY <1>1, <1>2 DEF Position
<1> QED  BY <1>1, <1>3, RemoveAtDef, RemoveAtSet DEF HashDel, Live

\* Nor does it change the order of the others.
LEMMA HashDelOrder ==
    ASSUME TypeOK, IsInjective(map), NEW s \in Live, NEW a, NEW b,
           Before(map, a, b), a # s, b # s, map' = HashDel(s)
    PROVE  Before(map', a, b)
<1>1. map \in Seq(Sessions) /\ DOMAIN map = 1 .. Len(map)  BY DEF TypeOK
<1> DEFINE p == Position(s)
<1>2. p \in 1 .. Len(map) /\ map[p] = s /\ map' = RemoveAt(map, p) /\ map' \in Seq(Sessions)
  BY HashDelOf DEF HashDel
<1> HIDE DEF p
<1>3. PICK j, k \in 1 .. Len(map) : j < k /\ map[j] = a /\ map[k] = b
  BY <1>1 DEF Before
<1>4. j # p /\ k # p  BY <1>2, <1>3
<1>5. PICK l, m \in 1 .. Len(RemoveAt(map, p)) :
        l < m /\ RemoveAt(map, p)[l] = map[j] /\ RemoveAt(map, p)[m] = map[k]
  <2>1. j < k  BY <1>3
  <2> QED  BY ONLY <1>1, <1>2, <1>4, <2>1, RemoveAtOrder
<1>6. l \in DOMAIN map' /\ m \in DOMAIN map' /\ map'[l] = a /\ map'[m] = b
  BY <1>2, <1>3, <1>5
<1> QED  BY <1>5, <1>6, Zenon DEF Before

\* The walk ends, or stops at a session of the list it walks.
LEMMA WalkOf ==
    ASSUME NEW ss \in Seq(Sessions)
    PROVE  \/ Walk(ss) = Quiet
           \/ \E i \in 1 .. Len(ss) :
                 Walk(ss) = Event("timeout", ss[i], IF i < Len(ss) THEN ss[i + 1] ELSE Nobody)
<1> DEFINE late == {i \in DOMAIN ss : Expired(ss[i])}
<1>1. CASE late = {}  BY <1>1 DEF Walk
<1>2. CASE late # {}
  <2>1. late \subseteq 1 .. Len(ss) /\ late \in SUBSET Nat  OBVIOUS
  <2> HIDE DEF late
  <2>2. Min(late) \in late  BY <1>2, <2>1, MinIsLeast
  <2>3. Walk(ss) = Event("timeout", ss[Min(late)],
                         IF Min(late) < Len(ss) THEN ss[Min(late) + 1] ELSE Nobody)
    BY <1>2 DEF Walk, late
  <2> QED  BY <2>1, <2>2, <2>3
<1> QED  BY <1>1, <1>2

-----------------------------------------------------------------------------
\* Serial numbers are counted around the circle.
LEMMA Around ==
    ASSUME NEW from \in 0 .. SerialMod - 1, NEW n \in 0 .. SerialMod - 1
    PROVE  \E k \in 0 .. SerialMod - 1 : (from + k) % SerialMod = n
<1>0. SerialMod \in Nat /\ SerialMod > 0  BY ServerAssumption
<1>1. CASE n >= from
  <2>1. n - from \in 0 .. SerialMod - 1 /\ from + (n - from) = n  BY <1>0, <1>1
  <2>2. n % SerialMod = n  BY <1>0
  <2> QED  BY <2>1, <2>2
<1>2. CASE n < from
  <2>1. /\ n - from + SerialMod \in 0 .. SerialMod - 1
        /\ from + (n - from + SerialMod) = n + SerialMod
    BY <1>0, <1>2
  <2>2. (n + SerialMod) % SerialMod = n  BY <1>0
  <2> QED  BY <2>1, <2>2
<1> QED  BY <1>1, <1>2

\* As long as the table is not full there is a free serial number, and
\* set_session_serial finds one.
LEMMA FirstFreeIsFree ==
    ASSUME TypeOK, Len(map) <= MaxConn
    PROVE  /\ FirstFree(next) \in 0 .. SerialMod - 1
           /\ FirstFree(next) \notin Used \cup {0}
<1> DEFINE Available(k) == (next + k) % SerialMod \notin Used \cup {0}
           free == {k \in 0 .. SerialMod - 1 : Available(k)}
<1>0. /\ SerialMod \in Nat /\ MaxConn \in Nat /\ SerialMod > MaxConn + 1
      /\ map \in Seq(Sessions) /\ next \in 0 .. SerialMod - 1
  BY ServerAssumption DEF TypeOK
<1>1. /\ IsFiniteSet(Used \cup {0})
      /\ Cardinality(Used \cup {0}) \in Nat /\ Cardinality(Used \cup {0}) <= MaxConn + 1
  <2>1. IsFiniteSet(Live) /\ Cardinality(Live) <= Len(map) /\ Cardinality(Live) \in Nat
    BY <1>0, ElementsOfSequence, FS_CardinalityType DEF Live
  <2>2. IsFiniteSet(Used) /\ Cardinality(Used) <= Cardinality(Live) /\ Cardinality(Used) \in Nat
    BY <2>1, ImageNotLarger, FS_CardinalityType DEF Used
  <2>3. /\ IsFiniteSet(Used \cup {0})
        /\ \/ Cardinality(Used \cup {0}) = Cardinality(Used)
           \/ Cardinality(Used \cup {0}) = Cardinality(Used) + 1
    BY <2>2, FS_AddElement
  <2> QED  BY <1>0, <2>1, <2>2, <2>3
<1>2. free # {}
  <2>1. SUFFICES ASSUME free = {} PROVE FALSE  OBVIOUS
  <2>2. \A n \in 0 .. SerialMod - 1 : n \in Used \cup {0}
    <3> TAKE n \in 0 .. SerialMod - 1
    <3>1. PICK k \in 0 .. SerialMod - 1 : (next + k) % SerialMod = n  BY <1>0, Around
    <3> QED  BY <2>1, <3>1
  <2>3. 0 .. SerialMod - 1 \subseteq Used \cup {0}  BY <2>2
  <2>4. Cardinality(0 .. SerialMod - 1) <= Cardinality(Used \cup {0})
    BY <1>1, <2>3, FS_Subset
  <2>5. Cardinality(0 .. SerialMod - 1) = SerialMod  BY <1>0, FS_Interval
  <2> QED  BY <1>0, <1>1, <2>4, <2>5
<1>3. free \in SUBSET Nat  OBVIOUS
<1>4. FirstFree(next) = (next + Min(free)) % SerialMod  BY DEF FirstFree
<1> HIDE DEF free
<1>5. Min(free) \in free  BY <1>2, <1>3, MinIsLeast
<1>6. Min(free) \in 0 .. SerialMod - 1 /\ Available(Min(free))  BY <1>5 DEF free
<1> HIDE DEF Available
<1>7. (next + Min(free)) % SerialMod \in 0 .. SerialMod - 1  BY <1>0, <1>6
<1> QED  BY <1>4, <1>6, <1>7 DEF Available

-----------------------------------------------------------------------------
LEMMA InitServer == Init => ServerInv
<1> SUFFICES ASSUME Init PROVE ServerInv  OBVIOUS
<1> USE ServerAssumption DEF Init
<1>1. Live = {} /\ event.kind = "none" /\ event.session = Nobody /\ event.next = Nobody
  BY DEF Live, ToSet, Quiet, Event
<1>2. TypeOK
  <2>1. map \in Seq(Sessions)  OBVIOUS
  <2>2. waiting \in 0 .. MaxWaiting  OBVIOUS
  <2>3. idle \in [Sessions -> 0 .. MaxBeat + 1]  OBVIOUS
  <2>4. pending \in [Sessions -> 0 .. MaxPending]  OBVIOUS
  <2>5. serial \in [Sessions -> 0 .. SerialMod - 1]  OBVIOUS
  <2> QED  BY <1>1, <2>1, <2>2, <2>3, <2>4, <2>5 DEF TypeOK
<1>3. TableInv  BY <1>1 DEF TableInv, IsInjective
<1>4. SerialsUnique  BY <1>1 DEF SerialsUnique
<1>5. EventInv /\ StopInv  BY <1>1 DEF EventInv, StopInv, Ends
<1> QED  BY <1>2, <1>3, <1>4, <1>5 DEF ServerInv

\* Whoever the callback was about, what it goes on with has the type of an event.
LEMMA WalkSession ==
    ASSUME NEW ss \in Seq(Sessions)
    PROVE  Walk(ss).session \in Sessions \cup {Nobody}
<1>1. CASE Walk(ss) = Quiet  BY <1>1 DEF Quiet, Event
<1>2. CASE \E i \in 1 .. Len(ss) :
             Walk(ss) = Event("timeout", ss[i], IF i < Len(ss) THEN ss[i + 1] ELSE Nobody)
  BY <1>2 DEF Event
<1> QED  BY <1>1, <1>2, WalkOf

LEMMA FromIsSequence ==
    ASSUME TypeOK, IsInjective(map), NEW s
    PROVE  /\ From(s) \in Seq(Sessions)
           /\ s \in Live => \A i \in 1 .. Len(From(s)) :
                 /\ Position(s) + i - 1 \in 1 .. Len(map)
                 /\ From(s)[i] = map[Position(s) + i - 1]
<1>1. CASE s \in Live
  <2>1. map \in Seq(Sessions) /\ Position(s) \in 1 .. Len(map)  BY <1>1, HashDelOf DEF TypeOK
  <2>2. /\ From(s) \in Seq(Sessions)
        /\ Len(From(s)) = Len(map) - Position(s) + 1
        /\ \A i \in 1 .. Len(map) - Position(s) + 1 : From(s)[i] = map[Position(s) + i - 1]
    BY <1>1, <2>1, SubSeqProperties DEF From
  <2> QED  BY <2>1, <2>2
<1>2. CASE s \notin Live
  BY <1>2 DEF From
<1> QED  BY <1>1, <1>2

\* Types: serial numbers stay within their width.
LEMMA TypeStep == ServerInv /\ [Next]_vars => TypeOK'
<1> SUFFICES ASSUME ServerInv, [Next]_vars PROVE TypeOK'  OBVIOUS
<1>0. TypeOK /\ IsInjective(map)  BY DEF ServerInv, TableInv
<1>a. Live \subseteq Sessions  BY <1>0 DEF TypeOK, Live, ToSet
<1>b. <<>> \in Seq(Sessions)  OBVIOUS
<1>c. \A n \in 0 .. SerialMod - 1 : After(n) \in 0 .. SerialMod - 1
  BY ServerAssumption DEF After
<1> USE <1>0, <1>a, <1>b, ServerAssumption DEF TypeOK
<1>1. CASE Start  BY <1>1 DEF Start, objects
<1>2. CASE Stop
  <2>1. map' \in Seq(Sessions)  BY <1>2 DEF Stop
  <2>2. reading' \in SUBSET Sessions /\ closing' \in SUBSET Sessions
    BY <1>2 DEF Stop, Destroy
  <2>3. waiting' \in 0 .. MaxWaiting  BY <1>2 DEF Stop
  <2> QED  BY <1>2, <2>1, <2>2, <2>3 DEF Stop
<1>3. CASE Collect
  <2>1. map' \in Seq(Sessions)  BY <1>3 DEF Collect
  <2>2. reading' \in SUBSET Sessions /\ closing' \in SUBSET Sessions
    BY <1>3 DEF Collect, Destroy
  <2>3. waiting' \in 0 .. MaxWaiting  BY <1>3 DEF Collect
  <2> QED  BY <1>3, <2>1, <2>2, <2>3 DEF Collect
<1>4. CASE Arrive  BY <1>4, SMTT(40) DEF Arrive, objects
<1>5. CASE Reject  BY <1>5 DEF Reject, CanAccept, objects, Event
<1>6. CASE HeartBeat
  <2>1. event'.session \in Sessions \cup {Nobody}  BY <1>6, WalkSession DEF HeartBeat
  <2> QED  BY <1>6, <2>1 DEF HeartBeat, objects
<1>7. CASE Return
  <2>1. event'.session \in Sessions \cup {Nobody}
    BY <1>7, FromIsSequence, WalkSession DEF Return
  <2>2. CASE event.kind \in Ends
    <3>1. event.session \in Live  BY <2>2 DEF ServerInv, EventInv
    <3>2. map' \in Seq(Sessions)  BY <1>7, <2>2, <3>1, HashDelOf, ZenonT(40) DEF Return
    <3>3. reading' \in SUBSET Sessions /\ closing' \in SUBSET Sessions
      BY <1>7, <2>2, <3>1 DEF Return, Destroy
    <3> QED  BY <1>7, <2>1, <3>2, <3>3 DEF Return
  <2>3. CASE event.kind \notin Ends  BY <1>7, <2>1, <2>3 DEF Return
  <2> QED  BY <2>2, <2>3
<1>8. CASE Tick
  <2>0. ASSUME NEW s \in Sessions
        PROVE  (IF s \in Live /\ ~Expired(s) THEN idle[s] + 1 ELSE idle[s]) \in 0 .. MaxBeat + 1
    <3>1. idle[s] \in 0 .. MaxBeat + 1  OBVIOUS
    <3>2. ~Expired(s) => idle[s] + 1 \in 0 .. MaxBeat + 1  BY <3>1 DEF Expired
    <3> QED  BY <3>1, <3>2
  <2>1. idle' \in [Sessions -> 0 .. MaxBeat + 1]
    <3> HIDE <1>0, ServerAssumption DEF TypeOK
    <3> QED  BY <1>8, <2>0 DEF Tick
  <2> QED  BY <1>8, <2>1 DEF Tick
<1>9. CASE Broadcast
  <2>1. ASSUME NEW s \in Live PROVE pending[s] + 1 \in 0 .. MaxPending
    <3>1. pending[s] < MaxPending /\ s \in Sessions  BY <1>9 DEF Broadcast
    <3>2. pending[s] \in 0 .. MaxPending  BY <3>1
    <3> QED  BY <3>1, <3>2, SMTT(40)
  <2>2. pending' \in [Sessions -> 0 .. MaxPending]  BY <1>9, <2>1 DEF Broadcast
  <2>3. UNCHANGED <<phase, waiting, held, map, allocated, reading, closing, serial, next, idle,
                    event>>
    BY <1>9 DEF Broadcast
  <2> QED  BY <2>2, <2>3
<1>10. ASSUME NEW s \in Sessions, Admit(s) PROVE TypeOK'
  <2>1. Len(map) <= MaxConn  BY <1>10, LenProperties DEF Admit, Full
  <2>2. FirstFree(next) \in 0 .. SerialMod - 1  BY <2>1, FirstFreeIsFree
  <2>3. After(FirstFree(next)) \in 0 .. SerialMod - 1  BY <2>2, <1>c
  <2>4. map' \in Seq(Sessions)  BY <1>10 DEF Admit
  <2>5. waiting' \in 0 .. MaxWaiting  BY <1>10 DEF Admit, CanAccept
  <2>6. serial' \in [Sessions -> 0 .. SerialMod - 1]  BY <1>10, <2>2 DEF Admit
  <2>7. idle' \in [Sessions -> 0 .. MaxBeat + 1]  BY <1>10 DEF Admit
  <2>8. next' \in 0 .. SerialMod - 1  BY <1>10, <2>3 DEF Admit
  <2>9. allocated' \in SUBSET Sessions /\ reading' \in SUBSET Sessions  BY <1>10 DEF Admit
  <2>10. UNCHANGED <<phase, held, closing, pending, event>>  BY <1>10 DEF Admit
  <2> QED  BY <2>4, <2>5, <2>6, <2>7, <2>8, <2>9, <2>10
<1>11. ASSUME NEW s \in Sessions, AdmitFails(s) PROVE TypeOK'
  BY <1>11 DEF AdmitFails, CanAccept, Destroy
<1>12. ASSUME NEW s \in Sessions, Read(s) \/ ReadFails(s) PROVE TypeOK'
  <2>1. CASE Read(s)
    <3>1. event'.session \in Sessions \cup {Nobody}  BY <2>1 DEF Read, Event, Quiet
    <3>2. idle' \in [Sessions -> 0 .. MaxBeat + 1]  BY <2>1 DEF Read
    <3>3. UNCHANGED <<phase, waiting, held, map, allocated, reading, closing, serial, next,
                      pending>>
      BY <2>1 DEF Read
    <3> QED  BY <3>1, <3>2, <3>3
  <2>2. CASE ReadFails(s)  BY <2>2 DEF ReadFails, Event, objects
  <2> QED  BY <1>12, <2>1, <2>2
<1>13. ASSUME NEW s \in Sessions, Kick(s) PROVE TypeOK'
  <2>1. s \in Live /\ map' = HashDel(s)  BY <1>13 DEF Kick
  <2>2. map' \in Seq(Sessions)  BY <2>1, HashDelOf
  <2> QED  BY <1>13, <2>2 DEF Kick, Destroy
<1>14. ASSUME NEW s \in Sessions, Shutdown(s) PROVE TypeOK'
  BY <1>14, SMTT(40) DEF Shutdown
<1>15. ASSUME NEW s \in Sessions, Write(s) PROVE TypeOK'
  BY <1>15, SMTT(40) DEF Write
<1>16. ASSUME NEW s \in Sessions, RequestDone(s) PROVE TypeOK'
  BY <1>16, SMTT(40) DEF RequestDone
<1>17. ASSUME NEW s \in Sessions, Free(s) PROVE TypeOK'
  BY <1>17 DEF Free
<1>18. CASE UNCHANGED vars  BY <1>18 DEF vars, objects
<1> HIDE DEF TypeOK
<1> QED  BY <1>1, <1>2, <1>3, <1>4, <1>5, <1>6, <1>7, <1>8, <1>9, <1>10, <1>11, <1>12, <1>13,
            <1>14, <1>15, <1>16, <1>17, <1>18 DEF Next

\* No session leaks, and none is closed while it is in the table.
LEMMA TableStep == ServerInv /\ [Next]_vars => TableInv'
<1> SUFFICES ASSUME ServerInv, [Next]_vars PROVE TableInv'  OBVIOUS
<1>0. TypeOK /\ TableInv  BY DEF ServerInv
<1>a. Live \subseteq Sessions /\ map \in Seq(Sessions)  BY <1>0 DEF TypeOK, Live, ToSet
<1>b. ASSUME map' = <<>>, Destroy(Live), UNCHANGED allocated  PROVE TableInv'
  <2>1. Live' = {}  BY <1>b DEF Live, ToSet
  <2>2. IsInjective(map')  BY <1>b DEF IsInjective
  <2> QED  BY <1>0, <1>b, <2>1, <2>2 DEF TableInv, Destroy
<1>c. ASSUME NEW s \in Live, map' = HashDel(s), Destroy({s}), UNCHANGED allocated
      PROVE  TableInv'
  <2>1. Live' = Live \ {s} /\ IsInjective(map')
    BY <1>0, <1>c, HashDelOf DEF Live, TableInv
  <2> QED  BY <1>0, <1>c, <2>1 DEF TableInv, Destroy
<1>d. ASSUME UNCHANGED <<map, allocated, closing>>, reading' \subseteq reading PROVE TableInv'
  BY <1>0, <1>d DEF TableInv, Live
<1>1. CASE Start \/ Arrive \/ Reject \/ HeartBeat
  BY <1>1, <1>d DEF Start, Arrive, Reject, HeartBeat, objects
<1>2. CASE Stop \/ Collect  BY <1>2, <1>b DEF Stop, Collect
<1>3. CASE Return
  <2>1. CASE event.kind \in Ends
    <3>1. event.session \in Live  BY <2>1 DEF ServerInv, EventInv
    <3> QED  BY <1>3, <2>1, <3>1, <1>c DEF Return
  <2>2. CASE event.kind \notin Ends  BY <1>3, <2>2, <1>d DEF Return
  <2> QED  BY <2>1, <2>2
<1>4. CASE Tick \/ Broadcast  BY <1>4, <1>d DEF Tick, Broadcast
<1>5. ASSUME NEW s \in Sessions, Admit(s) PROVE TableInv'
  <2>1. s \notin allocated /\ map' = Append(map, s) /\ s \notin ToSet(map)
    BY <1>0, <1>5 DEF Admit, TableInv, Live
  <2>2. IsInjective(map') /\ ToSet(map') = ToSet(map) \cup {s}
    BY <1>0, <1>a, <2>1, AppendSet DEF TableInv
  <2>3. Live' = Live \cup {s}  BY <2>2 DEF Live
  <2> QED  BY <1>0, <1>5, <2>1, <2>2, <2>3 DEF TableInv, Admit
<1>6. ASSUME NEW s \in Sessions, AdmitFails(s) PROVE TableInv'
  <2>1. s \notin allocated /\ Live' = Live  BY <1>6 DEF AdmitFails, Live
  <2> QED  BY <1>0, <1>6, <2>1 DEF TableInv, AdmitFails, Destroy
<1>7. ASSUME NEW s \in Sessions, Read(s) \/ ReadFails(s) \/ Shutdown(s) \/ Write(s)
                                 \/ RequestDone(s)
      PROVE  TableInv'
  BY <1>7, <1>d DEF Read, ReadFails, Shutdown, Write, RequestDone, objects
<1>8. ASSUME NEW s \in Sessions, Kick(s) PROVE TableInv'
  BY <1>8, <1>c DEF Kick
<1>9. ASSUME NEW s \in Sessions, Free(s) PROVE TableInv'
  <2>1. s \notin Live /\ Live' = Live  BY <1>0, <1>9 DEF Free, TableInv, Live
  <2> QED  BY <1>0, <1>9, <2>1 DEF TableInv, Free
<1>10. CASE UNCHANGED vars  BY <1>10, <1>d DEF vars, objects
<1> QED  BY <1>1, <1>2, <1>3, <1>4, <1>5, <1>6, <1>7, <1>8, <1>9, <1>10 DEF Next

\* A live session keeps its number, and a new one gets a number that is free.
LEMMA SerialStep == ServerInv /\ [Next]_vars => SerialsUnique'
<1> SUFFICES ASSUME ServerInv, [Next]_vars PROVE SerialsUnique'  OBVIOUS
<1>0. TypeOK /\ TableInv /\ SerialsUnique  BY DEF ServerInv
<1>a. Live \subseteq Sessions  BY <1>0 DEF TypeOK, Live, ToSet
<1>b. ASSUME Live' \subseteq Live, UNCHANGED serial PROVE SerialsUnique'
  BY <1>0, <1>b DEF SerialsUnique
<1>c. UNCHANGED map => Live' = Live  BY DEF Live
<1>1. CASE Start \/ Arrive \/ Reject \/ HeartBeat
  BY <1>1, <1>b, <1>c DEF Start, Arrive, Reject, HeartBeat, objects
<1>2. CASE Stop \/ Collect
  <2>1. Live' = {} /\ UNCHANGED serial  BY <1>2 DEF Stop, Collect, Live, ToSet
  <2> QED  BY <2>1, <1>b
<1>3. CASE Return
  <2>1. CASE event.kind \in Ends
    <3>1. event.session \in Live  BY <2>1 DEF ServerInv, EventInv
    <3>2. map' = HashDel(event.session) /\ UNCHANGED serial  BY <1>3, <2>1 DEF Return
    <3>3. Live' = Live \ {event.session}
      BY <1>0, <3>1, <3>2, HashDelOf DEF Live, TableInv
    <3> QED  BY <1>b, <3>2, <3>3
  <2>2. CASE event.kind \notin Ends  BY <1>3, <2>2, <1>b, <1>c DEF Return
  <2> QED  BY <2>1, <2>2
<1>4. CASE Tick \/ Broadcast  BY <1>4, <1>b, <1>c DEF Tick, Broadcast
<1>5. ASSUME NEW s \in Sessions, Admit(s) PROVE SerialsUnique'
  <2>1. Len(map) <= MaxConn
    BY <1>0, <1>5, LenProperties, ServerAssumption DEF Admit, Full, TypeOK
  <2>2. FirstFree(next) \notin Used \cup {0}  BY <1>0, <2>1, FirstFreeIsFree
  <2>3. s \notin Live /\ s \notin ToSet(map)  BY <1>0, <1>5 DEF Admit, TableInv, Live
  <2>4. Live' = Live \cup {s}
    BY <1>0, <1>5, <2>3, AppendSet DEF Admit, TableInv, TypeOK, Live
  <2>5. /\ serial'[s] = FirstFree(next)
        /\ \A r \in Live : serial'[r] = serial[r] /\ serial[r] \in Used
    BY <1>0, <1>a, <1>5, <2>3 DEF Admit, TypeOK, Used
  <2> QED  BY <1>0, <2>2, <2>4, <2>5 DEF SerialsUnique
<1>6. ASSUME NEW s \in Sessions, AdmitFails(s) PROVE SerialsUnique'
  <2>1. s \notin Live /\ Live' = Live  BY <1>0, <1>6 DEF AdmitFails, TableInv, Live
  <2>2. \A r \in Live : serial'[r] = serial[r]
    BY <1>0, <1>a, <1>6, <2>1 DEF AdmitFails, TypeOK
  <2> QED  BY <1>0, <2>1, <2>2 DEF SerialsUnique
<1>7. ASSUME NEW s \in Sessions, Read(s) \/ ReadFails(s) \/ Shutdown(s) \/ Write(s)
                                 \/ RequestDone(s) \/ Free(s)
      PROVE  SerialsUnique'
  BY <1>7, <1>b, <1>c DEF Read, ReadFails, Shutdown, Write, RequestDone, Free, objects
<1>8. ASSUME NEW s \in Sessions, Kick(s) PROVE SerialsUnique'
  <2>1. s \in Live /\ map' = HashDel(s) /\ UNCHANGED serial  BY <1>8 DEF Kick
  <2>2. Live' = Live \ {s}  BY <1>0, <2>1, HashDelOf DEF Live, TableInv
  <2> QED  BY <1>b, <2>1, <2>2
<1>9. CASE UNCHANGED vars  BY <1>9, <1>b, <1>c DEF vars, objects
<1> QED  BY <1>1, <1>2, <1>3, <1>4, <1>5, <1>6, <1>7, <1>8, <1>9 DEF Next

\* A walk through sessions that stay in the table keeps the event's invariant.
LEMMA WalkEvent ==
    ASSUME TypeOK, NEW ss \in Seq(Sessions), event' = Walk(ss),
           \A i \in 1 .. Len(ss) : ss[i] \in Live',
           \A i \in 1 .. Len(ss) : i < Len(ss) => Before(map', ss[i], ss[i + 1])
    PROVE  EventInv'
<1>1. CASE Walk(ss) = Quiet  BY <1>1 DEF EventInv, Quiet, Event, Ends
<1>2. ASSUME NEW i \in 1 .. Len(ss),
             Walk(ss) = Event("timeout", ss[i], IF i < Len(ss) THEN ss[i + 1] ELSE Nobody)
      PROVE  EventInv'
  <2>1. /\ event'.kind = "timeout" /\ event'.session = ss[i]
        /\ event'.next = IF i < Len(ss) THEN ss[i + 1] ELSE Nobody
    BY <1>2 DEF Event
  <2>2. CASE i < Len(ss)  BY <2>1, <2>2 DEF EventInv, Before
  <2>3. CASE ~(i < Len(ss))  BY <2>1, <2>3 DEF EventInv
  <2> QED  BY <2>2, <2>3
<1> QED  BY <1>1, <1>2, WalkOf

\* Whatever the script does in a callback, the callback can go on.
LEMMA EventStep == ServerInv /\ [Next]_vars => EventInv'
<1> SUFFICES ASSUME ServerInv, [Next]_vars PROVE EventInv'  OBVIOUS
<1>0. TypeOK /\ TableInv /\ EventInv /\ IsInjective(map)  BY DEF ServerInv, TableInv
<1>a. map \in Seq(Sessions) /\ DOMAIN map = 1 .. Len(map) /\ Len(map) \in Nat
  BY <1>0 DEF TypeOK
<1>b. ASSUME UNCHANGED <<map, event>> PROVE EventInv'
  BY <1>0, <1>b DEF EventInv, Live, Before
<1>c. event.kind \notin Ends => event.next = Nobody  BY <1>0 DEF EventInv, Ends
<1>d. ASSUME event.kind \notin Ends, UNCHANGED event PROVE EventInv'
  BY <1>0, <1>c, <1>d DEF EventInv, Ends
<1>e. event = Quiet => event.kind \notin Ends  BY DEF Quiet, Event, Ends
<1>1. CASE Start \/ Arrive \/ Tick \/ Broadcast
  BY <1>1, <1>b DEF Start, Arrive, Tick, Broadcast, objects
<1>2. CASE Stop \/ Collect  BY <1>2, <1>d, <1>e DEF Stop, Collect
<1>3. CASE Reject
  <2>1. event'.kind = "limit" /\ event'.next = Nobody  BY <1>3 DEF Reject, Event
  <2> QED  BY <2>1 DEF EventInv, Ends
<1>4. CASE HeartBeat
  <2>1. event' = Walk(map) /\ UNCHANGED map  BY <1>4 DEF HeartBeat, objects
  <2>2. \A i \in 1 .. Len(map) : map[i] \in Live'  BY <1>a, <2>1 DEF Live, ToSet
  <2>3. ASSUME NEW i \in 1 .. Len(map), i < Len(map) PROVE Before(map', map[i], map[i + 1])
    <3>1. i \in DOMAIN map' /\ i + 1 \in DOMAIN map' /\ i < i + 1  BY <1>a, <2>1, <2>3
    <3> QED  BY <2>1, <3>1 DEF Before
  <2>4. \A i \in 1 .. Len(map) : i < Len(map) => Before(map', map[i], map[i + 1])  BY <2>3
  <2> QED  BY <1>0, <1>a, <2>1, <2>2, <2>4, WalkEvent
<1>5. CASE Return
  <2> DEFINE ss == From(event.next)
  <2>1. event' = Walk(ss)  BY <1>5 DEF Return
  <2>2. CASE event.next = Nobody
    <3>1. event.next \notin Live  BY <1>a, <2>2, ServerAssumption DEF Live, ToSet
    <3>2. ss = <<>>  BY <3>1 DEF From
    <3>3. Walk(<<>>) = Quiet  BY DEF Walk
    <3>4. event' = Quiet  BY <2>1, <3>2, <3>3
    <3> QED  BY <3>4 DEF EventInv, Quiet, Event, Ends
  <2>3. CASE event.next # Nobody
    <3>1. event.kind = "timeout" /\ Before(map, event.session, event.next)
      BY <1>0, <2>3 DEF EventInv
    <3>2. event.kind \in Ends /\ event.session \in Live /\ event.next \in Live
      <4>1. event.kind \in Ends  BY <3>1 DEF Ends
      <4>2. event.session \in Live /\ event.next \in Live  BY <3>1 DEF Before, Live, ToSet
      <4> QED  BY <4>1, <4>2
    <3>3. map' = HashDel(event.session)  BY <1>5, <3>2 DEF Return
    <3>4. Live' = Live \ {event.session}  BY <1>0, <3>2, <3>3, HashDelOf DEF Live
    <3> DEFINE p == Position(event.next)
    <3>5. p \in 1 .. Len(map) /\ map[p] = event.next  BY <1>0, <3>2, HashDelOf
    <3>6. PICK i, j \in 1 .. Len(map) : i < j /\ map[i] = event.session /\ map[j] = event.next
      BY <1>a, <3>1 DEF Before
    <3>7. j = p  BY <1>0, <1>a, <3>5, <3>6 DEF IsInjective
    <3>8. /\ ss \in Seq(Sessions)
          /\ \A k \in 1 .. Len(ss) : p + k - 1 \in 1 .. Len(map) /\ ss[k] = map[p + k - 1]
      BY <1>0, <3>2, FromIsSequence
    <3> HIDE DEF ss, p
    <3>9. ASSUME NEW k \in 1 .. Len(ss)
          PROVE  ss[k] \in Live /\ ss[k] # event.session /\ ss[k] \in Live'
      <4>1. p + k - 1 \in 1 .. Len(map) /\ p + k - 1 > i /\ ss[k] = map[p + k - 1]
        BY <3>5, <3>6, <3>7, <3>8
      <4>2. map[p + k - 1] \in Live /\ map[p + k - 1] # map[i]
        BY <1>0, <1>a, <3>6, <4>1 DEF Live, ToSet, IsInjective
      <4> QED  BY <3>4, <3>6, <4>1, <4>2
    <3>10. ASSUME NEW k \in 1 .. Len(ss), k < Len(ss)
           PROVE  Before(map', ss[k], ss[k + 1])
      <4>1. k + 1 \in 1 .. Len(ss) /\ p + (k + 1) - 1 = p + k  BY <3>5, <3>8, <3>10
      <4>2. ss[k] = map[p + k - 1] /\ ss[k + 1] = map[p + k]
        BY <3>8, <4>1
      <4>3. p + k - 1 \in 1 .. Len(map) /\ p + k \in 1 .. Len(map) /\ p + k - 1 < p + k
        BY <3>5, <3>8, <4>1
      <4>4. Before(map, ss[k], ss[k + 1])  BY <1>a, <4>2, <4>3 DEF Before
      <4>5. ss[k] # event.session /\ ss[k + 1] # event.session  BY <3>9, <4>1
      <4> QED  BY <1>0, <3>2, <3>3, <4>4, <4>5, HashDelOrder
    <3>11. event' = Walk(ss)  BY <2>1 DEF ss
    <3>12. \A k \in 1 .. Len(ss) : ss[k] \in Live'  BY <3>9
    <3>13. \A k \in 1 .. Len(ss) : k < Len(ss) => Before(map', ss[k], ss[k + 1])  BY <3>10
    <3> QED  BY <1>0, <3>8, <3>11, <3>12, <3>13, WalkEvent
  <2> QED  BY <2>2, <2>3
<1>6. ASSUME NEW s \in Sessions, Admit(s) \/ AdmitFails(s) PROVE EventInv'
  BY <1>6, <1>d, <1>e DEF Admit, AdmitFails, CanAccept
<1>7. ASSUME NEW s \in Sessions, Read(s) PROVE EventInv'
  <2>1. event'.kind \in {"none", "data"} /\ event'.next = Nobody
    BY <1>7 DEF Read, Quiet, Event
  <2> QED  BY <2>1 DEF EventInv, Ends
<1>8. ASSUME NEW s \in Sessions, ReadFails(s) PROVE EventInv'
  <2>1. event'.kind = "error" /\ event'.next = Nobody /\ event'.session = s
    BY <1>8 DEF ReadFails, Event
  <2>2. s \in Live'  BY <1>0, <1>8 DEF ReadFails, TableInv, objects, Live
  <2> QED  BY <2>1, <2>2 DEF EventInv
<1>9. ASSUME NEW s \in Sessions, Kick(s) PROVE EventInv'
  <2>1. s \in Live /\ map' = HashDel(s) /\ UNCHANGED event  BY <1>9 DEF Kick
  <2>2. Live' = Live \ {s}  BY <1>0, <2>1, HashDelOf DEF Live
  <2>3. CASE event.kind \notin Ends  BY <2>1, <2>3, <1>d
  <2>4. CASE event.kind \in Ends
    <3>1. s # event.session /\ s # event.next  BY <1>9, <2>4 DEF Kick
    <3>2. event.session \in Live'  BY <1>0, <2>2, <2>4, <3>1 DEF EventInv
    <3>3. event.next # Nobody => Before(map', event.session, event.next)
      BY <1>0, <2>1, <3>1, HashDelOrder DEF EventInv
    <3> QED  BY <1>0, <2>1, <3>2, <3>3 DEF EventInv, Before
  <2> QED  BY <2>3, <2>4
<1>10. ASSUME NEW s \in Sessions, Shutdown(s) \/ Write(s) \/ RequestDone(s) \/ Free(s)
       PROVE  EventInv'
  BY <1>10, <1>b DEF Shutdown, Write, RequestDone, Free
<1>11. CASE UNCHANGED vars  BY <1>11, <1>b DEF vars, objects
<1> QED  BY <1>1, <1>2, <1>3, <1>4, <1>5, <1>6, <1>7, <1>8, <1>9, <1>10, <1>11 DEF Next

\* Only a listening server admits sessions, and a server is stopped for good.
LEMMA StopStep == ServerInv /\ [Next]_vars => StopInv'
<1> SUFFICES ASSUME ServerInv, [Next]_vars PROVE StopInv'  OBVIOUS
<1>0. StopInv /\ EventInv  BY DEF ServerInv
<1>a. ASSUME UNCHANGED <<phase, map>> PROVE StopInv'  BY <1>0, <1>a DEF StopInv
<1>b. ASSUME Live # {}, UNCHANGED phase PROVE StopInv'
  BY <1>0, <1>b DEF StopInv, Live, ToSet
<1>1. CASE Start  BY <1>1 DEF Start, StopInv
<1>2. CASE Stop \/ Collect  BY <1>2 DEF Stop, Collect, StopInv
<1>3. CASE Arrive \/ Reject \/ HeartBeat \/ Tick \/ Broadcast
  BY <1>3, <1>a DEF Arrive, Reject, HeartBeat, Tick, Broadcast, objects
<1>4. CASE Return
  <2>1. CASE event.kind \in Ends
    <3>1. event.session \in Live  BY <1>0, <2>1 DEF EventInv
    <3> QED  BY <1>4, <1>b, <3>1 DEF Return
  <2>2. CASE event.kind \notin Ends  BY <1>4, <1>a, <2>2 DEF Return
  <2> QED  BY <2>1, <2>2
<1>5. ASSUME NEW s \in Sessions, Admit(s) PROVE StopInv'
  BY <1>5 DEF Admit, CanAccept, StopInv
<1>6. ASSUME NEW s \in Sessions,
             \/ AdmitFails(s) \/ Read(s) \/ ReadFails(s) \/ Shutdown(s) \/ Write(s)
             \/ RequestDone(s) \/ Free(s)
      PROVE  StopInv'
  BY <1>6, <1>a DEF AdmitFails, Read, ReadFails, Shutdown, Write, RequestDone, Free, objects
<1>7. ASSUME NEW s \in Sessions, Kick(s) PROVE StopInv'  BY <1>7, <1>b DEF Kick
<1>8. CASE UNCHANGED vars  BY <1>8, <1>a DEF vars, objects
<1> QED  BY <1>1, <1>2, <1>3, <1>4, <1>5, <1>6, <1>7, <1>8 DEF Next

-----------------------------------------------------------------------------
\* The invariant holds in every reachable state of the server.
THEOREM ServerInvariance == Spec => []ServerInv
<1>1. ServerInv /\ [Next]_vars => ServerInv'
  <2> SUFFICES ASSUME ServerInv, [Next]_vars PROVE ServerInv'  OBVIOUS
  <2> QED  BY TypeStep, TableStep, SerialStep, EventStep, StopStep DEF ServerInv
<1> QED  BY <1>1, InitServer, PTL DEF Spec

\* Every variable of qsf_net_server_t and its sessions keeps its range, the serial
\* numbers among them: they stay below SerialMod, which is 2^32 in the code.
THEOREM ServerTypeCorrect == Spec => []TypeOK
<1>1. ServerInv => TypeOK  BY DEF ServerInv
<1> QED  BY <1>1, ServerInvariance, PTL

\* For a counter of any width set_session_serial gives no number twice: no two live
\* sessions share one, and none is zero.
THEOREM NumbersAreUnique == Spec => []SerialsUnique
<1>1. ServerInv => SerialsUnique  BY DEF ServerInv
<1> QED  BY <1>1, ServerInvariance, PTL

\* A session that the table of qsf_net_server_t holds can be used, and every other
\* one is being closed.
THEOREM TableHoldsTheLiving == Spec => []SessionsUsable
<1>1. ServerInv => SessionsUsable
  <2> SUFFICES ASSUME ServerInv PROVE SessionsUsable  OBVIOUS
  <2>1. map \in Seq(Sessions) /\ IsInjective(map)  BY DEF ServerInv, TypeOK, TableInv
  <2>2. Len(map) = Cardinality(Live)  BY <2>1, ElementsOfSequence DEF Live
  <2> QED  BY <2>2 DEF ServerInv, TableInv, SessionsUsable
<1> QED  BY <1>1, ServerInvariance, PTL

\* However the script re-enters the server from a callback, on_session_read and
\* hearbeat_timer_cb go on with sessions that are still in the table.
THEOREM CallbacksCanGoOn == Spec => []ResumesOnLiveSessions
<1>1. ServerInv => ResumesOnLiveSessions
  <2> SUFFICES ASSUME ServerInv, event.kind \in Ends
               PROVE  {event.session, event.next} \subseteq Live \cup {Nobody}
    BY DEF ResumesOnLiveSessions
  <2>1. event.session \in Live  BY DEF ServerInv, EventInv
  <2>2. event.next = Nobody \/ event.next \in Live
    BY DEF ServerInv, EventInv, Before, Live, ToSet
  <2> QED  BY <2>1, <2>2
<1> QED  BY <1>1, ServerInvariance, PTL

\* Once the server is stopped or collected the loop has nothing left to do with it.
THEOREM StoppedIsQuiet == Spec => []QuietOnceStopped
<1>1. ServerInv => QuietOnceStopped
  <2> SUFFICES ASSUME ServerInv, phase \in {"stopped", "destroyed"}
               PROVE  reading = {} /\ event.kind \notin Ends
    BY DEF QuietOnceStopped
  <2>1. Live = {}  BY DEF ServerInv, StopInv, Live, ToSet
  <2> QED  BY <2>1 DEF ServerInv, TableInv, EventInv
<1> QED  BY <1>1, ServerInvariance, PTL

-----------------------------------------------------------------------------
(* The server implements the table of sessions *)

\* What the script is being told, as the table of sessions says it.
News == [kind |-> event.kind,
         serial |-> IF event.session = Nobody THEN 0 ELSE serial[event.session]]

\* There is one way of telling the script nothing.
NothingIsQuiet == event.kind = "none" => event = Quiet

\* A walk tells the script of a timeout, or nothing.
LEMMA QuietStep == NothingIsQuiet /\ [Next]_vars => NothingIsQuiet'
<1> SUFFICES ASSUME NothingIsQuiet, [Next]_vars  PROVE NothingIsQuiet'  OBVIOUS
<1> USE DEF NothingIsQuiet
<1>1. CASE UNCHANGED event  BY <1>1
<1>2. ASSUME NEW ss, event' = Walk(ss)  PROVE NothingIsQuiet'
  BY <1>2 DEF Walk, Event, Quiet
<1>3. CASE HeartBeat \/ Return  BY <1>2, <1>3 DEF HeartBeat, Return
<1>4. CASE Reject  BY <1>4 DEF Reject, Event
<1>5. ASSUME NEW s \in Sessions, Read(s) \/ ReadFails(s)  PROVE NothingIsQuiet'
  BY <1>5 DEF Read, ReadFails, Event, Quiet
<1>6. ASSUME NEW s \in Sessions,
             \/ Admit(s) \/ AdmitFails(s) \/ Kick(s) \/ Shutdown(s) \/ Write(s)
             \/ RequestDone(s) \/ Free(s)
      PROVE  NothingIsQuiet'
  BY <1>1, <1>6 DEF Admit, AdmitFails, Kick, Shutdown, Write, RequestDone, Free
<1>7. CASE Start \/ Stop \/ Collect \/ Arrive \/ Tick \/ Broadcast
  BY <1>1, <1>7 DEF Start, Stop, Collect, Arrive, Tick, Broadcast
<1>8. CASE UNCHANGED vars  BY <1>1, <1>8 DEF vars
<1> QED  BY <1>3, <1>4, <1>5, <1>6, <1>7, <1>8 DEF Next

\* There are as many serial numbers in use as sessions in the table.
LEMMA AsManyNumbers ==
    ASSUME ServerInv
    PROVE  Cardinality(Used) = Len(map)
<1>1. map \in Seq(Sessions) /\ IsInjective(map) /\ SerialsUnique
  BY DEF ServerInv, TypeOK, TableInv
<1>2. IsFiniteSet(Live) /\ Cardinality(Live) = Len(map) /\ Cardinality(Live) \in Nat
  BY <1>1, ElementsOfSequence, FS_CardinalityType DEF Live
<1>3. IsFiniteSet(Used) /\ Cardinality(Used) <= Cardinality(Live) /\ Cardinality(Used) \in Nat
  BY <1>2, ImageNotLarger, FS_CardinalityType DEF Used
<1> DEFINE holder == [n \in Used |-> CHOOSE s \in Live : serial[s] = n]
<1>4. \A s \in Live : holder[serial[s]] = s
  <2> TAKE s \in Live
  <2>1. serial[s] \in Used  BY DEF Used
  <2> QED  BY <1>1, <2>1 DEF SerialsUnique
<1>5. Live \subseteq {holder[n] : n \in Used}
  <2> HIDE DEF holder
  <2>1. \A s \in Live : serial[s] \in Used  BY DEF Used
  <2> QED  BY <1>4, <2>1
<1> HIDE DEF holder
<1>6. /\ IsFiniteSet({holder[n] : n \in Used})
      /\ Cardinality({holder[n] : n \in Used}) <= Cardinality(Used)
      /\ Cardinality({holder[n] : n \in Used}) \in Nat
  BY <1>3, ImageNotLarger, FS_CardinalityType
<1>7. Cardinality(Live) <= Cardinality({holder[n] : n \in Used})
  BY <1>5, <1>6, FS_Subset
<1> QED  BY <1>2, <1>3, <1>6, <1>7

\* The table counts as the server does.
LEMMA SameCardinality ==
    ASSUME NEW S  PROVE Table!Cardinality(S) = Cardinality(S)
BY DEF Table!Cardinality, Cardinality

(* The steps of the table, in these terms *)

\* A session is admitted.
LEMMA AsAdmit ==
    ASSUME NEW n \in 0 .. SerialMod - 1, n \notin Used \cup {0}, Cardinality(Used) < MaxConn,
           Used' = Used \cup {n}, News' = News
    PROVE  Table!Next
<1>1. Table!Admit(n)  BY SameCardinality DEF Table!Admit, News
<1> QED  BY <1>1 DEF Table!Next

\* The script is told of a live session.
LEMMA AsTell ==
    ASSUME NEW n \in 0 .. SerialMod - 1, n \in Used, NEW kind \in {"error", "timeout", "data"},
           News = [kind |-> "none", serial |-> 0],
           News' = [kind |-> kind, serial |-> n], Used' = Used
    PROVE  Table!Next
<1>1. Table!Tell(n)  BY DEF Table!Tell, Table!NoNews, Table!Ends, News
<1> QED  BY <1>1 DEF Table!Next

\* The script is told that there is no room.
LEMMA AsTellFull ==
    ASSUME Cardinality(Used) >= MaxConn, News = [kind |-> "none", serial |-> 0],
           News' = [kind |-> "limit", serial |-> 0], Used' = Used
    PROVE  Table!Next
<1>1. Table!TellFull  BY SameCardinality DEF Table!TellFull, Table!NoNews, News
<1> QED  BY <1>1 DEF Table!Next

\* The callback returns.
LEMMA AsTold ==
    ASSUME News.kind # "none",
           Used' = IF News.kind \in Ends THEN Used \ {News.serial} ELSE Used,
           \/ News' = [kind |-> "none", serial |-> 0]
           \/ /\ News.kind = "timeout"
              /\ \E n \in Used' : News' = [kind |-> "timeout", serial |-> n]
    PROVE  Table!Next
<1>1. Table!Told  BY DEF Table!Told, Table!NoNews, Table!Ends, Ends, News
<1> QED  BY <1>1 DEF Table!Next

\* The script ends one session.
LEMMA AsKick ==
    ASSUME NEW n \in 0 .. SerialMod - 1, n \in Used, News.kind \in Ends => News.serial # n,
           Used' = Used \ {n}, News' = News
    PROVE  Table!Next
<1>1. Table!Kick(n)  BY DEF Table!Kick, Table!Ends, Ends, News
<1> QED  BY <1>1 DEF Table!Next

\* The server is stopped, with all its sessions.
LEMMA AsStop ==
    ASSUME News.kind \notin Ends, Used' = {}, News' = News
    PROVE  Table!Next
<1>1. Table!Stop  BY DEF Table!Stop, Table!Ends, Ends, News
<1> QED  BY <1>1 DEF Table!Next

\* Nothing the table speaks of has changed.
LEMMA AsBefore ==
    ASSUME Used' = Used, News' = News
    PROVE  UNCHANGED Table!vars
BY DEF Table!vars, News

\* A session's number goes with the session.
LEMMA NumberGoes ==
    ASSUME ServerInv, NEW s \in Live, Live' = Live \ {s}, serial' = serial
    PROVE  Used' = Used \ {serial[s]}
BY DEF ServerInv, SerialsUnique, Used

\* Each step of the server is a step of the table, or none.
LEMMA TableOfSessionsStep ==
    ServerInv /\ ServerInv' /\ NothingIsQuiet /\ [Next]_vars => [Table!Next]_(Table!vars)
<1> SUFFICES ASSUME ServerInv, ServerInv', NothingIsQuiet, [Next]_vars
             PROVE  [Table!Next]_(Table!vars)
  OBVIOUS
<1>0. TypeOK /\ TableInv /\ EventInv /\ IsInjective(map)  BY DEF ServerInv, TableInv
<1>1. /\ Live \subseteq Sessions /\ map \in Seq(Sessions) /\ Len(map) \in Nat
      /\ \A s \in Live : serial[s] \in 0 .. SerialMod - 1 /\ serial[s] \in Used
  BY <1>0, SMTT(40) DEF TypeOK, Live, ToSet, Used
<1>2. UNCHANGED <<map, serial>> => Used' = Used  BY DEF Used, Live
<1>3. UNCHANGED <<event, serial>> => News' = News  BY DEF News
<1>4. ASSUME event = Quiet  PROVE News = [kind |-> "none", serial |-> 0]
  BY <1>4 DEF News, Quiet, Event
<1>5. ASSUME event' = Quiet  PROVE News' = [kind |-> "none", serial |-> 0]
  BY <1>5 DEF News, Quiet, Event
<1>6. ASSUME NEW kind, NEW s \in Live, NEW t, event' = Event(kind, s, t), UNCHANGED <<map, serial>>
      PROVE  News' = [kind |-> kind, serial |-> serial[s]]
  <2>1. s # Nobody  BY <1>1, ServerAssumption
  <2> QED  BY <1>6, <2>1 DEF News, Event
<1>7. CASE Start \/ Arrive \/ Tick \/ Broadcast
  BY <1>2, <1>3, <1>7, AsBefore DEF Start, Arrive, Tick, Broadcast, objects
<1>8. CASE Stop \/ Collect
  <2>1. Live' = {} /\ UNCHANGED <<event, serial>>  BY <1>8 DEF Stop, Collect, Live, ToSet
  <2>2. Used' = {} /\ News' = News  BY <1>3, <2>1 DEF Used
  <2>3. event.kind \notin Ends  BY <1>8 DEF Stop, Collect, Quiet, Event, Ends
  <2>4. News.kind \notin Ends  BY <2>3 DEF News
  <2> QED  BY <2>2, <2>4, AsStop
<1>9. CASE Reject
  <2>1. /\ event = Quiet /\ event' = Event("limit", Nobody, Nobody)
        /\ UNCHANGED <<map, serial>> /\ Len(map) >= MaxConn
    BY <1>9 DEF Reject, CanAccept, Full, objects
  <2>2. News' = [kind |-> "limit", serial |-> 0]  BY <2>1 DEF News, Event
  <2>3. Cardinality(Used) >= MaxConn  BY <2>1, AsManyNumbers
  <2> QED  BY <1>2, <1>4, <2>1, <2>2, <2>3, AsTellFull
<1>10. ASSUME NEW s \in Sessions, Admit(s)  PROVE Table!Next
  <2> DEFINE n == FirstFree(next)
  <2>1. /\ event = Quiet /\ event' = event /\ s \notin allocated /\ map' = Append(map, s)
        /\ serial' = [serial EXCEPT ![s] = n] /\ ~(Len(map) >= MaxConn)
    BY <1>10 DEF Admit, CanAccept, Full
  <2>2. Len(map) < MaxConn  BY <1>1, <2>1, ServerAssumption
  <2>3. n \in 0 .. SerialMod - 1 /\ n \notin Used \cup {0}
    BY <1>0, <1>1, <2>2, FirstFreeIsFree, ServerAssumption
  <2> HIDE DEF n
  <2>4. s \notin Live /\ Live' = Live \cup {s}
    <3>1. s \notin ToSet(map)  BY <1>0, <2>1 DEF TableInv, Live
    <3> QED  BY <1>0, <1>1, <2>1, <3>1, AppendSet DEF Live
  <2>5. serial'[s] = n /\ \A r \in Live : serial'[r] = serial[r]
    BY <1>0, <1>1, <2>1, <2>4 DEF TypeOK
  <2>6. Used' = Used \cup {n}  BY <2>4, <2>5 DEF Used
  <2>7. News' = News  BY <1>4, <1>5, <2>1
  <2>8. Cardinality(Used) < MaxConn  BY <2>2, AsManyNumbers
  <2> QED  BY <2>3, <2>6, <2>7, <2>8, AsAdmit
<1>11. ASSUME NEW s \in Sessions, AdmitFails(s)  PROVE UNCHANGED Table!vars
  <2>1. /\ event = Quiet /\ event' = event /\ s \notin allocated /\ map' = map
        /\ serial' = [serial EXCEPT ![s] = 0]
    BY <1>11 DEF AdmitFails, CanAccept
  <2>2. s \notin Live /\ Live' = Live  BY <1>0, <2>1 DEF TableInv, Live
  <2>3. \A r \in Live : serial'[r] = serial[r]  BY <1>0, <1>1, <2>1, <2>2 DEF TypeOK
  <2>4. Used' = Used  BY <2>2, <2>3 DEF Used
  <2>5. News' = News  BY <1>4, <1>5, <2>1
  <2> QED  BY <2>4, <2>5, AsBefore
<1>12. ASSUME NEW s \in Sessions, Read(s) \/ ReadFails(s)  PROVE [Table!Next]_(Table!vars)
  <2>1. event = Quiet /\ s \in Live /\ UNCHANGED <<map, serial>>
    BY <1>0, <1>12 DEF Read, ReadFails, TableInv, objects
  <2>2. CASE event' = Quiet  BY <1>2, <1>4, <1>5, <2>1, <2>2, AsBefore
  <2>3. ASSUME NEW kind \in {"data", "error"}, event' = Event(kind, s, Nobody)
        PROVE  Table!Next
    BY <1>1, <1>2, <1>4, <1>6, <2>1, <2>3, AsTell
  <2>4. \/ event' = Quiet
        \/ \E kind \in {"data", "error"} : event' = Event(kind, s, Nobody)
    BY <1>12 DEF Read, ReadFails
  <2> QED  BY <2>2, <2>3, <2>4
<1>13. CASE HeartBeat
  <2>1. event = Quiet /\ event' = Walk(map) /\ UNCHANGED <<map, serial>>
    BY <1>13 DEF HeartBeat, objects
  <2>2. CASE event' = Quiet  BY <1>2, <1>4, <1>5, <2>1, <2>2, AsBefore
  <2>3. ASSUME NEW s \in Live, NEW t, event' = Event("timeout", s, t)  PROVE Table!Next
    BY <1>1, <1>2, <1>4, <1>6, <2>1, <2>3, AsTell
  <2>4. event' = Quiet \/ \E s \in Live, t \in Sessions \cup {Nobody} : event' = Event("timeout", s, t)
    <3>1. \A i \in 1 .. Len(map) : map[i] \in Live /\ map[i] \in Sessions
      BY <1>1 DEF Live, ToSet
    <3>2. \A i \in 1 .. Len(map) : i < Len(map) => i + 1 \in 1 .. Len(map)  BY <1>1
    <3> QED  BY <1>1, <2>1, <3>1, <3>2, WalkOf
  <2> QED  BY <2>2, <2>3, <2>4
<1>14. CASE Return
  <2>1. event # Quiet /\ event' = Walk(From(event.next)) /\ serial' = serial
    BY <1>14 DEF Return
  <2>2. event.kind # "none" /\ News.kind = event.kind  BY <2>1 DEF NothingIsQuiet, News
  <2>3. Used' = IF News.kind \in Ends THEN Used \ {News.serial} ELSE Used
    <3>1. CASE event.kind \in Ends
      <4>1. event.session \in Live /\ event.session # Nobody
        BY <1>0, <1>1, <3>1, ServerAssumption DEF EventInv
      <4>2. map' = HashDel(event.session)  BY <1>14, <3>1 DEF Return
      <4>3. Live' = Live \ {event.session}  BY <1>0, <4>1, <4>2, HashDelOf DEF Live
      <4>4. Used' = Used \ {serial[event.session]}  BY <2>1, <4>1, <4>3, NumberGoes
      <4> QED  BY <2>2, <3>1, <4>1, <4>4 DEF News
    <3>2. CASE event.kind \notin Ends
      <4>1. map' = map  BY <1>14, <3>2 DEF Return
      <4> QED  BY <1>2, <2>1, <2>2, <3>2, <4>1
    <3> QED  BY <3>1, <3>2
  <2>4. CASE event' = Quiet  BY <1>5, <2>2, <2>3, <2>4, AsTold
  <2>5. CASE event' # Quiet
    <3>1. event.next \in Live
      <4>1. SUFFICES ASSUME event.next \notin Live PROVE FALSE  OBVIOUS
      <4>2. From(event.next) = <<>>  BY <4>1 DEF From
      <4>3. Walk(<<>>) = Quiet  BY DEF Walk
      <4> QED  BY <2>1, <2>5, <4>2, <4>3
    <3>2. event.kind = "timeout"  BY <1>0, <1>1, <3>1, ServerAssumption DEF EventInv
    <3>3. event'.kind = "timeout"
      BY <1>0, <2>1, <2>5, FromIsSequence, WalkOf DEF Event
    <3>4. event'.session \in Live'  BY <3>3 DEF ServerInv, EventInv, Ends
    <3>5. event'.session # Nobody
      <4>1. TypeOK'  BY DEF ServerInv
      <4>2. Live' \subseteq Sessions  BY <4>1 DEF TypeOK, Live, ToSet
      <4> QED  BY <3>4, <4>2, ServerAssumption
    <3>6. serial'[event'.session] \in Used'  BY <3>4 DEF Used
    <3>7. News' = [kind |-> "timeout", serial |-> serial'[event'.session]]
      BY <3>3, <3>5 DEF News
    <3> QED  BY <2>2, <2>3, <3>2, <3>6, <3>7, AsTold
  <2> QED  BY <2>4, <2>5
<1>15. ASSUME NEW s \in Sessions, Kick(s)  PROVE Table!Next
  <2>1. /\ s \in Live /\ map' = HashDel(s) /\ UNCHANGED <<serial, event>>
        /\ event.kind \in Ends => s # event.session
    BY <1>15 DEF Kick
  <2>2. Live' = Live \ {s}  BY <1>0, <2>1, HashDelOf DEF Live
  <2>3. Used' = Used \ {serial[s]}  BY <2>1, <2>2, NumberGoes
  <2>4. News.kind \in Ends => News.serial # serial[s]
    <3> SUFFICES ASSUME event.kind \in Ends PROVE News.serial # serial[s]  BY DEF News
    <3>1. event.session \in Live /\ event.session # Nobody
      BY <1>0, <1>1, ServerAssumption DEF EventInv
    <3>2. News.serial = serial[event.session]  BY <3>1 DEF News
    <3> QED  BY <2>1, <3>1, <3>2 DEF ServerInv, SerialsUnique
  <2> QED  BY <1>1, <1>3, <2>1, <2>3, <2>4, AsKick
<1>16. ASSUME NEW s \in Sessions, Shutdown(s) \/ Write(s) \/ RequestDone(s) \/ Free(s)
       PROVE  UNCHANGED Table!vars
  BY <1>2, <1>3, <1>16, AsBefore DEF Shutdown, Write, RequestDone, Free
<1>17. CASE UNCHANGED vars  BY <1>2, <1>3, <1>17, AsBefore DEF vars, objects
<1> QED  BY <1>7, <1>8, <1>9, <1>10, <1>11, <1>12, <1>13, <1>14, <1>15, <1>16, <1>17 DEF Next

\* However clients, the timer and the script's own calls out of callbacks interleave,
\* the script sees the table of sessions it is promised: no more sessions than the
\* limit, each under a number of its own, and no news but of live ones.
THEOREM ImplementsTheSessionTable == Spec => ImplementsSessionTable
<1>1. Init => NothingIsQuiet  BY DEF Init, NothingIsQuiet
<1>2. Spec => []NothingIsQuiet  BY <1>1, QuietStep, PTL DEF Spec
<1>3. Init => Table!Init
  <2> SUFFICES ASSUME Init  PROVE Table!Init  OBVIOUS
  <2>1. Used = {}  BY DEF Init, Used, Live, ToSet
  <2>2. News = [kind |-> "none", serial |-> 0]  BY DEF Init, News, Quiet, Event
  <2> QED  BY <2>1, <2>2 DEF Table!Init, Table!NoNews, News
<1> QED  BY <1>2, <1>3, ServerInvariance, TableOfSessionsStep, PTL
         DEF Spec, ImplementsSessionTable, Table!Spec
=============================================================================
