------------------------- MODULE ResultCursor_proofs -------------------------
(***************************************************************************)
(* Proofs about ResultCursor, for any cursors, rows and results: whatever  *)
(* the script forgets first, a result does not outlive the memory of its   *)
(* connection, and the wire belongs to a cursor that can give it back.     *)
(***************************************************************************)
EXTENDS ResultCursor, SequenceLemmas, TLAPS

\* A cursor refers to its connection exactly as long as it has a result.
RefsMatch == refs = result

\* A cursor that does not exist has no result.
FreeIsEmpty == \A c \in Cursors : kind[c] = "free" => c \notin result

\* Only what the script has forgotten is collected.
MemoryKept == None \notin dropped => memory

\* The inductive invariant.
CursorInv == /\ TypeOK /\ RefsMatch /\ FreeIsEmpty /\ MemoryKept
             /\ ConnectionOutlivesResults /\ WireOwned

\* What a query may return is a sequence of rows.
LEMMA ResultsAreRows == Results \subseteq Seq(Rows)
<1>1. \A n \in Nat : [1 .. n -> Rows] \subseteq Seq(Rows)  BY FunctionsAreSequences
<1> QED  BY <1>1, CursorAssumption DEF Results, BoundedSeq, SeqOf

\* A new connection has nothing to keep in order.
LEMMA InitCursor == Init => CursorInv
<1> SUFFICES ASSUME Init PROVE CursorInv  OBVIOUS
<1> USE DEF Init
<1>1. TypeOK
  <2>1. told.rows = <<>>  BY DEF Nothing
  <2>2. <<>> \in Seq(Rows) /\ <<>> \in Seq([row : Rows, size : Nat])  OBVIOUS
  <2> QED  BY <2>1, <2>2 DEF TypeOK
<1> QED  BY <1>1 DEF CursorInv, RefsMatch, FreeIsEmpty, MemoryKept, ConnectionOutlivesResults, WireOwned

-----------------------------------------------------------------------------
\* Types: a cursor shows rows, and the sizes it cuts them to are sizes.
LEMMA CursorTypes == CursorInv /\ [Next]_vars => TypeOK'
<1> SUFFICES ASSUME CursorInv, [Next]_vars PROVE TypeOK'  OBVIOUS
<1>0. TypeOK  BY DEF CursorInv
<1>a. <<>> \in Seq(Rows) /\ <<>> \in Seq([row : Rows, size : Nat])  OBVIOUS
<1> USE <1>0, <1>a, CursorAssumption DEF TypeOK
<1>1. CASE Connect  BY <1>1 DEF Connect, cursor, Nothing
<1>2. CASE Command  BY <1>2 DEF Command, cursor, Nothing
<1>3. CASE Lose  BY <1>3 DEF Lose, cursor
<1>4. CASE Close  BY <1>4 DEF Close, Nothing
<1>5. CASE CollectConnection  BY <1>5 DEF CollectConnection
<1>6. CASE Drop(None)  BY <1>6 DEF Drop, cursor
<1>7. ASSUME NEW c \in Cursors, NEW k \in {"store", "use"}, NEW rs \in Results, Execute(c, k, rs)
      PROVE  TypeOK'
  <2>1. rs \in Seq(Rows)  BY ResultsAreRows
  <2>2. told'.rows = <<>>  BY <1>7 DEF Execute, Nothing
  <2> QED  BY <1>7, <2>1, <2>2 DEF Execute, Reference
<1>8. ASSUME NEW c \in Cursors, Fetch(c) PROVE TypeOK'
  <2>1. rows[c] \in Seq(Rows) /\ rows[c] # <<>>  BY <1>8 DEF Fetch, HasRow
  <2>2. Head(rows[c]) \in Rows /\ Tail(rows[c]) \in Seq(Rows)  BY <2>1
  <2>3. Size[Head(rows[c])] \in Nat  BY <2>2
  <2>4. size' \in [Cursors -> Nat] /\ size'[c] = Size[Head(rows[c])]  BY <1>8, <2>3 DEF Fetch
  <2>5. Shown(Head(rows[c]), size'[c]) \in [row : Rows, size : Nat]
    BY <2>2, <2>3, <2>4 DEF Shown
  <2>6. told'.rows = <<Shown(Head(rows[c]), size'[c])>>  BY <1>8 DEF Fetch, Told
  <2>7. told'.rows \in Seq([row : Rows, size : Nat])  BY <2>5, <2>6
  <2>8. rows' \in [Cursors -> Seq(Rows)]  BY <1>8, <2>2 DEF Fetch
  <2> QED  BY <1>8, <2>4, <2>7, <2>8 DEF Fetch, connection
<1>9. ASSUME NEW c \in Cursors, FetchNothing(c) PROVE TypeOK'
  <2>1. told'.rows = <<>>  BY <1>9 DEF FetchNothing, Told
  <2> QED  BY <1>9, <2>1 DEF FetchNothing, FreeWire, connection
<1>10. ASSUME NEW c \in Cursors, FetchAll(c) PROVE TypeOK'
  <2>1. rows[c] \in Seq(Rows)  OBVIOUS
  <2> DEFINE Show(i) == Shown(rows[c][i], Size[rows[c][1]])
  <2>2. \A i \in 1 .. Len(rows[c]) : Show(i) \in [row : Rows, size : Nat]
    <3> SUFFICES ASSUME NEW i \in 1 .. Len(rows[c]) PROVE Show(i) \in [row : Rows, size : Nat]
      OBVIOUS
    <3>1. rows[c][i] \in Rows /\ rows[c][1] \in Rows  BY <2>1
    <3>2. Size[rows[c][1]] \in Nat  BY <3>1
    <3> QED  BY <3>1, <3>2 DEF Shown
  <2>3. told'.rows = [i \in 1 .. Len(rows[c]) |-> Show(i)]
    BY <1>10, <2>1 DEF FetchAll, Told
  <2> HIDE DEF Show
  <2>4. told'.rows \in Seq([row : Rows, size : Nat])
    <3>1. told'.rows \in [1 .. Len(rows[c]) -> [row : Rows, size : Nat]]  BY <2>2, <2>3
    <3>2. Len(rows[c]) \in Nat  BY <2>1, LenProperties
    <3> QED  BY <3>1, <3>2, FunctionsAreSequences
  <2> QED  BY <1>10, <2>4 DEF FetchAll, Nullify, connection
<1>11. ASSUME NEW c \in Cursors, Drop(c) PROVE TypeOK'
  BY <1>11 DEF Drop, cursor
<1>12. ASSUME NEW c \in Cursors, CollectCursor(c) PROVE TypeOK'
  BY <1>12 DEF CollectCursor, Nullify, FreeWire
<1>13. CASE UNCHANGED vars  BY <1>13 DEF vars, connection, cursor
<1> HIDE DEF TypeOK
<1> QED  BY <1>1, <1>2, <1>3, <1>4, <1>5, <1>6, <1>7, <1>8, <1>9, <1>10, <1>11, <1>12, <1>13 DEF Next

\* References come and go with results.
LEMMA RefsStep == CursorInv /\ [Next]_vars => RefsMatch'
<1> SUFFICES ASSUME CursorInv, [Next]_vars PROVE RefsMatch'  OBVIOUS
<1> USE DEF CursorInv, RefsMatch
<1>1. CASE UNCHANGED <<refs, result>>  BY <1>1
<1>2. ASSUME NEW c, Nullify(c) PROVE RefsMatch'  BY <1>2 DEF Nullify
<1>3. CASE Connect \/ Command \/ Lose \/ Close \/ CollectConnection \/ Drop(None)
  BY <1>1, <1>3 DEF Connect, Command, Lose, Close, CollectConnection, Drop, cursor
<1>4. ASSUME NEW c \in Cursors, NEW k, NEW rs, Execute(c, k, rs) PROVE RefsMatch'
  BY <1>4 DEF Execute, Reference
<1>5. ASSUME NEW c \in Cursors, Fetch(c) \/ FetchNothing(c) \/ Drop(c) PROVE RefsMatch'
  BY <1>1, <1>5 DEF Fetch, FetchNothing, Drop, cursor
<1>6. ASSUME NEW c \in Cursors, FetchAll(c) \/ CollectCursor(c) PROVE RefsMatch'
  BY <1>2, <1>6 DEF FetchAll, CollectCursor
<1>7. CASE UNCHANGED vars  BY <1>1, <1>7 DEF vars, cursor
<1> QED  BY <1>3, <1>4, <1>5, <1>6, <1>7 DEF Next

\* A cursor gives up its result before its memory.
LEMMA FreeStep == CursorInv /\ [Next]_vars => FreeIsEmpty'
<1> SUFFICES ASSUME CursorInv, [Next]_vars PROVE FreeIsEmpty'  OBVIOUS
<1> USE DEF CursorInv, TypeOK, FreeIsEmpty
<1>1. CASE UNCHANGED <<kind, result>>  BY <1>1
<1>2. CASE Connect \/ Command \/ Lose \/ Close \/ CollectConnection \/ Drop(None)
  BY <1>1, <1>2 DEF Connect, Command, Lose, Close, CollectConnection, Drop, cursor
<1>3. ASSUME NEW c \in Cursors, NEW k \in {"store", "use"}, NEW rs, Execute(c, k, rs)
      PROVE  FreeIsEmpty'
  BY <1>3 DEF Execute
<1>4. ASSUME NEW c \in Cursors, Fetch(c) \/ FetchNothing(c) \/ Drop(c) PROVE FreeIsEmpty'
  BY <1>1, <1>4 DEF Fetch, FetchNothing, Drop, cursor
<1>5. ASSUME NEW c \in Cursors, FetchAll(c) PROVE FreeIsEmpty'
  BY <1>5 DEF FetchAll, Nullify
<1>6. ASSUME NEW c \in Cursors, CollectCursor(c) PROVE FreeIsEmpty'
  BY <1>6 DEF CollectCursor, Nullify
<1>7. CASE UNCHANGED vars  BY <1>1, <1>7 DEF vars, cursor
<1> QED  BY <1>2, <1>3, <1>4, <1>5, <1>6, <1>7 DEF Next

\* The connection is collected only once the script has forgotten it, and while
\* no cursor refers to it.
LEMMA MemoryStep == CursorInv /\ [Next]_vars => MemoryKept' /\ ConnectionOutlivesResults'
<1> SUFFICES ASSUME CursorInv, [Next]_vars PROVE MemoryKept' /\ ConnectionOutlivesResults'
  OBVIOUS
<1> USE DEF CursorInv, MemoryKept, ConnectionOutlivesResults
<1>1. ASSUME UNCHANGED memory, dropped \ Cursors \subseteq dropped', result' \subseteq result
      PROVE  MemoryKept' /\ ConnectionOutlivesResults'
  BY <1>1, CursorAssumption
<1>2. CASE Connect \/ Command \/ Lose \/ Close \/ Drop(None)
  BY <1>1, <1>2 DEF Connect, Command, Lose, Close, Drop, cursor
<1>3. CASE CollectConnection  BY <1>3 DEF CollectConnection, RefsMatch
<1>4. ASSUME NEW c \in Cursors, NEW k, NEW rs, Execute(c, k, rs)
      PROVE  MemoryKept' /\ ConnectionOutlivesResults'
  BY <1>4 DEF Execute, Usable
<1>5. ASSUME NEW c \in Cursors, Fetch(c) \/ FetchNothing(c) \/ Drop(c)
      PROVE  MemoryKept' /\ ConnectionOutlivesResults'
  BY <1>1, <1>5 DEF Fetch, FetchNothing, Drop, cursor, connection
<1>6. ASSUME NEW c \in Cursors, FetchAll(c) \/ CollectCursor(c)
      PROVE  MemoryKept' /\ ConnectionOutlivesResults'
  BY <1>1, <1>6 DEF FetchAll, CollectCursor, Nullify, connection
<1>7. CASE UNCHANGED vars  BY <1>1, <1>7 DEF vars, connection, cursor
<1> QED  BY <1>2, <1>3, <1>4, <1>5, <1>6, <1>7 DEF Next

\* A query takes the wire only when it is free; whatever ends the result, or the
\* connection, frees it.
LEMMA WireStep == CursorInv /\ [Next]_vars => WireOwned'
<1> SUFFICES ASSUME CursorInv, [Next]_vars PROVE WireOwned'  OBVIOUS
<1> USE DEF CursorInv, TypeOK, WireOwned
<1>1. CASE Connect  BY <1>1 DEF Connect, cursor
<1>2. CASE Command  BY <1>2 DEF Command, cursor
<1>3. CASE Lose  BY <1>3 DEF Lose, cursor
<1>4. CASE Close \/ CollectConnection  BY <1>4 DEF Close, CollectConnection
<1>5. CASE Drop(None)  BY <1>5 DEF Drop, cursor
<1>6. ASSUME NEW c \in Cursors, NEW k \in {"store", "use"}, NEW rs, Execute(c, k, rs)
      PROVE  WireOwned'
  BY <1>6 DEF Execute
<1>7. ASSUME NEW c \in Cursors, Fetch(c) PROVE WireOwned'
  BY <1>7 DEF Fetch, connection
<1>8. ASSUME NEW c \in Cursors, FetchNothing(c) PROVE WireOwned'
  BY <1>8 DEF FetchNothing, FreeWire, connection
<1>9. ASSUME NEW c \in Cursors, FetchAll(c) PROVE WireOwned'
  BY <1>9 DEF FetchAll, Nullify, connection
<1>10. ASSUME NEW c \in Cursors, Drop(c) PROVE WireOwned'
  BY <1>10 DEF Drop, cursor
<1>11. ASSUME NEW c \in Cursors, CollectCursor(c) PROVE WireOwned'
  BY <1>11 DEF CollectCursor, Nullify, FreeWire
<1>12. CASE UNCHANGED vars  BY <1>12 DEF vars, connection, cursor
<1> QED  BY <1>1, <1>2, <1>3, <1>4, <1>5, <1>6, <1>7, <1>8, <1>9, <1>10, <1>11, <1>12 DEF Next

-----------------------------------------------------------------------------
\* Every reachable state of a connection and its cursors is in order.
THEOREM CursorInvariance == Spec => []CursorInv
<1>1. CursorInv /\ [Next]_vars => CursorInv'
  BY CursorTypes, RefsStep, FreeStep, MemoryStep, WireStep DEF CursorInv
<1> QED  BY <1>1, InitCursor, PTL DEF Spec

\* A result points into its connection's memory, which is there as long as the
\* result is: the reference that create_cursor puts in the registry sees to it.
THEOREM ResultsHaveConnection == Spec => []ConnectionOutlivesResults
<1>1. CursorInv => ConnectionOutlivesResults  BY DEF CursorInv
<1> QED  BY <1>1, CursorInvariance, PTL

\* The wire belongs to a cursor that can still read it to its end, or to nobody:
\* an abandoned result does not block its connection (cursor_nullify, conn_close).
THEOREM WireHasOwner == Spec => []WireOwned
<1>1. CursorInv => WireOwned  BY DEF CursorInv
<1> QED  BY <1>1, CursorInvariance, PTL

\* Type correctness: what a cursor shows is rows of its result (cursor_fetch,
\* cursor_fetch_all).
THEOREM CursorTypeCorrect == Spec => []TypeOK
<1>1. CursorInv => TypeOK  BY DEF CursorInv
<1> QED  BY <1>1, CursorInvariance, PTL

-----------------------------------------------------------------------------
(* The cursors implement result sets *)

\* What the refinement mapping makes of the state: the result sets' variables.
Rest == [c \in Cursors |-> IF c \in result THEN rows[c] ELSE <<>>]
Open == {c \in result : kind[c] # "free"}
RowsOf(shown) == [i \in DOMAIN shown |-> shown[i].row]
Given == [of |-> told.of, rows |-> RowsOf(told.rows)]

\* No rows shown are no rows.
LEMMA NoRows == RowsOf(<<>>) = <<>>
BY DEF RowsOf

\* One row shown is that row.
LEMMA OneRow ==
    ASSUME NEW r, NEW n  PROVE RowsOf(<<Shown(r, n)>>) = <<r>>
<1> DEFINE shown == <<Shown(r, n)>>
<1>1. DOMAIN shown = 1 .. 1 /\ shown[1].row = r  BY DEF Shown
<1>2. DOMAIN <<r>> = 1 .. 1 /\ <<r>>[1] = r  OBVIOUS
<1> HIDE DEF shown
<1>3. RowsOf(shown) = [i \in 1 .. 1 |-> r]  BY <1>1 DEF RowsOf
<1>4. <<r>> = [i \in 1 .. 1 |-> r]  BY <1>2
<1> QED  BY <1>3, <1>4 DEF shown

\* All rows shown are those rows, whatever size was used for them.
LEMMA AllRows ==
    ASSUME NEW rs \in Seq(Rows), NEW n
    PROVE  RowsOf([i \in DOMAIN rs |-> Shown(rs[i], n)]) = rs
BY DEF RowsOf, Shown

(* The steps of the result sets, in these terms *)

\* A query is made.
LEMMA AsQuery ==
    ASSUME NEW c \in Cursors, c \notin Open, Open' = Open \cup {c}, NEW rs \in Seq(Rows),
           Rest' = [Rest EXCEPT ![c] = rs], Given' = Nothing
    PROVE  Source!Next
<1>1. Rest'[c] = rs  BY DEF Rest
<1>2. Source!Query(c)
  BY <1>1 DEF Source!Query, Source!Nothing, Nothing, Open, Rest, Given, RowsOf
<1> QED  BY <1>2 DEF Source!Next

\* The next row is given.
LEMMA AsGiveOne ==
    ASSUME NEW c \in Cursors, c \in Open, Rest[c] # <<>>, Open' = Open,
           Rest' = [Rest EXCEPT ![c] = Tail(Rest[c])],
           Given' = [of |-> c, rows |-> <<Head(Rest[c])>>]
    PROVE  Source!Next
<1>1. Source!GiveOne(c)  BY DEF Source!GiveOne, Open, Rest, Given, RowsOf
<1> QED  BY <1>1 DEF Source!Next

\* All that are left are given.
LEMMA AsGiveAll ==
    ASSUME NEW c \in Cursors, c \in Open, Open' = Open \ {c},
           Rest' = [Rest EXCEPT ![c] = <<>>],
           Given' = [of |-> c, rows |-> Rest[c]]
    PROVE  Source!Next
<1>1. Source!GiveAll(c)  BY DEF Source!GiveAll, Open, Rest, Given, RowsOf
<1> QED  BY <1>1 DEF Source!Next

\* There are no more rows.
LEMMA AsGiveNone ==
    ASSUME NEW c \in Cursors, c \in Open, Open' = Open,
           Rest' = [Rest EXCEPT ![c] = <<>>], Given' = [of |-> c, rows |-> <<>>]
    PROVE  Source!Next
<1>1. Source!GiveNone(c)  BY DEF Source!GiveNone, Open, Rest, Given, RowsOf
<1> QED  BY <1>1 DEF Source!Next

\* The result is given up.
LEMMA AsForget ==
    ASSUME NEW c \in Cursors, c \in Open, Open' = Open \ {c},
           Rest' = [Rest EXCEPT ![c] = <<>>], Given' = Given
    PROVE  Source!Next
<1>1. Source!Forget(c)  BY DEF Source!Forget, Open, Rest, Given, RowsOf
<1> QED  BY <1>1 DEF Source!Next

\* The script is told of something else.
LEMMA AsOther ==
    ASSUME Open' = Open, Rest' = Rest, Given' = Nothing
    PROVE  Source!Next
<1>1. Source!Other
  BY DEF Source!Other, Source!Nothing, Nothing, Open, Rest, Given, RowsOf
<1> QED  BY <1>1 DEF Source!Next

\* Nothing the result sets speak of has changed.
LEMMA AsUnchanged ==
    ASSUME Open' = Open, Rest' = Rest, Given' = Given
    PROVE  UNCHANGED Source!vars
BY DEF Source!vars, Open, Rest, Given, RowsOf

\* Each step of the cursors is a step of the result sets, or none.
LEMMA ResultSetStep == CursorInv /\ [Next]_vars => [Source!Next]_(Source!vars)
<1> SUFFICES ASSUME CursorInv, [Next]_vars  PROVE [Source!Next]_(Source!vars)  OBVIOUS
<1>0. TypeOK /\ Open = result  BY DEF CursorInv, FreeIsEmpty, Open, TypeOK
<1>a. UNCHANGED <<result, kind, rows>> => Open' = Open /\ Rest' = Rest  BY DEF Open, Rest
<1>b. UNCHANGED told => Given' = Given  BY DEF Given, RowsOf
<1>c. told' = Nothing => Given' = Nothing
  <2>1. ASSUME told' = Nothing PROVE Given' = Nothing
    <3>1. told'.of = None /\ told'.rows = <<>>  BY <2>1 DEF Nothing
    <3>2. Given' = [of |-> told'.of, rows |-> RowsOf(told'.rows)]  BY DEF Given, RowsOf
    <3> QED  BY <3>1, <3>2, NoRows DEF Nothing
  <2> QED  BY <2>1
<1>d. \A c, rs : told' = Told(c, rs) => Given' = [of |-> c, rows |-> RowsOf(rs)]
  BY DEF Told, Given, RowsOf
<1>1. CASE Connect \/ Command \/ Close
  BY <1>1, <1>a, <1>c, AsOther DEF Connect, Command, Close, cursor
<1>2. CASE Lose \/ CollectConnection \/ Drop(None)
  BY <1>2, <1>a, <1>b, AsUnchanged DEF Lose, CollectConnection, Drop, cursor
<1>3. ASSUME NEW c \in Cursors, NEW k \in {"store", "use"}, NEW rs \in Results, Execute(c, k, rs)
      PROVE  Source!Next
  <2>1. rs \in Seq(Rows)  BY ResultsAreRows
  <2>2. c \notin result  BY <1>3 DEF CursorInv, FreeIsEmpty, Execute
  <2>3. /\ kind' = [kind EXCEPT ![c] = k] /\ result' = result \cup {c}
        /\ rows' = [rows EXCEPT ![c] = rs] /\ told' = Nothing
    BY <1>3 DEF Execute
  <2>4. Open' = Open \cup {c}  BY <1>0, <2>3 DEF Open, TypeOK
  <2>5. Rest' = [Rest EXCEPT ![c] = rs]  BY <1>0, <2>3 DEF Rest, TypeOK
  <2> QED  BY <1>0, <1>c, <2>1, <2>2, <2>3, <2>4, <2>5, AsQuery
<1>4. ASSUME NEW c \in Cursors, Fetch(c)  PROVE Source!Next
  <2>1. /\ c \in result /\ rows[c] # <<>> /\ UNCHANGED <<kind, result>>
        /\ rows' = [rows EXCEPT ![c] = Tail(rows[c])]
        /\ told' = Told(c, <<Shown(Head(rows[c]), size'[c])>>)
    BY <1>4 DEF Fetch, HasRow
  <2>2. Open' = Open /\ c \in Open  BY <1>0, <2>1 DEF Open
  <2>3. Rest[c] = rows[c] /\ Rest' = [Rest EXCEPT ![c] = Tail(rows[c])]
    BY <1>0, <2>1 DEF Rest, TypeOK
  <2>4. Given' = [of |-> c, rows |-> <<Head(rows[c])>>]  BY <1>d, <2>1, OneRow
  <2> QED  BY <2>1, <2>2, <2>3, <2>4, AsGiveOne
<1>5. ASSUME NEW c \in Cursors, FetchNothing(c)  PROVE Source!Next
  <2>1. /\ c \in result /\ UNCHANGED <<kind, result>>
        /\ rows' = [rows EXCEPT ![c] = <<>>] /\ told' = Told(c, <<>>)
    BY <1>5 DEF FetchNothing
  <2>2. Open' = Open /\ c \in Open  BY <1>0, <2>1 DEF Open
  <2>3. Rest' = [Rest EXCEPT ![c] = <<>>]  BY <1>0, <2>1 DEF Rest, TypeOK
  <2>4. Given' = [of |-> c, rows |-> <<>>]  BY <1>d, <2>1, NoRows
  <2> QED  BY <2>2, <2>3, <2>4, AsGiveNone
<1>6. ASSUME NEW c \in Cursors, FetchAll(c)  PROVE Source!Next
  <2>1. /\ c \in result /\ result' = result \ {c} /\ kind' = kind
        /\ rows' = [rows EXCEPT ![c] = <<>>]
        /\ told' = Told(c, [i \in DOMAIN rows[c] |-> Shown(rows[c][i], Size[rows[c][1]])])
    BY <1>6 DEF FetchAll, Nullify
  <2>2. Open' = Open \ {c} /\ c \in Open  BY <1>0, <2>1 DEF Open
  <2>3. Rest[c] = rows[c] /\ Rest' = [Rest EXCEPT ![c] = <<>>]
    BY <1>0, <2>1 DEF Rest, TypeOK
  <2>4. rows[c] \in Seq(Rows)  BY <1>0 DEF TypeOK
  <2> DEFINE n == Size[rows[c][1]]
             shown == [i \in DOMAIN rows[c] |-> Shown(rows[c][i], n)]
  <2>5. Given' = [of |-> c, rows |-> RowsOf(shown)]
    <3>1. told' = Told(c, shown)  BY <2>1
    <3> HIDE DEF shown
    <3> QED  BY <1>d, <3>1
  <2> HIDE DEF n
  <2>6. RowsOf(shown) = rows[c]  BY <2>4, AllRows
  <2> HIDE DEF shown
  <2> QED  BY <2>2, <2>3, <2>5, <2>6, AsGiveAll
<1>7. ASSUME NEW c \in Cursors, CollectCursor(c)  PROVE [Source!Next]_(Source!vars)
  <2>1. /\ result' = result \ {c} /\ kind' = [kind EXCEPT ![c] = "free"]
        /\ rows' = [rows EXCEPT ![c] = <<>>] /\ told' = told
    BY <1>7 DEF CollectCursor, Nullify
  <2>2. Open' = Open \ {c}  BY <1>0, <2>1 DEF Open, TypeOK
  <2>3. CASE c \in result
    <3>1. Rest' = [Rest EXCEPT ![c] = <<>>]  BY <1>0, <2>1 DEF Rest, TypeOK
    <3> QED  BY <1>0, <1>b, <2>1, <2>2, <2>3, <3>1, AsForget
  <2>4. CASE c \notin result
    <3>1. Rest' = Rest  BY <1>0, <2>1, <2>4 DEF Rest, TypeOK
    <3> QED  BY <1>0, <1>b, <2>1, <2>2, <2>4, <3>1, AsUnchanged
  <2> QED  BY <2>3, <2>4
<1>8. ASSUME NEW c \in Cursors, Drop(c)  PROVE UNCHANGED Source!vars
  BY <1>8, <1>a, <1>b, AsUnchanged DEF Drop, cursor
<1>9. CASE UNCHANGED vars  BY <1>9, <1>a, <1>b, AsUnchanged DEF vars, cursor
<1> QED  BY <1>1, <1>2, <1>3, <1>4, <1>5, <1>6, <1>7, <1>8, <1>9 DEF Next

\* Whatever becomes of the connection and in whatever order cursors are fetched from,
\* forgotten and collected, a script gets the rows of each query in order and once.
THEOREM ImplementsTheResultSet == Spec => ImplementsResultSet
<1>1. Init => Source!Init
  <2> SUFFICES ASSUME Init  PROVE Source!Init  OBVIOUS
  <2>1. Open = {} /\ Rest = [c \in Cursors |-> <<>>]  BY DEF Init, Open, Rest
  <2>2. Given = Nothing  BY NoRows DEF Init, Nothing, Given
  <2> QED  BY <2>1, <2>2 DEF Source!Init, Source!Nothing, Nothing, Open, Rest, Given, RowsOf
<1> QED  BY <1>1, CursorInvariance, ResultSetStep, PTL DEF Spec, ImplementsResultSet, Source!Spec
=============================================================================
