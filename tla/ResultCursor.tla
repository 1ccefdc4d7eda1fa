---------------------------- MODULE ResultCursor ------------------------------
(***************************************************************************)
(* MySQL connections and cursors: src/src/lualib/lua_mysql.c.              *)
(*                                                                         *)
(* A connection is a Lua userdata that contains the library's MYSQL        *)
(* object; a cursor is a userdata with a result of it.  A "store" result   *)
(* is in memory as a whole, a "use" result is read row by row from the     *)
(* wire, where nothing else can be asked meanwhile.  A result points into  *)
(* its connection, so a cursor refers to the connection in the Lua         *)
(* registry, lest the collector take it first.                             *)
(*                                                                         *)
(* A row has one column; all that matters of it is its identity and the    *)
(* size of the text in it.  What the script is given is the row with the   *)
(* size that was used to cut the text out of the library's memory.         *)
(***************************************************************************)
EXTENDS Naturals, SequencesExt

CONSTANTS Cursors,    \* the addresses of Cursor userdata
          Rows,       \* the rows of the database
          Size,       \* the size of each row's text
          MaxRows,    \* bound: rows of a result
          None        \* no cursor

ASSUME CursorAssumption == /\ Size \in [Rows -> Nat]
                           /\ MaxRows \in Nat
                           /\ None \notin Cursors

VARIABLES
    link,       \* the connection: "new", "up", "lost", "closed"
    memory,     \* the connection's userdata has not been collected
    dropped,    \* the objects the script no longer refers to; None is the connection
    kind,       \* "store" or "use"; "free" if the cursor does not exist
    result,     \* cursors with a result: my_res # NULL
    refs,       \* cursors with a reference in the registry: conn # LUA_NOREF
    rows,       \* the rows of a cursor not yet fetched
    size,       \* res->lengths of a cursor
    reader,     \* the cursor whose rows are on the wire, or None
    told        \* what the last call returned to the script

connection == <<link, memory, dropped>>
cursor == <<kind, result, refs, rows, size, reader>>
vars == <<connection, cursor, told>>

Results == BoundedSeq(Rows, MaxRows)
Nothing == [of |-> None, rows |-> <<>>]
Told(c, rs) == [of |-> c, rows |-> rs]
Shown(r, n) == [row |-> r, size |-> n]

\* conn_create
Init == /\ link = "new"
        /\ memory = TRUE
        /\ dropped = {}
        /\ kind = [c \in Cursors |-> "free"]
        /\ result = {}
        /\ refs = {}
        /\ rows = [c \in Cursors |-> <<>>]
        /\ size = [c \in Cursors |-> 0]
        /\ reader = None
        /\ told = Nothing

\* What the script still refers to.
Usable(o) == o \notin dropped
Holds(c) == kind[c] # "free" /\ Usable(c)

-----------------------------------------------------------------------------
(* The connection *)

\* conn_connect; it may fail, which the script is told.
Connect == /\ Usable(None) /\ link = "new"
           /\ link' = "up"
           /\ told' = Nothing
           /\ UNCHANGED <<memory, dropped, cursor>>

\* The server or the network goes away.
Lose == /\ link = "up"
        /\ link' = "lost"
        /\ UNCHANGED <<memory, dropped, cursor, told>>

\* conn_close: mysql_close ends the reading of any result.
Close == /\ Usable(None) /\ link # "closed"
         /\ link' = "closed"
         /\ reader' = None
         /\ told' = Nothing
         /\ UNCHANGED <<memory, dropped, kind, result, refs, rows, size>>

\* Mutant: the cursor takes no reference.
ReferenceNone(c) == UNCHANGED refs

\* create_cursor: the connection is referred to from the registry.
Reference(c) == refs' = refs \cup {c}

\* conn_execute with a query that returns rows.  A lost connection may be
\* connected again by the library (setReconnect); otherwise the query fails.
\* A query is refused as long as a result is being read from the wire.
Execute(c, k, rs) == /\ Usable(None) /\ link \in {"up", "lost"} /\ reader = None
                     /\ kind[c] = "free" /\ k \in {"store", "use"}
                     /\ link' = "up"
                     /\ kind' = [kind EXCEPT ![c] = k]
                     /\ result' = result \cup {c}
                     /\ Reference(c)
                     /\ rows' = [rows EXCEPT ![c] = rs]
                     /\ size' = [size EXCEPT ![c] = 0]
                     /\ reader' = IF k = "use" THEN c ELSE None
                     /\ told' = Nothing
                     /\ UNCHANGED <<memory, dropped>>

\* conn_execute with a statement that returns no rows, conn_commit, conn_rollback.
Command == /\ Usable(None) /\ link \in {"up", "lost"} /\ reader = None
           /\ link' = "up"
           /\ told' = Nothing
           /\ UNCHANGED <<memory, dropped, cursor>>

-----------------------------------------------------------------------------
(* The cursor *)

\* Mutant: the registry keeps the reference.
NullifyKeeping(c) == result' = result \ {c} /\ UNCHANGED refs

\* cursor_nullify: the result and the reference are given up together.
Nullify(c) == /\ result' = result \ {c}
              /\ refs' = refs \ {c}

\* Mutant: the result is forgotten, but not freed.
FreeWireNever(c) == UNCHANGED reader

\* mysql_free_result, and the end of a result, leave the wire free.
FreeWire(c) == reader' = IF reader = c THEN None ELSE reader

\* Whether mysql_fetch_row returns a row: those in memory are there, those on the
\* wire need the connection.
HasRow(c) == /\ rows[c] # <<>>
             /\ kind[c] = "use" => reader = c /\ link = "up"

\* cursor_fetch: mysql_fetch_lengths after every mysql_fetch_row.
Fetch(c) == /\ Holds(c) /\ c \in result
            /\ HasRow(c)
            /\ size' = [size EXCEPT ![c] = Size[Head(rows[c])]]
            /\ rows' = [rows EXCEPT ![c] = Tail(@)]
            /\ told' = Told(c, <<Shown(Head(rows[c]), size'[c])>>)
            /\ UNCHANGED <<connection, kind, result, refs, reader>>

\* mysql_fetch_row returns NULL: after the last row, and when the wire is broken.
\* The result is over, and the wire free.
FetchNothing(c) == /\ Holds(c) /\ c \in result
                   /\ ~HasRow(c)
                   /\ rows' = [rows EXCEPT ![c] = <<>>]
                   /\ FreeWire(c)
                   /\ told' = Told(c, <<>>)
                   /\ UNCHANGED <<connection, kind, result, refs, size>>

\* Mutant: the first row, which has been fetched before the loop, is passed over.
FetchAllButFirst(c) ==
    /\ Holds(c) /\ c \in result /\ kind[c] = "store"
    /\ rows' = [rows EXCEPT ![c] = <<>>]
    /\ told' = Told(c,
                    [i \in 1 .. Len(rows[c]) - 1 |->
                        Shown(rows[c][i + 1], Size[rows[c][1]])])
    /\ Nullify(c)
    /\ UNCHANGED <<connection, kind, size, reader>>

\* cursor_fetch_all: mysql_fetch_lengths after the first mysql_fetch_row only.
FetchAll(c) == /\ Holds(c) /\ c \in result /\ kind[c] = "store"
               /\ rows' = [rows EXCEPT ![c] = <<>>]
               /\ told' = Told(c, [i \in DOMAIN rows[c] |-> Shown(rows[c][i], Size[rows[c][1]])])
               /\ Nullify(c)
               /\ UNCHANGED <<connection, kind, size, reader>>

-----------------------------------------------------------------------------
(* The collector *)

\* The script forgets a cursor, or the connection.
Drop(o) == /\ IF o = None THEN Usable(None) ELSE Holds(o)
           /\ dropped' = dropped \cup {o}
           /\ UNCHANGED <<link, memory, cursor, told>>

\* cursor_gc
CollectCursor(c) == /\ kind[c] # "free" /\ c \in dropped
                    /\ kind' = [kind EXCEPT ![c] = "free"]
                    /\ rows' = [rows EXCEPT ![c] = <<>>]
                    /\ Nullify(c)
                    /\ FreeWire(c)
                    /\ dropped' = dropped \ {c}
                    /\ UNCHANGED <<link, memory, size, told>>

\* conn_gc, once nothing refers to the connection.
CollectConnection == /\ memory /\ None \in dropped /\ refs = {}
                     /\ memory' = FALSE
                     /\ link' = "closed"
                     /\ reader' = None
                     /\ UNCHANGED <<dropped, kind, result, refs, rows, size, told>>

-----------------------------------------------------------------------------
Next == \/ Connect \/ Command \/ Lose \/ Close \/ CollectConnection
        \/ Drop(None)
        \/ \E c \in Cursors :
              \/ \E k \in {"store", "use"}, rs \in Results : Execute(c, k, rs)
              \/ Fetch(c) \/ FetchNothing(c) \/ FetchAll(c)
              \/ Drop(c) \/ CollectCursor(c)

\* The collector takes what nothing refers to, at the latest when the VM is closed.
Spec == Init /\ [][Next]_vars
FairSpec == /\ Spec
            /\ WF_vars(CollectConnection)
            /\ \A c \in Cursors : WF_vars(CollectCursor(c))

-----------------------------------------------------------------------------
\* Every variable keeps its range; what is told is rows.
TypeOK ==
    /\ link \in {"new", "up", "lost", "closed"}
    /\ memory \in BOOLEAN
    /\ dropped \in SUBSET (Cursors \cup {None})
    /\ kind \in [Cursors -> {"free", "store", "use"}]
    /\ result \in SUBSET Cursors
    /\ refs \in SUBSET Cursors
    /\ rows \in [Cursors -> Seq(Rows)]
    /\ size \in [Cursors -> Nat]
    /\ reader \in Cursors \cup {None}
    /\ told.rows \in Seq([row : Rows, size : Nat])

\* A result, which points into its connection, never outlives the connection's
\* memory, in whatever order the script forgets the two.
ConnectionOutlivesResults == result # {} => memory

\* Only the cursor that the wire belongs to reads from it, and a cursor without
\* a result, or that was collected, does not keep it.
WireOwned == reader # None => /\ reader \in result
                              /\ kind[reader] = "use"
                              /\ link \in {"up", "lost"}

\* The cursors implement result sets: rows in order, each once.
Source == INSTANCE ResultSet
    WITH rest <- [c \in Cursors |-> IF c \in result THEN rows[c] ELSE <<>>],
         open <- {c \in result : kind[c] # "free"},
         given <- [of |-> told.of, rows |-> [i \in DOMAIN told.rows |-> told.rows[i].row]]
ImplementsResultSet == Source!Spec

\* What the script has forgotten is freed: a connection whose cursors are
\* forgotten, too, is closed.
ConnectionFreed ==
    []((None \in dropped /\ \A c \in Cursors : kind[c] # "free" => c \in dropped)
          => <>~memory)

\* "fetch all result in one query", says lua_mysql.c:32 of fetch_all: the text of
\* every row is cut out with the size of that row.
FetchedWhole == \A i \in DOMAIN told.rows : told.rows[i].size = Size[told.rows[i].row]
=============================================================================
