------------------------------ MODULE ResultSet -------------------------------
(***************************************************************************)
(* What the cursors of src/src/lualib/lua_mysql.c promise to the script:   *)
(* the rows of a query in order, each of them once, one at a time or all   *)
(* that are left at once.  A result may end early: the connection may be   *)
(* lost, or the script may stop reading.                                   *)
(***************************************************************************)
EXTENDS Sequences, FiniteSets

CONSTANTS Cursors, Rows, None

VARIABLES open,    \* the cursors that have a result
          rest,    \* the rows each has not given yet
          given    \* the rows the last call gave, and of which cursor

vars == <<open, rest, given>>

Nothing == [of |-> None, rows |-> <<>>]

Init == /\ open = {}
        /\ rest = [c \in Cursors |-> <<>>]
        /\ given = Nothing

Query(c) == /\ c \notin open
            /\ open' = open \cup {c}
            /\ rest'[c] \in Seq(Rows)
            /\ rest' = [rest EXCEPT ![c] = rest'[c]]
            /\ given' = Nothing

GiveOne(c) == /\ c \in open /\ rest[c] # <<>>
              /\ given' = [of |-> c, rows |-> <<Head(rest[c])>>]
              /\ rest' = [rest EXCEPT ![c] = Tail(@)]
              /\ UNCHANGED open

GiveAll(c) == /\ c \in open
              /\ given' = [of |-> c, rows |-> rest[c]]
              /\ rest' = [rest EXCEPT ![c] = <<>>]
              /\ open' = open \ {c}

\* The end, in time or early.
GiveNone(c) == /\ c \in open
               /\ given' = [of |-> c, rows |-> <<>>]
               /\ rest' = [rest EXCEPT ![c] = <<>>]
               /\ UNCHANGED open

Forget(c) == /\ c \in open
             /\ open' = open \ {c}
             /\ rest' = [rest EXCEPT ![c] = <<>>]
             /\ UNCHANGED given

\* A call that gives no rows.
Other == given' = Nothing /\ UNCHANGED <<open, rest>>

Next == \/ \E c \in Cursors : Query(c) \/ GiveOne(c) \/ GiveAll(c) \/ GiveNone(c) \/ Forget(c)
        \/ Other

Spec == Init /\ [][Next]_vars
=============================================================================
