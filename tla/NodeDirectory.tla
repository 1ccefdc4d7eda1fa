---------------------------- MODULE NodeDirectory ----------------------------
(***************************************************************************)
(* What the node registry of src/src/qsf_node.c promises to the callers of *)
(* qsf_create_node: a directory of node names in which one name is held by *)
(* at most one node.  A call is answered in one indivisible step between   *)
(* the moment it is made and the moment it returns; a name leaves the      *)
(* directory when its node ends.  The mutex, the list, the heap objects    *)
(* and the threads are NodeRegistry's business.                            *)
(***************************************************************************)
CONSTANTS Names,     \* the node names qsf_create_node accepts
          Callers    \* whoever may call qsf_create_node

VARIABLES live,      \* the names taken
          call       \* what each caller has asked and been told

vars == <<live, call>>

Quiet == [stage |-> "none"]
Asked(n) == [stage |-> "asked", name |-> n]
Told(answer) == [stage |-> "told", answer |-> answer]

\* The directory starts empty: qsf_node_init.
Init == /\ live = {}
        /\ call = [c \in Callers |-> Quiet]

Ask(c, n) == /\ call[c] = Quiet
             /\ call' = [call EXCEPT ![c] = Asked(n)]
             /\ UNCHANGED live

\* A length or a reserved name refused before the directory is consulted.
Reject(c) == /\ call[c] = Quiet
             /\ \E answer \in {"too long", "reserved"} :
                   call' = [call EXCEPT ![c] = Told(answer)]
             /\ UNCHANGED live

\* The three answers a call that reaches the directory can get.
Register(c, n) == /\ call[c] = Asked(n)
                  /\ n \notin live
                  /\ live' = live \cup {n}
                  /\ call' = [call EXCEPT ![c] = Told("ok")]

Refuse(c, n) == /\ call[c] = Asked(n)
                /\ n \in live
                /\ call' = [call EXCEPT ![c] = Told("exists")]
                /\ UNCHANGED live

NoThread(c, n) == /\ call[c] = Asked(n)
                  /\ n \notin live
                  /\ call' = [call EXCEPT ![c] = Told("no thread")]
                  /\ UNCHANGED live

Return(c) == /\ call[c].stage = "told"
             /\ call' = [call EXCEPT ![c] = Quiet]
             /\ UNCHANGED live

Leave(n) == /\ n \in live
            /\ live' = live \ {n}
            /\ UNCHANGED call

Next == \/ \E c \in Callers :
              \/ Reject(c)
              \/ Return(c)
              \/ \E n \in Names : \/ Ask(c, n)
                                  \/ Register(c, n)
                                  \/ Refuse(c, n)
                                  \/ NoThread(c, n)
        \/ \E n \in Names : Leave(n)

Spec == Init /\ [][Next]_vars
=============================================================================
