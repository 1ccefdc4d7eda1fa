---------------------------- MODULE SessionTable -----------------------------
(***************************************************************************)
(* What the TCP server of src/src/net promises to the script that runs it: *)
(* a table of live sessions, never more than the limit, each under a       *)
(* serial number of its own that is not zero.  Whatever the script is told *)
(* about a session it is told while the session is live; a session that    *)
(* ends by itself is reported, and gone when the report returns.           *)
(***************************************************************************)
EXTENDS Naturals, FiniteSets

CONSTANTS Serials,   \* the serial numbers
          MaxConn    \* the connection limit

VARIABLES live,      \* the serial numbers of the live sessions
          news       \* what the script's callback is being told

vars == <<live, news>>

NoNews == [kind |-> "none", serial |-> 0]
Ends == {"error", "timeout"}

Init == live = {} /\ news = NoNews

Admit(n) == /\ n \in Serials \ (live \cup {0})
            /\ Cardinality(live) < MaxConn
            /\ live' = live \cup {n}
            /\ UNCHANGED news

Tell(n) == /\ news = NoNews
           /\ n \in live
           /\ \E kind \in Ends \cup {"data"} : news' = [kind |-> kind, serial |-> n]
           /\ UNCHANGED live

TellFull == /\ news = NoNews
            /\ Cardinality(live) >= MaxConn
            /\ news' = [kind |-> "limit", serial |-> 0]
            /\ UNCHANGED live

\* The callback returns.  After a timeout, the next one may be reported at once.
Told == /\ news # NoNews
        /\ live' = IF news.kind \in Ends THEN live \ {news.serial} ELSE live
        /\ \/ news' = NoNews
           \/ /\ news.kind = "timeout"
              /\ \E n \in live' : news' = [kind |-> "timeout", serial |-> n]

\* The script ends one session, or all of them.
Kick(n) == /\ n \in live
           /\ news.kind \in Ends => news.serial # n
           /\ live' = live \ {n}
           /\ UNCHANGED news

Stop == /\ news.kind \notin Ends
        /\ live' = {}
        /\ UNCHANGED news

Next == \/ \E n \in Serials : Admit(n) \/ Tell(n) \/ Kick(n)
        \/ TellFull
        \/ Told
        \/ Stop

Spec == Init /\ [][Next]_vars
=============================================================================
