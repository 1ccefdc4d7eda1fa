----------------------------- MODULE NetServer -------------------------------
(***************************************************************************)
(* The TCP server of src/src/net/qsf_net_server.c, as a script drives it   *)
(* through src/src/lualib/lua_net.c.                                       *)
(*                                                                         *)
(* Everything happens on the thread of one node, in its libuv loop.  A     *)
(* callback of the server may call the script, and the script may call any *)
(* operation of the server before it returns: the callback then goes on    *)
(* with what it had read before.  Closing a handle is asynchronous: the    *)
(* session object is freed in a later turn of the loop.                    *)
(*                                                                         *)
(* A script must keep one rule, which the code relies on and does not      *)
(* check: while it is told that a session has ended, it does not kick that *)
(* session, nor (in the timer's walk) the next one, and does not stop the  *)
(* server; the callback deletes the session from the table once more.      *)
(* What travels inside the connections is FrameCodec's business.           *)
(***************************************************************************)
EXTENDS Integers, SequencesExt

CONSTANTS Sessions,     \* the addresses malloc may return for a session
          MaxConn,      \* max_connection
          SerialMod,    \* serial numbers are uint32_t: 2^32 in the code
          FirstSerial,  \* START_SERIAL_NUMBER
          MaxBeat,      \* max_heart_beat, in units of time
          MaxWaiting,   \* bound: clients in the listen queue
          MaxPending,   \* bound: writes of one session under way
          Nobody        \* no session

ASSUME ServerAssumption ==
    /\ MaxConn \in Nat
    /\ SerialMod \in Nat /\ SerialMod > MaxConn + 1
    /\ FirstSerial \in 0 .. SerialMod - 1
    /\ MaxBeat \in Nat
    /\ MaxWaiting \in Nat
    /\ MaxPending \in Nat
    /\ Nobody \notin Sessions

VARIABLES
    phase,      \* "created", "listening", "stopped", "destroyed"
    waiting,    \* clients in the listen queue
    held,       \* libuv has accepted a client that nobody has asked for
    map,        \* session_map, in the order of insertion
    allocated,  \* the session objects not yet freed
    reading,    \* the sessions whose handle is being read
    closing,    \* the sessions whose handle uv_close has been called on
    serial,     \* session->serial
    next,       \* server->next_serial
    idle,       \* time since session->last_recv_time, up to MaxBeat + 1
    pending,    \* writes and shutdowns of a session the library has not finished
    event       \* the call of server->on_read in progress, and what it will go on with

objects == <<map, allocated, reading, closing, serial, next, idle, pending>>
vars == <<phase, waiting, held, objects, event>>

Event(kind, s, n) == [kind |-> kind, session |-> s, next |-> n]
Quiet == Event("none", Nobody, Nobody)
Ends == {"error", "timeout"}

Init == /\ phase = "created"
        /\ waiting = 0
        /\ held = FALSE
        /\ map = <<>>
        /\ allocated = {}
        /\ reading = {}
        /\ closing = {}
        /\ serial = [s \in Sessions |-> 0]
        /\ next = FirstSerial
        /\ idle = [s \in Sessions |-> 0]
        /\ pending = [s \in Sessions |-> 0]
        /\ event = Quiet

Live == ToSet(map)
Used == {serial[s] : s \in Live}
Position(s) == CHOOSE i \in DOMAIN map : map[i] = s
HashDel(s) == RemoveAt(map, Position(s))

\* Mutant: taken numbers are not looked up.
FirstFreeBlind(from) == IF from = 0 THEN 1 ELSE from

After(n) == (n + 1) % SerialMod

\* set_session_serial: the first number from next_serial on that is neither zero
\* nor taken.
FirstFree(from) ==
    LET Available(k) == (from + k) % SerialMod \notin Used \cup {0}
    IN  (from + Min({k \in 0 .. SerialMod - 1 : Available(k)})) % SerialMod

\* Mutant: the handle is not closed.
DestroyNot(ss) == reading' = reading \ ss /\ UNCHANGED closing

\* session_destroy, for one or several sessions.
Destroy(ss) == /\ reading' = reading \ ss
               /\ closing' = closing \cup ss

-----------------------------------------------------------------------------
(* qsf_net_server_start, _stop, _destroy *)

\* bind or listen may fail, which the script is told.
Start == /\ phase = "created"
         /\ phase' = "listening"
         /\ UNCHANGED <<waiting, held, objects, event>>

\* Mutant: the sessions are left open.
StopAcceptorOnly == /\ event.kind \notin Ends
                    /\ phase \in {"created", "listening"}
                    /\ phase' = "stopped"
                    /\ waiting' = 0
                    /\ held' = FALSE
                    /\ UNCHANGED <<objects, event>>

Stop == /\ event.kind \notin Ends
        /\ phase \in {"created", "listening"}
        /\ phase' = "stopped"
        /\ waiting' = 0
        /\ held' = FALSE
        /\ map' = <<>>
        /\ Destroy(Live)
        /\ UNCHANGED <<allocated, serial, next, idle, pending, event>>

\* server_gc: stop, then free.  The script no longer refers to the server, so no
\* callback into it is in progress.
Collect == /\ event = Quiet
           /\ phase # "destroyed"
           /\ phase' = "destroyed"
           /\ waiting' = 0
           /\ held' = FALSE
           /\ map' = <<>>
           /\ Destroy(Live)
           /\ UNCHANGED <<allocated, serial, next, idle, pending, event>>

-----------------------------------------------------------------------------
(* on_connection: libuv accepts clients one at a time, and stops as long as the *)
(* one it holds has not been taken over by uv_accept                            *)

Arrive == /\ phase = "listening"
          /\ waiting < MaxWaiting
          /\ waiting' = waiting + 1
          /\ UNCHANGED <<phase, held, objects, event>>

CanAccept == event = Quiet /\ phase = "listening" /\ waiting > 0 /\ ~held

\* Mutant: one connection too few.
FullEarly == Len(map) >= MaxConn - 1

Full == Len(map) >= MaxConn

Reject == /\ CanAccept
          /\ Full
          /\ waiting' = waiting - 1
          /\ held' = TRUE
          /\ event' = Event("limit", Nobody, Nobody)
          /\ UNCHANGED <<phase, objects>>

Admit(s) == /\ CanAccept /\ ~Full
            /\ s \in Sessions \ allocated
            /\ waiting' = waiting - 1
            /\ allocated' = allocated \cup {s}
            /\ idle' = [idle EXCEPT ![s] = 0]
            /\ reading' = reading \cup {s}
            /\ serial' = [serial EXCEPT ![s] = FirstFree(next)]
            /\ next' = After(FirstFree(next))
            /\ map' = Append(map, s)
            /\ UNCHANGED <<phase, held, closing, pending, event>>

\* uv_accept, uv_tcp_getpeername or uv_read_start fails.
AdmitFails(s) == /\ CanAccept /\ ~Full
                 /\ s \in Sessions \ allocated
                 /\ waiting' = waiting - 1
                 /\ allocated' = allocated \cup {s}
                 /\ idle' = [idle EXCEPT ![s] = 0]
                 /\ serial' = [serial EXCEPT ![s] = 0]
                 /\ Destroy({s})
                 /\ UNCHANGED <<phase, held, map, next, pending, event>>

-----------------------------------------------------------------------------
(* on_session_read and hearbeat_timer_cb *)

\* Bytes arrive; they may complete a packet.
Read(s) == /\ event = Quiet
           /\ s \in reading
           /\ idle' = [idle EXCEPT ![s] = 0]
           /\ event' \in {Quiet, Event("data", s, Nobody)}
           /\ UNCHANGED <<phase, waiting, held, map, allocated, reading, closing, serial,
                          next, pending>>

\* Mutant: the session leaves the table before the script is told.
ReadFailsEarly(s) == /\ event = Quiet
                     /\ s \in reading
                     /\ map' = HashDel(s)
                     /\ event' = Event("error", s, Nobody)
                     /\ UNCHANGED <<phase, waiting, held, allocated, reading, closing, serial,
                                    next, idle, pending>>

\* The client has gone, or the connection is broken.
ReadFails(s) == /\ event = Quiet
                /\ s \in reading
                /\ event' = Event("error", s, Nobody)
                /\ UNCHANGED <<phase, waiting, held, objects>>

Expired(s) == idle[s] > MaxBeat

\* The timer's walk from here: the first session that has been silent for too
\* long, with its successor, which HASH_ITER has read before the body runs.
Walk(ss) ==
    LET late == {i \in DOMAIN ss : Expired(ss[i])}
    IN  IF late = {} THEN Quiet
        ELSE LET i == Min(late)
             IN  Event("timeout", ss[i], IF i < Len(ss) THEN ss[i + 1] ELSE Nobody)

HeartBeat == /\ event = Quiet
             /\ phase = "listening"
             /\ \E s \in Live : Expired(s)
             /\ event' = Walk(map)
             /\ UNCHANGED <<phase, waiting, held, objects>>

\* What is left of the walk: nothing, or the next session and those after it.
From(s) == IF s \in Live THEN SubSeq(map, Position(s), Len(map)) ELSE <<>>

\* Mutant: a session that timed out stays in the table.
ReturnKeeping == /\ event # Quiet
                 /\ IF event.kind = "error"
                    THEN map' = HashDel(event.session) /\ Destroy({event.session})
                    ELSE UNCHANGED <<map, reading, closing>>
                 /\ event' = Walk(From(event.next))
                 /\ UNCHANGED <<phase, waiting, held, allocated, serial, next, idle, pending>>

\* The script's callback returns: a session that has ended leaves the table.
Return == /\ event # Quiet
          /\ IF event.kind \in Ends
             THEN map' = HashDel(event.session) /\ Destroy({event.session})
             ELSE UNCHANGED <<map, reading, closing>>
          /\ event' = Walk(From(event.next))
          /\ UNCHANGED <<phase, waiting, held, allocated, serial, next, idle, pending>>

\* Time passes between two turns of the loop.
Tick == /\ event = Quiet
        /\ \E s \in Live : ~Expired(s)
        /\ idle' = [s \in Sessions |-> IF s \in Live /\ ~Expired(s) THEN idle[s] + 1 ELSE idle[s]]
        /\ UNCHANGED <<phase, waiting, held, map, allocated, reading, closing, serial,
                       next, pending, event>>

-----------------------------------------------------------------------------
(* The script's operations on a session, which it names by its serial number *)

\* Mutant: the session stays in the table.
KickKeeping(s) ==
    /\ s \in Live
    /\ event.kind \in Ends => s \notin {event.session, event.next}
    /\ Destroy({s})
    /\ UNCHANGED <<phase, waiting, held, map, allocated, serial, next, idle, pending, event>>

\* qsf_net_server_close
Kick(s) == /\ s \in Live
           /\ event.kind \in Ends => s \notin {event.session, event.next}
           /\ map' = HashDel(s)
           /\ Destroy({s})
           /\ UNCHANGED <<phase, waiting, held, allocated, serial, next, idle, pending, event>>

\* qsf_net_server_shutdown: the session is no longer read, and stays in the table.
\* uv_shutdown refuses a second request.
Shutdown(s) == /\ s \in Live
               /\ pending[s] < MaxPending
               /\ reading' = reading \ {s}
               /\ pending' \in {pending, [pending EXCEPT ![s] = @ + 1]}
               /\ UNCHANGED <<phase, waiting, held, map, allocated, closing, serial, next,
                              idle, event>>

\* qsf_net_server_write to one session; uv_write may refuse.
Write(s) == /\ s \in Live
            /\ pending[s] < MaxPending
            /\ pending' = [pending EXCEPT ![s] = @ + 1]
            /\ UNCHANGED <<phase, waiting, held, map, allocated, reading, closing, serial,
                           next, idle, event>>

\* qsf_net_server_write_all
Broadcast == /\ map # <<>>
             /\ \A s \in Live : pending[s] < MaxPending
             /\ pending' = [s \in Sessions |-> IF s \in Live THEN pending[s] + 1 ELSE pending[s]]
             /\ UNCHANGED <<phase, waiting, held, map, allocated, reading, closing, serial,
                            next, idle, event>>

-----------------------------------------------------------------------------
(* The library finishes what was asked of it *)

\* session_write_cb, on_session_shutdown
RequestDone(s) == /\ event = Quiet
                  /\ pending[s] > 0
                  /\ pending' = [pending EXCEPT ![s] = @ - 1]
                  /\ UNCHANGED <<phase, waiting, held, map, allocated, reading, closing,
                                 serial, next, idle, event>>

\* on_session_close, after the callbacks of the session's requests
Free(s) == /\ event = Quiet
           /\ s \in closing /\ pending[s] = 0
           /\ closing' = closing \ {s}
           /\ allocated' = allocated \ {s}
           /\ UNCHANGED <<phase, waiting, held, map, reading, serial, next, idle, pending,
                          event>>

-----------------------------------------------------------------------------
Accept == Reject \/ \E s \in Sessions : Admit(s) \/ AdmitFails(s)

Next == \/ Start \/ Stop \/ Collect
        \/ Arrive \/ Reject
        \/ HeartBeat \/ Return \/ Tick
        \/ Broadcast
        \/ \E s \in Sessions : \/ Admit(s) \/ AdmitFails(s)
                               \/ Read(s) \/ ReadFails(s)
                               \/ Kick(s) \/ Shutdown(s) \/ Write(s)
                               \/ RequestDone(s) \/ Free(s)

\* node.run turns the loop for ever, each turn runs the timers, the listener, the
\* requests and the closed handles, and the script's callbacks return.  Clients
\* and scripts need not do anything.
Spec == Init /\ [][Next]_vars
FairSpec == /\ Spec
            /\ WF_vars(Return)
            /\ SF_vars(Tick)
            /\ SF_vars(HeartBeat)
            /\ SF_vars(Accept)
            /\ \A s \in Sessions : SF_vars(RequestDone(s)) /\ SF_vars(Free(s))

-----------------------------------------------------------------------------
\* Every variable keeps its range; next_serial and the serial numbers stay those
\* of a uint32_t.
TypeOK ==
    /\ phase \in {"created", "listening", "stopped", "destroyed"}
    /\ waiting \in 0 .. MaxWaiting
    /\ held \in BOOLEAN
    /\ map \in Seq(Sessions)
    /\ allocated \in SUBSET Sessions
    /\ reading \in SUBSET Sessions
    /\ closing \in SUBSET Sessions
    /\ serial \in [Sessions -> 0 .. SerialMod - 1]
    /\ next \in 0 .. SerialMod - 1
    /\ idle \in [Sessions -> 0 .. MaxBeat + 1]
    /\ pending \in [Sessions -> 0 .. MaxPending]
    /\ event.session \in Sessions \cup {Nobody}

\* A session found in the table by its serial number can be used: its memory is
\* its own and its handle is open.  What is not in the table is being closed, so
\* no session leaks and none is closed twice.
SessionsUsable ==
    /\ Live \cup closing = allocated
    /\ Live \cap closing = {}
    /\ reading \subseteq Live
    /\ Len(map) = Cardinality(Live)

\* Serial numbers of live sessions differ and are not zero, which is the number
\* the script sees when a connection is refused, even after next_serial has
\* wrapped around to numbers that old sessions still hold.
SerialsUnique ==
    \A s, r \in Live : /\ serial[s] # 0
                       /\ serial[s] = serial[r] => s = r

\* When a callback into the script returns, the session it was about, and the
\* one the timer goes on with, are still in the table: on_session_read and
\* hearbeat_timer_cb use both without looking again.
ResumesOnLiveSessions ==
    event.kind \in Ends => {event.session, event.next} \subseteq Live \cup {Nobody}

\* Nothing that the loop still has to do reaches the server once it is stopped or
\* freed: no handle of a session is read, and no callback is left to run.
QuietOnceStopped ==
    phase \in {"stopped", "destroyed"} => reading = {} /\ event.kind \notin Ends

\* The server implements the table of sessions the script sees.
Table == INSTANCE SessionTable
    WITH Serials <- 0 .. SerialMod - 1,
         live <- Used,
         news <- [kind |-> event.kind,
                  serial |-> IF event.session = Nobody THEN 0 ELSE serial[event.session]]

ImplementsSessionTable == Table!Spec

\* A client that falls silent, or a session the script has shut down, is dropped
\* by the heart-beat.
SilentDropped ==
    \A s \in Sessions :
        s \in Live /\ phase = "listening"
            ~> (s \notin Live \/ phase # "listening" \/ idle[s] = 0)

\* Every session that leaves the table is freed in the end.
SessionsFreed == \A s \in Sessions : s \in allocated \ Live ~> s \notin allocated

\* No session outlives its client's interest in it: neither in the table nor in memory.
SessionsEnd == SilentDropped /\ SessionsFreed

\* "maximum alive connections", says qsf_net_server.c:36, and net_def.h:16 "max
\* alive connections per server": while fewer are alive, a client that waits is
\* accepted.
AdmitsBelowLimit ==
    []<>~(phase = "listening" /\ event = Quiet /\ waiting > 0 /\ Len(map) < MaxConn)
=============================================================================
