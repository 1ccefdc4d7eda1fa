------------------------------ MODULE Shutdown ------------------------------
(***************************************************************************)
(* The start and the end of the process: main, qsf_start and qsf_exit in   *)
(* src/src/qsf_main.c and src/src/qsf_start.c, with what the nodes'        *)
(* threads and the environment (src/src/qsf_node.c, src/src/qsf_env.c)     *)
(* have in common with them: the configuration environment, the ZeroMQ     *)
(* context with its sockets, and the list of nodes with its mutex.         *)
(*                                                                         *)
(* qsf_exit is run by the main thread when its loop has ended, and by      *)
(* whichever thread a signal reaches.  Using what is not there, or taking  *)
(* it away from a thread that uses it, has no defined outcome: the model   *)
(* stops there and calls it wrong.                                         *)
(***************************************************************************)
EXTENDS Naturals

CONSTANTS Nodes,        \* node objects, each with its thread
          First,        \* the node that qsf_start creates
          Main, None

ASSUME NodesAssumption == First \in Nodes /\ Main \notin Nodes /\ None \notin Nodes \cup {Main}

VARIABLES
    main,       \* where qsf_start is
    node,       \* where each node's thread is
    exit,       \* where each thread is in qsf_exit; "no" outside
    there,      \* "env", "context" and "mutex" that are set up and not taken down
    list,       \* the nodes in node_ctx.list
    holder,     \* the thread that has node_ctx.mutex
    dealers,    \* nodes with an open dealer
    sockets,    \* nodes whose script has opened a socket of its own
    router,     \* the router's socket is open
    wrong,      \* something undefined has happened
    signalled,  \* a signal has come
    hurried     \* qsf_exit was begun while a node's thread was alive

vars == <<main, node, exit, there, list, holder, dealers, sockets, router, wrong, signalled,
          hurried>>

ThreadIds == Nodes \cup {Main}
Alive(n) == node[n] \notin {"none", "gone"}

Init == /\ main = "env"
        /\ node = [n \in Nodes |-> "none"]
        /\ exit = [t \in ThreadIds |-> "no"]
        /\ there = {} /\ list = {} /\ holder = None
        /\ dealers = {} /\ sockets = {} /\ router = FALSE
        /\ wrong = FALSE /\ signalled = FALSE /\ hurried = FALSE

\* A thread goes on with its own code: it is not in a signal handler's qsf_exit.
Runs(t) == ~wrong /\ exit[t] = "no"

\* What a step makes use of.
Uses(what) == wrong' = ~(what \subseteq there)

-----------------------------------------------------------------------------
(* qsf_start *)

\* qsf_env_init
StartEnv == /\ Runs(Main) /\ main = "env"
            /\ there' = there \cup {"env"}
            /\ main' = "context"
            /\ UNCHANGED <<node, exit, list, holder, dealers, sockets, router, wrong, signalled,
                           hurried>>

\* Mutant: the first node is created before the list is there.
AfterContextFirst == "first"

AfterContext == "list"

\* qsf_init
StartContext == /\ Runs(Main) /\ main = "context"
                /\ Uses({"env"})
                /\ there' = there \cup {"context"}
                /\ router' = TRUE
                /\ main' = AfterContext
                /\ UNCHANGED <<node, exit, list, holder, dealers, sockets, signalled, hurried>>

\* qsf_node_init
StartList == /\ Runs(Main) /\ main = "list"
             /\ there' = there \cup {"mutex"}
             /\ main' = "first"
             /\ UNCHANGED <<node, exit, list, holder, dealers, sockets, router, wrong, signalled,
                            hurried>>

\* qsf_create_node, by any thread.  Holding the mutex its caller changes the list and
\* creates the thread; how it does is NodeRegistry's.
Create(n) == /\ node[n] = "none"
             /\ holder = None
             /\ node' = [node EXCEPT ![n] = "init"]
             /\ list' = list \cup {n}

StartFirst == /\ Runs(Main) /\ main = "first"
              /\ Uses({"env", "mutex"})
              /\ Create(First)
              /\ main' = "loop"
              /\ UNCHANGED <<exit, there, holder, dealers, sockets, router, signalled, hurried>>

\* dispatch_message fails: a message cannot be delivered, a signal interrupts it, or
\* the context is being terminated.
LoopEnds == /\ Runs(Main) /\ main = "loop"
            /\ \E n \in Nodes : node[n] # "none"
            /\ main' = "exit"
            /\ exit' = [exit EXCEPT ![Main] = "env"]
            /\ hurried' = (hurried \/ \E n \in Nodes : Alive(n))
            /\ UNCHANGED <<node, there, list, holder, dealers, sockets, router, wrong, signalled>>

-----------------------------------------------------------------------------
(* A node's thread *)

\* init_node reads settings and makes the dealer.
NodeInit(n) == /\ Runs(n) /\ node[n] = "init"
               /\ Uses({"env", "context"})
               /\ node' = [node EXCEPT ![n] = "run"]
               /\ dealers' = dealers \cup {n}
               /\ UNCHANGED <<main, exit, there, list, holder, sockets, router, signalled, hurried>>

\* The script makes a socket with zmq.socket.
NodeSocket(n) == /\ Runs(n) /\ node[n] = "run" /\ n \notin sockets
                 /\ Uses({"context"})
                 /\ sockets' = sockets \cup {n}
                 /\ UNCHANGED <<main, node, exit, there, list, holder, dealers, router, signalled,
                                hurried>>

\* The script launches a node.
NodeLaunch(n, m) == /\ Runs(n) /\ node[n] = "run"
                    /\ Uses({"mutex"})
                    /\ Create(m)
                    /\ UNCHANGED <<main, exit, there, holder, dealers, sockets, router, signalled,
                                   hurried>>

\* Mutant: sockets that the script has left open stay open.
LeftOpenKept(n) == sockets

\* The collector closes them when the node's Lua state is closed.
LeftOpen(n) == sockets \ {n}

\* The script ends; cleanup_node closes the dealer and the Lua state.
NodeClose(n) == /\ Runs(n) /\ node[n] = "run"
                /\ wrong' = (n \notin dealers)
                /\ dealers' = dealers \ {n}
                /\ sockets' = LeftOpen(n)
                /\ node' = [node EXCEPT ![n] = "remove"]
                /\ UNCHANGED <<main, exit, there, list, holder, router, signalled, hurried>>

NodeLock(n) == /\ Runs(n) /\ node[n] = "remove"
               /\ holder = None
               /\ Uses({"mutex"})
               /\ holder' = n
               /\ node' = [node EXCEPT ![n] = "unlink"]
               /\ UNCHANGED <<main, exit, there, list, dealers, sockets, router, signalled, hurried>>

\* Mutant: the node stays in the list.
UnlinkedNot(n) == list

Unlinked(n) == list \ {n}

NodeUnlink(n) == /\ Runs(n) /\ node[n] = "unlink"
                 /\ list' = Unlinked(n)
                 /\ node' = [node EXCEPT ![n] = "unlock"]
                 /\ UNCHANGED <<main, exit, there, holder, dealers, sockets, router, wrong,
                                signalled, hurried>>

NodeUnlock(n) == /\ Runs(n) /\ node[n] = "unlock"
                 /\ Uses({"mutex"})
                 /\ holder' = None
                 /\ node' = [node EXCEPT ![n] = "gone"]
                 /\ UNCHANGED <<main, exit, there, list, dealers, sockets, router, signalled,
                                hurried>>

-----------------------------------------------------------------------------
(* qsf_exit *)

\* SIGTERM or SIGILL: the handler is qsf_exit itself.
Signal(t) == /\ Runs(t) /\ ~signalled
             /\ t \in {Main} \cup {n \in Nodes : Alive(n)}
             /\ signalled' = TRUE
             /\ exit' = [exit EXCEPT ![t] = "env"]
             /\ hurried' = (hurried \/ \E n \in Nodes : Alive(n))
             /\ UNCHANGED <<main, node, there, list, holder, dealers, sockets, router, wrong>>

\* qsf_env_exit: a second call closes a Lua state that is not there.
ExitEnv(t) == /\ ~wrong /\ exit[t] = "env"
              /\ Uses({"env"})
              /\ there' = there \ {"env"}
              /\ exit' = [exit EXCEPT ![t] = "nodes"]
              /\ UNCHANGED <<main, node, list, holder, dealers, sockets, router, signalled, hurried>>

\* qsf_node_exit.  A node in the list has a thread, which uses its dealer, its Lua
\* state and its loop, and will close them itself: to clean it up is wrong.  So is to
\* destroy the mutex when a thread has it; one that was never made does no harm.
ExitNodes(t) == /\ ~wrong /\ exit[t] = "nodes"
                /\ wrong' = (list # {} \/ holder # None)
                /\ there' = there \ {"mutex"}
                /\ exit' = [exit EXCEPT ![t] = "term"]
                /\ UNCHANGED <<main, node, list, holder, dealers, sockets, router, signalled,
                               hurried>>

\* zmq_ctx_term waits until every socket of the context is closed, or fails at once
\* when there is no context.  Then qsf_exit returns, to qsf_start, which returns too,
\* or to whatever a signal had interrupted.
ExitTerm(t) == /\ ~wrong /\ exit[t] = "term"
               /\ "context" \in there => ~router /\ dealers = {} /\ sockets = {}
               /\ there' = there \ {"context"}
               /\ exit' = [exit EXCEPT ![t] = IF t = Main /\ main = "exit" THEN "done" ELSE "no"]
               /\ UNCHANGED <<main, node, list, holder, dealers, sockets, router, wrong, signalled,
                              hurried>>

ExitStep(t) == ExitEnv(t) \/ ExitNodes(t) \/ ExitTerm(t)

-----------------------------------------------------------------------------
StartStep == StartEnv \/ StartContext \/ StartList \/ StartFirst

NodeStep(n) == \/ NodeInit(n) \/ NodeClose(n) \/ NodeLock(n) \/ NodeUnlink(n) \/ NodeUnlock(n)

Next == \/ StartStep \/ LoopEnds
        \/ \E n \in Nodes : \/ NodeStep(n) \/ NodeSocket(n)
                            \/ \E m \in Nodes : NodeLaunch(n, m)
        \/ \E t \in ThreadIds : Signal(t) \/ ExitStep(t)

\* The operating system runs every thread.  A script need not end, nor the loop.
Fairness == /\ WF_vars(StartStep)
            /\ \A t \in ThreadIds : WF_vars(ExitStep(t))

Spec == Init /\ [][Next]_vars /\ Fairness

-----------------------------------------------------------------------------
\* Type correctness.
TypeOK == /\ main \in {"env", "context", "list", "first", "loop", "exit"}
          /\ node \in [Nodes -> {"none", "init", "run", "remove", "unlink", "unlock", "gone"}]
          /\ exit \in [ThreadIds -> {"no", "env", "nodes", "term", "done"}]
          /\ there \subseteq {"env", "context", "mutex"}
          /\ list \subseteq Nodes
          /\ holder \in Nodes \cup {None}
          /\ dealers \subseteq Nodes /\ sockets \subseteq Nodes
          /\ router \in BOOLEAN /\ wrong \in BOOLEAN
          /\ signalled \in BOOLEAN /\ hurried \in BOOLEAN

\* Everything is set up before it is used, and used before it is taken down, as long
\* as no signal comes and the loop of qsf_start does not end before the last node's
\* thread has.
UsedWhenThere == wrong => signalled \/ hurried

\* No node that qsf_node_exit could find in the list may be cleaned up by it: each
\* has a thread that will do so itself.
ListedAlive == ~wrong => \A n \in list : node[n] \in {"init", "run", "remove", "unlink"}

\* An orderly qsf_exit finds every dealer and every socket of a script closed when it
\* comes to zmq_ctx_term: the router's socket is the only one that is left.
OnlyRouterLeft ==
    (exit[Main] = "term" /\ ~signalled /\ ~hurried) => dealers = {} /\ sockets = {}

\* "do cleanup work" (src/src/qsf_start.c:135): an orderly qsf_exit does its work to
\* the end.
ExitEnds == (exit[Main] = "env" /\ ~signalled /\ ~hurried) ~> exit[Main] = "done"
=============================================================================
