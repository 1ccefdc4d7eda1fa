--------------------------- MODULE Process_proofs ---------------------------
(***************************************************************************)
(* Proofs about what the threads of the process share: the settings        *)
(* (Environment), for any threads, settings and values, and what is set up *)
(* and taken down (Shutdown), for any nodes.                               *)
(*                                                                         *)
(* The stack of the shared Lua state belongs to one call at a time, and a  *)
(* string setting in use outside the mutex stays the setting.              *)
(*                                                                         *)
(* Nothing undefined happens in an orderly process, one that no signal has *)
(* reached and whose loop does not end before its nodes.  The invariant    *)
(* says what is set up at each stage of qsf_start and qsf_exit of such a   *)
(* process, that nodes live between the two, and which threads stand       *)
(* behind the list, the mutex and the sockets.                             *)
(***************************************************************************)
EXTENDS Environment, Shutdown, FiniteSetTheorems, TLAPS

-----------------------------------------------------------------------------
(* The settings *)

Critical == {"locked", "pushed", "popped"}

\* The holder of the mutex is the one thread inside the critical section.
Exclusive == \A t \in Threads : pc[t] \in Critical <=> mutex = t

\* Only the holder has something on the stack.
OneOnStack == top = IF \E t \in Threads : pc[t] = "pushed" THEN 1 ELSE 0

\* A call is about a setting until its caller has done with the value.
KeyKnown == \A t \in Threads : pc[t] # "idle" => key[t] \in Keys

\* The inductive invariant.
EnvInv == EnvTypeOK /\ Exclusive /\ OneOnStack /\ KeyKnown /\ UsedStringsAnchored

\* The environment starts in order.
LEMMA InitEnv == EnvInit => EnvInv
<1> SUFFICES ASSUME EnvInit PROVE EnvInv  OBVIOUS
<1>1. EnvTypeOK  BY DEF EnvInit, EnvTypeOK
<1>2. Exclusive  BY EnvironmentAssumption DEF EnvInit, Exclusive, Critical
<1>3. OneOnStack  BY DEF EnvInit, OneOnStack
<1>4. KeyKnown /\ UsedStringsAnchored  BY DEF EnvInit, KeyKnown, UsedStringsAnchored
<1> QED  BY <1>1, <1>2, <1>3, <1>4 DEF EnvInv

\* Only the thread that moves changes its stage.
LEMMA GotoOne ==
    ASSUME EnvTypeOK, NEW t \in Threads, NEW s, Goto(t, s)
    PROVE  /\ pc'[t] = s
           /\ \A u \in Threads \ {t} : pc'[u] = pc[u]
  BY DEF EnvTypeOK, Goto

-----------------------------------------------------------------------------
(* One lemma per part of the invariant *)

\* Types are kept: top is not counted below zero.
LEMMA TypeStep == EnvInv /\ [EnvNext]_envVars => EnvTypeOK'
<1> SUFFICES ASSUME EnvInv, [EnvNext]_envVars PROVE EnvTypeOK'  OBVIOUS
<1> USE DEF EnvInv, EnvTypeOK
<1>1. ASSUME NEW t \in Threads, Call(t) PROVE EnvTypeOK'
  BY <1>1 DEF Call, At, Goto, Values
<1>2. ASSUME NEW t \in Threads, Lock(t) PROVE EnvTypeOK'
  BY <1>2 DEF Lock, Acquire, At, Goto
<1>3. ASSUME NEW t \in Threads, Push(t) PROVE EnvTypeOK'
  BY <1>3 DEF Push, At, Goto
<1>4. ASSUME NEW t \in Threads, Get(t) PROVE EnvTypeOK'
  <2>1. key[t] \in Keys /\ top = 1  BY <1>4 DEF Get, At, KeyKnown, OneOnStack
  <2>2. stale' \in SUBSET Threads  BY <1>4 DEF Get, MayCollect
  <2> QED  BY <1>4, <2>1, <2>2 DEF Get, At, Goto
<1>5. ASSUME NEW t \in Threads, Set(t) PROVE EnvTypeOK'
  <2>1. key[t] \in Keys /\ top = 1  BY <1>5 DEF Set, At, KeyKnown, OneOnStack
  <2>2. stale' \in SUBSET Threads  BY <1>5 DEF Set, MayCollect
  <2> QED  BY <1>5, <2>1, <2>2 DEF Set, At, Goto
<1>6. ASSUME NEW t \in Threads, Unlock(t) PROVE EnvTypeOK'
  BY <1>6 DEF Unlock, At, Goto
<1>7. ASSUME NEW t \in Threads, Use(t) PROVE EnvTypeOK'
  BY <1>7 DEF Use, At, Goto
<1>8. CASE Exit  BY <1>8 DEF Exit
<1>9. CASE UNCHANGED envVars  BY <1>9 DEF envVars
<1> QED  BY <1>1, <1>2, <1>3, <1>4, <1>5, <1>6, <1>7, <1>8, <1>9 DEF EnvNext

\* The mutex is taken only when free, and given back by its holder.
LEMMA ExclusiveStep == EnvInv /\ [EnvNext]_envVars => Exclusive'
<1> SUFFICES ASSUME EnvInv, [EnvNext]_envVars PROVE Exclusive'  OBVIOUS
<1>0. EnvTypeOK /\ Exclusive  BY DEF EnvInv
<1>1. ASSUME NEW t \in Threads, NEW s,
             Goto(t, s), pc[t] \in Critical <=> s \in Critical, UNCHANGED mutex
      PROVE  Exclusive'
  BY <1>0, <1>1, GotoOne DEF Exclusive
<1>2. ASSUME NEW t \in Threads, Call(t) PROVE Exclusive'
  BY <1>1, <1>2 DEF Call, At, Critical
<1>3. ASSUME NEW t \in Threads, Lock(t) PROVE Exclusive'
  <2>1. mutex = Nobody /\ mutex' = t /\ Goto(t, "locked")  BY <1>3 DEF Lock, Acquire
  <2>2. \A u \in Threads : pc[u] \notin Critical
    BY <2>1, <1>0, EnvironmentAssumption DEF Exclusive
  <2> QED  BY <2>1, <2>2, <1>0, GotoOne DEF Exclusive, Critical
<1>4. ASSUME NEW t \in Threads, Push(t) PROVE Exclusive'
  BY <1>1, <1>4 DEF Push, At, Critical
<1>5. ASSUME NEW t \in Threads, Get(t) PROVE Exclusive'
  BY <1>1, <1>5 DEF Get, At, Critical
<1>6. ASSUME NEW t \in Threads, Set(t) PROVE Exclusive'
  BY <1>1, <1>6 DEF Set, At, Critical
<1>7. ASSUME NEW t \in Threads, Unlock(t) PROVE Exclusive'
  <2>1. PICK s \in {"using", "idle"} : Goto(t, s)  BY <1>7 DEF Unlock
  <2>2. mutex' = Nobody /\ mutex = t
    BY <1>7, <1>0 DEF Unlock, At, Exclusive, Critical
  <2>3. \A u \in Threads \ {t} : pc[u] \notin Critical  BY <2>2, <1>0 DEF Exclusive
  <2> QED  BY <2>1, <2>2, <2>3, <1>0, GotoOne, EnvironmentAssumption DEF Exclusive, Critical
<1>8. ASSUME NEW t \in Threads, Use(t) PROVE Exclusive'
  BY <1>1, <1>8 DEF Use, At, Critical
<1>9. CASE Exit  BY <1>9, <1>0 DEF Exit, Exclusive
<1>10. CASE UNCHANGED envVars  BY <1>10, <1>0 DEF envVars, Exclusive
<1> QED  BY <1>2, <1>3, <1>4, <1>5, <1>6, <1>7, <1>8, <1>9, <1>10 DEF EnvNext

\* Push and pop alternate, as no other thread is between the two.
LEMMA StackStep == EnvInv /\ [EnvNext]_envVars => OneOnStack'
<1> SUFFICES ASSUME EnvInv, [EnvNext]_envVars PROVE OneOnStack'  OBVIOUS
<1>0. EnvTypeOK /\ Exclusive /\ OneOnStack  BY DEF EnvInv
<1>1. ASSUME NEW t \in Threads, NEW s,
             Goto(t, s), pc[t] # "pushed", s # "pushed", UNCHANGED top
      PROVE  OneOnStack'
  BY <1>0, <1>1, GotoOne DEF OneOnStack
<1>2. ASSUME NEW t \in Threads, pc[t] = "pushed", Goto(t, "popped"), top' = top - 1
      PROVE  OneOnStack'
  <2>1. \A u \in Threads \ {t} : pc[u] # "pushed"  BY <1>2, <1>0 DEF Exclusive, Critical
  <2>2. top = 1  BY <1>2, <1>0 DEF OneOnStack
  <2>3. \A u \in Threads : pc'[u] # "pushed"  BY <1>2, <2>1, <1>0, GotoOne
  <2> QED  BY <1>2, <2>2, <2>3 DEF OneOnStack
<1>3. ASSUME NEW t \in Threads, Call(t) PROVE OneOnStack'
  BY <1>1, <1>3 DEF Call, At
<1>4. ASSUME NEW t \in Threads, Lock(t) PROVE OneOnStack'
  BY <1>1, <1>4 DEF Lock, At
<1>5. ASSUME NEW t \in Threads, Push(t) PROVE OneOnStack'
  <2>1. pc[t] = "locked" /\ Goto(t, "pushed") /\ top' = top + 1  BY <1>5 DEF Push, At
  <2>2. \A u \in Threads : pc[u] # "pushed"  BY <2>1, <1>0 DEF Exclusive, Critical
  <2>3. top = 0  BY <2>2, <1>0 DEF OneOnStack
  <2>4. pc'[t] = "pushed"  BY <2>1, <1>0, GotoOne
  <2> QED  BY <2>1, <2>3, <2>4 DEF OneOnStack
<1>6. ASSUME NEW t \in Threads, Get(t) PROVE OneOnStack'
  BY <1>2, <1>6 DEF Get, At
<1>7. ASSUME NEW t \in Threads, Set(t) PROVE OneOnStack'
  BY <1>2, <1>7 DEF Set, At
<1>8. ASSUME NEW t \in Threads, Unlock(t) PROVE OneOnStack'
  <2>1. PICK s \in {"using", "idle"} : Goto(t, s)  BY <1>8 DEF Unlock
  <2> QED  BY <1>1, <1>8, <2>1 DEF Unlock, At
<1>9. ASSUME NEW t \in Threads, Use(t) PROVE OneOnStack'
  BY <1>1, <1>9 DEF Use, At
<1>10. CASE Exit  BY <1>10, <1>0 DEF Exit, OneOnStack
<1>11. CASE UNCHANGED envVars  BY <1>11, <1>0 DEF envVars, OneOnStack
<1> QED  BY <1>3, <1>4, <1>5, <1>6, <1>7, <1>8, <1>9, <1>10, <1>11 DEF EnvNext

\* A key is chosen by Call and stays.
LEMMA KeyStep == EnvInv /\ [EnvNext]_envVars => KeyKnown'
<1> SUFFICES ASSUME EnvInv, [EnvNext]_envVars PROVE KeyKnown'  OBVIOUS
<1>0. EnvTypeOK /\ KeyKnown  BY DEF EnvInv
<1>1. ASSUME NEW t \in Threads, Call(t) PROVE KeyKnown'
  <2>1. PICK k \in Keys : key' = [key EXCEPT ![t] = k]  BY <1>1 DEF Call
  <2>2. \A u \in Threads \ {t} : pc'[u] = pc[u]  BY <1>1, <1>0, GotoOne DEF Call
  <2> QED  BY <2>1, <2>2, <1>0 DEF KeyKnown, EnvTypeOK
<1>2. ASSUME NEW t \in Threads, NEW s, Goto(t, s), pc[t] # "idle", UNCHANGED key
      PROVE  KeyKnown'
  BY <1>0, <1>2, GotoOne DEF KeyKnown
<1>3. ASSUME NEW t \in Threads, Lock(t) \/ Push(t) \/ Get(t) \/ Set(t) \/ Unlock(t) \/ Use(t)
      PROVE  KeyKnown'
  BY <1>2, <1>3 DEF Lock, Push, Get, Set, Unlock, Use, At
<1>4. CASE Exit  BY <1>4, <1>0 DEF Exit, KeyKnown
<1>5. CASE UNCHANGED envVars  BY <1>5, <1>0 DEF envVars, KeyKnown
<1> QED  BY <1>1, <1>3, <1>4, <1>5 DEF EnvNext

\* A setting that is a string is never changed again; what was read is one.
LEMMA AnchoredStep == EnvInv /\ [EnvNext]_envVars => UsedStringsAnchored'
<1> SUFFICES ASSUME EnvInv, [EnvNext]_envVars PROVE UsedStringsAnchored'  OBVIOUS
<1>0. EnvTypeOK /\ KeyKnown /\ UsedStringsAnchored  BY DEF EnvInv
<1>1. ASSUME NEW t \in Threads, NEW s, Goto(t, s), s \notin {"popped", "using"},
             UNCHANGED globals,
             \A u \in Threads \ {t} : /\ op'[u] = op[u] /\ key'[u] = key[u]
                                      /\ value'[u] = value[u]
      PROVE  UsedStringsAnchored'
  BY <1>0, <1>1, GotoOne DEF UsedStringsAnchored
<1>2. ASSUME NEW t \in Threads, Call(t) PROVE UsedStringsAnchored'
  <2>1. \A u \in Threads \ {t} : /\ op'[u] = op[u] /\ key'[u] = key[u]
                                 /\ value'[u] = value[u]
    BY <1>2, <1>0 DEF Call, EnvTypeOK
  <2> QED  BY <1>1, <1>2, <2>1 DEF Call
<1>3. ASSUME NEW t \in Threads, Lock(t) \/ Push(t) \/ Use(t) PROVE UsedStringsAnchored'
  BY <1>1, <1>3 DEF Lock, Push, Use
<1>4. ASSUME NEW t \in Threads, Get(t) PROVE UsedStringsAnchored'
  <2>1. value'[t] = globals[key[t]]  BY <1>4, <1>0 DEF Get, EnvTypeOK
  <2>2. \A u \in Threads \ {t} : pc'[u] = pc[u] /\ value'[u] = value[u]
    BY <1>4, <1>0, GotoOne DEF Get, EnvTypeOK
  <2>3. UNCHANGED <<globals, op, key>>  BY <1>4 DEF Get
  <2> QED  BY <2>1, <2>2, <2>3, <1>0 DEF UsedStringsAnchored
<1>5. ASSUME NEW t \in Threads, Set(t) PROVE UsedStringsAnchored'
  <2>1. \A u \in Threads \ {t} : pc'[u] = pc[u]  BY <1>5, <1>0, GotoOne DEF Set
  <2>2. UNCHANGED <<op, key, value>> /\ op[t] # "get"  BY <1>5 DEF Set
  <2>3. \A k \in Keys : globals[k] # Nil => globals'[k] = globals[k]
    BY <1>5, <1>0 DEF Set, EnvTypeOK
  <2>4. \A u \in Threads \ {t} :
            (pc'[u] \in {"popped", "using"} /\ op[u] = "get" /\ value[u] \in Strings)
                => globals'[key[u]] = value[u]
    <3> SUFFICES ASSUME NEW u \in Threads \ {t}, pc'[u] \in {"popped", "using"},
                        op[u] = "get", value[u] \in Strings
                 PROVE  globals'[key[u]] = value[u]
      OBVIOUS
    <3>1. key[u] \in Keys  BY <2>1, <1>0 DEF KeyKnown
    <3>2. globals[key[u]] = value[u]  BY <2>1, <1>0 DEF UsedStringsAnchored
    <3>3. value[u] # Nil  BY EnvironmentAssumption
    <3> QED  BY <3>1, <3>2, <3>3, <2>3
  <2> QED  BY <2>2, <2>4 DEF UsedStringsAnchored
<1>6. ASSUME NEW t \in Threads, Unlock(t) PROVE UsedStringsAnchored'
  <2>1. pc[t] = "popped" /\ UNCHANGED <<globals, op, key, value>>  BY <1>6 DEF Unlock, At
  <2>2. \A u \in Threads \ {t} : pc'[u] = pc[u]  BY <1>6, <1>0, GotoOne DEF Unlock
  <2> QED  BY <2>1, <2>2, <1>0 DEF UsedStringsAnchored
<1>7. CASE Exit  BY <1>7, <1>0 DEF Exit, UsedStringsAnchored
<1>8. CASE UNCHANGED envVars  BY <1>8, <1>0 DEF envVars, UsedStringsAnchored
<1> QED  BY <1>2, <1>3, <1>4, <1>5, <1>6, <1>7, <1>8 DEF EnvNext

-----------------------------------------------------------------------------
\* At most one thread is inside; what is on the stack is that thread's.
LEMMA ExclusiveIsPrivate == EnvInv => StackPrivate
<1> SUFFICES ASSUME EnvInv PROVE StackPrivate  OBVIOUS
<1> DEFINE Inside == {t \in Threads : pc[t] \in {"locked", "pushed", "popped"}}
           Pushed == {t \in Threads : pc[t] = "pushed"}
<1>1. Inside \subseteq {mutex}  BY DEF EnvInv, Exclusive, Critical
<1>2. IsFiniteSet({mutex}) /\ Cardinality({mutex}) = 1  BY FS_Singleton
<1>3. Cardinality(Inside) <= 1  BY <1>1, <1>2, FS_Subset
<1>4. ASSUME Pushed = {} PROVE top = Cardinality(Pushed)
  <2>1. Cardinality(Pushed) = 0  BY <1>4, FS_EmptySet
  <2>2. top = 0  BY <1>4 DEF EnvInv, OneOnStack
  <2> QED  BY <2>1, <2>2
<1>5. ASSUME Pushed # {} PROVE top = Cardinality(Pushed)
  <2>1. Pushed = {mutex}  BY <1>5, <1>1
  <2>2. Cardinality(Pushed) = 1  BY <2>1, <1>2
  <2>3. top = 1  BY <1>5 DEF EnvInv, OneOnStack
  <2> QED  BY <2>2, <2>3
<1> QED  BY <1>3, <1>4, <1>5 DEF StackPrivate

\* Every reachable state of the environment is in order (qsf_getenv, qsf_setenv).
THEOREM EnvInvariance == EnvSpec => []EnvInv
<1>1. EnvInv /\ [EnvNext]_envVars => EnvInv'
  BY TypeStep, ExclusiveStep, StackStep, KeyStep, AnchoredStep DEF EnvInv
<1> QED  BY <1>1, InitEnv, PTL DEF EnvSpec

\* The shared Lua stack is one call's at a time, and is left as it was found: the
\* lua_pop of qsf_getenv and qsf_setenv takes away that call's own value.
THEOREM StackIsPrivate == EnvSpec => []StackPrivate
  BY EnvInvariance, ExclusiveIsPrivate, PTL

\* A string setting stays the setting while a caller of qsf_getenv uses it.
THEOREM StringsStayAnchored == EnvSpec => []UsedStringsAnchored
<1>1. EnvInv => UsedStringsAnchored  BY DEF EnvInv
<1> QED  BY <1>1, EnvInvariance, PTL

\* Type correctness: no value, key or string of the environment is anything else.
THEOREM EnvTypeCorrect == EnvSpec => []EnvTypeOK
<1>1. EnvInv => EnvTypeOK  BY DEF EnvInv
<1> QED  BY <1>1, EnvInvariance, PTL

-----------------------------------------------------------------------------
(* Start and end of the process *)

Orderly == ~signalled /\ ~hurried

NoneAlive == \A n \in Nodes : ~Alive(n)

\* Who stands behind the list, the mutex and the sockets.
Owners ==
    /\ \A n \in list : node[n] \in {"init", "run", "remove", "unlink"}
    /\ holder \in Nodes => node[holder] \in {"unlink", "unlock"}
    /\ \A n \in Nodes : node[n] \in {"unlink", "unlock"} => holder = n
    /\ \A n \in Nodes : n \in dealers <=> node[n] = "run"
    /\ \A n \in sockets : node[n] = "run"

\* What is set up in each stage of an orderly process.
Stages ==
    /\ \A n \in Nodes : exit[n] = "no"
    /\ exit[Main] = "no" <=> main # "exit"
    /\ main \in {"env", "context", "list", "first"} => NoneAlive
    /\ main = "env" => there = {}
    /\ main = "context" => there = {"env"}
    /\ main = "list" => there = {"env", "context"}
    /\ main \in {"first", "loop"} => there = {"env", "context", "mutex"}
    /\ main = "exit" => NoneAlive
    /\ exit[Main] = "env" => there = {"env", "context", "mutex"}

ShutdownInv == /\ TypeOK
               /\ UsedWhenThere
               /\ ~wrong => Owners
               /\ ~wrong /\ Orderly => Stages

\* The invariant holds when the process starts.
LEMMA InitInv == Init => ShutdownInv
  BY NodesAssumption DEF Init, ShutdownInv, TypeOK, UsedWhenThere, Orderly, Owners, Stages,
                         NoneAlive, Alive, ThreadIds

\* qsf_start keeps the invariant.
LEMMA StartInv == ShutdownInv /\ (StartStep \/ LoopEnds) => ShutdownInv'
<1> SUFFICES ASSUME ShutdownInv, StartStep \/ LoopEnds PROVE ShutdownInv'
  OBVIOUS
<1> USE NodesAssumption DEF ShutdownInv, TypeOK, UsedWhenThere, Orderly, Owners, Stages,
                            NoneAlive, Alive, ThreadIds, Runs, Uses
<1>1. CASE StartEnv
  BY <1>1, ZenonT(40) DEF StartEnv
<1>2. CASE StartContext
  BY <1>2 DEF StartContext, AfterContext
<1>3. CASE StartList
  BY <1>3 DEF StartList
<1>4. CASE StartFirst
  BY <1>4 DEF StartFirst, Create
<1>5. CASE LoopEnds
  BY <1>5, ZenonT(40) DEF LoopEnds
<1> QED
  BY <1>1, <1>2, <1>3, <1>4, <1>5 DEF StartStep

\* A node's thread keeps the invariant.
LEMMA NodeInv ==
    ASSUME ShutdownInv, NEW n \in Nodes,
           NodeStep(n) \/ NodeSocket(n) \/ \E m \in Nodes : NodeLaunch(n, m)
    PROVE  ShutdownInv'
<1> USE NodesAssumption DEF ShutdownInv, TypeOK, UsedWhenThere, Orderly, Owners, Stages,
                            NoneAlive, Alive, ThreadIds, Runs, Uses
<1>1. CASE NodeInit(n)
  BY <1>1 DEF NodeInit
<1>2. CASE NodeSocket(n)
  BY <1>2 DEF NodeSocket
<1>3. CASE \E m \in Nodes : NodeLaunch(n, m)
  BY <1>3 DEF NodeLaunch, Create
<1>4. CASE NodeClose(n)
  BY <1>4 DEF NodeClose, LeftOpen
<1>5. CASE NodeLock(n)
  BY <1>5 DEF NodeLock
<1>6. CASE NodeUnlink(n)
  BY <1>6 DEF NodeUnlink, Unlinked
<1>7. CASE NodeUnlock(n)
  BY <1>7 DEF NodeUnlock
<1> QED
  BY <1>1, <1>2, <1>3, <1>4, <1>5, <1>6, <1>7 DEF NodeStep

\* qsf_exit keeps the invariant, on whichever thread it runs.
LEMMA ExitInv ==
    ASSUME ShutdownInv, NEW t \in ThreadIds, Signal(t) \/ ExitStep(t)
    PROVE  ShutdownInv'
<1> USE NodesAssumption DEF ShutdownInv, TypeOK, UsedWhenThere, Orderly, Owners, Stages,
                            NoneAlive, Alive, ThreadIds, Runs, Uses
<1>1. CASE Signal(t)
  BY <1>1 DEF Signal
<1>2. CASE ExitEnv(t)
  BY <1>2 DEF ExitEnv
<1>3. CASE ExitNodes(t)
  BY <1>3 DEF ExitNodes
<1>4. CASE ExitTerm(t)
  BY <1>4 DEF ExitTerm
<1> QED
  BY <1>1, <1>2, <1>3, <1>4 DEF ExitStep

\* In every reachable state the invariant holds.
THEOREM ShutdownInvariance == Spec => []ShutdownInv
<1>1. ShutdownInv /\ [Next]_vars => ShutdownInv'
  <2> SUFFICES ASSUME ShutdownInv, [Next]_vars PROVE ShutdownInv'
    OBVIOUS
  <2>1. CASE UNCHANGED vars
    BY <2>1 DEF vars, ShutdownInv, TypeOK, UsedWhenThere, Orderly, Owners, Stages, NoneAlive,
                Alive
  <2>2. CASE Next
    BY <2>2, StartInv, NodeInv, ExitInv DEF Next
  <2> QED
    BY <2>1, <2>2
<1> QED
  BY <1>1, InitInv, PTL DEF Spec

\* Whatever is used is there, in a process that ends in order.
THEOREM UsedOnlyWhenThere == Spec => []UsedWhenThere
<1>1. ShutdownInv => UsedWhenThere
  BY DEF ShutdownInv
<1> QED
  BY <1>1, ShutdownInvariance, PTL

\* Every node in the list has a thread that will clean it up: qsf_node_exit may not.
THEOREM ListedNodesLive == Spec => []ListedAlive
<1>1. ShutdownInv => ListedAlive
  BY DEF ShutdownInv, ListedAlive, Owners
<1> QED
  BY <1>1, ShutdownInvariance, PTL

\* The router's socket is the only one that zmq_ctx_term waits for.
THEOREM TermWaitsForRouter == Spec => []OnlyRouterLeft
<1>1. ShutdownInv => OnlyRouterLeft
  <2> SUFFICES ASSUME ShutdownInv, exit[Main] = "term", Orderly
               PROVE  dealers = {} /\ sockets = {}
    BY DEF OnlyRouterLeft, Orderly
  <2>1. ~wrong
    BY DEF ShutdownInv, UsedWhenThere, Orderly
  <2>2. NoneAlive
    BY <2>1 DEF ShutdownInv, Stages
  <2> QED
    BY <2>1, <2>2 DEF ShutdownInv, TypeOK, Owners, NoneAlive, Alive
<1> QED
  BY <1>1, ShutdownInvariance, PTL
=============================================================================
