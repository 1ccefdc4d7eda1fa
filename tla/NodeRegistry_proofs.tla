------------------------ MODULE NodeRegistry_proofs --------------------------
(***************************************************************************)
(* Proofs about NodeRegistry, for any number of threads, objects and names.*)
(***************************************************************************)
EXTENDS NodeRegistry, SequenceLemmas, TLAPS

-----------------------------------------------------------------------------
(* The linked nodes, said without positions *)

\* find_from_node_list answers yes exactly when some linked object has the name.
LEMMA FoundLinked ==
    ASSUME NEW n  PROVE Found(n) <=> \E o \in Linked : name[o] = n
BY DEF Found, NamedAt, Linked, ToSet

\* What the list, the heap and the names have to do with each other.
ListInv ==
    /\ list \in Seq(Objects)
    /\ IsInjective(list)
    /\ Linked \subseteq Objects
    /\ allocated = Linked
    /\ count = Len(list)
    /\ name \in [Objects -> Names \cup {Nobody}]
    /\ \A o \in Linked : name[o] \in Names
    /\ \A o, p \in Linked : name[o] = name[p] => o = p

\* remove_from_node_list(s) searches by name, and takes out and frees s itself.
LEMMA RemoveTakesOutTheArgument ==
    ASSUME ListInv, NEW s \in Linked, RemoveFromList(s)
    PROVE  /\ ListInv'
           /\ Linked' = Linked \ {s}
           /\ name' = [name EXCEPT ![s] = Nobody]
<1> USE DEF ListInv
<1>1. PICK k \in 1 .. Len(list) : list[k] = s  BY DEF Linked, ToSet
<1>2. NamedAt(name[s]) = {k}
  BY <1>1 DEF NamedAt, Linked, ToSet, IsInjective
<1>3. Min({k}) = k  BY <1>1 DEF Min
<1>4. Found(name[s])  BY <1>2 DEF Found
<1>5. /\ list' = RemoveAt(list, k)
      /\ allocated' = allocated \ {s}
      /\ name' = [name EXCEPT ![s] = Nobody]
      /\ count' = count - 1
  BY <1>1, <1>2, <1>3, <1>4 DEF RemoveFromList
<1>6. /\ list' \in Seq(Objects)
      /\ Len(list') = Len(list) - 1
      /\ IsInjective(list')
      /\ ToSet(list') = ToSet(list) \ {s}
  BY <1>1, <1>5, RemoveAtDef, RemoveAtSet
<1>7. Linked' = Linked \ {s}  BY <1>6 DEF Linked
<1>8. name' \in [Objects -> Names \cup {Nobody}]  BY <1>5
<1>9. \A o \in Linked' : name'[o] = name[o]  BY <1>5, <1>7
<1> QED  BY <1>5, <1>6, <1>7, <1>8, <1>9

\* create_from_node_list links one more object, under a name not yet linked.
LEMMA AppendLinksTheNewObject ==
    ASSUME ListInv, NEW o \in Objects \ allocated, NEW n \in Names, ~Found(n),
           list' = Append(list, o), allocated' = allocated \cup {o},
           name' = [name EXCEPT ![o] = n], count' = count + 1
    PROVE  ListInv' /\ Linked' = Linked \cup {o}
<1> USE DEF ListInv
<1>1. o \notin ToSet(list)  BY DEF Linked
<1>2. /\ list' \in Seq(Objects)
      /\ Len(list') = Len(list) + 1
      /\ IsInjective(list')
      /\ ToSet(list') = ToSet(list) \cup {o}
  BY <1>1, AppendSet
<1>3. Linked' = Linked \cup {o}  BY <1>2 DEF Linked
<1>4. name' \in [Objects -> Names \cup {Nobody}]  OBVIOUS
<1>5. \A p \in Linked : name'[p] = name[p] /\ name[p] # n  BY FoundLinked
<1>6. name'[o] = n  OBVIOUS
<1> QED  BY <1>2, <1>3, <1>4, <1>5, <1>6

-----------------------------------------------------------------------------
(* The inductive invariant *)

\* Where a thread can be, whether it holds the mutex, and what its call carries.
Control(t) ==
    /\ pc[t] \in Critical <=> mutex = t
    /\ t = Main => pc[t] \in CallStages \cup MainStages /\ back[t] = "dispatch"
    /\ t # Main => pc[t] \notin MainStages /\ back[t] # "dispatch"
    /\ answer[t] # "none" <=> pc[t] \in {"unlock create", "return"}
    /\ pc[t] \in {"lock create", "find", "insert", "spawn"} => request[t] \in Names

ControlInv == \A t \in Threads : Control(t)

\* Who uses which object.
OwnInv ==
    /\ \A t \in Threads : RunsNode(t) => self[t] \in Linked
    /\ \A t, u \in Threads : RunsNode(t) /\ RunsNode(u) /\ self[t] = self[u] => t = u
    /\ \A t \in Threads : pc[t] = "insert" => ~Found(request[t])
    /\ \A t \in Threads : pc[t] = "spawn" =>
          /\ new[t] \in Linked
          /\ name[new[t]] = request[t]
          /\ \A u \in Threads : RunsNode(u) => self[u] # new[t]
    /\ \A o \in Linked : \/ \E t \in Threads : RunsNode(t) /\ self[t] = o
                         \/ \E t \in Threads : pc[t] = "spawn" /\ new[t] = o

\* What is closed by the stage a node's thread has reached, counting a call
\* made by a finalizer as part of "close lua".
PastDealer(t) == \/ pc[t] \in {"init", "close lua", "close loop", "lock remove", "remove"}
                 \/ pc[t] \in CallStages /\ back[t] = "close lua"
PastLua(t) == pc[t] \in {"init", "close loop", "lock remove", "remove"}
PastTag(t) == pc[t] \in {"init", "lock remove", "remove"}

ResourceInv ==
    /\ dealers \cup vms \cup good \subseteq Linked
    /\ \A t \in Threads : pc[t] = "spawn" => new[t] \notin dealers \cup vms \cup good
    /\ \A t \in NodeThreads : PastDealer(t) => self[t] \notin dealers
    /\ \A t \in NodeThreads : PastLua(t) => self[t] \notin vms
    /\ \A t \in NodeThreads : PastTag(t) => self[t] \notin good

IInv == TypeOK /\ ListInv /\ ControlInv /\ OwnInv /\ ResourceInv

\* Three actions touch the list; the lemmas above say what they do to it.
LEMMA InsertEffect ==
    ASSUME IInv, NEW t \in Threads, Insert(t)
    PROVE  \E o \in Objects \ allocated :
              /\ ListInv' /\ Linked' = Linked \cup {o}
              /\ new' = [new EXCEPT ![t] = o]
              /\ name' = [name EXCEPT ![o] = request[t]]
              /\ dealers' = dealers \ {o} /\ vms' = vms \ {o} /\ good' = good \ {o}
<1>1. PICK o \in Objects \ allocated :
         /\ allocated' = allocated \cup {o}
         /\ name' = [name EXCEPT ![o] = request[t]]
         /\ dealers' = dealers \ {o} /\ vms' = vms \ {o} /\ good' = good \ {o}
         /\ list' = Append(list, o)
         /\ new' = [new EXCEPT ![t] = o]
  BY DEF Insert
<1>2. request[t] \in Names /\ ~Found(request[t]) /\ count' = count + 1
  BY DEF Insert, IInv, ControlInv, Control, OwnInv
<1>3. ListInv' /\ Linked' = Linked \cup {o}
  BY <1>1, <1>2, AppendLinksTheNewObject DEF IInv
<1> QED  BY <1>1, <1>3

\* When uv_thread_create fails, the object just linked goes, and no other.
LEMMA SpawnFailsEffect ==
    ASSUME IInv, NEW t \in Threads, SpawnFails(t)
    PROVE  /\ ListInv' /\ Linked' = Linked \ {new[t]}
           /\ name' = [name EXCEPT ![new[t]] = Nobody]
BY RemoveTakesOutTheArgument DEF SpawnFails, IInv, OwnInv

\* cleanup_node takes out the node of the thread that runs it, and no other.
LEMMA UnlinkEffect ==
    ASSUME IInv, NEW t \in NodeThreads, Unlink(t)
    PROVE  /\ ListInv' /\ Linked' = Linked \ {self[t]}
           /\ name' = [name EXCEPT ![self[t]] = Nobody]
<1>1. self[t] \in Linked  BY DEF Unlink, IInv, OwnInv, RunsNode, NodeThreads
<1> QED  BY <1>1, RemoveTakesOutTheArgument DEF Unlink, IInv

\* The other actions leave it alone.
Quietly == UNCHANGED <<list, count, allocated, name>>

\* A step of the process is a step of one thread, or changes nothing.
LEMMA NextCases ==
    ASSUME [Next]_vars
    PROVE  \/ \E t \in Threads : Insert(t)
           \/ \E t \in Threads : SpawnFails(t)
           \/ \E t \in NodeThreads : Unlink(t)
           \/ Quietly
BY ZenonT(40) DEF Next, vars, heap, Quietly, Create, Boot, Cleanup, Start, Launch, Call, LockCreate,
       Find, Spawn, UnlockCreate, Return, InitNode, InitFails, Load, ScriptEnds,
       CloseDealer, CloseLua, CloseLoop, LockRemove, UnlockRemove, Over

\* Every step keeps the list free of duplicate objects and duplicate names.
LEMMA ListStep == IInv /\ [Next]_vars => ListInv'
<1> SUFFICES ASSUME IInv, [Next]_vars  PROVE ListInv'  OBVIOUS
<1>1. CASE \E t \in Threads : Insert(t)  BY <1>1, InsertEffect
<1>2. CASE \E t \in Threads : SpawnFails(t)  BY <1>2, SpawnFailsEffect
<1>3. CASE \E t \in NodeThreads : Unlink(t)  BY <1>3, UnlinkEffect
<1>4. CASE Quietly  BY <1>4 DEF Quietly, IInv, ListInv, Linked
<1> QED  BY <1>1, <1>2, <1>3, <1>4, NextCases

\* The types of the variables that ListInv does not speak of.
TypeRest ==
    /\ mutex \in Threads \cup {Nobody}
    /\ dealers \in SUBSET Objects
    /\ vms \in SUBSET Objects
    /\ good \in SUBSET Objects
    /\ pc \in [Threads -> Stages]
    /\ self \in [Threads -> Objects \cup {Nobody}]
    /\ request \in [Threads -> Names \cup {TooLong, Reserved, Nobody}]
    /\ new \in [Threads -> Objects \cup {Nobody}]
    /\ answer \in [Threads -> Answers \cup {"none"}]
    /\ back \in [Threads -> {"script", "close lua", "dispatch"}]

\* The part of the type invariant that is not about the list and the heap.
LEMMA TypeParts == ListInv => (TypeOK <=> TypeRest)
<1> SUFFICES ASSUME ListInv  PROVE TypeOK <=> TypeRest  OBVIOUS
<1>1. list \in Seq(Objects) /\ count \in Nat /\ allocated \in SUBSET Objects
      /\ name \in [Objects -> Names \cup {Nobody}]
  BY DEF ListInv
<1> QED  BY <1>1 DEF TypeOK, TypeRest

\* The stages, spelled out.
LEMMA StageSet ==
    /\ {"lock create", "return", "find", "insert", "spawn", "unlock create", "init", "load",
        "script", "close dealer", "close lua", "close loop", "lock remove", "remove",
        "unlock remove", "start", "dispatch", "aborted", "idle"} \subseteq Stages
    /\ {"ok", "too long", "reserved", "exists", "no thread"} \subseteq Answers
BY DEF Stages, CallStages, BodyStages, MainStages, CreateSection, RemoveSection, Answers

\* Every step keeps the types of the variables.
LEMMA TypeStep == IInv /\ ListInv' /\ [Next]_vars => TypeRest'
<1> SUFFICES ASSUME IInv, ListInv', [Next]_vars  PROVE TypeRest'  OBVIOUS
<1>0. TypeRest  BY TypeParts DEF IInv
<1>00. \A t \in Threads : RunsNode(t) => self[t] \in Objects
  BY DEF IInv, OwnInv, ListInv
<1> USE RegistryAssumption, <1>0, StageSet DEF TypeRest, NodeThreads, Goto, Lock, heap, local
<1>1. ASSUME NEW t \in Threads, NEW n \in Names \cup {TooLong, Reserved},
             NEW cont \in {"script", "close lua", "dispatch"}, Call(t, n, cont)
      PROVE  TypeRest'
  <2>1. PICK stage \in Stages : pc' = [pc EXCEPT ![t] = stage]  BY <1>1 DEF Call
  <2>2. answer' \in [Threads -> Answers \cup {"none"}]  BY <1>1, ZenonT(40) DEF Call
  <2>3. /\ request' = [request EXCEPT ![t] = n]
        /\ back' = [back EXCEPT ![t] = cont]
        /\ UNCHANGED <<mutex, dealers, vms, good, self, new>>
    BY <1>1 DEF Call
  <2> QED  BY <2>1, <2>2, <2>3
<1>2. CASE Start  BY <1>1, <1>2 DEF Start
<1>3. ASSUME NEW t \in NodeThreads, NEW n \in Names \cup {TooLong, Reserved}, Launch(t, n)
      PROVE  TypeRest'
  <2>1. t \in Threads /\ pc[t] \in {"script", "close lua", "dispatch"}  BY <1>3 DEF Launch
  <2>2. Call(t, n, pc[t])  BY <1>3 DEF Launch
  <2>3. n \in Names \cup {TooLong, Reserved}  OBVIOUS
  <2> QED  BY ONLY <1>1, <2>1, <2>2, <2>3
<1>4. ASSUME NEW t \in Threads, Create(t)  PROVE TypeRest'
  <2>1. CASE LockCreate(t)  BY <2>1 DEF LockCreate
  <2>2. CASE Find(t)
    <3>1. PICK stage \in Stages : pc' = [pc EXCEPT ![t] = stage]  BY <2>2 DEF Find
    <3>2. answer' \in [Threads -> Answers \cup {"none"}]  BY <2>2, ZenonT(40) DEF Find
    <3>3. UNCHANGED <<mutex, heap, self, request, new, back>>  BY <2>2 DEF Find
    <3> QED  BY <3>1, <3>2, <3>3
  <2>3. CASE Insert(t)
    <3>1. PICK o \in Objects :
             /\ dealers' = dealers \ {o} /\ vms' = vms \ {o} /\ good' = good \ {o}
             /\ new' = [new EXCEPT ![t] = o]
      BY <2>3 DEF Insert
    <3>2. pc' = [pc EXCEPT ![t] = "spawn"] /\ UNCHANGED <<mutex, self, request, answer, back>>
      BY <2>3 DEF Insert
    <3> QED  BY <3>1, <3>2
  <2>4. ASSUME NEW u \in Threads, Spawn(t, u)  PROVE TypeRest'
    <3>1. pc' \in [Threads -> Stages]  BY <2>4 DEF Spawn
    <3>2. self' \in [Threads -> Objects \cup {Nobody}]  BY <2>4 DEF Spawn
    <3> QED  BY <2>4, <3>1, <3>2 DEF Spawn
  <2>5. CASE SpawnFails(t)  BY <2>5 DEF SpawnFails
  <2>6. CASE UnlockCreate(t)  BY <2>6 DEF UnlockCreate
  <2>7. CASE Return(t)
    <3>1. back[t] \in Stages  OBVIOUS
    <3>2. pc' \in [Threads -> Stages]  BY <2>7, <3>1 DEF Return
    <3> QED  BY <2>7, <3>2 DEF Return
  <2> QED  BY <1>4, <2>1, <2>2, <2>3, <2>4, <2>5, <2>6, <2>7 DEF Create
<1>5. ASSUME NEW t \in NodeThreads, Boot(t) \/ ScriptEnds(t) \/ Cleanup(t)  PROVE TypeRest'
  <2>1. CASE InitNode(t)
    <3>1. self[t] \in Objects  BY <2>1, <1>00 DEF InitNode, RunsNode
    <3> QED  BY <2>1, <3>1 DEF InitNode
  <2>2. CASE InitFails(t)  BY <2>2 DEF InitFails
  <2>3. CASE Load(t)
    <3>1. PICK stage \in Stages : pc' = [pc EXCEPT ![t] = stage]  BY <2>3 DEF Load
    <3> QED  BY <2>3, <3>1 DEF Load
  <2>4. CASE ScriptEnds(t)  BY <2>4 DEF ScriptEnds
  <2>5. CASE CloseDealer(t)  BY <2>5 DEF CloseDealer
  <2>6. CASE CloseLua(t)  BY <2>6 DEF CloseLua
  <2>7. CASE CloseLoop(t)  BY <2>7 DEF CloseLoop
  <2>8. CASE LockRemove(t)  BY <2>8 DEF LockRemove
  <2>9. CASE Unlink(t)  BY <2>9 DEF Unlink
  <2>10. CASE UnlockRemove(t)  BY <2>10 DEF UnlockRemove
  <2> QED  BY <1>5, <2>1, <2>2, <2>3, <2>4, <2>5, <2>6, <2>7, <2>8, <2>9, <2>10
           DEF Boot, Cleanup
<1>6. CASE UNCHANGED vars  BY <1>6 DEF vars
<1> QED  BY <1>2, <1>3, <1>4, <1>5, <1>6 DEF Next, Over

\* Control: only the thread that takes a step moves (and the one it starts).
LEMMA ControlStep == IInv /\ [Next]_vars => ControlInv'
<1> SUFFICES ASSUME IInv, [Next]_vars, NEW v \in Threads  PROVE Control(v)'
  BY DEF ControlInv
<1>0. TypeRest /\ Control(v) /\ \A t \in Threads : Control(t)
  BY TypeParts DEF IInv, ControlInv
<1> USE RegistryAssumption
    DEF Control, TypeRest, NodeThreads, Goto, Lock, heap, local, Critical, CallStages,
        MainStages, CreateSection, RemoveSection
<1> DEFINE Effect(t, n, cont) ==
              /\ UNCHANGED mutex /\ back'[t] = cont
              /\ v # t => /\ pc'[v] = pc[v] /\ back'[v] = back[v]
                          /\ answer'[v] = answer[v] /\ request'[v] = request[v]
              /\ \/ /\ n \in Names /\ request'[t] = n
                    /\ pc'[t] = "lock create" /\ answer'[t] = answer[t]
                 \/ pc'[t] = "return" /\ answer'[t] \in {"too long", "reserved"}
<1>00. ASSUME NEW t \in Threads, NEW n, NEW cont, Call(t, n, cont)
       PROVE  Effect(t, n, cont)
  <2>1. /\ back' = [back EXCEPT ![t] = cont] /\ request' = [request EXCEPT ![t] = n]
        /\ UNCHANGED mutex
    BY <1>00 DEF Call
  <2>2. \/ /\ n \in Names /\ pc' = [pc EXCEPT ![t] = "lock create"] /\ answer' = answer
        \/ /\ pc' = [pc EXCEPT ![t] = "return"]
           /\ \E a \in {"too long", "reserved"} : answer' = [answer EXCEPT ![t] = a]
    BY <1>00 DEF Call
  <2> QED  BY <1>0, <2>1, <2>2, ZenonT(40)
<1>1. CASE Start
  <2>1. Control(Main) /\ pc[Main] = "start" /\ Call(Main, StartName, "dispatch")
    BY <1>0, <1>1 DEF Start
  <2>2. Effect(Main, StartName, "dispatch")
    <3> HIDE DEF Effect
    <3>1. Main \in Threads  OBVIOUS
    <3> QED  BY ONLY <1>00, <2>1, <3>1
  <2>3. CASE v = Main  BY ONLY <2>1, <2>2, <2>3
                       DEF Control, Critical, CallStages, MainStages, CreateSection, RemoveSection
  <2>4. CASE v # Main  BY ONLY <1>0, <2>2, <2>4 DEF Control
  <2> QED  BY <2>3, <2>4
<1>2. ASSUME NEW t \in NodeThreads, NEW n \in Names \cup {TooLong, Reserved}, Launch(t, n)
      PROVE  Control(v)'
  <2>1. /\ Control(t) /\ t \in Threads /\ t # Main
        /\ pc[t] \in {"script", "close lua"} /\ Call(t, n, pc[t])
    BY <1>0, <1>2 DEF Launch
  <2>2. Effect(t, n, pc[t])
    <3> HIDE DEF Effect
    <3> QED  BY ONLY <1>00, <2>1
  <2>3. CASE v = t  BY ONLY <2>1, <2>2, <2>3
                    DEF Control, Critical, CallStages, MainStages, CreateSection, RemoveSection
  <2>4. CASE v # t  BY ONLY <1>0, <2>2, <2>4 DEF Control
  <2> QED  BY <2>3, <2>4
<1> HIDE DEF Effect
<1>3. ASSUME NEW t \in Threads, Create(t)  PROVE Control(v)'
  <2>0. TypeRest /\ Control(t) /\ Control(v)  BY <1>0
  <2>1. CASE LockCreate(t)  BY <2>0, <2>1 DEF LockCreate
  <2>2. CASE Find(t)  BY <2>0, <2>2, ZenonT(40) DEF Find
  <2>3. CASE Insert(t)  BY <2>0, <2>3 DEF Insert
  <2>4. CASE SpawnFails(t)  BY <2>0, <2>4 DEF SpawnFails
  <2>5. CASE UnlockCreate(t)  BY <2>0, <2>5 DEF UnlockCreate
  <2>6. CASE Return(t)  BY <2>0, <2>6 DEF Return
  <2>7. ASSUME NEW u \in Threads, Spawn(t, u)  PROVE Control(v)'
    BY <2>0, <2>7 DEF Spawn
  <2> QED  BY <1>3, <2>1, <2>2, <2>3, <2>4, <2>5, <2>6, <2>7 DEF Create
<1>4. ASSUME NEW t \in NodeThreads, Boot(t) \/ ScriptEnds(t) \/ Cleanup(t)
      PROVE  Control(v)'
  <2>0. TypeRest /\ Control(t) /\ Control(v)  BY <1>0
  <2>1. CASE InitNode(t)  BY <2>0, <2>1 DEF InitNode
  <2>2. CASE InitFails(t)  BY <2>0, <2>2 DEF InitFails
  <2>3. CASE Load(t)  BY <2>0, <2>3 DEF Load
  <2>4. CASE ScriptEnds(t)  BY <2>0, <2>4 DEF ScriptEnds
  <2>5. CASE CloseDealer(t)  BY <2>0, <2>5 DEF CloseDealer
  <2>6. CASE CloseLua(t)  BY <2>0, <2>6 DEF CloseLua
  <2>7. CASE CloseLoop(t)  BY <2>0, <2>7 DEF CloseLoop
  <2>8. CASE LockRemove(t)  BY <2>0, <2>8 DEF LockRemove
  <2>9. CASE Unlink(t)  BY <2>0, <2>9 DEF Unlink
  <2>10. CASE UnlockRemove(t)  BY <2>0, <2>10 DEF UnlockRemove
  <2> QED  BY <1>4, <2>1, <2>2, <2>3, <2>4, <2>5, <2>6, <2>7, <2>8, <2>9, <2>10
           DEF Boot, Cleanup
<1>5. CASE UNCHANGED vars  BY <1>0, <1>5 DEF vars
<1> QED  BY <1>1, <1>2, <1>3, <1>4, <1>5 DEF Next, Over

\* A step that links and frees nothing, starts and ends no node, and enters
\* neither "insert" nor "spawn" keeps the objects where they are.
LEMMA OwnFrame ==
    ASSUME OwnInv, Linked' = Linked, name' = name,
           \A t \in Threads : RunsNode(t)' <=> RunsNode(t),
           \A t \in Threads : RunsNode(t) => self'[t] = self[t],
           \A t \in Threads : pc'[t] = "insert" => pc[t] = "insert" /\ request'[t] = request[t],
           \A t \in Threads : pc'[t] = "spawn" <=> pc[t] = "spawn",
           \A t \in Threads : pc[t] = "spawn" =>
                                  new'[t] = new[t] /\ request'[t] = request[t]
    PROVE  OwnInv'
<1> USE DEF OwnInv
<1>1. \A n : Found(n)' <=> Found(n)
  <2> TAKE n
  <2>1. Found(n) <=> \E o \in Linked : name[o] = n  BY FoundLinked
  <2>2. Found(n)' <=> \E o \in Linked' : name'[o] = n
    BY DEF Found, NamedAt, Linked, ToSet
  <2> QED  BY <2>1, <2>2
<1>2. \A t \in Threads : RunsNode(t)' => self'[t] \in Linked'  OBVIOUS
<1>3. \A t, u \in Threads : RunsNode(t)' /\ RunsNode(u)' /\ self'[t] = self'[u] => t = u
  OBVIOUS
<1>4. \A t \in Threads : pc'[t] = "insert" => ~Found(request[t])'
  BY <1>1
<1>5. \A t \in Threads : pc'[t] = "spawn" =>
          /\ new'[t] \in Linked'
          /\ name'[new'[t]] = request'[t]
          /\ \A u \in Threads : RunsNode(u)' => self'[u] # new'[t]
  OBVIOUS
<1>6. \A o \in Linked' : \/ \E t \in Threads : RunsNode(t)' /\ self'[t] = o
                         \/ \E t \in Threads : pc'[t] = "spawn" /\ new'[t] = o
  OBVIOUS
<1> QED  BY <1>2, <1>3, <1>4, <1>5, <1>6

\* The actions to which OwnFrame applies.
LEMMA OwnQuiet ==
    ASSUME IInv, NEW t \in Threads,
           \/ t = Main /\ Start
           \/ t # Main /\ \E n \in Names \cup {TooLong, Reserved} : Launch(t, n)
           \/ LockCreate(t) \/ UnlockCreate(t) \/ Return(t)
           \/ (Find(t) /\ Found(request[t]))
           \/ (t # Main /\ (Boot(t) \/ ScriptEnds(t) \/ CloseDealer(t) \/ CloseLua(t)
                           \/ CloseLoop(t) \/ LockRemove(t) \/ UnlockRemove(t)))
    PROVE  OwnInv'
<1>0. TypeRest /\ Control(t) /\ OwnInv  BY TypeParts DEF IInv, ControlInv
<1> DEFINE Frame == /\ Linked' = Linked /\ name' = name
                    /\ \A u \in Threads : RunsNode(u)' <=> RunsNode(u)
                    /\ \A u \in Threads : RunsNode(u) => self'[u] = self[u]
                    /\ \A u \in Threads : pc'[u] = "insert" =>
                                              pc[u] = "insert" /\ request'[u] = request[u]
                    /\ \A u \in Threads : pc'[u] = "spawn" <=> pc[u] = "spawn"
                    /\ \A u \in Threads : pc[u] = "spawn" =>
                                              new'[u] = new[u] /\ request'[u] = request[u]
<1> SUFFICES Frame  BY <1>0, OwnFrame
<1> USE <1>0 DEF TypeRest, RunsNode, NodeThreads, Goto, Lock, heap, local, Linked
<1>1. CASE t = Main /\ Start  BY <1>1 DEF Start, Call
<1>2. ASSUME t # Main, NEW n \in Names \cup {TooLong, Reserved}, Launch(t, n)
      PROVE  Frame
  BY <1>2 DEF Launch, Call
<1>3. CASE LockCreate(t)  BY <1>3 DEF LockCreate
<1>4. CASE UnlockCreate(t)  BY <1>4 DEF UnlockCreate
<1>5. CASE Return(t)  BY <1>5 DEF Return, Control, CallStages, MainStages, CreateSection
<1>6. CASE Find(t) /\ Found(request[t])  BY <1>6 DEF Find
<1>7. CASE t # Main /\ Boot(t)  BY <1>7 DEF Boot, InitNode, InitFails, Load
<1>8. CASE t # Main /\ ScriptEnds(t)  BY <1>8 DEF ScriptEnds
<1>9. CASE t # Main /\ CloseDealer(t)  BY <1>9 DEF CloseDealer
<1>10. CASE t # Main /\ CloseLua(t)  BY <1>10 DEF CloseLua
<1>11. CASE t # Main /\ CloseLoop(t)  BY <1>11 DEF CloseLoop
<1>12. CASE t # Main /\ LockRemove(t)  BY <1>12 DEF LockRemove
<1>13. CASE t # Main /\ UnlockRemove(t)  BY <1>13 DEF UnlockRemove
<1> HIDE DEF Frame
<1> QED  BY <1>1, <1>2, <1>3, <1>4, <1>5, <1>6, <1>7, <1>8, <1>9, <1>10, <1>11, <1>12, <1>13

\* Only one thread is between its lock and its unlock.
LEMMA OneCritical ==
    ASSUME IInv, NEW t \in Threads, NEW u \in Threads, pc[t] \in Critical, pc[u] \in Critical
    PROVE  t = u
BY DEF IInv, ControlInv, Control

\* Every step leaves each running thread with a linked node of its own.
LEMMA OwnStep == IInv /\ ListInv' /\ [Next]_vars => OwnInv'
<1> SUFFICES ASSUME IInv, ListInv', [Next]_vars  PROVE OwnInv'  OBVIOUS
<1>0. TypeRest /\ ControlInv /\ OwnInv /\ ListInv  BY TypeParts DEF IInv
<1>00. /\ \A n : Found(n) <=> \E o \in Linked : name[o] = n
       /\ \A n : Found(n)' <=> \E o \in Linked' : name'[o] = n
  BY FoundLinked DEF Found, NamedAt, Linked, ToSet
<1>1. ASSUME NEW t \in Threads, Find(t), ~Found(request[t])  PROVE OwnInv'
  <2>1. /\ pc[t] = "find" /\ pc' = [pc EXCEPT ![t] = "insert"]
        /\ Linked' = Linked /\ name' = name
        /\ UNCHANGED <<self, request, new>>
    BY <1>1 DEF Find, Goto, heap, Linked
  <2>2. \A u \in Threads : RunsNode(u)' <=> RunsNode(u)
    BY <1>0, <2>1 DEF TypeRest, RunsNode, ControlInv, Control, MainStages
  <2>3. \A u \in Threads : pc'[u] = "spawn" <=> pc[u] = "spawn"
    BY <1>0, <2>1 DEF TypeRest
  <2>4. ASSUME NEW u \in Threads, pc'[u] = "insert"  PROVE ~Found(request[u])'
    <3>1. ~Found(request[u])
      BY <1>0, <1>1, <2>1, <2>4, ZenonT(40) DEF TypeRest, OwnInv
    <3> QED  BY <3>1, <2>1, <1>00
  <2> QED  BY <1>0, <2>1, <2>2, <2>3, <2>4 DEF OwnInv
<1>2. ASSUME NEW t \in Threads, Insert(t)  PROVE OwnInv'
  <2>1. PICK o \in Objects \ allocated :
           /\ Linked' = Linked \cup {o}
           /\ new' = [new EXCEPT ![t] = o]
           /\ name' = [name EXCEPT ![o] = request[t]]
    BY <1>2, InsertEffect
  <2>2. /\ pc[t] = "insert" /\ pc' = [pc EXCEPT ![t] = "spawn"]
        /\ UNCHANGED <<self, request>>
    BY <1>2 DEF Insert, Goto
  <2>3. o \notin Linked /\ name'[o] = request[t] /\ \A p \in Linked : name'[p] = name[p]
    BY <1>0, <2>1 DEF ListInv
  <2>4. \A u \in Threads : RunsNode(u)' <=> RunsNode(u)
    BY <1>0, <2>2 DEF TypeRest, RunsNode
  <2>5. \A u \in Threads \ {t} : pc'[u] = pc[u] /\ pc[u] \notin {"insert", "spawn"}
    BY <1>0, <2>2, OneCritical DEF TypeRest, Critical, CreateSection
  <2>6. pc'[t] = "spawn" /\ new'[t] = o  BY <1>0, <2>1, <2>2 DEF TypeRest
  <2> QED  BY <1>0, <2>1, <2>2, <2>3, <2>4, <2>5, <2>6 DEF OwnInv
<1>3. ASSUME NEW t \in Threads, NEW w \in Threads, Spawn(t, w)  PROVE OwnInv'
  <2>1. /\ pc[t] = "spawn" /\ w \in NodeThreads /\ pc[w] = "idle"
        /\ pc' = [pc EXCEPT ![t] = "unlock create", ![w] = "init"]
        /\ self' = [self EXCEPT ![w] = new[t]]
        /\ Linked' = Linked /\ UNCHANGED <<name, request, new>>
    BY <1>3 DEF Spawn, heap, Linked
  <2>2. /\ t # w /\ pc'[t] = "unlock create" /\ pc'[w] = "init" /\ self'[w] = new[t]
        /\ \A u \in Threads \ {t, w} : pc'[u] = pc[u]
        /\ \A u \in Threads \ {w} : self'[u] = self[u]
    BY <1>0, <2>1 DEF TypeRest
  <2>3. \A u \in Threads : RunsNode(u)' <=> RunsNode(u) \/ u = w
    BY <2>1, <2>2 DEF RunsNode
  <2>4. \A u \in Threads : pc'[u] \notin {"insert", "spawn"}
    BY <2>1, <2>2, OneCritical DEF Critical, CreateSection
  <2>4a. Linked' = Linked  BY <2>1
  <2>5. /\ ~RunsNode(w) /\ new[t] \in Linked
        /\ \A u \in Threads : RunsNode(u) => self[u] # new[t] /\ self[u] \in Linked
    BY <1>0, <2>1, Zenon DEF OwnInv, RunsNode
  <2>6. ASSUME NEW u \in Threads, RunsNode(u)'  PROVE self'[u] \in Linked'
    <3>1. CASE u = w  BY <3>1, <2>4a, <2>2, <2>5
    <3>2. CASE u # w  BY <3>2, <2>4a, <2>2, <2>3, <2>5, <2>6
    <3> QED  BY <3>1, <3>2
  <2>7. ASSUME NEW u \in Threads, NEW v \in Threads,
               RunsNode(u)', RunsNode(v)', self'[u] = self'[v]
        PROVE  u = v
    <3>1. ASSUME u # w, v # w  PROVE u = v
      <4>1. RunsNode(u) /\ RunsNode(v) /\ self[u] = self[v]  BY <2>2, <2>3, <2>7, <3>1
      <4> QED  BY <4>1, <1>0 DEF OwnInv
    <3>2. u = w <=> v = w  BY <2>2, <2>3, <2>5, <2>7
    <3> QED  BY <3>1, <3>2
  <2>8. \A u \in Threads : pc[u] = "spawn" => u = t
    BY <2>1, OneCritical DEF Critical, CreateSection
  <2>9. ASSUME NEW o \in Linked'  PROVE \E u \in Threads : RunsNode(u)' /\ self'[u] = o
    <3>1. CASE o = new[t]  BY <3>1, <2>1, <2>2, <2>3
    <3>2. CASE o # new[t]
      <4>1. PICK u \in Threads : RunsNode(u) /\ self[u] = o
        BY <3>2, <1>0, <2>1, <2>8 DEF OwnInv
      <4> QED  BY <4>1, <2>2, <2>3, <2>5
    <3> QED  BY <3>1, <3>2
  <2> QED  BY <2>4, <2>6, <2>7, <2>9 DEF OwnInv
<1>4. ASSUME NEW t \in Threads, SpawnFails(t)  PROVE OwnInv'
  <2>1. Linked' = Linked \ {new[t]} /\ name' = [name EXCEPT ![new[t]] = Nobody]
    BY <1>4, SpawnFailsEffect
  <2>2. /\ pc[t] = "spawn" /\ pc' = [pc EXCEPT ![t] = "unlock create"]
        /\ UNCHANGED <<self, request, new>>
    BY <1>4 DEF SpawnFails, Goto
  <2>3. \A u \in Threads : RunsNode(u)' <=> RunsNode(u)
    BY <1>0, <2>2 DEF TypeRest, RunsNode
  <2>4. \A u \in Threads : pc'[u] \notin {"insert", "spawn"}
    BY <1>0, <2>2, OneCritical DEF TypeRest, Critical, CreateSection
  <2>5. \A u \in Threads : pc[u] = "spawn" => u = t
    BY <2>2, OneCritical DEF Critical, CreateSection
  <2>6. \A u \in Threads : RunsNode(u) => self[u] \in Linked'
    BY <1>0, <2>1, <2>2 DEF OwnInv
  <2>7. \A o \in Linked' : \E u \in Threads : RunsNode(u) /\ self[u] = o
    BY <1>0, <2>1, <2>5 DEF OwnInv
  <2>8. \A u, v \in Threads : RunsNode(u) /\ RunsNode(v) /\ self[u] = self[v] => u = v
    BY <1>0 DEF OwnInv
  <2>9. self' = self  BY <2>2
  <2> HIDE <1>4
  <2> QED  BY <2>3, <2>4, <2>6, <2>7, <2>8, <2>9 DEF OwnInv
<1>5. ASSUME NEW t \in NodeThreads, Unlink(t)  PROVE OwnInv'
  <2>1. Linked' = Linked \ {self[t]} /\ name' = [name EXCEPT ![self[t]] = Nobody]
    BY <1>5, UnlinkEffect
  <2>2. /\ t \in Threads /\ pc[t] = "remove" /\ pc' = [pc EXCEPT ![t] = "unlock remove"]
        /\ UNCHANGED <<self, request, new>>
    BY <1>5 DEF Unlink, Goto, NodeThreads, local
  <2>3. \A u \in Threads : RunsNode(u)' <=> RunsNode(u) /\ u # t
    BY <1>0, <2>2 DEF TypeRest, RunsNode
  <2>4. \A u \in Threads : pc'[u] \notin {"insert", "spawn"} /\ pc[u] # "spawn"
    BY <1>0, <2>2, OneCritical DEF TypeRest, Critical, CreateSection, RemoveSection
  <2>5. RunsNode(t)  BY <1>5, <2>2 DEF RunsNode
  <2> QED  BY <1>0, <2>1, <2>2, <2>3, <2>4, <2>5 DEF OwnInv
<1>6. CASE UNCHANGED vars
  <2>1. Linked' = Linked /\ UNCHANGED <<name, pc, self, request, new>>
    BY <1>6 DEF vars, heap, local, Linked
  <2>2. \A u \in Threads : RunsNode(u)' <=> RunsNode(u)  BY <2>1 DEF RunsNode
  <2> QED  BY <1>0, <2>1, <2>2, OwnFrame
<1>7. CASE Start  BY <1>7, OwnQuiet, RegistryAssumption
<1>8. ASSUME NEW t \in Threads, Create(t)  PROVE OwnInv'
  <2>1. CASE Find(t)  BY <2>1, <1>1, OwnQuiet
  <2>2. CASE LockCreate(t) \/ UnlockCreate(t) \/ Return(t)  BY <2>2, OwnQuiet
  <2>3. CASE \E u \in Threads : Spawn(t, u)  BY <2>3, <1>3
  <2> QED  BY <1>2, <1>4, <1>8, <2>1, <2>2, <2>3 DEF Create
<1>9. ASSUME NEW t \in NodeThreads,
             \/ Boot(t) \/ ScriptEnds(t) \/ Cleanup(t)
             \/ \E n \in Names \cup {TooLong, Reserved} : Launch(t, n)
      PROVE  OwnInv'
  <2>1. t \in Threads /\ t # Main  BY DEF NodeThreads
  <2>2. CASE Unlink(t)  BY <1>5, <2>2
  <2>3. CASE Cleanup(t) /\ ~Unlink(t)  BY <2>1, <2>3, OwnQuiet DEF Cleanup
  <2>4. CASE Boot(t) \/ ScriptEnds(t)  BY <2>1, <2>4, OwnQuiet
  <2>5. CASE \E n \in Names \cup {TooLong, Reserved} : Launch(t, n)
    BY <2>1, <2>5, OwnQuiet
  <2> QED  BY <1>9, <2>2, <2>3, <2>4, <2>5
<1> QED  BY <1>6, <1>7, <1>8, <1>9 DEF Next, Over

\* Steps that open nothing keep what is closed closed.
LEMMA ResourceFrame ==
    ASSUME ResourceInv,
           dealers' \subseteq dealers, vms' \subseteq vms, good' \subseteq good,
           dealers' \cup vms' \cup good' \subseteq Linked',
           \A t \in Threads : pc'[t] = "spawn" => pc[t] = "spawn" /\ new'[t] = new[t],
           \A t \in NodeThreads : PastDealer(t)' =>
              (PastDealer(t) /\ self'[t] = self[t]) \/ self'[t] \notin dealers',
           \A t \in NodeThreads : PastLua(t)' =>
              (PastLua(t) /\ self'[t] = self[t]) \/ self'[t] \notin vms',
           \A t \in NodeThreads : PastTag(t)' =>
              (PastTag(t) /\ self'[t] = self[t]) \/ self'[t] \notin good'
    PROVE  ResourceInv'
<1> USE DEF ResourceInv
<1>1. \A t \in Threads : pc'[t] = "spawn" => new'[t] \notin dealers' \cup vms' \cup good'
  OBVIOUS
<1>2. \A t \in NodeThreads : PastDealer(t)' => self'[t] \notin dealers'  OBVIOUS
<1>3. \A t \in NodeThreads : PastLua(t)' => self'[t] \notin vms'  OBVIOUS
<1>4. \A t \in NodeThreads : PastTag(t)' => self'[t] \notin good'  OBVIOUS
<1> QED  BY <1>1, <1>2, <1>3, <1>4

\* The actions that neither open anything nor touch the list.
LEMMA ResourceQuiet ==
    ASSUME IInv, NEW t \in Threads,
           \/ t = Main /\ Start
           \/ t # Main /\ \E n \in Names \cup {TooLong, Reserved} : Launch(t, n)
           \/ LockCreate(t) \/ Find(t) \/ UnlockCreate(t) \/ Return(t)
           \/ (t # Main /\ (InitFails(t) \/ Load(t) \/ ScriptEnds(t) \/ CloseDealer(t)
                           \/ CloseLua(t) \/ CloseLoop(t) \/ LockRemove(t) \/ UnlockRemove(t)))
    PROVE  ResourceInv'
<1>0. TypeRest /\ Control(t) /\ ResourceInv  BY TypeParts DEF IInv, ControlInv
<1> DEFINE Frame ==
        /\ dealers' \subseteq dealers /\ vms' \subseteq vms /\ good' \subseteq good
        /\ Linked' = Linked
        /\ \A u \in Threads : pc'[u] = "spawn" => pc[u] = "spawn" /\ new'[u] = new[u]
        /\ \A u \in NodeThreads : PastDealer(u)' =>
              (PastDealer(u) /\ self'[u] = self[u]) \/ self'[u] \notin dealers'
        /\ \A u \in NodeThreads : PastLua(u)' =>
              (PastLua(u) /\ self'[u] = self[u]) \/ self'[u] \notin vms'
        /\ \A u \in NodeThreads : PastTag(u)' =>
              (PastTag(u) /\ self'[u] = self[u]) \/ self'[u] \notin good'
<1> SUFFICES Frame  BY <1>0, ResourceFrame DEF ResourceInv
<1> USE <1>0 DEF TypeRest, NodeThreads, Goto, Lock, heap, local, Linked, PastDealer, PastLua,
                 PastTag, CallStages, CreateSection
<1>1. CASE t = Main /\ Start  BY <1>1 DEF Start, Call
<1>2. ASSUME t # Main, NEW n \in Names \cup {TooLong, Reserved}, Launch(t, n)
      PROVE  Frame
  BY <1>2, ZenonT(40) DEF Launch, Call
<1>3. CASE LockCreate(t)  BY <1>3 DEF LockCreate
<1>4. CASE UnlockCreate(t)  BY <1>4 DEF UnlockCreate
<1>5. CASE Return(t)  BY <1>5 DEF Return, Control, MainStages
<1>6. CASE Find(t)  BY <1>6, ZenonT(40) DEF Find
<1>7. CASE t # Main /\ (InitFails(t) \/ Load(t))  BY <1>7 DEF InitFails, Load
<1>8. CASE t # Main /\ ScriptEnds(t)  BY <1>8 DEF ScriptEnds
<1>9. CASE t # Main /\ CloseDealer(t)  BY <1>9 DEF CloseDealer
<1>10. CASE t # Main /\ CloseLua(t)  BY <1>10 DEF CloseLua
<1>11. CASE t # Main /\ CloseLoop(t)  BY <1>11 DEF CloseLoop
<1>12. CASE t # Main /\ LockRemove(t)  BY <1>12 DEF LockRemove
<1>13. CASE t # Main /\ UnlockRemove(t)  BY <1>13 DEF UnlockRemove
<1> HIDE DEF Frame
<1> QED  BY <1>1, <1>2, <1>3, <1>4, <1>5, <1>6, <1>7, <1>8, <1>9, <1>10, <1>11, <1>12, <1>13

\* Every step leaves sockets, VMs and tags with the threads that opened them.
LEMMA ResourceStep == IInv /\ ListInv' /\ [Next]_vars => ResourceInv'
<1> SUFFICES ASSUME IInv, ListInv', [Next]_vars  PROVE ResourceInv'  OBVIOUS
<1>0. TypeRest /\ ControlInv /\ OwnInv /\ ListInv /\ ResourceInv  BY TypeParts DEF IInv
<1>1. ASSUME NEW t \in Threads, Insert(t)  PROVE ResourceInv'
  <2>1. PICK o \in Objects \ allocated :
           /\ Linked' = Linked \cup {o}
           /\ new' = [new EXCEPT ![t] = o]
           /\ dealers' = dealers \ {o} /\ vms' = vms \ {o} /\ good' = good \ {o}
    BY <1>1, InsertEffect
  <2>2. /\ pc[t] = "insert" /\ pc' = [pc EXCEPT ![t] = "spawn"]
        /\ UNCHANGED <<self, back>>
    BY <1>1 DEF Insert, Goto
  <2>3. \A u \in Threads : /\ pc'[u] = "spawn" => u = t /\ new'[u] = o
                           /\ u # t => pc'[u] = pc[u]
    BY <1>0, <2>1, <2>2, OneCritical DEF TypeRest, Critical, CreateSection
  <2>4. ASSUME NEW u \in NodeThreads
        PROVE  /\ PastDealer(u)' => PastDealer(u)
               /\ PastLua(u)' => PastLua(u)
               /\ PastTag(u)' => PastTag(u)
    <3>1. u \in Threads /\ pc'[t] = "spawn"  BY <1>0, <2>2 DEF NodeThreads, TypeRest
    <3>2. CASE u = t
      BY <3>1, <3>2, <2>2 DEF PastDealer, PastLua, PastTag, CallStages, CreateSection
    <3>3. CASE u # t
      <4>1. pc'[u] = pc[u] /\ back'[u] = back[u]  BY <3>1, <3>3, <2>2, <2>3
      <4> QED  BY <4>1 DEF PastDealer, PastLua, PastTag
    <3> QED  BY <3>2, <3>3
  <2>5. ASSUME NEW u \in Threads, pc'[u] = "spawn"
        PROVE  new'[u] \notin dealers' \cup vms' \cup good'
    <3>1. new'[u] = o  BY <2>3, <2>5
    <3> QED  BY <2>1, <3>1
  <2>6. dealers' \cup vms' \cup good' \subseteq Linked'  BY <1>0, <2>1 DEF ResourceInv
  <2>7. /\ \A u \in NodeThreads : PastDealer(u)' => self'[u] \notin dealers'
        /\ \A u \in NodeThreads : PastLua(u)' => self'[u] \notin vms'
        /\ \A u \in NodeThreads : PastTag(u)' => self'[u] \notin good'
    BY <1>0, <2>1, <2>2, <2>4 DEF ResourceInv
  <2> QED  BY <2>5, <2>6, <2>7 DEF ResourceInv
<1>2. ASSUME NEW t \in Threads, NEW w \in Threads, Spawn(t, w)  PROVE ResourceInv'
  <2>1. /\ pc[t] = "spawn" /\ w \in NodeThreads /\ pc[w] = "idle"
        /\ Linked' = Linked /\ UNCHANGED <<dealers, vms, good, new, back>>
    BY <1>2 DEF Spawn, heap, Linked
  <2>2. /\ t # w /\ pc'[t] = "unlock create" /\ pc'[w] = "init" /\ self'[w] = new[t]
        /\ \A u \in Threads \ {t, w} : pc'[u] = pc[u]
        /\ \A u \in Threads \ {w} : self'[u] = self[u]
    BY <1>0, <1>2 DEF Spawn, TypeRest
  <2>3. new[t] \notin dealers \cup vms \cup good  BY <1>0, <2>1 DEF ResourceInv
  <2>4. ASSUME NEW u \in NodeThreads, u # w
        PROVE  /\ PastDealer(u)' => PastDealer(u)
               /\ PastLua(u)' => PastLua(u)
               /\ PastTag(u)' => PastTag(u)
               /\ self'[u] = self[u]
    <3>1. u \in Threads  BY DEF NodeThreads
    <3>2. CASE u = t
      BY <3>2, <2>1, <2>2 DEF PastDealer, PastLua, PastTag, CallStages, CreateSection
    <3>3. CASE u # t
      BY <3>1, <3>3, <2>1, <2>2, <2>4 DEF PastDealer, PastLua, PastTag
    <3> QED  BY <3>2, <3>3, <2>2, <2>4, <3>1
  <2>5. \A u \in NodeThreads :
           /\ PastDealer(u)' => (PastDealer(u) /\ self'[u] = self[u]) \/ self'[u] \notin dealers'
           /\ PastLua(u)' => (PastLua(u) /\ self'[u] = self[u]) \/ self'[u] \notin vms'
           /\ PastTag(u)' => (PastTag(u) /\ self'[u] = self[u]) \/ self'[u] \notin good'
    BY <2>1, <2>2, <2>3, <2>4
  <2>6. \A u \in Threads : pc'[u] = "spawn" => pc[u] = "spawn" /\ new'[u] = new[u]
    BY <2>1, <2>2
  <2>7. dealers' \cup vms' \cup good' \subseteq Linked'  BY <1>0, <2>1 DEF ResourceInv
  <2> QED  BY <1>0, <2>1, <2>5, <2>6, <2>7, ResourceFrame
<1>3. ASSUME NEW t \in Threads, SpawnFails(t)  PROVE ResourceInv'
  <2>1. Linked' = Linked \ {new[t]}  BY <1>3, SpawnFailsEffect
  <2>2. /\ pc[t] = "spawn" /\ pc' = [pc EXCEPT ![t] = "unlock create"]
        /\ UNCHANGED <<dealers, vms, good, self, new, back>>
    BY <1>3 DEF SpawnFails, Goto
  <2>3. dealers' \cup vms' \cup good' \subseteq Linked'
    BY <1>0, <2>1, <2>2 DEF ResourceInv
  <2>4. \A u \in Threads : pc'[u] = "spawn" => pc[u] = "spawn" /\ new'[u] = new[u]
    BY <1>0, <2>2 DEF TypeRest
  <2>5. \A u \in NodeThreads : /\ PastDealer(u)' => PastDealer(u) /\ self'[u] = self[u]
                               /\ PastLua(u)' => PastLua(u) /\ self'[u] = self[u]
                               /\ PastTag(u)' => PastTag(u) /\ self'[u] = self[u]
    BY <1>0, <2>2 DEF TypeRest, NodeThreads, PastDealer, PastLua, PastTag, CallStages,
                      CreateSection
  <2>6. /\ dealers' \subseteq dealers /\ vms' \subseteq vms /\ good' \subseteq good
        /\ \A u \in NodeThreads : PastDealer(u)' =>
              (PastDealer(u) /\ self'[u] = self[u]) \/ self'[u] \notin dealers'
        /\ \A u \in NodeThreads : PastLua(u)' =>
              (PastLua(u) /\ self'[u] = self[u]) \/ self'[u] \notin vms'
        /\ \A u \in NodeThreads : PastTag(u)' =>
              (PastTag(u) /\ self'[u] = self[u]) \/ self'[u] \notin good'
    BY <2>2, <2>5
  <2> QED  BY <1>0, <2>3, <2>4, <2>6, ResourceFrame
<1>4. ASSUME NEW t \in NodeThreads, InitNode(t)  PROVE ResourceInv'
  <2>1. /\ t \in Threads /\ pc[t] = "init" /\ pc' = [pc EXCEPT ![t] = "load"]
        /\ vms' = vms \cup {self[t]} /\ dealers' = dealers \cup {self[t]}
        /\ good' = good \cup {self[t]}
        /\ Linked' = Linked /\ UNCHANGED <<self, new, back>>
    BY <1>4 DEF InitNode, Goto, NodeThreads, local, Linked
  <2>2. RunsNode(t) /\ self[t] \in Linked  BY <1>0, <1>4, <2>1 DEF RunsNode, OwnInv
  <2>3. \A u \in Threads : pc'[u] = "spawn" => new'[u] \notin dealers' \cup vms' \cup good'
    <3> SUFFICES ASSUME NEW u \in Threads, pc'[u] = "spawn"
                 PROVE  new'[u] \notin dealers' \cup vms' \cup good'
      OBVIOUS
    <3>1. pc[u] = "spawn" /\ new'[u] = new[u]  BY <1>0, <2>1 DEF TypeRest
    <3>2. new[u] \notin dealers \cup vms \cup good  BY <1>0, <3>1 DEF ResourceInv
    <3>3. new[u] # self[t]  BY <1>0, <2>1, <2>2, <3>1 DEF OwnInv
    <3> QED  BY <2>1, <3>1, <3>2, <3>3
  <2>4. ASSUME NEW u \in NodeThreads, PastDealer(u)' \/ PastLua(u)' \/ PastTag(u)'
        PROVE  /\ self[u] # self[t]
               /\ PastDealer(u)' => PastDealer(u)
               /\ PastLua(u)' => PastLua(u)
               /\ PastTag(u)' => PastTag(u)
    <3>1. u \in Threads /\ u # t
      BY <1>0, <2>1, <2>4 DEF NodeThreads, TypeRest, PastDealer, PastLua, PastTag,
                              CallStages, CreateSection
    <3>2. pc'[u] = pc[u] /\ back'[u] = back[u]  BY <1>0, <2>1, <3>1 DEF TypeRest
    <3>3. PastDealer(u) \/ PastLua(u) \/ PastTag(u)
      BY <3>2, <2>4 DEF PastDealer, PastLua, PastTag
    <3>4. RunsNode(u)
      BY <3>3 DEF RunsNode, PastDealer, PastLua, PastTag, CallStages, CreateSection
    <3>5. self[u] # self[t]  BY <1>0, <2>1, <2>2, <3>1, <3>4 DEF OwnInv
    <3> QED  BY <3>2, <3>5 DEF PastDealer, PastLua, PastTag
  <2>5. /\ \A u \in NodeThreads : PastDealer(u)' => self'[u] \notin dealers'
        /\ \A u \in NodeThreads : PastLua(u)' => self'[u] \notin vms'
        /\ \A u \in NodeThreads : PastTag(u)' => self'[u] \notin good'
    BY <1>0, <2>1, <2>4 DEF ResourceInv
  <2>6. dealers' \cup vms' \cup good' \subseteq Linked'
    BY <1>0, <2>1, <2>2 DEF ResourceInv
  <2> QED  BY <2>3, <2>5, <2>6 DEF ResourceInv
<1>5. ASSUME NEW t \in NodeThreads, Unlink(t)  PROVE ResourceInv'
  <2>1. Linked' = Linked \ {self[t]}  BY <1>5, UnlinkEffect
  <2>2. /\ pc[t] = "remove" /\ pc' = [pc EXCEPT ![t] = "unlock remove"]
        /\ UNCHANGED <<dealers, vms, good, self, new, back>>
    BY <1>5 DEF Unlink, Goto, local
  <2>3. self[t] \notin dealers \cup vms \cup good
    BY <1>0, <2>2 DEF ResourceInv, PastDealer, PastLua, PastTag
  <2>4. dealers' \cup vms' \cup good' \subseteq Linked'
    BY <1>0, <2>1, <2>2, <2>3 DEF ResourceInv
  <2>5. \A u \in Threads : pc'[u] = "spawn" => pc[u] = "spawn" /\ new'[u] = new[u]
    BY <1>0, <2>2 DEF TypeRest
  <2>6. \A u \in NodeThreads : /\ PastDealer(u)' => PastDealer(u) /\ self'[u] = self[u]
                               /\ PastLua(u)' => PastLua(u) /\ self'[u] = self[u]
                               /\ PastTag(u)' => PastTag(u) /\ self'[u] = self[u]
    BY <1>0, <2>2 DEF TypeRest, NodeThreads, PastDealer, PastLua, PastTag, CallStages,
                      CreateSection
  <2>7. /\ dealers' \subseteq dealers /\ vms' \subseteq vms /\ good' \subseteq good
        /\ \A u \in NodeThreads : PastDealer(u)' =>
              (PastDealer(u) /\ self'[u] = self[u]) \/ self'[u] \notin dealers'
        /\ \A u \in NodeThreads : PastLua(u)' =>
              (PastLua(u) /\ self'[u] = self[u]) \/ self'[u] \notin vms'
        /\ \A u \in NodeThreads : PastTag(u)' =>
              (PastTag(u) /\ self'[u] = self[u]) \/ self'[u] \notin good'
    BY <2>2, <2>6
  <2> QED  BY <1>0, <2>4, <2>5, <2>7, ResourceFrame
<1>6. CASE UNCHANGED vars
  BY <1>0, <1>6 DEF vars, heap, local, ResourceInv, PastDealer, PastLua, PastTag, Linked
<1>7. CASE Start  BY <1>7, ResourceQuiet, RegistryAssumption
<1>8. ASSUME NEW t \in Threads, Create(t)  PROVE ResourceInv'
  <2>1. CASE LockCreate(t) \/ Find(t) \/ UnlockCreate(t) \/ Return(t)
    BY <2>1, ResourceQuiet
  <2>2. CASE \E u \in Threads : Spawn(t, u)  BY <2>2, <1>2
  <2> QED  BY <1>1, <1>3, <1>8, <2>1, <2>2 DEF Create
<1>9. ASSUME NEW t \in NodeThreads,
             \/ Boot(t) \/ ScriptEnds(t) \/ Cleanup(t)
             \/ \E n \in Names \cup {TooLong, Reserved} : Launch(t, n)
      PROVE  ResourceInv'
  <2>1. t \in Threads /\ t # Main  BY DEF NodeThreads
  <2>2. CASE Unlink(t)  BY <1>5, <2>2
  <2>3. CASE Cleanup(t) /\ ~Unlink(t)  BY <2>1, <2>3, ResourceQuiet DEF Cleanup
  <2>4. CASE InitNode(t)  BY <1>4, <2>4
  <2>5. CASE InitFails(t) \/ Load(t) \/ ScriptEnds(t)  BY <2>1, <2>5, ResourceQuiet
  <2>6. CASE \E n \in Names \cup {TooLong, Reserved} : Launch(t, n)
    BY <2>1, <2>6, ResourceQuiet
  <2> QED  BY <1>9, <2>2, <2>3, <2>4, <2>5, <2>6 DEF Boot
<1> QED  BY <1>6, <1>7, <1>8, <1>9 DEF Next, Over

-----------------------------------------------------------------------------
(* The theorems *)

\* The process starts with an empty registry.
LEMMA InitIInv == Init => IInv
<1> SUFFICES ASSUME Init  PROVE IInv  OBVIOUS
<1> USE RegistryAssumption DEF Init
<1>1. Linked = {} /\ list \in Seq(Objects) /\ Len(list) = 0  BY DEF Linked, ToSet
<1>2. ListInv  BY <1>1 DEF ListInv, IsInjective
<1>3. TypeRest
  BY DEF TypeRest, Stages, CallStages, BodyStages, MainStages, CreateSection, RemoveSection
<1>4. ControlInv
  BY DEF ControlInv, Control, NodeThreads, Critical, CallStages, MainStages, CreateSection,
         RemoveSection
<1>5. OwnInv  BY <1>1 DEF OwnInv, RunsNode, NodeThreads
<1>6. ResourceInv  BY DEF ResourceInv, NodeThreads
<1> QED  BY <1>2, <1>3, <1>4, <1>5, <1>6, TypeParts DEF IInv

\* The invariant is inductive.
THEOREM Invariance == Spec => []IInv
<1>1. IInv /\ [Next]_vars => IInv'
  <2> SUFFICES ASSUME IInv, [Next]_vars  PROVE IInv'  OBVIOUS
  <2>1. ListInv'  BY ListStep
  <2>2. TypeRest'  BY <2>1, TypeStep
  <2>3. TypeOK'
    <3>1. (ListInv => (TypeOK <=> TypeRest))'  BY TypeParts, PTL
    <3> QED  BY <2>1, <2>2, <3>1
  <2> QED  BY <2>1, <2>3, ControlStep, OwnStep, ResourceStep DEF IInv
<1> QED  BY InitIInv, <1>1, PTL DEF Spec

\* Every variable keeps its type.
THEOREM TypeCorrect == Spec => []TypeOK
BY Invariance, PTL DEF IInv

\* No two linked nodes share a name, however launches and exits interleave.
THEOREM NamesAreUnique == Spec => []NamesUnique
<1>1. IInv => NamesUnique
  <2> SUFFICES ASSUME IInv, NEW i \in DOMAIN list, NEW j \in DOMAIN list,
                      name[list[i]] = name[list[j]]
               PROVE  i = j
    BY DEF NamesUnique
  <2>1. list[i] \in Linked /\ list[j] \in Linked  BY DEF Linked, ToSet
  <2> QED  BY <2>1 DEF IInv, ListInv, IsInjective
<1> QED  BY <1>1, Invariance, PTL

\* No two open dealers have the same identity.
THEOREM IdentitiesAreUnique == Spec => []IdentitiesUnique
<1>1. IInv => IdentitiesUnique
  BY DEF IInv, ListInv, ResourceInv, IdentitiesUnique
<1> QED  BY <1>1, Invariance, PTL

\* A running thread's node is allocated, linked and its own.
THEOREM NodesAreOwned == Spec => []NodesOwned
<1>1. IInv => NodesOwned
  BY DEF IInv, ListInv, OwnInv, NodesOwned
<1> QED  BY <1>1, Invariance, PTL

\* Nothing leaks: allocated, linked, counted and owned are the same objects.
THEOREM NodesAreAccountedFor == Spec => []NodesAccountedFor
<1>1. IInv => NodesAccountedFor
  BY DEF IInv, ListInv, OwnInv, NodesAccountedFor
<1> QED  BY <1>1, Invariance, PTL

\* Freeing by name frees the object the thread meant, with everything closed.
THEOREM FreesAreClean == Spec => FreedClean
<1>1. IInv /\ [Next]_vars =>
        [\A o \in allocated \ allocated' :
            /\ o \notin dealers \cup vms \cup good
            /\ \E t \in Threads : \/ (pc[t] = "remove" /\ self[t] = o)
                                  \/ (pc[t] = "spawn" /\ new[t] = o)]_vars
  <2> SUFFICES ASSUME IInv, [Next]_vars, NEW o \in allocated \ allocated'
               PROVE  /\ o \notin dealers \cup vms \cup good
                      /\ \E t \in Threads : \/ (pc[t] = "remove" /\ self[t] = o)
                                            \/ (pc[t] = "spawn" /\ new[t] = o)
    OBVIOUS
  <2>0. ListInv' /\ allocated = Linked /\ ResourceInv
    BY ListStep DEF IInv, ListInv
  <2>1. allocated' = Linked'  BY <2>0 DEF ListInv
  <2>2. CASE \E t \in Threads : Insert(t)
    BY <2>0, <2>1, <2>2, InsertEffect
  <2>3. CASE \E t \in Threads : SpawnFails(t)
    <3>1. PICK t \in Threads : SpawnFails(t)  BY <2>3
    <3>2. o = new[t]  BY <2>0, <2>1, <3>1, SpawnFailsEffect
    <3>3. pc[t] = "spawn"  BY <3>1 DEF SpawnFails
    <3> QED  BY <2>0, <3>2, <3>3 DEF ResourceInv
  <2>4. CASE \E t \in NodeThreads : Unlink(t)
    <3>1. PICK t \in NodeThreads : Unlink(t)  BY <2>4
    <3>2. o = self[t]  BY <2>0, <2>1, <3>1, UnlinkEffect
    <3>3. pc[t] = "remove" /\ t \in Threads  BY <3>1 DEF Unlink, NodeThreads
    <3> QED  BY <2>0, <3>2, <3>3 DEF ResourceInv, PastDealer, PastLua, PastTag
  <2>5. CASE Quietly  BY <2>5 DEF Quietly
  <2> QED  BY <2>2, <2>3, <2>4, <2>5, NextCases
<1> QED  BY <1>1, Invariance, PTL DEF Spec, FreedClean

\* The list and its counter change only under the mutex.
THEOREM ListIsGuarded == Spec => ListGuarded
<1>1. IInv /\ [Next]_vars =>
        [<<list, count>>' # <<list, count>> =>
            \E t \in Threads : /\ mutex = t
                               /\ {u \in Threads : pc[u] \in Critical} = {t}]_vars
  <2> SUFFICES ASSUME IInv, [Next]_vars, <<list, count>>' # <<list, count>>
               PROVE  \E t \in Threads : /\ mutex = t
                                         /\ {u \in Threads : pc[u] \in Critical} = {t}
    OBVIOUS
  <2>1. PICK t \in Threads : Insert(t) \/ SpawnFails(t) \/ Unlink(t)
    BY NextCases DEF Quietly, NodeThreads
  <2>2. pc[t] \in Critical
    BY <2>1 DEF Insert, SpawnFails, Unlink, Critical, CreateSection, RemoveSection
  <2>3. mutex = t  BY <2>2 DEF IInv, ControlInv, Control
  <2>4. {u \in Threads : pc[u] \in Critical} = {t}  BY <2>2, OneCritical
  <2> QED  BY <2>3, <2>4
<1> QED  BY <1>1, Invariance, PTL DEF Spec, ListGuarded

-----------------------------------------------------------------------------
(* The registry implements the directory *)

\* What the refinement mapping makes of the state: the directory's two variables.
Live == {name[o] : o \in Linked \ Undecided}
CallOf(t) == IF answer[t] # "none" THEN [stage |-> "told", answer |-> answer[t]]
             ELSE IF pc[t] \in CallStages THEN [stage |-> "asked", name |-> request[t]]
             ELSE [stage |-> "none"]
Calls == [t \in Threads |-> CallOf(t)]

\* A thread whose call is where it was.
Steady(u) == /\ answer'[u] = answer[u]
             /\ pc'[u] \in CallStages <=> pc[u] \in CallStages
             /\ pc[u] \in CallStages => request'[u] = request[u]

\* When one thread moves, one call changes.
LEMMA OneCallChanges ==
    ASSUME NEW t \in Threads, \A u \in Threads \ {t} : Steady(u)
    PROVE  Calls' = [Calls EXCEPT ![t] = CallOf(t)']
BY DEF Calls, CallOf, Steady

\* When none moves, the calls are what they were.
LEMMA NoCallChanges ==
    ASSUME \A u \in Threads : Steady(u)
    PROVE  Calls' = Calls
BY DEF Calls, CallOf, Steady

(* The steps of the directory, in these terms *)

\* A name is asked for.
LEMMA AsAsk ==
    ASSUME NEW c \in Threads, NEW n \in Names, CallOf(c) = [stage |-> "none"], Live' = Live,
           Calls' = [Calls EXCEPT ![c] = [stage |-> "asked", name |-> n]]
    PROVE  Directory!Next
<1>1. Directory!Ask(c, n)
  BY DEF Directory!Ask, Directory!Quiet, Directory!Asked, Live, Calls, CallOf
<1> QED  BY <1>1 DEF Directory!Next

\* A refusal before the directory is consulted.
LEMMA AsReject ==
    ASSUME NEW c \in Threads, NEW a \in {"too long", "reserved"},
           CallOf(c) = [stage |-> "none"], Live' = Live,
           Calls' = [Calls EXCEPT ![c] = [stage |-> "told", answer |-> a]]
    PROVE  Directory!Next
<1>1. Directory!Reject(c)
  BY DEF Directory!Reject, Directory!Quiet, Directory!Told, Live, Calls, CallOf
<1> QED  BY <1>1 DEF Directory!Next

\* The three answers of the directory.
LEMMA AsAnswer ==
    ASSUME NEW c \in Threads, NEW n \in Names, NEW a,
           CallOf(c) = [stage |-> "asked", name |-> n],
           Calls' = [Calls EXCEPT ![c] = [stage |-> "told", answer |-> a]],
           \/ a = "ok" /\ n \notin Live /\ Live' = Live \cup {n}
           \/ a = "exists" /\ n \in Live /\ Live' = Live
           \/ a = "no thread" /\ n \notin Live /\ Live' = Live
    PROVE  Directory!Next
<1>1. Directory!Register(c, n) \/ Directory!Refuse(c, n) \/ Directory!NoThread(c, n)
  BY DEF Directory!Register, Directory!Refuse, Directory!NoThread, Directory!Asked,
         Directory!Told, Live, Calls, CallOf
<1> QED  BY <1>1 DEF Directory!Next

\* The caller has read its answer.
LEMMA AsReturn ==
    ASSUME NEW c \in Threads, NEW a, CallOf(c) = [stage |-> "told", answer |-> a], Live' = Live,
           Calls' = [Calls EXCEPT ![c] = [stage |-> "none"]]
    PROVE  Directory!Next
<1>1. Directory!Return(c)
  BY DEF Directory!Return, Directory!Quiet, Live, Calls, CallOf
<1> QED  BY <1>1 DEF Directory!Next

\* A name is given up.
LEMMA AsLeave ==
    ASSUME NEW n \in Names, n \in Live, Live' = Live \ {n}, Calls' = Calls
    PROVE  Directory!Next
<1>1. Directory!Leave(n)
  BY DEF Directory!Leave, Live, Calls, CallOf
<1> QED  BY <1>1 DEF Directory!Next

\* Nothing the directory speaks of has changed.
LEMMA AsStutter ==
    ASSUME Live' = Live, Calls' = Calls
    PROVE  UNCHANGED Directory!vars
BY DEF Directory!vars, Live, Calls, CallOf

\* While a thread has the mutex, no other one is about to start a node.
LEMMA OneSpawns ==
    ASSUME IInv, NEW t \in Threads, pc[t] \in Critical
    PROVE  Undecided = IF pc[t] = "spawn" THEN {new[t]} ELSE {}
<1>1. \A u \in Threads : pc[u] = "spawn" => u = t
  BY OneCritical DEF Critical, CreateSection
<1> QED  BY <1>1 DEF Undecided

\* The directory's names follow from the list, the names and who is about to start a node.
LEMMA SameLive ==
    ASSUME Linked' = Linked, name' = name,
           \A u \in Threads : /\ pc'[u] = "spawn" <=> pc[u] = "spawn"
                              /\ pc[u] = "spawn" => new'[u] = new[u]
    PROVE  Live' = Live
<1>1. Undecided' = Undecided  BY DEF Undecided
<1> QED  BY <1>1 DEF Live

\* A thread that goes from stage to stage, with no call made, answered or ended.
LEMMA Moves ==
    ASSUME IInv, NEW t \in Threads, NEW stage,
           pc' = [pc EXCEPT ![t] = stage],
           stage \in CallStages <=> pc[t] \in CallStages,
           stage # "spawn", pc[t] # "spawn",
           UNCHANGED <<list, name, request, answer>>,
           \A u \in Threads \ {t} : new'[u] = new[u]
    PROVE  UNCHANGED Directory!vars
<1>1. pc \in [Threads -> Stages]  BY TypeParts DEF IInv, TypeRest
<1>2. Calls' = Calls  BY <1>1, NoCallChanges DEF Steady
<1>3. Linked' = Linked  BY DEF Linked
<1>4. \A u \in Threads : /\ pc'[u] = "spawn" <=> pc[u] = "spawn"
                         /\ pc[u] = "spawn" => new'[u] = new[u]
  BY <1>1
<1>5. Live' = Live  BY <1>3, <1>4, SameLive
<1> QED  BY <1>2, <1>5, AsStutter

\* A call is made, or refused at once.
LEMMA CallStep ==
    ASSUME IInv, NEW t \in Threads, NEW n, NEW cont, Call(t, n, cont),
           pc[t] \notin CallStages
    PROVE  Directory!Next
<1>0. TypeRest /\ Control(t)  BY TypeParts DEF IInv, ControlInv
<1>1. answer[t] = "none" /\ pc[t] # "spawn"
  BY <1>0 DEF Control, CallStages, CreateSection
<1>2. CallOf(t) = [stage |-> "none"]  BY <1>1 DEF CallOf
<1>3. /\ request' = [request EXCEPT ![t] = n]
      /\ UNCHANGED <<list, name, new>>
  BY DEF Call, heap
<1>4. \/ /\ n \in Names /\ pc' = [pc EXCEPT ![t] = "lock create"] /\ answer' = answer
      \/ \E a \in {"too long", "reserved"} :
            pc' = [pc EXCEPT ![t] = "return"] /\ answer' = [answer EXCEPT ![t] = a]
  BY DEF Call, Goto
<1>5. \A u \in Threads \ {t} : Steady(u)  BY <1>0, <1>3, <1>4 DEF Steady, TypeRest
<1>6. Calls' = [Calls EXCEPT ![t] = CallOf(t)']  BY <1>5, OneCallChanges
<1>7. Live' = Live
  <2>1. Linked' = Linked  BY <1>3 DEF Linked
  <2>2. \A u \in Threads : /\ pc'[u] = "spawn" <=> pc[u] = "spawn"
                           /\ pc[u] = "spawn" => new'[u] = new[u]
    BY <1>0, <1>1, <1>3, <1>4 DEF TypeRest
  <2> QED  BY <1>3, <2>1, <2>2, SameLive
<1>8. CASE n \in Names /\ pc' = [pc EXCEPT ![t] = "lock create"] /\ answer' = answer
  <2>1. pc'[t] \in CallStages /\ answer'[t] = "none" /\ request'[t] = n
    BY <1>0, <1>1, <1>3, <1>8 DEF TypeRest, CallStages
  <2>2. CallOf(t)' = [stage |-> "asked", name |-> n]  BY <2>1 DEF CallOf
  <2> QED  BY <1>2, <1>6, <1>7, <1>8, <2>2, AsAsk
<1>9. CASE \E a \in {"too long", "reserved"} :
              pc' = [pc EXCEPT ![t] = "return"] /\ answer' = [answer EXCEPT ![t] = a]
  <2>1. PICK a \in {"too long", "reserved"} : answer' = [answer EXCEPT ![t] = a]  BY <1>9
  <2>2. answer'[t] = a /\ a # "none"  BY <1>0, <2>1 DEF TypeRest
  <2>3. CallOf(t)' = [stage |-> "told", answer |-> a]  BY <2>2 DEF CallOf
  <2> QED  BY <1>2, <1>6, <1>7, <2>3, AsReject
<1> QED  BY <1>4, <1>8, <1>9

\* The name is looked up: if it was found, the call is refused.
LEMMA FindStep ==
    ASSUME IInv, NEW t \in Threads, Find(t)
    PROVE  [Directory!Next]_(Directory!vars)
<1>0. TypeRest /\ Control(t) /\ pc[t] = "find"
  BY TypeParts DEF IInv, ControlInv, Find
<1>1. UNCHANGED <<list, name, request, new>>  BY DEF Find, heap
<1>2. CASE ~Found(request[t])
  <2>1. pc' = [pc EXCEPT ![t] = "insert"] /\ answer' = answer  BY <1>2 DEF Find, Goto
  <2> QED  BY <1>0, <1>1, <2>1, Moves DEF CallStages, CreateSection
<1>3. CASE Found(request[t])
  <2>1. /\ pc' = [pc EXCEPT ![t] = "unlock create"]
        /\ answer' = [answer EXCEPT ![t] = "exists"]
    BY <1>3 DEF Find, Goto
  <2>2. Undecided = {}  BY <1>0, OneSpawns DEF Critical, CreateSection
  <2>3. request[t] \in Live  BY <1>3, <2>2, FoundLinked DEF Live
  <2>4. Live' = Live
    <3>1. Linked' = Linked  BY <1>1 DEF Linked
    <3>2. \A u \in Threads : /\ pc'[u] = "spawn" <=> pc[u] = "spawn"
                             /\ pc[u] = "spawn" => new'[u] = new[u]
      BY <1>0, <1>1, <2>1 DEF TypeRest
    <3> QED  BY <1>1, <3>1, <3>2, SameLive
  <2>5. \A u \in Threads \ {t} : Steady(u)  BY <1>0, <1>1, <2>1 DEF Steady, TypeRest
  <2>6. Calls' = [Calls EXCEPT ![t] = CallOf(t)']  BY <2>5, OneCallChanges
  <2>7. CallOf(t) = [stage |-> "asked", name |-> request[t]] /\ request[t] \in Names
    BY <1>0 DEF CallOf, Control, CallStages, CreateSection
  <2>8. CallOf(t)' = [stage |-> "told", answer |-> "exists"]
    BY <1>0, <2>1 DEF CallOf, TypeRest
  <2> QED  BY <2>3, <2>4, <2>6, <2>7, <2>8, AsAnswer
<1> QED  BY <1>2, <1>3

\* A new node is linked, and is not yet anybody's answer.
LEMMA InsertStep ==
    ASSUME IInv, NEW t \in Threads, Insert(t)
    PROVE  UNCHANGED Directory!vars
<1>0. TypeRest /\ ListInv /\ pc[t] = "insert"
  BY TypeParts DEF IInv, Insert
<1>1. PICK o \in Objects \ allocated :
         /\ Linked' = Linked \cup {o}
         /\ new' = [new EXCEPT ![t] = o]
         /\ name' = [name EXCEPT ![o] = request[t]]
  BY InsertEffect
<1>2. pc' = [pc EXCEPT ![t] = "spawn"] /\ request' = request /\ answer' = answer
  BY DEF Insert, Goto
<1>3. Undecided = {} /\ \A u \in Threads \ {t} : pc[u] # "spawn"
  BY <1>0, OneCritical, OneSpawns DEF Critical, CreateSection
<1>4. Undecided' = {o}
  <2>1. \A u \in Threads : pc'[u] = "spawn" <=> u = t  BY <1>0, <1>2, <1>3 DEF TypeRest
  <2>2. new'[t] = o  BY <1>0, <1>1 DEF TypeRest
  <2> QED  BY <2>1, <2>2 DEF Undecided
<1>5. Live' = Live
  <2>1. o \notin Linked  BY <1>0, <1>1 DEF ListInv
  <2>2. \A p \in Linked : name'[p] = name[p]  BY <1>0, <1>1, <2>1 DEF ListInv
  <2> QED  BY <1>1, <1>3, <1>4, <2>1, <2>2 DEF Live
<1>6. Calls' = Calls
  BY <1>0, <1>2, NoCallChanges DEF Steady, TypeRest, CallStages, CreateSection
<1> QED  BY <1>5, <1>6, AsStutter

\* The thread that starts a node holds the one linked object that is not yet live.
LEMMA AboutToSpawn ==
    ASSUME IInv, NEW t \in Threads, pc[t] = "spawn"
    PROVE  /\ Undecided = {new[t]} /\ new[t] \in Linked
           /\ name[new[t]] = request[t] /\ request[t] \in Names
           /\ request[t] \notin Live
           /\ CallOf(t) = [stage |-> "asked", name |-> request[t]]
<1>1. Undecided = {new[t]}  BY OneSpawns DEF Critical, CreateSection
<1>2. new[t] \in Linked /\ name[new[t]] = request[t]  BY DEF IInv, OwnInv
<1>3. request[t] \in Names  BY DEF IInv, ControlInv, Control
<1>4. request[t] \notin Live  BY <1>1, <1>2 DEF IInv, ListInv, Live
<1>5. CallOf(t) = [stage |-> "asked", name |-> request[t]]
  BY DEF IInv, ControlInv, Control, CallOf, CallStages, CreateSection
<1> QED  BY <1>1, <1>2, <1>3, <1>4, <1>5

\* The thread is started: the name is taken, and the caller is told so.
LEMMA SpawnStep ==
    ASSUME IInv, NEW t \in Threads, NEW w \in Threads, Spawn(t, w)
    PROVE  Directory!Next
<1>0. TypeRest /\ pc[t] = "spawn" /\ pc[w] = "idle" /\ w # t
  BY TypeParts DEF IInv, Spawn
<1>1. /\ pc' = [pc EXCEPT ![t] = "unlock create", ![w] = "init"]
      /\ answer' = [answer EXCEPT ![t] = "ok"]
      /\ UNCHANGED <<list, name, request>>
  BY DEF Spawn, heap
<1>2. \A u \in Threads : pc[u] = "spawn" => u = t
  BY <1>0, OneCritical DEF Critical, CreateSection
<1>3. Undecided' = {}
  <2>1. \A u \in Threads : pc'[u] # "spawn"  BY <1>0, <1>1, <1>2 DEF TypeRest
  <2> QED  BY <2>1 DEF Undecided
<1>4. Live' = Live \cup {request[t]}
  <2>1. Linked' = Linked  BY <1>1 DEF Linked
  <2> QED  BY <1>0, <1>1, <1>3, <2>1, AboutToSpawn, ZenonT(40) DEF Live
<1>5. \A u \in Threads \ {t} : Steady(u)
  BY <1>0, <1>1 DEF Steady, TypeRest, CallStages, CreateSection
<1>6. Calls' = [Calls EXCEPT ![t] = CallOf(t)']  BY <1>5, OneCallChanges
<1>7. CallOf(t)' = [stage |-> "told", answer |-> "ok"]
  BY <1>0, <1>1 DEF CallOf, TypeRest
<1> QED  BY <1>0, <1>4, <1>6, <1>7, AboutToSpawn, AsAnswer, ZenonT(40)

\* The thread could not be started: the name is free, as it was.
LEMMA SpawnFailsStep ==
    ASSUME IInv, NEW t \in Threads, SpawnFails(t)
    PROVE  Directory!Next
<1>0. TypeRest /\ ListInv /\ pc[t] = "spawn"  BY TypeParts DEF IInv, SpawnFails
<1>1. /\ pc' = [pc EXCEPT ![t] = "unlock create"]
      /\ answer' = [answer EXCEPT ![t] = "no thread"] /\ request' = request
  BY DEF SpawnFails, Goto
<1>2. Linked' = Linked \ {new[t]} /\ name' = [name EXCEPT ![new[t]] = Nobody]
  BY SpawnFailsEffect
<1>3. Undecided' = {}
  <2>1. \A u \in Threads : pc'[u] # "spawn"
    BY <1>0, <1>1, OneCritical DEF TypeRest, Critical, CreateSection
  <2> QED  BY <2>1 DEF Undecided
<1>4. Live' = Live
  <2>1. \A p \in Linked \ {new[t]} : name'[p] = name[p]  BY <1>0, <1>2 DEF ListInv
  <2> QED  BY <1>0, <1>2, <1>3, <2>1, AboutToSpawn DEF Live
<1>5. \A u \in Threads \ {t} : Steady(u)  BY <1>0, <1>1 DEF Steady, TypeRest
<1>6. Calls' = [Calls EXCEPT ![t] = CallOf(t)']  BY <1>5, OneCallChanges
<1>7. CallOf(t)' = [stage |-> "told", answer |-> "no thread"]
  BY <1>0, <1>1 DEF CallOf, TypeRest
<1> QED  BY <1>0, <1>4, <1>6, <1>7, AboutToSpawn, AsAnswer, ZenonT(40)

\* A node's name leaves the directory when the object leaves the list.
LEMMA UnlinkStep ==
    ASSUME IInv, NEW t \in NodeThreads, Unlink(t)
    PROVE  Directory!Next
<1>0. TypeRest /\ ListInv /\ t \in Threads /\ pc[t] = "remove"
  BY TypeParts DEF IInv, Unlink, NodeThreads
<1>1. pc' = [pc EXCEPT ![t] = "unlock remove"] /\ UNCHANGED <<request, answer>>
  BY DEF Unlink, Goto, local
<1>2. Linked' = Linked \ {self[t]} /\ name' = [name EXCEPT ![self[t]] = Nobody]
  BY UnlinkEffect
<1>3. self[t] \in Linked  BY <1>0 DEF IInv, OwnInv, RunsNode
<1>4. Undecided = {} /\ Undecided' = {}
  <2>1. \A u \in Threads : pc[u] # "spawn" /\ pc'[u] # "spawn"
    BY <1>0, <1>1, OneCritical DEF TypeRest, Critical, CreateSection, RemoveSection
  <2> QED  BY <2>1 DEF Undecided
<1>5. name[self[t]] \in Names /\ name[self[t]] \in Live  BY <1>0, <1>3, <1>4 DEF ListInv, Live
<1>6. Live' = Live \ {name[self[t]]}
  <2>1. \A p \in Linked \ {self[t]} : name'[p] = name[p] /\ name[p] # name[self[t]]
    BY <1>0, <1>2, <1>3 DEF ListInv
  <2> QED  BY <1>2, <1>3, <1>4, <2>1 DEF Live
<1>7. Calls' = Calls
  BY <1>0, <1>1, NoCallChanges DEF Steady, TypeRest, CallStages, CreateSection
<1> QED  BY <1>5, <1>6, <1>7, AsLeave

\* The caller has its answer.
LEMMA ReturnStep ==
    ASSUME IInv, NEW t \in Threads, Return(t)
    PROVE  Directory!Next
<1>0. TypeRest /\ Control(t) /\ pc[t] = "return"
  BY TypeParts DEF IInv, ControlInv, Return
<1>1. PICK stage \in {"aborted", "script", "close lua", "dispatch"} :
         pc' = [pc EXCEPT ![t] = stage]
  BY <1>0 DEF Return, Goto, TypeRest
<1>2. /\ answer' = [answer EXCEPT ![t] = "none"]
      /\ request' = [request EXCEPT ![t] = Nobody]
      /\ UNCHANGED <<list, name, new>>
  BY DEF Return, heap
<1>3. Live' = Live
  <2>1. Linked' = Linked  BY <1>2 DEF Linked
  <2>2. \A u \in Threads : /\ pc'[u] = "spawn" <=> pc[u] = "spawn"
                           /\ pc[u] = "spawn" => new'[u] = new[u]
    BY <1>0, <1>1, <1>2 DEF TypeRest
  <2> QED  BY <1>2, <2>1, <2>2, SameLive
<1>4. \A u \in Threads \ {t} : Steady(u)  BY <1>0, <1>1, <1>2 DEF Steady, TypeRest
<1>5. Calls' = [Calls EXCEPT ![t] = CallOf(t)']  BY <1>4, OneCallChanges
<1>6. CallOf(t) = [stage |-> "told", answer |-> answer[t]]  BY <1>0 DEF Control, CallOf
<1>7. CallOf(t)' = [stage |-> "none"]
  <2>1. answer'[t] = "none" /\ pc'[t] \notin CallStages
    BY <1>0, <1>1, <1>2 DEF TypeRest, CallStages, CreateSection
  <2> QED  BY <2>1 DEF CallOf
<1> QED  BY <1>3, <1>5, <1>6, <1>7, AsReturn

\* The steps at which a thread neither calls nor answers, nor touches the list.
LEMMA QuietStep ==
    ASSUME IInv, NEW t \in Threads,
           \/ LockCreate(t) \/ UnlockCreate(t)
           \/ Boot(t) \/ ScriptEnds(t)
           \/ CloseDealer(t) \/ CloseLua(t) \/ CloseLoop(t) \/ LockRemove(t) \/ UnlockRemove(t)
    PROVE  UNCHANGED Directory!vars
<1> USE DEF Goto, heap, local
<1>1. CASE LockCreate(t)
  BY <1>1, Moves DEF LockCreate, CallStages, CreateSection
<1>2. CASE UnlockCreate(t)
  <2>1. \A u \in Threads \ {t} : new'[u] = new[u]
    BY <1>2, TypeParts DEF UnlockCreate, IInv, TypeRest
  <2> QED  BY <1>2, <2>1, Moves DEF UnlockCreate, CallStages, CreateSection
<1>3. CASE InitNode(t)  BY <1>3, Moves DEF InitNode, CallStages, CreateSection
<1>4. CASE InitFails(t)  BY <1>4, Moves DEF InitFails, CallStages, CreateSection
<1>5. CASE Load(t)
  <2>1. PICK stage \in {"script", "close dealer"} : pc' = [pc EXCEPT ![t] = stage]
    BY <1>5 DEF Load
  <2> QED  BY <1>5, <2>1, Moves DEF Load, CallStages, CreateSection
<1>6. CASE ScriptEnds(t)  BY <1>6, Moves DEF ScriptEnds, CallStages, CreateSection
<1>7. CASE CloseDealer(t)  BY <1>7, Moves DEF CloseDealer, CallStages, CreateSection
<1>8. CASE CloseLua(t)  BY <1>8, Moves DEF CloseLua, CallStages, CreateSection
<1>9. CASE CloseLoop(t)  BY <1>9, Moves DEF CloseLoop, CallStages, CreateSection
<1>10. CASE LockRemove(t)  BY <1>10, Moves DEF LockRemove, CallStages, CreateSection
<1>11. CASE UnlockRemove(t)  BY <1>11, Moves DEF UnlockRemove, CallStages, CreateSection
<1> QED  BY <1>1, <1>2, <1>3, <1>4, <1>5, <1>6, <1>7, <1>8, <1>9, <1>10, <1>11 DEF Boot

\* Each step of the registry is a step of the directory, or none.
LEMMA DirectoryStep == IInv /\ [Next]_vars => [Directory!Next]_(Directory!vars)
<1> SUFFICES ASSUME IInv, [Next]_vars  PROVE [Directory!Next]_(Directory!vars)  OBVIOUS
<1>1. CASE UNCHANGED vars
  <2>1. Live' = Live  BY <1>1 DEF vars, heap, local, Live, Linked, Undecided
  <2>2. Calls' = Calls  BY <1>1 DEF vars, heap, local, Calls, CallOf
  <2> QED  BY <2>1, <2>2, AsStutter
<1>2. CASE Start
  <2>1. Main \in Threads /\ pc[Main] \notin CallStages /\ Call(Main, StartName, "dispatch")
    BY <1>2, RegistryAssumption DEF Start, CallStages, CreateSection
  <2> QED  BY <2>1, CallStep
<1>3. ASSUME NEW t \in Threads, Create(t)  PROVE [Directory!Next]_(Directory!vars)
  BY <1>3, QuietStep, FindStep, InsertStep, SpawnStep, SpawnFailsStep, ReturnStep DEF Create
<1>4. ASSUME NEW t \in NodeThreads, NEW n, Launch(t, n)
      PROVE  [Directory!Next]_(Directory!vars)
  <2>1. t \in Threads /\ pc[t] \notin CallStages /\ Call(t, n, pc[t])
    BY <1>4 DEF NodeThreads, Launch, CallStages, CreateSection
  <2> QED  BY <2>1, CallStep
<1>5. ASSUME NEW t \in NodeThreads, Boot(t) \/ ScriptEnds(t) \/ Cleanup(t)
      PROVE  [Directory!Next]_(Directory!vars)
  BY <1>5, QuietStep, UnlinkStep DEF Cleanup, NodeThreads
<1> QED  BY <1>1, <1>2, <1>3, <1>4, <1>5 DEF Next, Over

\* The registry is the directory its callers take it for: whatever the locks,
\* the list and the threads do, qsf_create_node answers as if it looked the
\* name up and took it in one step.
THEOREM ImplementsTheDirectory == Spec => ImplementsDirectory
<1>1. Init => Directory!Init
  <2> SUFFICES ASSUME Init  PROVE Directory!Init  OBVIOUS
  <2>1. Live = {}  BY DEF Init, Live, Linked, ToSet
  <2>2. Calls = [t \in Threads |-> [stage |-> "none"]]
    BY DEF Init, Calls, CallOf, CallStages, CreateSection
  <2> QED  BY <2>1, <2>2 DEF Directory!Init, Directory!Quiet, Live, Calls, CallOf
<1> QED  BY <1>1, Invariance, DirectoryStep, PTL DEF Spec, ImplementsDirectory, Directory!Spec
=============================================================================
