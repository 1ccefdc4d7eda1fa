---------------------------- MODULE NodeRegistry -----------------------------
(***************************************************************************)
(* The node registry and the life of a node: src/src/qsf_node.c with the   *)
(* Lua entry point of src/src/lualib/lua_node.c.                           *)
(*                                                                         *)
(* A node is a heap object (qsf_node_t) linked into the global list        *)
(* node_ctx and run by an OS thread of its own, which opens a Lua VM and a *)
(* ZeroMQ dealer socket, runs the node's script and cleans up after it.    *)
(* Scripts launch further nodes; the thread of main() launches the first   *)
(* one and then routes messages.  The list and its counter are guarded by  *)
(* node_ctx.mutex.                                                         *)
(*                                                                         *)
(* An object is an address that malloc hands out, free takes back and      *)
(* malloc may hand out again; what a free object holds is nobody's name.   *)
(* A thread slot is reused once its thread has ended.                      *)
(***************************************************************************)
EXTENDS Naturals, SequencesExt

CONSTANTS Objects,     \* the addresses malloc may return for a qsf_node_t
          Threads,     \* slots for the threads of the process
          Main,        \* the thread of main(), which becomes the router
          Names,       \* node names shorter than MAX_ID_LENGTH, not "sys"
          TooLong,     \* a name of MAX_ID_LENGTH bytes or more
          Reserved,    \* the name "sys"
          StartName,   \* the name of the first node, from the config file
          Nobody       \* no thread, no object, no name

ASSUME RegistryAssumption ==
    /\ Main \in Threads
    /\ StartName \in Names
    /\ TooLong \notin Names
    /\ Reserved \notin Names
    /\ Nobody \notin Threads \cup Names
    /\ Nobody \notin Objects

VARIABLES
    list,       \* node_ctx.list, from its head
    count,      \* node_ctx.count
    mutex,      \* the thread that holds node_ctx.mutex, or Nobody
    allocated,  \* the objects malloc has handed out and free has not taken back
    name,       \* s->name; Nobody in an object that is free
    dealers,    \* objects whose dealer socket is open
    vms,        \* objects whose Lua VM is open
    good,       \* objects whose tag is QSF_NODE_TAG_VALUE_GOOD
    pc,         \* where each thread is
    self,       \* the argument of node_thread_callback
    request,    \* qsf_create_node: the parameter name
    new,        \* qsf_create_node: the local variable s
    answer,     \* qsf_create_node: its result, once decided
    back        \* where a thread continues when its call returns

heap == <<allocated, name, dealers, vms, good>>
local == <<self, request, new, answer, back>>
vars == <<list, count, mutex, heap, pc, local>>

NodeThreads == Threads \ {Main}

\* The stages of qsf_create_node that hold the mutex, then those of cleanup_node.
CreateSection == {"find", "insert", "spawn", "unlock create"}
RemoveSection == {"remove", "unlock remove"}
Critical == CreateSection \cup RemoveSection

CallStages == {"lock create", "return"} \cup CreateSection
BodyStages == {"init", "load", "script", "close dealer", "close lua", "close loop",
               "lock remove"} \cup RemoveSection
MainStages == {"start", "dispatch", "aborted"}
Stages == CallStages \cup BodyStages \cup MainStages \cup {"idle"}
Answers == {"ok", "too long", "reserved", "exists", "no thread"}

Linked == ToSet(list)
NamedAt(n) == {i \in DOMAIN list : name[list[i]] = n}

-----------------------------------------------------------------------------
Init ==
    /\ list = <<>>
    /\ count = 0
    /\ mutex = Nobody
    /\ allocated = {}
    /\ name = [o \in Objects |-> Nobody]
    /\ dealers = {}
    /\ vms = {}
    /\ good = {}
    /\ pc = [t \in Threads |-> IF t = Main THEN "start" ELSE "idle"]
    /\ self = [t \in Threads |-> Nobody]
    /\ request = [t \in Threads |-> Nobody]
    /\ new = [t \in Threads |-> Nobody]
    /\ answer = [t \in Threads |-> "none"]
    /\ back = [t \in Threads |-> IF t = Main THEN "dispatch" ELSE "script"]

Goto(t, stage) == pc' = [pc EXCEPT ![t] = stage]

\* Mutant: the lock is taken whoever holds it.
LockWithoutWaiting(t) == mutex' = t

Lock(t) == /\ mutex = Nobody
           /\ mutex' = t

\* Mutant: the loop does not get past the head of the list.
FoundAtHead(n) == 1 \in NamedAt(n)

\* find_from_node_list: is a node of this name linked?
Found(n) == NamedAt(n) # {}

\* Mutant: the head of the list is taken for the node looked for.
RemoveHead(o) ==
    /\ list' = Tail(list)
    /\ allocated' = allocated \ {Head(list)}
    /\ name' = [name EXCEPT ![Head(list)] = Nobody]
    /\ count' = count - 1

\* remove_from_node_list: unlink and free the first node that has the name of o.
RemoveFromList(o) ==
    IF Found(name[o])
    THEN LET i == Min(NamedAt(name[o]))
         IN  /\ list' = RemoveAt(list, i)
             /\ allocated' = allocated \ {list[i]}
             /\ name' = [name EXCEPT ![list[i]] = Nobody]
             /\ count' = count - 1
    ELSE UNCHANGED <<list, allocated, name, count>>

-----------------------------------------------------------------------------
(* qsf_create_node, called by thread t *)

\* The entry of qsf_create_node: two refusals that need no lock.
Call(t, n, cont) ==
    /\ request' = [request EXCEPT ![t] = n]
    /\ back' = [back EXCEPT ![t] = cont]
    /\ \/ /\ n = TooLong
          /\ Goto(t, "return")
          /\ answer' = [answer EXCEPT ![t] = "too long"]
       \/ /\ n = Reserved
          /\ Goto(t, "return")
          /\ answer' = [answer EXCEPT ![t] = "reserved"]
       \/ /\ n \in Names
          /\ Goto(t, "lock create")
          /\ UNCHANGED answer
    /\ UNCHANGED <<list, count, mutex, heap, self, new>>

\* qsf_start creates the first node.
Start == /\ pc[Main] = "start"
         /\ Call(Main, StartName, "dispatch")

\* node_launch, from the script or from a finalizer that lua_close runs.
Launch(t, n) == /\ pc[t] \in {"script", "close lua"}
                /\ self[t] \in vms
                /\ self[t] \in good
                /\ Call(t, n, pc[t])

LockCreate(t) == /\ pc[t] = "lock create"
                 /\ Lock(t)
                 /\ Goto(t, "find")
                 /\ UNCHANGED <<list, count, heap, local>>

\* Mutant: the search never gets past a node of another name.
FindStuck(t) ==
    /\ pc[t] = "find"
    /\ \/ /\ list # <<>> /\ ~Found(request[t])
          /\ UNCHANGED <<pc, answer>>
       \/ /\ list = <<>>
          /\ Goto(t, "insert")
          /\ UNCHANGED answer
       \/ /\ Found(request[t])
          /\ Goto(t, "unlock create")
          /\ answer' = [answer EXCEPT ![t] = "exists"]
    /\ UNCHANGED <<list, count, mutex, heap, self, request, new, back>>

Find(t) == /\ pc[t] = "find"
           /\ IF Found(request[t])
              THEN /\ answer' = [answer EXCEPT ![t] = "exists"]
                   /\ Goto(t, "unlock create")
              ELSE /\ Goto(t, "insert")
                   /\ UNCHANGED answer
           /\ UNCHANGED <<list, count, mutex, heap, self, request, new, back>>

\* create_from_node_list: a zeroed object at the tail of the list.
Insert(t) == /\ pc[t] = "insert"
             /\ \E o \in Objects \ allocated :
                   /\ allocated' = allocated \cup {o}
                   /\ name' = [name EXCEPT ![o] = request[t]]
                   /\ dealers' = dealers \ {o}
                   /\ vms' = vms \ {o}
                   /\ good' = good \ {o}
                   /\ list' = Append(list, o)
                   /\ new' = [new EXCEPT ![t] = o]
             /\ count' = count + 1
             /\ Goto(t, "spawn")
             /\ UNCHANGED <<mutex, self, request, answer, back>>

\* uv_thread_create succeeds ...
Spawn(t, u) == /\ pc[t] = "spawn"
               /\ u \in NodeThreads
               /\ pc[u] = "idle"
               /\ pc' = [pc EXCEPT ![t] = "unlock create", ![u] = "init"]
               /\ self' = [self EXCEPT ![u] = new[t]]
               /\ answer' = [answer EXCEPT ![t] = "ok"]
               /\ UNCHANGED <<list, count, mutex, heap, request, new, back>>

\* Mutants: the object stays linked; the failure is reported as success.
SpawnFailsLinked(t) ==
    /\ pc[t] = "spawn"
    /\ Goto(t, "unlock create")
    /\ answer' = [answer EXCEPT ![t] = "no thread"]
    /\ UNCHANGED <<list, count, mutex, heap, self, request, new, back>>
SpawnFailsSilently(t) ==
    /\ pc[t] = "spawn"
    /\ RemoveFromList(new[t])
    /\ Goto(t, "unlock create")
    /\ answer' = [answer EXCEPT ![t] = "ok"]
    /\ UNCHANGED <<mutex, dealers, vms, good, self, request, new, back>>

\* ... or fails, and the object just linked is taken out again.
SpawnFails(t) == /\ pc[t] = "spawn"
                 /\ RemoveFromList(new[t])
                 /\ Goto(t, "unlock create")
                 /\ answer' = [answer EXCEPT ![t] = "no thread"]
                 /\ UNCHANGED <<mutex, dealers, vms, good, self, request, new, back>>

UnlockCreate(t) == /\ pc[t] = "unlock create"
                   /\ mutex' = Nobody
                   /\ Goto(t, "return")
                   /\ new' = [new EXCEPT ![t] = Nobody]
                   /\ UNCHANGED <<list, count, heap, self, request, answer, back>>

\* The call returns; qsf_start asserts that the first node was created.
Return(t) == /\ pc[t] = "return"
             /\ Goto(t, IF t = Main /\ answer[t] # "ok" THEN "aborted" ELSE back[t])
             /\ answer' = [answer EXCEPT ![t] = "none"]
             /\ request' = [request EXCEPT ![t] = Nobody]
             /\ UNCHANGED <<list, count, mutex, heap, self, new, back>>

-----------------------------------------------------------------------------
(* node_thread_callback, run by thread t *)

\* init_node; luaL_newstate may return NULL.
InitNode(t) == /\ pc[t] = "init"
               /\ vms' = vms \cup {self[t]}
               /\ dealers' = dealers \cup {self[t]}
               /\ good' = good \cup {self[t]}
               /\ Goto(t, "load")
               /\ UNCHANGED <<list, count, mutex, allocated, name, local>>

InitFails(t) == /\ pc[t] = "init"
                /\ Goto(t, "close dealer")
                /\ UNCHANGED <<list, count, mutex, heap, local>>

\* luaL_loadfile succeeds or reports an error.
Load(t) == /\ pc[t] = "load"
           /\ \E stage \in {"script", "close dealer"} : Goto(t, stage)
           /\ UNCHANGED <<list, count, mutex, heap, local>>

\* qsf_trace_pcall returns: the script has ended or failed.
ScriptEnds(t) == /\ pc[t] = "script"
                 /\ Goto(t, "close dealer")
                 /\ UNCHANGED <<list, count, mutex, heap, local>>

-----------------------------------------------------------------------------
(* cleanup_node, run by thread t *)

\* Mutant: zmq_close is forgotten.
CloseDealerNever(t) == /\ pc[t] = "close dealer"
                       /\ Goto(t, "close lua")
                       /\ UNCHANGED <<list, count, mutex, heap, local>>

CloseDealer(t) == /\ pc[t] = "close dealer"
                  /\ dealers' = dealers \ {self[t]}
                  /\ Goto(t, "close lua")
                  /\ UNCHANGED <<list, count, mutex, allocated, name, vms, good, local>>

\* Mutant: lua_close is forgotten.
CloseLuaNever(t) == /\ pc[t] = "close lua"
                    /\ Goto(t, "close loop")
                    /\ UNCHANGED <<list, count, mutex, heap, local>>

CloseLua(t) == /\ pc[t] = "close lua"
               /\ vms' = vms \ {self[t]}
               /\ Goto(t, "close loop")
               /\ UNCHANGED <<list, count, mutex, allocated, name, dealers, good, local>>

\* Mutant: an event loop that is still alive is run instead of stopped.
CloseLoopRuns(t) == pc[t] = "close loop" /\ UNCHANGED vars

CloseLoop(t) == /\ pc[t] = "close loop"
                /\ good' = good \ {self[t]}
                /\ Goto(t, "lock remove")
                /\ UNCHANGED <<list, count, mutex, allocated, name, dealers, vms, local>>

\* Mutant: the list is changed without the lock.
LockRemoveNever(t) == /\ pc[t] = "lock remove"
                      /\ Goto(t, "remove")
                      /\ UNCHANGED <<list, count, mutex, heap, local>>

LockRemove(t) == /\ pc[t] = "lock remove"
                 /\ Lock(t)
                 /\ Goto(t, "remove")
                 /\ UNCHANGED <<list, count, heap, local>>

Unlink(t) == /\ pc[t] = "remove"
             /\ RemoveFromList(self[t])
             /\ Goto(t, "unlock remove")
             /\ UNCHANGED <<mutex, dealers, vms, good, local>>

\* The thread ends; its slot may serve another one.
UnlockRemove(t) == /\ pc[t] = "unlock remove"
                   /\ mutex' = Nobody
                   /\ Goto(t, "idle")
                   /\ self' = [self EXCEPT ![t] = Nobody]
                   /\ UNCHANGED <<list, count, heap, request, new, answer, back>>

-----------------------------------------------------------------------------
\* Every node has ended: the router waits for a message that nobody will send,
\* or the first node could not be created.
Over == /\ pc[Main] \in {"dispatch", "aborted"}
        /\ \A t \in NodeThreads : pc[t] = "idle"
        /\ UNCHANGED vars

Create(t) == LockCreate(t) \/ Find(t) \/ Insert(t) \/ (\E u \in Threads : Spawn(t, u))
             \/ SpawnFails(t) \/ UnlockCreate(t) \/ Return(t)
Cleanup(t) == CloseDealer(t) \/ CloseLua(t) \/ CloseLoop(t) \/ LockRemove(t)
              \/ Unlink(t) \/ UnlockRemove(t)
Boot(t) == InitNode(t) \/ InitFails(t) \/ Load(t)

Next == \/ Start
        \/ \E t \in Threads : Create(t)
        \/ \E t \in NodeThreads :
              \/ Boot(t)
              \/ \E n \in Names \cup {TooLong, Reserved} : Launch(t, n)
              \/ ScriptEnds(t)
              \/ Cleanup(t)
        \/ Over

\* The operating system runs every thread that can run.  Nothing makes a script
\* end, and nothing makes the mutex fair.
Spec == Init /\ [][Next]_vars
FairSpec == /\ Spec
            /\ WF_vars(Start)
            /\ \A t \in Threads : WF_vars(Create(t))
            /\ \A t \in NodeThreads : WF_vars(Boot(t) \/ Cleanup(t))

-----------------------------------------------------------------------------
\* Every variable keeps its range; in particular node_ctx.count, which is only
\* ever added to and taken from, never goes below zero.
TypeOK ==
    /\ list \in Seq(Objects)
    /\ count \in Nat
    /\ mutex \in Threads \cup {Nobody}
    /\ allocated \in SUBSET Objects
    /\ name \in [Objects -> Names \cup {Nobody}]
    /\ dealers \in SUBSET Objects
    /\ vms \in SUBSET Objects
    /\ good \in SUBSET Objects
    /\ pc \in [Threads -> Stages]
    /\ self \in [Threads -> Objects \cup {Nobody}]
    /\ request \in [Threads -> Names \cup {TooLong, Reserved, Nobody}]
    /\ new \in [Threads -> Objects \cup {Nobody}]
    /\ answer \in [Threads -> Answers \cup {"none"}]
    /\ back \in [Threads -> {"script", "close lua", "dispatch"}]

\* A thread has a node of its own from the moment it starts until it frees it.
RunsNode(t) == t \in NodeThreads /\ pc[t] \notin {"idle", "unlock remove"}

\* Two nodes of one name are never linked at the same time, whatever the
\* launches and the exits of that name that race with each other
\* (qsf_create_node looks the name up and inserts it under one lock).
NamesUnique ==
    \A i, j \in DOMAIN list : name[list[i]] = name[list[j]] => i = j

\* Two open dealers never have the same ZeroMQ identity: cleanup_node closes the
\* socket before the name leaves the list and may be launched again.
IdentitiesUnique ==
    \A o, p \in dealers : name[o] = name[p] => o = p

\* The memory a running node thread uses (qsf_node_t* s) is never freed under
\* it nor shared with another thread, although it is found and freed by name.
NodesOwned ==
    /\ \A t \in Threads : RunsNode(t) => self[t] \in allocated \cap Linked
    /\ \A t, u \in Threads : RunsNode(t) /\ RunsNode(u) /\ self[t] = self[u] => t = u

\* No object leaks: what malloc handed out is what is linked and counted, and
\* whatever is linked has a thread that will take it out, or a creator that is
\* about to start one.
NodesAccountedFor ==
    /\ allocated = Linked
    /\ count = Len(list)
    /\ \A o \in Linked : \/ \E t \in Threads : RunsNode(t) /\ self[t] = o
                         \/ \E t \in Threads : pc[t] = "spawn" /\ new[t] = o

\* An object goes back to malloc only when its socket, its VM and its tag are
\* done with, and it is the object that the removing thread meant.
FreedClean ==
    [][\A o \in allocated \ allocated' :
          /\ o \notin dealers \cup vms \cup good
          /\ \E t \in Threads : \/ (pc[t] = "remove" /\ self[t] = o)
                                \/ (pc[t] = "spawn" /\ new[t] = o)]_vars

\* The list and its counter change only in the hands of the holder of
\* node_ctx.mutex, and never two threads hold it.
ListGuarded ==
    [][<<list, count>>' # <<list, count>> =>
          \E t \in Threads : /\ mutex = t
                             /\ {u \in Threads : pc[u] \in Critical} = {t}]_vars

\* The registry implements the directory of names.  A name is live while it is
\* linked, except between its insertion and the start of its thread: until
\* uv_thread_create has answered, the launch has not happened.
Undecided == {new[t] : t \in {u \in Threads : pc[u] = "spawn"}}

Directory == INSTANCE NodeDirectory
    WITH Callers <- Threads,
         live <- {name[o] : o \in Linked \ Undecided},
         call <- [t \in Threads |->
                    IF answer[t] # "none" THEN [stage |-> "told", answer |-> answer[t]]
                    ELSE IF pc[t] \in CallStages THEN [stage |-> "asked", name |-> request[t]]
                    ELSE [stage |-> "none"]]

ImplementsDirectory == Directory!Spec

\* Whoever gets the mutex gives it back.
MutexReleased == \A t \in Threads : mutex = t ~> mutex # t

\* Once no more nodes are launched, every node that starts to clean up gets
\* through the mutex, out of the list, and its thread ends.
NodesLeave ==
    <>[](\A t \in Threads : pc[t] \notin CallStages)
        => \A t \in NodeThreads : pc[t] = "close dealer" ~> pc[t] = "idle"

\* No thread is kept waiting for the mutex of the list for ever, whatever path its
\* holder takes through qsf_create_node or cleanup_node.
NoDeadlock == MutexReleased /\ NodesLeave
=============================================================================
