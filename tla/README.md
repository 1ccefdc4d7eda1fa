# A TLA+ model of QSF

QSF is a framework for Lua programs made of *nodes*: operating-system threads, each with a Lua VM
and a ZeroMQ dealer socket, that send each other messages through one router. A node may also run a
TCP server on its own libuv loop. The core is about 1400 lines of C under `src/src`; 3500 more bind
libraries for scripts (MySQL, zlib, OpenSSL, ZeroMQ, libuv, file system). The rest of the repository
is Lua libraries, mostly third-party, and vendored headers.

This directory holds TLA+ modules translated from that C code, the TLC configurations that check them
on small instances, and proofs that TLAPS checks for every value of the constants.
`PROJECT.json` says which lines of the source each definition models.

## The system

| Component | State it keeps | Operations | Shared with, or called by |
|---|---|---|---|
| Node registry (`qsf_node.c`, `lualib/lua_node.c`) | the list of nodes, its counter, a mutex; per node: name, socket, VM, tag, thread | `qsf_create_node`, `node_thread_callback`, `init_node`, `cleanup_node`, `node.launch` | every node thread and `main()` |
| Router and messaging (`qsf_start.c`, `qsf_node.c`) | the router socket, a pair of pipes for each dealer, the message in the router's hand | `qsf_create_dealer`, `qsf_node_send`, `qsf_node_recv`, `dispatch_message` | `main()` runs the router, nodes send and receive |
| TCP server (`net/qsf_net_server.c`, `lualib/lua_net.c`) | a table of sessions by serial number, the acceptor, the heart-beat timer | start, stop, collection, write, broadcast, shutdown, kick; callbacks for connections, bytes, timer, closed handles | one node's thread; calls back into the script |
| Packet framing (`net/qsf_net_server.c`) | a session's receive buffer and its counters | `on_session_alloc`, `on_session_read`, `do_session_write` | libuv, TCP server |
| Environment (`qsf_env.c`) | a Lua state with the settings, a mutex | `qsf_getenv`, `qsf_getenv_int`, `qsf_setenv`, `qsf_env_exit` | every thread |
| Start and shutdown (`qsf_start.c`, `qsf_main.c`) | the ZeroMQ context | `qsf_start`, `qsf_exit`, two signal handlers | everything |
| MySQL client (`lualib/lua_mysql.c`) | per connection: the library's object; per cursor: a result, a reference to the connection | connect, execute, fetch, fetchAll, close, collection | the script of one node, its garbage collector |
| zlib, base64, crypto (`lualib/lua_zlib.c`, `lua_b64.c`, `lua_crypto.c`) | a stream or a digest in the upvalues of a closure; an RSA or AES object | deflate and inflate streams, checksums; encode, decode; set a key, encrypt, decrypt | the script of one node, its garbage collector |
| ZeroMQ sockets of scripts (`lualib/lua_zmq.c`) | a socket with its options | 73 getters and setters; create, send, recv, close | the script of one node; the context is the process's |
| Timers (`lualib/luv/luv_timer.h`) | a handle and a reference in the Lua registry | `createTimer`; callbacks when it fires and when it is closed | the loop of one node, its script |
| File system (`lualib/lua_fs.c`) | lock files, open directories, the working directory, one static buffer | locks, iterators, attributes, `chdir` | all nodes: directory and buffer are the process's |
| Processes, logging, preloading, OS functions, Lua libraries | – | one call of a library or of the system each | not modelled |

What makes it hard:

* *Threads.* Any script may launch any name at any time, while nodes of that name start, fail to
  start, and end. Objects are found and freed **by name**.
* *Callbacks.* The TCP server calls the script, which may kick, write, shut down or stop before it
  returns; the callback goes on with pointers it read before.
* *Asynchronous ends.* A libuv handle is freed one turn of the loop after it was closed; a ZeroMQ
  pipe outlives its dealer.
* *Full queues.* At a high-water mark ZeroMQ blocks or drops, depending on one option.
* *Boundaries.* 16-bit packet sizes, 32-bit serial numbers that wrap around, a limit on connections;
  output that just fills its buffer, messages that just fill their blocks, bits left over.
* *Several ends of one thing.* A stream, a socket or a directory may end by itself, be closed and be
  collected, in this order or another.
* *The end of the process.* `qsf_exit` may run when the loop ends, or in a signal handler on any
  thread at any time.

The hazards are listed one by one, each at its line, in `PROJECT.json`.

## The modules

| Module | Models | Abstract specification it implements |
|---|---|---|
| `NodeRegistry` | registry and life of a node | `NodeDirectory` |
| `Router` | dealers, pipes, `dispatch_message` | `MessageService` |
| `NetServer` | sessions and callbacks of the TCP server | `SessionTable` |
| `FrameCodec` | bytes, header, buffer of one connection | `PacketStream` |
| `Environment` | settings, their mutex and their strings | – |
| `ResultCursor` | MySQL connections and cursors | `ResultSet` |
| `Shutdown` | start and end of the process: what is set up, used and taken down when | – |
| `ZlibFilter`, `ZlibChecksum` | streams and running checksums | – |
| `Base64`, `CryptoBlocks` | pure functions, and the objects that keep keys and vectors | – |
| `ZmqOptions`, `ZmqSocket` | options, frames and life of a script's socket | – |
| `LuvTimer` | timers and their references | – |
| `FileSystem` | directory locks, iterators, the buffer of permissions | – |
| `ScriptLibraries` | composes the last eight: a script uses one of them | – |
| `MC...` | the constants, and symmetry, for TLC | |
| `NodeRegistry_proofs`, `Router_proofs`, `NetServer_proofs`, `FrameCodec_proofs`, `ResultCursor_proofs` | theorems about these modules, with proofs | |
| `Process_proofs` | the same for `Environment` and `Shutdown` | |
| `ScriptLibraries_proofs` | the same for `ScriptLibraries` and the modules it composes | |
| `SequenceLemmas` | what these share: lists without repetitions, least elements and induction by them, sequences that are put together, cut, or kept in part | |

Mutant definitions (a name such as `LockWithoutWaiting`, with a comment that begins with "Mutant")
belong to no specification. Each is a bug that one could plausibly make in the definition it stands
before; put in its place, it makes the property named in `PROJECT.json` fail.

### NodeRegistry

A node is an *object*: an address that `malloc` gives out and `free` takes back, so that an address
may come back with another node in it. `list` and `count` are `node_ctx`; `allocated` is the heap;
`name`, `dealers`, `vms` and `good` are the fields of the objects. Each thread has a program counter
`pc`; one stage of it is one call that others can observe: lock, look-up, insertion,
`uv_thread_create`, unlock, and so on. The actions are named after the steps of the code:
`Call`, `LockCreate`, `Find`, `Insert`, `Spawn` or `SpawnFails`, `UnlockCreate` and `Return` are
`qsf_create_node`; `InitNode`, `Load` and `ScriptEnds` are `node_thread_callback`; `CloseDealer` to
`UnlockRemove` are `cleanup_node`. A script is whatever calls `node.launch` any number of times and
then ends; finalizers may do so, too, while `lua_close` runs.

`RemoveFromList` is translated as it stands: it unlinks and frees *the first node of the same name*.
That this is the node the caller means is a theorem, not an assumption.

`ImplementsDirectory` maps the registry to `NodeDirectory`, a set of names in which a call is
answered in one step. The linearisation points are the start of the thread for "ok", the look-up for
"exists", the failure of `uv_thread_create` for "no thread"; a name leaves when it is unlinked. A
node that is inserted but whose thread is not yet started does not count: the mutex hides it.

### Router

`up[p]` and `down[p]` are the two pipes between the dealer `p` and the router, each with its
high-water mark. A sender over its mark is blocked in `zmq_send`; the message it is blocked on is the
last in `up[p]`. `hand` is the message that `dispatch_message` has received and not yet sent.
`Deliver`, `Discard` and `Unreachable` are the outcomes of the send: room, no room or nobody with
`router_mandatory` off, nobody with it on. `Interrupted` is a signal. `Attach` and `Detach` are the
library's side, modelled from what the code makes it do: a dealer is known to the router some time
after `zmq_connect`, and its route stays some time after it was closed. A dealer that connects while
its identity is still routed becomes *mute*: the library ignores it.

`MessageService` is the promise: a mailbox for each sender and receiver, in order, without
duplicates; with `router_mandatory` a message is lost only if a namesake of the receiver has left,
its sender leaves, or the process halts. The mailbox is read off the way (`Mail`): what waits in the
pipe of the open dealer of that name, then what the router holds, then what has not left the sender,
and of all this the messages from the one to the other (`Letters`).

### NetServer

One libuv loop on one thread. An action is a callback, or the part of a callback up to the call of
the script; `event` says that the script is running inside such a callback, and what the callback
will go on with. While `event` is set only operations that the script may call, and `Return`, are
possible: this is the re-entrancy of the code. `HeartBeat`, `Walk` and `Return` together are
`hearbeat_timer_cb`, whose loop has read the next session before it calls the script about this one.
`closing` and `pending` model the asynchronous ends: a session is freed (`Free`) only after
`uv_close` and after its writes were finished. `held` is the client that libuv has accepted and that
nobody has asked for: as long as there is one, libuv does not accept another.

A rule is asked of scripts, because what follows otherwise is undefined in the code: in a callback
that says that a session has ended, do not kick it, nor the next session of a timer's walk, and do
not stop the server. It is stated in the guards of `Kick` and `Stop`, and is listed as a hazard.

### FrameCodec

One connection at the level of bytes. `Write` puts a packet on the wire, `Read(n)` is
`on_session_alloc` followed by `on_session_read` with any number `n` of bytes that the room given and
the wire allow. A byte has `Base` values, so that `uint16_t` is `Base * Base`: with `Base = 2` every
size that fits a header can be checked. `Junk` is what `malloc` leaves in memory. `PacketStream` is
the promise: packets arrive whole and in order (`ImplementsPacketStream`), and they arrive
(`PacketsArrive`, its fairness).

### Environment

`qsf_getenv` returns a pointer into the Lua state and gives the mutex back. `value` and `stale` say
what a caller holds and whether it may have been collected; `MayCollect` is the garbage collector,
which may run at any allocation (`lua_tostring` of a number, `lua_pushstring`). The model stops at
`Exit`: a step of a mutex or a Lua state that is gone has no meaning.

### ResultCursor

One connection and its cursors. `link` is what the library knows of the connection, `memory` the
userdata that contains it, `refs` the references in the Lua registry, `reader` the cursor whose rows
are still on the wire. A row has one column with a text of some size; what a call shows to the script
(`told`) is each row with the size that its text was cut to. `Lose` is the network, `Drop` the script
that forgets an object; `CollectCursor` and `CollectConnection` are the collector, which finds the
connection only when no registry reference is left. `HasRow` says what `mysql_fetch_row` returns.

`ResultSet` is the promise: the rows of each query in order, each once; a result may end early.

### Shutdown

The process as a whole, with little of each part. `there` holds what is set up: the environment, the
ZeroMQ context, the mutex of the node list. `main` is the place in `qsf_start`, `node[n]` that of a
node's thread, `exit[t]` the place in `qsf_exit` of a thread that runs it: main after its loop, or
any thread that a signal reaches. A step that uses what is not there, or cleans up a node that has a
thread, is undefined: it sets `wrong`, and the model stops. `hurried` records that `qsf_exit` was
begun while a node's thread lived. In an *orderly* process, one without signals and hurry, nothing
undefined happens; with them it does, which the code's own comment calls a TO-DO.

### The libraries of scripts

`ScriptLibraries` composes eight modules, none of which calls another: a behaviour is that of the
one that its script requires.

* `ZlibFilter`: a stream's content is a sequence of items; `libz` takes any of its input and puts out
  any of what it then has, up to the room, as its contract allows (`Takes`, `Returns`). `Enter`,
  `Turn` and `Leave` are the three parts of `lz_filter_impl`: what comes before the loop, a turn of
  it, what comes after. `Finalize` is the collector.
* `ZlibChecksum`: a digest *is* the sequence of what was digested; `Combined` yields `Garbage` when it
  is given a wrong length. `SumAsk` to `SumCombine` spans the script's function, which may call any
  checksum, the asking one too.
* `Base64`: `Encode` and `Decode` as functions. A byte is four units, a character three of them; a
  `Unit` has 4 values in the code (two bits) and 2 where TLC is to enumerate inputs: a character then
  stands for 3 of 4 bits as it stands for 6 of 8. `Ntop` gives the text of `b64_ntop` place by place;
  `Reading` is where `b64_pton` is after each character.
* `CryptoBlocks`: an encrypted block is `Modulus` cells that carry block, place and key half, so that a
  block that is cut wrongly does not decrypt. AES in output feedback mode adds a stream of bits.
* `ZmqOptions`: the getters and setters as tables from the name of a method to the option it names
  and the type it passes; `ToC` and `ToLua` are the conversions, with what they lose.
* `ZmqSocket`: a sender and a receiver, messages of frames, and the calls of `zmq_close`.
* `LuvTimer`: references are given out again as soon as they are given back. `Fire` and `Fired` are
  the two halves of `timeout_cb`, around the script's function, which may create timers.
* `FileSystem`: three parts that do not touch each other. `perm2string` is modelled one character at
  a time, as its buffer is shared by all threads.

## What TLC checks

| Run | Instance | Shows |
|---|---|---|
| `registry` | main and 2 node threads, 3 objects, 3 names, a too long and a reserved name | names and identities are unique; no use after free, no leak; the list is guarded by its lock; implements `NodeDirectory`; the mutex always comes back, and nodes that clean up get out |
| `router` | 2 dealers, 2 names, 3 messages each, pipes of 1 up and 2 down, both values of `router_mandatory` | order, no duplicates; implements `MessageService`; progress of router and senders while nodes read |
| `server` | 2 sessions, a limit of 2, serial numbers modulo 4 from 3 | usable sessions, unique serial numbers, re-entrant callbacks; implements `SessionTable`; silent sessions are dropped, dropped sessions are freed |
| `server_limit` | 2 sessions, a limit of 1 | **violation**: after one refusal nobody is admitted |
| `codec` | bytes of 2 values, initial buffer of 2, all packets up to 3 bytes, 2 under way | room is inside the buffer; the packets arrive whole and in order |
| `env_safety` | main and 2 threads, 2 settings, 2 strings, 1 number | the Lua stack is private; strings in use stay |
| `env_alive` | the same | **violation**: a number's string is collected in use |
| `cursor` | 2 cursors, results of up to 2 rows of 2 kinds | the connection outlives its results; the wire has one owner; a forgotten connection is closed; implements `ResultSet` |
| `cursor_whole` | the same | **violation**: texts cut to the first row's sizes |
| `shutdown` | 3 nodes, 1 signal | what is used is there, in an orderly process; at its end only the router's socket is open |
| `shutdown_end` | the same | **violation**: an orderly `qsf_exit` does not end |
| `libraries` | see below | streams whole, sums of all that was fed, base64 one to one, decryption, options read back, frames in order, timers run their own functions, shared state kept; everything released once; flushes come out; one-shot timers are freed |

Why these bounds are enough. In the registry two node threads and main are what it takes for one node
of a name to end while a second caller launches the name and a third finds it; three objects let an
address be used again while another is in use. In the router two dealers can take turns under the
two names, so that there is a sender, a receiver and the receiver's successor; pipes of one or two
messages are full at once. In the server, numbers modulo 4 wrap around within a few connections, and
with two objects one session can be in the middle of closing while another is accepted. For these
three the bounds stand beside proofs for any number of threads, pipes and sessions. In the codec,
sizes 0 to 3 use both bytes of the header, and 3 is larger than the initial buffer. For cursors, two
rows of different sizes are what it takes to confuse them, and two cursors to compete for the wire.
For the end of the process a third node is one that another node launches while the first one ends.

In `libraries`: pieces shorter than, as long as and longer than the room of 2, with the end of the
stream or a flaw at each kind of place; two checksums that ask each other or themselves; all inputs of
up to two bytes and all texts of up to four characters (half the alphabet, the pad, a space, a NUL
and a stranger), and some longer ones; RSA blocks of 2 in 4 cells with a buffer of 3 blocks, and
messages of 1 to 7; every option set and another one after it; two messages under way, four frames sent; two
timers that compete for two references; two directories, three locks, two iterators, two threads in
`perm2string` with a string of two places.

Where a counter is cut off the bound is a constant: `MaxSent`, `MaxQueue`, `MaxWaiting`, `MaxPending`,
`MaxRows`, `MaxGiven`, `MaxSum`, `MaxSets`, `MaxEntries`.

Type invariants are proved (below) and not checked again by a run.

Runs that switch the deadlock check off are those of systems that stop: a router after a signal, a
server that was destroyed, an environment that was closed, a connection that was collected or whose
peer has sent all it had, a process that has ended or waits for ever in `zmq_ctx_term`, a script that
calls its libraries no more. The registry is checked for deadlock. (There the step `Over` is the
router waiting for ever when all nodes have ended: this is what the code does.)

Fairness:

* registry: the operating system runs each thread that can run. Nothing is assumed of scripts, which
  may run for ever, and the mutex need not be fair: that is why `NodesLeave` (part of `NoDeadlock`) is
  stated for the time when launches have stopped.
* router: the router's thread goes on, and reads its pipes in turn (ZeroMQ's fair queueing), hence
  strong fairness of `Receive`. Nothing is assumed of the nodes; that they read is a premise of both
  parts of `NobodyStuck`.
* server: `node.run` turns the loop and each turn runs timers, listener, finished requests and
  closed handles; callbacks of the script return. As a script may keep the loop busy between, these
  are strong fairness conditions. Clients need do nothing.
* codec: the loop reads what has arrived.
* cursors: the collector takes what nothing refers to, at the latest when the VM is closed.
* shutdown: the operating system runs the threads that can run; scripts need not end.
* libraries: a call of C code goes on. Each turn of a node's loop fires every timer that is due and
  then closes what is to be closed; as other timers may be due again in the meantime, this is strong
  fairness for each timer.

### Where code and comments disagree

1. `qsf_net_server.c:36` and `qsf_net_def.h:16` speak of *alive* connections. At the limit
   `on_connection` returns without `uv_accept`, and libuv (on Unix) then stops watching the listening
   socket: one refusal ends all accepting, even after sessions have gone. (`server_limit`)
2. `qsf_env.c:21` says "thread-safe access". The string that `qsf_getenv` makes of a number is
   referred to by nothing once it is popped, and is read after the mutex was given back.
   (`env_alive`)
3. `lua_mysql.c:32` says "fetch all result in one query". `cursor_fetch_all` asks for the lengths of the
   columns once, before its loop (line 200), and cuts the texts of every row to the sizes of the first
   one. (`cursor_whole`)
4. `qsf_start.c:135` says of `qsf_exit` "do cleanup work", and `qsf_start` returns after it. `qsf_exit`
   never closes the router's socket, for which `zmq_ctx_term` waits: even when every node has ended
   and closed all of its sockets (`OnlyRouterLeft`), it does not return. (`shutdown_end`)

More places are worth a look, though nothing in the repository promises otherwise, so no run refutes
anything there. The properties that touch them say what they except:

* `cleanup_node` closes the dealer before it runs the finalizers of the script, and clears the tag
  that guards the dealer's use only after them.
* `qsf_exit` in a signal handler, or when the loop ends while nodes run, takes environment, mutex and
  nodes away from threads that use them (excepted in `UsedWhenThere`).
* `cursor_fetch` returns nothing at the end of a result, and also when the connection of an
  unbuffered result is lost.
* `base64.encode("")` ends the process: the size of its buffer is computed as `0 - 1` (excepted in
  `TextsOneToOne`).
* `getMaxMsgSize` and the getters of the CURVE keys always fail, `setPlainUsername` and
  `setPlainPassword` store the bytes of a pointer, `getIdentity` may return bytes behind the identity,
  and `setImmediate` takes a boolean while `getImmediate` returns an integer (the set `Unreadable` of
  `ZmqOptions`).
* A `createTimer` with wrong arguments leaves a handle that is never closed (the state `lost`).
* A directory lock by a relative path, and the permissions of a file when two nodes ask at once
  (excepted in `SharedStateKept`).

## What TLAPS proves

`NodeRegistry_proofs`, for any sets of objects, threads and names that satisfy
`RegistryAssumption`:

* `TypeCorrect`, `NamesAreUnique`, `IdentitiesAreUnique`, `NodesAreOwned`, `NodesAreAccountedFor`:
  the invariants of `registry`, and type correctness;
* `FreesAreClean`, `ListIsGuarded`: two of its action properties;
* `ImplementsTheDirectory`: the refinement `ImplementsDirectory`.

None of them is inductive. The invariant `IInv` has four parts: `ListInv` (the list has no repetition
and what it links is allocated; names in it are unique; `count` is its length), `ControlInv` (who
holds the mutex is exactly who is in a critical section), `OwnInv` (whose node is whose: a thread's
object is linked and no other thread's, a creator's new object is nobody's yet) and `ResourceInv`
(which resources an object can have at which stage of its thread). Each part is shown to be kept by
each action from the whole of `IInv`. The heart is `RemoveTakesOutTheArgument`: as names in
the list are unique, the first node of the same name *is* the node that was meant. It rests on
`RemoveAtDef` in `SequenceLemmas`, which gives `RemoveAt` of the community modules pointwise.

The refinement follows from the same invariant. `Live` and `Calls` are the directory's variables as
the mapping defines them; a lemma for each step of the directory (`AsAsk`, `AsAnswer`, ...) says how
they have to change, and a lemma for each action of the registry that they do (`FindStep`,
`SpawnStep`, ..., together `DirectoryStep`). A launch takes effect when the thread has been created:
the object just linked is left out of `Live` until then (`OneSpawns`, `AboutToSpawn`), which is why a
launch that fails there is a refusal that leaves the directory as it was. `NetServer_proofs` and
`ResultCursor_proofs` show their refinements in the same way.

`NetServer_proofs`, for any number of sessions, any limit and serial numbers of any width larger than
the limit by two (2^32 in the code): type correctness (`ServerTypeCorrect`) and the four invariants
of `server`, as `TableHoldsTheLiving`, `NumbersAreUnique`, `CallbacksCanGoOn` and `StoppedIsQuiet`. Two
arguments carry them.

* *A free number exists* (`FirstFreeIsFree`). The search of `set_session_serial` visits every number
  (`Around`), the taken ones and zero are fewer than there are numbers (counting, with
  `ElementsOfSequence` and `ImageNotLarger`), so it ends, at a number that is free.
* *The callback can go on* (`EventStep`). `ResumesOnLiveSessions` is not inductive: after a time-out
  the walk goes on behind the next session, and nothing would say that it does not meet the one that
  has just been deleted. `EventInv` adds that the next session is *behind* this one in the table, and
  `HashDelOrder` that deleting others keeps it there.

`ImplementsTheSessionTable` (`ImplementsSessionTable`) says that the script sees a table of numbered
sessions, whatever it does inside a callback. The limit carries over because there are as many
numbers in use as sessions in the table (`AsManyNumbers`), and the end of a session is the end of its
number and of no other because numbers are unique (`NumberGoes`).

`Router_proofs`, for any dealers, names and high-water marks: `MessagesStayInOrder` (`InOrder`) and
`RouterTypeCorrect`, from `RouterInv`. That what a dealer still has to read is in order is not
inductive: it must be known on the whole way at once. `UpOrder`, `HandBetween`, `DownFirst` and
`DownOrder` say that the numbers grow from the receivers' pipes over the router's hand to the
sender's pipe, and `Origins` that no message has a number which its sender has not given out yet.

`RouterImplementsMessageService` (`ImplementsMessageService`) adds that the router loses nothing on
the way but what it may. A mailbox is the letters of three sequences put together, and as the letters
of a concatenation are the concatenated letters (`LettersConcat`), a step need only be followed on the
part that it changes (`MailIs`, `SameMail`): `Receive` and `Deliver` carry a message from one part
into the next, so that no mailbox changes; `Send` is `Post`, `Recv` is `Take`, `Close` is `Leave`,
`Discard` and a delivery to a dealer that was closed are `Lose`, `Unreachable` and `Interrupted` are
`Halt`, and the library's steps are unseen. It needs one invariant more, `OpenPipes`: open dealers
have names, all of them different, and nothing waits in the pipe of a dealer that is not open.

`FrameCodec_proofs`, for any number of byte values, any initial buffer that holds a header and any
packets that fit one: `RoomStaysInBuffer` (the property `RoomInBuffer`), `NoJunkTold` (the script
never sees a byte that was not received) and `CodecTypeCorrect`, from the inductive `MemoryInv`.
`SizeRange` and `NoWrap` are the arithmetic: no header says a size that `uint16_t` cannot hold, and no
counter wraps. `StreamIsKept` (`StreamKept`) says that the packet a session is collecting and the
bytes on the wire are together the packets not yet told, each with its header, and
`CodecImplementsPacketStream` (`ImplementsPacketStream`) that therefore `on_session_read` tells the
script the next packet or nothing, however the network cuts the stream. The invariant `StreamInv` is
`StreamKept` with `MemoryInv`; that a header can be read back from the stream (`HeaderStream`) and that
a full buffer is the first packet (`ContentStream`) follows by cutting two equal sequences at the same
place (`SameCut`). What `FlattenSeq` of the community modules puts together is known from
`FlattenAppend` and `FlattenHead` in `SequenceLemmas`, which are proved by induction over a set of
numbers (`InductiveSet`, from `MinIsLeast`).

`ResultCursor_proofs`, for any cursors and results: `ResultsHaveConnection`
(`ConnectionOutlivesResults`), `WireHasOwner` (`WireOwned`) and `CursorTypeCorrect`, from `CursorInv`:
a cursor has a reference to the connection exactly as long as it has a result, one that was collected
has none, and the connection's memory goes only after the script has forgotten it.
`ImplementsTheResultSet` (`ImplementsResultSet`) adds that the rows of each query come in order and
once, whatever becomes of the connection and of the other cursors.

`Process_proofs` has two parts. The first is about `Environment`, for any threads, settings and
values: `StackIsPrivate` (`StackPrivate`), `StringsStayAnchored` (`UsedStringsAnchored`) and
`EnvTypeCorrect`, from `EnvInv`: only the holder of the mutex is inside the Lua state, what is on the
stack is its own, and a string setting that a caller still reads is still the setting, whatever other
threads set meanwhile. The second is about `Shutdown`, for any nodes: `UsedOnlyWhenThere`
(`UsedWhenThere`), `TermWaitsForRouter` (`OnlyRouterLeft`) and `ListedNodesLive`: in every process,
orderly or not, a node in the list has a thread that will clean it up itself, so that
`qsf_node_exit` has nothing to clean up that is not somebody's. The invariant `ShutdownInv` says who
stands behind the list, the mutex and the sockets (`Owners`), and what is set up at each stage of an
orderly process (`Stages`).

`ScriptLibraries_proofs`, for any values of the constants that satisfy the assumptions of the
modules: each library's invariant is kept by its own steps, and `OneLibrarySteps` says that no other
library touches its variables.

* *Streams* (`StreamsStayWhole`, `FlushesReturnAll`; the properties `StreamWhole` and the half of
  `FlushReturns` that is about what a call returns). `StreamWhole` is not inductive, since between
  two turns of the loop neither what is in libz nor what is in the buffer has been shown.
  `FilterInv` follows every item from the input of a call over libz and the buffer to the script
  (`FilterFlow`), says what libz may hold at which stage (`FilterHolds`), when a stream has
  ended (`FilterEnds`), and what a call leaves behind (`FilterLeaves`).
* *Checksums* (`SumsAreRight`: `SumsOfAllFed`). `SumInv` adds that the length a closure keeps is that
  of what it was fed, whatever the script's function does while a closure waits for it.
* *Base64* (`TextsStayOneToOne`: `TextsOneToOne`), for every size of a unit and all data and texts.
  `Word` says what `b64_pton` holds when the characters it has read, spaces aside, are of the
  alphabet: the bytes these make, and the begun rest. Three bytes make four characters and
  four characters three bytes, each way round (`FourOfBytes`, `BytesOfFour`). `Live` adds the pads
  behind a word and `Progress` what is over, by induction over the characters read
  (`ProgressNext`): what is accepted is the text that `b64_ntop` makes of the bytes (`LiveEnd`,
  `NtopOfWord`), and as long as not all is read there is room for one more (`RoomFor`). The other way,
  the text of `b64_ntop` is read as the word of its bytes, and its slop is zero (`PtonOfNtop`).
* *Encryption* (`DecryptionFits`: `Decrypts`), for every modulus and overhead, every size of the buffer
  and every message. `CryptoInv` says that what was returned is the `Encryption` of what was given,
  block by block, and that the vector of an AES object is the initial one. That this is read back is
  arithmetic: block `b` of the encryption is the `b`-th part of the message (`EncryptionCells`,
  `BlocksOfPart`), parts that follow each other join (`PartsJoin`), and what begins or ends within a
  block is refused (`ReadWhole`).
* *Options* (`OptionsStayReadable`: `OptionsKept`). `OptionsInv` says that what a setter was given last
  is what its option holds (`AskedStored`). A getter reads it because the tables of setters and getters
  agree on name and type (`Agreed`), which is shown row by row.
* *Sockets* (`FramesStayInOrder`: `FramesInOrder`). `SocketInv` is little more than the property:
  the work is to show that what is under way (`UnderWay`: the rest of the message that recv has
  begun, the messages that wait, the one that send has begun) loses only empty frames.
* *Timers* (`TimersRunTheirOwn`: `RunsItsOwn`). `TimerInv` says that a timer that can fire has a
  reference that stands for its function, and that a one-shot timer is stopped but not closed only
  during its own callback.
* *Files* (`NodesShareFiles`: `SharedStateKept`). `LocksInv`, `DirsInv` and `PermsInv`; the last says
  how far each thread in `perm2string` has come in the buffer, unless another one has disturbed it.
* *Release* (`LibrariesRelease`: `ReleasedOnce`), from three of these invariants.
* *Types* (`LibrariesTypeCorrect`), with what each setter of a ZeroMQ socket converts its argument
  to (`SetterRows`, `Converted`).

Only model-checked is liveness, as TLAPS does not reason about `ENABLED` and fairness: `NodesLeave`
(in `NoDeadlock`), `NobodyStuck`, the liveness of `server`, `PacketsArrive`, `ConnectionFreed`,
`OneShotFreed`, and that a call of a stream returns (in `FlushReturns`). All invariants and action
properties of the runs are theorems.

## What is not modelled

* Calls that only hand their arguments to a library or to the system: bind, connect, monitor, Z85 and
  key pairs of `lua_zmq.c`; key generation, hashes and HMAC of `lua_crypto.c`; `luv_os.h`;
  `lua_process.c`; most of `lua_fs.c`; `ping`, options and escapes of `lua_mysql.c`.
* Logging, formatting, search paths, arguments of nodes; `lua_init.c` fills a table.
* The Lua libraries under `lib/`: mostly third-party; `qsf.lua` requires a module `proto` that the
  repository does not contain.
* `net/uthash.h`: a vendored hash table with a list in the order of insertion, which is how
  `NetServer` models the table of sessions.
* What happens after undefined behaviour, such as a second deletion from the session table.
* That libraries are used together: nothing they do meets, except through the node that uses them.

## Plan

Registry, router, server, codec, cursor, environment, process and the libraries have their theorems,
each of the five abstract specifications is shown to be implemented, and every invariant and action
property of the runs is proved. What is left is the liveness that TLC checks, once the prover reasons
about fairness. The variants are known from the runs: for `NodesLeave` the stages a node still has to
pass, where `ControlInv` says that the mutex it waits for has a holder inside one of the two sections.
