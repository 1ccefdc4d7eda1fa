-------------------------- MODULE ScriptLibraries ---------------------------
(***************************************************************************)
(* The C libraries that a node's script requires: zlib, base64, crypto,    *)
(* zmq, luv and lfs.  open_preload_libs makes them known to every Lua      *)
(* state (src/src/lualib/lua_init.c); none of them calls another or keeps  *)
(* state that another one sees.  So a behaviour is that of the one library *)
(* that the script uses, which is chosen in the initial state; where a     *)
(* library that is not used could start in two ways, it starts in one.     *)
(***************************************************************************)
EXTENDS ZlibFilter, ZlibChecksum, Base64, CryptoBlocks, ZmqOptions, ZmqSocket, LuvTimer, FileSystem

CONSTANT Preloaded      \* the parts of the libraries that scripts require

VARIABLE required       \* the one that is looked at

fileVars == <<lockVars, dirVars, permVars>>

allVars == <<required, filterVars, sumVars, coded, cryptoVars, optionVars, socketVars, timerVars,
             fileVars>>

LibrariesInit == /\ required \in Preloaded
                 /\ FilterInit /\ SumInit /\ CodingInit /\ CryptoInit
                 /\ OptionsInit /\ SocketInit /\ TimerInit /\ FilesInit
                 /\ required # "zlib" => kind = "deflate"
                 /\ required # "locks" => cwd = CHOOSE d \in Dirs : TRUE

\* Every other library rests.
Only(l) == /\ required = l
           /\ UNCHANGED required
           /\ IF l = "zlib" THEN TRUE ELSE UNCHANGED filterVars
           /\ IF l = "checksum" THEN TRUE ELSE UNCHANGED sumVars
           /\ IF l = "base64" THEN TRUE ELSE UNCHANGED coded
           /\ IF l = "crypto" THEN TRUE ELSE UNCHANGED cryptoVars
           /\ IF l = "options" THEN TRUE ELSE UNCHANGED optionVars
           /\ IF l = "sockets" THEN TRUE ELSE UNCHANGED socketVars
           /\ IF l = "timers" THEN TRUE ELSE UNCHANGED timerVars
           /\ IF l \in {"locks", "dirs", "permissions"} THEN TRUE ELSE UNCHANGED fileVars

LibrariesNext ==
    \/ Only("zlib") /\ FilterNext
    \/ Only("checksum") /\ SumNext
    \/ Only("base64") /\ CodingNext
    \/ Only("crypto") /\ CryptoNext
    \/ Only("options") /\ OptionsNext
    \/ Only("sockets") /\ SocketNext
    \/ Only("timers") /\ TimerNext
    \/ Only("locks") /\ LocksNext /\ UNCHANGED <<dirVars, permVars>>
    \/ Only("dirs") /\ DirsNext /\ UNCHANGED <<lockVars, permVars>>
    \/ Only("permissions") /\ PermsNext /\ UNCHANGED <<lockVars, dirVars>>

\* A call of C code goes on.  The loop of a node that runs it turns: each turn fires
\* every timer that is due and then closes what is to be closed, so that none of this
\* is put off for ever because other timers fire.
LibrariesFairness ==
    /\ WF_allVars(Only("zlib") /\ (Turn \/ Leave))
    /\ \A t \in Timers : /\ SF_allVars(Only("timers") /\ Fire(t))
                         /\ WF_allVars(Only("timers") /\ Fired(t))
                         /\ SF_allVars(Only("timers") /\ TimerClosed(t))

LibrariesSpec == LibrariesInit /\ [][LibrariesNext]_allVars /\ LibrariesFairness

-----------------------------------------------------------------------------
\* Type correctness of all libraries.
TypeOK == /\ FilterTypeOK /\ SumTypeOK /\ OptionsTypeOK
          /\ SocketTypeOK /\ TimerTypeOK /\ FilesTypeOK

\* What a library got from libz, libzmq or the operating system for a script it gives
\* back once, whether the script ends it, closes it or forgets it.
ReleasedOnce == EndedOnce /\ [](ClosedOnce /\ DirClosedOnce)
=============================================================================
