---------------------------- MODULE Environment ------------------------------
(***************************************************************************)
(* The configuration, src/src/qsf_env.c: a Lua state in which main() has   *)
(* run the config file, read by every thread through qsf_getenv.  A mutex  *)
(* guards the state; the string that qsf_getenv returns is used after the  *)
(* mutex has been given back.                                              *)
(*                                                                         *)
(* A setting is a string, which the global variable keeps alive, or a      *)
(* number, of which lua_tostring makes a new string that nothing refers to *)
(* once it is popped: any later allocation in the state may collect it.    *)
(***************************************************************************)
EXTENDS Naturals, FiniteSets

CONSTANTS Threads,    \* the threads of the process
          MainThread, \* the thread of main(), which ends the process
          Keys,       \* the names of settings
          Strings,    \* settings that are strings
          Numbers,    \* settings that are numbers
          Nil,        \* a setting that is absent
          Nobody      \* no thread, no key

ASSUME EnvironmentAssumption ==
    /\ MainThread \in Threads
    /\ Strings \cap Numbers = {}
    /\ Nil \notin Strings \cup Numbers
    /\ Nobody \notin Threads \cup Keys

VARIABLES
    globals,    \* the settings
    closed,     \* qsf_env_exit has run
    mutex,      \* the thread that holds global_env.mutex, or Nobody
    top,        \* how many values are on the stack of global_env.L
    pc,         \* where each thread is
    op,         \* what it is doing: "get" or "set"
    key,        \* the setting it is about
    value,      \* the value it has read, to be used or to be set
    stale       \* the threads whose value is a string that has been collected

envVars == <<globals, closed, mutex, top, pc, op, key, value, stale>>

Values == Strings \cup Numbers

\* qsf_env_init: the config file may define anything.
EnvInit ==
    /\ globals \in [Keys -> Values \cup {Nil}]
    /\ closed = FALSE
    /\ mutex = Nobody
    /\ top = 0
    /\ pc = [t \in Threads |-> "idle"]
    /\ op = [t \in Threads |-> "get"]
    /\ key = [t \in Threads |-> Nobody]
    /\ value = [t \in Threads |-> Nil]
    /\ stale = {}

\* A step in a state or with a mutex that is no longer there has no meaning: what
\* follows Exit is not modelled.
At(t, stage) == pc[t] = stage /\ ~closed
Goto(t, stage) == pc' = [pc EXCEPT ![t] = stage]

\* The entry of qsf_getenv and qsf_setenv: both read global_env.L, without the
\* mutex, and assert that it is there.
Call(t) == /\ At(t, "idle")
           /\ \E k \in Keys, o \in {"get", "set"}, v \in Strings :
                 /\ op' = [op EXCEPT ![t] = o]
                 /\ key' = [key EXCEPT ![t] = k]
                 /\ value' = [value EXCEPT ![t] = IF o = "set" THEN v ELSE Nil]
           /\ Goto(t, "entered")
           /\ UNCHANGED <<globals, closed, mutex, top, stale>>

\* Mutant: the mutex is taken whoever holds it.
LockFree(t) == mutex' = t

Acquire(t) == mutex = Nobody /\ mutex' = t

Lock(t) == /\ At(t, "entered")
           /\ Acquire(t)
           /\ Goto(t, "locked")
           /\ UNCHANGED <<globals, closed, top, op, key, value, stale>>

\* lua_getglobal
Push(t) == /\ At(t, "locked")
           /\ top' = top + 1
           /\ Goto(t, "pushed")
           /\ UNCHANGED <<globals, closed, mutex, op, key, value, stale>>

\* An allocation may collect the strings that nothing in the state refers to.
MayCollect(t) ==
    \/ UNCHANGED stale
    \/ stale' = stale \cup {u \in Threads \ {t} : pc[u] \in {"popped", "using"}
                                                   /\ op[u] = "get" /\ value[u] \in Numbers}

\* qsf_getenv: lua_tostring and lua_pop.
Get(t) == /\ At(t, "pushed") /\ op[t] = "get"
          /\ value' = [value EXCEPT ![t] = globals[key[t]]]
          /\ IF globals[key[t]] \in Numbers THEN MayCollect(t) ELSE UNCHANGED stale
          /\ top' = top - 1
          /\ Goto(t, "popped")
          /\ UNCHANGED <<globals, closed, mutex, op, key>>

\* Mutant: a setting is set again.
SetAlways(t) == /\ At(t, "pushed") /\ op[t] = "set"
                /\ globals' = [globals EXCEPT ![key[t]] = value[t]]
                /\ MayCollect(t)
                /\ top' = top - 1
                /\ Goto(t, "popped")
                /\ UNCHANGED <<closed, mutex, op, key, value>>

\* qsf_setenv: a setting that is absent is set, another is left alone.
Set(t) == /\ At(t, "pushed") /\ op[t] = "set"
          /\ IF globals[key[t]] = Nil
             THEN globals' = [globals EXCEPT ![key[t]] = value[t]] /\ MayCollect(t)
             ELSE UNCHANGED <<globals, stale>>
          /\ top' = top - 1
          /\ Goto(t, "popped")
          /\ UNCHANGED <<closed, mutex, op, key, value>>

Unlock(t) == /\ At(t, "popped")
             /\ mutex' = Nobody
             /\ Goto(t, IF op[t] = "get" /\ value[t] # Nil THEN "using" ELSE "idle")
             /\ UNCHANGED <<globals, closed, top, op, key, value, stale>>

\* The caller has done with the string: atoll, snprintf, strncpy.
Use(t) == /\ At(t, "using")
          /\ Goto(t, "idle")
          /\ stale' = stale \ {t}
          /\ UNCHANGED <<globals, closed, mutex, top, op, key, value>>

\* qsf_env_exit, first thing in qsf_exit when the loop of qsf_start has ended.
Exit == /\ pc[MainThread] = "idle"
        /\ ~closed
        /\ closed' = TRUE
        /\ UNCHANGED <<globals, mutex, top, pc, op, key, value, stale>>

EnvNext ==
    \/ \E t \in Threads : \/ Call(t) \/ Lock(t) \/ Push(t) \/ Get(t) \/ Set(t)
                          \/ Unlock(t) \/ Use(t)
    \/ Exit

EnvSpec == EnvInit /\ [][EnvNext]_envVars

-----------------------------------------------------------------------------
\* Every variable keeps its range; a setting is nil, a string or a number.
EnvTypeOK ==
    /\ globals \in [Keys -> Values \cup {Nil}]
    /\ closed \in BOOLEAN
    /\ mutex \in Threads \cup {Nobody}
    /\ top \in Nat
    /\ pc \in [Threads -> {"idle", "entered", "locked", "pushed", "popped", "using"}]
    /\ op \in [Threads -> {"get", "set"}]
    /\ key \in [Threads -> Keys \cup {Nobody}]
    /\ value \in [Threads -> Values \cup {Nil}]
    /\ stale \in SUBSET Threads

\* The stack of the shared Lua state belongs to one call at a time, which leaves
\* it as it found it.
StackPrivate ==
    /\ Cardinality({t \in Threads : pc[t] \in {"locked", "pushed", "popped"}}) <= 1
    /\ top = Cardinality({t \in Threads : pc[t] = "pushed"})

\* A string setting that a thread uses outside the mutex is still the setting:
\* the state keeps it alive, whatever other threads set meanwhile.
UsedStringsAnchored ==
    \A t \in Threads : (pc[t] \in {"popped", "using"} /\ op[t] = "get" /\ value[t] \in Strings)
                           => globals[key[t]] = value[t]

\* "global envrionment object, thread-safe access", says qsf_env.c:21: what
\* qsf_getenv returned can be used until the caller has done with it.
UsedStringsAlive == \A t \in Threads : pc[t] = "using" => t \notin stale
=============================================================================
