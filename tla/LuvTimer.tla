------------------------------ MODULE LuvTimer ------------------------------
(***************************************************************************)
(* Timers of a script: luv.createTimer and its callbacks in                *)
(* src/src/lualib/luv/luv_timer.h.  A timer runs a Lua function, which it  *)
(* finds by a reference in the Lua registry; a reference that is given     *)
(* back is given out again.  A script cannot stop a timer.                 *)
(***************************************************************************)
EXTENDS Naturals

CONSTANTS Timers, Refs,
          NoRef         \* LUA_NOREF

ASSUME TimersAssumption == NoRef \notin Timers \cup Refs

VARIABLES
    timer,      \* each timer: its state, whether it repeats, its reference
    registry,   \* what each reference stands for: the function of a timer, or NoRef
    firing,     \* the timer in whose callback the loop is, or NoRef
    ran         \* the timer that fired last and the function it ran

timerVars == <<timer, registry, firing, ran>>

TimerInit == /\ timer = [t \in Timers |-> [state |-> "none", repeats |-> FALSE, ref |-> NoRef]]
             /\ registry = [r \in Refs |-> NoRef]
             /\ firing = NoRef
             /\ ran = <<NoRef, NoRef>>

\* createTimer(timeout, repeat, function): timeout_cb may be running.
CreateTimer(t, repeats) ==
    /\ timer[t].state = "none"
    /\ \E r \in Refs : /\ registry[r] = NoRef
                       /\ registry' = [registry EXCEPT ![r] = t]
                       /\ timer' = [timer EXCEPT ![t] = [state |-> "active", repeats |-> repeats,
                                                         ref |-> r]]
    /\ UNCHANGED <<firing, ran>>

\* The arguments are looked at when the handle is there already: the error leaves it,
\* and nobody will close it.
CreateFails(t) == /\ timer[t].state = "none"
                  /\ timer' = [timer EXCEPT ![t].state = "lost"]
                  /\ UNCHANGED <<registry, firing, ran>>

\* The loop finds a timer due: it stops it, starts it again if it repeats, and calls
\* timeout_cb, which calls the function.  The function may fail.
Fire(t) == /\ firing = NoRef
           /\ timer[t].state = "active"
           /\ firing' = t
           /\ ran' = <<t, registry[timer[t].ref]>>
           /\ timer' = IF timer[t].repeats THEN timer ELSE [timer EXCEPT ![t].state = "stopped"]
           /\ UNCHANGED registry

\* Mutant: no timer is taken to have ended.
DoneNever(t) == FALSE

\* uv_is_active
Done(t) == timer[t].state = "stopped"

\* Mutant: the reference is given back whether the timer has ended or not.
GivesBackAlways(t) == TRUE

\* luaL_unref
GivesBack(t) == Done(t)

\* The rest of timeout_cb.
Fired(t) ==
    /\ firing = t
    /\ firing' = NoRef
    /\ registry' = IF GivesBack(t) THEN [registry EXCEPT ![timer[t].ref] = NoRef] ELSE registry
    /\ timer' = IF Done(t) THEN [timer EXCEPT ![t].ref = NoRef, ![t].state = "closing"] ELSE timer
    /\ UNCHANGED ran

\* on_timer_close
TimerClosed(t) == /\ firing = NoRef
                  /\ timer[t].state = "closing"
                  /\ timer' = [timer EXCEPT ![t].state = "freed"]
                  /\ UNCHANGED <<registry, firing, ran>>

TimerNext == \E t \in Timers : \/ \E repeats \in BOOLEAN : CreateTimer(t, repeats)
                               \/ CreateFails(t) \/ Fire(t) \/ Fired(t) \/ TimerClosed(t)

TimerSpec == TimerInit /\ [][TimerNext]_timerVars

-----------------------------------------------------------------------------
\* Type correctness.
TimerTypeOK == /\ \A t \in Timers : timer[t].ref \in Refs \cup {NoRef}
               /\ registry \in [Refs -> Timers \cup {NoRef}]
               /\ firing \in Timers \cup {NoRef}

\* A timer runs the function it was given, although references go from timers that
\* have ended to new ones, also while a function runs.
RunsItsOwn == ran[1] = ran[2]

\* What a timer that does not repeat holds is given back: its memory and its reference.
OneShotFreed == \A t \in Timers : (timer[t].state = "active" /\ ~timer[t].repeats)
                                    ~> (timer[t].state = "freed" /\ t \notin {registry[r] : r \in Refs})
=============================================================================
