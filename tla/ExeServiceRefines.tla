------------------------- MODULE ExeServiceRefines -------------------------
(***************************************************************************)
(* exe_service implements ScriptEngine.  What a wait call listens to is    *)
(* read off the multimaps themselves: the live elements of the script.     *)
(***************************************************************************)
EXTENDS ExeService

\* A script is waiting from the construction of its sync_obj until thread_start
\* gets the result of the wait.
ScriptState(s) ==
    CASE pc[s] = "none" -> "none"
      [] pc[s] = "lua"  -> "running"
      [] pc[s] = "done" -> "ended"
      [] OTHER          -> "waiting"

\* The arguments with an element that still points to the script's sync_obj.
LiveArgs(s) == {e.arg : e \in {x \in valMap \cup timeMap : x.ptr = s}}

\* To the scripts a reload begins when the flag goes up and ends when the last
\* of them is started.
ReloadPhase ==
    CASE rpc \in {"idle", "unsubscribe", "flag"}     -> "running"
      [] rpc \in {"wakeVal", "wakeTime", "join"}     -> "stopping"
      [] rpc \in {"clearVal", "clearTime", "load"}   -> "stopped"
      [] rpc = "spawn"                               -> "starting"

Engine == INSTANCE ScriptEngine WITH
    st       <- [s \in Scripts |-> ScriptState(s)],
    call     <- wait,
    pending  <- [s \in Scripts |-> LiveArgs(s)],
    got      <- hit,
    phase    <- ReloadPhase,
    starting <- store,
    now      <- now

\* Every step of exe_service is a step of the script engine or changes nothing
\* that a script can tell: a wait call sees each event it listens to once, when
\* everyone else does, however the elements of the multimaps are shared, fired
\* and erased; it returns with what it asked for, or not at all once a reload
\* has begun; and no script of the old set lives when the new set is chosen.
EngineSpec == Engine!Spec

\* The flag is up only while scripts are being terminated.
FlagPhase ==
    terminate => rpc \in {"wakeVal", "wakeTime", "join",
                          "clearVal", "clearTime", "load"}

\* Scripts are listed only while they are being started.
StorePhase == store # {} => rpc = "spawn"

\* What the refinement rests on.
RInv == IInv /\ FlagPhase /\ StorePhase

=============================================================================
