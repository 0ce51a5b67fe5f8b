------------------------------- MODULE ExeLife -------------------------------
(***************************************************************************)
(* How exe_service starts, reloads its scripts and ends: Exe_Service       *)
(* (src/source/exe_service/mq_exe_daemon.cpp) on top of DaemonLife.  The   *)
(* main thread, the task of a reload, the thread of mosquitto, the time    *)
(* thread and the threads of the scripts meet in the destructor.           *)
(*                                                                         *)
(* A script here is up or has ended; ExeService has what it does.  When    *)
(* stop_all raises the flag any script may miss its wake-up, and then ends *)
(* or sleeps on: in ExeService these are the scripts asleep at the join.   *)
(***************************************************************************)
EXTENDS DaemonLife

CONSTANT LifeScripts

VARIABLE exe      \* the memory of each process

lifeVars == <<daemonVars, exe>>

MainStates == {"setup", "load", "start", "subscribe", "asleep"}
ReloadStates == {"none", "stop", "join", "load", "start", "subscribe", "done"}
DtorStates == {"none", "stop", "join", "time", "free", "members"}

Memory == [
    main       : MainStates,                               \* the main thread
    timeThread : {"none", "up", "ended"},                  \* _time_thread
    terminate  : BOOLEAN,                                  \* _terminate_lua_threads
    script     : [LifeScripts -> {"none", "up", "ended"}],     \* what each thread does
    threads    : [LifeScripts -> {"out", "joinable", "joined"}],  \* _script_threads
    subscribed : BOOLEAN,                                  \* to the topic of a reload
    reload     : ReloadStates,                             \* the task of a reload
    dtor       : DtorStates,                               \* ~Exe_Service
    todo       : [{"reload", "dtor"} -> SUBSET LifeScripts],   \* still to be joined by each
    missed     : SUBSET LifeScripts,    \* up, and missed the last wake-up
    overlapped : BOOLEAN]    \* history: a reload ran while the destructor did

All(x) == [s \in LifeScripts |-> x]

Fresh == [main |-> "setup", timeThread |-> "none", terminate |-> FALSE,
          script |-> All("none"), threads |-> All("out"), subscribed |-> FALSE,
          reload |-> "none", dtor |-> "none", todo |-> [w \in {"reload", "dtor"} |-> {}],
          missed |-> {}, overlapped |-> FALSE]

LifeInit == DaemonInit /\ exe = [p \in Procs |-> Fresh]

Becomes(p, x) == exe' = [exe EXCEPT ![p] = x]

Reloading(p) == exe[p].reload \notin {"none", "done"}

\* While the object is an Exe_Service: its threads run, and it gets the messages.
Alive(p) == stage[p] \in {"working", "destroying"}

-----------------------------------------------------------------------------
(* The main thread, until it sleeps forever.                               *)

\* The signal handler, or the unwinding of the stack, calls the destructor.
Destroy(p) ==
    /\ stage[p] = "working"
    /\ Terminate(p)
    /\ Becomes(p, [exe[p] EXCEPT !.dtor = "stop", !.overlapped = Reloading(p)])

\* An error in the configuration or the database is an exception, see Destroy;
\* else the time thread starts.
Setup(p) ==
    /\ stage[p] = "working" /\ exe[p].main = "setup"
    /\ Becomes(p, [exe[p] EXCEPT !.timeThread = "up", !.main = "load"])
    /\ UNCHANGED daemonVars

\* start_all, of the main thread and of the task: the scripts are read and the
\* flag is reset, they are started, and the topic of a reload is subscribed to.
Load(m) == [m EXCEPT !.terminate = FALSE]
Start(m) == [m EXCEPT !.script = All("up"), !.threads = All("joinable"), !.missed = {}]
SubscribeReload(m) == [m EXCEPT !.subscribed = TRUE]

MainStarts(p) ==
    /\ stage[p] = "working"
    /\ LET m == exe[p]
       IN \/ m.main = "load" /\ Becomes(p, [Load(m) EXCEPT !.main = "start"])
          \/ m.main = "start" /\ Becomes(p, [Start(m) EXCEPT !.main = "subscribe"])
          \/ m.main = "subscribe" /\ Becomes(p, [SubscribeReload(m) EXCEPT !.main = "asleep"])
    /\ UNCHANGED daemonVars

-----------------------------------------------------------------------------
(* stop_all, of the task and of the destructor.                            *)

\* Unsubscribe("#") ends the subscription of no other topic.  The flag is raised,
\* and of the scripts that are up those in M do not notice.  A mutant does not
\* raise the flag.
Up(m) == {s \in LifeScripts : m.script[s] = "up"}
Stop_Untold(m, who, M) ==
    [m EXCEPT !.missed = M, !.todo[who] = {s \in LifeScripts : m.threads[s] # "out"}]
Stop(m, who, M) ==
    [m EXCEPT !.terminate = TRUE, !.missed = M,
              !.todo[who] = {s \in LifeScripts : m.threads[s] # "out"}]

\* join returns when the script has ended, and throws if it was joined before.  The
\* mutants do not wait, and wait for the end of the script without a join.
CanJoin_Detach(m, who, s) == s \in m.todo[who] /\ m.threads[s] = "joinable"
CanJoin(m, who, s) ==
    s \in m.todo[who] /\ m.threads[s] = "joinable" /\ m.script[s] = "ended"
Joined_Waited(m, who, s) == [m EXCEPT !.todo[who] = @ \ {s}]
Joined(m, who, s) == [m EXCEPT !.threads[s] = "joined", !.todo[who] = @ \ {s}]
JoinThrows(m, who) == \E s \in m.todo[who] : m.threads[s] # "joinable"

\* Neither clear nor the destructor of the list may meet a thread not joined.
NoneJoinable(m) == \A s \in LifeScripts : m.threads[s] # "joinable"
CanClear(m, who) == m.todo[who] = {} /\ NoneJoinable(m)
Clear(m) == [m EXCEPT !.threads = All("out")]

-----------------------------------------------------------------------------
(* The reload task.                                                        *)

\* parse_app_message, on the thread of mosquitto.
ReloadArrives(p) ==
    /\ Alive(p) /\ exe[p].subscribed
    /\ ~Reloading(p)
    /\ Becomes(p, [exe[p] EXCEPT !.reload = "stop", !.overlapped = stage[p] = "destroying"])
    /\ UNCHANGED daemonVars

ReloadGoesOn(p, m, r) == Becomes(p, [m EXCEPT !.reload = r])

\* An exception of join ends the task: the future keeps it.  When the destructor
\* has finalized the statements no script is found.
ReloadStep(p) ==
    /\ Alive(p)
    /\ LET m == exe[p]
           Next(x, r) == ReloadGoesOn(p, x, r)
       IN \/ /\ m.reload = "stop"
             /\ \E M \in SUBSET Up(m) : Next(Stop(m, "reload", M), "join")
          \/ /\ m.reload = "join"
             /\ \/ \E s \in LifeScripts :
                      CanJoin(m, "reload", s) /\ Next(Joined(m, "reload", s), "join")
                \/ CanClear(m, "reload") /\ Next(Clear(m), "load")
                \/ JoinThrows(m, "reload") /\ Next(m, "done")
          \/ m.reload = "load" /\ Next(Load(m), IF m.dtor = "members" THEN "subscribe" ELSE "start")
          \/ m.reload = "start" /\ Next(Start(m), "subscribe")
          \/ m.reload = "subscribe" /\ Next(SubscribeReload(m), "done")
    /\ UNCHANGED daemonVars

-----------------------------------------------------------------------------
(* ~Exe_Service.                                                           *)

DtorGoesOn(p, m, d) == Becomes(p, [m EXCEPT !.dtor = d])

\* stop_all, the end of the time thread, then the tokener and the statements
\* are freed and the database is closed.
DtorGoes(p) ==
    /\ stage[p] = "destroying"
    /\ LET m == exe[p]
           Next(x, d) == DtorGoesOn(p, x, d)
       IN \/ /\ m.dtor = "stop"
             /\ \E M \in SUBSET Up(m) : Next(Stop(m, "dtor", M), "join")
          \/ /\ m.dtor = "join"
             /\ \/ \E s \in LifeScripts : CanJoin(m, "dtor", s) /\ Next(Joined(m, "dtor", s), "join")
                \/ CanClear(m, "dtor") /\ Next(Clear(m), "time")
          \/ m.dtor = "time" /\ m.timeThread = "ended" /\ Next(m, "free")
          \/ m.dtor = "free" /\ Next(m, "members")
    /\ UNCHANGED daemonVars

\* The members go, the future first, which waits for the task.
MembersGo(p) ==
    /\ exe[p].dtor = "members"
    /\ ~Reloading(p)
    /\ NoneJoinable(exe[p])
    /\ DerivedDestroyed(p)
    /\ UNCHANGED exe

\* What the destructor, which is noexcept, may not survive: a join that throws,
\* the time thread never started included; destroying a joinable thread; meeting
\* the task in the list of the threads or in the statements.
Fatal(p) ==
    LET m == exe[p]
    IN /\ stage[p] = "destroying"
       /\ \/ m.dtor = "join" /\ (JoinThrows(m, "dtor") \/ m.reload \in {"join", "start"})
          \/ m.dtor = "join" /\ m.todo["dtor"] = {} /\ ~NoneJoinable(m)
          \/ m.dtor = "time" /\ m.timeThread = "none"
          \/ m.dtor = "members" /\ m.reload = "load"
          \/ m.dtor = "members" /\ ~Reloading(p) /\ ~NoneJoinable(m)

DtorStep(p) == DtorGoes(p) \/ MembersGo(p) \/ (Fatal(p) /\ Kill(p) /\ Becomes(p, Fresh))

-----------------------------------------------------------------------------
(* The other threads, and the steps of the base class.                     *)

ScriptEnds(p, s) ==
    /\ Alive(p) /\ exe[p].script[s] = "up"
    /\ Becomes(p, [exe[p] EXCEPT !.script[s] = "ended", !.missed = @ \ {s}])
    /\ UNCHANGED daemonVars

\* _terminate_time_thread is what the destructor sets first.
TimeThreadEnds(p) ==
    /\ Alive(p) /\ exe[p].timeThread = "up"
    /\ exe[p].dtor # "none"
    /\ Becomes(p, [exe[p] EXCEPT !.timeThread = "ended"])
    /\ UNCHANGED daemonVars

Unwind(p) == Ending(p) /\ Becomes(p, IF stage[p] = "leaving" THEN Fresh ELSE exe[p])

BaseStep(p) ==
    \/ Constructor(p) /\ UNCHANGED exe
    \/ stage[p] # "working" /\ Terminate(p) /\ UNCHANGED exe
    \/ exe[p].main # "asleep" /\ TerminateInLog(p) /\ UNCHANGED exe
    \/ Unwind(p)
    \/ Kill(p) /\ Becomes(p, Fresh)

Rebooted == Reboot /\ exe' = [p \in Procs |-> Fresh]

LifeNext ==
    \/ \E p \in Procs :
          \/ BaseStep(p)
          \/ Setup(p) \/ MainStarts(p) \/ Destroy(p)
          \/ ReloadArrives(p) \/ ReloadStep(p)
          \/ DtorStep(p)
          \/ TimeThreadEnds(p)
          \/ \E s \in LifeScripts : ScriptEnds(p, s)
    \/ Rebooted

\* A script that has noticed the flag returns from its wait call, or does not
\* begin to wait in the next one, and ends.
Told(p, s) == exe[p].terminate /\ s \notin exe[p].missed

\* The destructors go on; the time thread looks at its flag twice a second; a
\* script that was told ends.  Of one that missed its wake-up nothing is assumed.
LifeFairness ==
    \A p \in Procs :
        /\ WF_lifeVars(DtorStep(p))
        /\ WF_lifeVars(Unwind(p))
        /\ WF_lifeVars(TimeThreadEnds(p))
        /\ \A s \in LifeScripts : WF_lifeVars(Told(p, s) /\ ScriptEnds(p, s))

LifeSpec == LifeInit /\ [][LifeNext]_lifeVars
LifeFairSpec == LifeSpec /\ LifeFairness

-----------------------------------------------------------------------------
(* Properties.                                                             *)

LifeTypeOK == DaemonTypeOK /\ exe \in [Procs -> Memory]

\* Scripts run only in the process whose pid file it is, to the last: a new
\* process starts none while one of the old may be running.
ScriptsOfOne ==
    \A p \in Procs : (\E s \in LifeScripts : exe[p].script[s] = "up") => pidFile = p

\* The destructor dies only if the time thread had not been started, or if a
\* reload ran at the same time; else the list of the threads has each script
\* once until it is joined, and none when the members go.
DiesOnlyIf ==
    \A p \in Procs : Fatal(p) => exe[p].timeThread = "none" \/ exe[p].overlapped

\* The destructor joins a script that has missed its wake-up and is still up.
WaitsForMissed(p) == exe[p].todo["dtor"] \cap exe[p].missed # {}

\* A daemon told to end while its main thread slept ends, unless its destructor
\* comes to wait for a script that missed its wake-up: once the last of these has
\* ended after all, it ends too.  No reload runs at the same time; with one it may
\* wait for scripts that were never told.
Terminating(p) ==
    stage[p] = "destroying" /\ exe[p].main = "asleep" /\ ~WaitsForMissed(p) /\ ~exe[p].overlapped
TermEnds ==
    \A p \in Procs :
        Terminating(p) ~> (stage[p] = "off" \/ WaitsForMissed(p) \/ exe[p].overlapped)

-----------------------------------------------------------------------------
(* The inductive invariant behind the safety properties that are proved.   *)

NoneJoined(m) == \A s \in LifeScripts : m.threads[s] # "joined"

\* While stop_all joins, the threads to be joined are those not joined yet.
Joining(m, who) == \A s \in LifeScripts : m.threads[s] = "joinable" <=> s \in m.todo[who]

\* At work there is one thread at a time that starts and joins scripts: the main
\* thread until it sleeps, and then the task.
OrderlyWork(m) ==
    /\ m.dtor = "none"
    /\ m.subscribed \/ m.reload # "none" => m.main = "asleep"
    /\ m.reload = "join" => Joining(m, "reload")
    /\ m.reload # "join" => NoneJoined(m)

\* In the end it is the destructor, if no task runs.
OrderlyEnd(m) ==
    /\ m.reload \in {"none", "done"}
    /\ m.dtor = "stop" => NoneJoined(m)
    /\ m.dtor = "join" => Joining(m, "dtor")
    /\ m.dtor \in {"time", "free", "members"} => m.threads = All("out")

\* What each process keeps at each stage of its life.
Settled(st, m) ==
    /\ st \in {"off", "forked", "named", "handled"} => m = Fresh
    /\ \A s \in LifeScripts : m.script[s] = "up" => m.threads[s] = "joinable"
    /\ st \in {"unlinking", "leaving"} => NoneJoinable(m)
    /\ st = "working" => OrderlyWork(m)
    /\ st = "destroying" /\ ~m.overlapped => OrderlyEnd(m)

LifeInv ==
    /\ LifeTypeOK
    /\ \A p \in Procs : AtWork(p) => pidFile = p
    /\ \A p \in Procs : stage[p] \in {"forked", "named", "handled"} => tries[p] < ConnectTries
    /\ \A p \in Procs : Settled(stage[p], exe[p])
=============================================================================
