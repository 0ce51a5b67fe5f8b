------------------------------ MODULE DaemonLife ------------------------------
(***************************************************************************)
(* The life of a daemon of mq_system as the base class Daemon lays it down *)
(* (src/source/mq_lib/mq_lib.cpp), in the build whose daemon manager is    *)
(* OpenRC (DAEMON_MANAGER == 1): a process makes the pid file, installs    *)
(* the signal handlers, reads the configuration, connects to the broker,   *)
(* works, and is destroyed by the handler of SIGTERM.                      *)
(*                                                                         *)
(* The processes are those of one daemon, so they share the pid file.  A   *)
(* module of a daemon EXTENDS this one, and says what the derived class    *)
(* does while stage is "working" and "destroying".  Logs are left out,     *)
(* except that the handler finds their mutex locked.                       *)
(***************************************************************************)
EXTENDS Integers

CONSTANTS
    Procs,        \* processes
    NoProc,       \* there is no pid file
    ConnectTries,     \* connection_attempts: 10
    MaxStarts     \* bound: processes started

ASSUME DaemonAssumption ==
    /\ NoProc \notin Procs
    /\ ConnectTries \in Nat \ {0}
    /\ MaxStarts \in Nat

VARIABLES
    stage,        \* where each process is in its life
    pidFile,      \* the process that made the pid file, or NoProc
    tries,        \* connection attempts that failed
    starts        \* bound: processes started so far

daemonVars == <<stage, pidFile, tries, starts>>

Stages == {"off", "forked", "named", "handled",    \* the constructor
           "working", "destroying",                \* the derived class
           "stuck", "unlinking", "leaving"}        \* the destructor

DaemonInit ==
    /\ stage = [p \in Procs |-> "off"]
    /\ pidFile = NoProc
    /\ tries = [p \in Procs |-> 0]
    /\ starts = 0

Enter(p, s) == stage' = [stage EXCEPT ![p] = s]

-----------------------------------------------------------------------------
(* The constructor.  If it throws, main returns: the destructor does not   *)
(* run, and a pid file made before stays.                                  *)

\* daemon(0, 0).
Fork(p) ==
    /\ stage[p] = "off" /\ starts < MaxStarts
    /\ Enter(p, "forked")
    /\ starts' = starts + 1
    /\ tries' = [tries EXCEPT ![p] = 0]
    /\ UNCHANGED pidFile

\* fopen with the mode "wx".
MayMake == pidFile = NoProc

\* The mode "x": the file is made only if there is none.  Writing it may fail.
CreatePidFile(p) ==
    /\ stage[p] = "forked"
    /\ IF MayMake
       THEN pidFile' = p /\ \E s \in {"named", "off"} : Enter(p, s)
       ELSE Enter(p, "off") /\ UNCHANGED pidFile
    /\ UNCHANGED <<tries, starts>>

InstallHandlers(p) ==
    /\ stage[p] = "named"
    /\ Enter(p, "handled")
    /\ UNCHANGED <<pidFile, tries, starts>>

\* The system configuration cannot be read.
ConfigurationFails(p) ==
    /\ stage[p] = "handled" /\ tries[p] = 0
    /\ Enter(p, "off")
    /\ UNCHANGED <<pidFile, tries, starts>>

Connect(p) ==
    /\ stage[p] = "handled"
    /\ Enter(p, "working")
    /\ UNCHANGED <<pidFile, tries, starts>>

\* The constructor gives up after the last attempt.
GivesUp(n) == n = ConnectTries

ConnectFails(p) ==
    /\ stage[p] = "handled"
    /\ tries' = [tries EXCEPT ![p] = @ + 1]
    /\ IF GivesUp(tries'[p]) THEN Enter(p, "off") ELSE UNCHANGED stage
    /\ UNCHANGED <<pidFile, starts>>

-----------------------------------------------------------------------------
(* The end.                                                                *)

\* SIGTERM, which the main thread takes.  Before the handler is installed it
\* kills; before the object is complete the handler runs only ~Daemon, and
\* afterwards the destructor of the derived class first.
Terminate(p) ==
    /\ CASE stage[p] \in {"forked", "named"} -> Enter(p, "off")
         [] stage[p] = "handled" -> Enter(p, "unlinking")
         [] stage[p] = "working" -> Enter(p, "destroying")
         [] OTHER -> FALSE
    /\ UNCHANGED <<pidFile, tries, starts>>

\* The main thread was writing to the log: the handler waits for a mutex that
\* its own thread holds.
TerminateInLog(p) ==
    /\ stage[p] \in {"handled", "working"}
    /\ Enter(p, "stuck")
    /\ UNCHANGED <<pidFile, tries, starts>>

\* The destructor of the derived class has returned.
DerivedDestroyed(p) ==
    /\ stage[p] = "destroying"
    /\ Enter(p, "unlinking")
    /\ UNCHANGED <<pidFile, tries, starts>>

\* unlink goes by the name: whoever made the file.
Unlink(p) ==
    /\ stage[p] = "unlinking"
    /\ pidFile' = NoProc
    /\ Enter(p, "leaving")
    /\ UNCHANGED <<tries, starts>>

\* The connection is closed, its thread is stopped, and the process exits.
Leave(p) ==
    /\ stage[p] = "leaving"
    /\ Enter(p, "off")
    /\ UNCHANGED <<pidFile, tries, starts>>

\* The process is killed, or std::terminate ends it.
Kill(p) ==
    /\ stage[p] # "off"
    /\ Enter(p, "off")
    /\ UNCHANGED <<pidFile, tries, starts>>

\* The machine restarts, with an empty /var/run.
Reboot ==
    /\ stage' = [p \in Procs |-> "off"]
    /\ pidFile' = NoProc
    /\ UNCHANGED <<tries, starts>>

Constructor(p) ==
    Fork(p) \/ CreatePidFile(p) \/ InstallHandlers(p) \/ ConfigurationFails(p)
        \/ Connect(p) \/ ConnectFails(p)

Ending(p) == Unlink(p) \/ Leave(p)

-----------------------------------------------------------------------------
(* Properties.                                                             *)

DaemonTypeOK ==
    /\ stage \in [Procs -> Stages]
    /\ pidFile \in Procs \cup {NoProc}
    /\ tries \in [Procs -> 0..ConnectTries]
    /\ starts \in 0..MaxStarts

\* From the creation of the pid file to its removal the file is the process's.
AtWork(p) == stage[p] \in {"named", "handled", "working", "destroying", "stuck", "unlinking"}

\* Two processes of a daemon are never at work at the same time: the second
\* does not get past the pid file before the first has removed it, and it never
\* removes the file of another.
OneAtWork ==
    \A p, q \in Procs : AtWork(p) /\ AtWork(q) => p = q
=============================================================================
