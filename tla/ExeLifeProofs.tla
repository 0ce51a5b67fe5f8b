---------------------------- MODULE ExeLifeProofs ----------------------------
(***************************************************************************)
(* Proofs about ExeLife for any number of processes, scripts, connection   *)
(* attempts and starts.                                                    *)
(***************************************************************************)
EXTENDS ExeLife, TLAPS

-----------------------------------------------------------------------------
(* The memory of one process.                                              *)

LEMMA FreshMemory == Fresh \in Memory
BY DEF Fresh, Memory, All, MainStates, ReloadStates, DtorStates

\* What a memory is, field by field.
LEMMA MemoryFields ==
    ASSUME NEW m \in Memory
    PROVE  /\ m.main \in MainStates /\ m.timeThread \in {"none", "up", "ended"}
           /\ m.terminate \in BOOLEAN /\ m.subscribed \in BOOLEAN /\ m.overlapped \in BOOLEAN
           /\ m.script \in [LifeScripts -> {"none", "up", "ended"}]
           /\ m.threads \in [LifeScripts -> {"out", "joinable", "joined"}]
           /\ m.reload \in ReloadStates /\ m.dtor \in DtorStates
           /\ m.todo \in [{"reload", "dtor"} -> SUBSET LifeScripts]
           /\ m.missed \in SUBSET LifeScripts
BY DEF Memory

\* Nothing that another process does changes what is said of this one.
LEMMA OthersSettled ==
    ASSUME LifeInv, NEW p \in Procs, NEW st \in Stages, NEW m \in Memory,
           stage' = [stage EXCEPT ![p] = st], exe' = [exe EXCEPT ![p] = m],
           Settled(st, m)
    PROVE  \A q \in Procs : Settled(stage[q], exe[q])'
<1> SUFFICES ASSUME NEW q \in Procs
             PROVE  Settled(stage'[q], exe'[q])
  BY DEF Settled, NoneJoinable, OrderlyWork, OrderlyEnd, Joining, NoneJoined
<1>1. CASE q = p
  BY <1>1 DEF LifeInv, LifeTypeOK, DaemonTypeOK
<1>2. CASE q # p
  BY <1>2 DEF LifeInv, LifeTypeOK, DaemonTypeOK
<1> QED
  BY <1>1, <1>2

\* A step of the memory of one process.
LEMMA MemoryStep ==
    ASSUME LifeInv, NEW p \in Procs, NEW m \in Memory,
           Becomes(p, m), UNCHANGED daemonVars, Settled(stage[p], m)
    PROVE  LifeInv'
<1>1. stage \in [Procs -> Stages] /\ stage' = [stage EXCEPT ![p] = stage[p]]
  BY DEF LifeInv, LifeTypeOK, DaemonTypeOK, daemonVars
<1>2. \A q \in Procs : Settled(stage[q], exe[q])'
  BY <1>1, OthersSettled DEF Becomes
<1>3. LifeTypeOK'
  BY DEF LifeInv, LifeTypeOK, DaemonTypeOK, daemonVars, Becomes
<1> QED
  BY <1>2, <1>3 DEF LifeInv, AtWork, daemonVars

\* A step of its life in which the pid file stays, and in which it does not begin
\* to work without it.
LEMMA StageStep ==
    ASSUME LifeInv, NEW p \in Procs, NEW st \in Stages, NEW m \in Memory,
           Enter(p, st), Becomes(p, m), UNCHANGED pidFile,
           AtWork(p) \/ st \in {"off", "forked", "leaving"},
           st \in {"forked", "named", "handled"} => tries[p] < ConnectTries,
           UNCHANGED <<tries, starts>>,
           Settled(st, m)
    PROVE  LifeInv'
<1>1. stage \in [Procs -> Stages] /\ stage' = [stage EXCEPT ![p] = st]
  BY DEF LifeInv, LifeTypeOK, DaemonTypeOK, Enter
<1>2. \A q \in Procs : Settled(stage[q], exe[q])'
  BY <1>1, OthersSettled DEF Becomes
<1>3. LifeTypeOK'
  BY DEF LifeInv, LifeTypeOK, DaemonTypeOK, Becomes, Enter
<1>4. \A q \in Procs : (AtWork(q) => pidFile = q)'
  BY <1>1 DEF LifeInv, AtWork
<1>5. \A q \in Procs : stage'[q] \in {"forked", "named", "handled"} => tries'[q] < ConnectTries
  BY <1>1 DEF LifeInv
<1> QED
  BY <1>2, <1>3, <1>4, <1>5 DEF LifeInv

\* Off, a process has nothing in its memory.
LEMMA FreshSettled ==
    ASSUME NEW st \in Stages \ {"working", "destroying"}
    PROVE  Settled(st, Fresh)
BY DEF Settled, Fresh, All, NoneJoinable

-----------------------------------------------------------------------------
(* stop_all and start_all.                                                 *)

LEMMA StopFacts ==
    ASSUME NEW m \in Memory, NEW who \in {"reload", "dtor"},
           NEW M \in SUBSET LifeScripts
    PROVE  /\ Stop(m, who, M) \in Memory
           /\ Stop(m, who, M).script = m.script /\ Stop(m, who, M).threads = m.threads
           /\ Stop(m, who, M).main = m.main /\ Stop(m, who, M).subscribed = m.subscribed
           /\ Stop(m, who, M).dtor = m.dtor /\ Stop(m, who, M).reload = m.reload
           /\ Stop(m, who, M).overlapped = m.overlapped
           /\ NoneJoined(m) => Joining(Stop(m, who, M), who)
<1> DEFINE T == {s \in LifeScripts : m.threads[s] # "out"}
           W == [m.todo EXCEPT ![who] = T]
<1>0. W \in [{"reload", "dtor"} -> SUBSET LifeScripts] /\ W[who] = T
  BY MemoryFields
<1>1. /\ Stop(m, who, M) \in Memory
      /\ Stop(m, who, M).todo[who] = T
  <2>1. Stop(m, who, M) = [m EXCEPT !.terminate = TRUE, !.missed = M, !.todo = W]
    BY DEF Stop, Memory
  <2> HIDE DEF W
  <2> QED
    BY <1>0, <2>1 DEF Memory
<1>2. m.threads \in [LifeScripts -> {"out", "joinable", "joined"}]
  BY DEF Memory
<1>3. /\ Stop(m, who, M).script = m.script /\ Stop(m, who, M).threads = m.threads
      /\ Stop(m, who, M).main = m.main /\ Stop(m, who, M).subscribed = m.subscribed
      /\ Stop(m, who, M).dtor = m.dtor /\ Stop(m, who, M).reload = m.reload
      /\ Stop(m, who, M).overlapped = m.overlapped
  BY DEF Stop, Memory
<1> QED
  BY <1>1, <1>2, <1>3 DEF NoneJoined, Joining

LEMMA JoinedFacts ==
    ASSUME NEW m \in Memory, NEW who \in {"reload", "dtor"}, NEW s \in LifeScripts
    PROVE  /\ Joined(m, who, s) \in Memory
           /\ Joined(m, who, s).threads = [m.threads EXCEPT ![s] = "joined"]
           /\ Joined(m, who, s).script = m.script
           /\ Joined(m, who, s).main = m.main /\ Joined(m, who, s).subscribed = m.subscribed
           /\ Joined(m, who, s).dtor = m.dtor /\ Joined(m, who, s).reload = m.reload
           /\ Joined(m, who, s).overlapped = m.overlapped
           /\ Joining(m, who) => Joining(Joined(m, who, s), who)
<1>1. /\ Joined(m, who, s) \in Memory
      /\ Joined(m, who, s).todo[who] = m.todo[who] \ {s}
      /\ Joined(m, who, s).threads = [m.threads EXCEPT ![s] = "joined"]
  BY DEF Joined, Memory
<1>2. m.threads \in [LifeScripts -> {"out", "joinable", "joined"}]
  BY DEF Memory
<1> QED
  BY <1>1, <1>2 DEF Joined, Memory, Joining

LEMMA ClearFacts ==
    ASSUME NEW m \in Memory
    PROVE  /\ Clear(m) \in Memory
           /\ Clear(m).threads = All("out")
           /\ Clear(m).script = m.script
           /\ Clear(m).main = m.main /\ Clear(m).subscribed = m.subscribed
           /\ Clear(m).dtor = m.dtor /\ Clear(m).reload = m.reload
           /\ Clear(m).overlapped = m.overlapped
BY DEF Clear, Memory, All

LEMMA StartFacts ==
    ASSUME NEW m \in Memory
    PROVE  /\ Load(m) \in Memory /\ Start(m) \in Memory /\ SubscribeReload(m) \in Memory
           /\ Start(m).threads = All("joinable")
BY DEF Load, Start, SubscribeReload, Memory, All

-----------------------------------------------------------------------------
(* The life of the daemon.                                                 *)

LEMMA SameMemory ==
    ASSUME LifeInv, NEW p \in Procs, UNCHANGED exe
    PROVE  /\ exe[p] \in Memory /\ Settled(stage[p], exe[p])
           /\ Becomes(p, exe[p])
BY DEF LifeInv, LifeTypeOK, Becomes

LEMMA ForkKeeps ==
    ASSUME LifeInv, NEW p \in Procs, Fork(p), UNCHANGED exe
    PROVE  LifeInv'
<1>1. /\ stage \in [Procs -> Stages] /\ stage' = [stage EXCEPT ![p] = "forked"]
      /\ exe' = [exe EXCEPT ![p] = exe[p]] /\ exe[p] = Fresh
      /\ exe \in [Procs -> Memory] /\ "forked" \in Stages
  BY DEF LifeInv, LifeTypeOK, DaemonTypeOK, Fork, Enter, Settled, Stages
<1>2. \A q \in Procs : Settled(stage[q], exe[q])'
  BY <1>1, OthersSettled, FreshMemory, FreshSettled
<1>3. 0 < ConnectTries /\ ConnectTries \in Nat /\ MaxStarts \in Nat
  BY DaemonAssumption
<1>4. LifeTypeOK'
  BY <1>1, <1>3 DEF LifeInv, LifeTypeOK, DaemonTypeOK, Fork
<1>5. \A q \in Procs : (AtWork(q) => pidFile = q)'
  BY <1>1 DEF LifeInv, AtWork, Fork
<1>6. \A q \in Procs : stage'[q] \in {"forked", "named", "handled"} => tries'[q] < ConnectTries
  BY <1>1, <1>3 DEF LifeInv, LifeTypeOK, DaemonTypeOK, Fork
<1> QED
  BY <1>2, <1>4, <1>5, <1>6 DEF LifeInv

\* Only here does a process get the pid file: nobody else is at work.
LEMMA CreatePidFileKeeps ==
    ASSUME LifeInv, NEW p \in Procs, CreatePidFile(p), UNCHANGED exe
    PROVE  LifeInv'
<1>1. PICK st \in {"named", "off"} :
          /\ Enter(p, st)
          /\ st = "named" => MayMake /\ pidFile' = p
          /\ pidFile' = pidFile \/ (MayMake /\ pidFile' = p)
  BY DEF CreatePidFile
<1>2. /\ stage \in [Procs -> Stages] /\ stage' = [stage EXCEPT ![p] = st]
      /\ stage[p] = "forked" /\ tries' = tries /\ starts' = starts
      /\ exe' = [exe EXCEPT ![p] = exe[p]] /\ exe[p] = Fresh
      /\ exe \in [Procs -> Memory] /\ st \in Stages
  BY <1>1 DEF LifeInv, LifeTypeOK, DaemonTypeOK, CreatePidFile, Enter, Settled, Stages
<1>3. \A q \in Procs : Settled(stage[q], exe[q])'
  BY <1>2, OthersSettled, FreshMemory, FreshSettled
<1>4. LifeTypeOK'
  BY <1>1, <1>2 DEF LifeInv, LifeTypeOK, DaemonTypeOK
<1>5. MayMake => \A q \in Procs : ~AtWork(q)
  BY DaemonAssumption DEF MayMake, LifeInv
<1>6. \A q \in Procs : (AtWork(q) => pidFile = q)'
  BY <1>1, <1>2, <1>5 DEF LifeInv, AtWork
<1>7. \A q \in Procs : stage'[q] \in {"forked", "named", "handled"} => tries'[q] < ConnectTries
  BY <1>2 DEF LifeInv
<1> QED
  BY <1>3, <1>4, <1>6, <1>7 DEF LifeInv

LEMMA ConnectFailsKeeps ==
    ASSUME LifeInv, NEW p \in Procs, ConnectFails(p), UNCHANGED exe
    PROVE  LifeInv'
<1>1. /\ tries[p] \in Nat /\ tries[p] < ConnectTries /\ ConnectTries \in Nat
      /\ tries' = [tries EXCEPT ![p] = tries[p] + 1]
      /\ pidFile' = pidFile /\ starts' = starts
  BY DaemonAssumption DEF LifeInv, LifeTypeOK, DaemonTypeOK, ConnectFails
<1>2. PICK st \in {"handled", "off"} :
          /\ stage' = [stage EXCEPT ![p] = st]
          /\ st = "handled" => tries'[p] # ConnectTries
  BY DEF ConnectFails, GivesUp, Enter, LifeInv, LifeTypeOK, DaemonTypeOK
<1>3. /\ stage \in [Procs -> Stages] /\ stage[p] = "handled" /\ st \in Stages
      /\ exe' = [exe EXCEPT ![p] = exe[p]] /\ exe[p] = Fresh /\ exe \in [Procs -> Memory]
  BY DEF LifeInv, LifeTypeOK, DaemonTypeOK, ConnectFails, Settled, Stages
<1>4. \A q \in Procs : Settled(stage[q], exe[q])'
  BY <1>2, <1>3, OthersSettled, FreshMemory, FreshSettled
<1>5. tries' \in [Procs -> 0..ConnectTries]
  BY <1>1 DEF LifeInv, LifeTypeOK, DaemonTypeOK
<1>6. LifeTypeOK'
  BY <1>1, <1>2, <1>3, <1>5 DEF LifeInv, LifeTypeOK, DaemonTypeOK
<1>7. \A q \in Procs : (AtWork(q) => pidFile = q)'
  BY <1>1, <1>2, <1>3 DEF LifeInv, AtWork
<1>8. st = "handled" => tries'[p] < ConnectTries
  BY <1>1, <1>2 DEF LifeInv, LifeTypeOK, DaemonTypeOK
<1>9. \A q \in Procs : stage'[q] \in {"forked", "named", "handled"} => tries'[q] < ConnectTries
  BY <1>1, <1>2, <1>3, <1>8 DEF LifeInv, LifeTypeOK, DaemonTypeOK
<1> QED
  BY <1>4, <1>6, <1>7, <1>9 DEF LifeInv

\* A memory that was never used is in order for work and at its end.
LEMMA FreshWorks == Settled("working", Fresh)
BY DEF Settled, Fresh, All, OrderlyWork, NoneJoined

LEMMA ConstructorKeeps ==
    ASSUME LifeInv, NEW p \in Procs, Constructor(p), UNCHANGED exe
    PROVE  LifeInv'
<1>1. /\ exe[p] \in Memory /\ Becomes(p, exe[p])
      /\ Settled(stage[p], exe[p])
  BY SameMemory
<1>2. CASE InstallHandlers(p)
  <2>1. exe[p] = Fresh /\ AtWork(p) /\ tries[p] < ConnectTries /\ "handled" \in Stages
    BY <1>1, <1>2 DEF InstallHandlers, Settled, AtWork, LifeInv, Stages
  <2> QED
    BY <1>1, <1>2, <2>1, StageStep, FreshSettled DEF InstallHandlers, Stages
<1>3. CASE ConfigurationFails(p)
  <2>1. exe[p] = Fresh /\ "off" \in Stages
    BY <1>1, <1>3 DEF ConfigurationFails, Settled, Stages
  <2> QED
    BY <1>1, <1>3, <2>1, StageStep, FreshSettled DEF ConfigurationFails
<1>4. CASE Connect(p)
  <2>1. exe[p] = Fresh /\ AtWork(p) /\ "working" \in Stages
    BY <1>1, <1>4 DEF Connect, Settled, AtWork, Stages
  <2> QED
    BY <1>1, <1>4, <2>1, StageStep, FreshWorks DEF Connect
<1> QED
  BY <1>2, <1>3, <1>4, ForkKeeps, CreatePidFileKeeps, ConnectFailsKeeps DEF Constructor

\* The end by a signal that is not handled by the derived class, and the end of
\* the process.
LEMMA KillKeeps ==
    ASSUME LifeInv, NEW p \in Procs, Kill(p), Becomes(p, Fresh)
    PROVE  LifeInv'
<1>1. "off" \in Stages
  BY DEF Stages
<1> QED
  BY <1>1, StageStep, FreshMemory, FreshSettled DEF Kill

LEMMA TerminateKeeps ==
    ASSUME LifeInv, NEW p \in Procs, stage[p] # "working", Terminate(p), UNCHANGED exe
    PROVE  LifeInv'
<1>1. /\ exe[p] \in Memory /\ Becomes(p, exe[p])
      /\ Settled(stage[p], exe[p])
  BY SameMemory
<1>2. /\ stage[p] \in {"forked", "named", "handled"}
      /\ pidFile' = pidFile /\ tries' = tries /\ starts' = starts
      /\ \/ Enter(p, "off")
         \/ stage[p] = "handled" /\ Enter(p, "unlinking")
  BY DEF Terminate
<1>3. exe[p] = Fresh /\ {"off", "unlinking"} \subseteq Stages
  BY <1>1, <1>2 DEF Settled, Stages
<1>4. CASE Enter(p, "off")
  BY <1>1, <1>2, <1>3, <1>4, StageStep, FreshSettled
<1>5. CASE stage[p] = "handled" /\ Enter(p, "unlinking")
  <2>1. AtWork(p)
    BY <1>5 DEF AtWork
  <2> QED
    BY <1>1, <1>2, <1>3, <1>5, <2>1, StageStep, FreshSettled
<1> QED
  BY <1>2, <1>4, <1>5

LEMMA TerminateInLogKeeps ==
    ASSUME LifeInv, NEW p \in Procs, TerminateInLog(p), UNCHANGED exe
    PROVE  LifeInv'
<1>1. /\ exe[p] \in Memory /\ Becomes(p, exe[p])
      /\ Settled(stage[p], exe[p])
  BY SameMemory
<1>2. AtWork(p) /\ "stuck" \in Stages /\ Settled("stuck", exe[p])
  BY <1>1 DEF TerminateInLog, AtWork, Stages, Settled
<1> QED
  BY <1>1, <1>2, StageStep DEF TerminateInLog

LEMMA UnwindKeeps ==
    ASSUME LifeInv, NEW p \in Procs, Unwind(p)
    PROVE  LifeInv'
<1>1. CASE Leave(p)
  <2>1. Becomes(p, Fresh) /\ "off" \in Stages
    BY <1>1 DEF Unwind, Leave, Stages
  <2> QED
    BY <1>1, <2>1, StageStep, FreshMemory, FreshSettled DEF Leave
<1>2. CASE Unlink(p)
  <2>1. /\ stage[p] = "unlinking" /\ stage \in [Procs -> Stages] /\ "leaving" \in Stages
        /\ stage' = [stage EXCEPT ![p] = "leaving"]
        /\ exe' = [exe EXCEPT ![p] = exe[p]] /\ exe \in [Procs -> Memory]
        /\ Settled(stage[p], exe[p])
    BY <1>2 DEF Unlink, Unwind, Enter, Becomes, LifeInv, LifeTypeOK, DaemonTypeOK, Stages
  <2>2. Settled("leaving", exe[p])
    BY <2>1 DEF Settled
  <2>3. \A q \in Procs : Settled(stage[q], exe[q])'
    BY <2>1, <2>2, OthersSettled
  <2>4. LifeTypeOK'
    BY <1>2, <2>1 DEF Unlink, LifeInv, LifeTypeOK, DaemonTypeOK
  <2>5. \A q \in Procs : q # p => ~AtWork(q)
    BY <2>1 DEF LifeInv, AtWork
  <2>6. \A q \in Procs : (AtWork(q) => pidFile = q)'
    BY <2>1, <2>5 DEF AtWork
  <2>7. \A q \in Procs : stage'[q] \in {"forked", "named", "handled"} => tries'[q] < ConnectTries
    BY <1>2, <2>1 DEF Unlink, LifeInv
  <2> QED
    BY <2>3, <2>4, <2>6, <2>7 DEF LifeInv
<1> QED
  BY <1>1, <1>2 DEF Unwind, Ending

LEMMA RebootKeeps ==
    ASSUME LifeInv, Rebooted
    PROVE  LifeInv'
<1>1. \A q \in Procs : stage'[q] = "off" /\ exe'[q] = Fresh
  BY DEF Rebooted, Reboot
<1>2. \A q \in Procs : Settled(stage[q], exe[q])'
  BY <1>1, FreshSettled DEF Stages, Settled, NoneJoinable, OrderlyWork, OrderlyEnd
<1>3. LifeTypeOK'
  BY FreshMemory DEF Rebooted, Reboot, LifeInv, LifeTypeOK, DaemonTypeOK, Stages
<1> QED
  BY <1>1, <1>2, <1>3 DEF LifeInv, AtWork

-----------------------------------------------------------------------------
(* The threads of a process at work or at its end.                         *)

\* While a process lives, what OrderlyWork and OrderlyEnd say is what Settled does.
LEMMA AliveSettled ==
    ASSUME NEW m, NEW st \in {"working", "destroying"},
           \A s \in LifeScripts : m.script[s] = "up" => m.threads[s] = "joinable",
           st = "working" => OrderlyWork(m),
           st = "destroying" /\ ~m.overlapped => OrderlyEnd(m)
    PROVE  Settled(st, m)
BY DEF Settled

LEMMA SetupKeeps ==
    ASSUME LifeInv, NEW p \in Procs, Setup(p)
    PROVE  LifeInv'
<1> DEFINE m == exe[p]
           x == [m EXCEPT !.timeThread = "up", !.main = "load"]
<1>1. /\ m \in Memory /\ Settled("working", m) /\ stage[p] = "working"
      /\ m.main = "setup" /\ Becomes(p, x) /\ UNCHANGED daemonVars
  BY DEF Setup, LifeInv, LifeTypeOK
<1>2. x \in Memory
  BY <1>1 DEF Memory, MainStates
<1>3. Settled("working", x)
  BY <1>1 DEF Settled, OrderlyWork, NoneJoined, Joining, NoneJoinable, Memory
<1> QED
  BY <1>1, <1>2, <1>3, MemoryStep

LEMMA MainStartsKeeps ==
    ASSUME LifeInv, NEW p \in Procs, MainStarts(p)
    PROVE  LifeInv'
<1> DEFINE m == exe[p]
<1>1. /\ m \in Memory /\ Settled("working", m) /\ stage[p] = "working"
      /\ m.main # "asleep" /\ UNCHANGED daemonVars
  BY DEF MainStarts, LifeInv, LifeTypeOK
<1>2. PICK x :
         /\ Becomes(p, x)
         /\ \/ x = [Load(m) EXCEPT !.main = "start"]
            \/ x = [Start(m) EXCEPT !.main = "subscribe"]
            \/ x = [SubscribeReload(m) EXCEPT !.main = "asleep"]
  BY DEF MainStarts
<1>3. m.reload = "none" /\ ~m.subscribed /\ m.dtor = "none" /\ NoneJoined(m)
  BY <1>1, MemoryFields DEF Settled, OrderlyWork, ReloadStates
<1>4. x \in Memory
  BY <1>1, <1>2, StartFacts DEF Memory, MainStates
<1>5. Settled("working", x)
  <2>1. CASE x = [Load(m) EXCEPT !.main = "start"]
    <3>1. /\ x.reload = m.reload /\ x.dtor = m.dtor /\ x.subscribed = m.subscribed
          /\ x.threads = m.threads /\ x.script = m.script
      BY <1>1, <2>1 DEF Load, Memory
    <3> QED
      BY <1>1, <1>3, <3>1, AliveSettled DEF OrderlyWork, NoneJoined, Settled
  <2>2. CASE x = [Start(m) EXCEPT !.main = "subscribe"]
    <3>1. /\ x.reload = m.reload /\ x.dtor = m.dtor /\ x.subscribed = m.subscribed
          /\ x.threads = All("joinable")
      BY <1>1, <2>2 DEF Start, Memory
    <3> QED
      BY <1>3, <3>1, AliveSettled DEF OrderlyWork, NoneJoined, All
  <2>3. CASE x = [SubscribeReload(m) EXCEPT !.main = "asleep"]
    <3>1. /\ x.reload = m.reload /\ x.dtor = m.dtor /\ x.main = "asleep"
          /\ x.threads = m.threads /\ x.script = m.script
      BY <1>1, <2>3 DEF SubscribeReload, Memory
    <3> QED
      BY <1>1, <1>3, <3>1, AliveSettled DEF OrderlyWork, NoneJoined, Settled
  <2> QED
    BY <1>2, <2>1, <2>2, <2>3
<1> QED
  BY <1>1, <1>2, <1>4, <1>5, MemoryStep

\* A task that runs when the destructor begins is what overlapped remembers.
LEMMA DestroyKeeps ==
    ASSUME LifeInv, NEW p \in Procs, Destroy(p)
    PROVE  LifeInv'
<1> DEFINE m == exe[p]
           x == [m EXCEPT !.dtor = "stop", !.overlapped = Reloading(p)]
<1>1. /\ m \in Memory /\ Settled("working", m)
      /\ AtWork(p) /\ "destroying" \in Stages
      /\ Enter(p, "destroying") /\ Becomes(p, x) /\ UNCHANGED <<pidFile, tries, starts>>
  BY DEF Destroy, Terminate, AtWork, LifeInv, LifeTypeOK, Stages
<1>2. x \in Memory /\ Reloading(p) \in BOOLEAN
  BY <1>1 DEF Memory, DtorStates, Reloading
<1>3. /\ x.dtor = "stop" /\ x.overlapped = Reloading(p)
      /\ x.reload = m.reload /\ x.threads = m.threads /\ x.script = m.script
  BY <1>1 DEF Memory
<1>4. ~x.overlapped => m.reload \in {"none", "done"}
  BY <1>3 DEF Reloading
<1>5. m.reload # "join" => NoneJoined(m)
  BY <1>1 DEF Settled, OrderlyWork
<1>6. ~x.overlapped => OrderlyEnd(x)
  BY <1>3, <1>4, <1>5 DEF OrderlyEnd, NoneJoined
<1>7. Settled("destroying", x)
  BY <1>1, <1>3, <1>6, AliveSettled DEF Settled
<1> QED
  BY <1>1, <1>2, <1>7, StageStep

LEMMA ReloadArrivesKeeps ==
    ASSUME LifeInv, NEW p \in Procs, ReloadArrives(p)
    PROVE  LifeInv'
<1> DEFINE m == exe[p]
           x == [m EXCEPT !.reload = "stop", !.overlapped = stage[p] = "destroying"]
<1>1. /\ m \in Memory /\ Settled(stage[p], m) /\ stage[p] \in {"working", "destroying"}
      /\ m.subscribed /\ m.reload \in {"none", "done"}
      /\ Becomes(p, x) /\ UNCHANGED daemonVars
  BY DEF ReloadArrives, Reloading, Alive, LifeInv, LifeTypeOK
<1>2. x \in Memory
  BY <1>1 DEF Memory, ReloadStates
<1>3. /\ x.reload = "stop" /\ x.overlapped = (stage[p] = "destroying")
      /\ x.main = m.main /\ x.dtor = m.dtor
      /\ x.threads = m.threads /\ x.script = m.script
  BY <1>1 DEF Memory
<1>4. stage[p] = "working" => OrderlyWork(x)
  BY <1>1, <1>3 DEF Settled, OrderlyWork, NoneJoined
<1>5. Settled(stage[p], x)
  BY <1>1, <1>3, <1>4, AliveSettled DEF Settled
<1> QED
  BY <1>1, <1>2, <1>5, MemoryStep

LEMMA ScriptEndsKeeps ==
    ASSUME LifeInv, NEW p \in Procs, NEW s \in LifeScripts, ScriptEnds(p, s)
    PROVE  LifeInv'
<1> DEFINE m == exe[p]
           x == [m EXCEPT !.script[s] = "ended", !.missed = m.missed \ {s}]
<1>1. /\ m \in Memory /\ Settled(stage[p], m) /\ stage[p] \in {"working", "destroying"}
      /\ Becomes(p, x) /\ UNCHANGED daemonVars
  BY DEF ScriptEnds, Alive, LifeInv, LifeTypeOK
<1>2. /\ x \in Memory
      /\ x.script = [m.script EXCEPT ![s] = "ended"] /\ x.threads = m.threads
      /\ x.main = m.main /\ x.dtor = m.dtor /\ x.reload = m.reload /\ x.todo = m.todo
      /\ x.subscribed = m.subscribed /\ x.overlapped = m.overlapped
  BY <1>1 DEF Memory
<1>3. \A t \in LifeScripts : x.script[t] = "up" => x.threads[t] = "joinable"
  BY <1>1, <1>2 DEF Settled, Memory
<1>4. Settled(stage[p], x)
  BY <1>1, <1>2, <1>3, AliveSettled
     DEF Settled, OrderlyWork, OrderlyEnd, Joining, NoneJoined
<1> QED
  BY <1>1, <1>2, <1>4, MemoryStep

LEMMA TimeThreadEndsKeeps ==
    ASSUME LifeInv, NEW p \in Procs, TimeThreadEnds(p)
    PROVE  LifeInv'
<1> DEFINE m == exe[p]
           x == [m EXCEPT !.timeThread = "ended"]
<1>1. /\ m \in Memory /\ Settled(stage[p], m) /\ stage[p] \in {"working", "destroying"}
      /\ Becomes(p, x) /\ UNCHANGED daemonVars
  BY DEF TimeThreadEnds, Alive, LifeInv, LifeTypeOK
<1>2. /\ x \in Memory
      /\ x.script = m.script /\ x.threads = m.threads
      /\ x.main = m.main /\ x.dtor = m.dtor /\ x.reload = m.reload /\ x.todo = m.todo
      /\ x.subscribed = m.subscribed /\ x.overlapped = m.overlapped
  BY <1>1 DEF Memory
<1>3. Settled(stage[p], x)
  BY <1>1, <1>2, AliveSettled DEF Settled, OrderlyWork, OrderlyEnd, Joining, NoneJoined
<1> QED
  BY <1>1, <1>2, <1>3, MemoryStep

\* The task is in order at work; at the end it runs only if overlapped says so.
LEMMA ReloadStepKeeps ==
    ASSUME LifeInv, NEW p \in Procs, ReloadStep(p)
    PROVE  LifeInv'
<1> DEFINE m == exe[p]
<1>1. /\ m \in Memory /\ Settled(stage[p], m) /\ stage[p] \in {"working", "destroying"}
      /\ UNCHANGED daemonVars /\ m.reload \notin {"none", "done"}
  BY DEF ReloadStep, Alive, LifeInv, LifeTypeOK
<1>2. /\ stage[p] = "working" => OrderlyWork(m)
      /\ stage[p] = "destroying" => m.overlapped
      /\ \A s \in LifeScripts : m.script[s] = "up" => m.threads[s] = "joinable"
  BY <1>1 DEF Settled, OrderlyEnd
<1>4. ASSUME NEW y \in Memory, NEW r \in ReloadStates, ReloadGoesOn(p, y, r),
             y.overlapped = m.overlapped,
             \A s \in LifeScripts : y.script[s] = "up" => y.threads[s] = "joinable",
             stage[p] = "working" =>
                /\ y.main = m.main /\ y.dtor = m.dtor
                /\ r = "join" => Joining(y, "reload")
                /\ r # "join" => NoneJoined(y)
      PROVE  LifeInv'
  <2> DEFINE x == [y EXCEPT !.reload = r]
  <2>1. /\ x \in Memory /\ Becomes(p, x)
        /\ x.reload = r /\ x.main = y.main /\ x.dtor = y.dtor
        /\ x.threads = y.threads /\ x.script = y.script
        /\ x.overlapped = y.overlapped /\ x.todo = y.todo
    BY <1>4 DEF Memory, ReloadGoesOn
  <2>2. stage[p] = "working" => y.main = "asleep" /\ y.dtor = "none"
    BY <1>1, <1>2, <1>4 DEF OrderlyWork
  <2>3. stage[p] = "working" => OrderlyWork(x)
    BY <1>4, <2>1, <2>2 DEF OrderlyWork, Joining, NoneJoined
  <2>4. Settled(stage[p], x)
    <3>1. stage[p] = "destroying" /\ ~x.overlapped => OrderlyEnd(x)
      BY <1>2, <1>4, <2>1
    <3>2. \A s \in LifeScripts : x.script[s] = "up" => x.threads[s] = "joinable"
      BY <1>4, <2>1
    <3> HIDE DEF x
    <3> QED
      BY <1>1, <2>3, <3>1, <3>2, AliveSettled
  <2> QED
    BY <1>1, <2>1, <2>4, MemoryStep
<1>5. ASSUME NEW M \in SUBSET Up(m), m.reload = "stop",
             ReloadGoesOn(p, Stop(m, "reload", M), "join")
      PROVE  LifeInv'
  <2>1. M \in SUBSET LifeScripts
    BY <1>5 DEF Up
  <2> QED
    BY <2>1, <1>1, <1>2, <1>4, <1>5, StopFacts DEF OrderlyWork, ReloadStates
<1>6. ASSUME NEW s \in LifeScripts, m.reload = "join", CanJoin(m, "reload", s),
             ReloadGoesOn(p, Joined(m, "reload", s), "join")
      PROVE  LifeInv'
  <2>1. /\ m.threads \in [LifeScripts -> {"out", "joinable", "joined"}]
        /\ m.todo["reload"] \subseteq LifeScripts /\ m.script[s] = "ended"
    BY <1>1, <1>2, <1>6, MemoryFields DEF CanJoin
  <2> DEFINE y == Joined(m, "reload", s)
  <2>2. /\ y \in Memory
        /\ y.threads = [m.threads EXCEPT ![s] = "joined"] /\ y.script = m.script
        /\ y.main = m.main /\ y.dtor = m.dtor /\ y.reload = m.reload
        /\ y.overlapped = m.overlapped
        /\ Joining(m, "reload") => Joining(y, "reload")
    BY <1>1, JoinedFacts
  <2> HIDE DEF y
  <2>3. \A t \in LifeScripts : y.script[t] = "up" => y.threads[t] = "joinable"
    BY <1>1, <1>2, <1>6, <2>1, <2>2
  <2> QED
    BY <1>1, <1>2, <1>4, <1>6, <2>2, <2>3 DEF OrderlyWork, ReloadStates, y
<1>7. CASE /\ m.reload = "join" /\ CanClear(m, "reload")
           /\ ReloadGoesOn(p, Clear(m), "load")
  <2>1. \A t \in LifeScripts : Clear(m).script[t] # "up"
    BY <1>1, <1>2, <1>7, ClearFacts DEF CanClear, NoneJoinable
  <2>2. NoneJoined(Clear(m))
    BY <1>1, ClearFacts DEF NoneJoined, All
  <2> QED
    BY <1>1, <1>4, <1>7, <2>1, <2>2, ClearFacts DEF ReloadStates
<1>8. CASE m.reload = "join" /\ JoinThrows(m, "reload") /\ ReloadGoesOn(p, m, "done")
  <2>1. stage[p] # "working"
    BY <1>1, <1>2, <1>8, MemoryFields DEF OrderlyWork, Joining, JoinThrows
  <2> QED
    BY <1>1, <1>2, <1>4, <1>8, <2>1 DEF ReloadStates
<1>9. ASSUME NEW r \in {"start", "subscribe"},
             m.reload = "load", ReloadGoesOn(p, Load(m), r)
      PROVE  LifeInv'
  <2>1. /\ Load(m) \in Memory /\ Load(m).overlapped = m.overlapped
        /\ Load(m).script = m.script /\ Load(m).threads = m.threads
        /\ Load(m).main = m.main /\ Load(m).dtor = m.dtor
    BY <1>1, StartFacts DEF Load, Memory
  <2> QED
    BY <1>2, <1>4, <1>9, <2>1 DEF OrderlyWork, NoneJoined, ReloadStates
<1>10. CASE m.reload = "start" /\ ReloadGoesOn(p, Start(m), "subscribe")
  <2>1. /\ Start(m) \in Memory /\ Start(m).overlapped = m.overlapped
        /\ Start(m).threads = All("joinable")
        /\ Start(m).main = m.main /\ Start(m).dtor = m.dtor
    BY <1>1, StartFacts DEF Start, Memory
  <2> QED
    BY <1>4, <1>10, <2>1 DEF All, NoneJoined, ReloadStates
<1>11. CASE m.reload = "subscribe" /\ ReloadGoesOn(p, SubscribeReload(m), "done")
  <2>1. /\ SubscribeReload(m) \in Memory /\ SubscribeReload(m).overlapped = m.overlapped
        /\ SubscribeReload(m).script = m.script /\ SubscribeReload(m).threads = m.threads
        /\ SubscribeReload(m).main = m.main /\ SubscribeReload(m).dtor = m.dtor
    BY <1>1, StartFacts DEF SubscribeReload, Memory
  <2> QED
    BY <1>2, <1>4, <1>11, <2>1 DEF OrderlyWork, NoneJoined, ReloadStates
<1> QED
  BY <1>5, <1>6, <1>7, <1>8, <1>9, <1>10, <1>11 DEF ReloadStep

LEMMA DtorGoesKeeps ==
    ASSUME LifeInv, NEW p \in Procs, DtorGoes(p)
    PROVE  LifeInv'
<1> DEFINE m == exe[p]
<1>1. /\ m \in Memory /\ Settled("destroying", m) /\ stage[p] = "destroying"
      /\ UNCHANGED daemonVars
      /\ \A s \in LifeScripts : m.script[s] = "up" => m.threads[s] = "joinable"
  BY DEF DtorGoes, LifeInv, LifeTypeOK, Settled
<1>2. ~m.overlapped => OrderlyEnd(m)
  BY <1>1 DEF Settled
<1>3. ASSUME NEW y \in Memory, NEW d \in DtorStates,
             DtorGoesOn(p, y, d),
             y.overlapped = m.overlapped, y.reload = m.reload,
             \A s \in LifeScripts : y.script[s] = "up" => y.threads[s] = "joinable",
             ~m.overlapped =>
                /\ d = "join" => Joining(y, "dtor")
                /\ d \in {"time", "free", "members"} => y.threads = All("out"),
             d # "stop"
      PROVE  LifeInv'
  <2> DEFINE x == [y EXCEPT !.dtor = d]
  <2>1. /\ x \in Memory /\ Becomes(p, x)
        /\ x.dtor = d /\ x.reload = y.reload /\ x.overlapped = y.overlapped
        /\ x.threads = y.threads /\ x.script = y.script /\ x.todo = y.todo
    BY <1>3 DEF Memory, DtorGoesOn
  <2>2. ~x.overlapped => OrderlyEnd(x)
    BY <1>2, <1>3, <2>1 DEF OrderlyEnd, Joining
  <2>3. Settled("destroying", x)
    BY <1>3, <2>1, <2>2, AliveSettled
  <2> QED
    BY <1>1, <1>3, <2>1, <2>3, MemoryStep
<1>4. ASSUME NEW M \in SUBSET Up(m), m.dtor = "stop",
             DtorGoesOn(p, Stop(m, "dtor", M), "join")
      PROVE  LifeInv'
  <2>1. M \in SUBSET LifeScripts
    BY <1>4 DEF Up
  <2> QED
    BY <2>1, <1>1, <1>2, <1>3, <1>4, StopFacts DEF OrderlyEnd, DtorStates
<1>5. ASSUME NEW s \in LifeScripts, m.dtor = "join", CanJoin(m, "dtor", s),
             DtorGoesOn(p, Joined(m, "dtor", s), "join")
      PROVE  LifeInv'
  <2>1. /\ m.threads \in [LifeScripts -> {"out", "joinable", "joined"}]
        /\ m.todo["dtor"] \subseteq LifeScripts /\ m.script[s] = "ended"
    BY <1>1, <1>5, MemoryFields DEF CanJoin
  <2> DEFINE y == Joined(m, "dtor", s)
  <2>2. /\ y \in Memory
        /\ y.threads = [m.threads EXCEPT ![s] = "joined"] /\ y.script = m.script
        /\ y.main = m.main /\ y.dtor = m.dtor /\ y.reload = m.reload
        /\ y.overlapped = m.overlapped
        /\ Joining(m, "dtor") => Joining(y, "dtor")
    BY <1>1, JoinedFacts
  <2> HIDE DEF y
  <2>3. \A t \in LifeScripts : y.script[t] = "up" => y.threads[t] = "joinable"
    BY <1>1, <1>5, <2>1, <2>2
  <2> QED
    BY <1>1, <1>2, <1>3, <1>5, <2>2, <2>3 DEF OrderlyEnd, DtorStates, y
<1>6. CASE m.dtor = "join" /\ CanClear(m, "dtor") /\ DtorGoesOn(p, Clear(m), "time")
  <2>1. \A t \in LifeScripts : Clear(m).script[t] # "up"
    BY <1>1, <1>6, ClearFacts DEF CanClear, NoneJoinable
  <2> QED
    BY <1>1, <1>3, <1>6, <2>1, ClearFacts DEF DtorStates
<1>7. CASE m.dtor = "time" /\ DtorGoesOn(p, m, "free")
  BY <1>1, <1>2, <1>3, <1>7 DEF OrderlyEnd, DtorStates
<1>8. CASE m.dtor = "free" /\ DtorGoesOn(p, m, "members")
  BY <1>1, <1>2, <1>3, <1>8 DEF OrderlyEnd, DtorStates
<1> QED
  BY <1>4, <1>5, <1>6, <1>7, <1>8 DEF DtorGoes

LEMMA MembersGoKeeps ==
    ASSUME LifeInv, NEW p \in Procs, MembersGo(p)
    PROVE  LifeInv'
<1>1. /\ exe[p] \in Memory /\ Becomes(p, exe[p]) /\ Settled(stage[p], exe[p])
  BY SameMemory DEF MembersGo
<1>2. /\ stage[p] = "destroying" /\ Enter(p, "unlinking") /\ NoneJoinable(exe[p])
      /\ UNCHANGED <<pidFile, tries, starts>>
  BY DEF MembersGo, DerivedDestroyed
<1>3. AtWork(p) /\ "unlinking" \in Stages /\ Settled("unlinking", exe[p])
  BY <1>1, <1>2 DEF AtWork, Stages, Settled
<1> QED
  BY <1>1, <1>2, <1>3, StageStep

-----------------------------------------------------------------------------
(* The theorems.                                                           *)

LEMMA LifeInvInit == LifeInit => LifeInv
<1> SUFFICES ASSUME LifeInit PROVE LifeInv
  OBVIOUS
<1>1. LifeTypeOK
  BY FreshMemory, DaemonAssumption DEF LifeInit, DaemonInit, LifeTypeOK, DaemonTypeOK, Stages
<1>2. \A p \in Procs : Settled(stage[p], exe[p])
  BY FreshSettled DEF LifeInit, DaemonInit, Stages
<1> QED
  BY <1>1, <1>2 DEF LifeInv, LifeInit, DaemonInit, AtWork

LEMMA LifeInvStep == LifeInv /\ [LifeNext]_lifeVars => LifeInv'
<1> SUFFICES ASSUME LifeInv, [LifeNext]_lifeVars PROVE LifeInv'
  OBVIOUS
<1>1. CASE UNCHANGED lifeVars
  BY <1>1 DEF lifeVars, daemonVars, LifeInv, LifeTypeOK, DaemonTypeOK, AtWork,
     Settled, NoneJoinable, OrderlyWork, OrderlyEnd, Joining, NoneJoined
<1>2. ASSUME NEW p \in Procs, BaseStep(p)
      PROVE  LifeInv'
  BY <1>2, ConstructorKeeps, TerminateKeeps, TerminateInLogKeeps, UnwindKeeps, KillKeeps
     DEF BaseStep
<1>3. ASSUME NEW p \in Procs, DtorStep(p)
      PROVE  LifeInv'
  BY <1>3, DtorGoesKeeps, MembersGoKeeps, KillKeeps DEF DtorStep
<1> QED
  BY <1>1, <1>2, <1>3, SetupKeeps, MainStartsKeeps, DestroyKeeps, ReloadArrivesKeeps,
     ReloadStepKeeps, TimeThreadEndsKeeps, ScriptEndsKeeps, RebootKeeps DEF LifeNext

\* What the life of each process keeps (mq_lib.cpp:75-126 and 263-283,
\* mq_exe_daemon.cpp:127-193 and 301-318).
THEOREM LifeInvariant == LifeSpec => []LifeInv
<1> QED
  BY LifeInvInit, LifeInvStep, PTL DEF LifeSpec

\* Types, for any number of processes and scripts.
THEOREM LifeTypeCorrect == LifeSpec => []LifeTypeOK
<1>1. LifeInv => LifeTypeOK
  BY DEF LifeInv
<1> QED
  BY <1>1, LifeInvariant, PTL

\* The pid file (mq_lib.cpp:212, 279) lets one process of a daemon work at a time.
THEOREM OneProcessWorks == LifeSpec => []OneAtWork
<1>1. LifeInv => OneAtWork
  BY DEF LifeInv, OneAtWork
<1> QED
  BY <1>1, LifeInvariant, PTL

\* Scripts run only in the process of the pid file: ~Daemon (mq_lib.cpp:279)
\* removes it after ~Exe_Service (mq_exe_daemon.cpp:301) has joined them all.
THEOREM ScriptsBelongToOne == LifeSpec => []ScriptsOfOne
<1>1. ASSUME LifeInv, NEW p \in Procs, NEW s \in LifeScripts, exe[p].script[s] = "up"
      PROVE  pidFile = p
  <2>1. /\ Settled(stage[p], exe[p]) /\ stage[p] \in Stages
        /\ exe[p].threads[s] = "joinable"
    BY <1>1 DEF LifeInv, LifeTypeOK, DaemonTypeOK, Settled
  <2>2. exe[p] # Fresh
    BY <1>1 DEF Fresh, All
  <2>3. AtWork(p)
    BY <2>1, <2>2 DEF Settled, NoneJoinable, AtWork, Stages
  <2> QED
    BY <1>1, <2>3 DEF LifeInv
<1>2. LifeInv => ScriptsOfOne
  BY <1>1 DEF ScriptsOfOne
<1> QED
  BY <1>2, LifeInvariant, PTL

\* The destructor (mq_exe_daemon.cpp:301) survives, unless main threw before the
\* time thread was started or a reload runs at the same time.
THEOREM DestructorSurvives == LifeSpec => []DiesOnlyIf
<1>1. ASSUME LifeInv, NEW p \in Procs, Fatal(p),
             exe[p].timeThread # "none", ~exe[p].overlapped
      PROVE  FALSE
  <2>1. /\ stage[p] = "destroying" /\ OrderlyEnd(exe[p])
        /\ exe[p].todo["dtor"] \subseteq LifeScripts
    BY <1>1, MemoryFields DEF Fatal, LifeInv, LifeTypeOK, Settled
  <2>2. ~Reloading(p)
    BY <2>1 DEF OrderlyEnd, Reloading
  <2>3. CASE exe[p].dtor = "join"
    BY <1>1, <2>1, <2>2, <2>3
       DEF Fatal, OrderlyEnd, Joining, JoinThrows, NoneJoinable, Reloading
  <2>4. CASE exe[p].dtor = "members"
    BY <1>1, <2>1, <2>2, <2>4 DEF Fatal, OrderlyEnd, NoneJoinable, All, Reloading
  <2> QED
    BY <1>1, <2>3, <2>4 DEF Fatal
<1>2. LifeInv => DiesOnlyIf
  BY <1>1 DEF DiesOnlyIf
<1> QED
  BY <1>2, LifeInvariant, PTL
=============================================================================
