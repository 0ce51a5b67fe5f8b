---------------------------- MODULE ZWaveService ----------------------------
(***************************************************************************)
(* zwave_service: the daemon between a Z-Wave network and the broker.  The *)
(* main thread waits for the nodes to identify themselves, builds the maps *)
(* in which the other threads look values up, and then asks for values     *)
(* that were not reported for too long.  The thread of OpenZWave reports   *)
(* values, the mosquitto thread sets them.                                 *)
(*                                                                         *)
(* A definition X_Word states X as a plausible bug would have it.  Nothing *)
(* uses it but the tests of the properties.                                *)
(***************************************************************************)
EXTENDS Integers, Sequences

CONSTANTS
    Sensors,        \* configured sensors
    Values,         \* configured values of all sensors
    ValuesOf,       \* the values of a sensor in the order of the configuration
    Nodes,          \* nodes of the network
    NodeOf,         \* the node of a value: ValueID.GetNodeId
    Labels,         \* what values are called in messages
    LabelOf,        \* the label that the network gives a value
    Status,         \* values configured to be read
    Set,            \* values configured to be written
    WriteOnly,      \* values that the network marks write only
    ReadOnly,       \* values that the network marks read only
    Invalid,        \* values that the network does not have
    Convertible,    \* values with a type that ozw_value_to_json_object handles
    Limit,          \* ValueData.refresh_limit
    CfgRefresh,     \* refresh as configured, 0 if it is not
    NoMessage,      \* no message in hand
    InfoWait,       \* how long a node is waited for (10 minutes)
    MinSleep,       \* the main loop sleeps at least that long (2.1 s)
    MaxSleep,       \* and at most that long (600 s)
    Day,            \* 24 hours
    MaxTime,        \* bound: the clock
    MaxMsgs         \* bound: messages that set values

ValuesIn(s) == {ValuesOf[s][i] : i \in 1..Len(ValuesOf[s])}

ASSUME ConfigAssumption ==
    /\ ValuesOf \in [Sensors -> Seq(Values)]
    /\ NodeOf \in [Values -> Nodes]
    /\ LabelOf \in [Values -> Labels]
    /\ Status \subseteq Values /\ Set \subseteq Values
    /\ Limit \in [Values -> Nat]
    /\ CfgRefresh \in [Values -> Nat]
ASSUME SensorAssumption ==
    \A v \in Values :
        \E s \in Sensors : \A t \in Sensors : v \in ValuesIn(t) <=> t = s
ASSUME TimeAssumption ==
    /\ InfoWait \in Nat
    /\ MinSleep \in Nat /\ MaxSleep \in Nat /\ MinSleep <= MaxSleep
    /\ Day \in Nat
    /\ MaxTime \in Nat /\ MaxMsgs \in Nat

None == -1

VARIABLES
    phase,      \* the main thread: "home", "poll", "setup", "pass", "sleep",
                \* and in the destructor: "stopping", "destroyed", "gone"
    homeId,     \* whether the driver has given _home_id
    informed,   \* external: the nodes whose information was received
    requested,  \* when the main thread began to wait for the nodes
    waiting,    \* status_map: values whose nodes are waited for
    listed,     \* the values in _sensors
    todo,       \* the values still to be set up, or to be examined in this pass
    labelled,   \* values whose label and units were read
    read, write, \* ValueData.read, ValueData.write
    idMap,      \* _sensor_id_map
    nameMap,    \* _sensor_name_map: every sensor there is subscribed
    initialized, \* _initialized
    lastRefresh, \* ValueData.last_refresh
    passAt,     \* the time of the present pass of the main loop
    next,       \* next_refresh: how long it is going to sleep
    wakeAt,     \* the end of its sleep
    healAt,     \* _last_refresh: when the network was healed last
    cb,         \* the message in hand of the mosquitto thread
    now,        \* the clock, counted from the start of the machine
    \* history, not part of the program
    skipped,    \* values of failed nodes in the present pass
    lastPub,    \* when a value was published last
    lastForced, \* when a value was asked for last
    asked,      \* values asked for and not reported since
    written,    \* values that were set
    msgs

setupVars   == <<labelled, read, write, idMap, nameMap, initialized>>
waitVars    == <<homeId, informed, requested, waiting, listed>>
passVars    == <<passAt, next, wakeAt, healAt, skipped>>
refreshVars == <<lastRefresh, lastPub, lastForced, asked>>
setVars     == <<cb, written, msgs>>

vars == <<phase, waitVars, todo, setupVars, passVars, refreshVars, setVars, now>>

-----------------------------------------------------------------------------
(* Configuration.                                                          *)

\* A value is not asked for more often than it may report.
Refresh_AsConfigured(v) == CfgRefresh[v]
Refresh(v) == IF CfgRefresh[v] # 0 /\ CfgRefresh[v] < Limit[v]
              THEN Limit[v] ELSE CfgRefresh[v]

SensorOf(v) == CHOOSE s \in Sensors : v \in ValuesIn(s)

-----------------------------------------------------------------------------
(* The main thread until it is initialized.                                *)

DriverReady ==
    /\ phase \notin {"stopping", "destroyed", "gone"}
    /\ homeId' = TRUE
    /\ UNCHANGED <<phase, informed, requested, waiting, listed, todo, setupVars,
                   passVars, refreshVars, setVars, now>>

\* External: a node has answered what it was asked at its start.
NodeInfo(n) ==
    /\ informed' = informed \cup {n}
    /\ UNCHANGED <<phase, homeId, requested, waiting, listed, todo, setupVars,
                   passVars, refreshVars, setVars, now>>

GotHomeId ==
    /\ phase = "home"
    /\ homeId
    /\ phase' = "poll"
    /\ requested' = now
    /\ waiting' = listed
    /\ UNCHANGED <<homeId, informed, listed, todo, setupVars, passVars,
                   refreshVars, setVars, now>>

Expired_InMilliseconds == now - requested >= 1000 * InfoWait
Expired == now - requested >= InfoWait

\* One entry of status_map is checked.  All values of a node that keeps silent
\* for too long are removed from the list.
OfSameNode(v) == {w \in listed : NodeOf[w] = NodeOf[v]}

Identified(v) ==
    /\ NodeOf[v] \in informed
    /\ UNCHANGED listed

Removed_Kept(v) ==
    /\ NodeOf[v] \notin informed
    /\ Expired
    /\ UNCHANGED listed
Removed(v) ==
    /\ NodeOf[v] \notin informed
    /\ Expired
    /\ listed' = listed \ OfSameNode(v)

CheckNode(v) ==
    /\ phase = "poll"
    /\ v \in waiting
    /\ waiting' = waiting \ {v}
    /\ Identified(v) \/ Removed(v)
    /\ UNCHANGED <<phase, homeId, informed, requested, todo, setupVars,
                   passVars, refreshVars, setVars, now>>

BeginSetup_Initialized ==
    /\ phase = "poll"
    /\ waiting = {}
    /\ phase' = "setup"
    /\ todo' = listed
    /\ initialized' = TRUE
    /\ UNCHANGED <<waitVars, labelled, read, write, idMap, nameMap, passVars,
                   refreshVars, setVars, now>>
BeginSetup ==
    /\ phase = "poll"
    /\ waiting = {}
    /\ phase' = "setup"
    /\ todo' = listed
    /\ UNCHANGED <<waitVars, setupVars, passVars, refreshVars, setVars, now>>

\* The network throws for a value that it does not have: it is in no map.
SetupInvalid(v) ==
    /\ v \in Invalid
    /\ UNCHANGED <<labelled, read, write, idMap, nameMap>>

SetupValid_ConfiguredWrite(v) ==
    /\ v \notin Invalid
    /\ labelled' = labelled \cup {v}
    /\ read' = read \ ({v} \cap WriteOnly)
    /\ write' = write \ ({v} \cap ReadOnly)
    /\ idMap' = IF v \in read' THEN idMap \cup {v} ELSE idMap
    /\ nameMap' = IF v \in write THEN nameMap \cup {SensorOf(v)} ELSE nameMap
SetupValid(v) ==
    /\ v \notin Invalid
    /\ labelled' = labelled \cup {v}
    /\ read' = read \ ({v} \cap WriteOnly)
    /\ write' = write \ ({v} \cap ReadOnly)
    /\ idMap' = IF v \in read' THEN idMap \cup {v} ELSE idMap
    /\ nameMap' = IF v \in write' THEN nameMap \cup {SensorOf(v)} ELSE nameMap

Setup(v) ==
    /\ phase = "setup"
    /\ v \in todo
    /\ todo' = todo \ {v}
    /\ SetupInvalid(v) \/ SetupValid(v)
    /\ UNCHANGED <<phase, waitVars, initialized, passVars, refreshVars,
                   setVars, now>>

-----------------------------------------------------------------------------
(* The main loop.                                                          *)

StartPass ==
    /\ phase' = "pass"
    /\ passAt' = now
    /\ next' = MaxSleep
    /\ skipped' = {}
    /\ todo' = {v \in listed : Refresh(v) # 0}
    /\ UNCHANGED <<waitVars, labelled, read, write, idMap, nameMap, wakeAt,
                   healAt, refreshVars, setVars, now>>

Initialized ==
    /\ phase = "setup"
    /\ todo = {}
    /\ initialized' = TRUE
    /\ StartPass

Age(v) == passAt - lastRefresh[v]

Sooner_Last(t) == t
Sooner(t) == IF t < next THEN t ELSE next

Examine(v) ==
    /\ phase = "pass"
    /\ v \in todo
    /\ todo' = todo \ {v}
    /\ UNCHANGED <<phase, waitVars, setupVars, passAt, wakeAt, healAt,
                   lastRefresh, lastPub, setVars, now>>

NodeFailed(v) ==
    /\ Examine(v)
    /\ skipped' = skipped \cup {v}
    /\ UNCHANGED <<next, lastForced, asked>>

\* The value was not reported for too long: the node is asked for it.
ForceRefresh(v) ==
    /\ Examine(v)
    /\ Age(v) > Refresh(v)
    /\ lastForced' = [lastForced EXCEPT ![v] = passAt]
    /\ asked' = asked \cup {v}
    /\ next' = Sooner(Refresh(v))
    /\ UNCHANGED skipped

NotYetDue(v) ==
    /\ Examine(v)
    /\ Age(v) <= Refresh(v)
    /\ next' = Sooner(Refresh(v) - Age(v))
    /\ UNCHANGED <<skipped, lastForced, asked>>

EndPass ==
    /\ phase = "pass"
    /\ todo = {}
    /\ phase' = "sleep"
    /\ healAt' = IF healAt - passAt > Day THEN passAt ELSE healAt
    /\ next' = IF next < MinSleep THEN MinSleep ELSE next
    /\ wakeAt' = now + next'
    /\ UNCHANGED <<waitVars, todo, setupVars, passAt, skipped, refreshVars,
                   setVars, now>>

Wake ==
    /\ phase = "sleep"
    /\ now >= wakeAt
    /\ StartPass
    /\ UNCHANGED initialized

-----------------------------------------------------------------------------
(* The thread of OpenZWave: a value was changed or refreshed.              *)

\* What comes before the initialization, for an unknown value or too soon after
\* the last report changes nothing.
Notify_NotMarked(v) ==
    /\ initialized
    /\ v \in idMap
    /\ now - lastRefresh[v] >= Limit[v]
    /\ lastPub' = [lastPub EXCEPT ![v] = IF v \in Convertible THEN now ELSE @]
    /\ asked' = asked \ {v}
    /\ UNCHANGED <<lastRefresh, lastForced>>
Notify(v) ==
    /\ initialized
    /\ v \in idMap
    /\ now - lastRefresh[v] >= Limit[v]
    /\ lastRefresh' = [lastRefresh EXCEPT ![v] = now]
    /\ lastPub' = [lastPub EXCEPT ![v] = IF v \in Convertible THEN now ELSE @]
    /\ asked' = asked \ {v}
    /\ UNCHANGED lastForced

on_notification(v) ==
    /\ phase \notin {"stopping", "destroyed", "gone"}
    /\ Notify(v)
    /\ UNCHANGED <<phase, waitVars, todo, setupVars, passVars, setVars, now>>

-----------------------------------------------------------------------------
(* The mosquitto thread: a message for a sensor sets values by their       *)
(* labels.  Which JSON type calls which SetValue is left out.              *)

CallBack(s) ==
    /\ phase # "gone"
    /\ cb = NoMessage
    /\ s \in nameMap
    /\ msgs < MaxMsgs
    /\ msgs' = msgs + 1
    /\ \E keys \in SUBSET Labels : cb' = [sensor |-> s, keys |-> keys]
    /\ UNCHANGED <<phase, waitVars, todo, setupVars, passVars, refreshVars,
                   written, now>>

Matching(s, l) == {i \in 1..Len(ValuesOf[s]) :
                      LET v == ValuesOf[s][i]
                      IN  v \in listed \cap labelled /\ LabelOf[v] = l}

SetValue(l) ==
    /\ cb # NoMessage
    /\ l \in cb.keys
    /\ cb' = [cb EXCEPT !.keys = @ \ {l}]
    /\ LET M == Matching(cb.sensor, l)
       IN  \/ M = {} /\ UNCHANGED written
           \/ \E i \in M :
                 /\ \A j \in M : i <= j
                 /\ written' = written \cup {ValuesOf[cb.sensor][i]}
    /\ UNCHANGED <<phase, waitVars, todo, setupVars, passVars, refreshVars,
                   msgs, now>>

CallBackDone ==
    /\ cb # NoMessage
    /\ cb.keys = {}
    /\ cb' = NoMessage
    /\ UNCHANGED <<phase, waitVars, todo, setupVars, passVars, refreshVars,
                   written, msgs, now>>

-----------------------------------------------------------------------------
(* The destructor, called by the handler of SIGTERM or when main returns.  *)
(* Unsubscribing from # takes no subscription away.                        *)

StopPhase(from, to) ==
    /\ phase \in from
    /\ phase' = to
    /\ UNCHANGED <<waitVars, todo, setupVars, passVars, refreshVars, written,
                   msgs, now>>

\* The watcher is removed: no notification comes any more.
Terminate ==
    /\ StopPhase({"home", "poll", "setup", "pass", "sleep"}, "stopping")
    /\ UNCHANGED cb

\* Manager::Destroy, Options::Destroy, json_tokener_free.
Destroy ==
    /\ StopPhase({"stopping"}, "destroyed")
    /\ UNCHANGED cb

\* ~Daemon ends the mosquitto thread, wherever it is.
Disconnect ==
    /\ StopPhase({"destroyed"}, "gone")
    /\ cb' = NoMessage

Tick ==
    /\ now < MaxTime
    /\ now' = now + 1
    /\ UNCHANGED <<phase, waitVars, todo, setupVars, passVars, refreshVars,
                   setVars>>

-----------------------------------------------------------------------------

Init ==
    /\ phase = "home"
    /\ homeId = FALSE
    /\ informed = {}
    /\ requested = 0
    /\ waiting = {}
    /\ listed = Values
    /\ todo = {}
    /\ labelled = {}
    /\ read = Status
    /\ write = Set
    /\ idMap = {}
    /\ nameMap = {}
    /\ initialized = FALSE
    /\ lastRefresh = [v \in Values |-> 0]
    /\ passAt = 0
    /\ next = MaxSleep
    /\ wakeAt = 0
    /\ healAt = 0
    /\ cb = NoMessage
    /\ now = 0
    /\ skipped = {}
    /\ lastPub = [v \in Values |-> None]
    /\ lastForced = [v \in Values |-> None]
    /\ asked = {}
    /\ written = {}
    /\ msgs = 0

MainThread ==
    \/ GotHomeId \/ BeginSetup \/ Initialized \/ EndPass \/ Wake
    \/ \E v \in Values :
          \/ CheckNode(v) \/ Setup(v)
          \/ NodeFailed(v) \/ ForceRefresh(v) \/ NotYetDue(v)

Next ==
    \/ MainThread
    \/ DriverReady
    \/ \E n \in Nodes : NodeInfo(n)
    \/ \E v \in Values : on_notification(v)
    \/ \E s \in Sensors : CallBack(s)
    \/ \E l \in Labels : SetValue(l)
    \/ CallBackDone
    \/ Terminate \/ Destroy \/ Disconnect
    \/ Tick

Spec == Init /\ [][Next]_vars /\ WF_vars(MainThread) /\ WF_vars(Tick)

-----------------------------------------------------------------------------
(* Properties.                                                             *)

\* Every variable has its type; in particular the maps hold only values that
\* are listed, set up and readable, which the threads rely on.
TypeOK ==
    /\ phase \in {"home", "poll", "setup", "pass", "sleep",
                  "stopping", "destroyed", "gone"}
    /\ homeId \in BOOLEAN
    /\ informed \subseteq Nodes
    /\ requested \in 0..now
    /\ waiting \subseteq Values
    /\ listed \subseteq Values
    /\ todo \subseteq listed
    /\ labelled \subseteq Values
    /\ read \subseteq Status
    /\ write \subseteq Set
    /\ idMap \subseteq labelled \cap read
    /\ nameMap \subseteq Sensors
    /\ initialized \in BOOLEAN
    /\ lastRefresh \in [Values -> 0..now]
    /\ passAt \in 0..now
    /\ next \in 0..MaxSleep
    /\ wakeAt \in Nat
    /\ healAt \in 0..now
    /\ cb \in [sensor : Sensors, keys : SUBSET Labels] \cup {NoMessage}
    /\ now \in 0..MaxTime
    /\ skipped \subseteq Values
    /\ lastPub \in [Values -> {None} \cup 0..now]
    /\ lastForced \in [Values -> {None} \cup 0..now]
    /\ asked \subseteq Values
    /\ written \subseteq Values
    /\ msgs \in 0..MaxMsgs

\* "cleanup values for nodes without Nodeinfo": once the maps are built, every
\* value that is left belongs to a node that has identified itself, and the maps
\* point to such values only, although the entries of one node are checked one
\* by one while the node may answer in between.
OnlyKnownNodes ==
    phase \in {"setup", "pass", "sleep"} =>
        /\ \A v \in listed : NodeOf[v] \in informed
        /\ idMap \subseteq listed
        /\ \A s \in nameMap : ValuesIn(s) \cap listed # {}

\* "write sensor": a message sets values of sensors only that have a value left
\* that may be written, although any labelled value of them may then be set.
\* Values that the network marks read only, is without or has lost with their
\* node do not count.
OnlyWritableSensorsSet ==
    \A s \in Sensors :
        written \cap ValuesIn(s) # {} => write \cap listed \cap ValuesIn(s) # {}

\* The map of values is not read by the thread of OpenZWave while the main
\* thread fills it: a value is reported only when all of them are set up.
ReportedWhenReady ==
    [][\A v \in Values :
          lastRefresh'[v] # lastRefresh[v] => phase \in {"pass", "sleep"}]_vars

\* A node that never identifies itself does not keep the daemon from starting
\* (if the clock runs until its time is over).
PreparationEnds ==
    (phase = "poll" /\ requested + InfoWait <= MaxTime) ~> (phase # "poll")

\* refresh_limit is the "min limit for value report": reports of a value are
\* that far apart, whoever caused them.
ReportsApart ==
    [][\A v \in Values :
          lastPub'[v] # lastPub[v] /\ lastPub[v] # None =>
              lastPub'[v] - lastPub[v] >= Limit[v]]_vars

\* The answer to a request is not swallowed by refresh_limit: whenever a value
\* was asked for and not reported since, the limit has passed.
ForcedReportPasses ==
    \A v \in asked : now - lastRefresh[v] >= Limit[v]

\* The main loop does not sleep past the time when a value has to be asked for,
\* but for the shortest sleep: neither its own report nor a request for it is
\* then older than refresh.
LastNews(v) == IF lastForced[v] > lastRefresh[v] THEN lastForced[v]
                                                 ELSE lastRefresh[v]
NotSleptPast ==
    phase = "sleep" =>
        \A v \in listed \ skipped : Refresh(v) # 0 =>
            /\ passAt <= LastNews(v) + Refresh(v)
            /\ next > MinSleep => passAt + next <= LastNews(v) + Refresh(v)

\* "This value controlls how often this may happen (in seconds!)": requests for
\* a value that answers are more than refresh apart.  (The time of a request is not
\* kept: a value that does not answer is asked for in every pass of the loop.)
AnsweredRequestsApart ==
    [][\A v \in Values \ asked :
          lastForced'[v] # lastForced[v] /\ lastForced[v] # None =>
              lastForced'[v] - lastForced[v] > Refresh(v)]_vars

\* "24hour cycle to call heal network": does not hold, for the age is computed
\* with the wrong sign.
HealedDaily == phase = "sleep" => passAt - healAt <= Day

-----------------------------------------------------------------------------
(* The inductive invariant behind the safety properties that are proved.   *)

\* What the maps hold in each phase of the main thread.
SetupPhases ==
    /\ phase \in {"home", "poll"} =>
          todo = {} /\ labelled = {} /\ idMap = {} /\ nameMap = {}
    /\ phase \in {"home", "poll", "setup"} => ~initialized
    /\ phase = "setup" => todo \cap idMap = {}

\* A value that is no longer waited for is removed or its node is known.
WaitPhases ==
    /\ phase = "poll" => \A v \in listed \ waiting : NodeOf[v] \in informed
    /\ phase \in {"setup", "pass", "sleep"} =>
          \A v \in listed : NodeOf[v] \in informed
    /\ idMap \subseteq listed

\* Subscribed sensors have a value to be written, and only they are set.
SetterPhases ==
    /\ \A s \in nameMap : write \cap listed \cap ValuesIn(s) # {}
    /\ phase = "setup" =>
          \A s \in nameMap : write \cap (listed \ todo) \cap ValuesIn(s) # {}
    /\ cb # NoMessage => cb.sensor \in nameMap
    /\ \A s \in Sensors : written \cap ValuesIn(s) # {} => s \in nameMap

\* News of a value: reports are later than the requests they answer.
NewsInOrder ==
    /\ \A v \in Values : lastPub[v] <= lastRefresh[v] /\ lastForced[v] <= passAt
    /\ \A v \in Values \ asked : lastForced[v] <= lastRefresh[v]

\* Every value examined in this pass lets the main thread sleep for next.
PassPhase ==
    phase = "pass" =>
        /\ \A v \in todo : Refresh(v) # 0
        /\ \A v \in listed \ (skipped \cup todo) : Refresh(v) # 0 =>
              passAt + next <= LastNews(v) + Refresh(v)

IInv ==
    /\ TypeOK
    /\ SetupPhases
    /\ WaitPhases
    /\ SetterPhases
    /\ NewsInOrder
    /\ PassPhase
    /\ ForcedReportPasses
    /\ NotSleptPast

=============================================================================
