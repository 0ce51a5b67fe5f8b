----------------------------- MODULE ExeService -----------------------------
(***************************************************************************)
(* exe_service: the daemon that runs the user's Lua scripts.               *)
(*                                                                         *)
(* Four kinds of threads share two multimaps of waiting scripts:           *)
(*   - one thread per script, which registers a stack object (sync_obj) in *)
(*     the maps and blocks on its condition variable (wait_and, wait_or);  *)
(*   - the mosquitto thread, which stores received values and notifies the *)
(*     scripts that wait for them, and accepts reload requests;            *)
(*   - the time thread, which notifies scripts whose time point has come;  *)
(*   - the reload task (stop_all, then start_all), which terminates every  *)
(*     script thread, joins it and starts the scripts of the database.     *)
(*                                                                         *)
(* A critical section under _map_mutex, _time_mutex or _value_mutex is one *)
(* action.  The predicate of a wait is read WITHOUT these mutexes (the     *)
(* code waits on a mutex of its own stack frame), so evaluating it (Test)  *)
(* and blocking on the condition variable (Block) are separate actions     *)
(* and a notification may fall between them.                               *)
(*                                                                         *)
(* A definition X_Word states X as a plausible bug would have it.  Nothing *)
(* uses it but the tests of the properties.                                *)
(***************************************************************************)
EXTENDS Integers, FiniteSets

CONSTANTS
    Scripts,        \* the script names that may be rows of the database
    Values,         \* sensor values a script may register, "sensor:name"
    Topics,         \* MQTT topics of the sensors
    TopicOf,        \* the topic whose messages carry a value
    KindsOf,        \* the JSON types a value's sensor publishes it with
    Positions,      \* argument positions on the Lua stack of a wait call
    Requests,       \* the wait calls each script may make
    Registers,      \* the values whose register_value call scan_script finds
    ScanRejects,    \* scripts with an ill-formed register_value parameter
    LoadRejects,    \* scripts that luaL_loadbuffer refuses
    Tables,         \* script tables that an edit may leave
    Null,           \* nullptr
    MaxTime,        \* bound: the clock
    MaxMsgs,        \* bound: status messages
    MaxReloads,     \* bound: reload requests received
    MaxEdits        \* bound: edits of the script table

ReloadTopic == "app/exe/reload"
Wildcard    == "#"

Kinds == {"int", "double", "boolean", "other"}

\* The arguments of a wait call: the positions that hold registered values and
\* those that hold time strings, as functions.
IsArgs(f, S) ==
    /\ DOMAIN f \subseteq Positions
    /\ f \in [DOMAIN f -> S]

\* A wait call: wait_or or wait_and, its values, and for each time string the
\* delay to the time point it names.
IsRequest(r) ==
    /\ r.or \in BOOLEAN
    /\ IsArgs(r.val, Values)
    /\ IsArgs(r.delay, Nat)
    /\ DOMAIN r.val \cap DOMAIN r.delay = {}
    /\ DOMAIN r.val \cup DOMAIN r.delay # {}

ASSUME NullAssumption == Null \notin Scripts \cup Values
ASSUME FiniteAssumption == IsFiniteSet(Positions)
ASSUME TopicAssumption ==
    /\ TopicOf \in [Values -> Topics]
    /\ ReloadTopic \notin Topics
    /\ Wildcard \notin Topics
ASSUME KindAssumption == KindsOf \in [Values -> (SUBSET Kinds) \ {{}}]
ASSUME RequestAssumption ==
    \A s \in Scripts : \A r \in Requests[s] : IsRequest(r)
ASSUME RegisterAssumption == Registers \in [Scripts -> SUBSET Values]
ASSUME RejectAssumption ==
    /\ ScanRejects \subseteq Scripts
    /\ LoadRejects \subseteq Scripts
ASSUME TableAssumption == Tables \subseteq SUBSET Scripts
ASSUME BoundAssumption ==
    /\ MaxTime \in Nat
    /\ MaxMsgs \in Nat
    /\ MaxReloads \in Nat
    /\ MaxEdits \in Nat

VARIABLES
    pc,         \* where each script's thread is
    wait,       \* the arguments of the script's current wait call
    num,        \* sync_obj.num of that call
    valMap,     \* _value_wait_map
    timeMap,    \* _time_wait_map
    terminate,  \* _terminate_lua_threads
    now,        \* system_clock
    hpc,        \* where the mosquitto thread is in parse_status_message
    hTodo,      \* the values of the message that are still to be handled
    hVal,       \* the value being handled
    hKind,      \* its JSON type
    dblVal,     \* _last_val_double_map: number of the message stored, 0 if none
    boolVal,    \* _last_val_boolean_map, likewise
    rpc,        \* where the thread that runs stop_all and start_all is
    store,      \* script_store: the scripts still to be started
    subs,       \* the daemon's subscriptions at the broker
    dbScripts,  \* external: the rows of the script table
    \* history, not part of the program
    hit,        \* arguments of the current call whose event has happened
    missed,     \* scripts notified after their test and before they blocked
    told,       \* last message of each value the waiting scripts were told of
    msgs,       \* status messages received
    reloads,    \* reload requests received
    dbVer,      \* version of the script table
    loadedVer,  \* the version the running scripts were loaded from
    reqVer      \* the version at the last reload request, see Reload

scriptVars  == <<pc, wait, num>>
mapVars     == <<valMap, timeMap>>
handlerVars == <<hpc, hTodo, hVal, hKind>>
valueVars   == <<dblVal, boolVal, told, msgs>>
reloadVars  == <<rpc, store, subs, terminate, reloads, loadedVer, reqVer>>
dbVars      == <<dbScripts, dbVer>>
waitHistory == <<hit, missed>>

vars == <<scriptVars, mapVars, handlerVars, valueVars, reloadVars, dbVars,
          waitHistory, now>>

-----------------------------------------------------------------------------
(* The state of one wait call.                                             *)

\* Threads whose sync_obj is alive: between its declaration and the end of
\* its scope.
InScope == {"insVal", "insTime", "test", "sleep", "blocked", "delVal", "delTime"}

\* Threads whose value (time) entries are in the map, unless someone erased
\* them.
ValRegistered  == {"insTime", "test", "sleep", "blocked", "delVal"}
TimeRegistered == {"test", "sleep", "blocked", "delVal", "delTime"}

PCs == InScope \cup {"none", "lua", "leave", "done"}

Args(w) == DOMAIN w.val \cup DOMAIN w.due

NoArgs == [p \in {} |-> p]
NoWait == [or |-> FALSE, val |-> NoArgs, due |-> NoArgs]

\* The predicates given to cond_var.wait, without the terminate flag: wait_and
\* wants one notification per argument, wait_or one.
Satisfied_AnyEvent(s)   == num[s] > 0
Satisfied(s) ==
    num[s] >= (IF wait[s].or THEN 1 ELSE Cardinality(Args(wait[s])))

-----------------------------------------------------------------------------
(* The waiting maps.  A multimap is a set of records, one per element; own *)
(* and arg identify the element, key is its key and ptr its mapped pointer *)
(* (the sync_obj of a script, or nullptr once it has been notified).       *)

Entries(s, keyOf) ==
    {[own |-> s, arg |-> p, key |-> keyOf[p], ptr |-> s] : p \in DOMAIN keyOf}

\* The elements a waker finds with a key in K and a non-null pointer to s:
\* it adds one to s's num for each of them.
Fired(map, K, s) == {e.arg : e \in {x \in map : x.key \in K /\ x.ptr = s}}

\* it->second = nullptr for every element with a key in K.
Nulled(map, K) ==
    {[own |-> e.own, arg |-> e.arg, key |-> e.key,
      ptr |-> IF e.key \in K THEN Null ELSE e.ptr] : e \in map}

\* What a leaving script removes: at its own keys, the null elements and those
\* that point to its own sync_obj.
Erased_WholeKey(map, K, s) == {e \in map : e.key \notin K}
Erased_OnlyNull(map, K, s) == {e \in map : e.key \notin K \/ e.ptr # Null}
Erased(map, K, s) ==
    {e \in map : e.key \notin K \/ e.ptr \notin {Null, s}}

AllKeys(map) == {e.key : e \in map}

\* ++num and notify_all for the scripts that have an element in map under K.
\* Notification wakes a thread that is blocked; one that has evaluated its
\* predicate and not yet blocked does not notice it.
Counted(map, K) == [s \in Scripts |-> num[s] + Cardinality(Fired(map, K, s))]
Woken_Never(map, K) == pc
Woken(map, K) ==
    [s \in Scripts |-> IF pc[s] = "blocked" /\ Fired(map, K, s) # {}
                       THEN "test" ELSE pc[s]]
Notify(map, K) ==
    /\ num' = Counted(map, K)
    /\ pc' = Woken(map, K)
    /\ missed' = missed \cup
          {s \in Scripts : pc[s] = "sleep" /\ Fired(map, K, s) # {}}


-----------------------------------------------------------------------------
(* The history of a wait call.  An argument's event has happened once the  *)
(* argument is registered and its value was received, or its time point    *)
(* was passed at a tick of the time thread.  It is computed from the       *)
(* arguments of the call, never from the maps.                             *)

HitByValue(v) ==
    [s \in Scripts |->
        IF pc[s] \in ValRegistered
        THEN hit[s] \cup {p \in DOMAIN wait[s].val : wait[s].val[p] = v}
        ELSE hit[s]]

HitByTime ==
    [s \in Scripts |->
        IF pc[s] \in TimeRegistered
        THEN hit[s] \cup {p \in DOMAIN wait[s].due : wait[s].due[p] <= now}
        ELSE hit[s]]

-----------------------------------------------------------------------------
(* Script threads (Exe_Service::thread_start, Exe_Service::wait).          *)

Goto(s, from, to) ==
    /\ pc[s] = from
    /\ pc' = [pc EXCEPT ![s] = to]

\* The script calls wait_and or wait_or: its arguments are collected (a time
\* string becomes a time point now) and sync_obj is constructed.
CallWait(s) ==
    /\ Goto(s, "lua", "insVal")
    /\ \E r \in Requests[s] :
          wait' = [wait EXCEPT ![s] =
                     [or |-> r.or, val |-> r.val,
                      due |-> [p \in DOMAIN r.delay |-> now + r.delay[p]]]]
    /\ num' = [num EXCEPT ![s] = 0]
    /\ hit' = [hit EXCEPT ![s] = {}]
    /\ missed' = missed \ {s}
    /\ UNCHANGED <<mapVars, handlerVars, valueVars, reloadVars, dbVars, now>>

\* The script returns, or a Lua error ends it (there is no pcall in it; a wait
\* without arguments or with a bad time string is such an error).
EndScript(s) ==
    /\ Goto(s, "lua", "done")
    /\ UNCHANGED <<wait, num, mapVars, handlerVars, valueVars, reloadVars,
                   dbVars, waitHistory, now>>

InsertVals(s) ==
    /\ Goto(s, "insVal", "insTime")
    /\ valMap' = valMap \cup Entries(s, wait[s].val)
    /\ UNCHANGED <<wait, num, timeMap, handlerVars, valueVars, reloadVars,
                   dbVars, waitHistory, now>>

InsertTimes(s) ==
    /\ Goto(s, "insTime", "test")
    /\ timeMap' = timeMap \cup Entries(s, wait[s].due)
    /\ UNCHANGED <<wait, num, valMap, handlerVars, valueVars, reloadVars,
                   dbVars, waitHistory, now>>

\* cond_var.wait evaluates its predicate ...
Test(s) ==
    /\ pc[s] = "test"
    /\ pc' = [pc EXCEPT ![s] =
                IF terminate \/ Satisfied(s) THEN "delVal" ELSE "sleep"]
    /\ missed' = missed \ {s}
    /\ UNCHANGED <<wait, num, mapVars, handlerVars, valueVars, reloadVars,
                   dbVars, hit, now>>

\* ... and blocks when it was false, whatever happened in between.
Block(s) ==
    /\ Goto(s, "sleep", "blocked")
    /\ UNCHANGED <<wait, num, mapVars, handlerVars, valueVars, reloadVars,
                   dbVars, waitHistory, now>>

\* A condition variable may wake without a notification.
SpuriousWake(s) ==
    /\ Goto(s, "blocked", "test")
    /\ UNCHANGED <<wait, num, mapVars, handlerVars, valueVars, reloadVars,
                   dbVars, waitHistory, now>>

DeleteVals(s) ==
    /\ Goto(s, "delVal", "delTime")
    /\ valMap' = Erased(valMap, {wait[s].val[p] : p \in DOMAIN wait[s].val}, s)
    /\ UNCHANGED <<wait, num, timeMap, handlerVars, valueVars, reloadVars,
                   dbVars, waitHistory, now>>

DeleteTimes(s) ==
    /\ Goto(s, "delTime", "leave")
    /\ timeMap' = Erased(timeMap, {wait[s].due[p] : p \in DOMAIN wait[s].due}, s)
    /\ UNCHANGED <<wait, num, valMap, handlerVars, valueVars, reloadVars,
                   dbVars, waitHistory, now>>

\* sync_obj is gone.  With the terminate flag up the wait raises a Lua error,
\* which ends the script; otherwise it returns to it.
Leave(s) ==
    /\ Goto(s, "leave", IF terminate THEN "done" ELSE "lua")
    /\ UNCHANGED <<wait, num, mapVars, handlerVars, valueVars, reloadVars,
                   dbVars, waitHistory, now>>

ScriptStep(s) ==
    \/ CallWait(s) \/ EndScript(s)
    \/ InsertVals(s) \/ InsertTimes(s)
    \/ Test(s) \/ Block(s)
    \/ DeleteVals(s) \/ DeleteTimes(s) \/ Leave(s)

-----------------------------------------------------------------------------
(* The mosquitto thread (parse_status_message, parse_app_message).         *)

\* A message with values vs arrives on a subscribed topic.
ReceiveStatus ==
    /\ hpc = "idle"
    /\ msgs < MaxMsgs
    /\ \E t \in Topics \cap subs :
          \E vs \in SUBSET {v \in Values : TopicOf[v] = t} :
             /\ vs # {}
             /\ hTodo' = vs
    /\ hpc' = "store"
    /\ msgs' = msgs + 1
    /\ UNCHANGED <<scriptVars, mapVars, hVal, hKind, dblVal, boolVal, told,
                   reloadVars, dbVars, waitHistory, now>>

\* The map that a value of JSON type k goes to: a number, whatever its JSON
\* type, becomes a double; a boolean keeps its own map; others are dropped.
IsNumber_OnlyDouble(k) == k = "double"
IsNumber(k) == k \in {"int", "double"}

\* The next key of the message: its value is stored (under _value_mutex).
StoreValue ==
    /\ hpc = "store"
    /\ \E v \in hTodo, k \in Kinds :
          /\ k \in KindsOf[v]
          /\ hVal' = v
          /\ hKind' = k
          /\ hTodo' = hTodo \ {v}
          /\ dblVal' = IF IsNumber(k) THEN [dblVal EXCEPT ![v] = msgs] ELSE dblVal
          /\ boolVal' = IF k = "boolean" THEN [boolVal EXCEPT ![v] = msgs] ELSE boolVal
    /\ hpc' = "notify"
    /\ UNCHANGED <<scriptVars, mapVars, told, msgs, reloadVars, dbVars,
                   waitHistory, now>>

\* ... and then its waiting scripts are notified (under _map_mutex), each
\* element once: its pointer is set to null.
NotifyValue ==
    /\ hpc = "notify"
    /\ Notify(valMap, {hVal})
    /\ valMap' = Nulled(valMap, {hVal})
    /\ hit' = HitByValue(hVal)
    /\ told' = IF hKind = "other" THEN told ELSE [told EXCEPT ![hVal] = msgs]
    /\ hpc' = IF hTodo = {} THEN "idle" ELSE "store"
    /\ hVal' = Null
    /\ hKind' = "other"
    /\ UNCHANGED <<wait, timeMap, hTodo, dblVal, boolVal, msgs, reloadVars,
                   dbVars, now>>

\* What request_value returns for v: the double if there is one, else the
\* boolean, else nil (0).
ReqValue(v) == IF dblVal[v] # 0 THEN dblVal[v] ELSE boolVal[v]

\* A reload request.  It is ignored while the future of the previous reload
\* is not ready; the first start_all runs on the main thread, without one,
\* before the topic is subscribed.  A request that comes before the running
\* reload has read the table is as good as carried out, and one that comes
\* later is lost: the history has every request but these.  The mutant takes a
\* future that is valid for one that is not ready.
Reload_Once ==
    /\ hpc = "idle"
    /\ ReloadTopic \in subs
    /\ reloads < MaxReloads
    /\ reloads' = reloads + 1
    /\ rpc' = IF rpc = "idle" /\ reloads = 0 THEN "unsubscribe" ELSE rpc
    /\ reqVer' = IF rpc = "spawn" THEN reqVer ELSE dbVer
    /\ UNCHANGED <<scriptVars, mapVars, handlerVars, valueVars, store, subs,
                   terminate, loadedVer, dbVars, waitHistory, now>>
Reload ==
    /\ hpc = "idle"
    /\ ReloadTopic \in subs
    /\ reloads < MaxReloads
    /\ reloads' = reloads + 1
    /\ rpc' = IF rpc = "idle" THEN "unsubscribe" ELSE rpc
    /\ reqVer' = IF rpc = "spawn" THEN reqVer ELSE dbVer
    /\ UNCHANGED <<scriptVars, mapVars, handlerVars, valueVars, store, subs,
                   terminate, loadedVer, dbVars, waitHistory, now>>

HandlerStep == StoreValue \/ NotifyValue

-----------------------------------------------------------------------------
(* The time thread (time_thread_loop) and the clock.                       *)

Tick ==
    /\ now < MaxTime
    /\ now' = now + 1
    /\ UNCHANGED <<scriptVars, mapVars, handlerVars, valueVars, reloadVars,
                   dbVars, waitHistory>>

\* One round of the loop: the elements whose time point is not after now.
DuePoints == {t \in AllKeys(timeMap) : t <= now}

TimeThread ==
    /\ Notify(timeMap, DuePoints)
    /\ timeMap' = Nulled(timeMap, DuePoints)
    /\ hit' = HitByTime
    /\ UNCHANGED <<wait, valMap, handlerVars, valueVars, reloadVars, dbVars,
                   now>>

-----------------------------------------------------------------------------
(* stop_all.                                                               *)

\* The broker drops the subscription with exactly this filter.
Unsubscribe ==
    /\ rpc = "unsubscribe"
    /\ rpc' = "flag"
    /\ subs' = subs \ {Wildcard}
    /\ UNCHANGED <<scriptVars, mapVars, handlerVars, valueVars, store,
                   terminate, reloads, loadedVer, reqVer, dbVars, waitHistory,
                   now>>

SetTerminate_Forgotten ==
    /\ rpc = "flag"
    /\ rpc' = "wakeVal"
    /\ UNCHANGED <<scriptVars, mapVars, handlerVars, valueVars, store, subs,
                   terminate, reloads, loadedVer, reqVer, dbVars, waitHistory,
                   now>>
SetTerminate ==
    /\ rpc = "flag"
    /\ rpc' = "wakeVal"
    /\ terminate' = TRUE
    /\ UNCHANGED <<scriptVars, mapVars, handlerVars, valueVars, store, subs,
                   reloads, loadedVer, reqVer, dbVars, waitHistory, now>>

\* Every element with a pointer is notified and keeps its pointer.
WakeVals ==
    /\ rpc = "wakeVal"
    /\ rpc' = "wakeTime"
    /\ Notify(valMap, AllKeys(valMap))
    /\ UNCHANGED <<wait, mapVars, handlerVars, valueVars, store, subs,
                   terminate, reloads, loadedVer, reqVer, dbVars, hit, now>>

WakeTimes_Skipped ==
    /\ rpc = "wakeTime"
    /\ rpc' = "join"
    /\ UNCHANGED <<scriptVars, mapVars, handlerVars, valueVars, store, subs,
                   terminate, reloads, loadedVer, reqVer, dbVars, waitHistory,
                   now>>
WakeTimes ==
    /\ rpc = "wakeTime"
    /\ rpc' = "join"
    /\ Notify(timeMap, AllKeys(timeMap))
    /\ UNCHANGED <<wait, mapVars, handlerVars, valueVars, store, subs,
                   terminate, reloads, loadedVer, reqVer, dbVars, hit, now>>

\* Every script thread is joined: its function must have returned.
Ended(s) == pc[s] \in {"none", "done"}

Join ==
    /\ rpc = "join"
    /\ \A s \in Scripts : Ended(s)
    /\ pc' = [s \in Scripts |-> "none"]
    /\ rpc' = "clearVal"
    /\ UNCHANGED <<wait, num, mapVars, handlerVars, valueVars, store, subs,
                   terminate, reloads, loadedVer, reqVer, dbVars, waitHistory,
                   now>>

ClearVals ==
    /\ rpc = "clearVal"
    /\ rpc' = "clearTime"
    /\ valMap' = {}
    /\ UNCHANGED <<scriptVars, timeMap, handlerVars, valueVars, store, subs,
                   terminate, reloads, loadedVer, reqVer, dbVars, waitHistory,
                   now>>

ClearTimes ==
    /\ rpc = "clearTime"
    /\ rpc' = "load"
    /\ timeMap' = {}
    /\ UNCHANGED <<scriptVars, valMap, handlerVars, valueVars, store, subs,
                   terminate, reloads, loadedVer, reqVer, dbVars, waitHistory,
                   now>>

-----------------------------------------------------------------------------
(* start_all.                                                              *)

\* The rows are selected and scanned, every sensor found is subscribed to
\* (those of a rejected script too) and the flag is taken down.  No script
\* thread exists: nobody sees these steps apart.
Load ==
    /\ rpc = "load"
    /\ rpc' = "spawn"
    /\ store' = dbScripts \ ScanRejects
    /\ subs' = subs \cup {TopicOf[v] : v \in UNION {Registers[s] : s \in dbScripts}}
    /\ terminate' = FALSE
    /\ loadedVer' = dbVer
    /\ UNCHANGED <<scriptVars, mapVars, handlerVars, valueVars, reloads, reqVer,
                   dbVars, waitHistory, now>>

\* execute_lua_script: a script that does not compile gets no thread.
Spawn ==
    /\ rpc = "spawn"
    /\ \E s \in store :
          /\ store' = store \ {s}
          /\ pc' = IF s \in LoadRejects THEN pc ELSE [pc EXCEPT ![s] = "lua"]
    /\ UNCHANGED <<wait, num, mapVars, handlerVars, valueVars, rpc, subs,
                   terminate, reloads, loadedVer, reqVer, dbVars, waitHistory,
                   now>>

SubscribeReload ==
    /\ rpc = "spawn"
    /\ store = {}
    /\ rpc' = "idle"
    /\ subs' = subs \cup {ReloadTopic}
    /\ UNCHANGED <<scriptVars, mapVars, handlerVars, valueVars, store,
                   terminate, reloads, loadedVer, reqVer, dbVars, waitHistory,
                   now>>

ReloadStep ==
    \/ Unsubscribe \/ SetTerminate \/ WakeVals \/ WakeTimes
    \/ Join \/ ClearVals \/ ClearTimes
    \/ Load \/ Spawn \/ SubscribeReload

-----------------------------------------------------------------------------
(* The script table is edited through the web application.                 *)

EditScripts ==
    /\ dbVer < MaxEdits
    /\ dbVer' = dbVer + 1
    /\ dbScripts' \in Tables
    /\ UNCHANGED <<scriptVars, mapVars, handlerVars, valueVars, reloadVars,
                   waitHistory, now>>

\* main has started the time thread and calls start_all.
StartOfMain ==
    /\ pc = [s \in Scripts |-> "none"]
    /\ wait = [s \in Scripts |-> NoWait]
    /\ num = [s \in Scripts |-> 0]
    /\ valMap = {}
    /\ timeMap = {}
    /\ terminate \in BOOLEAN     \* not initialized by the constructor
    /\ now = 0
    /\ hpc = "idle"
    /\ hTodo = {}
    /\ hVal = Null
    /\ hKind = "other"
    /\ dblVal = [v \in Values |-> 0]
    /\ boolVal = [v \in Values |-> 0]
    /\ rpc = "load"
    /\ store = {}
    /\ subs = {}
    /\ dbScripts \in SUBSET Scripts
    /\ hit = [s \in Scripts |-> {}]
    /\ missed = {}
    /\ told = [v \in Values |-> 0]
    /\ loadedVer = 0
    /\ reqVer = 0

Init == StartOfMain /\ msgs = 0 /\ reloads = 0 /\ dbVer = 0

Next ==
    \/ \E s \in Scripts : ScriptStep(s) \/ SpuriousWake(s)
    \/ ReceiveStatus \/ HandlerStep \/ Reload
    \/ Tick \/ TimeThread
    \/ ReloadStep
    \/ EditScripts

Spec == Init /\ [][Next]_vars

\* Every thread that can go on does: the operating system runs it, no mutex is
\* kept from it for ever, and a script's Lua code reaches its next wait or its
\* end.  Nothing is assumed of the clock, of the messages and of spurious
\* wake-ups.
Fairness ==
    /\ \A s \in Scripts : WF_vars(ScriptStep(s))
    /\ WF_vars(HandlerStep)
    /\ WF_vars(TimeThread)
    /\ WF_vars(ReloadStep)

FairSpec == Spec /\ Fairness

-----------------------------------------------------------------------------
(* Properties.                                                             *)

IsWait(w) ==
    /\ w.or \in BOOLEAN
    /\ IsArgs(w.val, Values)
    /\ IsArgs(w.due, Nat)
    /\ DOMAIN w.val \cap DOMAIN w.due = {}
Entry(Keys) ==
    [own : Scripts, arg : Positions, key : Keys, ptr : Scripts \cup {Null}]

\* Every variable has its type: in particular num counts up from 0 and an
\* element of a map points to a script or to nothing.
TypeOK ==
    /\ pc \in [Scripts -> PCs]
    /\ wait = [s \in Scripts |-> wait[s]]
    /\ \A s \in Scripts : IsWait(wait[s])
    /\ num \in [Scripts -> Nat]
    /\ valMap \subseteq Entry(Values)
    /\ timeMap \subseteq Entry(Nat)
    /\ terminate \in BOOLEAN
    /\ now \in 0..MaxTime
    /\ hpc \in {"idle", "store", "notify"}
    /\ hTodo \subseteq Values
    /\ hVal \in Values \cup {Null}
    /\ hKind \in Kinds
    /\ hpc = "notify" => hVal \in Values
    /\ dblVal \in [Values -> 0..MaxMsgs]
    /\ boolVal \in [Values -> 0..MaxMsgs]
    /\ rpc \in {"idle", "unsubscribe", "flag", "wakeVal", "wakeTime", "join",
                "clearVal", "clearTime", "load", "spawn"}
    /\ store \subseteq Scripts
    /\ subs \subseteq Topics \cup {ReloadTopic}
    /\ dbScripts \subseteq Scripts
    /\ hit \in [Scripts -> SUBSET Positions]
    /\ missed \subseteq Scripts
    /\ told \in [Values -> 0..MaxMsgs]
    /\ msgs \in 0..MaxMsgs
    /\ reloads \in 0..MaxReloads
    /\ dbVer \in 0..MaxEdits
    /\ loadedVer \in 0..MaxEdits
    /\ reqVer \in 0..MaxEdits

\* A non-null pointer in a map is the address of a sync_obj whose scope has
\* not ended: no waker ever touches the stack frame of a finished wait call.
NoDangling ==
    \A e \in valMap \cup timeMap : e.ptr # Null => pc[e.ptr] \in InScope

\* "map should be already clear unless something bad happend": when stop_all
\* comes to its emergency cleanup there is nothing left to clean.
MapsEmptyAtClear ==
    rpc \in {"clearVal", "clearTime"} => valMap = {} /\ timeMap = {}

\* No event of a registered argument is lost and none counts twice, although
\* other scripts wait for the same value, erase elements at the same key and
\* every element fires once: unless the scripts are being terminated, num is
\* the number of arguments whose event has happened.
EveryEventCounted ==
    \A s \in Scripts :
        pc[s] \in InScope /\ ~terminate => num[s] = Cardinality(hit[s])

\* The wait call of s has what it waits for (in history, not in num).
Fulfilled(s) == IF wait[s].or THEN hit[s] # {} ELSE hit[s] = Args(wait[s])

\* A wait call returns to its script only with what it waited for: wait_and
\* with the event of every argument, wait_or with that of one.  A call that
\* stop_all broke off never returns to the script, however late its thread
\* comes to leave it.
ReturnsOnlyFulfilled ==
    [][\A s \in Scripts :
          pc[s] = "leave" /\ pc'[s] = "lua" => Fulfilled(s)]_vars

\* A thread that is about to block, or has.
Asleep(s) == pc[s] \in {"sleep", "blocked"}

\* No thread sleeps on although its wait is fulfilled, unless a notification fell
\* between the evaluation of its predicate and its blocking: that gap is the only
\* way to lose one.
NoneSleepsInVain ==
    \A s \in Scripts :
        Asleep(s) /\ s \notin missed /\ ~terminate => ~Fulfilled(s)

\* "wake all the waiting LUA scripts": when stop_all comes to join the threads it
\* has woken each of them, though some elements of the maps are null already and
\* others are erased meanwhile; again unless it fell into that gap.
StopWakesAll == rpc = "join" => \A s \in Scripts : Asleep(s) => s \in missed

\* "notify threads about update AFTER values were already updated in value
\* map": once the scripts waiting for a value were notified of a message,
\* request_value returns this message's value or a later one.
NotifiedValueIsRead == \A v \in Values : ReqValue(v) >= told[v]

\* What it takes: no sensor publishes a value as a number at one time and as a
\* boolean at another.
KindsKept ==
    \A v \in Values : "boolean" \in KindsOf[v] => \A k \in KindsOf[v] : ~IsNumber(k)

\* Whenever no reload runs, the scripts are those of a table no older than it
\* was at any reload request received so far: the ones that parse_app_message
\* ignored because of "planned or running" reloads are served by these.  The
\* exception is a request that came after the running reload had read the table
\* and before it was over.
RequestedIsLoaded == rpc = "idle" => loadedVer >= reqVer

-----------------------------------------------------------------------------
(* The inductive invariant behind the safety properties.                   *)

\* Every element of a map was put there by a wait call that has not yet
\* deleted its own elements, under one of its arguments.
OwnersWait ==
    /\ \A e \in valMap :
          /\ pc[e.own] \in ValRegistered
          /\ e.arg \in DOMAIN wait[e.own].val
          /\ e.key = wait[e.own].val[e.arg]
          /\ e.ptr \in {e.own, Null}
    /\ \A e \in timeMap :
          /\ pc[e.own] \in TimeRegistered
          /\ e.arg \in DOMAIN wait[e.own].due
          /\ e.key = wait[e.own].due[e.arg]
          /\ e.ptr \in {e.own, Null}

\* While a wait call is registered, exactly those of its arguments have a live
\* element whose event has not happened.
Live(s, p, k) == [own |-> s, arg |-> p, key |-> k, ptr |-> s]
LiveUntilHit ==
    \A s \in Scripts :
        /\ pc[s] \in ValRegistered =>
              \A p \in DOMAIN wait[s].val :
                  p \in hit[s] <=> Live(s, p, wait[s].val[p]) \notin valMap
        /\ pc[s] \in TimeRegistered =>
              \A p \in DOMAIN wait[s].due :
                  p \in hit[s] <=> Live(s, p, wait[s].due[p]) \notin timeMap

\* Only registered arguments are hit.
HitsAreArgs ==
    \A s \in Scripts :
        /\ pc[s] \in InScope \cup {"leave"} => hit[s] \subseteq Args(wait[s])
        /\ pc[s] = "insVal" => hit[s] = {}
        /\ pc[s] = "insTime" => hit[s] \subseteq DOMAIN wait[s].val

\* A call that was not broken off passed its test because it was fulfilled.
PassedFulfilled ==
    \A s \in Scripts :
        pc[s] \in {"delVal", "delTime", "leave"} /\ ~terminate => Fulfilled(s)

\* The phases of a reload: the flag is up until every thread is joined, and no
\* thread is left when the flag is taken down.
ReloadPhases ==
    /\ rpc \in {"wakeVal", "wakeTime", "join"} => terminate
    /\ rpc \in {"clearVal", "clearTime", "load"} =>
          \A s \in Scripts : pc[s] = "none"
    /\ rpc = "spawn" => \A s \in store : pc[s] = "none"

\* Nothing stored is newer than the last message.  A boolean has no number that
\* hides it, and between storing and notifying the message's own value is read.
StoredFirst ==
    /\ \A v \in Values :
          /\ dblVal[v] <= msgs /\ boolVal[v] <= msgs /\ told[v] <= msgs
          /\ "boolean" \in KindsOf[v] => dblVal[v] = 0
    /\ hpc = "notify" /\ hKind # "other" => ReqValue(hVal) = msgs
    /\ NotifiedValueIsRead

\* Whoever sleeps had an unsatisfied predicate when it last looked, and num has not
\* changed since without a notification.
SleepersUnsatisfied ==
    \A s \in Scripts : Asleep(s) /\ s \notin missed => ~Satisfied(s)

\* stop_all counts too, so num may be ahead of the events.
HitsAreCounted == \A s \in Scripts : pc[s] \in InScope => num[s] >= Cardinality(hit[s])

\* After each of the two wake-ups those still asleep have no element left to be
\* woken by in that map.
WokenByStop ==
    \A s \in Scripts : Asleep(s) /\ s \notin missed =>
        /\ rpc \in {"wakeTime", "join"} => DOMAIN wait[s].val \subseteq hit[s]
        /\ rpc = "join" => DOMAIN wait[s].due \subseteq hit[s]

WakeInv ==
    /\ \A s \in Scripts : pc[s] \in InScope => Args(wait[s]) # {}
    /\ SleepersUnsatisfied
    /\ HitsAreCounted
    /\ WokenByStop

IInv ==
    /\ TypeOK
    /\ OwnersWait
    /\ LiveUntilHit
    /\ HitsAreArgs
    /\ EveryEventCounted
    /\ PassedFulfilled
    /\ ReloadPhases

-----------------------------------------------------------------------------
Overdue(s) == {p \in DOMAIN wait[s].due : wait[s].due[p] <= now}

\* The events have happened or are the time thread's to deliver.
CanReturn(s) ==
    /\ pc[s] \in InScope
    /\ IF wait[s].or THEN hit[s] \cup Overdue(s) # {}
                     ELSE hit[s] \cup Overdue(s) = Args(wait[s])

\* A wait call whose events have happened, or whose time points have passed,
\* comes to its end, unless a notification fell between the evaluation of its
\* predicate and its blocking.
WaitEndsUnlessMissed ==
    \A s \in Scripts : CanReturn(s) ~> pc[s] \notin InScope \/ s \in missed

\* An accepted reload request is carried out to the end, unless a script
\* missed its notification.
ReloadEndsUnlessMissed ==
    rpc = "unsubscribe" ~> rpc = "idle" \/ missed # {}

\* "wake all the waiting LUA scripts ... they will end": stop_all comes to an
\* end, whatever the scripts wait for.
StopEnds == rpc = "join" ~> rpc = "clearVal"

=============================================================================
