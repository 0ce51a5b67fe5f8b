# mq_system: specification, model checking and proofs

mq_system is a home automation system: daemons that exchange JSON messages over
an MQTT broker (mosquitto). This directory holds TLA+ modules for it, TLC
configurations that check them on small instances, and TLAPS proofs.

    tlc -config MCExeScripts_scripts.cfg MCExeScripts   one run of TLC
    tlapm ExeServiceProofs.tla                          proofs of one module

`PROJECT.json` lists the components, the runs, the lines every definition
translates, the hazards the properties are aimed at, and the theorems.

## 1. The system

Each daemon derives from `Daemon` (mq_lib). `status/...` topics carry
measurements (`{"name": value}` or `{"name": [value, "unit"]}`), `set/...`
topics carry commands, `app/exe/reload` asks exe_service to reload its scripts.

| component | state it keeps | operations | talks to |
|---|---|---|---|
| mq_lib (`mq_lib.cpp`) | MQTT session, pid file, `g_daemon` | daemonize, connect (10 attempts), `Subscribe`, `Unsubscribe`, `Publish`, callback dispatch, signal handler that runs the destructor | broker; every daemon's `CallBack` on the mosquitto thread |
| exe_service (`mq_exe_daemon.cpp`, `lua_module.cpp`) | waiting maps, last values, Lua globals, script threads, terminate flags, reload future | run Lua scripts; `wait_and`/`wait_or`, `request_value`, `write_value`, globals; reload | broker; SQLite table `script`; system clock |
| db_sqlite (`db_sqlite3_daemon.cpp`) | per-value interval, average, precision, last value; name caches | store received values at their intervals | broker; SQLite database |
| zwave_service (`mq_zwave_daemon.cpp`) | sensor and value lists, two maps, refresh times | publish notified values, set values, refresh and heal cycle | OpenZWave threads; broker |
| dht_service (`mq_dht_daemon.cpp`) | per-sensor refresh time | polling, up to 3 measures x 40 attempts, bit decoding | GPIO; broker |
| onewire_service (`mq_onewire_daemon.cpp`) | device list with `_found` flags | bus scan, device list maintenance, polling | 1-Wire master; broker |
| unipi_service (two builds) | relay latch, ADC, reading thread | set relays (read-modify-write), report analog inputs | I2C/GPIO; broker |
| gpio, i2c wrappers | line handles | request, read, write, events | kernel character devices |
| webapp (PHP) | - | edits the `script` table, sends `set` and `reload` messages | broker, databases |

The command line tools keep no state that others see, and the web application
acts on the daemons through inputs the models already have. Section 11 says what
is not modelled and why.

What is hard, and the property that makes each part correct:

- exe_service: script threads, mosquitto thread, time thread and reload task
  share two multimaps of pointers to stack objects. No pointer may outlive its
  object, no event may be lost or counted twice, a wait must return exactly
  when it is satisfied, and a stop must end every script. On shutdown the
  destructor repeats the stop while a reload may be running.
- exe_service, time strings: a time string must end at the time it names, from
  any date and time of day.
- mq_lib: a second process must not work beside the first; the destructor runs
  in a signal handler, wherever the main thread is, while messages still come.
- db_sqlite: a value must be stored once per interval whatever its neighbours'
  intervals; averages must cover exactly the samples since the last store.
- zwave_service: notifications arrive during initialization; the refresh limit
  and the 24 hour cycle must be kept.
- onewire_service: the search must find every device although it keeps one
  identifier and a number between its passes; the device list is edited while
  it is iterated; readings take time while other devices become due.
- unipi_service: a message must change the outputs it names only; the reading
  thread must report in time and end promptly.
- dht_service: every sensor must be read at its interval although one read may
  take minutes, and only measures within the bounds may be averaged.

The complete list of hazards, with lines, is in `PROJECT.json`.

## 2. Modules

| module | models | status |
|---|---|---|
| `ExeService` | the four kinds of threads of exe_service and the maps they share | done |
| `MCExeService`, `MCExeScripts` | constants of `ExeService` for TLC, and two bounded instances of it for one run | done |
| `ExeServiceProofs` | the inductive invariant of `ExeService`, its properties, and that it implements `ScriptEngine` | done |
| `ScriptEngine` | abstract: what the author of a script may rely on, without maps, pointers, counters and condition variables | done |
| `ExeServiceRefines`, `MCExeServiceRefines` | the mapping from `ExeService` to `ScriptEngine` | done |
| `DbService`, `MCDbService` | db_sqlite: interval gate, averaging, precision, name cache, restart | done |
| `DbServiceProofs` | the inductive invariants of `DbService`, that `gcd` and the average are what they should be, and its five properties | done |
| `ZWaveService`, `MCZWaveService` | zwave_service: start, main loop, notifications, set messages, destructor | done |
| `ZWaveServiceProofs` | the inductive invariant of `ZWaveService` and its properties | done |
| `TimeString` | `parse_time_string` and `parse_month` of exe_service, and a script that waits for such a string for ever | done |
| `TimeStringProofs` | the arithmetic of borrows and the calendar, and the two properties for every time and request | done |
| `RomSearch` | the search of a 1-Wire bus, bit by bit, with devices that come and go | done |
| `OneWireService` | onewire_service: extends `RomSearch` by the device list and the polling loop | done |
| `OneWireServiceProofs` | that the search is complete, and what the list and the polling loop make of it | done |
| `UnipiService`, `UnipiServiceProofs` | unipi_service: reading thread, destructor, outputs, restarts | done |
| `DhtService`, `DhtServiceProofs` | dht_service: schedule, attempts, average | done |
| `DaemonLife` | what `Daemon` of mq_lib lays down for every daemon: pid file, signals, connection, destruction | done |
| `ExeLife`, `ExeLifeProofs` | exe_service on top of `DaemonLife`: start, reload and destructor against each other | done |
| `MCDaemons` | the parts from `TimeString` to `ExeLife` for one run of TLC | done |

`ExeService` and `ExeLife` look at the same program at two grains: the first has
every critical section of a reload and no destructor, the second has the
processes, the threads and the list of threads, and a script that is up or has
ended.

## 3. ExeService

**State.** `pc`, `wait`, `num` are the script threads: the place in
`Exe_Service::wait`, the arguments of the call and `sync_obj.num`. `valMap` and
`timeMap` are `_value_wait_map` and `_time_wait_map`; one record per element,
`own` and `arg` identify the element, `key` and `ptr` are what the code stores
(`ptr = Null` is `nullptr`). `terminate` is `_terminate_lua_threads`. `hpc`,
`hTodo`, `hVal`, `hKind` are the mosquitto thread inside
`parse_status_message`. `dblVal` and `boolVal` are the two maps of last values;
a value is represented by the number of the message that carried it. `rpc`,
`store`, `subs` are the task that runs `stop_all` and `start_all`, its list of
scripts and the subscriptions at the broker. `dbScripts` is the script table,
edited by the web application. `hit`, `missed`, `told` and the counters are
history: no guard of the program reads them (the counters bound the inputs).

**Actions and atomicity.** One action per critical section. Code that runs
without a mutex and touches only the thread's own data is merged into the next
action. What is deliberately *not* merged is the wait itself: the predicate is
evaluated (`Test`) and the thread blocks (`Block`) under a mutex that is local
to the call, so notifications may come between. `++num` and `notify_all` of one
element are merged with the rest of their critical section: a script that sees
`num` raised before the notification behaves as if it had tested after it, one
that tested before it and blocks before the notification as if it had blocked
before both, and one that misses it is the case kept. `TimeThread` is one round
of the 500 ms loop. Fetching rows, scanning them and subscribing (`Load`)
happens while no script thread exists and is one action. The broker removes
exactly the filter named in an unsubscription.

`_terminate_lua_threads` is not initialized by the constructor; `Init` allows
both values (`Load` sets it before any thread reads it).

**Abstracted.** What a script does between waits; the content of messages
beyond which values they carry and with which JSON type; time strings, which
become a delay; logging; SQLite errors. A script that loops for ever without
waiting is outside the fairness assumption below. Value names that no script
registers are left out of messages, since they meet no element of the maps.

### Runs

All runs use two values of one sensor, so that one message may carry both, and
up to two running scripts. Two scripts are what sharing needs: one that leaves
and one that still waits at the same key; a third would only repeat either
part. A wait has at most two arguments, which distinguishes `wait_and` from
`wait_or` and covers value/value, value/time and time/time.

| run | bounds | shows |
|---|---|---|
| `scripts` | either 2 messages for one script or 1 for two, with all JSON types a value may keep, 2 points of time, no reload; or 2 reload requests, 1 edit, 2 points of time and no message, one script that fails to compile, one rejected by the scan | `NotifiedValueIsRead`, `RequestedIsLoaded`, `WaitEndsUnlessMissed`, `ReloadEndsUnlessMissed` |
| `engine` | 1 message, 2 points of time, 1 reload at any moment | `NoDangling`, `EveryEventCounted`, `StopWakesAll`, `ReturnsOnlyFulfilled`, `EngineSpec` |
| `typechange` | a value that is a number, then a boolean | violated: `NotifiedValueIsRead` |
| `stopends` | one script, one reload | violated: `StopEnds` |

One message that carries both values hits both arguments of a wait and the elements
of both scripts; two let an element be met again by the same script, in either
order. With two points of time a delay passes during the registration or while the
script waits. One reload meets every point of a wait. Of two requests the second is
ignored in every phase of the first reload, or carried out after it, and the edit
comes before, between or after them. In `MCExeScripts` a behaviour begins with the
number of messages, or of requests and edits, at its bound and so has only the other: what the two do to each other is what `engine` is for. The
bounds stop the inputs, so the system may stop: deadlock is not checked.

### Properties

- `NoDangling`: a pointer in a map points to a `sync_obj` in scope.
- `EveryEventCounted`: `num` equals the number of arguments whose event
  happened, where "happened" (`hit`) is computed from the wait's arguments and
  never from the maps. An element erased by another script, fired twice or left
  unfired breaks it.
- `ReturnsOnlyFulfilled`: only a wait that has what it asked for goes back to
  its script, in particular not one that `stop_all` woke.
- `MapsEmptyAtClear`: the comment in `stop_all`, "map should be already clear"
  (proved, see section 10).
- `StopWakesAll`: when `stop_all` comes to join the threads ("wake all the waiting
  LUA scripts"), whoever is still about to block or blocked has missed a
  notification between `Test` and `Block`. The wake-ups are two passes over maps
  in which elements are nulled by the other wakers and erased by leaving scripts.
- `NoneSleepsInVain`: the same gap is the only way in which a wait with all it asked
  for stays asleep (proved, see section 10).
- `NotifiedValueIsRead`: values are stored before the notification; holds while
  a value keeps its JSON type. (A value of a type that is neither number nor boolean
  is stored nowhere, and its scripts are notified all the same: `told` is not about
  it.)
- `RequestedIsLoaded`: whenever no reload runs, the scripts are those of a table no
  older than at any request so far. It is why `parse_app_message` may ignore a
  request while a reload is "planned or running": one that comes before the table is
  read is served by it. One that comes after that and before the reload is over is
  lost, with the edit that it is about; the history `reqVer` leaves out these and no
  others. No comment promises them.
- `WaitEndsUnlessMissed`, `ReloadEndsUnlessMissed`: liveness, with the exact
  exception the code has: a notification between `Test` and `Block`.

### Fairness

Weak fairness of every script thread, the mosquitto thread inside a message,
the time thread and the reload task: they are operating system threads, they
hold each mutex for a bounded loop, and every one of their steps stays enabled
until it is taken. Spurious wake-ups, the clock, messages, reload requests and
edits are not fair. For a script it includes that its Lua code reaches the next
wait or ends; the daemon can only stop scripts that do.

### Disagreements between code and comments

1. `req_value` prefers the map of numbers, and a number is never removed from
   it. After a value changes its JSON type to boolean, a script that is notified
   reads the old number (`typechange`).
2. The condition variable is used with a local mutex, so the wake-ups of
   `stop_all` may be missed, and `join` never returns (`stopends`). Every later
   reload request is then ignored. The same gap may delay any wait.

A remark on a third: `Unsubscribe("#")` removes nothing, for the subscriptions
were made with other filters, so the comment "stop reacting to any MQTT message
(I hope this works..)" does not come true. `MapsEmptyAtClear` and
`ReturnsOnlyFulfilled` hold nevertheless; for the destructor it matters, see
`ExeLife`.

### ScriptEngine

`ScriptEngine` is the promise to the author of a script: a wait call listens to
its arguments (`Listen`), an event is seen by everyone who listens to it at the
same moment and once (`ValueEvent`, `TimeEvent`), a call returns only with what
it asked for (`Return`), a reload breaks calls off (`BreakOff`), waits until no
script lives (`Reap`) and starts each chosen script at most once (`Start`).
`ExeServiceRefines` maps the threads to it. The decisive part is `LiveArgs`:
what a script listens to is read off the multimaps, as the elements that still
point to its `sync_obj`; so erasing or losing one of another script's elements
is a step the engine does not have. The flag and the phases of the reload task
become one phase; `num`, the null elements and the condition variable are
hidden. Safety only: the engine has no fairness, because the code's own waits
may miss a wake-up (finding 2). Run `engine` checks it on the constants of
`MCExeService`; the proof rests on `RInv`, which adds to `IInv` when the flag is up
and when scripts are listed.

## 4. DbService

**State.** `gate` is `SensorData.interval`, `loaded` how far the configuration
has been read; `sLast`, `vLast` are the two `last_update`s, `lastVal` is
`last_val` (`NaN` if there is none), `events` is `ValEvents`: a set, for the
time marks of a value's samples differ. `known` are the names whose ids are
cached. `sensor`, `msg` are the message in hand. `row` is the newest row of
`valreal` per value, with its timestamp in seconds; it survives a restart.
The rest is history: `refused` (values whose last row SQLite did not take, or
did not give back), `heard` (when numbers arrived since the last one stored),
`cut` (values that lost a number to a failure of SQLite), `looked`, `passed`,
`absent` (when a value was last looked at or passed over, and whether a message
lacked it).

**Actions.** `LoadValue` reads one value of the configuration (the common
interval depends on the order), `Restore` reads the last rows back and
subscribes. `Receive` is `CallBack` up to its loop: `Ignore` (within the
sensor's interval), `GiveUp` (no id for the sensor), `Accept`. Then each value
of the message is one action, in any order (the order of a JSON object is the
sender's): `Skip`, `GiveUpRest` (no id: `return` in the middle of the loop),
`Sample`, `KeepSample` (within the precision), `StoreNumber`, `StoreBoolean`,
`Unexpected`. One thread executes them; they are separate because each row is
committed on its own and `Restart` (a signal, a crash) may come between them.
`now` is read once per message, as in the code.

**Abstracted.** Numbers are integers and an average is rounded down (the code's
are doubles). `AreaTill` is the loop over the samples as a function of the time of
the last sample added; it is multiplied by 2 and divided by the whole time at the
end. `gcd` is a function of the second argument whose values are functions of the
first, for the recursion goes down with the second. Time is counted in units of which `Second` make a second, from the
start of the machine like the steady clock; wall clock and steady clock advance
together. The ids of a value's name and of its unit are one id. Rows of booleans
are never read back and are not kept. A message that is not a JSON object acts
like one with none of the values; what the tokener keeps from it is left out. A
failure to open the database ends the daemon and is no
behaviour.

| run | bounds | shows |
|---|---|---|
| `stored` | either sensor `s`: an averaged value (interval 2, precision 2) configured before one with interval 3 and precision 3; two units per second, 5 units of time, messages at most 2 apart, 1 failure, 1 restart (one unit less with either); or sensor `z`: intervals 4 and 6, gate 2; 10 units of time, messages at most 3 apart, 1 failure | `EverySampleAveraged`, `LastIsInDatabase`, `LookedAtWhenDue`, `AverageInRange`, `RowsApart` |

A behaviour has the messages of one sensor: sensors share only the cache of names. Two values with
and without averaging, or with uneven intervals, are what the common interval
and the gate of the sensor need. Time suffices for a window of the average with
three samples, for the gate to pass a value over several times before it is
due (its limit is 6 or 8 units), and for two rows within and across seconds.
The clock stops at its bound, so deadlock is not checked.

- `EverySampleAveraged`: between messages the samples of an average are all
  numbers heard since the first of them ("we need to read all messages to get
  the average"). The exception is a message given up after a failure of SQLite.
- `AverageInRange`: a stored average lies within its samples.
- `LookedAtWhenDue`: a value carried by every message of its sensor is looked at
  within its interval and the sensor's. The code promises no more: a value that
  only some messages carry may be passed over for ever, since each row of another
  value starts the sensor's interval again.
- `LastIsInDatabase`: a number is compared with the newest row, not with one
  that was skipped. The exception is a row that SQLite refused, as it does with
  a second row in one second: the daemon goes on as if it were stored.
- `RowsApart`: successive rows differ by the precision, also across a restart.

## 5. ZWaveService

**State.** `phase` is where the main thread is: waiting for the driver (`home`)
and for the nodes (`poll`), building the maps (`setup`), in the main loop
(`pass`, `sleep`), or in the destructor. `waiting` is `status_map` by values,
`listed` what is left of `_sensors`, `todo` the rest of the list in a loop over
it. `read`, `write`, `labelled`, `lastRefresh` are the fields of `ValueData`;
`idMap` and `nameMap` are the two maps, `initialized` the flag between them and
the thread of OpenZWave. `passAt`, `next`, `wakeAt` are `now` and `next_refresh`
of one pass and the end of its sleep, `healAt` is `_last_refresh`. `cb` is the
message that the mosquitto thread handles. External is `informed`: the nodes
that have answered. The rest is history: `lastPub`, `lastForced`, `asked`
(values asked for and not reported since), `skipped` (values of failed nodes),
`written`.

**Actions.** `CheckNode` is one entry of `status_map`: `Identified`, or
`Removed` with all values of the node once it has kept silent for `InfoWait`.
`Setup` is one value: `SetupInvalid` is the exception that the network throws
for a value it does not have. Each value of a pass is one action: `NodeFailed`,
`ForceRefresh`, `NotYetDue`; notifications come between them, and may be later
than `passAt`. `Notify` is the part of `on_notification` behind its early
returns, which change nothing. `CallBack` takes a message, `SetValue` handles
one of its labels, and both run from the first subscription until `~Daemon`
stops the thread. `Terminate`, `Destroy`, `Disconnect` are the destructor, which
runs on the main thread (signal handler or return from `main`). Its
`Unsubscribe("#")` drops no subscription: messages go on.

**Abstracted.** JSON types and the overloads of `SetValue` (a set that the
library rejects, or an empty array, changes nothing); the empty label; values
that `ozw_value_to_json_object` does not handle are a set, for they count as
reported and are not published. Sensors left without values are those with no
listed value. Lists are examined in any order. Time is integer; `lastRefresh`
starts at 0 as in the code, the start of the machine's clock.

| run | bounds | shows |
|---|---|---|
| `prepare` | two nodes with two values each, one value write only, one read only, one unknown; wait of 2, 5 units of time, 2 messages | `OnlyKnownNodes`, `OnlyWritableSensorsSet`, `ReportedWhenReady`, `PreparationEnds` |
| `refresh` | two values: limit 3 with refresh 1, and no limit with refresh 4; sleep 1 to 5, 8 units of time | `ForcedReportPasses`, `NotSleptPast`, `ReportsApart`, `AnsweredRequestsApart` |
| `heal` | a day of 4, 12 units of time | violated: `HealedDaily` |

Two nodes that share both sensors are what the removal needs: a sensor loses one
value and keeps the other, and entries of a removed node are still waited for.
Two values suffice for the smallest sleep and for a pass caused by the other
value; eight units of time give each several requests, answers in time, late
ones and none. The clock stops, so deadlock is not checked.

- `OnlyKnownNodes`: after the wait the lists and maps hold values of nodes that
  have answered, whenever the answers came.
- `OnlyWritableSensorsSet`: a message sets values of a sensor only if one of its
  values is left that may be written. It may then set any labelled value of the
  sensor, whatever its own flag says; the configuration's "write sensor" does not
  promise more.
- `PreparationEnds`: a silent node does not keep the daemon from starting.
- `ReportedWhenReady`: the maps are read when they are complete.
- `ReportsApart`, `ForcedReportPasses`: `refresh_limit` keeps reports apart and
  never holds back the answer to a request; the second is why the configuration
  raises `refresh` to `refresh_limit`.
- `NotSleptPast`: the loop wakes up for the first value that is due, or after
  its shortest sleep.
- `AnsweredRequestsApart`: a value that answers is asked for once per `refresh`.

**Fairness.** Weak fairness of the main thread, a loop of sleeps and calls that
return, and of the clock. Answers of nodes, notifications, messages and
termination are not fair. `PreparationEnds` needs both and nothing of the nodes.

Disagreements between code and comments, continued:

3. `_last_refresh - now` is never positive: the network is never healed
   (`heal`).

A remark without a run: the time of a request is not kept. A value that does not
answer is asked for in every pass, also in those that other values cause, and
not once per `refresh`; `AnsweredRequestsApart` is what does hold.

## 6. TimeString

**State.** `tm` is the local time when the script calls `wait`, `request` what
was read from the string `EVERY ...`, `delay` the seconds to the time point that
`parse_time_string` computed. The fields are those of `struct tm`; an absent
field is -1 (0 for `MONTHDAY`), as in the code.

**Actions.** `WaitEvery` parses the string and waits; `WakeAndLoop` lets the time
pass and comes back, a little late. The calendar that passes (`TimeAfter`) is
written independently of the one that parses (`OnDay`, `AtSecond`: the fields of
`struct tm` that change; a script comes back a day late at most, the bound of
`Lateness`, since `TimeAfter` follows the calendar over two ends of a month):
`parse_month`, `month_days` and the
four borrows follow the code line by line, rounding towards zero included.

**Abstracted.** The regular expressions, `NOW+` strings (a sum of durations),
days of 23 or 25 hours ("does not take into account daylight savings change").

The properties compare the result with the next time of day that matches
(`NextMatch`, modular arithmetic without borrows):

- `LateByOneUnit`: a request without a day whose minute and second are below 60
  (the code accepts any number) is served when it should be, or one unit late: one minute if it names but a second, one hour if it names a minute
  but no hour. A request that names the hour is in time, unless a borrow is lost;
  then it is an hour late, or, near midnight, 23 hours early.
- `LandsOnDay`: a request with a day, and with an hour below 24, ends on that day
  and hour, unless the hour
  has to borrow from the day (the day is then asked for one *later*), a borrow is
  lost, or the day is computed from the length of the wrong month (`DayLost`).

A borrow is lost (`BorrowLost`) if the next larger field is absent, so that 59 or
23 stands in for -1 and does not itself borrow, or if the difference is exactly a
whole unit. No comment or document says what a time string ends at to the minute;
"~ one second accuracy" (`lua_module.cpp:361`) is about the milliseconds added
there. The deviations are therefore described by the properties and not listed
as a disagreement.

## 7. The 1-Wire bus

`RomSearch` is the search. **State**: `bus`, the devices attached; `search`, what
`SearchRomState` keeps between passes (an identifier, `lastDiscrepancy`,
`lastDevice`); `next`, `bit`, `active`, the pass in progress. **Actions**:
`StartPass`, one `Triplet` per bit (two reads, of which a 0 of any device wins,
and a write that silences the others), `EndPass`, `SearchError` (no device, a
short, a failure of the I2C master: at any time), and from outside `Attach` and
`Detach` at any bit. The checksum of an identifier is taken to be valid.

`OneWireService` extends it by the program: `ProcessRomDevice` for each
identifier that a pass reports, the removal loop, the polling loop. A read past
the end of the list is undefined behaviour; in the removal loop `_devices.end()`
is incremented and the loop walks on, which is the phase `crashed`. Time is
counted in halves of a second, because the loop sleeps only if more than half a
second is left.

- `SearchFindsAll`: a search without an error found every device that was there
  all the time, also if others were plugged in meanwhile. It needs that nothing
  was pulled out: the search may then follow the bits of a device that is gone.
- `FoundOnce`, under the same condition.
- `SearchEnds`: the passes end once the bus is left alone, whatever was plugged in
  or pulled out in the middle of a pass. It needs no fairness, since every
  behaviour stops. It does need that the changes do (`MaxChanges`): without devices
  pulled out each identifier comes after the one before (`BetweenPasses`), but a
  search that finds nobody where it went before falls back to an earlier
  identifier, and devices that come and go at every pass lead it in circles.
- `AttachedIsListed`: a supported device of the configuration that is attached is
  polled, although `ProcessRomDevice` goes on with the iterator after an erasure.
- `OneMissingIsRemoved`: one missing device is removed and no other, and the daemon
  goes on, if it is not the last of the list. (It is said of a configuration of
  supported devices that names none twice: of two entries with one name the second
  is never marked.)
- `MissingAreRemoved` is the same of any number of missing devices, wherever they
  are, and of the end of the daemon if all are. The code does not do that: run
  `missing`.
- `ReadingsApart`, `ReadInTime`: the readings of a device that the configuration
  names once are its interval apart (two entries of the list have a time each),
  and no device waits longer than its interval, one reading for each device of the
  list, and one delay: what a sleep took too long, or the half second of a turn
  without one.

## 8. UnipiService and DhtService

`UnipiService` has three threads. The **reading thread** (`reader`, `channel`,
`left`, `age`, `duration`) looks at its flag, reads both channels with up to
`MaxTries` tries each, reports, and sleeps for the rest of the interval on a
condition variable. The **destructor** (`ender`) lowers the flag, notifies, joins.
The **mosquitto thread** takes a message apart, one output after the other
(`message`), and is not stopped by the destructor. `latch` is the board, which
survives a restart, `mirror` the copy in `MCP23008::_state`, `asked` history. A
unit of time is 250 ms, a try. An exception on any of these threads ends the
process (`up`), as it does in the code, where nobody catches it; `Restart` is
another start on the same board.

- `JoinBounded`: the destructor does not wait for a thread that waits when it is
  notified. The notification is not protected by the mutex, so it is lost on a thread
  that reads or reports, or has looked at the flag and does not wait yet (`towait`);
  the destructor then waits for a whole report interval or reading, and not longer.
- `JoinInTenSeconds`: the comment at the join, "this may take up to 10 secs". With a
  report interval of two minutes, the default, a lost notification breaks it: run
  `join`.
- `UnipiEnds`: and it does return, or the process has ended before.
- `ReportInTime`: the inputs are read when the interval is over.
- `OutputsAsAsked`: a relay is what the last message that named it said, and what it
  was found as at first if none did. A message that sets one relay writes all of them
  from the mirror; it must leave the others alone, also after a failed write (the
  relay may be set or not), a failed reading back, which leaves the mirror wrong and
  ends the process, and a new start. `asked`, the history, changes with a write that
  reaches the board and with nothing that happens to the process, except that
  the analog output is off from each start on, as its constructor has it.

`DhtService` is one thread: sensors in turn, three measures each, up to
`Attempts` attempts a second apart, answers out of bounds included, then the
average, then a sleep until the least `next_wake`.

- `AverageInBounds`: an answer out of bounds is left in the array
  (`mq_dht_daemon.cpp:191`); flags and divisor keep it out of what is published.
- `SensorInTime`: a sensor waits no longer than its interval, one reading of each
  sensor and one delay (`Late`: what a sleep took too long, or the unit that
  passes in a cycle without one), although whole seconds are cut off
  and a sensor just read counts from the end of its reading.

## 9. DaemonLife and ExeLife

`DaemonLife` is what `Daemon` prescribes for each daemon, for several processes
of one daemon that share the pid file. `stage` is where a process is: `forked`,
`named` (pid file made), `handled` (signal handlers installed, connecting),
`working`, `destroying` (the derived destructor), `stuck`, `unlinking`,
`leaving`. A constructor that throws leaves the file behind; so does `Kill`.
`Terminate` is SIGTERM at each stage: before the handler is installed it kills,
before the object is complete only `~Daemon` runs. `TerminateInLog` is the handler
that finds the log's mutex locked by its own thread: the process stays `stuck`
until it is killed. `Reboot` empties `/var/run`.

`ExeLife` extends it by exe_service: the main thread that starts the time thread
and the scripts, the reload task, `~Exe_Service`, and the end of its members, of
which the future comes first and waits for the task. `Unsubscribe("#")` in
`stop_all` ends no other subscription, so a reload may begin at any moment of the
destructor. What a thread may not survive is `Fatal`: a join that throws in the
destructor (joined before, or the time thread never started), a `std::thread`
destroyed while joinable, the task meeting the destructor in the list of threads
or in the finalized statements.

- `ScriptsOfOne`: scripts run only in the process whose pid file it is, to the
  last: a second process starts none while one of the first may run.
- `DiesOnlyIf`: the destructor dies only if the time thread had not been started
  yet, or if a reload ran at the same time. Both do happen: they are the
  hazards of `mq_exe_daemon.cpp:304` and `mq_lib.cpp:47`, and the property
  excludes every other way.
- `TermEnds`: a daemon told to end while its main thread sleeps does end, unless the
  destructor comes to join a script that has missed its wake-up (finding 2, which
  `stop_all` brings into the destructor), or a reload overlaps. `missed` is that
  exception: when the flag is raised any of the scripts that are up may miss it.
  With a reload the destructor may wait for ever for another reason: `start_all`
  takes the flag down again and starts scripts that nobody tells to end.

### Runs

The parts of sections 6 to 9 share nothing but the broker, and none of them
reacts to a message of another, so a product would multiply the states and add
no behaviour. `MCDaemons` is one run of them: each behaviour picks a part
(`which`) and moves that one.

| part | bounds |
|---|---|
| time strings | 6 dates around the ends of months, of the year and of February, leap and not; hours 0, 5, 23, minutes and seconds 0 and 59; 160 requests; 2 waits, each 1 second late |
| 1-Wire | identifiers of 3 bits, 4 devices, of which one is of another family; 4 configurations; one device plugged in or pulled out at any bit; intervals 4, 6, 9; readings of 0 or 2 units; the clock starts at 0 or at 20 and ends at 30 |
| unipi | interval 6, 3 tries, 2 relays and the analog output, 2 messages of two outputs, in and out of range; 1 restart |
| dht | 2 sensors with intervals 2 and 22 seconds, 2 attempts, answers on and beyond a bound, oversleep 0 or 1; uptime 0 or 44 |
| life | 2 processes, 2 starts, 2 scripts, 2 connection attempts |

Three bits let devices part at the first, second and last place, with two nested
branches; a device more or less at any bit meets both sides of each. An interval
of 6 is longer than a reading of both channels with 3 tries (at most 4 units),
so the thread reads and sleeps. Two sensors whose readings take longer than one
interval and less than the other meet each other's sleep. Two processes and two
starts give a second process beside the first and after its crash.

| run | part | shows |
|---|---|---|
| `parts` | time strings | `LateByOneUnit`, `LandsOnDay` |
| | 1-Wire | `SearchFindsAll`, `FoundOnce`, `SearchEnds`, `AttachedIsListed`, `OneMissingIsRemoved`, `ReadInTime`, `ReadingsApart` |
| | unipi | `JoinBounded`, `ReportInTime`, `OutputsAsAsked`, `UnipiEnds` |
| | dht | `AverageInBounds`, `SensorInTime` |
| | life | `ScriptsOfOne`, `DiesOnlyIf`, `TermEnds` |
| `join` | unipi, interval of 120 s, 5 tries | violated: `JoinInTenSeconds` |
| `missing` | 1-Wire | violated: `MissingAreRemoved` |
| `sign` | unipi, codes at the edges of 16, 17 and 18 bits | violated: `SignIsOneBit` |

The bounds on waits, messages, changes, starts and clocks stop each part, so
deadlock is not checked.

**Fairness.** unipi: the reading thread and the destructor go on and time passes
(an operating system thread, a timed wait, calls that return). life: the
destructors go on, the time thread looks at its flag twice a second, and a script
that was told to end does so: it was woken, or reads the flag in its next call. Of a
script in `missed` nothing is assumed. `stopends` shows how one comes to be there.
Nothing is assumed of messages, signals, answers of the
converter or sensors, or of devices.

Disagreements between code and comments, continued:

4. "sign bit" (`mq_unipi_daemon_pi.cpp:291`, and `mq_unipi_daemon.cpp:234`): the
   test is of bits 16 and 17, and the sign is bit 17. A code from 65536 on, the
   upper half of the converter's positive range (1.024 V at the converter, some
   5.7 V at the input), is reported as a negative voltage (`sign`).
5. "this should wake sleeping thread", "this may take up to 10 secs", "able to wake
   the thread up anytime in case of deamon termination request"
   (`mq_unipi_daemon_pi.cpp:498`, `:499`, `:426`): a notification before the wait
   begins is lost, and the join lasts a whole report interval (`join`).
6. "removing it from list", "No device in devices list - terminating daemon"
   (`mq_onewire_daemon.cpp:209`, `:214`): the loop goes on from what `erase` returns,
   and so passes over the second of two missing devices, and past the end when the
   last one is missing, which is undefined behaviour (`missing`).

## 10. Proofs

`ExeServiceProofs` proves for all scripts, values, wait calls, argument
positions and bounds:

| theorem | statement |
|---|---|
| `TypeCorrect` | `Spec => []TypeOK` |
| `ProtocolHolds` | `Spec => []IInv` |
| `PointersAreAlive` | `Spec => []NoDangling` |
| `CleanupFindsNothing` | `Spec => []MapsEmptyAtClear` |
| `EventsAreCounted` | `Spec => []EveryEventCounted` |
| `WaitsReturnFulfilled` | `Spec => ReturnsOnlyFulfilled` |
| `ReloadsAreFresh` | `Spec => []RequestedIsLoaded` |
| `NotifiedValuesAreRead` | `KindsKept` implies `Spec => []NotifiedValueIsRead` |
| `WakeHolds` | `Spec => [](IInv /\ WakeInv)` |
| `NobodySleepsInVain` | `Spec => []NoneSleepsInVain` |
| `StopWakesEverybody` | `Spec => []StopWakesAll` |

They rest on the named assumptions of `ExeService` only: argument positions are
finitely many, `Null` is no script, waits and registrations are well formed,
the bounds are naturals.

`NoDangling` alone is not inductive: it does not say who put an element there.
`IInv` adds

- `OwnersWait`: an element belongs to a wait call that is between its insertion
  and its deletion, and its key is that argument's key;
- `LiveUntilHit`: a registered argument has a live element if and only if its
  event has not happened. This makes the number of elements a waker fires the
  number of newly hit arguments (`FiredVals`, `FiredTimes`), so that
  `EveryEventCounted` follows by counting disjoint unions (`CountUnion`), and it
  survives another script's erasure, which spares live elements;
- `HitsAreArgs`: hits are arguments, so `num >= size` means that all were hit
  (`CountAll`);
- `PassedFulfilled`: a call past its test without the flag is fulfilled;
- `ReloadPhases`: the flag is up from the wake-ups to the join, and no thread is
  left from the join to the new start. `MapsEmptyAtClear` is `OwnersWait` with
  no owner left.

`ReloadsAreFresh` rests on `Loaded`: no request is newer than the table, and once the
table has been read what is loaded is as new as every request that is counted; until
then a reload is on its way to read it.

`NotifiedValuesAreRead` has a hypothesis on the constants, `KindsKept`: no value is
sometimes a number and sometimes a boolean. It is what run `scripts` has and run
`typechange` has not, where TLC finds the property violated. `StoredFirst` says
of the message in hand that its value is stored, in the only map of its kind,
before a waker may claim its number.

`NobodySleepsInVain` and `StopWakesEverybody` are the safety core of the liveness
properties `WaitEndsUnlessMissed` and `ReloadEndsUnlessMissed`: what keeps a thread
asleep, as opposed to whether a thread that can go on does. They rest on `WakeInv`:

- `SleepersUnsatisfied`: the predicate of a sleeper was false when it last looked.
  Every change of `num` comes with a notification, which moves the thread or puts
  it into `missed`, so the predicate is still false;
- `HitsAreCounted`: `num` is at least the number of hits. `EveryEventCounted`, the
  equation, is lost once `stop_all` counts too; the inequality is kept;
- `WokenByStop`: a sleeper that a pass of `stop_all` did not find has no live
  element in that map, and by `LiveUntilHit` all its arguments there are hit. No
  new sleep begins, for the flag is up and `Test` reads it.

After both passes such a sleeper would have every argument hit, hence a true
predicate (`EnoughIsSatisfied`), for a wait has at least one argument: there is
none. `WakeNotify` treats the four wakers alike: each adds to `num` what it fires
and hits no more than that.

Each part of `IInv` is shown to be kept by every action; `stop_all`'s wakers count
elements whose event has not happened, which is why counting is claimed only
while the flag is down and `ReturnsOnlyFulfilled` needs the flag to outlive
every thread.

### Refinement

The module extends `ExeServiceRefines` and also proves `PhasesHold == Spec => []RInv` and
`EngineImplemented == Spec => EngineSpec` on the same assumptions. Initial states map to initial states; under `RInv` each action
maps to one action of `ScriptEngine` or to a stutter: registration is `Listen`,
an erasure is `Close` or a stutter, one critical section of a waking thread is
one `ValueEvent` or `TimeEvent` (here `LiveUntilHit` is needed, to know that
the elements fired are the arguments newly hit), the wake-ups of `stop_all`
only close (their owners' calls are being broken off), and the join is `Reap`.

### DbService

`DbServiceProofs` proves for all configurations, messages and bounds:

| theorem | statement |
|---|---|
| `DbInvariant` | `Spec => []IInv` |
| `SamplesKept` | `Spec => []EverySampleAveraged` |
| `LastStored` | `Spec => []LastIsInDatabase` |
| `RowsDiffer` | `Spec => RowsApart` |
| `DueValuesAreLookedAt` | `Spec => []LookedAtWhenDue` |
| `AveragesAreInRange` | `Spec => AverageInRange` |

`EverySampleAveraged` speaks of the moments between messages and says nothing of
why no message was ignored. `IInv` adds `NoGateForAverages` (once an averaged
value was read, the sensor's interval is 0 and stays it, whatever is read
after), `SamplesSettled` (the claim at every step, without the number in hand)
and `PastTimes` (marks are past, and the number in hand has none yet, so that a
new sample is the only one at or after its mark). `LastIsInDatabase` is
inductive with the domains in `Shape`; `RowsApart` follows from it, for a row is
only written when its number is not near `lastVal`. The rules for values that
the handled value leaves alone are one lemma, `HandleKeeps`.

`LookedAtWhenDue` relates when a value was last passed over to when it was last
looked at, and a sensor's interval starts again with every row of any of its
values. `RestartedInTime` is what makes the bound: a row of another value starts it
only while the interval of this value is not over, or together with looking at
it; values of the message in hand that are not handled yet are excepted. The bound
is a sum of numbers because the common interval is a number (`GatesAreNumbers`),
which needs that the recursion of `gcd` has a solution (`GcdIsRecursive`).

`AverageInRange` is about a recursion over any number of samples. `AreaIsRecursive`
shows that the recursion has a solution, `AreaInRange` that the area up to each
sample lies between the least and the greatest number held for the time since the
first; the mean of two samples keeps it so (`TrapezoidInRange`). The division is
defined because the first sample is older than the message (`PastTimes`), and the
least and the greatest exist because samples are finitely many integers
(`SamplesAreNumbers`, the invariant that is added).

An induction over data is written there without the library's induction theorems,
whose operator parameter no prover can instantiate: the set of times (or divisors)
at which the claim fails is a set of naturals, so if it is not empty it has a least
element (`LeastNumber`, from the well-foundedness of finite sets), and the step
refutes that.

### ZWaveService

`ZWaveServiceProofs` proves for all networks, configurations and timings:

| theorem | statement |
|---|---|
| `ZWaveInvariant` | `Spec => []IInv` |
| `ZWaveTypeCorrect` | `Spec => []TypeOK` |
| `NodesKnown` | `Spec => []OnlyKnownNodes` |
| `SetterIsAsked` | `Spec => []OnlyWritableSensorsSet` |
| `ForcedReportsPass` | `Spec => []ForcedReportPasses` |
| `SleepIsShort` | `Spec => []NotSleptPast` |
| `ReportedOnlyWhenReady` | `Spec => ReportedWhenReady` |
| `ReportsAreApart` | `Spec => ReportsApart` |
| `AnsweredRequestsAreApart` | `Spec => AnsweredRequestsApart` |

The assumptions are that every value belongs to one sensor and that limits,
refresh times and bounds are naturals. `OnlyKnownNodes` speaks of the finished
maps; `WaitPhases` says during the wait that a listed value is waited for or its
node is known, and `SetupPhases` that the maps are empty until then. For
`OnlyWritableSensorsSet`, `SetterPhases` says that a subscribed sensor has a
writable value that is set up already, so that nothing clears its flag any more,
and that messages reach subscribed sensors only. `NotSleptPast`
speaks of the sleep; `PassPhase` says during a pass that `next` is short enough
for every value examined so far. It survives a report, which only moves the time
of the value's last news forward, because `NewsInOrder` keeps requests before
the reports that answer them. `ForcedReportPasses` needs `PassPhase` to know
that a value examined has a refresh time, and the configuration's rule that such
a time is at least the limit (`RefreshFacts`).

### RomSearch and OneWireService

`OneWireServiceProofs` proves for identifiers of any length, any devices and
configuration, any intervals and reading times, and any number of changes:

| theorem | statement |
|---|---|
| `SearchInvariant` | `RomSpec => []RomInv` |
| `SearchTypeCorrect` | `RomSpec => []RomTypeOK` |
| `SearchIsComplete` | `RomSpec => []SearchFindsAll` |
| `SearchRepeatsNone` | `RomSpec => FoundOnce` |
| `OneWireInvariant` | `OneWireSpec => []OneWireInv` |
| `OneWireTypeCorrect` | `OneWireSpec => []OneWireTypeOK` |
| `AttachedAreListed` | `OneWireSpec => []AttachedIsListed` |
| `OneIsRemoved` | `OneWireSpec => []OneMissingIsRemoved` |
| `ReadingsAreApart` | `OneWireSpec => ReadingsApart` |
| `DevicesReadInTime` | `OneWireSpec => []ReadInTime` |

`SearchFindsAll` speaks of the end. `BetweenPasses` says what one identifier and
one number mean: every device not found yet went off at a place, not beyond
`lastDiscrepancy`, where the last identifier has 0 (`Pending`), everything found
lies before that identifier, and at the last discrepancy there is a device on the
other side (`Branches`). `WithinPass` carries it through the bits: up to the last
discrepancy the pass goes the way of the last one, there it takes the other, and
what it leaves behind becomes pending. A device plugged in is in neither `stable`
nor `active`, so nothing is claimed of it; one pulled out ends the claim but not
the types.

`OneWireInv` takes `RomInv` over and adds what the program keeps. `FoundIsMarked`:
a supported device of the configuration stays in the list while the search lasts,
and once found is in it with its mark, although `ProcessRomDevice` erases others;
the removal loop then cannot take it. `RemovesOne` follows the iterator: before it
comes to the missing device the list is that of the configuration, after it the
list without that device, whose successor was stepped over and has its mark
anyway; if the missing one is the last the iterator is past the end. Both are
about every list, so the proofs rest on lemmas about `SelectInSeq`, `RemoveAt` and
marking. `LastIsRead` ties the time kept in the list to the last reading, and
`WaitsInTime` counts the turns of the loop since it last came to a device
(`Turns`): each takes at most one reading, and at most one sleep lies between.

### TimeString

`TimeStringProofs` proves for every start, request and lateness up to a day:

| theorem | statement |
|---|---|
| `TimeTypeCorrect` | `TimeSpec => []TimeTypeOK` |
| `WaitsAtMostOneUnit` | `TimeSpec => []LateByOneUnit` |
| `RequestsLandOnDay` | `TimeSpec => []LandsOnDay` |

The inductive invariant `TimeInv` says that the delay is what was computed from the
present time and request; the work is in arithmetic, since the run checks six
dates and 160 requests and the theorems all of them. A remainder by 60, 24 or 7 of
numbers at most a turn apart is a case distinction, and each of the four borrows
is one lemma about a field and the field above it. `TimeTypeCorrect` includes that
`TimeAfter` yields a day that its month has, for a wait of at most two months and
a day: hence the bound on `Lateness`.

### UnipiService

`UnipiServiceProofs` proves for every interval, number of tries, set of codes,
relays and messages:

| theorem | statement |
|---|---|
| `UnipiInvariant` | `UnipiSpec => []UnipiInv` |
| `UnipiTypeCorrect` | `UnipiSpec => []UnipiTypeOK` |
| `JoinIsBounded` | `UnipiSpec => []JoinBounded` |
| `InputsReportedInTime` | `UnipiSpec => []ReportInTime` |
| `OutputsFollowMessages` | `UnipiSpec => []OutputsAsAsked` |

`JoinBounded` needs to know where the thread is when it is notified:
`ReaderTimes` bounds a reading by the tries used, and a wait by what is left of
the interval; `JoinTimes` says that a thread that reads or waits in spite of the
notification was on its way there when it came (`Lost`), and compares the time since
with the duration of that reading or the rest of that wait.
`OutputsAsAsked` needs `MirrorIsLatch`: a relay is written from the mirror.

### DhtService

`DhtServiceProofs` proves for any sensors, intervals, answers and bounds:

| theorem | statement |
|---|---|
| `DhtInvariant` | `DhtSpec => []DhtInv` |
| `DhtTypeCorrect` | `DhtSpec => []DhtTypeOK` |
| `PublishedInBounds` | `DhtSpec => []AverageInBounds` |
| `SensorsReadInTime` | `DhtSpec => []SensorInTime` |

`GotIsInBounds` is what the average needs: a flag is up only for a measure that is
over and whose entry is within the bounds, although an entry without its flag may
be anything. `SensorInTime` speaks of the moment a sensor's turn comes; `InTimeInv`
speaks of every sensor at every moment: one the cycle has passed is awake in time
but for the readings since (so the least of the wake times is soon enough for all),
one still to come has also waited for those of the cycle before, and a reading in
progress has taken no longer than its measures and attempts so far
(`ReadingIsShort`).

### ExeLife

`ExeLifeProofs` proves for any processes, scripts and bounds:

| theorem | statement |
|---|---|
| `LifeInvariant` | `LifeSpec => []LifeInv` |
| `LifeTypeCorrect` | `LifeSpec => []LifeTypeOK` |
| `OneProcessWorks` | `LifeSpec => []OneAtWork` |
| `ScriptsBelongToOne` | `LifeSpec => []ScriptsOfOne` |
| `DestructorSurvives` | `LifeSpec => []DiesOnlyIf` |

`OneAtWork` is not inductive: `Unlink` removes the file by its name, so it must be
known that the process at work made it (`AtWork(p) => pidFile = p`). For
`DiesOnlyIf`, `OrderlyWork` says that at work only one thread starts and joins
scripts at a time (the main thread, then the task, since the topic of a reload is
subscribed to last), and `OrderlyEnd` that in the destructor, if no task runs, the
threads still to be joined are those that are joinable; a thread is thus joined
once, and none is left when the members go. A script that is up has a joinable
thread (`Settled`), so none is up after `~Exe_Service`, which is what
`ScriptsOfOne` needs when the file is removed.

### What runs and proofs share

The runs list what the system promises. The type invariants (those of the modules
with proofs) and the inductive invariants (`IInv`, `RomInv`, `UnipiInv`, `DhtInv`,
`LifeInv`, `OneWireInv`, `TimeInv`, and beside them `RInv`, `WakeInv`, `DueInv`,
`SamplesAreNumbers`, `InTimeInv`) are proved, as are `MapsEmptyAtClear`,
`NoneSleepsInVain` and `OneAtWork`. Each of them may be given to TLC with the
constants of the runs.

### Only model-checked

- Liveness is out of the prover's reach: `WaitEndsUnlessMissed`,
  `ReloadEndsUnlessMissed`, `PreparationEnds`, `SearchEnds`, `UnipiEnds`,
  `TermEnds`. Of the first two the safety core is proved: `NobodySleepsInVain`
  and `StopWakesEverybody` say what can keep a thread asleep.
- The violations of runs `typechange`, `stopends`, `heal`, `sign`, `join` and
  `missing`: behaviours, which a prover does not look for.

Every safety invariant and action property of the passing runs is stated by a
theorem. What a theorem cannot say is left to the runs: that the cases of a
property do occur. Each property has a changed definition (`X_Word`, beside `X`)
that TLC finds to break it.

## 11. Not modelled

- exe_service: `NOW+` strings; Lua globals (one guarded write, one guarded read:
  `get_value_number` is declared `bool` in `mq_exe_daemon.h:62`, so a number comes
  back as 0 or 1, and the conditional operator at `lua_module.cpp:550` converts a
  boolean to a number before it is stored); the Lua `os` subset, copied from Lua.
- The JSON tokener that every daemon keeps: after a truncated message its state is
  not reset (`mq_exe_daemon.cpp:252`), and the next message is parsed as its
  continuation. It is the library's state; the daemons' reaction is that of a
  message without the expected values, which the models have.
- mq_lib: the build without a pid file (systemd); a second SIGTERM on another
  thread; subscriptions lost after a reconnect (`mq_lib.cpp:245`: the session is
  clean and no code here renews them, so there is no state to check); log sinks.
- zwave_service: set messages are looked up in a map into which the main thread
  still inserts (`mq_zwave_daemon.cpp:338`). The model handles messages at every
  moment of the construction, each against a consistent map; what a lookup during
  a rehash does is up to the container.
- unipi_service: the build without pigpio, whose reading thread is the same code;
  digital inputs, which pass events on; the EEPROM. `Exit` is the end of the process:
  the destruction of the members (`mq_unipi_daemon_pi.cpp:500-506`) is left out,
  during which the thread of mosquitto may still call `CallBack`, as it may in every
  daemon until `~Daemon` stops it; `ExeLife` has that of exe_service.
- dht_service: the decoding of the pulses of a sensor and the dew point.
- gpio and i2c wrappers: calls of the kernel around a handle. One test is the
  wrong way round (`gpioxx.cpp:245`, `!=` where `==` is meant: it refuses a line
  that is requested): in the build of unipi_service without pigpio no event of a
  digital input is read. It shows at the first event, in one step.
- Steps of the wall clock: only `parse_time_string` reads it, once per call.
- The command line tools, apart from the search that onewire_tool shares with the
  daemon; the web application; configuration and service files.
- Vendored code: spdlog with fmt and most of MaximInterface (drivers of devices that
  no program here uses) are nine tenths of the lines under `src/`. Of it the search
  of the 1-Wire bus is modelled, since the daemon's list depends on it.
