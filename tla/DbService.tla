----------------------------- MODULE DbService -----------------------------
(***************************************************************************)
(* db_sqlite: the daemon that writes received measurements to an SQLite    *)
(* database.  A value has an interval (it is stored at most that often), a *)
(* precision (a number closer to the last one is not stored) and may be    *)
(* averaged (all numbers since the last one stored are).  A sensor ignores *)
(* whole messages within the common divisor of its values' intervals.      *)
(*                                                                         *)
(* The steps of a message are those of one thread; they are separate       *)
(* actions because every row is committed on its own and the daemon may    *)
(* die between two of them.  The rows survive, everything else is lost.    *)
(*                                                                         *)
(* A definition X_Word states X as a plausible bug would have it.  Nothing *)
(* uses it but the tests of the properties.                                *)
(***************************************************************************)
EXTENDS Integers, Sequences, FiniteSets, FiniteSetsExt

CONSTANTS
    Sensors,        \* configured sensors
    Values,         \* configured values of all sensors
    ValuesOf,       \* the values of a sensor in the order of the configuration
    Averaging,      \* the values that are averaged
    Interval,       \* Value_data.interval, 0 if there is none
    Precision,      \* Value_data.precision, 0 if there is none
    Numbers,        \* the numbers that messages carry
    KindsOf,        \* what a value may be in a message: "number", ...
    NaN,            \* no number
    Unset,          \* numeric_limits::max, the interval of a sensor at first
    Second,         \* the length of a second, the resolution of a row's timestamp
    MaxGap,         \* bound: the time from a message to the next
    MaxTime,        \* bound: the clock
    MaxRestarts,    \* bound: restarts of the daemon
    MaxErrors       \* bound: failures of SQLite

ASSUME NumbersAssumption ==
    /\ Numbers \subseteq Int
    /\ NaN \notin Int
    /\ Unset \notin Int
ASSUME ConfigAssumption ==
    /\ ValuesOf \in [Sensors -> Seq(Values)]
    /\ Averaging \subseteq Values
    /\ Interval \in [Values -> Nat]
    /\ Precision \in [Values -> Nat]
    /\ KindsOf \in [Values -> SUBSET {"number", "boolean", "other"}]

ValuesIn(s) == {ValuesOf[s][i] : i \in 1..Len(ValuesOf[s])}

\* A value belongs to one sensor and is configured there (once or more).
ASSUME SensorAssumption ==
    \A v \in Values :
        \E s \in Sensors : \A t \in Sensors : v \in ValuesIn(t) <=> t = s
ASSUME BoundAssumption ==
    /\ Second \in Nat \ {0}
    /\ MaxGap \in Nat
    /\ MaxTime \in Nat
    /\ MaxRestarts \in Nat
    /\ MaxErrors \in Nat

VARIABLES
    phase,      \* where the daemon is: "config", "idle", in a "message"
    loaded,     \* how many values of each sensor the configuration has given
    gate,       \* SensorData.interval
    sLast,      \* SensorData.last_update
    vLast,      \* Value_data.last_update
    lastVal,    \* Value_data.last_val
    events,     \* Value_data.ValEvents, as a set: their time marks differ
    known,      \* _known_sensors, _known_names and _known_units
    sensor,     \* the sensor of the message
    msg,        \* the values of the message that are still to be handled
    now,        \* the clock, counted from the start of the machine
    row,        \* external: the last row of valreal for each value
    \* history, not part of the program
    refused,    \* values whose last row SQLite did not take or did not give
    heard,      \* times of the numbers received since the last one stored
    cut,        \* values of which a failure of SQLite cost a message
    looked,     \* last time that a value of a message passed both intervals
    passed,     \* last time that a value of a message did not
    absent,     \* values that a message since then did not carry
    restarts, errors

configVars  == <<loaded, gate>>
sensorVars  == <<sLast, vLast, lastVal, events>>
messageVars == <<sensor, msg>>
databaseVars == <<row, refused>>
ageVars     == <<looked, passed, absent>>

vars == <<phase, configVars, sensorVars, known, messageVars, now, databaseVars,
          heard, cut, ageVars, restarts, errors>>

NoMessage == [v \in {} |-> v]
NoRow     == [sec |-> -1, val |-> NaN]

-----------------------------------------------------------------------------
(* load_daemon_configuration and check_and_init_database.                  *)

\* gcd of x and y is gcd[y][x]: they are exchanged by the first round if x < y.
gcd[y \in Nat] == [x \in Nat |-> IF y = 0 THEN x ELSE gcd[x % y][y]]

\* The interval of a sensor after one more value was read.
Common_AlwaysGcd(g, v) ==
    IF v \in Averaging THEN 0
    ELSE IF g = Unset THEN Interval[v] ELSE gcd[g][Interval[v]]
Common(g, v) ==
    IF v \in Averaging \/ g = 0 THEN 0
    ELSE IF g = Unset THEN Interval[v] ELSE gcd[g][Interval[v]]

LoadValue(s) ==
    /\ phase = "config"
    /\ loaded[s] < Len(ValuesOf[s])
    /\ loaded' = [loaded EXCEPT ![s] = @ + 1]
    /\ gate' = [gate EXCEPT ![s] = Common(@, ValuesOf[s][loaded[s] + 1])]
    /\ UNCHANGED <<phase, sensorVars, known, messageVars, now, databaseVars,
                   heard, cut, ageVars, restarts, errors>>

\* The last stored number of a value with a precision is read back, unless SQLite
\* fails to give it; then the sensors are subscribed.
Restored_Forgotten(lost) == [v \in Values |-> NaN]
Restored(lost) ==
    [v \in Values |->
        IF Precision[v] # 0 /\ v \notin lost THEN row[v].val ELSE NaN]

Restore ==
    /\ phase = "config"
    /\ \A s \in Sensors : loaded[s] = Len(ValuesOf[s])
    /\ phase' = "idle"
    /\ \E lost \in SUBSET {v \in Values : Precision[v] # 0} :
          /\ errors' = errors + Cardinality(lost)
          /\ errors' <= MaxErrors
          /\ lastVal' = Restored(lost)
          /\ refused' = lost
    /\ UNCHANGED <<configVars, sLast, vLast, events, known, messageVars, now,
                   row, heard, cut, ageVars, restarts>>

-----------------------------------------------------------------------------
(* CallBack: the message.                                                  *)

\* A value of a message is a number, a boolean or something else.
Content == [kind : {"number"}, val : Numbers]
           \cup [kind : {"boolean", "other"}, val : {NaN}]
Messages(keys) ==
    {m \in [keys -> Content] : \A v \in keys : m[v].kind \in KindsOf[v]}

NumbersIn(m) == {v \in DOMAIN m : m[v].kind = "number"}

\* Ids of names are cached; one that is not has to be asked for, and SQLite
\* may fail to answer.
MayFail(name) == name \notin known /\ errors < MaxErrors
Without(m, v) == [w \in DOMAIN m \ {v} |-> m[w]]

Hear(m, t) ==
    heard' = [v \in Values |->
                 IF v \in NumbersIn(m) THEN heard[v] \cup {t} ELSE heard[v]]

\* The sensor is within its interval: nothing of the message is looked at.
Ignore_Refresh(s, m, t) ==
    /\ gate[s] # 0 /\ t - sLast[s] < gate[s]
    /\ sLast' = [sLast EXCEPT ![s] = t]
    /\ passed' = [v \in Values |-> IF v \in DOMAIN m THEN t ELSE passed[v]]
    /\ absent' = absent \cup (ValuesIn(s) \ DOMAIN m)
    /\ UNCHANGED <<phase, vLast, lastVal, events, known, messageVars, cut,
                   looked, errors>>
Ignore(s, m, t) ==
    /\ gate[s] # 0 /\ t - sLast[s] < gate[s]
    /\ passed' = [v \in Values |-> IF v \in DOMAIN m THEN t ELSE passed[v]]
    /\ absent' = absent \cup (ValuesIn(s) \ DOMAIN m)
    /\ UNCHANGED <<phase, sensorVars, known, messageVars, cut, looked, errors>>

\* The id of the sensor cannot be had: the message is given up.
GiveUp(s, m) ==
    /\ MayFail(s)
    /\ errors' = errors + 1
    /\ cut' = cut \cup NumbersIn(m)
    /\ absent' = absent \cup ValuesIn(s)
    /\ UNCHANGED <<phase, sensorVars, known, messageVars, looked, passed>>

Accept(s, m) ==
    /\ known' = known \cup {s}
    /\ phase' = "message"
    /\ sensor' = s
    /\ msg' = m
    /\ absent' = absent \cup (ValuesIn(s) \ DOMAIN m)
    /\ UNCHANGED <<sensorVars, cut, looked, passed, errors>>

\* Two messages never have the same nanosecond.  A message may have none of the
\* values, also because it is no JSON object.
Receive(s) ==
    /\ phase = "idle"
    /\ \E gap \in 1..MaxGap, keys \in SUBSET ValuesIn(s) :
       \E m \in Messages(keys) :
          LET t == now + gap IN
          /\ t <= MaxTime
          /\ now' = t
          /\ Hear(m, t)
          /\ \/ Ignore(s, m, t)
             \/ /\ ~(gate[s] # 0 /\ t - sLast[s] < gate[s])
                /\ GiveUp(s, m) \/ Accept(s, m)
    /\ UNCHANGED <<configVars, databaseVars, restarts>>

-----------------------------------------------------------------------------
(* CallBack: the values of the message.                                    *)

Age(v) == now - vLast[v]
TooEarly(v) == v \notin Averaging /\ Interval[v] # 0 /\ Age(v) < Interval[v]
InWindow(v) == v \in Averaging /\ Age(v) < Interval[v]

\* The times of samples, and the number of the sample at a time.
Times(E) == {e.at : e \in E}
First(E) == Min(Times(E))
Last(E)  == Max(Times(E))
NumberAt(E, t) == (CHOOSE e \in E : e.at = t).val

\* The numbers weighted with time: from the sample at u to the next one at t their
\* mean.  It is twice the area, and a number is rounded down.
Before(E, t) == Max({u \in Times(E) : u < t})
AreaTill(E) ==
    LET area[t \in Times(E)] ==
            IF t = First(E) THEN 0
            ELSE LET u == Before(E, t)
                 IN  area[u] + (NumberAt(E, u) + NumberAt(E, t)) * (t - u)
    IN  area
Average_TillNow(E) == AreaTill(E)[Last(E)] \div (2 * Last(E))
Average(E) == AreaTill(E)[Last(E)] \div (2 * (Last(E) - First(E)))

\* The number to be stored, and the samples it stands for.
Averaged(v) == v \in Averaging /\ events[v] # {}
Samples(v) ==
    IF Averaged(v) THEN events[v] \cup {[at |-> now, val |-> msg[v].val]}
                   ELSE events[v]
NewNumber(v) == IF Averaged(v) THEN Average(Samples(v)) ELSE msg[v].val

Near(last, new, precision) ==
    IF last = NaN THEN FALSE
    ELSE (IF last > new THEN last - new ELSE new - last) < precision

\* The next value of the message; it passes the intervals, its names have ids.
Handle(v) ==
    /\ phase = "message"
    /\ v \in DOMAIN msg
    /\ msg' = Without(msg, v)
Look(v) ==
    /\ Handle(v)
    /\ ~TooEarly(v)
    /\ known' = known \cup {v}
    /\ looked' = [looked EXCEPT ![v] = now]
    /\ absent' = absent \ {v}
    /\ UNCHANGED <<phase, passed, configVars, sensor, now, restarts>>

Skip(v) ==
    /\ Handle(v)
    /\ TooEarly(v)
    /\ passed' = [passed EXCEPT ![v] = now]
    /\ UNCHANGED <<phase, configVars, sensorVars, known, sensor, now,
                   databaseVars, heard, cut, looked, absent, restarts, errors>>

\* The id of a name cannot be had: the rest of the message is given up.
GiveUpRest(v) ==
    /\ phase = "message"
    /\ v \in DOMAIN msg
    /\ ~TooEarly(v)
    /\ MayFail(v)
    /\ errors' = errors + 1
    /\ phase' = "idle"
    /\ msg' = NoMessage
    /\ cut' = cut \cup NumbersIn(msg)
    /\ absent' = absent \cup DOMAIN msg
    /\ UNCHANGED <<configVars, sensorVars, known, sensor, now, databaseVars,
                   heard, looked, passed, restarts>>

\* An averaged value within its interval is a sample.
Sample(v) ==
    /\ Look(v)
    /\ InWindow(v)
    /\ msg[v].kind = "number"
    /\ events' = [events EXCEPT ![v] = @ \cup {[at |-> now, val |-> msg[v].val]}]
    /\ UNCHANGED <<sLast, vLast, lastVal, databaseVars, heard, cut, errors>>

\* A number within the precision of the last one stays a sample.
KeepSample_Last(v) ==
    /\ Look(v)
    /\ ~InWindow(v)
    /\ msg[v].kind = "number"
    /\ Near(lastVal[v], NewNumber(v), Precision[v])
    /\ events' = [events EXCEPT ![v] = Samples(v)]
    /\ lastVal' = [lastVal EXCEPT ![v] = NewNumber(v)]
    /\ UNCHANGED <<sLast, vLast, databaseVars, heard, cut, errors>>
KeepSample(v) ==
    /\ Look(v)
    /\ ~InWindow(v)
    /\ msg[v].kind = "number"
    /\ Near(lastVal[v], NewNumber(v), Precision[v])
    /\ events' = [events EXCEPT ![v] = Samples(v)]
    /\ UNCHANGED <<sLast, vLast, lastVal, databaseVars, heard, cut, errors>>

\* Timestamps have seconds and are part of the primary key: a second row in one
\* second is refused.  So is a row when SQLite fails.  The daemon logs it.
Refuse(v) ==
    /\ refused' = refused \cup {v}
    /\ UNCHANGED row

InsertReal(v, x) ==
    \/ /\ row[v].sec # now \div Second
       /\ row' = [row EXCEPT ![v] = [sec |-> now \div Second, val |-> x]]
       /\ refused' = refused \ {v}
       /\ UNCHANGED errors
    \/ /\ row[v].sec = now \div Second
       /\ Refuse(v)
       /\ UNCHANGED errors
    \/ /\ errors < MaxErrors
       /\ errors' = errors + 1
       /\ Refuse(v)

StoreNumber(v) ==
    /\ Look(v)
    /\ ~InWindow(v)
    /\ msg[v].kind = "number"
    /\ LET x == NewNumber(v) IN
       /\ ~Near(lastVal[v], x, Precision[v])
       /\ lastVal' = [lastVal EXCEPT ![v] = x]
       /\ events' = [events EXCEPT ![v] = {[at |-> now, val |-> x]}]
       /\ InsertReal(v, x)
    /\ vLast' = [vLast EXCEPT ![v] = now]
    /\ sLast' = [sLast EXCEPT ![sensor] = now]
    /\ heard' = [heard EXCEPT ![v] = {now}]
    /\ cut' = cut \ {v}

\* Booleans have a table of their own, which nobody reads back, and no part in
\* averages and precision.
StoreBoolean(v) ==
    /\ Look(v)
    /\ ~InWindow(v)
    /\ msg[v].kind = "boolean"
    /\ vLast' = [vLast EXCEPT ![v] = now]
    /\ sLast' = [sLast EXCEPT ![sensor] = now]
    /\ UNCHANGED <<lastVal, events, databaseVars, heard, cut, errors>>

Unexpected(v) ==
    /\ Look(v)
    /\ msg[v].kind = "other" \/ (InWindow(v) /\ msg[v].kind = "boolean")
    /\ UNCHANGED <<sensorVars, databaseVars, heard, cut, errors>>

FinishMessage ==
    /\ phase = "message"
    /\ msg = NoMessage
    /\ phase' = "idle"
    /\ UNCHANGED <<configVars, sensorVars, known, messageVars, now,
                   databaseVars, heard, cut, ageVars, restarts, errors>>

HandleValue(v) ==
    \/ Skip(v) \/ GiveUpRest(v)
    \/ Sample(v) \/ KeepSample(v) \/ StoreNumber(v)
    \/ StoreBoolean(v) \/ Unexpected(v)

-----------------------------------------------------------------------------
(* The daemon ends, by a signal or otherwise, and is started again.        *)

Restart ==
    /\ restarts < MaxRestarts
    /\ restarts' = restarts + 1
    /\ phase' = "config"
    /\ loaded' = [s \in Sensors |-> 0]
    /\ gate' = [s \in Sensors |-> Unset]
    /\ sLast' = [s \in Sensors |-> 0]
    /\ vLast' = [v \in Values |-> 0]
    /\ lastVal' = [v \in Values |-> NaN]
    /\ events' = [v \in Values |-> {}]
    /\ known' = {}
    /\ msg' = NoMessage
    /\ heard' = [v \in Values |-> {}]
    /\ cut' = {}
    /\ looked' = [v \in Values |-> 0]
    /\ passed' = [v \in Values |-> 0]
    /\ absent' = {}
    /\ UNCHANGED <<sensor, now, databaseVars, errors>>

\* The database may be new.  last_update is the start of the clock.
Init ==
    /\ phase = "config"
    /\ loaded = [s \in Sensors |-> 0]
    /\ gate = [s \in Sensors |-> Unset]
    /\ sLast = [s \in Sensors |-> 0]
    /\ vLast = [v \in Values |-> 0]
    /\ lastVal = [v \in Values |-> NaN]
    /\ events = [v \in Values |-> {}]
    /\ known = {}
    /\ sensor \in Sensors
    /\ msg = NoMessage
    /\ now = 0
    /\ row = [v \in Values |-> NoRow]
    /\ refused = {}
    /\ heard = [v \in Values |-> {}]
    /\ cut = {}
    /\ looked = [v \in Values |-> 0]
    /\ passed = [v \in Values |-> 0]
    /\ absent = {}
    /\ restarts = 0
    /\ errors = 0

Next ==
    \/ \E s \in Sensors : LoadValue(s) \/ Receive(s)
    \/ Restore
    \/ \E v \in Values : HandleValue(v)
    \/ FinishMessage
    \/ Restart

Spec == Init /\ [][Next]_vars

-----------------------------------------------------------------------------
(* Properties.                                                             *)

SensorOf(v) == CHOOSE s \in Sensors : v \in ValuesIn(s)

Since(H, E) == {t \in H : \E u \in Times(E) : u <= t}

\* "if there is a single value with averaging we need to read all messages to
\* get the average": from the first sample of an average on, every number
\* received is a sample, whatever the intervals and the order of the values
\* configured beside it, unless a failure of SQLite cost the message.
EverySampleAveraged ==
    phase = "idle" =>
        \A v \in Averaging \ cut : Since(heard[v], events[v]) = Times(events[v])

\* The number stored for an averaged value lies between the least and the
\* greatest of its samples: the weights add up to one.
AverageInRange ==
    [][\A v \in Values :
          row'[v] # row[v] /\ Averaged(v) =>
              LET vals == {e.val : e \in Samples(v)}
              IN  row'[v].val \in Min(vals)..Max(vals)]_vars

\* "load last values (if exist for precision change check)": two rows of a
\* value that follow one another differ by its precision, also when the daemon
\* was restarted between them; unless SQLite refused a row between them, or
\* refused to read the last one back.
RowsApart ==
    [][\A v \in Values :
          row'[v] # row[v] /\ Precision[v] # 0 /\ v \notin refused =>
              ~Near(row[v].val, row'[v].val, Precision[v])]_vars

\* The number that a new one is compared with is the one in the database, not
\* one that was skipped: a slow drift is noticed.  The exception is a row that
\* SQLite refused: the daemon remembers what the database does not have.
LastIsInDatabase ==
    phase # "config" =>
        \A v \in Values \ refused : Precision[v] # 0 => lastVal[v] = row[v].val

\* A value that every message of its sensor carries is looked at within its
\* interval and that of the sensor: it is not starved by the other values.
\* (A value that only some messages carry may be passed over for ever, for
\* each row of another value starts the interval of the sensor again.)
LookedAtWhenDue ==
    phase # "config" =>
        \A v \in Values \ absent :
            passed[v] > looked[v] =>
                passed[v] < looked[v] + Interval[v] + gate[SensorOf(v)]

-----------------------------------------------------------------------------
(* The inductive invariant behind the safety properties that are proved.   *)

\* Once an averaged value was read, its sensor ignores no message.
NoGateForAverages ==
    /\ \A t \in Sensors : \A i \in 1..loaded[t] :
          ValuesOf[t][i] \in Averaging => gate[t] = 0
    /\ phase # "config" => \A t \in Sensors : loaded[t] = Len(ValuesOf[t])

\* A number of the message in hand is not yet a sample.
InHand(v) == phase = "message" /\ v \in NumbersIn(msg)
Settled(v) == IF InHand(v) THEN heard[v] \ {now} ELSE heard[v]
SamplesSettled ==
    \A v \in Averaging \ cut : Since(Settled(v), events[v]) = Times(events[v])

\* Samples and what was heard are past; the message in hand is heard.
PastTimes ==
    \A v \in Values :
        /\ heard[v] \subseteq 0..now
        /\ Times(events[v]) \subseteq 0..now
        /\ InHand(v) => now \in heard[v] /\ now \notin Times(events[v])

\* Samples are finitely many and numbers, as are the numbers of the message.
SamplesAreNumbers ==
    /\ \A v \in Values : /\ IsFiniteSet(events[v])
                         /\ \A e \in events[v] : e.val \in Int
    /\ phase = "message" => \A v \in NumbersIn(msg) : msg[v].val \in Int

\* The part of the types that the proofs need.
Shape ==
    /\ loaded \in [Sensors -> Nat]
    /\ \A t \in Sensors : loaded[t] <= Len(ValuesOf[t])
    /\ DOMAIN gate = Sensors
    /\ DOMAIN lastVal = Values /\ DOMAIN row = Values
    /\ DOMAIN events = Values /\ DOMAIN heard = Values
    /\ now \in Nat
    /\ sensor \in Sensors
    /\ phase = "message" => DOMAIN msg \subseteq ValuesIn(sensor)

IInv ==
    /\ Shape
    /\ NoGateForAverages
    /\ PastTimes
    /\ SamplesSettled
    /\ LastIsInDatabase

\* A sensor has an interval as soon as it has a value.
GatesAreNumbers ==
    \A t \in Sensors : /\ gate[t] \in Nat \cup {Unset}
                       /\ loaded[t] > 0 => gate[t] \in Nat

\* No time is ahead of the clock, a value is looked at when it is stored, and
\* while the configuration is read no message is.
AgesArePast ==
    /\ sLast \in [Sensors -> 0..now]
    /\ \A age \in {vLast, looked, passed} : age \in [Values -> 0..now]
    /\ \A v \in Values : vLast[v] <= looked[v]
    /\ phase = "config" => \A v \in Values : passed[v] = 0

\* A row starts the interval of a sensor again, but only while the intervals of
\* the values that came with it are not over, or they are looked at now.  Those
\* not handled yet are still to be looked at or skipped.
Unhandled == IF phase = "message" THEN DOMAIN msg ELSE {}
RestartedInTime ==
    \A v \in Values \ (absent \cup Unhandled) :
        /\ sLast[SensorOf(v)] <= looked[v] + Interval[v]
        /\ phase = "message" /\ SensorOf(v) = sensor => now <= looked[v] + Interval[v]

DueInv ==
    /\ GatesAreNumbers
    /\ AgesArePast
    /\ RestartedInTime
    /\ LookedAtWhenDue

=============================================================================
