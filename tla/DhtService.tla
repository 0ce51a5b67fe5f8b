----------------------------- MODULE DhtService -----------------------------
(***************************************************************************)
(* dht_service (src/source/dht_service/mq_dht_daemon.cpp): one thread      *)
(* reads the sensors whose interval is over, one after the other, three    *)
(* measures each, publishes the average of those that succeeded, and       *)
(* sleeps until it thinks the next one is due.                             *)
(*                                                                         *)
(* A sensor gives one number instead of humidity and temperature, and the  *)
(* dew point is left out.  What an attempt itself takes, some milliseconds, *)
(* is left out beside the second between two attempts.                     *)
(***************************************************************************)
EXTENDS Integers

CONSTANTS
    Sensors,      \* how many sensors are configured; they are 1..Sensors
    DhtInterval,  \* x.interval, in seconds
    Second,       \* units of time in a second
    Attempts,     \* attempts for one measure: 40
    Measures,     \* what a sensor may answer, out of bounds included
    Lowest, Highest,   \* the bounds
    DhtOversleep, \* how much longer than asked for a sleep may take
    DhtUptimes,   \* clock at the start: steady_clock counts from the boot
    DhtMaxTime    \* bound: no cycle begins later

ASSUME DhtAssumption ==
    /\ Sensors \in Nat \ {0} /\ Second \in Nat \ {0} /\ Attempts \in Nat \ {0}
    /\ DhtInterval \in [1..Sensors -> Nat]
    /\ Measures \subseteq Int /\ Lowest \in Int /\ Highest \in Int /\ Lowest <= Highest
    /\ DhtOversleep \subseteq Nat /\ DhtUptimes \subseteq Nat /\ DhtMaxTime \in Nat

VARIABLES
    dhtPos,     \* the sensor of the cycle; Sensors + 1 when it is over
    measure,    \* j: the measure of the sensor being read, 0 if none is
    attempt,    \* i
    measured,   \* humidity_ or temperature_: the last answer for each measure
    gotMeasure, \* got_measure
    last,       \* x.last_refresh
    began,      \* now, when the reading began
    wake,       \* interval: the least next_wake, in seconds, or -1 for none
    published,  \* the last average published: [sum, divisor]
    dhtClock    \* the time

dhtVars ==
    <<dhtPos, measure, attempt, measured, gotMeasure, last, began, wake, published, dhtClock>>

NoneYet == -1
NoMeasure == [j \in 1..3 |-> 0]
NotGot == [j \in 1..3 |-> FALSE]

DhtInit ==
    /\ dhtPos = 1 /\ measure = 0 /\ attempt = 0
    /\ measured = NoMeasure /\ gotMeasure = NotGot
    /\ last = [s \in 1..Sensors |-> 0]
    /\ dhtClock \in DhtUptimes
    /\ began = 0
    /\ wake = NoneYet
    /\ published = [sum |-> Lowest, divisor |-> 1]

Elapsed(s) == dhtClock - last[s]

\* The mutant keeps the last one.
Sooner_Last(w) == w
Sooner(w) == IF wake = NoneYet \/ w < wake THEN w ELSE wake

\* A sensor that is not due; what is left is cut down to whole seconds.
NotDue ==
    /\ dhtPos <= Sensors /\ measure = 0
    /\ Elapsed(dhtPos) < DhtInterval[dhtPos] * Second
    /\ wake' = Sooner((DhtInterval[dhtPos] * Second - Elapsed(dhtPos)) \div Second)
    /\ dhtPos' = dhtPos + 1
    /\ UNCHANGED <<measure, attempt, measured, gotMeasure, last, began, published, dhtClock>>

BeginReading ==
    /\ dhtPos <= Sensors /\ measure = 0
    /\ Elapsed(dhtPos) >= DhtInterval[dhtPos] * Second
    /\ began' = dhtClock
    /\ measure' = 1 /\ attempt' = 1
    /\ measured' = NoMeasure /\ gotMeasure' = NotGot
    /\ UNCHANGED <<dhtPos, last, wake, published, dhtClock>>

InBounds(m) == m >= Lowest /\ m <= Highest

\* i < 40 in the next turn.
MoreAttempts == attempt < Attempts

\* An attempt gives no answer, or one out of bounds, which stays in the array:
\* another is made a second later, and after the last the measure is given up.
AttemptFails ==
    /\ measure \in 1..3
    /\ \/ UNCHANGED measured
       \/ \E m \in Measures : ~InBounds(m) /\ measured' = [measured EXCEPT ![measure] = m]
    /\ IF MoreAttempts
       THEN attempt' = attempt + 1 /\ dhtClock' = dhtClock + Second /\ UNCHANGED measure
       ELSE attempt' = 1 /\ dhtClock' = dhtClock + 2 * Second /\ measure' = measure + 1
    /\ UNCHANGED <<dhtPos, gotMeasure, last, began, wake, published>>

AttemptSucceeds ==
    /\ measure \in 1..3
    /\ \E m \in Measures : InBounds(m) /\ measured' = [measured EXCEPT ![measure] = m]
    /\ gotMeasure' = [gotMeasure EXCEPT ![measure] = TRUE]
    /\ measure' = measure + 1 /\ attempt' = 1
    /\ dhtClock' = dhtClock + Second
    /\ UNCHANGED <<dhtPos, last, began, wake, published>>

\* The average of the measures that succeeded; the mutant sums up all.
Share_All(j) == measured[j]
Share(j) == IF gotMeasure[j] THEN measured[j] ELSE 0
Counts(j) == IF gotMeasure[j] THEN 1 ELSE 0
Average == [sum |-> Share(1) + Share(2) + Share(3),
            divisor |-> Counts(1) + Counts(2) + Counts(3)]

\* It is published if there is any; the interval counts from the beginning of
\* the reading, but the next one is thought to be a whole interval away.
EndReading ==
    /\ measure = 4
    /\ published' = IF gotMeasure = NotGot THEN published ELSE Average
    /\ last' = [last EXCEPT ![dhtPos] = began]
    /\ wake' = Sooner(DhtInterval[dhtPos])
    /\ dhtPos' = dhtPos + 1
    /\ measure' = 0 /\ attempt' = 0 /\ began' = 0
    /\ measured' = NoMeasure /\ gotMeasure' = NotGot
    /\ UNCHANGED dhtClock

\* If less than a second is left the cycle begins again at once, and time passes
\* in it.
DhtSleep ==
    /\ dhtPos = Sensors + 1
    /\ dhtClock < DhtMaxTime
    /\ IF wake > 0
       THEN \E o \in DhtOversleep : dhtClock' = dhtClock + wake * Second + o
       ELSE dhtClock' = dhtClock + 1
    /\ dhtPos' = 1 /\ wake' = NoneYet
    /\ UNCHANGED <<measure, attempt, measured, gotMeasure, last, began, published>>

DhtNext ==
    NotDue \/ BeginReading \/ AttemptFails \/ AttemptSucceeds \/ EndReading \/ DhtSleep

DhtSpec == DhtInit /\ [][DhtNext]_dhtVars

-----------------------------------------------------------------------------
(* Properties.                                                             *)

DhtTypeOK ==
    /\ dhtPos \in 1..Sensors + 1
    /\ measure \in 0..4 /\ attempt \in 0..Attempts
    /\ measured \in [1..3 -> Int] /\ gotMeasure \in [1..3 -> BOOLEAN]
    /\ last \in [1..Sensors -> Nat]
    /\ began \in Nat /\ dhtClock \in Nat
    /\ wake \in Nat \cup {NoneYet}
    /\ published \in [sum : Int, divisor : Int]

\* What is published is the average of something, and within the bounds, though
\* answers out of bounds are in the same array.
AverageInBounds ==
    /\ published.divisor > 0
    /\ published.sum >= Lowest * published.divisor
    /\ published.sum <= Highest * published.divisor

\* The longest reading: each attempt fails.
LongestRead == 3 * (Attempts + 1) * Second

\* What a sleep takes too long, or the time that passes in a cycle without one.
Late == DhtOversleep \cup {1}

\* A sensor is looked at again no later than its interval, one reading of each
\* sensor, its own included, and what the sleep takes too long after its last
\* reading began, however the intervals are mixed.
SensorInTime ==
    dhtPos <= Sensors /\ measure = 0 /\ last[dhtPos] > 0 =>
        \E o \in Late :
            Elapsed(dhtPos) <= DhtInterval[dhtPos] * Second + Sensors * LongestRead + o

-----------------------------------------------------------------------------
(* The inductive invariant behind what is proved.                          *)

\* Only a measure that is over was got, and one that was got is within the bounds.
GotIsInBounds ==
    \A j \in 1..3 : gotMeasure[j] => j < measure /\ InBounds(measured[j])

DhtInv ==
    /\ DhtTypeOK
    /\ GotIsInBounds
    /\ measure > 0 => dhtPos <= Sensors
    /\ AverageInBounds

\* Times that are multiples: of a second, of a measure, of the longest reading.
Seconds(k)  == k * Second
Measuring(k) == k * ((Attempts + 1) * Second)
Readings(k) == k * LongestRead

\* What a reading has taken so far, measure by measure.
Reading == IF measure = 0 THEN 0 ELSE dhtClock - began
ReadingIsShort ==
    measure > 0 =>
        /\ attempt > 0
        /\ measure = 4 => attempt = 1
        /\ Reading <= Measuring(measure - 1) + Seconds(attempt - 1)

\* A sensor that the cycle has come to is awake in time for its interval but for
\* the readings since; one still to come, but for those and the last cycle's.
AwakeInTime ==
    /\ dhtPos > 1 => wake # NoneYet
    /\ \A s \in 1..Sensors :
          last[s] > 0 =>
              IF s < dhtPos
              THEN Elapsed(s) + Seconds(wake)
                       <= Seconds(DhtInterval[s]) + Readings(dhtPos - s) + Reading
              ELSE \E o \in Late :
                       Elapsed(s) <= Seconds(DhtInterval[s])
                                     + Readings(Sensors - s + dhtPos) + Reading + o

InTimeInv == ReadingIsShort /\ AwakeInTime
=============================================================================
