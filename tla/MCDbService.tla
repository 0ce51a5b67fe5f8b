---------------------------- MODULE MCDbService ----------------------------
(* Constants for the model checking of DbService: two sensors with two     *)
(* values each.  A behaviour has messages of one of them, with bounds of   *)
(* their own, and leaves the other as it was configured.                   *)
EXTENDS DbService, TLC

CONSTANTS s, z,  \* sensors
          p, q,  \* values of s, in the order of the configuration
          r, w   \* values of z

TwoValues == s :> <<p, q>> @@ z :> <<r, w>>

\* p is averaged over two units of time, and q has an interval of its own; those of
\* r and w have a common divisor, and neither is a multiple of the other.
MixedIntervals == p :> 2 @@ q :> 3 @@ r :> 4 @@ w :> 6

FirstCoarse == p :> 2 @@ q :> 3 @@ r :> 0 @@ w :> 0

SecondMixed == [v \in Values |-> IF v = q THEN {"number", "boolean", "other"} ELSE {"number"}]

CONSTANTS
    AverageTime, AverageGap,   \* bounds for s: the clock, the time between messages
    DueTime                    \* bound for z: the clock

\* Averages need numbers that differ, failures and a restart (a behaviour with one
\* of these is a unit of time shorter); the intervals of z need time.
Bounded ==
    /\ sensor' = sensor
    /\ sensor = s =>
          /\ now' <= AverageTime - IF restarts' + errors' > 0 THEN 1 ELSE 0
          /\ now' - now <= AverageGap
    /\ sensor = z =>
          /\ now' <= DueTime
          /\ \A v \in DOMAIN msg' : msg'[v].val = 0
          /\ refused' \subseteq ValuesIn(z)
          /\ restarts' = 0

MessageNext ==
    \/ \E t \in Sensors : LoadValue(t)
    \/ Receive(sensor)
    \/ Restore
    \/ \E v \in Values : HandleValue(v)
    \/ FinishMessage
    \/ Restart

\* The steps of Next that are within these bounds.
OneSensorSpec == Init /\ [][MessageNext /\ Bounded]_vars
=============================================================================
