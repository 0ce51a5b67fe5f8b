--------------------------- MODULE MCZWaveService ---------------------------
(* Constants for the model checking of ZWaveService. *)
EXTENDS ZWaveService, TLC

CONSTANTS s, t,      \* sensors
          a, b, c, d, \* values: a and b of s, c and d of t
          m, n,      \* nodes
          on, temp   \* labels

TwoSensors == s :> <<a, b>> @@ t :> <<c, d>>
OneSensor  == s :> <<a, b>>

\* a and c are on one node, b and d are on another.
TwoNodes == a :> m @@ b :> n @@ c :> m @@ d :> n
OneNode  == [v \in Values |-> m]

\* The sensor has two values of the same name.
SameLabel == a :> on @@ b :> on @@ c :> temp @@ d :> on
OwnLabels == a :> on @@ b :> temp

NoLimit     == [v \in Values |-> 0]
NoRefresh   == [v \in Values |-> 0]
LimitFirst  == a :> 3 @@ b :> 0
\* a is configured to be asked for more often than it may report.
OftenFirst  == a :> 1 @@ b :> 4
=============================================================================
