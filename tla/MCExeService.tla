---------------------------- MODULE MCExeService ----------------------------
(* Constants for the model checking of ExeService: two scripts that share a *)
(* value, wait for two of them, for a time point, for both and for either.  *)
EXTENDS ExeService, TLC

CONSTANTS a, b, c,  \* scripts
          x, y      \* values: of one sensor, so that one message carries both

OneTopic == [v \in Values |-> "status/room"]

And(vals, delays) == [or |-> FALSE, val |-> vals, delay |-> delays]
Or(vals, delays)  == [or |-> TRUE, val |-> vals, delay |-> delays]

\* a waits for both values or for one value before a timeout; b for either of
\* the values, for the same value twice, or for a value and a time point.
SharedRequests ==
    a :> {And(1 :> x @@ 2 :> y, <<>>), Or(1 :> x, 2 :> 1)}
 @@ b :> {Or(1 :> x @@ 2 :> y, <<>>), And(1 :> x, 2 :> 1)}

OneScriptRequests == [s \in Scripts |-> {And(1 :> x @@ 2 :> y, <<>>), Or(1 :> x, 2 :> 1)}]
TimeRequests  == [s \in Scripts |-> {And(<<>>, 1 :> 0 @@ 2 :> 1), Or(<<>>, 1 :> 2)}]
ValueRequests == [s \in Scripts |-> {And(1 :> x @@ 2 :> y, <<>>)}]
SmallRequests ==
    a :> {And(1 :> x, 2 :> 1)}
 @@ b :> {Or(1 :> x @@ 2 :> y, <<>>)}

BothRegister == [s \in Scripts |-> Values]

\* A sensor that publishes a value with one JSON type for ever, and one whose
\* value is sometimes a number and sometimes a boolean.
DoubleKinds   == [v \in Values |-> {"double"}]
FixedKinds    == x :> {"int", "double"} @@ y :> {"boolean", "other"}
ChangingKinds == x :> {"double", "boolean"} @@ y :> {"boolean"}
=============================================================================
