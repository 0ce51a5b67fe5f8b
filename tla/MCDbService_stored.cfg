CONSTANTS
    s = s
    z = z
    p = p
    q = q
    r = r
    w = w
    Sensors = {s, z}
    Values = {p, q, r, w}
    ValuesOf <- TwoValues
    Averaging = {p}
    Interval <- MixedIntervals
    Precision <- FirstCoarse
    Numbers = {0, 3}
    KindsOf <- SecondMixed
    NaN = NaN
    Unset = Unset
    Second = 2
    MaxGap = 3
    MaxTime = 10
    MaxRestarts = 1
    MaxErrors = 1
    AverageTime = 5
    AverageGap = 2
    DueTime = 10
SPECIFICATION OneSensorSpec
INVARIANTS
    EverySampleAveraged
    LastIsInDatabase
    LookedAtWhenDue
PROPERTIES
    AverageInRange
    RowsApart
\* The clock comes to its bound.
CHECK_DEADLOCK FALSE
