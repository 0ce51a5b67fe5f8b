CONSTANTS
    s = s
    t = t
    a = a
    b = b
    c = c
    d = d
    m = m
    n = n
    on = on
    temp = temp
    Sensors = {s, t}
    Values = {a, b, c, d}
    ValuesOf <- TwoSensors
    Nodes = {m, n}
    NodeOf <- TwoNodes
    Labels = {on, temp}
    LabelOf <- SameLabel
    Status = {a, b, c, d}
    Set = {b, c, d}
    WriteOnly = {b}
    ReadOnly = {c}
    Invalid = {d}
    Convertible = {a, b}
    Limit <- NoLimit
    CfgRefresh <- NoRefresh
    NoMessage = NoMessage
    InfoWait = 2
    MinSleep = 1
    MaxSleep = 2
    Day = 4
    MaxTime = 5
    MaxMsgs = 2
SPECIFICATION Spec
INVARIANTS
    OnlyKnownNodes
    OnlyWritableSensorsSet
PROPERTIES
    ReportedWhenReady
    PreparationEnds
\* The daemon is terminated and the clock comes to its bound.
CHECK_DEADLOCK FALSE
