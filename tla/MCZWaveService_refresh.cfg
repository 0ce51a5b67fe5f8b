CONSTANTS
    s = s
    t = t
    a = a
    b = b
    c = c
    d = d
    m = m
    n = n
    on = on
    temp = temp
    Sensors = {s}
    Values = {a, b}
    ValuesOf <- OneSensor
    Nodes = {m}
    NodeOf <- OneNode
    Labels = {on, temp}
    LabelOf <- OwnLabels
    Status = {a, b}
    Set = {}
    WriteOnly = {}
    ReadOnly = {}
    Invalid = {}
    Convertible = {a, b}
    Limit <- LimitFirst
    CfgRefresh <- OftenFirst
    NoMessage = NoMessage
    InfoWait = 1
    MinSleep = 1
    MaxSleep = 5
    Day = 4
    MaxTime = 8
    MaxMsgs = 0
SPECIFICATION Spec
INVARIANTS
    ForcedReportPasses
    NotSleptPast
PROPERTIES
    ReportsApart
    AnsweredRequestsApart
\* The daemon is terminated and the clock comes to its bound.
CHECK_DEADLOCK FALSE
