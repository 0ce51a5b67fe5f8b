CONSTANTS
    a = a
    b = b
    c = c
    x = x
    y = y
    Null = Null
    Scripts = {a, b}
    Values = {x, y}
    Topics = {"status/room"}
    TopicOf <- OneTopic
    KindsOf <- DoubleKinds
    Positions = {1, 2}
    Requests <- SharedRequests
    Registers <- BothRegister
    ScanRejects = {}
    LoadRejects = {}
    Tables = {}
    MaxTime = 1
    MaxMsgs = 1
    MaxReloads = 1
    MaxEdits = 0
SPECIFICATION Spec
INVARIANTS
    StopWakesAll
    NoDangling
    EveryEventCounted
PROPERTIES
    ReturnsOnlyFulfilled
    EngineSpec
\* The bounds on messages, time and requests let the system come to a stop.
CHECK_DEADLOCK FALSE
