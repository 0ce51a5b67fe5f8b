CONSTANTS
    a = a
    b = b
    c = c
    d = d
    e = e
    x = x
    y = y
    Null = Null
    Scripts = {a, b, c, d, e}
    Values = {x, y}
    Topics = {"status/room"}
    TopicOf <- OneTopic
    KindsOf <- FixedKinds
    Positions = {1, 2}
    Requests <- ModeRequests
    Registers <- BothRegister
    ScanRejects = {d}
    LoadRejects = {e}
    Tables <- OtherTables
    MaxTime = 1
    MaxMsgs = 2
    MaxReloads = 2
    MaxEdits = 1
SPECIFICATION ModeSpec
INVARIANTS
    NotifiedValueIsRead
    RequestedIsLoaded
PROPERTIES
    WaitEndsUnlessMissed
    ReloadEndsUnlessMissed
\* The bounds on messages, time and requests let the system come to a stop.
CHECK_DEADLOCK FALSE
