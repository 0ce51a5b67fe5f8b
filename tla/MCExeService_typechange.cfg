CONSTANTS
    a = a
    b = b
    c = c
    x = x
    y = y
    Null = Null
    Scripts = {a}
    Values = {x, y}
    Topics = {"status/room"}
    TopicOf <- OneTopic
    KindsOf <- ChangingKinds
    Positions = {1, 2}
    Requests <- OneScriptRequests
    Registers <- BothRegister
    ScanRejects = {}
    LoadRejects = {}
    Tables = {}
    MaxTime = 0
    MaxMsgs = 2
    MaxReloads = 0
    MaxEdits = 0
SPECIFICATION Spec
INVARIANTS
    NotifiedValueIsRead
\* The bounds on messages, time and requests let the system come to a stop.
CHECK_DEADLOCK FALSE
