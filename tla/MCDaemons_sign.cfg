CONSTANTS
    Starts <- SomeStarts
    EveryOf <- SomeRequests
    Lateness = {1}
    MaxWaits = 2
    RomBits = 3
    Roms <- FourRoms
    MaxChanges = 1
    Configurations <- SomeConfigurations
    Supported <- ThreeSupported
    IntervalOf <- UnevenRomIntervals
    ReadTimes = {0, 2}
    Oversleep = {0, 1}
    Uptimes = {0, 20}
    OwMaxTime = 30
    Interval = 6
    MaxTries = 3
    Codes <- EdgeCodes
    Relays = {1, 2}
    AO = AO
    Voltages = {10, 11}
    MaxVoltage = 10
    Messages <- SomeMessages
    MaxMessages = 2
    MaxRestarts = 1
    Sensors = 2
    DhtInterval <- OneShortInterval
    Second = 2
    Attempts = 2
    Measures = {55, 56}
    Lowest <- MinusThirty
    Highest = 55
    DhtOversleep = {0, 1}
    DhtUptimes = {0, 44}
    DhtMaxTime = 57
    Procs = {p1, p2}
    NoProc = none
    ConnectTries = 2
    MaxStarts = 2
    LifeScripts = {s1, s2}
SPECIFICATION UnipiOnly
INVARIANTS
    SignIsOneBit
\* The bounds on messages and restarts let the part come to a stop.
CHECK_DEADLOCK FALSE
