CONSTANTS
    MaxReq = 2
    MaxPushes = 0
    MaxFaults = 2
    MaxMixed = 1
    MaxWaits = 6
    AppKinds = {"req"}
    Subscribes = FALSE
    Delivers = FALSE
    Heartbeats = FALSE
    Reconnects = TRUE
    Addresses = 2
    Reachable = {1}
    IntMax = 100
    Drawn = 0
    CanStop = TRUE
    eTimeout = eTimeout
    NoData = NoData
    NoId = NoId
SPECIFICATION FairSpec

    
PROPERTIES
    ImplementsContract
    AttemptedIsCalled
    ComesOnline
    AcceptedIsCalled
CHECK_DEADLOCK FALSE
