CONSTANTS
    MaxReq = 2
    MaxPushes = 1
    MaxFaults = 1
    MaxMixed = 0
    MaxWaits = 6
    AppKinds = {"pub"}
    Subscribes = TRUE
    Delivers = TRUE
    Heartbeats = TRUE
    Reconnects = TRUE
    Addresses = 1
    Reachable = {0}
    IntMax = 100
    Drawn = 0
    CanStop = TRUE
    eTimeout = eTimeout
    NoData = NoData
    NoId = NoId
SPECIFICATION Spec
INVARIANTS
    NothingLost
CHECK_DEADLOCK FALSE
