CONSTANTS
    MaxReq = 3
    MaxPushes = 0
    MaxFaults = 1
    MaxMixed = 0
    MaxWaits = 6
    AppKinds = {"req"}
    Subscribes = FALSE
    Delivers = FALSE
    Heartbeats = FALSE
    Reconnects = FALSE
    Addresses = 1
    Reachable = {0}
    IntMax = 3
    Drawn = 2
    CanStop = FALSE
    eTimeout = eTimeout
    NoData = NoData
    NoId = NoId
SPECIFICATION FairSpec
PROPERTIES
    LostMeansStopped
CHECK_DEADLOCK FALSE
