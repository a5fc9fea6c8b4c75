CONSTANTS
    MaxReq = 3
    MaxPushes = 0
    MaxFaults = 1
    MaxMixed = 0
    MaxWaits = 6
    AppKinds = {"req"}
    Subscribes = TRUE
    Delivers = FALSE
    Heartbeats = TRUE
    Reconnects = TRUE
    Addresses = 1
    Reachable = {0}
    IntMax = 100
    Drawn = 0
    CanStop = FALSE
    eTimeout = eTimeout
    NoData = NoData
    NoId = NoId
SPECIFICATION Spec
INVARIANTS
    SingleWriter
    HeartbeatAlive
    NeverOutOfWork
CHECK_DEADLOCK FALSE
