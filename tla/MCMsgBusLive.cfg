CONSTANTS
    c1 = c1
    c2 = c2
    s1 = s1
    s2 = s2
    NoSession = NoSession
    Clients = {c1, s1, s2}
    Callers = {c1}
    Publishers = {s2}
    Deliverers = {s1, s2}
    BaseRepliers = {s2}
    Listeners = {c1, s1}
    MaxFaults = 1
    MaxReq = 1
    MaxPub = 1
SPECIFICATION FairSpec
INVARIANTS
    OnlyDeliverersHear
PROPERTIES
    ServedIsCalled
CHECK_DEADLOCK FALSE
