CONSTANTS
    c1 = c1
    c2 = c2
    s1 = s1
    s2 = s2
    NoSession = NoSession
    Clients = {c1, c2, s1, s2}
    Callers = {c1, c2}
    Publishers = {}
    Deliverers = {s1, s2}
    BaseRepliers = {}
    Listeners = {}
    MaxFaults = 1
    MaxReq = 2
    MaxPub = 0
SYMMETRY Alike
SPECIFICATION Spec
INVARIANTS
    OwnAnswer
    RoutedOnce
CHECK_DEADLOCK FALSE
