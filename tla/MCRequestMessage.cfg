CONSTANTS
    d1 = d1
    d2 = d2
    d3 = d3
    i1 = i1
    i2 = i2
    rsp = rsp
    Data = {d1, d2, d3}
    Ids = {i1, i2}
    Rsps = {rsp}
    eTimeout = eTimeout
    NoData = NoData
    NoId = NoId
    MaxWaits = 2
SPECIFICATION FairSpec
INVARIANTS
    AtMostOnce
PROPERTIES
    ArmedIsCalled
