CONSTANTS
    k1 = k1
    k2 = k2
    v1 = v1
    v2 = v2
    NoKey = NoKey
    BadKey = BadKey
    NoVal = NoVal
    Keys = {k1, k2}
    Vals = {v1, v2}
    NPages = 4
    PageContent = 8
    HeaderSize = 1
    ValLen <- EvenLen
    ZeroCrc = {v2}
    AllowPowerLoss = FALSE
    MaxRestarts = 0
SPECIFICATION Spec
PROPERTY
    RealignMovesAll
