CONSTANTS
    k1 = k1
    k2 = k2
    v1 = v1
    v2 = v2
    NoKey = NoKey
    BadKey = BadKey
    NoVal = NoVal
    Keys = {k1, k2}
    Vals = {v1, v2}
    NPages = 4
    PageContent = 10
    HeaderSize = 2
    ValLen <- TightLen
    ZeroCrc = {}
    AllowPowerLoss = FALSE
    MaxRestarts = 1
SPECIFICATION Spec
PROPERTY
    RestartKeepsKeys
