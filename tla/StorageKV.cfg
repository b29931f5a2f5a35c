CONSTANTS
    k1 = k1
    k2 = k2
    v1 = v1
    v2 = v2
    NoKey = NoKey
    BadKey = BadKey
    NoVal = NoVal
    Keys = {k1, k2}
    Vals = {v1, v2}
    NPages = 7
    PageContent = 8
    HeaderSize = 1
    ValLen <- EvenLen
    ZeroCrc = {}
    AllowPowerLoss = FALSE
    MaxRestarts = 1
SPECIFICATION Spec
SYMMETRY Symmetry
INVARIANTS
    Bookkeeping
    OneCopy
PROPERTIES
    KVSpec
