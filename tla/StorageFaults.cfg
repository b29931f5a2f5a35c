CONSTANTS
    k1 = k1
    k2 = k2
    v1 = v1
    v2 = v2
    NoKey = NoKey
    BadKey = BadKey
    NoVal = NoVal
    Keys = {k1, k2}
    Vals = {v1}
    NPages = 3
    PageContent = 8
    HeaderSize = 1
    ValLen <- EvenLen
    ZeroCrc = {}
    AllowPowerLoss = TRUE
    MaxRestarts = 2
    BlockStarts = {2, 3, 5}
SPECIFICATION CutFairSpec
INVARIANTS
    IInv
    Bookkeeping
PROPERTIES
    FlashDiscipline
    OtherKeysKept
    Terminates
CHECK_DEADLOCK FALSE
