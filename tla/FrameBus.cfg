CONSTANTS
    BufSize = 2
    RefMax = 1
    Kinds = {"ours", "broadcast", "other"}
    MaxFrames = 2
    MaxLen = 3
    MaxGap = 1
    MinSilence = 8
SPECIFICATION FairSpec
INVARIANTS
    IInv
    Timed
    Balanced
    Unbroken
    Exact
PROPERTIES
    SilenceRespected
    BufferHeld
    Served
    Recovers
