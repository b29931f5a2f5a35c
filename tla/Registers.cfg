CONSTANTS
    MaxAddr = 2
    Rates = {1, 2}
    DefaultRate = 1
    Serials = {1}
    MaxRegs = 2
    MaxFaults = 1
    JunkAddr = {3}
    JunkRate = {2}
    Window = 1
    NoVal = NoVal
SPECIFICATION FairSpec
INVARIANTS
    RegTypeOK
    Answered
    Saved
    Current
    Shown
PROPERTIES
    Protected
    Closes
