CONSTANTS
    Delay <- ShortDelay
    CountMax = 2
    Period = 1
    RecordIntv = 0
    Size = 2
    ReadLen = 2
    Timeout = 1
    Numbers = 4
SPECIFICATION FairSpec
INVARIANTS
    SensorTypeOK
    UartTypeOK
    Paced
    HandedOver
    InBounds
    Aligned
    Fifo
PROPERTIES
    Held
    Measures
    Publishes
    Blinks
    ReadEnds
    Drains
