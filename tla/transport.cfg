SPECIFICATION FairSpec
CONSTANTS
    StageSize = 3
    MaxPlain = 2
    MaxPart = 4
    MaxBytes = 6
INVARIANTS
    SealedPrefix
PROPERTIES
    ImplementsChannel
    EverythingDelivered
CHECK_DEADLOCK FALSE
