SPECIFICATION Spec
CONSTANTS
    BufSize = 6
    MaxRx = 3
    MaxFrames = 4
    MaxDepth = 2
INVARIANTS
    OwnPayload
    NoFrameLost
CHECK_DEADLOCK FALSE
