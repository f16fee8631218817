SPECIFICATION Spec
CONSTANTS
    CallerNums = {0, 1, 2, 3}
    CalleeNums = {19}
    Bodies <- MCBodies
    Copies <- MCCopies
    Lengths <- MCLengths
    LenMod = 256
    Frame = 32
    BodyLen = 3
INVARIANTS
    AbiSound
    FlowSound
    FlagsChecked
    ScheduleEquivalent
    UnrollExact
CHECK_DEADLOCK FALSE
