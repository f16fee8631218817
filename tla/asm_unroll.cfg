SPECIFICATION Spec
CONSTANTS
    CallerNums = {0, 1, 2, 3}
    CalleeNums = {19}
    Bodies = {}
    Copies <- MCCopies
    Lengths <- MCLengths
    LenMod = 256
    Frame = 32
    BodyLen = 3
INVARIANT UnrollEquivalent
CHECK_DEADLOCK FALSE
