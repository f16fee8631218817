SPECIFICATION Spec
CONSTANTS
    CallerNums = {0, 1, 2}
    CalleeNums = {19}
    Trees <- MCTrees
    MaxCalls = 3
    StackBytes = 48
    BodyLen = 2
INVARIANTS
    ClobbersCover
    HeaderHonest
    ContractsHold
CHECK_DEADLOCK FALSE
