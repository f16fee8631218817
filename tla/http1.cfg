SPECIFICATION Spec
CONSTANTS
    Requests <- MCRequests
    BufSize = 4
    Budget = 2
    PrefaceLen = 2
    MaxSent = 3
INVARIANTS
    AnswersInOrder
    PromiseKept
    NeverWaitsForWhatItHas
CHECK_DEADLOCK FALSE
