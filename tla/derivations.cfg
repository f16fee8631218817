SPECIFICATION Spec
CONSTANTS
    B = 2
    AccHalf = 2048
    M = 4
    N = 251
    Run = 4
    Ladder <- MCLadder
    Doubling <- MCDoubling
    Prime = 59
    Order = 61
    Generator <- MCGenerator
    Window = 2
    BLOCKS = 3
    CtrMod = 16
    MulOperands <- MCMulOperands
    WideInputs <- MCWideInputs
    MontOperands <- MCMontOperands
    LowParts <- MCLowParts
    Scalars <- MCScalars
    Counters <- MCCounters
INVARIANTS
    FieldExact
    MontExact
    ChainFollowsExponent
    CombExact
    CountersAgree
CHECK_DEADLOCK FALSE
