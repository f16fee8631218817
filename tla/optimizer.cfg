SPECIFICATION Spec
CONSTANTS
    orig = orig
    fast = fast
    tight = tight
    wrong = wrong
    subtle = subtle
    clobbers = clobbers
    torn = torn
    greedy = greedy
    empty = empty
    None = None
    Programs <- MCPrograms
    Pristine = orig
    Torn = torn
    Trait <- MCTrait
    Outputs <- MCOutputs
    Mutations <- MCMutations
    Configs <- MCConfigs
    Rounds = 3
    PerRound = 2
    Iterations = 2
    MaxCrashes = 1
INVARIANTS
    AcceptedEarned
    BestImproves
    DiskBetweenCandidates
PROPERTIES
    RunEnds
CHECK_DEADLOCK FALSE
