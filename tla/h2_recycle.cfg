SPECIFICATION Spec
CONSTANTS
    H2_MAX_STREAMS = 2
    MAX_CONCURRENT_STREAMS = 2
    StreamIds = {1, 3, 5}
    Requests <- MCRequests
    BodyLen <- MCBodyLen
    Frames <- RecycleFrames
    MaxFlowWindow = 2
    DefaultWindow = 1
    MaxFrameSize = 2
INVARIANTS
    TypeOK
    TableInStep
    SlotsDistinct
    SlotForEveryQuota
    ServingIsOnStack
    ClosedMeansEnded
    NoRequestLeftBehind
PROPERTIES
    RecycleOnlyClosed
    ResponseFraming
