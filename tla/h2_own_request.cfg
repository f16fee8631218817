SPECIFICATION Spec
CONSTANTS
    H2_MAX_STREAMS = 2
    MAX_CONCURRENT_STREAMS = 2
    StreamIds = {1, 3}
    Requests <- MCRequests
    BodyLen <- MCBodyLen
    Frames <- ErrorFrames
    MaxFlowWindow = 2
    DefaultWindow = 1
    MaxFrameSize = 2
INVARIANT OwnRequest
