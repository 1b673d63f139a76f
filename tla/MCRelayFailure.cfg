SPECIFICATION Spec
CONSTANTS
    Node = {lu, gr}
    Source = lu
    Target = gr
    NoNode = NoNode
    Key = {k1}
    Token = {t1}
    NoToken = NoToken
    Capacity <- RoomForAll
    MaxFaults = 0
    Route <- ParallelRoute
    MayLapse <- Everywhere
    MayInvalidate <- Nowhere
INVARIANTS
    FailureReachesSource
CHECK_DEADLOCK FALSE
