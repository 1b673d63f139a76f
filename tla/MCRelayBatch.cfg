SPECIFICATION Spec
CONSTANTS
    Node = {lu, gr}
    Source = lu
    Target = gr
    NoNode = NoNode
    Key = {k1, k2}
    Token = {t1, t2}
    NoToken = NoToken
    Capacity <- RoomForAll
    MaxFaults = 0
    Route <- ParallelRoute
    MayLapse <- AtSource
    MayInvalidate <- Nowhere
INVARIANTS
    WholeBatch
CHECK_DEADLOCK FALSE
