SPECIFICATION LiveSpec
CONSTANTS
    Node = {lu, a, gr}
    Source = lu
    Target = gr
    NoNode = NoNode
    Key = {k1}
    Token = {t1}
    NoToken = NoToken
    Capacity <- RoomForAll
    MaxFaults = 0
    Route <- ParallelRoute
    MayLapse <- AtSource
    MayInvalidate <- Nowhere
PROPERTIES
    VoidSpreads
    ErasedWhenLapsed
CHECK_DEADLOCK FALSE
