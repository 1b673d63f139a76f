SPECIFICATION LiveSpec
CONSTANTS
    Node = {lu, gr}
    Source = lu
    Target = gr
    NoNode = NoNode
    Key = {k1}
    Token = {}
    NoToken = NoToken
    Capacity <- RoomForAll
    MaxFaults = 0
    Route <- ParallelRoute
    MayLapse <- Everywhere
    MayInvalidate <- Nowhere
PROPERTIES
    OutboxDrains
CHECK_DEADLOCK FALSE
