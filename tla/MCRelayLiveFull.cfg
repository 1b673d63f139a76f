SPECIFICATION LiveSpec
CONSTANTS
    Node = {lu, gr}
    Source = lu
    Target = gr
    NoNode = NoNode
    Key = {k1, k2}
    Token = {}
    NoToken = NoToken
    Capacity <- FullTarget
    MaxFaults = 1
    Route <- ParallelRoute
    MayLapse <- OneKeyAtSource
    MayInvalidate <- Nowhere
PROPERTIES
    TransferSettles
    VoidSpreads
    OutboxDrainsUnlessCrossed
CHECK_DEADLOCK FALSE
