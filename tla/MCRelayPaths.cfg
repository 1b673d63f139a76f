SPECIFICATION Spec
CONSTANTS
    Node = {lu, a, b, gr}
    Source = lu
    Target = gr
    NoNode = NoNode
    Key = {k1}
    Token = {}
    NoToken = NoToken
    Capacity <- RoomForAll
    MaxFaults = 1
    Route <- ParallelRoute
    MayLapse <- AtSource
    MayInvalidate <- Nowhere
INVARIANTS
    SinglePath
    ReadyMeansNextHolds
SYMMETRY Relays
CHECK_DEADLOCK FALSE
