SPECIFICATION Spec
CONSTANTS
    Node = {lu, gr}
    Source = lu
    Target = gr
    NoNode = NoNode
    Key = {k1}
    Token = {t1}
    NoToken = NoToken
    Capacity <- RoomForAll
    MaxFaults = 2
    Route <- ParallelRoute
    MayLapse <- Everywhere
    MayInvalidate <- Everywhere
INVARIANTS
    TypeOK
    DeliveredOnce
    HopVoided
    AcksAcceptable
    FailureNotForgotten
PROPERTIES
    NoRevival
    PromiseKept
CHECK_DEADLOCK FALSE
