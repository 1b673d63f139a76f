SPECIFICATION Spec
CONSTANTS
    Key = {k1, k2, k3}
    Pair = {ab, cd}
    Token = {t1, t2}
    Caller = {c1, c2}
    Capacity = 3
    MaxBatch = 2
INVARIANTS
    DeliveredOnce
    WholeBatch
    SlaveAfterMaster
    OnlyExpiryStrands
PROPERTIES
    NoStaleDelivery
    PromiseKept
SYMMETRY Symmetry
CHECK_DEADLOCK FALSE
