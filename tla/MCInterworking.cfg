SPECIFICATION Spec
CONSTANTS
    up = up
    d1 = d1
    d2 = d2
    Node = {up, d1, d2}
    NoNode = NoNode
    Key = {k1, k2, k3}
    Token = {}
    NoToken = NoToken
    Association <- Pairs
    LocalSAE <- LocalHere
    Route <- RouteBeyond
    Incoming <- OnlyUp
    Content = {x, y}
    NoContent = NoContent
    NoAssociation = NoAssociation
    Capacity = 2
    MaySettle = {k1}
    MaxBatch = 2
    MayLapse = {k1}
    MayVoidAll <- AllFromUp
SYMMETRY Alike
INVARIANTS
    TypeOK
    OutboxTruthful
    VoidsAnswered
    OneContent
    EvenSplit
CHECK_DEADLOCK FALSE
