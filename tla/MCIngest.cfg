SPECIFICATION Spec
CONSTANTS
    Key = {k1, k2}
    Token = {t1, t2}
    NoToken = NoToken
    Capacity = 2
    MaxBatch = 2
    MaxFaults = 2
INVARIANTS
    DeliveredOnce
    AskedOnce
    IntentFirst
    HeldForARequest
    WholeBatch
PROPERTIES
    OutcomesAreFinal
SYMMETRY Symmetry
CHECK_DEADLOCK FALSE
