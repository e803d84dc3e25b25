SPECIFICATION Spec
CONSTANTS
    c1 = c1
    c2 = c2
    c3 = c3
    NULL = NULL
    Items <- Clients
    Key <- TwoColumns
    Scale = 2
    Threads <- BothThreads
    MaxMessages = 1
INVARIANTS
    FaultOnlyWhenRaced
    MessageReachesAll
    ReferencesBalance
PROPERTIES
    StopReturns
