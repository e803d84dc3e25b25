SPECIFICATION Spec
CONSTANTS
    c1 = c1
    c2 = c2
    c3 = c3
    NULL = NULL
    Items <- Clients
    Key <- OneColumn
    Scale = 1
    Threads <- BothThreads
    MaxMessages = 1
INVARIANTS
    FaultOnlyWhenRaced
    TableExact
    MessageReachesAll
    StopClosesAll
PROPERTIES
    AddReturns
