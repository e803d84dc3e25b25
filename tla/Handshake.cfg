SPECIFICATION Spec
CONSTANTS
    Requests <- ManyRequests
    OriginSets <- NoneAndOne
CHECK_DEADLOCK FALSE
INVARIANTS
    CutsDoNotMatter
    CutLineDropped
    LetsInTheWanted
    HeadersAsSent
    AwaitsTheRestOnly
