SPECIFICATION Spec
CONSTANTS
    Octets <- Boundaries
CHECK_DEADLOCK FALSE
INVARIANTS
    TypeOK
    TakesOnlyCharacters
    WaitsForARest
    RejectsNoText
