SPECIFICATION Spec
CONSTANTS
    c1 = c1
    c2 = c2
    Clients <- TwoClients
    Lengths <- FewOctets
    Room = 3
    MaxMessages = 2
CHECK_DEADLOCK FALSE
INVARIANTS
    StreamIntact
    NoneLeftOut
PROPERTIES
    HeldUpByOneOnly
