SPECIFICATION Spec
CONSTANTS
    Conn = {c1, c2, c3, c4}
    TTL = 3
    MaxFaults = 3
INVARIANTS
    TypeOK
    UpIsEntered
    Heals
PROPERTIES
    KeptWhileRenewed
    Reconnects
