SPECIFICATION Spec
CONSTANTS
    Fingerprint = {1, 2, 3}
    Relay = {2, 3}
    Neighbours <- MCNeighbours
    Task = {t1, t2}
    Timeouts = TRUE
    ROUTE_TIMEOUT = 0
    WORD = 16
    MaxTime = 1
INVARIANTS
    ClientsPrivate
    OfferedAccepted

    
SYMMETRY
    MCSymmetry
