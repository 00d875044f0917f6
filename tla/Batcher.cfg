SPECIFICATION Spec
CONSTANTS
    Endpoint <- MCEndpoint
    Length <- MCLength
    SourceDock = 70000
    LIMIT = 8192
    OVERHEAD = 10
    PAYLOAD = 8192
    OutgoingCap = 2
    MaxCalls = 4
INVARIANTS
    Conserved
    
PROPERTY
    EveryMessageLeaves
