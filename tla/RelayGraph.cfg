SPECIFICATION Spec
CONSTANTS
    Fingerprint <- MCFingerprint
    ROUTE_TIMEOUT = 1
    MaxTime = 2
    WORD = 16
    MaxId = 4
INVARIANT
    GraphInv
PROPERTIES
    IdsNeverReused
    LinkLossExplained
    LinksJoinLiveNodes
    ImplementsTopology
