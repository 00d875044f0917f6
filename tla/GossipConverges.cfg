SPECIFICATION FairSpec
CONSTANTS
    Fingerprint = {1, 2, 3, 4}
    Relay = {2, 3, 4}
    Neighbours <- MCLonger
    Task = {t1, t2}
    Timeouts = FALSE
    ROUTE_TIMEOUT = 0
    WORD = 16
    MaxTime = 0
PROPERTY
    Converges
