SPECIFICATION Spec
CONSTANTS
    MaxSessions = 5
    MaxSends = 2
    MaxFaults = 3
INVARIANTS
    TypeOK
    AtMostOnce
    NonceOnce
PROPERTY
    ClientHeard
CHECK_DEADLOCK FALSE
