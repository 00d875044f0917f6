SPECIFICATION Spec
CONSTANTS
    Chunks = 2
    MaxSyns = 2
    MaxFaults = 2

    
PROPERTY
    Progress
CHECK_DEADLOCK FALSE
