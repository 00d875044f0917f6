SPECIFICATION Spec
CONSTANTS
    Task = {t1, t2}
    LIMIT = 2
    BATCH_SIZE = 2
    TTL = 2
    Capacity = 3
    MaxFlight = 1
    MaxReplies = 2
    MaxErrors = 1
INVARIANTS
    TypeOK
PROPERTY
    NotStuck
