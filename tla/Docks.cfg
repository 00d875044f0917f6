SPECIFICATION Spec
CONSTANTS
    Dock = {d1, d2}
    SocketId = {i1, i2}
    Caller = {c1, c2}
    QueueCap = 1
    MaxBinds = 3
    MaxMessages = 2
    MaxBatch = 2
INVARIANTS
    TypeOK
    OnlyLiveRegistered
    EachOnce
    
CHECK_DEADLOCK FALSE
