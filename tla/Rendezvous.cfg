SPECIFICATION Spec
CONSTANTS
    HavenView = {1, 2, 3}
    ClientView = {2, 3}
    DHT_REDUNDANCY = 2
    SHARD_TTL = 4
    REGISTERED_TTL = 4
    CACHE_TTL = 2
    SEEN_TTI = 1
    MaxMoves = 1
    MaxFaults = 2
INVARIANTS
    LocatorFresh
    LocatorKept
    AnswersAsked
PROPERTY
    Reachable
