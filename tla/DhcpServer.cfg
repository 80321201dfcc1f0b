SPECIFICATION DSpec
CONSTANTS
    Clients = {c1, c2, c3}
    PoolSize = 2
    MaxHandlers = 2
    MaxJoins = 3
INVARIANTS DTypeOK DistinctInTurn AnnouncedIsGiven
CHECK_DEADLOCK FALSE
