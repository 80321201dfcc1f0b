SPECIFICATION DSpec
CONSTANTS
    Clients = {c1}
    PoolSize = 2
    MaxHandlers = 2
    MaxJoins = 1
INVARIANT GroupIsServed
CHECK_DEADLOCK FALSE
