CONSTANTS
    MaxSessions = 1
    MaxBusMsgs = 0
    BusWatch = FALSE
    IdleTimeout = TRUE
SPECIFICATION SSpec
INVARIANT EverySessionRecorded
CHECK_DEADLOCK FALSE
