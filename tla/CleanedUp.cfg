CONSTANTS
    MaxSessions = 1
    MaxBusMsgs = 0
    BusWatch = FALSE
SPECIFICATION Spec
INVARIANT CleanedUp
CHECK_DEADLOCK FALSE
