CONSTANTS
    MaxSessions = 1
    MaxBusMsgs = 2
    BusWatch = TRUE
SPECIFICATION FairSpec
INVARIANTS TypeOK SlotIsPlaying
PROPERTIES StopReturns FallsQuiet
CHECK_DEADLOCK FALSE
