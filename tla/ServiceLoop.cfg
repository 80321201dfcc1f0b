CONSTANTS
    MaxSessions = 2
    MaxBusMsgs = 0
    BusWatch = FALSE
    IdleTimeout = TRUE
SPECIFICATION SFairSpec
INVARIANTS STypeOK OneClient NoSilentDeath NoBlindStream ExitsStopped
PROPERTIES KeepsBook SignalEndsProcess DeadSessionIsReleased
CHECK_DEADLOCK FALSE
