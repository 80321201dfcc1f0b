SPECIFICATION HFairSpec
CONSTANTS
    Peers = {p1, p2}
    MaxRearms = 1
    MaxSignals = 3
INVARIANTS HTypeOK ConsistentUnlessOverlapped LeaveIsPending
PROPERTIES DepartedSourceForgotten DBusHandlerFallsQuiet
CHECK_DEADLOCK FALSE
