SPECIFICATION HSpec
CONSTANTS
    Peers = {p1}
    MaxRearms = 1
    MaxSignals = 2
INVARIANT DisplayedPinIsArmed
CHECK_DEADLOCK FALSE
