SPECIFICATION ProgramSpec
CONSTANTS
    MaxManagers = 1
    MaxSpawns = 1
    MaxMishaps = 1
    MaxRecords = 1
    MaxActivations = 1
    MaxActs = 1
    Stamp = {1}
INVARIANT ShutdownRestores
CHECK_DEADLOCK FALSE
