SPECIFICATION ProgramSpec
CONSTANTS
    MaxManagers = 2
    MaxSpawns = 2
    MaxMishaps = 1
    MaxRecords = 1
    MaxActivations = 2
    MaxActs = 1
    Stamp = {1, 2}
INVARIANTS
    ProgramTypeOK
    FilesAreWhole
    MemoryIsSaved
    PortInRange
    OneSupplicant
    SocketIsOurs
    NoFight
    HandedBack
PROPERTIES
    OnlyOldestDropped
    SavesAreAtomic
    ShutdownEnds
CHECK_DEADLOCK FALSE
