SPECIFICATION ASpec
CONSTANTS
    Socials <- MCSocials
    MaxAdds = 2
    MaxJoins = 2
    MaxSwitches = 1
INVARIANTS
    ATypeOK
    ResolutionFits
    OneGroup
    HandlerFollowsGroup
    PromptAfterAll
    NextSourceCanConnect
    EndedSessionsRecorded
PROPERTIES
    RotationSparesStream
CONSTRAINT Bounded
CHECK_DEADLOCK FALSE
