SPECIFICATION ASpec
CONSTANTS
    Socials <- MCSocials
    MaxAdds = 2
    MaxJoins = 1
    MaxSwitches = 0
INVARIANT JoiningSourceKeepsGroup
CONSTRAINT Bounded
CHECK_DEADLOCK FALSE
