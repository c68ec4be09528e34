SPECIFICATION FairSpec
CONSTANTS
    Hysteresis = 3
    Reaction = 1
    MaxStep = 2
    MaxWriteFails = 0
    MaxFileFails = 0
    MaxCrashes = 0
PROPERTIES
    CapEnforced
