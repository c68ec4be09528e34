SPECIFICATION MCFairSpec
CONSTANTS
    Hysteresis = 3
    Reaction = 1
    MaxStep = 2
    MaxWriteFails = 1
    MaxFileFails = 1
    MaxCrashes = 1
INVARIANTS
    HeldCovers
    ChangeSaved
    ResumeAfterCalm
PROPERTIES
    Reopens
