SPECIFICATION MCFairSpec
CONSTANTS
    Kernels = {k1, k2}
    Operated = {k1}
    Readings <- TwoReadings
    FreshFor = 1
    LeaseFor = 1
    Starts <- SwitchOrFault
    None = None
    lead = lead
    sub = sub
    LoopStarts <- CalmLoopStarts
    AppStarts <- CalmServerStarts
    Called <- Calling
    Signals = {"safe", "final"}
    Reaction = 1
    TicksLeft = {2}
    MaxHooks = 2
    AppHooks = 3
    MaxAlarms = 2
    MaxFaults = 1
CHECK_DEADLOCK FALSE
INVARIANTS
    LeaseLags
    OffHolds
PROPERTIES
    CalmReopensAll
    DangerRestricts
