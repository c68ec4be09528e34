SPECIFICATION MCSpec
CONSTANTS
    lead = lead
    sub = sub
    Leads = {lead}
    Subs = {sub}
    Starts <- LoopStarts
    Called <- Calling
    Signals = {"safe", "final", "lead"}
    Reaction = 1
    TicksLeft = {2}
    MaxHooks = 2
    MaxAlarms = 2
    MaxFaults = 1
    AppStarts <- ServerStarts
    AppHooks = 3
    None = None
CHECK_DEADLOCK FALSE
INVARIANTS
    EpochNamesState
    MismatchUnlessBlind
PROPERTIES
    LeadsYieldLast
    HandoffBeforePause
    GateOpensLast
    ReopensAfterCalm
