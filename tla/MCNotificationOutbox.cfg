SPECIFICATION MCFairSpec
CONSTANTS
    a1 = a1
    None = None
    Alerts = {a1}
    MaxEpisodes = 1
    Channels = FALSE
    MaxLedger = 3
    MaxWriteFails = 1
    MaxQueueFails = 1
    MaxSpawnFails = 0
    MaxCrashes = 1
    MaxFaults = 1
    MaxHooks = 2
    MayDegrade = TRUE
INVARIANTS
    TypeOK
    QueuedKept
    SentOnce
PROPERTIES
    DeliveredKept
    EdgesPromised
    EdgesTold
    QueuedSettled
