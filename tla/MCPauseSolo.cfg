SPECIFICATION MCSpec
CONSTANTS
    l1 = l1
    w1 = w1
    None = None
    Unverified = Unverified
    Pids = {l1}
    Leads = {l1}
    MaxGen = 2
    IncidentLimit = 2
    MaxIncidents = 2
    MaxRequests = 1
    MaxWriteFails = 1
    MaxSignalFails = 1
    MaxFileFails = 0
    MaxCrashes = 1
    MaxFaults = 1
    Unreadable = {}
    Ageing = FALSE
    ReuseMidTick = FALSE
INVARIANTS
    PauseOwned
    OwnershipDurable
    IntentBeforeSignal
    IncidentsAgree
    OneOpenIncident
PROPERTIES
    OwnerResumeRespected
