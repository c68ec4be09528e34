SPECIFICATION Spec
CONSTANTS
    l1 = l1
    w1 = w1
    None = None
    Unverified = Unverified
    Pids = {l1}
    Leads = {l1}
    MaxGen = 1
    IncidentLimit = 2
    MaxIncidents = 1
    MaxRequests = 1
    MaxWriteFails = 0
    MaxSignalFails = 0
    MaxFileFails = 0
    MaxCrashes = 0
    MaxFaults = 2
    Unreadable = {}
    Ageing = FALSE
    ReuseMidTick = FALSE
INVARIANTS
    FailedProbationHeld
