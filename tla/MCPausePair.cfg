SPECIFICATION MCFairSpec
CONSTANTS
    l1 = l1
    w1 = w1
    None = None
    Unverified = Unverified
    Pids = {l1, w1}
    Leads = {l1}
    MaxGen = 1
    IncidentLimit = 2
    MaxIncidents = 2
    MaxRequests = 0
    MaxWriteFails = 0
    MaxSignalFails = 0
    MaxFileFails = 0
    MaxCrashes = 1
    MaxFaults = 1
    Unreadable = {}
    Ageing = FALSE
    ReuseMidTick = FALSE
PROPERTIES
    PairPressureRecovers
    SoloRequestsAnswered
