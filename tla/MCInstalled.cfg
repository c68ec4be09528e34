SPECIFICATION MCSpec
CONSTANTS
    MaxEpisodes = 2
    MaxRequests = 0
    MaxWriteFails = 1
    MaxFileFails = 1
    MaxSignalFails = 1
    MaxCrashes = 1
    MaxDeaths = 1
    MaxFaults = 1
    p1 = p1
    w1 = w1
    d1 = d1
    h1 = h1
    h2 = h2
    Scripts = {p1, w1}
    Daemons = {d1}
    Nobody = Nobody
    Foreign = {h1, h2}
    Side <- WindowsSide
    HookStarts <- HookCases
    NameStarts <- NameCases
INVARIANTS
    AuthorityHeld
    StoppedOwned
    NothingLost
    WritesFresh
    NamesKept
    SettledAtEnd
PROPERTIES
    CancelFinal
    OtherSideKept
CHECK_DEADLOCK FALSE
