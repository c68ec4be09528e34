SPECIFICATION FairSpec
CONSTANTS
    MaxEpisodes = 1
    MaxRequests = 0
    MaxWriteFails = 1
    MaxFileFails = 1
    MaxSignalFails = 1
    MaxCrashes = 1
    MaxDeaths = 1
    MaxFaults = 0
PROPERTIES
    GuardResumes
