SPECIFICATION HistorySpec
CONSTANTS
    Driver = {d1}
    MaxDays = 2
    MaxExecs = 2
    MaxJobs = 2
    MaxFaults = 2
PROPERTIES EveryClaimDecided
