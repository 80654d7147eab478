SPECIFICATION HistorySpec
CONSTANTS
    Driver = {d1, d2}
    MaxDays = 1
    MaxExecs = 2
    MaxJobs = 2
    MaxFaults = 1
SYMMETRY Symmetry
CONSTRAINT Bounded
INVARIANTS TypeOK OneProviderJob JobNotAbandoned
PROPERTIES ImplementsContract
