SPECIFICATION HistorySpec
CONSTANTS
    Driver = {d1, d2}
    MaxDays = 1
    MaxExecs = 1
    MaxJobs = 2
    MaxFaults = 0
INVARIANTS OneJobPerExecution
SYMMETRY Symmetry
