SPECIFICATION HistorySpec
CONSTANTS
    Worker = {w1}
    MaxAttempts = 2
    MaxRuns = 3
    MaxIncidents = 3
    Outcomes <- AllOutcomes
    Dies = FALSE
CHECK_DEADLOCK FALSE
INVARIANTS DriftNeedsRepair
