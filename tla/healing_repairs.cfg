SPECIFICATION HistorySpec
CONSTANTS
    Worker = {w1, w2}
    MaxAttempts = 2
    MaxRuns = 3
    MaxIncidents = 2
    Outcomes <- MainOutcomes
    Dies = TRUE
SYMMETRY Symmetry
CONSTRAINT Bounded
CHECK_DEADLOCK FALSE
INVARIANTS TypeOK OneActiveIncident RecoveredByFreshRun DriftVerifiedByRepair TriggersWithinBudget TrustedIsProven InFlightIsDriven
PROPERTIES NoTriggerOnLiveRepair ApprovesWhatItReviewed ImplementsLifecycle
