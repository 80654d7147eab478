SPECIFICATION Spec
CONSTANTS
    Requester = {q1}
    Kinds <- OpportunityOnly
    MaxRuns = 2
    MaxFaults = 0
PROPERTIES RetryableIsRetried
