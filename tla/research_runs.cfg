SPECIFICATION Spec
CONSTANTS
    Requester = {q1, q2}
    Kinds <- BothKinds
    MaxRuns = 2
    MaxFaults = 1
INVARIANTS TypeOK OneSpender MirrorsTheLatest
PROPERTIES EndedIsFinal ResearchIsKept NeverBlocked
