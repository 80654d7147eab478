SPECIFICATION Spec
CONSTANTS
    r1 = r1
    r2 = r2
    p1 = p1
    p2 = p2
    NoRun = NoRun
    NoRows = NoRows
    NoPage = NoPage
    Runs <- TwoRuns
    Pages <- TwoPages
    Reach <- BothAndOne
    Planned <- TwoAndOne
SYMMETRY RunSymmetry
CHECK_DEADLOCK FALSE
INVARIANTS TypeOK ReportedAsStored EvidenceHasProvenance
