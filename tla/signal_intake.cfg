SPECIFICATION Spec
CONSTANTS
    w1 = w1  w2 = w2
    c1 = c1
    r1 = r1  r2 = r2 
    k1 = k1  k2 = k2
    Worker <- MCWorker
    Collector <- MCCollector
    Run <- MCRun
    Key <- MCKey
    MaxBatch = 2
    MaxIncidents = 2
    MaxFaults = 1
    Unstorable = Unstorable
    OffContract = OffContract
    NoRun = NoRun
    NoCollector = NoCollector
    NoData = NoData
SYMMETRY Symmetry
INVARIANTS TypeOK SignalsAreVouched ReportedAsIngested ActiveCountCoversActive ListedIsTrusted
