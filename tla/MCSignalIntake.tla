--------------------------- MODULE MCSignalIntake ---------------------------
EXTENDS SignalIntake, TLC

CONSTANTS w1, w2, c1, r1, r2, k1, k2

MCWorker == {w1, w2}
MCCollector == {c1}
MCRun == {r1, r2}
MCKey == {k1, k2}

Symmetry == Permutations(MCWorker) \cup Permutations(MCRun) \cup Permutations(MCKey)
=============================================================================
