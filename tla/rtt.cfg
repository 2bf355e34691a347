CONSTANTS
    Server = {p, q, r}
    Prober = {p, q, r}
    electionTimeout = 10
    Draws = {0}
    Unit = 500
    Never = 100000
    MaxNow = 2
    MaxProbes = 2
    MaxReports = 1
    MaxElections = 1
    MaxRestarts = 1
SPECIFICATION Spec
SYMMETRY Symm
INVARIANTS LatencyWasMeasured RttNotOverestimated
CHECK_DEADLOCK FALSE
