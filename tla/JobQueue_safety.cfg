SPECIFICATION Spec
CONSTANTS
    Workers = {w1, w2}
    Users = {u1}
    Clients = {c1}
    w1 = w1
    w2 = w2
    u1 = u1
    c1 = c1
    MaxJobs = 2
    MaxDisruptions = 1
    MaxStops = 1
    MaxOutruns = 1
SYMMETRY Symmetric
INVARIANT TypeOK
INVARIANT OneActivePerSlot
INVARIANT ClaimExclusive
INVARIANT RunningIsHeld
PROPERTY FinishedOnlyFromRunning
CHECK_DEADLOCK FALSE
