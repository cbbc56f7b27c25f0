SPECIFICATION Spec
CONSTANTS
    host = host
    Requests = {r1, r2}
    Batches = {b1}
    Procs = {host}
    Home <- OneProcess
    Positions = {p1, t1}
    Terminal = {t1}
    Versions = {v1, v2}
    MaxInflight = 1
    Permits = 1
    PoolSize = 2
    MaxCalls = 3
    MaxFaults = 1
    MaxDeploys = 1
    None = None
INVARIANTS SlotsAreConserved KnownVersionsMatch
PROPERTY EveryCallReturns
CHECK_DEADLOCK FALSE
