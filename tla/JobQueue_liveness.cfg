SPECIFICATION FairSpec
CONSTANTS
    Workers = {w1, w2}
    Users = {u1}
    Clients = {}
    w1 = w1
    w2 = w2
    u1 = u1
    MaxJobs = 2
    MaxDisruptions = 1
    MaxStops = 0
    MaxOutruns = 1
PROPERTY EveryJobSettles
CHECK_DEADLOCK FALSE
