SPECIFICATION SweepSpec
CONSTANTS
    Workers = {w1}
    w1 = w1
    Users = {u1}
    u1 = u1
    Puzzles = {p1, p2}
    p1 = p1
    p2 = p2
    Rows = {r1, r2, r3, r4}
    r1 = r1
    r2 = r2
    r3 = r3
    r4 = r4
    NoRow = NoRow
    BatchMax = 1
    Backoff = 1
    Budget <- Disturbed
PROPERTIES PendingWorkGetsDone SweepSparesStopped
