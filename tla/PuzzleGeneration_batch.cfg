SPECIFICATION RunSpec
CONSTANTS
    best = best
    other = other
    third = third
    Games <- ThreeGames
    Interval = 2
    MaxPuzzles = 2
    SwingThreshold = 2
    Tolerance = 0
    Margin = 3
    Evals = {0, 1, 3}
    Moves = {best, other, third}
    TopMoves <- Lists
    MaxRunFaults = 2
    NoMove = NoMove
INVARIANTS StatusTellsTheTruth CandidatesAreAccounted HeartbeatsBoundTheGap
CHECK_DEADLOCK FALSE
