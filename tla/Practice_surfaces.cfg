SPECIFICATION Spec
CONSTANTS
    None = None
    Puzzles = {1, 2, 3}
    Facts <- MCFacts
    GateOn = TRUE
    Day = 2
    MinDiagnoses = 2
    MinAttempts = 2
    MinPuzzles = 1
    MinForLine = 2
    RecentWindow = 4
    FourHours = 1
    WarmupDays = 1
    Moves = {"a", "b", "c"}
    MaxMoves = 2
    Trained0 <- MCTrained0
    Analysed0 = {2, 3}
    Corrections <- MCCorrections
    QueueRequests <- MCQueueRequests
    ListRequests <- MCListRequests
    SessionSize = 2
    MaxTime = 3
    MaxRequests = 3
INVARIANTS
    GateFollowsTheExposure
    ServesInOrder
    SurfacesAgree
    SolvedLinesVerify
