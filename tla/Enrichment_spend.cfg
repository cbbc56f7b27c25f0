SPECIFICATION Spec
CONSTANTS
    Users <- MCUsers
    NoUser = "nobody"
    Workers <- MCWorkers
    Puzzles <- MCPuzzles
    Owner <- MCOwner
    Evidence <- MCEvidence
    NoPosition <- MCNoPosition
    UserTitled <- MCUserTitled
    Responses = {"accepted", "rejected", "error"}
    KeyPresent = TRUE
    CapUser <- MCCapUser
    CapGlobal <- MCCapGlobal
    CommitInterval = 2
    NamingBatchMax = 1
    ErrorStreakLimit = 2
    Budget <- MCBudget
INVARIANTS
    SpendIsBounded
    StoredIsAccounted
PROPERTIES
    ChainStops
CHECK_DEADLOCK FALSE
