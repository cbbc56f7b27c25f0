SPECIFICATION Spec
CONSTANTS
    Files = 3
    Ranks = 4
    Unknown = Unknown
    MaxBookPly = 4
    NoCall = NoCall
    NoRow = NoRow
    Puzzles <- MCPuzzles
    Answers <- MCAnswers
    Corrections = {"quiet_move_blindness"}
    MinAttempts = 1
    MaxReviews = 1
INVARIANTS
    CitationsAreMeasured
    StoredCauseIsSupported
    ContextIgnoresTheFuture
    HangingMotifMeansLoosePiece
