SPECIFICATION Spec
CONSTANTS
    Imports = {i1, i2, i3}
    NoImport = NoImport
    Months = 3
    GamesPerMonth = 2
    BatchSize = 2
    MaxFaults = 1
SYMMETRY Symmetric
INVARIANTS NoGapBehindTheNewest SuccessIsComplete SummaryCountsStored
CHECK_DEADLOCK FALSE
