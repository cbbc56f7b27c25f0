SPECIFICATION Spec
CONSTANTS
    Puzzles = {p, q}
    Sessions = {s}
    Keys = {k}
    NoSession = NoSession
    NoKey = NoKey
    Reviewers = {r1, r2, r3}
    Completers = {c}
    Hinters = {}
    MaxAborts = 1
SYMMETRY Symmetric
INVARIANTS TypeOK SessionCountsReviews StreaksFollowReviews StatsFollowReviews AnswersReportTheLedger
PROPERTIES SummaryIsFinal KeepsTheLedger
CHECK_DEADLOCK FALSE
