SPECIFICATION FairSpec
CONSTANTS
    Puzzles = {p}
    Sessions = {s}
    Keys = {k}
    NoSession = NoSession
    NoKey = NoKey
    Reviewers = {r1, r2, r3}
    Completers = {}
    Hinters = {h}
    MaxAborts = 0


PROPERTIES EveryReviewIsServed
CHECK_DEADLOCK FALSE
