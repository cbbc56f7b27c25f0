SPECIFICATION Spec
CONSTANTS
    Savers = {s1, s2, s3}
    Generators = {g1}
    Reviewers = {v1}
    Namers = {n1}
    Positions = {p1, p2, p3}
    Names = {fork, pin}
    NameOf <- SameName
    s1 = s1
    s2 = s2
    s3 = s3
    g1 = g1
    v1 = v1
    n1 = n1
    p1 = p1
    p2 = p2
    p3 = p3
    fork = fork
    pin = pin
    MaxAttempts = 2
    TitleAttempts = 2
SYMMETRY Symmetric
INVARIANT PliesAreASequence
INVARIANT TypedNamesAreShown
INVARIANT FailuresNeedRivals
PROPERTY KeepsTheBook
CHECK_DEADLOCK FALSE
