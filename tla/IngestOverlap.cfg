SPECIFICATION OneDeathSpec
CONSTANTS
    p1 = p1  p2 = p2  p3 = p3
    s1 = s1  s2 = s2
    i1 = i1  i2 = i2  i3 = i3
    Passes = {p1, p2, p3}
    Sources = {s1}
    Items = {i1, i2, i3}
    Payloads <- MCPayloads
    Conforming = {i1, i2}
    Near <- MCNear
    Relevance <- MCRelevance
    GateThreshold = 1
    Readable = {i1, i2}
    Window = 2
    Ceiling = 2
    Threshold = 2
CHECK_DEADLOCK FALSE
SYMMETRY Symmetry
INVARIANTS
    DocumentIsAskedAboutOnce
    NearDuplicatesAreAskedAboutOnce
    FlagNeedsItsFailures
    ClosedRunLeavesNothing
    SequentialPassesCountEveryFailure
PROPERTIES
    AskOnceSpec
