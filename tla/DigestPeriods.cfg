SPECIFICATION Spec
CONSTANTS
    p1 = p1  p2 = p2  p3 = p3
    f1 = f1  f2 = f2  f3 = f3
    Passes = {p1, p2, p3}
    Findings = {f1, f2, f3}
    TimeLimit = 3
CHECK_DEADLOCK FALSE
SYMMETRY Symmetry
INVARIANTS
    OnlyADraftMissesAFinding
    ToldTwiceOnlyByAnOverlap
