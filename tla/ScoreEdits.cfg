SPECIFICATION Spec
CONSTANTS
    Null = Null
    p1 = p1  p2 = p2
    f1 = f1  f2 = f2  x = x
    d1 = d1  d2 = d2
    t1 = t1  t2 = t2
    c1 = c1  c2 = c2
    Passes = {p1, p2}
    Findings = {f1, f2, x}
    Documents = {d1, d2}
    DocumentOf <- MCDocumentOf
    Foreign = {x}
    Handovers <- MCHandovers
    TermLists = {t1, t2}
    Digest <- MCDigest
    DigestSpan = 2
    Categories = {c1, c2}
    Statements <- MCStatements
    Measured <- MCMeasured
    Weightings <- MCWeightings
    MechanismLimit = 1
    EditLimit = 1
    CrashLimit = 1
CHECK_DEADLOCK FALSE
SYMMETRY Symmetry
INVARIANTS
    ScoresOfAPassCompare
    StatusTellsTheScores
PROPERTIES
    UndisturbedScoreIsCurrent
