SPECIFICATION MCSpec
CONSTANTS
    p1 = p1  p2 = p2  p3 = p3
    s1 = s1  s2 = s2
    i1 = i1  i2 = i2  i3 = i3
    Passes = {p1, p2, p3}
    Sources = {s1}
    Items = {i1}
    Payloads <- OneOrNothing
    Conforming = {i1}
    Near = {}
    Relevance <- MCRelevance
    GateThreshold = 1
    Readable = {i1}
    Window = 2
    Ceiling = 1
    Threshold = 2
CHECK_DEADLOCK FALSE
PROPERTIES
    FlagIsNeverCleared
