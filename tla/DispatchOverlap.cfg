SPECIFICATION MishapSpec
CONSTANTS
    Null = Null
    t1 = t1  t2 = t2  e1 = e1
    d1 = d1  d2 = d2  d3 = d3
    k1 = k1  k2 = k2
    o1 = o1  o2 = o2
    Topics = {t1, t2}
    Exports = {e1}
    DomainOf <- AllApart
    Ticks = {k1, k2}
    Operators = {}
    Cadences <- OneCadence
    InitialRows <- Backlog
    PauseCycles = {1}
    BatchCap = 2
    Horizon = 2
    IdleLimit = 1
    CrashLimit = 1
    EditLimit = 1
CHECK_DEADLOCK FALSE
SYMMETRY Symmetry
INVARIANTS
    CapBoundsInvocations
    InvokedUnitHasItsRun
    StatusTellsOutcome
    FailuresLeaveAnEntry
PROPERTIES
    ClaimsKeepTheirDistance
    WorkSpec
