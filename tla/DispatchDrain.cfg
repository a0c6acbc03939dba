SPECIFICATION FairSpec
CONSTANTS
    Null = Null
    t1 = t1  t2 = t2  e1 = e1
    d1 = d1  d2 = d2  d3 = d3
    k1 = k1  k2 = k2
    o1 = o1  o2 = o2
    Topics = {t1, t2}
    Exports = {e1}
    DomainOf <- MCDomainOf
    Ticks = {k1}
    Operators = {}
    Cadences <- OneCadence
    InitialRows <- Backlog
    PauseCycles = {1}
    BatchCap = 1
    Horizon = 4
    IdleLimit = 1
    CrashLimit = 0
    EditLimit = 0
CHECK_DEADLOCK FALSE
PROPERTIES
    BacklogDrains
