SPECIFICATION FairSpec
CONSTANTS
    Null = Null
    t1 = t1  t2 = t2  e1 = e1
    d1 = d1  d2 = d2  d3 = d3
    k1 = k1  k2 = k2
    o1 = o1  o2 = o2
    Topics = {t1, t2}
    Exports = {}
    DomainOf <- MCDomainOf
    Ticks = {k1}
    Operators = {o1}
    Cadences <- TwoCadences
    InitialRows <- AnyStart
    PauseCycles = {1}
    BatchCap = 1
    Horizon = 2
    IdleLimit = 2
    CrashLimit = 1
    EditLimit = 1
CHECK_DEADLOCK FALSE
PROPERTIES
    DueRowIsClaimed
    ClaimedUnitSettles
