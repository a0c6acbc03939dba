SPECIFICATION FairSpec
CONSTANTS
    Null = Null
    f1 = f1  f2 = f2  f3 = f3  root = root  alias = alias
    x1 = x1  x2 = x2  p1 = p1  p2 = p2
    Findings = {f1, f2, f3}
    Entities = {root, alias}
    EntityOf <- OneUnattributed
    AliasOf <- MCAliasOf
    Sound = {root}
    Raisers = {x1}
    Passes = {p1}
    DrainLimit = 2
    CallCeiling = 2
    Window = 1
    RaiseLimit = 1
    RulingLimit = 3
    RefusalLimit = 1
    MaterialLimit = 1
    CrashLimit = 0
PROPERTY ApprovedRowStopsWaiting
CHECK_DEADLOCK FALSE
