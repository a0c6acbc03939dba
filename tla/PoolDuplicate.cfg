SPECIFICATION Spec
CONSTANTS
    Null = Null
    f1 = f1  f2 = f2  f3 = f3  root = root  alias = alias
    x1 = x1  x2 = x2  p1 = p1  p2 = p2
    Findings = {f1}
    Entities = {root, alias}
    EntityOf <- MCEntityOf
    AliasOf <- MCAliasOf
    Sound = {root}
    Raisers = {x1, x2}
    Passes = {p1, p2}
    DrainLimit = 2
    CallCeiling = 1
    Window = 1
    RaiseLimit = 2
    RulingLimit = 2
    RefusalLimit = 0
    MaterialLimit = 0
    CrashLimit = 0
INVARIANT DuplicateIsOnlyInTheQueue
CHECK_DEADLOCK FALSE
