SPECIFICATION Spec
CONSTANTS
    Null = Null
    f1 = f1  f2 = f2  f3 = f3  root = root  alias = alias
    x1 = x1  x2 = x2  p1 = p1  p2 = p2
    Findings = {f1}
    Entities = {root, alias}
    EntityOf <- MCEntityOf
    AliasOf <- MCAliasOf
    Sound = {root}
    Raisers = {x1, x2}
    Passes = {p1, p2}
    DrainLimit = 2
    CallCeiling = 1
    Window = 0
    RaiseLimit = 3
    RulingLimit = 3
    RefusalLimit = 1
    MaterialLimit = 0
    CrashLimit = 1
SYMMETRY Symmetry
INVARIANT RowsPerFindingAreBounded
INVARIANT SpendPerRowIsBounded
INVARIANT LedgerAccountsForSpend
PROPERTY GateSpec
CHECK_DEADLOCK FALSE
