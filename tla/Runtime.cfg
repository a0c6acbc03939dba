SPECIFICATION Spec
CONSTANTS
    q1 = q1  q2 = q2  q3 = q3
    SIGTERM = SIGTERM
    SIGINT = SIGINT
    uncaughtException = uncaughtException
    N = 2
    Requests = {q1, q2}
    Signals = {SIGTERM, uncaughtException}
    Once = {SIGTERM}
    BreakerThreshold = 2
CHECK_DEADLOCK FALSE
SYMMETRY Symmetry
INVARIANTS
    StatusTellsTheResource
    ShutdownOrder
    CircuitFollowsItsCalls
