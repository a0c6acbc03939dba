SPECIFICATION FairSpec
CONSTANTS
    q1 = q1  q2 = q2  q3 = q3
    SIGTERM = SIGTERM
    SIGINT = SIGINT
    uncaughtException = uncaughtException
    N = 1
    Requests = {q1}
    Signals = {SIGTERM, SIGINT}
    Once = {SIGTERM, SIGINT}
    BreakerThreshold = 2
CHECK_DEADLOCK FALSE
PROPERTIES
    ShutdownEnds
