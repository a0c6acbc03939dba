SPECIFICATION RescheduleSpec
CONSTANTS
    p1 = p1  p2 = p2
    Executions = {p1, p2}
    Ceilings = {1, 2}
PROPERTY AttributionIsReadOffTheWrite
