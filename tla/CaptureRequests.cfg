SPECIFICATION MCSpec
CONSTANTS
    r1 = r1  r2 = r2  r3 = r3
    b1 = b1  b2 = b2  b3 = b3  b4 = b4
    e1 = e1  e2 = e2
    c1 = c1  c2 = c2
    g1 = g1  g2 = g2
    Requests = {r1, r2}
    Bodies = {b1, b2, b3, b4}
    Accepted = {b1, b2, b4}
    Envelope <- MCEnvelope
    Configs = {g1, g2}
    Contents = {c1, c2}
    Pulled = {c1}
    Unreadable = Unreadable
    Reading <- MCReading
    Conforming = {b1, b4}
    Declared = {b1, b2, b4}
    Threshold = 2
CHECK_DEADLOCK FALSE
SYMMETRY Symmetry
INVARIANTS
    StoredCaptureIsKept
    EndedCaptureIsHeld
    OnlyARaceFailsAGoodCapture
    FollowingCapturesFileOnce
