SPECIFICATION RulingSpec
CONSTANTS
    p1 = p1  p2 = p2
    r1 = r1  r2 = r2  r3 = r3
    Proposals = {p1, p2}
    Rulings = {r1, r2, r3}
    Given = Given
    Patched = Patched
    TerminalLimit = 2
SYMMETRY Symmetry
INVARIANTS
    InForceIsAccountedFor
    AppliedAgainOnlyByAnOverlap
    LaterStampIsInForce
