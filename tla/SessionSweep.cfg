SPECIFICATION Spec
CONSTANTS
    u1 = u1  w1 = w1  w2 = w2  l1 = l1  l2 = l2
    q1 = q1  o1 = o1  o2 = o2
    Users = {u1}
    Passwords = {w1, w2}
    Logins = {l1}
    Requests = {q1}
    Logouts = {o1, o2}
    Ttl = 2
    Skew = 2
    ClockLimit = 5
    NoUser = NoUser
    NoRow = NoRow
SYMMETRY Symmetry
PROPERTIES
    SweepTakesOnlyTheRefused
