SPECIFICATION Spec
CONSTANTS
    s1 = s1
    s2 = s2
    l1 = l1
    l2 = l2
    g1 = g1
    g2 = g2
    c1 = c1
    c2 = c2
    Sids = {s1, s2}
    Links = {l1, l2}
    Subjects = {g1, g2}
    Calls = {c1, c2}
    MaxHash = 2
    MaxToken = 2
SYMMETRY Symmetry
INVARIANTS
    SessionsMatchPassword
    UsedOnce
    SocketsFollowSessions
PROPERTIES
    GoogleKept
CHECK_DEADLOCK FALSE
