SPECIFICATION Spec
CONSTANTS
    u1 = u1
    u2 = u2
    b1 = b1
    b2 = b2
    c1 = c1
    c2 = c2
    o1 = o1
    Users = {u1, u2}
    Bookings = {b1, b2}
    Cases = {c1, c2}
    Ops = {o1}
    PastScore <- MCPastScore
SYMMETRY Symmetry
INVARIANTS
    LedgerExplainsScore
    PenalizedOnce
    ReversedOnce
    OneRewardPerWeek
CHECK_DEADLOCK FALSE
