SPECIFICATION Spec
CONSTANTS
    c1 = c1
    c2 = c2
    p1 = p1
    p2 = p2
    p3 = p3
    s1 = s1
    PaidJobs = {p1, p2, p3}
    CashJobs = {c1, c2}
    Seekers = {s1}
    Listings = {}
    MaxLimit = 3
SYMMETRY Symmetry
INVARIANTS
    NeverCollides
    OneJobAtWork
    QueueFollowsBooking
    NoWaitUnderstated
PROPERTIES
    ImplementsLine
CHECK_DEADLOCK FALSE
