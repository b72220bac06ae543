SPECIFICATION FairSpec
CONSTANTS
    c1 = c1
    l1 = l1
    p1 = p1
    p2 = p2
    s1 = s1
    PaidJobs = {p1, p2}
    CashJobs = {c1}
    Seekers = {s1}
    Listings = {l1}
    MaxLimit = 1
INVARIANTS
    BookedNotWaitlisted
PROPERTIES
    EveryPaidJobServed
CHECK_DEADLOCK FALSE
