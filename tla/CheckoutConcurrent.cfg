CONSTANTS
    o1 = o1
    w1 = w1
    w2 = w2
    Offers = {o1}
    Listings = {}
    CashRequests = {}
    ListingOf <- MCListingOf
    Workers = {w1, w2}
    MaxAttempts = 2
    DoubleSubmit = FALSE
SPECIFICATION Spec
SYMMETRY Symmetry
INVARIANTS
    BookedNotRefunded
    CapturedNotLost
    HoldHasAttempt
CHECK_DEADLOCK FALSE
