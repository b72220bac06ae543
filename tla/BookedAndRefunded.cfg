CONSTANTS
    o1 = o1
    w1 = w1
    w2 = w2
    Offers = {o1}
    Listings = {}
    CashRequests = {}
    ListingOf <- MCListingOf
    Workers = {w1, w2}
    MaxAttempts = 1
    DoubleSubmit = TRUE
SPECIFICATION Spec
INVARIANTS
    BookedNotRefunded
CHECK_DEADLOCK FALSE
