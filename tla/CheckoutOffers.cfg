CONSTANTS
    o1 = o1
    o2 = o2
    l1 = l1
    k1 = k1
    w1 = w1
    Offers = {o1, o2}
    Listings = {l1}
    CashRequests = {k1}
    ListingOf <- MCListingOf
    Workers = {w1}
    MaxAttempts = 1
    DoubleSubmit = FALSE
SPECIFICATION TwoDealsSpec
INVARIANTS
    OneSelection
    OneActiveBooking
PROPERTIES
    SiblingsWait
    ImplementsPurchases
    CapturedSettles
    HoldEnds
CHECK_DEADLOCK FALSE
