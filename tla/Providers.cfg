SPECIFICATION Spec
CONSTANTS
    p1 = p1
    p2 = p2
    l1 = l1
    l2 = l2
    Payments = {p1, p2}
    Listings = {l1, l2}
    BasicLimit = 1
SYMMETRY Symmetry
INVARIANTS
    PaymentCountsOnce
    RunningMonthCounts
    ListingLimitKept
PROPERTIES
    AppliedAsPriced
CHECK_DEADLOCK FALSE
