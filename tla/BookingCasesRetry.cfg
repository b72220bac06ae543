CONSTANTS
    Workers = {w1}
    Requests = {}
    Reports = {p1}
    Escalations = {e1}
    AdminBooking = ab
    PaymentMethod = "GCash"
    LiveKey = TRUE
SPECIFICATION FairSpec
PROPERTIES
    ReservedDecisionCompletes
CHECK_DEADLOCK FALSE
