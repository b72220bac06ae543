CONSTANTS
    Workers = {w1}
    Requests = {r1}
    Reports = {}
    Escalations = {}
    AdminBooking = ab
    PaymentMethod = "GCash"
    LiveKey = TRUE
SPECIFICATION Spec
INVARIANTS
    RefundedNotReleased
CHECK_DEADLOCK FALSE
