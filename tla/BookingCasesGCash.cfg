CONSTANTS
    Workers = {w1, w2}
    Requests = {r1}
    Reports = {p1}
    Escalations = {e1}
    AdminBooking = ab
    PaymentMethod = "GCash"
    LiveKey = FALSE
SPECIFICATION Spec
SYMMETRY Symmetry
INVARIANTS
    SettledConsistently
    RefundedNotReleased
    ReservedDecisionProtected
    PausedHasCase
PROPERTIES
    UnderReviewEnds
    DecisionMonotone
    ImplementsSettlement
CHECK_DEADLOCK FALSE
