SPECIFICATION Spec
CONSTANTS
    MaxBans = 2
    MaxSubmissions = 2
INVARIANTS
    BanHolds
    AppealCanBeDecided
    VerificationFollowsSubmissions
PROPERTIES
    DeletedOwesNothing
CHECK_DEADLOCK FALSE
