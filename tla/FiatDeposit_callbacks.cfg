\* Two deposits, two callbacks at once, repeated and reordered.
SPECIFICATION FairSpec
CONSTANTS
    Deposit = {d1, d2}
    Handler = {h1, h2}
    Configured = TRUE
INVARIANTS
    CreditedOnceWhenCompleted
    SuccessIffCredited
PROPERTIES
    CompletedIsCredited
CHECK_DEADLOCK FALSE
