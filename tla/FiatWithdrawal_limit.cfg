\* Three withdrawals of one user against the day's limit, two calls at once.
SPECIFICATION Spec
CONSTANTS
    Withdrawal = {w1, w2, w3}
    Worker = {k1, k2}
    Amount = {1, 2}
    InitialBalance = 6
    Limit = 3
    Configured = FALSE
    MaxFailures = 1
SYMMETRY Symmetry
INVARIANTS
    LimitOvershootBounded
CHECK_DEADLOCK FALSE
