\* A call stops between the status and the refund.
SPECIFICATION FairSpec
CONSTANTS
    Withdrawal = {w1}
    Worker = {k1, k2}
    Amount = {1}
    InitialBalance = 1
    Limit = 4
    Configured = TRUE
    MaxFailures = 1
PROPERTIES
    FailedIsRefundedAtLast
CHECK_DEADLOCK FALSE
