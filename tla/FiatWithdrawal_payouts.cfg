\* One withdrawal and everything that may be served for it, three at once.
SPECIFICATION FairSpec
CONSTANTS
    Withdrawal = {w1}
    Worker = {k1, k2, k3}
    Amount = {1, 2}
    InitialBalance = 1
    Limit = 2
    Configured = TRUE
    MaxFailures = 2
INVARIANTS
    ReversedOnce
    BalanceMatchesWithdrawals
    NeverPaidAndReversed
    RecordsAgree
PROPERTIES
    FailedIsRefunded
CHECK_DEADLOCK FALSE
