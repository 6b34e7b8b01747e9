SPECIFICATION FairSpec
CONSTANTS
    u1 = u1
    a1 = a1
    User = {u1, a1}
    EmailAdmin = {}
    Blacklisted = {}
    PlatformFees = None
    FirstRoles <- MCRoles
    Request = {1, 2}
    None = None
    Role = {"ADMIN", "TREASURY"}
    Pool = {p1}
    Stake = {1, 2}
    Staker = {u1}
    Asset = {"USDT", "BTC"}
    Terms <- MCTerms
    Amount = {4}
    Caller = {1, 2}
    Settler = {1, 2}
    PoolRow <- MCRows
    MaxServed = 2
    MaxAsked = 4
    BatchSize = 1
    InitialBalance = 8
    MaxClock = 1
    MaxChanges = 2
    Net <- MCNet
    Fee <- MCFee
INVARIANTS
    RowsFitTogether
    PaidOnce
    FundsMatchStakes
PROPERTIES
    LimitsKeptAlone
    MaturedIsPaid
CHECK_DEADLOCK FALSE
