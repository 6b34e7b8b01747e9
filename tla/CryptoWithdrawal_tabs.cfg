SPECIFICATION FairSpec
CONSTANTS
    t1 = t1
    t2 = t2
    Page <- Tabs
    Amount = {4, 10}
    MinNet = 10
    Fee = 2
    InitialBalance = 27
    Trade = {trade}
    EscrowAmount = 5
    MaxRequests = 2
    MaxSettlements = 2
INVARIANTS
    BooksBalance
    ErrorMeansNothing
    OnePerVisit
PROPERTIES
    PendingIsPaid
CHECK_DEADLOCK FALSE
