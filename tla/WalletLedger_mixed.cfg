\* Calls that lock and calls that do not, two at a time.
SPECIFICATION FairSpec
CONSTANTS
    a = a
    b = b
    Wallet = {a, b}
    Tx = {t1, t2, t3}
    Call <- AllCalls
    InitialBalance = 2
    ConnectionLimit = 2
    None = None
INVARIANTS
    EscrowIsExact
    LockingKeepsBooks
PROPERTIES
    CurrentCommitsMatchEntries
    TransactionsEnd
