\* Two transactions on the same wallet.
SPECIFICATION Spec
CONSTANTS
    a = a
    b = b
    Wallet = {a, b}
    Tx = {t1, t2}
    Call <- CreditAndLock
    InitialBalance = 2
    ConnectionLimit = 2
    None = None
INVARIANTS
    BalanceIsEntrySum
