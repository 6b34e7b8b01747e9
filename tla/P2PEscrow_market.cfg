\* Three users, offers on both sides, amounts of one and two, one request.
SPECIFICATION Spec
CONSTANTS
    User = {u1, u2, u3}
    Offer = {o1, o2}
    Trade = {t1, t2}
    Worker = {w1}
    OfferInput <- BuyOrSellUpToTwo
    Amount = {1, 2}
    InitialBalance = 2
    TRADE_MINUTES = 1
    MaxClock = 3
SYMMETRY Symmetry
INVARIANTS
    TypeOK
    BalanceMatchesTrail
    CountersMatchTrail
    OneTradePerTaker
