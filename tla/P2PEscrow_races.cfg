\* Two dispute requests at once, two trades, one offer.  Liveness: no symmetry.
SPECIFICATION FairSpec
CONSTANTS
    User = {u1, u2}
    Offer = {o1}
    Trade = {t1, t2}
    Worker = {w1, w2}
    OfferInput <- SellOne
    Amount = {1}
    InitialBalance = 2
    TRADE_MINUTES = 1
    MaxClock = 3
INVARIANTS
    EscrowMatchesTrail
    UndisputedSettlesOnce
PROPERTIES
    DisputeFreezesEscrow
    ImplementsPromise
    ExpiredTradeIsClosed
