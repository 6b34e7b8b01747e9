SPECIFICATION FairSpec
CONSTANTS
    Intent = {i1, i2}
    Txid = {x1, x2}
    Payment = {x1}
    Worker = {k1, k2}
    None = None
    MaxFailures = 1
    Others = {i2}
    OthersTxid = {x1}
    Hash = {"h1", "h2"}
    OtherText = {"other"}
    Value = {2, 3, 4, 6}
    Height = {0, 1, 2, 3, 4}
    MaxLogs = 2
    MinNet = 3
    ServiceFee = 1
    Required = 2
INVARIANTS
    CreditedOnce
    StatusTellsCredit
    PageTellsTruth
    VerifiedSoundly
PROPERTIES
    PaymentIsCredited
CHECK_DEADLOCK FALSE
