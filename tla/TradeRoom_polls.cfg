SPECIFICATION RoomFairSpec
CONSTANTS
    Call <- AllCalls
    Round = {1, 2}
    MaxMoves = 1
    FirstStatus = {"PENDING", "PAID", "DISPUTED"}
    MaxServed = 2
    MaxLogins = 2
    MaxExpiries = 1
INVARIANTS
    SessionsSound
    HandledOnce
PROPERTIES
    RefusedOnlyWhenStale
    CatchesUp
CHECK_DEADLOCK FALSE
