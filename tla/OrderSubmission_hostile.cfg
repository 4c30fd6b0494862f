CONSTANTS
    w1 = w1
    w2 = w2
    Workers = {w1, w2}
    Keys = {k1}
    Intents = {buy, sell}
    TTL = 1
    Absent = absent
    NoKey = nokey
    Codes = {10009, 10004, 10013, 10031, 10099}
    NoReply = noreply
    Raised = raised
    SlowRequests = TRUE
    Restarts = TRUE
SPECIFICATION FairSpec
PROPERTIES
    ReplaysOwnIntent
    ReservationStands
    ReservationsResolve
